--------------------------- MODULE SessionProofs ---------------------------
(***************************************************************************)
(* What is proved of Session, for any number of users of the one phone, of *)
(* users and newcomers elsewhere, and of houses.                           *)
(***************************************************************************)
EXTENDS Session, HomeProofs

-----------------------------------------------------------------------------
(* The inductive invariant.                                                *)

\* Only the dinner switch and the schedule are written; a reliable user's
\* dinner switch is the own one.
Queued(v, s) ==
  \A i \in 1 .. Len(s) :
    /\ s[i].path \in {"users/dinner", "houses/firstWeek"}
    /\ v \in Reliable /\ s[i].path = "users/dinner" => s[i].user = v

\* The phone is one user's at a time, and holds nothing of the others.
Seat(v) ==
  /\ Running(v) => signedIn = v
  /\ asked[v] # {} => phase[v] \in {"loading", "frozen"}
  /\ ~Running(v) => me[v] = NoUser
  /\ known[v] => Running(v) \/ last = v
  /\ Queued(v, uplink[v])

\* Once users/ is read, the memory and the reference are the user's own.
Own(v) ==
  /\ record[v] # "stored" => users[v].house = Null
  /\ me[v].house \in {Null, users[v].house}
  /\ signedIn = v => online[v]
  /\ phase[v] = "ready" \/ (phase[v] = "loading" /\ "users" \notin asked[v]) =>
       me[v].house = users[v].house /\ ref = v

\* What the users share.
Shared ==
  /\ atLogIn => signedIn = Null
  /\ last # Null => atLogIn
  /\ ref = Null => directory = {} /\ \A v \in Sharers : ~known[v]
  /\ \A v \in Sharers : record[v] # "none" => v \in accounts

Ownership ==
  /\ Shared
  /\ \A v \in Sharers : Seat(v)
  /\ \A v \in Reliable : Own(v)

SessionInv == SessionTypeOK /\ Ownership

-----------------------------------------------------------------------------
(* Type correctness.                                                       *)

\* The session's own variables, apart from those of Home.
SessionPartOK ==
  /\ accounts \subseteq Users
  /\ record \in [Users -> {"none", "unsent", "stored"}]
  /\ signedIn \in Sharers \cup {Null}
  /\ atLogIn \in BOOLEAN
  /\ last \in Sharers \cup {Null}
  /\ ref \in Sharers \cup {Null}
  /\ directory \subseteq Users
  /\ lists \in [dinner: SUBSET Users, yourHouse: SUBSET Users]
  /\ homeTop \in {"home", "dinner"}
  /\ profileTop \in {"profile", "yourHouse"}
  /\ houseButton \in BOOLEAN

LEMMA TypeParts == SessionTypeOK <=> HomeTypeOK /\ SessionPartOK
BY DEF SessionTypeOK, HomeTypeOK, SessionPartOK

\* The screens' own variables when a process ends or is left.
LEMMA NewTabsTyped ==
  ASSUME NewTabs
  PROVE  /\ lists' \in [dinner: SUBSET Users, yourHouse: SUBSET Users]
         /\ homeTop' \in {"home", "dinner"}
         /\ profileTop' \in {"profile", "yourHouse"}
         /\ houseButton' \in BOOLEAN
BY DEF NewTabs

LEMMA FollowTyped ==
  ASSUME SessionTypeOK, NEW u \in Users, FollowDirectory(u)
  PROVE  directory' \subseteq Users
BY DEF FollowDirectory, RecordsFor, Stored, SessionTypeOK

LEMMA ForgetTyped ==
  ASSUME SessionTypeOK, NEW u \in Users, ForgetSession(u)
  PROVE  /\ label' \in [Users -> Houses \cup {Null}]
         /\ record' \in [Users -> {"none", "unsent", "stored"}]
         /\ ref' \in Sharers \cup {Null}
         /\ lists' \in [dinner: SUBSET Users, yourHouse: SUBSET Users]
         /\ homeTop' \in {"home", "dinner"}
         /\ profileTop' \in {"profile", "yourHouse"}
         /\ houseButton' \in BOOLEAN
<1>1. label' \in [Users -> Houses \cup {Null}]
  BY DEF ForgetSession, LabelLost, SessionTypeOK, LabelTypeOK
<1>2. record' \in [Users -> {"none", "unsent", "stored"}]
  BY DEF ForgetSession, SessionTypeOK
<1> QED
  BY <1>1, <1>2, NewTabsTyped DEF ForgetSession

\* What WithSession adds to a step of Home.
AroundHome(u) ==
  /\ FollowDirectory(u)
  /\ IF Running(u) /\ ~Running(u)' THEN ForgetSession(u)
     ELSE UNCHANGED <<record, ref, tabs>>
  /\ UNCHANGED <<accounts, signedIn, atLogIn, last>>

LEMMA AroundTyped ==
  ASSUME SessionTypeOK, NEW u \in Users, AroundHome(u)
  PROVE  SessionPartOK'
<1>1. directory' \subseteq Users
  BY FollowTyped DEF AroundHome
<1>2. CASE ForgetSession(u)
  BY <1>1, <1>2, ForgetTyped DEF AroundHome, SessionTypeOK, SessionPartOK
<1>3. CASE UNCHANGED <<record, ref, tabs>>
  BY <1>1, <1>3 DEF AroundHome, SessionTypeOK, SessionPartOK, tabs
<1> QED
  BY <1>2, <1>3 DEF AroundHome


\* The process of the signed-in user ends, by a trap, perhaps with a write
\* that was just sent, or by hand.
LEMMA FallTyped ==
  ASSUME SessionTypeOK, NEW u \in Sharers, Fall(u) \/ EndApp(u),
         users' \in [Users -> UserNode], houses' \in [Houses -> HouseNode]
  PROVE  SessionTypeOK'
<1>1. PICK how \in {"off", "crashed"} : Stop(u, how)
  BY DEF Fall, EndApp, Crash
<1>2. /\ ForgetSession(u) /\ directory' = {}
      /\ UNCHANGED <<online, week, accounts, signedIn, atLogIn, last>>
  BY DEF Fall, EndApp
<1>3. u \in Users /\ DeviceTypeOK
  BY SessionAssumption DEF SessionTypeOK
<1>4. HomeTypeOK'
  BY <1>1, <1>2, <1>3, StopTyped, ForgetTyped DEF HomeTypeOK, DeviceTypeOK, LabelTypeOK
<1>5. SessionPartOK'
  BY <1>2, <1>3, ForgetTyped DEF SessionTypeOK, SessionPartOK
<1> QED
  BY <1>4, <1>5 DEF SessionTypeOK, HomeTypeOK, SessionPartOK

LEMMA EndsTyped ==
  ASSUME SessionTypeOK, NEW u \in Sharers, Trap(u) \/ EndApp(u)
  PROVE  SessionTypeOK'
<1>1. users' \in [Users -> UserNode] /\ houses' \in [Houses -> HouseNode]
  BY DEF Trap, EndApp, database, SessionTypeOK, DeviceTypeOK
<1> QED
  BY <1>1, FallTyped DEF Trap

\* The connection and its answers.
LEMMA ServeTyped ==
  ASSUME SessionTypeOK, NEW u \in Sharers, Serve(u)
  PROVE  SessionTypeOK'
<1>1. u \in Users /\ HomeTypeOK /\ SessionPartOK
  BY SessionAssumption, TypeParts
<1>2. CASE StoreRecord(u)
  <2>1. /\ users' \in [Users -> UserNode]
        /\ record' \in [Users -> {"none", "unsent", "stored"}]
    BY <1>1, <1>2, NodesTyped DEF StoreRecord, HomeTypeOK, DeviceTypeOK, SessionPartOK
  <2> QED
    BY <1>2, <2>1 DEF StoreRecord, SessionTypeOK, DeviceTypeOK, LabelTypeOK, memory, tabs
<1>3. CASE Deliver(u)
  <2>1. HomeTypeOK'
    BY <1>1, <1>3, BackgroundTyped DEF Deliver, Background
  <2>2. SessionPartOK'
    BY <1>1, <1>3 DEF Deliver, SessionPartOK, session, tabs
  <2> QED
    BY <2>1, <2>2 DEF SessionTypeOK, HomeTypeOK, SessionPartOK
<1>4. CASE AnswerUsers(u)
  <2>1. CASE ServeUsers(u) /\ FollowDirectory(u) /\ ref' = u
             /\ UNCHANGED <<label, accounts, record, signedIn, atLogIn, last, tabs>>
    <3>1. HomeTypeOK'
      BY <1>1, <2>1, BackgroundTyped DEF Background
    <3>2. SessionPartOK'
      BY <1>1, <2>1, FollowTyped DEF SessionPartOK, tabs
    <3> QED
      BY <3>1, <3>2 DEF SessionTypeOK, HomeTypeOK, SessionPartOK
  <2>2. CASE Trap(u)
    BY <2>2, EndsTyped
  <2>3. CASE /\ asked' = [asked EXCEPT ![u] = @ \ {"users"}]
             /\ phase' = [phase EXCEPT ![u] = "frozen"]
             /\ UNCHANGED <<database, uplink, online, screen, then, memory, week, label,
                            session, directory, tabs>>
    <3>1. asked' \in [Users -> SUBSET {"users", "houses"}] /\ phase' \in [Users -> Phases]
      BY <1>1, <2>3 DEF HomeTypeOK, DeviceTypeOK, Phases
    <3> QED
      BY <2>3, <3>1
      DEF SessionTypeOK, DeviceTypeOK, LabelTypeOK, database, memory, session, tabs
  <2> QED
    BY <1>4, <2>1, <2>2, <2>3 DEF AnswerUsers
<1>5. CASE AnswerHouses(u)
  <2>1. HomeTypeOK'
    BY <1>1, <1>5, BackgroundTyped DEF AnswerHouses, WithSession, Background
  <2>2. SessionPartOK'
    BY <1>1, <1>5, AroundTyped DEF AnswerHouses, WithSession, AroundHome
  <2> QED
    BY <2>1, <2>2 DEF SessionTypeOK, HomeTypeOK, SessionPartOK
<1> QED
  BY <1>2, <1>3, <1>4, <1>5 DEF Serve

\* A screen put on top with a load, and one without.
LEMMA ShowTyped ==
  ASSUME SessionTypeOK, NEW u \in Sharers, NEW s \in Screens, NEW step \in Steps,
         Show(u, s, step) \/ TurnTo(u, s)
  PROVE  /\ HomeTypeOK'
         /\ directory' \subseteq Users
         /\ UNCHANGED session
<1>1. u \in Users /\ HomeTypeOK
  BY SessionAssumption, TypeParts
<1>2. screen' \in [Users -> Screens]
  BY <1>1 DEF Show, TurnTo, HomeTypeOK, DeviceTypeOK
<1>3. CASE Show(u, s, step)
  <2>1. Run(step) \in Handlers
    BY DEF Run, Handlers
  <2>2. directory' \subseteq Users
    BY <1>1, <1>3, FollowTyped DEF Show
  <2> QED
    BY <1>1, <1>2, <1>3, <2>1, <2>2, GetAllDataTyped
    DEF Show, HomeTypeOK, DeviceTypeOK, LabelTypeOK, database
<1>4. CASE TurnTo(u, s)
  BY <1>1, <1>2, <1>4
  DEF TurnTo, SessionTypeOK, HomeTypeOK, DeviceTypeOK, LabelTypeOK, database, memory
<1> QED
  BY <1>3, <1>4


\* The dinner table, Your House and the tab bar.
LEMMA ListsTyped ==
  ASSUME SessionTypeOK, NEW u \in Sharers,
         \/ PushDinnerTable(u) \/ DinnerShown(u) \/ LeaveDinnerTable(u)
         \/ ProfileLoaded(u) \/ PushYourHouse(u) \/ LeaveYourHouse(u)
         \/ TabToProfile(u) \/ TabToHome(u)
  PROVE  SessionTypeOK'
<1>1. u \in Users /\ HomeTypeOK /\ SessionPartOK /\ residents[u] \subseteq Users
  BY SessionAssumption, TypeParts DEF HomeTypeOK, DeviceTypeOK
<1>2. /\ {"home", "dinner", "profile", "yourHouse"} \subseteq Screens
      /\ {"appear", "dinner", "profile"} \subseteq Steps
  BY DEF Screens, Steps
<1>3. CASE DinnerShown(u) /\ ~Trap(u)
  <2>1. SessionPartOK'
    BY <1>1, <1>3 DEF DinnerShown, SessionPartOK, session
  <2>2. HomeTypeOK'
    BY <1>1, <1>3, RestTyped DEF DinnerShown, HomeTypeOK, DeviceTypeOK, LabelTypeOK, database
  <2> QED
    BY <2>1, <2>2 DEF SessionTypeOK, HomeTypeOK, SessionPartOK
<1>4. CASE ProfileLoaded(u)
  <2>1. SessionPartOK'
    BY <1>1, <1>4 DEF ProfileLoaded, SessionPartOK, session
  <2>2. HomeTypeOK'
    BY <1>1, <1>4, RestTyped DEF ProfileLoaded, HomeTypeOK, DeviceTypeOK, LabelTypeOK, database
  <2> QED
    BY <2>1, <2>2 DEF SessionTypeOK, HomeTypeOK, SessionPartOK
<1>5. CASE PushYourHouse(u) /\ ~Trap(u)
  <2>1. SessionPartOK'
    BY <1>1, <1>5 DEF PushYourHouse, SessionPartOK, session
  <2>2. screen' \in [Users -> Screens]
    BY <1>1, <1>2, <1>5 DEF PushYourHouse, HomeTypeOK, DeviceTypeOK
  <2>3. HomeTypeOK'
    BY <1>1, <1>5, <2>2
    DEF PushYourHouse, HomeTypeOK, DeviceTypeOK, LabelTypeOK, database, memory
  <2> QED
    BY <2>1, <2>3 DEF SessionTypeOK, HomeTypeOK, SessionPartOK
<1>6. CASE Trap(u)
  BY <1>6, EndsTyped
<1>7. CASE PushDinnerTable(u) \/ LeaveDinnerTable(u) \/ LeaveYourHouse(u)
  <2>1. \E s \in Screens, step \in Steps : Show(u, s, step)
    BY <1>2, <1>7 DEF PushDinnerTable, LeaveDinnerTable, LeaveYourHouse
  <2>2. HomeTypeOK' /\ directory' \subseteq Users /\ UNCHANGED session
    BY <2>1, ShowTyped
  <2>3. SessionPartOK'
    BY <1>1, <1>7, <2>2
    DEF PushDinnerTable, LeaveDinnerTable, LeaveYourHouse, SessionPartOK, session
  <2> QED
    BY <2>2, <2>3 DEF SessionTypeOK, HomeTypeOK, SessionPartOK
<1>8. CASE TabToProfile(u) \/ TabToHome(u)
  <2>1. \E s \in Screens, step \in Steps : Show(u, s, step) \/ TurnTo(u, s)
    BY <1>2, <1>8 DEF TabToProfile, TabToHome
  <2>2. HomeTypeOK' /\ directory' \subseteq Users /\ UNCHANGED session
    BY <2>1, ShowTyped
  <2>3. SessionPartOK'
    BY <1>1, <1>8, <2>2 DEF TabToProfile, TabToHome, SessionPartOK, session, tabs
  <2> QED
    BY <2>2, <2>3 DEF SessionTypeOK, HomeTypeOK, SessionPartOK
<1> QED
  BY <1>3, <1>4, <1>5, <1>6, <1>7, <1>8

\* Logging in and out.
LEMMA AccountTyped ==
  ASSUME SessionTypeOK, NEW u \in Sharers, LogIn(u) \/ Logout(u)
  PROVE  SessionTypeOK'
<1>1. u \in Users /\ HomeTypeOK /\ SessionPartOK /\ Null \notin Users
  BY SessionAssumption, TypeParts
<1>2. screen' \in [Users -> Screens]
  BY <1>1 DEF LogIn, Logout, HomeTypeOK, DeviceTypeOK, Screens
<1>3. CASE Logout(u)
  <2>1. label' \in [Users -> Houses \cup {Null}]
    BY <1>1, <1>3 DEF Logout, LabelLost, HomeTypeOK, LabelTypeOK
  <2>2. me' \in [Users -> UserNode] /\ phase' \in [Users -> Phases]
    BY <1>1, <1>3, NodesTyped DEF Logout, HomeTypeOK, DeviceTypeOK, Phases
  <2>3. HomeTypeOK'
    BY <1>1, <1>2, <1>3, <2>1, <2>2 DEF Logout, HomeTypeOK, DeviceTypeOK, LabelTypeOK, database
  <2>4. SessionPartOK'
    BY <1>1, <1>3, NewTabsTyped DEF Logout, SessionPartOK
  <2> QED
    BY <2>3, <2>4 DEF SessionTypeOK, HomeTypeOK, SessionPartOK
<1>4. CASE LogIn(u)
  <2>1. /\ accounts' \subseteq Users
        /\ record' \in [Users -> {"none", "unsent", "stored"}]
        /\ ref' \in Sharers \cup {Null}
    BY <1>1, <1>4 DEF LogIn, RegisterIfNew, SessionPartOK
  <2>2. me' \in [Users -> UserNode] /\ residents' \in [Users -> SUBSET Users]
    <3>1. CASE last \in Users
      <4>1. me[last] \in UserNode /\ residents[last] \in SUBSET Users
        BY <1>1, <3>1 DEF HomeTypeOK, DeviceTypeOK
      <4>2. /\ me' = [me EXCEPT ![last] = NoUser, ![u] = me[last]]
            /\ residents' = [residents EXCEPT ![last] = {}, ![u] = residents[last]]
        BY <1>4, <3>1 DEF LogIn, InheritFrom
      <4>3. me' \in [Users -> UserNode]
        BY <1>1, <4>1, <4>2, NodesTyped DEF HomeTypeOK, DeviceTypeOK
      <4>4. residents' \in [Users -> SUBSET Users]
        BY <1>1, <4>1, <4>2 DEF HomeTypeOK, DeviceTypeOK
      <4> QED
        BY <4>3, <4>4
    <3>2. CASE last \notin Users
      BY <1>1, <1>4, <3>2 DEF LogIn, HomeTypeOK, DeviceTypeOK
    <3> QED
      BY <3>1, <3>2
  <2>3. /\ phase' \in [Users -> Phases]
        /\ then' \in [Users -> Handlers]
        /\ asked' \in [Users -> SUBSET {"users", "houses"}]
        /\ seen' \in [Users -> [Houses -> HouseNode]]
        /\ known' \in [Users -> BOOLEAN]
        /\ online' \in [Users -> BOOLEAN]
        /\ directory' \subseteq Users
    <3>1. Run("appear") \in Handlers /\ {"loading", "ready"} \subseteq Phases
      BY DEF Run, Handlers, Steps, Phases
    <3>2. CASE /\ phase' = [phase EXCEPT ![u] = "loading"]
               /\ then' = [then EXCEPT ![u] = Run("appear")]
               /\ asked' = [asked EXCEPT ![u] = {"users", "houses"}]
               /\ seen' = [v \in Users |-> NoHouses]
               /\ known' = [v \in Users |-> FALSE]
               /\ directory' = {}
               /\ UNCHANGED online
      <4>1. asked' \in [Users -> SUBSET {"users", "houses"}]
        BY <1>1, <3>2 DEF HomeTypeOK, DeviceTypeOK
      <4>2. seen' \in [Users -> [Houses -> HouseNode]]
        BY <3>2, NodesTyped
      <4>3. /\ phase' \in [Users -> Phases] /\ then' \in [Users -> Handlers]
            /\ known' \in [Users -> BOOLEAN] /\ online' \in [Users -> BOOLEAN]
        BY <1>1, <3>1, <3>2 DEF HomeTypeOK, DeviceTypeOK
      <4> QED
        BY <3>2, <4>1, <4>2, <4>3
    <3>3. CASE /\ phase' = [phase EXCEPT ![u] = "ready"]
               /\ seen' = [v \in Users |->
                             IF v = u /\ last \in Users THEN seen[last] ELSE NoHouses]
               /\ known' = [v \in Users |-> v = u /\ u \in directory]
               /\ online' = [v \in Users |-> v \notin Sharers]
               /\ UNCHANGED <<then, asked, directory>>
      <4>1. seen' \in [Users -> [Houses -> HouseNode]]
        BY <1>1, <3>3, NodesTyped DEF HomeTypeOK, DeviceTypeOK
      <4>2. known' \in [Users -> BOOLEAN] /\ online' \in [Users -> BOOLEAN]
        BY <3>3
      <4> QED
        BY <1>1, <3>1, <3>3, <4>1, <4>2 DEF HomeTypeOK, DeviceTypeOK, SessionPartOK
    <3> QED
      BY <1>4, <3>2, <3>3 DEF LogIn
  <2>4. HomeTypeOK'
    BY <1>1, <1>2, <1>4, <2>2, <2>3 DEF LogIn, HomeTypeOK, DeviceTypeOK, LabelTypeOK, database
  <2>5. SessionPartOK'
    BY <1>1, <1>4, <2>1, <2>3 DEF LogIn, SessionPartOK, tabs
  <2> QED
    BY <2>4, <2>5 DEF SessionTypeOK, HomeTypeOK, SessionPartOK
<1> QED
  BY <1>3, <1>4

\* The launch, the end at LogIn, the connection, and other phones.
LEMMA AroundUsersTyped ==
  ASSUME SessionTypeOK, ShowApp \/ EndAtLogIn \/ Reach \/ Elsewhere
  PROVE  SessionTypeOK'
<1>1. HomeTypeOK /\ SessionPartOK /\ Sharers \subseteq Users /\ Newcomers \subseteq Users
  BY SessionAssumption, TypeParts
<1>2. CASE ShowApp
  <2>1. CASE /\ atLogIn' = TRUE
             /\ UNCHANGED <<homeVars, ref, directory, accounts, record, signedIn, last, tabs>>
    BY <2>1 DEF SessionTypeOK, DeviceTypeOK, LabelTypeOK, homeVars, deviceVars, tabs
  <2>2. ASSUME NEW u \in Sharers, Launch(u), ref' = u, FollowDirectory(u),
               UNCHANGED <<label, atLogIn, accounts, record, signedIn, last, tabs>>
        PROVE  SessionTypeOK'
    <3>1. HomeTypeOK'
      BY <1>1, <2>2, HomeTapsTyped DEF Lifecycle
    <3>2. SessionPartOK'
      BY <1>1, <2>2, FollowTyped DEF SessionPartOK, tabs
    <3> QED
      BY <3>1, <3>2 DEF SessionTypeOK, HomeTypeOK, SessionPartOK
  <2> QED
    BY <1>2, <2>1, <2>2 DEF ShowApp
<1>3. CASE EndAtLogIn
  <2>1. /\ uplink' \in [Users -> Seq(Puts)]
        /\ record' \in [Users -> {"none", "unsent", "stored"}]
        /\ me' \in [Users -> UserNode]
        /\ known' \in [Users -> BOOLEAN]
        /\ seen' \in [Users -> [Houses -> HouseNode]]
        /\ residents' \in [Users -> SUBSET Users]
    <3>1. << >> \in Seq(Puts)
      OBVIOUS
    <3> QED
      BY <1>1, <1>3, <3>1, NodesTyped DEF EndAtLogIn, SessionPartOK
  <2>2. HomeTypeOK'
    BY <1>1, <1>3, <2>1 DEF EndAtLogIn, HomeTypeOK, DeviceTypeOK, LabelTypeOK, database
  <2>3. SessionPartOK'
    BY <1>1, <1>3, <2>1 DEF EndAtLogIn, SessionPartOK, tabs
  <2> QED
    BY <2>2, <2>3 DEF SessionTypeOK, HomeTypeOK, SessionPartOK
<1>4. CASE Reach
  BY <1>4 DEF Reach, SessionTypeOK, DeviceTypeOK, LabelTypeOK, database, memory, session, tabs
<1>5. CASE \E u \in Newcomers : Enroll(u)
  BY <1>1, <1>5
  DEF Enroll, SessionTypeOK, DeviceTypeOK, LabelTypeOK, homeVars, deviceVars, tabs
<1>6. CASE \E u \in Newcomers, h \in Houses : MoveIn(u, h)
  <2>1. PICK u \in Newcomers, h \in Houses : MoveIn(u, h)
    BY <1>6
  <2>2. SetHome(u, h) \in Puts /\ SetResident(h, u, TRUE) \in Puts
    BY <1>1 DEF SetHome, SetResident, Puts
  <2>3. users' \in [Users -> UserNode] /\ houses' \in [Houses -> HouseNode]
    BY <1>1, <2>1, <2>2, PutsKeepTree DEF MoveIn, HomeTypeOK, DeviceTypeOK
  <2> QED
    BY <2>1, <2>3 DEF MoveIn, SessionTypeOK, DeviceTypeOK, LabelTypeOK, memory, session, tabs
<1> QED
  BY <1>2, <1>3, <1>4, <1>5, <1>6 DEF Elsewhere


\* The dinner switch needs a reference to write through.
LEMMA SwitchTyped ==
  ASSUME SessionTypeOK, Shared, NEW u \in Sharers, SwitchDinner(u)
  PROVE  SessionTypeOK'
<1>1. u \in Users /\ HomeTypeOK /\ SessionPartOK
  BY SessionAssumption, TypeParts
<1>2. CASE Trap(u)
  BY <1>2, EndsTyped
<1>3. ASSUME NEW on \in BOOLEAN, ref \in Stored, LastWrite(u, SetDinner(ref, on)), Fall(u)
      PROVE  SessionTypeOK'
  <2>1. users' \in [Users -> UserNode] /\ houses' \in [Houses -> HouseNode]
    BY <1>1, <1>3, LastWriteTyped DEF Stored, HomeTypeOK
  <2> QED
    BY <1>3, <2>1, FallTyped
<1>4. CASE known[u] /\ ~Trap(u)
  <2>1. known[u] /\ \E on \in BOOLEAN : Issue(u, <<SetDinner(ref, on)>>)
    BY <1>4 DEF SwitchDinner
  <2>2. PICK on \in BOOLEAN : Issue(u, <<SetDinner(ref, on)>>)
    BY <2>1
  <2>3. ref \in Users
    BY <1>1, <2>1, SessionAssumption DEF Shared, SessionPartOK
  <2>4. <<SetDinner(ref, on)>> \in Seq(Puts)
    BY <2>3 DEF SetDinner, Puts
  <2>5. uplink' \in [Users -> Seq(Puts)]
    BY <1>1, <2>2, <2>4, IssueTyped DEF HomeTypeOK
  <2> QED
    BY <1>4, <2>5
    DEF SwitchDinner, SessionTypeOK, DeviceTypeOK, LabelTypeOK, database, memory, session, tabs
<1> QED
  BY <1>2, <1>3, <1>4 DEF SwitchDinner

\* The type invariant follows from itself and from what is known of ref.
LEMMA NextTyped ==
  ASSUME SessionTypeOK, Shared, SessionNext
  PROVE  SessionTypeOK'
<1>1. ASSUME NEW u \in Sharers, WithSession(u, HomeHandlers(u)) \/ WithSession(u, Refresh(u))
      PROVE  SessionTypeOK'
  <2>1. u \in Users /\ HomeTypeOK
    BY SessionAssumption, TypeParts
  <2>2. (HomeHandlers(u) \/ HomeTaps(u)) /\ AroundHome(u)
    BY <1>1 DEF WithSession, AroundHome, HomeTaps
  <2>3. HomeTypeOK' /\ SessionPartOK'
    BY <2>1, <2>2, HomeHandlersTyped, HomeTapsTyped, AroundTyped
  <2> QED
    BY <2>3 DEF SessionTypeOK, HomeTypeOK, SessionPartOK
<1>2. ASSUME NEW u \in Sharers, Handle(u) \/ Tap(u)
      PROVE  SessionTypeOK'
  BY <1>1, <1>2, ListsTyped, AccountTyped, SwitchTyped, EndsTyped DEF Handle, Tap
<1> QED
  BY <1>2, ServeTyped, AroundUsersTyped DEF SessionNext


-----------------------------------------------------------------------------
(* Ownership.  Most steps are seen from outside as one of four: the        *)
(* process ends, a load begins, a load or a tap is over, or one still      *)
(* waits.                                                                  *)

Ended(u) ==
  /\ phase'[u] \in {"off", "crashed"}
  /\ uplink'[u] = << >> /\ asked'[u] = {} /\ me'[u] = NoUser /\ ~known'[u]

Loading(u) ==
  /\ online[u]
  /\ phase'[u] = "loading" /\ asked'[u] = {"users", "houses"} /\ ~known'[u]
  /\ me'[u] = me[u]

Resting(u) ==
  /\ asked[u] = {} /\ (phase[u] \in {"ready", "loading"} \/ ~online[u])
  /\ phase'[u] = "ready" /\ asked'[u] = {} /\ known'[u] = known[u]
  /\ me'[u] = me[u]

Waiting(u) ==
  /\ Running(u) /\ known'[u] = known[u] /\ me'[u] = me[u]
  /\ \/ phase'[u] = "frozen"
     \/ /\ phase'[u] = phase[u] /\ asked'[u] \subseteq asked[u]
        /\ "users" \in asked[u] => "users" \in asked'[u]

OthersKept(u) ==
  \A v \in Users \ {u} :
    /\ phase'[v] = phase[v] /\ asked'[v] = asked[v] /\ known'[v] = known[v]
    /\ me'[v] = me[v] /\ uplink'[v] = uplink[v]

\* Such a step, with what it does to the session.
EndsSession(u) ==
  /\ Ended(u)
  /\ ref' = Null /\ directory' = {}
  /\ record' = [record EXCEPT ![u] = IF @ = "unsent" THEN "none" ELSE @]

GoesOn(u) ==
  /\ Loading(u) \/ Resting(u) \/ Waiting(u)
  /\ Queued(u, uplink[u]) => Queued(u, uplink'[u])
  /\ ref' \in {ref, u} /\ directory' \in {directory, {}}
  /\ UNCHANGED record

PhoneStep(u) ==
  /\ signedIn = u /\ ~atLogIn /\ OthersKept(u)
  /\ \A v \in Users : users'[v].house = users[v].house
  /\ UNCHANGED <<online, accounts, signedIn, atLogIn, last>>
  /\ EndsSession(u) \/ GoesOn(u)

LEMMA PhoneStepKeeps ==
  ASSUME SessionInv, NEW u \in Sharers, PhoneStep(u)
  PROVE  Ownership'
<1>1. /\ u \in Users /\ Null \notin Users /\ Sharers \subseteq Users /\ Reliable \subseteq Sharers
      /\ record \in [Users -> {"none", "unsent", "stored"}]
  BY SessionAssumption DEF SessionInv, SessionTypeOK, Reliable
<1>2. last = Null
  BY DEF SessionInv, Ownership, Shared, PhoneStep
<1>3. \A v \in Sharers \ {u} : ~known[v] /\ ~known'[v] /\ ~Running(v) /\ ~Running(v)'
  BY <1>1, <1>2 DEF SessionInv, Ownership, Seat, PhoneStep, OthersKept, Running
<1>4. \A v \in Users : /\ record'[v] = "stored" <=> record[v] = "stored"
                       /\ record'[v] # "none" => record[v] # "none"
  BY <1>1 DEF PhoneStep, EndsSession, GoesOn
<1>5. Shared'
  <2>1. (ref = Null => directory = {} /\ \A v \in Sharers : ~known[v])'
    <3>1. CASE EndsSession(u)
      BY <1>3, <3>1 DEF EndsSession, Ended
    <3>2. ASSUME GoesOn(u), ref' = Null
          PROVE  directory' = {} /\ \A v \in Sharers : ~known'[v]
      <4>1. ref = Null /\ directory' = {}
        BY <1>1, <3>2 DEF GoesOn, SessionInv, Ownership, Shared
      <4>2. ~known[u]
        BY <4>1 DEF SessionInv, Ownership, Shared
      <4>3. ~known'[u]
        BY <3>2, <4>2 DEF GoesOn, Loading, Resting, Waiting
      <4> QED
        BY <1>3, <4>1, <4>3
    <3> QED
      BY <3>1, <3>2 DEF PhoneStep
  <2> QED
    BY <1>1, <1>4, <2>1 DEF PhoneStep, SessionInv, Ownership, Shared
<1>6. ASSUME NEW v \in Sharers PROVE Seat(v)'
  <2>1. CASE v # u
    BY <1>1, <1>3, <2>1 DEF PhoneStep, OthersKept, SessionInv, Ownership, Seat, Running, Queued
  <2>2. CASE v = u /\ EndsSession(u)
    BY <2>2 DEF EndsSession, Ended, Seat, Running, Queued
  <2>3. CASE v = u /\ GoesOn(u)
    <3>1. Queued(u, uplink[u])'
      BY <2>3 DEF GoesOn, SessionInv, Ownership, Seat, Queued
    <3>2. Running(u)' /\ (asked'[u] # {} => phase'[u] \in {"loading", "frozen"})
      BY <2>3 DEF GoesOn, Loading, Resting, Waiting, SessionInv, Ownership, Seat, Running
    <3> QED
      BY <2>3, <3>1, <3>2 DEF PhoneStep, Seat, Running
  <2> QED
    BY <2>1, <2>2, <2>3 DEF PhoneStep
<1>7. ASSUME NEW v \in Reliable PROVE Own(v)'
  <2>1. Own(v) /\ v \in Sharers /\ v \in Users
    BY <1>1, <1>7 DEF SessionInv, Ownership
  <2>2. CASE v # u
    BY <1>1, <1>3, <1>4, <2>1, <2>2 DEF PhoneStep, OthersKept, Own, Running
  <2>3. CASE v = u /\ EndsSession(u)
    BY <1>4, <2>1, <2>3 DEF PhoneStep, EndsSession, Ended, Own, NoUser
  <2>4. CASE v = u /\ GoesOn(u)
    <3>1. /\ record'[u] = record[u] /\ users'[u].house = users[u].house /\ me'[u] = me[u]
          /\ online[u] /\ online'[u] /\ (ref = u => ref' = u)
      BY <2>1, <2>4 DEF PhoneStep, GoesOn, Loading, Resting, Waiting, Own
    <3>2. CASE Loading(u)
      BY <2>1, <2>4, <3>1, <3>2 DEF Loading, Own
    <3>3. CASE Resting(u)
      BY <2>1, <2>4, <3>1, <3>3 DEF Resting, Own
    <3>4. CASE Waiting(u)
      BY <2>1, <2>4, <3>1, <3>4 DEF Waiting, Own
    <3> QED
      BY <2>4, <3>2, <3>3, <3>4 DEF GoesOn
  <2> QED
    BY <2>2, <2>3, <2>4 DEF PhoneStep
<1> QED
  BY <1>5, <1>6, <1>7 DEF Ownership


\* Who runs the app is signed in.
LEMMA RunningSeat ==
  ASSUME SessionInv, NEW u \in Sharers, Running(u)
  PROVE  /\ signedIn = u /\ ~atLogIn /\ u \in Users
         /\ phase[u] \notin {"loading", "frozen"} => asked[u] = {}
BY SessionAssumption DEF SessionInv, Ownership, Shared, Seat

LEMMA StopEnds ==
  ASSUME SessionInv, NEW u \in Users, NEW how \in {"off", "crashed"}, Stop(u, how)
  PROVE  Ended(u) /\ OthersKept(u)
BY DEF Stop, Ended, OthersKept, SessionInv, SessionTypeOK, DeviceTypeOK

LEMMA FallKeeps ==
  ASSUME SessionInv, NEW u \in Sharers, Running(u), Fall(u) \/ EndApp(u),
         \A v \in Users : users'[v].house = users[v].house
  PROVE  PhoneStep(u)
<1>1. PICK how \in {"off", "crashed"} : Stop(u, how)
  BY DEF Fall, EndApp, Crash
<1>2. Ended(u) /\ OthersKept(u)
  BY <1>1, RunningSeat, StopEnds
<1>3. /\ ForgetSession(u) /\ directory' = {}
      /\ UNCHANGED <<online, accounts, signedIn, atLogIn, last>>
  BY DEF Fall, EndApp
<1> QED
  BY <1>2, <1>3, RunningSeat DEF PhoneStep, EndsSession, ForgetSession

LEMMA EndKeeps ==
  ASSUME SessionInv, NEW u \in Sharers, Running(u), Trap(u) \/ EndApp(u)
  PROVE  PhoneStep(u)
<1>1. \A v \in Users : users'[v].house = users[v].house
  BY DEF Trap, EndApp, database
<1> QED
  BY <1>1, FallKeeps DEF Trap

\* A load that begins, or the alert that there is no connection.
LEMMA LoadBegins ==
  ASSUME SessionInv, NEW u \in Users, NEW next, asked[u] = {},
         GetAllData(u, next), UNCHANGED me,
         \A v \in Users \ {u} : uplink'[v] = uplink[v]
  PROVE  (Loading(u) \/ Resting(u)) /\ OthersKept(u)
<1>1. CASE online[u]
  BY <1>1 DEF GetAllData, Loading, OthersKept, SessionInv, SessionTypeOK, DeviceTypeOK
<1>2. CASE ~online[u]
  BY <1>2 DEF GetAllData, Resting, OthersKept, SessionInv, SessionTypeOK, DeviceTypeOK
<1> QED
  BY <1>1, <1>2

\* A completion handler that is done.
LEMMA HandlerRests ==
  ASSUME SessionInv, NEW u \in Users, phase[u] = "loading", asked[u] = {},
         Rest(u), UNCHANGED me
  PROVE  Resting(u) /\ OthersKept(u) /\ UNCHANGED uplink
BY DEF Rest, Resting, OthersKept, SessionInv, SessionTypeOK, DeviceTypeOK

\* One more write behind what is unsent.
LEMMA QueueGrows ==
  ASSUME SessionInv, NEW u \in Users, NEW p \in Puts, Issue(u, <<p>>),
         p.path \in {"users/dinner", "houses/firstWeek"},
         u \in Reliable /\ p.path = "users/dinner" => p.user = u
  PROVE  /\ Queued(u, uplink[u]) => Queued(u, uplink'[u])
         /\ \A v \in Users \ {u} : uplink'[v] = uplink[v]
<1>1. uplink \in [Users -> Seq(Puts)]
  BY DEF SessionInv, SessionTypeOK, DeviceTypeOK
<1>2. uplink'[u] = uplink[u] \o <<p>> /\ \A v \in Users \ {u} : uplink'[v] = uplink[v]
  BY <1>1 DEF Issue
<1>3. ASSUME Queued(u, uplink[u]), NEW i \in 1 .. Len(uplink'[u])
      PROVE  /\ uplink'[u][i].path \in {"users/dinner", "houses/firstWeek"}
             /\ u \in Reliable /\ uplink'[u][i].path = "users/dinner" => uplink'[u][i].user = u
  <2>1. uplink[u] \in Seq(Puts)
    BY <1>1
  <2>2. CASE i = Len(uplink[u]) + 1
    <3>1. uplink'[u][i] = p
      BY <1>2, <2>1, <2>2
    <3> QED
      BY <3>1
  <2>3. CASE i \in 1 .. Len(uplink[u])
    <3>1. uplink'[u][i] = uplink[u][i]
      BY <1>2, <2>1, <2>3
    <3> QED
      BY <1>3, <2>3, <3>1 DEF Queued
  <2> QED
    BY <1>2, <1>3, <2>1, <2>2, <2>3
<1> QED
  BY <1>2, <1>3 DEF Queued


\* Home's handlers and taps.
LEMMA HomeKeeps ==
  ASSUME SessionInv, NEW u \in Sharers,
         WithSession(u, HomeHandlers(u)) \/ WithSession(u, Refresh(u))
  PROVE  PhoneStep(u)
<1>1. u \in Users /\ HomeTypeOK /\ AroundHome(u) /\ (HomeHandlers(u) \/ Refresh(u))
  BY SessionAssumption DEF SessionInv, SessionTypeOK, HomeTypeOK, WithSession, AroundHome
<1>2. Running(u) /\ asked[u] = {} /\ UNCHANGED <<users, online>>
  <2>1. CASE HomeHandlers(u)
    BY <1>1, <2>1, HomeHandlersDo DEF Running
  <2>2. CASE Refresh(u)
    BY <2>2, RunningSeat DEF Refresh, Ready, Running, database
  <2> QED
    BY <1>1, <2>1, <2>2
<1>3. signedIn = u /\ ~atLogIn
  BY <1>2, RunningSeat
<1>4. ASSUME Loading(u) \/ Resting(u), Queued(u, uplink[u]) => Queued(u, uplink'[u])
      PROVE  GoesOn(u)
  <2>1. Running(u)'
    BY <1>4 DEF Running, Loading, Resting
  <2>2. UNCHANGED <<record, ref, tabs>>
    BY <1>1, <2>1 DEF AroundHome
  <2>3. directory' \in {directory, {}}
    BY <1>1, <1>2 DEF AroundHome, FollowDirectory
  <2> QED
    BY <1>4, <2>2, <2>3 DEF GoesOn
<1>5. CASE HomeHandlers(u) /\ HandlerEnds(u) /\ Crash(u)
  <2>1. Ended(u) /\ OthersKept(u)
    BY <1>1, <1>5, StopEnds DEF Crash
  <2>2. ForgetSession(u) /\ directory' = {}
    BY <1>1, <1>2, <2>1 DEF AroundHome, FollowDirectory, Ended, Running
  <2> QED
    BY <1>1, <1>2, <1>3, <2>1, <2>2 DEF PhoneStep, EndsSession, ForgetSession, AroundHome
<1>6. CASE HomeHandlers(u) /\ HandlerEnds(u) /\ ~Crash(u)
  <2>1. Resting(u) /\ OthersKept(u) /\ UNCHANGED uplink
    BY <1>1, <1>6, HandlerRests, HomeHandlersDo DEF HandlerEnds
  <2> QED
    BY <1>1, <1>2, <1>3, <1>4, <2>1 DEF PhoneStep, AroundHome, Queued
<1>7. CASE HomeHandlers(u) /\ HandlerRestarts(u)
  <2>1. PICK next \in {"checkWeek", "show"} : RestartSchedule(u, me[u].house, next)
    BY <1>7 DEF HandlerRestarts
  <2>2. PICK p \in Puts : p.path = "houses/firstWeek" /\ Issue(u, <<p>>)
    <3>1. getCurrentWeek \in Int
      BY <1>1, DeviceAssumption DEF getCurrentWeek, HomeTypeOK, DeviceTypeOK
    <3>2. SetFirstWeek(me[u].house, getCurrentWeek) \in Puts
      BY <1>7, <3>1 DEF HandlerRestarts, SetFirstWeek, Puts
    <3> QED
      BY <2>1, <3>2 DEF RestartSchedule, SetFirstWeek
  <2>3. /\ Queued(u, uplink[u]) => Queued(u, uplink'[u])
        /\ \A v \in Users \ {u} : uplink'[v] = uplink[v]
    BY <1>1, <2>2, QueueGrows
  <2>4. (Loading(u) \/ Resting(u)) /\ OthersKept(u)
    BY <1>1, <1>2, <2>1, <2>3, LoadBegins DEF RestartSchedule
  <2> QED
    BY <1>1, <1>2, <1>3, <1>4, <2>3, <2>4 DEF PhoneStep, AroundHome
<1>8. CASE Refresh(u)
  <2>1. (Loading(u) \/ Resting(u)) /\ OthersKept(u) /\ UNCHANGED uplink
    BY <1>1, <1>2, <1>8, LoadBegins DEF Refresh
  <2> QED
    BY <1>1, <1>2, <1>3, <1>4, <2>1 DEF PhoneStep, AroundHome, Queued
<1> QED
  BY <1>1, <1>5, <1>6, <1>7, <1>8, HomeHandlersDo


\* A screen put on top.
LEMMA ShowKeeps ==
  ASSUME SessionInv, NEW u \in Sharers, NEW s, NEW step, phase[u] = "ready",
         Show(u, s, step) \/ TurnTo(u, s)
  PROVE  PhoneStep(u)
<1>1. Running(u)
  BY DEF Running
<1>2. u \in Users /\ signedIn = u /\ ~atLogIn /\ asked[u] = {}
  BY <1>1, RunningSeat
<1>3. CASE Show(u, s, step)
  <2>1. (Loading(u) \/ Resting(u)) /\ OthersKept(u) /\ UNCHANGED uplink
    BY <1>2, <1>3, LoadBegins DEF Show
  <2>2. directory' \in {directory, {}}
    BY <1>2, <1>3 DEF Show, FollowDirectory
  <2> QED
    BY <1>2, <1>3, <2>1, <2>2 DEF Show, PhoneStep, GoesOn, Queued, session, database
<1>4. CASE TurnTo(u, s)
  <2>1. Waiting(u) /\ OthersKept(u) /\ UNCHANGED uplink
    BY <1>1, <1>4 DEF TurnTo, Waiting, OthersKept, memory
  <2> QED
    BY <1>2, <1>4, <2>1 DEF TurnTo, PhoneStep, GoesOn, Queued, session, database
<1> QED
  BY <1>3, <1>4

\* The dinner table, Your House and the tab bar.
LEMMA ListsKeep ==
  ASSUME SessionInv, NEW u \in Sharers,
         \/ PushDinnerTable(u) \/ DinnerShown(u) \/ LeaveDinnerTable(u)
         \/ ProfileLoaded(u) \/ PushYourHouse(u) \/ LeaveYourHouse(u)
         \/ TabToProfile(u) \/ TabToHome(u)
  PROVE  PhoneStep(u)
<1>1. CASE \/ PushDinnerTable(u) \/ LeaveDinnerTable(u) \/ LeaveYourHouse(u)
           \/ TabToProfile(u) \/ TabToHome(u)
  <2>1. /\ phase[u] = "ready"
        /\ \E s \in Screens, step \in Steps : Show(u, s, step) \/ TurnTo(u, s)
    BY <1>1 DEF PushDinnerTable, LeaveDinnerTable, LeaveYourHouse, TabToProfile, TabToHome,
                Ready, Screens, Steps
  <2> QED
    BY <2>1, ShowKeeps
<1>2. CASE Trap(u) /\ (DinnerShown(u) \/ PushYourHouse(u))
  <2>1. Running(u)
    BY <1>2 DEF DinnerShown, PushYourHouse, Loaded, Ready, Running
  <2> QED
    BY <1>2, <2>1, EndKeeps
<1>3. CASE (DinnerShown(u) /\ ~Trap(u)) \/ ProfileLoaded(u)
  <2>1. /\ phase[u] = "loading" /\ asked[u] = {} /\ Rest(u)
        /\ UNCHANGED <<users, online, me, accounts, record, signedIn, atLogIn, last, ref, directory>>
    BY <1>3 DEF DinnerShown, ProfileLoaded, Loaded, database, session
  <2>2. Running(u)
    BY <2>1 DEF Running
  <2>3. u \in Users /\ signedIn = u /\ ~atLogIn
    BY <2>2, RunningSeat
  <2>4. Resting(u) /\ OthersKept(u) /\ UNCHANGED uplink
    BY <2>1, <2>3, HandlerRests
  <2> QED
    BY <2>1, <2>3, <2>4 DEF PhoneStep, GoesOn, Queued
<1>4. CASE PushYourHouse(u) /\ ~Trap(u)
  <2>1. Running(u)
    BY <1>4 DEF PushYourHouse, Ready, Running
  <2>2. Waiting(u) /\ OthersKept(u) /\ UNCHANGED uplink
    BY <1>4, <2>1 DEF PushYourHouse, Waiting, OthersKept, memory
  <2> QED
    BY <1>4, <2>1, <2>2, RunningSeat
    DEF PushYourHouse, PhoneStep, GoesOn, Queued, session, database
<1> QED
  BY <1>1, <1>2, <1>3, <1>4

\* The dinner switch: ref is the own record once a load is over.
LEMMA SwitchKeeps ==
  ASSUME SessionInv, NEW u \in Sharers, SwitchDinner(u)
  PROVE  PhoneStep(u)
<1>1. phase[u] = "ready" /\ Running(u)
  BY DEF SwitchDinner, Ready, Running
<1>2. CASE Trap(u)
  BY <1>1, <1>2, EndKeeps
<1>3. ASSUME NEW on \in BOOLEAN, ref \in Stored, LastWrite(u, SetDinner(ref, on)), Fall(u)
      PROVE  PhoneStep(u)
  <2>1. \A v \in Users : users'[v].house = users[v].house
    BY <1>3, LastWriteTyped DEF Stored, SessionInv, SessionTypeOK
  <2> QED
    BY <1>1, <1>3, <2>1, FallKeeps
<1>4. CASE known[u] /\ ~Trap(u)
  <2>1. /\ known[u] /\ \E on \in BOOLEAN : Issue(u, <<SetDinner(ref, on)>>)
        /\ UNCHANGED <<users, online, phase, asked, me, known, accounts, record, signedIn,
                       atLogIn, last, ref, directory>>
    BY <1>4 DEF SwitchDinner, database, memory, session
  <2>2. u \in Users /\ signedIn = u /\ ~atLogIn
    BY <1>1, RunningSeat
  <2>3. ref \in Users
    BY <2>1, SessionAssumption DEF SessionInv, Ownership, Shared, SessionTypeOK
  <2>4. u \in Reliable => ref = u
    BY <1>1 DEF SessionInv, Ownership, Own
  <2>5. PICK on \in BOOLEAN : Issue(u, <<SetDinner(ref, on)>>)
    BY <2>1
  <2>6. /\ SetDinner(ref, on) \in Puts /\ SetDinner(ref, on).path = "users/dinner"
        /\ SetDinner(ref, on).user = ref
    BY <2>3 DEF SetDinner, Puts
  <2>7. /\ Queued(u, uplink[u]) => Queued(u, uplink'[u])
        /\ \A v \in Users \ {u} : uplink'[v] = uplink[v]
    BY <2>2, <2>4, <2>5, <2>6, QueueGrows
  <2>8. Waiting(u) /\ OthersKept(u)
    BY <1>1, <2>1, <2>7 DEF Waiting, OthersKept
  <2> QED
    BY <2>1, <2>2, <2>7, <2>8 DEF PhoneStep, GoesOn
<1> QED
  BY <1>2, <1>3, <1>4 DEF SwitchDinner


\* The answer to the read of houses/, and the one to a user without a record.
LEMMA AnswersKeep ==
  ASSUME SessionInv, NEW u \in Sharers,
         AnswerHouses(u) \/ (record[u] = "none" /\ AnswerUsers(u))
  PROVE  PhoneStep(u)
<1>1. asked[u] # {}
  BY DEF AnswerHouses, AnswerUsers, Shown, WithSession, ServeHouses
<1>2. Running(u) /\ phase[u] \in {"loading", "frozen"}
  BY <1>1 DEF SessionInv, Ownership, Seat, Running
<1>3. u \in Users /\ signedIn = u /\ ~atLogIn
  BY <1>2, RunningSeat
<1>4. CASE AnswerHouses(u) /\ Crash(u)
  <2>1. Ended(u) /\ OthersKept(u)
    BY <1>3, <1>4, StopEnds DEF Crash
  <2>2. AroundHome(u) /\ UNCHANGED <<users, online>>
    BY <1>4 DEF AnswerHouses, WithSession, AroundHome, ServeHouses, database
  <2>3. ForgetSession(u) /\ directory' = {}
    BY <1>2, <2>1, <2>2 DEF AroundHome, FollowDirectory, Ended, Running
  <2> QED
    BY <1>3, <2>1, <2>2, <2>3 DEF PhoneStep, EndsSession, ForgetSession, AroundHome
<1>5. CASE AnswerHouses(u) /\ ~Crash(u)
  <2>1. /\ asked' = [asked EXCEPT ![u] = @ \ {"houses"}]
        /\ phase' = [phase EXCEPT ![u] = IF Answer(u).houses = NoHouses THEN "frozen" ELSE @]
        /\ UNCHANGED <<uplink, me, known, users, online>>
        /\ AroundHome(u)
    BY <1>5 DEF AnswerHouses, WithSession, AroundHome, ServeHouses, database
  <2>2. Waiting(u) /\ OthersKept(u) /\ Running(u)'
    BY <1>2, <1>3, <2>1
    DEF Waiting, OthersKept, Running, SessionInv, SessionTypeOK, DeviceTypeOK
  <2>3. UNCHANGED <<record, ref>>
    BY <2>1, <2>2 DEF AroundHome
  <2>4. directory' \in {directory, {}}
    BY <1>1, <1>3, <2>1, <2>2
    DEF AroundHome, FollowDirectory, SessionInv, SessionTypeOK, DeviceTypeOK
  <2> QED
    BY <1>3, <2>1, <2>2, <2>3, <2>4 DEF PhoneStep, GoesOn, AroundHome, Queued
<1>6. CASE record[u] = "none" /\ AnswerUsers(u) /\ Trap(u)
  BY <1>2, <1>6, EndKeeps
<1>7. CASE record[u] = "none" /\ AnswerUsers(u) /\ ~Trap(u)
  <2>1. /\ phase' = [phase EXCEPT ![u] = "frozen"]
        /\ asked' = [asked EXCEPT ![u] = @ \ {"users"}]
        /\ UNCHANGED <<database, uplink, online, memory, session, directory>>
    BY <1>7 DEF AnswerUsers, Shown
  <2>2. Waiting(u) /\ OthersKept(u)
    BY <1>2, <1>3, <2>1
    DEF Waiting, OthersKept, memory, SessionInv, SessionTypeOK, DeviceTypeOK
  <2> QED
    BY <1>3, <2>1, <2>2 DEF PhoneStep, GoesOn, Queued, session, database
<1> QED
  BY <1>4, <1>5, <1>6, <1>7

\* The own record is read: it becomes the memory, and ref the own reference.
LEMMA OwnRecordRead ==
  ASSUME SessionInv, NEW u \in Sharers, Shown(u), AnswerUsers(u)
  PROVE  Ownership'
<1>1. /\ ServeUsers(u) /\ FollowDirectory(u) /\ ref' = u
      /\ UNCHANGED <<accounts, record, signedIn, atLogIn, last>>
  BY DEF AnswerUsers, Shown
<1>. DEFINE own == Answer(u).users[u]
            home == IF own.house = Null THEN me[u].house ELSE own.house
<1>2. /\ "users" \in asked[u] /\ Answerable(u)
      /\ asked' = [asked EXCEPT ![u] = @ \ {"users"}]
      /\ known' = [known EXCEPT ![u] = TRUE]
      /\ me' = [me EXCEPT ![u] = [own EXCEPT !.house = home]]
      /\ UNCHANGED <<users, uplink, online, phase>>
  BY <1>1 DEF ServeUsers, database
<1>3. Running(u) /\ phase[u] \in {"loading", "frozen"}
  BY <1>2 DEF SessionInv, Ownership, Seat, Running
<1>4. /\ u \in Users /\ Null \notin Users /\ signedIn = u /\ last = Null
      /\ Sharers \subseteq Users /\ Reliable \subseteq Sharers
  BY <1>3, RunningSeat, SessionAssumption DEF SessionInv, Ownership, Shared, Reliable
<1>5. \A v \in Users \ {u} : /\ asked'[v] = asked[v] /\ known'[v] = known[v]
                             /\ me'[v] = me[v]
  BY <1>2 DEF SessionInv, SessionTypeOK, DeviceTypeOK
<1>6. Shared'
  BY <1>1, <1>4 DEF SessionInv, Ownership, Shared
<1>7. ASSUME NEW v \in Sharers PROVE Seat(v)'
  <2>1. Seat(v)
    BY DEF SessionInv, Ownership
  <2>2. CASE v # u
    BY <1>1, <1>2, <1>4, <1>5, <2>1, <2>2 DEF Seat, Running, Queued
  <2>3. CASE v = u
    BY <1>1, <1>2, <1>3, <2>1, <2>3 DEF Seat, Running, Queued
  <2> QED
    BY <2>2, <2>3
<1>8. ASSUME NEW v \in Reliable PROVE Own(v)'
  <2>1. Own(v) /\ Seat(v) /\ v \in Users
    BY <1>4, <1>8 DEF SessionInv, Ownership
  <2>2. CASE v # u
    <3>1. ~Running(v)
      BY <1>4, <2>1, <2>2 DEF Seat
    <3> QED
      BY <1>1, <1>2, <1>5, <2>1, <2>2, <3>1 DEF Own, Running
  <2>3. CASE v = u
    <3>1. me'[u].house = users[u].house
      <4>1. me[u].house \in {Null, users[u].house}
        BY <2>1, <2>3 DEF Own
      <4>2. own = users[u]
        BY <1>2, <1>4, <1>8, <2>3, ConnectedAnswer DEF Reliable
      <4>. HIDE DEF own
      <4>3. users[u] \in UserNode /\ me'[u].house =
               IF users[u].house = Null THEN me[u].house ELSE users[u].house
        BY <1>2, <1>4, <4>2 DEF SessionInv, SessionTypeOK, DeviceTypeOK, UserNode
      <4> QED
        BY <4>1, <4>3
    <3>. HIDE DEF own, home
    <3> QED
      BY <1>1, <1>2, <2>1, <2>3, <3>1 DEF Own
  <2> QED
    BY <2>2, <2>3
<1> QED
  BY <1>6, <1>7, <1>8 DEF Ownership


\* A step that neither the memory nor the session takes part in.
LEMMA StillKeeps ==
  ASSUME SessionInv,
         UNCHANGED <<phase, asked, known, me, ref, directory, signedIn, atLogIn, last>>,
         \A v \in Sharers : /\ Queued(v, uplink[v]) => Queued(v, uplink'[v])
                            /\ record'[v] # "none" => v \in accounts',
         \A v \in Reliable : /\ users'[v].house = users[v].house
                             /\ record'[v] # "stored" => record[v] # "stored"
                             /\ signedIn = v => online'[v]
  PROVE  Ownership'
<1>1. Reliable \subseteq Sharers
  BY DEF Reliable
<1>2. Shared'
  BY DEF SessionInv, Ownership, Shared
<1>3. ASSUME NEW v \in Sharers PROVE Seat(v)'
  <2>1. Queued(v, uplink[v])'
    BY DEF SessionInv, Ownership, Seat, Queued
  <2> QED
    BY <2>1 DEF SessionInv, Ownership, Seat, Running
<1>4. ASSUME NEW v \in Reliable PROVE Own(v)'
  BY DEF SessionInv, Ownership, Own
<1> QED
  BY <1>2, <1>3, <1>4 DEF Ownership

\* A write or a registration that reaches the server, the connection, and
\* what happens on other phones.
LEMMA OutsideKeeps ==
  ASSUME SessionInv,
         \/ \E u \in Sharers : StoreRecord(u) \/ Deliver(u)
         \/ Reach \/ Elsewhere
  PROVE  Ownership'
<1>1. /\ Sharers \subseteq Users /\ Newcomers \subseteq Users \ Sharers
      /\ Reliable \subseteq Sharers /\ Reliable \cap Offline = {} /\ Null \notin Users
      /\ record \in [Users -> {"none", "unsent", "stored"}]
      /\ users \in [Users -> UserNode] /\ houses \in [Houses -> HouseNode]
      /\ uplink \in [Users -> Seq(Puts)]
  BY SessionAssumption DEF Reliable, SessionInv, SessionTypeOK, DeviceTypeOK
<1>2. /\ \A v \in Sharers : record[v] # "none" => v \in accounts
      /\ \A v \in Reliable : /\ signedIn = v => online[v]
                             /\ record[v] # "stored" => users[v].house = Null
  BY DEF SessionInv, Ownership, Shared, Own
<1>3. ASSUME NEW u \in Sharers, StoreRecord(u)
      PROVE  Ownership'
  <2>1. /\ record[u] = "unsent"
        /\ record' = [record EXCEPT ![u] = "stored"]
        /\ users' = [users EXCEPT ![u] = NoUser]
        /\ UNCHANGED <<phase, asked, known, me, uplink, online, accounts, ref, directory,
                       signedIn, atLogIn, last>>
    BY <1>3 DEF StoreRecord, memory
  <2>2. \A v \in Reliable : users'[v].house = users[v].house
    BY <1>1, <1>2, <2>1 DEF NoUser
  <2> QED
    BY <1>1, <1>2, <2>1, <2>2, StillKeeps DEF Queued
<1>4. ASSUME NEW u \in Sharers, Deliver(u)
      PROVE  Ownership'
  <2>1. /\ uplink[u] # << >>
        /\ uplink' = [uplink EXCEPT ![u] = Tail(@)]
        /\ users' = UsersAfter(users, Head(uplink[u]))
        /\ UNCHANGED <<phase, asked, known, me, online, accounts, record, ref, directory,
                       signedIn, atLogIn, last>>
    BY <1>4 DEF Deliver, ApplyPut, memory, session
  <2>2. uplink[u] \in Seq(Puts) /\ Queued(u, uplink[u])
    BY <1>1 DEF SessionInv, Ownership, Seat
  <2>3. Queued(u, Tail(uplink[u]))
    <3>1. \A i \in 1 .. Len(Tail(uplink[u])) :
            i + 1 \in 1 .. Len(uplink[u]) /\ Tail(uplink[u])[i] = uplink[u][i + 1]
      BY <2>1, <2>2
    <3> QED
      BY <2>2, <3>1 DEF Queued
  <2>4. Head(uplink[u]).path \in {"users/dinner", "houses/firstWeek"} /\ Head(uplink[u]) \in Puts
    BY <2>1, <2>2 DEF Queued
  <2>5. \A v \in Users : users'[v].house = users[v].house
    <3>1. CASE Head(uplink[u]).path = "houses/firstWeek"
      BY <2>1, <3>1 DEF UsersAfter
    <3>2. CASE Head(uplink[u]).path = "users/dinner"
      <4>1. users' = [users EXCEPT ![Head(uplink[u]).user].dinner = Head(uplink[u]).flag]
        BY <2>1, <3>2 DEF UsersAfter
      <4> QED
        BY <1>1, <4>1 DEF UserNode
    <3> QED
      BY <2>4, <3>1, <3>2
  <2>6. \A v \in Sharers : Queued(v, uplink[v]) => Queued(v, uplink'[v])
    BY <1>1, <2>1, <2>3
  <2> QED
    BY <1>1, <1>2, <2>1, <2>5, <2>6, StillKeeps
<1>5. CASE Reach
  <2>1. UNCHANGED <<users, phase, asked, known, me, uplink, accounts, record, ref, directory,
                    signedIn, atLogIn, last>>
    BY <1>5 DEF Reach, memory, session, database
  <2>2. \A v \in Reliable : signedIn = v => online'[v]
    BY <1>1, <1>5 DEF Reach
  <2> QED
    BY <1>2, <2>1, <2>2, StillKeeps DEF Queued
<1>6. ASSUME NEW u \in Newcomers, Enroll(u)
      PROVE  Ownership'
  <2>1. /\ accounts' = accounts \cup {u}
        /\ record' = [record EXCEPT ![u] = "stored"]
        /\ UNCHANGED <<users, online, phase, asked, known, me, uplink, ref, directory,
                       signedIn, atLogIn, last>>
    BY <1>6 DEF Enroll, homeVars, deviceVars
  <2> QED
    BY <1>1, <1>2, <2>1, StillKeeps DEF Queued
<1>7. ASSUME NEW u \in Newcomers, NEW h \in Houses, MoveIn(u, h)
      PROVE  Ownership'
  <2>1. /\ users' = [users EXCEPT ![u].house = h]
        /\ UNCHANGED <<online, phase, asked, known, me, uplink, accounts, record, ref, directory,
                       signedIn, atLogIn, last>>
    BY <1>7 DEF MoveIn, UsersAfter, SetHome, memory, session
  <2>2. \A v \in Sharers : users'[v] = users[v]
    BY <1>1, <2>1
  <2> QED
    BY <1>1, <1>2, <2>1, <2>2, StillKeeps DEF Queued
<1> QED
  BY <1>3, <1>4, <1>5, <1>6, <1>7 DEF Elsewhere


\* The launch with a user signed in, and without one.
LEMMA ShowAppKeeps ==
  ASSUME SessionInv, ShowApp
  PROVE  Ownership'
<1>1. CASE signedIn = Null /\ atLogIn' = TRUE /\ UNCHANGED <<homeVars, ref, directory>>
  <2>1. UNCHANGED <<users, uplink, online, phase, asked, known, me, accounts, record, signedIn, last>>
    BY <1>1 DEF ShowApp, homeVars, deviceVars
  <2>2. Shared'
    BY <1>1, <2>1 DEF SessionInv, Ownership, Shared
  <2>3. ASSUME NEW v \in Sharers PROVE Seat(v)'
    BY <2>1 DEF SessionInv, Ownership, Seat, Running, Queued
  <2>4. ASSUME NEW v \in Reliable PROVE Own(v)'
    BY <1>1, <2>1 DEF SessionInv, Ownership, Own
  <2> QED
    BY <2>2, <2>3, <2>4 DEF Ownership
<1>2. ASSUME NEW u \in Sharers, u = signedIn, Launch(u), ref' = u, FollowDirectory(u),
             UNCHANGED <<label, atLogIn>>
      PROVE  Ownership'
  <2>1. u \in Users /\ ~atLogIn /\ ~Running(u)
    BY <1>2, SessionAssumption DEF ShowApp, AppRunning
  <2>2. /\ asked[u] = {} /\ GetAllData(u, Run("appear"))
        /\ UNCHANGED <<users, online, uplink, me, accounts, record, signedIn, last>>
    BY <1>2, <2>1
    DEF Launch, ShowApp, database, SessionInv, Ownership, Seat, Running
  <2>3. (Loading(u) \/ Resting(u)) /\ OthersKept(u)
    BY <2>1, <2>2, LoadBegins
  <2>4. directory' \in {directory, {}}
    BY <1>2, <2>2 DEF FollowDirectory
  <2>5. PhoneStep(u)
    BY <1>2, <2>1, <2>2, <2>3, <2>4 DEF PhoneStep, GoesOn, Queued
  <2> QED
    BY <2>5, PhoneStepKeeps
<1> QED
  BY <1>1, <1>2 DEF ShowApp

\* The end of the process at LogIn: nothing of it is left.
LEMMA EndAtLogInKeeps ==
  ASSUME SessionInv, EndAtLogIn
  PROVE  Ownership'
<1>1. /\ ~atLogIn' /\ last' = Null /\ ref' = Null /\ directory' = {}
      /\ \A v \in Users : /\ uplink'[v] = << >> /\ me'[v] = NoUser /\ ~known'[v]
                          /\ record'[v] = IF record[v] = "unsent" THEN "none" ELSE record[v]
      /\ UNCHANGED <<users, online, phase, asked, accounts, signedIn>>
  BY DEF EndAtLogIn, database
<1>2. /\ signedIn = Null /\ Null \notin Users
      /\ Sharers \subseteq Users /\ Reliable \subseteq Sharers
  BY SessionAssumption DEF EndAtLogIn, SessionInv, Ownership, Shared, Reliable
<1>3. Shared'
  BY <1>1, <1>2 DEF SessionInv, Ownership, Shared
<1>4. ASSUME NEW v \in Sharers PROVE Seat(v)'
  <2>1. ~Running(v) /\ Seat(v)
    BY <1>2 DEF SessionInv, Ownership, Seat
  <2> QED
    BY <1>1, <1>2, <2>1 DEF Seat, Running, Queued
<1>5. ASSUME NEW v \in Reliable PROVE Own(v)'
  <2>1. ~Running(v) /\ Own(v)
    BY <1>2, <1>5 DEF SessionInv, Ownership, Seat
  <2> QED
    BY <1>1, <1>2, <1>5, <2>1 DEF Own, Running, NoUser
<1> QED
  BY <1>3, <1>4, <1>5 DEF Ownership

\* Logging out: CurrentUser keeps what was read, but no house of its own.
LEMMA LogoutKeeps ==
  ASSUME SessionInv, NEW u \in Sharers, Logout(u)
  PROVE  Ownership'
<1>1. Running(u)
  BY DEF Logout, Ready, Running
<1>2. /\ u \in Users /\ signedIn = u /\ asked[u] = {} /\ Null \notin Users
      /\ Sharers \subseteq Users /\ Reliable \subseteq Sharers
  BY <1>1, RunningSeat, SessionAssumption DEF Logout, Ready, Reliable
<1>3. /\ me' = [me EXCEPT ![u] = NoUser] /\ phase' = [phase EXCEPT ![u] = "off"]
      /\ signedIn' = Null /\ atLogIn' = TRUE /\ last' = u
      /\ UNCHANGED <<users, uplink, online, asked, known, accounts, record, ref, directory>>
  BY DEF Logout, database
<1>4. /\ me'[u] = NoUser /\ phase'[u] = "off"
      /\ \A v \in Users \ {u} : me'[v] = me[v] /\ phase'[v] = phase[v]
  BY <1>2, <1>3 DEF SessionInv, SessionTypeOK, DeviceTypeOK
<1>5. Shared'
  BY <1>3 DEF SessionInv, Ownership, Shared
<1>6. ASSUME NEW v \in Sharers PROVE Seat(v)'
  <2>1. Seat(v) /\ last = Null
    BY <1>2 DEF SessionInv, Ownership, Shared
  <2>2. CASE v = u
    BY <1>2, <1>3, <1>4, <2>1, <2>2 DEF Seat, Running, Queued
  <2>3. CASE v # u
    BY <1>2, <1>3, <1>4, <2>1, <2>3 DEF Seat, Running, Queued
  <2> QED
    BY <2>2, <2>3
<1>7. ASSUME NEW v \in Reliable PROVE Own(v)'
  <2>1. Own(v) /\ Seat(v) /\ v \in Users
    BY <1>2, <1>7 DEF SessionInv, Ownership
  <2>2. CASE v = u
    BY <1>2, <1>3, <1>4, <2>1, <2>2 DEF Own, NoUser
  <2>3. CASE v # u
    <3>1. ~Running(v)
      BY <1>2, <2>1, <2>3 DEF Seat
    <3> QED
      BY <1>2, <1>3, <1>4, <2>1, <2>3, <3>1 DEF Own, Running
  <2> QED
    BY <2>2, <2>3
<1> QED
  BY <1>5, <1>6, <1>7 DEF Ownership

\* Logging in after whoever used the phone: what is inherited has no house.
LEMMA LogInKeeps ==
  ASSUME SessionInv, NEW u \in Sharers, LogIn(u)
  PROVE  Ownership'
<1>1. /\ u \in Users /\ Null \notin Users /\ signedIn = Null
      /\ Sharers \subseteq Users /\ Reliable \subseteq Sharers /\ Reliable \cap Offline = {}
  BY SessionAssumption DEF LogIn, SessionInv, Ownership, Shared, Reliable
<1>2. \A v \in Sharers : ~Running(v) /\ asked[v] = {} /\ me[v] = NoUser
  BY <1>1 DEF SessionInv, Ownership, Seat, Running
<1>3. \A v \in Sharers : me'[v] = NoUser
  <2>1. CASE last \in Users
    <3>1. last \in Sharers
      BY <1>1, <2>1 DEF SessionInv, SessionTypeOK
    <3>2. me' = [me EXCEPT ![last] = NoUser, ![u] = me[last]]
      BY <2>1 DEF LogIn, InheritFrom
    <3> QED
      BY <1>1, <1>2, <3>1, <3>2 DEF SessionInv, SessionTypeOK, DeviceTypeOK
  <2>2. CASE last \notin Users
    BY <1>2, <2>2 DEF LogIn
  <2> QED
    BY <2>1, <2>2
<1>4. /\ online[u] /\ signedIn' = u /\ ~atLogIn' /\ last' = Null
      /\ RegisterIfNew(u) /\ UNCHANGED <<users, uplink>>
  BY DEF LogIn, database
<1>5. /\ ref' \in {ref, u}
      /\ \A v \in Sharers : /\ record'[v] # "none" => v \in accounts'
                            /\ record'[v] # "stored" =>
                                 record[v] # "stored"
  <2>1. \A v \in Sharers : record[v] # "none" => v \in accounts
    BY DEF SessionInv, Ownership, Shared
  <2>2. record \in [Users -> {"none", "unsent", "stored"}]
    BY DEF SessionInv, SessionTypeOK
  <2> QED
    BY <1>1, <1>4, <2>1, <2>2 DEF RegisterIfNew
<1>6. \/ /\ phase'[u] = "loading" /\ asked'[u] = {"users", "houses"}
         /\ directory' = {} /\ UNCHANGED online
         /\ \A v \in Sharers : ~known'[v]
      \/ /\ u \in Offline /\ phase'[u] = "ready" /\ asked'[u] = {}
         /\ directory' = directory
         /\ \A v \in Sharers : known'[v] <=> v = u /\ u \in directory
  <2>1. phase \in [Users -> Phases] /\ asked \in [Users -> SUBSET {"users", "houses"}]
    BY DEF SessionInv, SessionTypeOK, DeviceTypeOK
  <2>2. CASE phase' = [phase EXCEPT ![u] = "loading"]
    BY <1>1, <2>1, <2>2 DEF LogIn
  <2>3. CASE phase' = [phase EXCEPT ![u] = "ready"]
    BY <1>1, <1>2, <2>1, <2>3 DEF LogIn
  <2> QED
    BY <2>2, <2>3 DEF LogIn
<1>7. \A v \in Users \ {u} : phase'[v] = phase[v] /\ asked'[v] = asked[v]
  BY DEF LogIn, SessionInv, SessionTypeOK, DeviceTypeOK
<1>8. Shared'
  <2>1. ref' = Null => ref = Null
    BY <1>1, <1>5
  <2>2. ref' = Null => directory' = {} /\ \A v \in Sharers : ~known'[v]
    BY <1>6, <2>1 DEF SessionInv, Ownership, Shared
  <2> QED
    BY <1>4, <1>5, <2>2 DEF Shared
<1>9. ASSUME NEW v \in Sharers PROVE Seat(v)'
  <2>1. Queued(v, uplink[v])'
    BY <1>4 DEF SessionInv, Ownership, Seat, Queued
  <2>2. CASE v = u
    BY <1>4, <1>6, <2>1, <2>2 DEF Seat, Running
  <2>3. CASE v # u
    BY <1>1, <1>2, <1>3, <1>6, <1>7, <2>1, <2>3 DEF Seat, Running
  <2> QED
    BY <2>2, <2>3
<1>10. ASSUME NEW v \in Reliable PROVE Own(v)'
  <2>1. Own(v) /\ v \in Sharers /\ v \in Users
    BY <1>1, <1>10 DEF SessionInv, Ownership
  <2>2. me'[v].house = Null
    BY <1>3, <2>1 DEF NoUser
  <2>3. CASE v = u
    BY <1>1, <1>4, <1>5, <1>6, <1>10, <2>1, <2>2, <2>3 DEF Own
  <2>4. CASE v # u
    BY <1>2, <1>4, <1>5, <1>7, <2>1, <2>2, <2>4 DEF Own, Running
  <2> QED
    BY <2>3, <2>4
<1> QED
  BY <1>8, <1>9, <1>10 DEF Ownership

-----------------------------------------------------------------------------
(* The theorems.                                                           *)

LEMMA InvInit == SessionInit => SessionInv
<1>. SUFFICES ASSUME SessionInit PROVE SessionInv
  OBVIOUS
<1>1. HomeTypeOK
  BY HomeInitTyped DEF SessionInit
<1>2. SessionTypeOK
  BY <1>1 DEF SessionInit, SessionTypeOK, HomeTypeOK
<1>3. /\ \A v \in Users : /\ phase[v] = "off" /\ uplink[v] = << >> /\ asked[v] = {}
                          /\ me[v] = NoUser /\ ~known[v]
      /\ Sharers \subseteq Users \ Newcomers /\ Reliable \subseteq Sharers /\ Null \notin Users
  BY SessionAssumption DEF SessionInit, HomeInit, DeviceInit, Reliable
<1>4. \A v \in Sharers : /\ record[v] # "none" => v \in accounts
                         /\ record[v] # "stored" => users[v].house = Null
  <2>1. PICK new \in SUBSET {u \in Users \ Newcomers : users[u].house = Null} :
          accounts = Users \ (Newcomers \cup new)
    BY DEF SessionInit
  <2> QED
    BY <1>3, <2>1 DEF SessionInit
<1>5. Shared
  BY <1>3, <1>4 DEF SessionInit, Shared
<1>6. \A v \in Sharers : Seat(v)
  BY <1>3 DEF Seat, Running, Queued
<1>7. \A v \in Reliable : Own(v)
  BY <1>3, <1>4 DEF SessionInit, Own, NoUser
<1> QED
  BY <1>2, <1>5, <1>6, <1>7 DEF SessionInv, Ownership

LEMMA InvNext == SessionInv /\ [SessionNext]_sessionVars => SessionInv'
<1>. SUFFICES ASSUME SessionInv, [SessionNext]_sessionVars PROVE SessionInv'
  OBVIOUS
<1>1. CASE SessionNext
  <2>1. SessionTypeOK'
    BY <1>1, NextTyped DEF SessionInv, Ownership
  <2>2. ASSUME NEW u \in Sharers, Serve(u) PROVE Ownership'
    <3>1. CASE AnswerUsers(u) /\ Shown(u)
      BY <3>1, OwnRecordRead
    <3>2. CASE AnswerUsers(u) /\ ~Shown(u)
      BY <3>2, AnswersKeep, PhoneStepKeeps DEF AnswerUsers
    <3> QED
      BY <2>2, <3>1, <3>2, OutsideKeeps, AnswersKeep, PhoneStepKeeps DEF Serve
  <2>3. ASSUME NEW u \in Sharers, Handle(u) PROVE Ownership'
    BY <2>3, HomeKeeps, ListsKeep, PhoneStepKeeps DEF Handle
  <2>4. ASSUME NEW u \in Sharers, Tap(u) PROVE Ownership'
    <3>1. CASE EndApp(u)
      BY <3>1, EndKeeps, PhoneStepKeeps DEF EndApp
    <3> QED
      BY <2>4, <3>1, HomeKeeps, ListsKeep, SwitchKeeps, PhoneStepKeeps, LogInKeeps, LogoutKeeps
      DEF Tap
  <2>5. ASSUME ShowApp \/ EndAtLogIn \/ Reach \/ Elsewhere PROVE Ownership'
    BY <2>5, ShowAppKeeps, EndAtLogInKeeps, OutsideKeeps
  <2>6. Ownership'
    <3>1. CASE \E u \in Sharers : Serve(u) \/ Handle(u) \/ Tap(u)
      BY <2>2, <2>3, <2>4, <3>1
    <3> QED
      BY <1>1, <2>5, <3>1 DEF SessionNext
  <2> QED
    BY <2>1, <2>6 DEF SessionInv
<1>2. CASE UNCHANGED sessionVars
  <2>1. UNCHANGED <<users, houses, uplink, online, phase, screen, then, asked,
                    me, known, seen, residents, week, label>>
    BY <1>2 DEF sessionVars, homeVars, deviceVars
  <2>2. UNCHANGED <<accounts, record, signedIn, atLogIn, last, ref, directory,
                    lists, homeTop, profileTop, houseButton>>
    BY <1>2 DEF sessionVars, session, tabs
  <2>3. SessionTypeOK'
    BY <2>1, <2>2 DEF SessionInv, SessionTypeOK, DeviceTypeOK, LabelTypeOK
  <2>4. Ownership'
    BY <2>1, <2>2 DEF SessionInv, Ownership, Shared, Seat, Own, Running, Queued
  <2> QED
    BY <2>3, <2>4 DEF SessionInv
<1> QED
  BY <1>1, <1>2

\* The phone's memory, queue and reference belong to who is signed in.
THEOREM SessionInvariant == SessionSpec => []SessionInv
BY InvInit, InvNext, PTL DEF SessionSpec

\* Every variable of the phone and its session has its type, so that a write
\* never goes to the root of the database for want of a reference.
THEOREM SessionTypeCorrect == SessionSpec => []SessionTypeOK
<1>1. SessionInv => SessionTypeOK
  BY DEF SessionInv
<1> QED
  BY <1>1, SessionInvariant, PTL

\* What a reliable user writes through CurrentUser.ref is written to the own
\* record, whoever used the phone before.
THEOREM WritesStayOwn == SessionSpec => []WritesAreOwn
<1>1. SessionInv => WritesAreOwn
  BY DEF SessionInv, Ownership, Seat, Queued, WritesAreOwn, Reliable
<1> QED
  BY <1>1, SessionInvariant, PTL

\* The house a reliable user's app works with is the own one, also after
\* another user of the phone lived in another.
THEOREM HouseStaysOwn == SessionSpec => []HouseIsOwn
<1>1. SessionInv => HouseIsOwn
  BY DEF SessionInv, Ownership, Own, HouseIsOwn
<1> QED
  BY <1>1, SessionInvariant, PTL

-----------------------------------------------------------------------------
(* Traps.  The inductive invariant: what a load has brought of the users   *)
(* who do not move, and what is registered of those who are signed in.     *)

\* Who lives somewhere for the whole run.
Settlers(us) == {w \in Users \ Newcomers : us[w].house # Null}

\* houses/ as read at any time: the schedule is this week's, and of those
\* who do not move exactly the residents are listed.
Snapshot(now, us, hs) ==
  \A h \in Houses : hs[h] # NoHouse =>
    /\ hs[h].firstWeek = now
    /\ \A w \in Users \ Newcomers : w \in hs[h].residents <=> us[w].house = h

TreeStands ==
  /\ Agreed(Server)
  /\ Snapshot(getCurrentWeek, users, houses)
  /\ \A v \in Users : record[v] # "stored" => users[v].house = Null

Registered(v) ==
  /\ signedIn = v => v \in accounts /\ (v \notin Offline => online[v])
  /\ record[v] = "none" /\ v \in accounts => v \in Killable \cup Offline

NoRestart(s) == \A i \in 1 .. Len(s) : s[i].path # "houses/firstWeek"

\* What CurrentUser holds, of this user or of the last.
Memory(v) ==
  /\ me[v].house \in {Null, users[v].house}
  /\ Snapshot(getCurrentWeek, users, seen[v])
  /\ residents[v] \ Newcomers \subseteq Settlers(users)
  /\ ~Running(v) => residents[v] = {} \/ last = v
  /\ last = v \/ phase[v] = "ready" => residents[v] \ Newcomers \subseteq directory
  /\ NoRestart(uplink[v])

Listed(v) == me[v].house # Null /\ seen[v][me[v].house] # NoHouse => v \in residents[v]

\* A load, answer by answer; no schedule is restarted.
Fetched(v) ==
  /\ phase[v] = "loading" =>
       /\ then[v].step \notin {"checkWeek", "show"}
       /\ "users" \notin asked[v] =>
            /\ Settlers(users) \subseteq directory /\ known[v]
            /\ record[v] = "stored" \/ v \in Offline
       /\ asked[v] = {} => Listed(v)
  /\ phase[v] = "ready" /\ v \notin Offline => known[v] /\ record[v] = "stored"

Watched(v) == Registered(v) /\ Memory(v) /\ Fetched(v)

TrapsInv ==
  /\ SessionInv
  /\ TreeStands
  /\ \A v \in Sharers : Watched(v)

\* The ways to trap that SessionTraps names.
Excused(u) ==
  \/ u \in Killable \cup Offline /\ record[u] = "none"
  \/ u \in Offline /\ Ready(u, "home") /\ ~known[u]
  \/ (residents[u] \cap Newcomers) \ directory # {}

NoOtherTrap == \A u \in Sharers : phase[u] # "crashed" /\ phase'[u] = "crashed" => Excused(u)

\* A step after which nobody but newcomers lives elsewhere than before.
Steady ==
  /\ week' = week
  /\ \A w \in Users \ Newcomers : users'[w].house = users[w].house

LEMMA SteadyKeeps ==
  ASSUME Steady
  PROVE  /\ getCurrentWeek' = getCurrentWeek
         /\ Settlers(users') = Settlers(users)
         /\ \A hs : Snapshot(getCurrentWeek, users, hs) =>
                      Snapshot(getCurrentWeek', users', hs)
<1>1. getCurrentWeek' = getCurrentWeek
  BY DEF Steady, getCurrentWeek
<1>2. Settlers(users') = Settlers(users)
  BY DEF Steady, Settlers
<1>3. ASSUME NEW hs, Snapshot(getCurrentWeek, users, hs)
      PROVE  Snapshot(getCurrentWeek', users', hs)
  <2>1. SUFFICES ASSUME NEW h \in Houses, hs[h] # NoHouse
                 PROVE  /\ hs[h].firstWeek = getCurrentWeek
                        /\ \A w \in Users \ Newcomers :
                             w \in hs[h].residents <=> users'[w].house = h
    BY <1>1 DEF Snapshot
  <2>2. hs[h].firstWeek = getCurrentWeek
    BY <1>3, <2>1 DEF Snapshot
  <2>3. ASSUME NEW w \in Users \ Newcomers
        PROVE  w \in hs[h].residents <=> users'[w].house = h
    <3>1. w \in hs[h].residents <=> users[w].house = h
      BY <1>3, <2>1 DEF Snapshot
    <3> QED
      BY <3>1 DEF Steady
  <2> QED
    BY <2>2, <2>3
<1> QED
  BY <1>1, <1>2, <1>3

LEMMA TrapsFacts ==
  ASSUME TrapsInv
  PROVE  /\ Sharers \subseteq Users \ Newcomers /\ Newcomers \subseteq Users
         /\ Null \notin Users /\ Null \notin Houses
         /\ HomeTypeOK /\ SessionPartOK
         /\ users \in [Users -> UserNode] /\ houses \in [Houses -> HouseNode]
         /\ uplink \in [Users -> Seq(Puts)]
         /\ record \in [Users -> {"none", "unsent", "stored"}]
BY SessionAssumption, NamesAssumption, TypeParts
DEF TrapsInv, SessionInv, HomeTypeOK, DeviceTypeOK, SessionPartOK

\* The tree and the registrations under a step that leaves homes and houses alone.
LEMMA HomesStand ==
  ASSUME TrapsInv, UNCHANGED <<houses, week>>,
         \A v \in Users : /\ users'[v].house = users[v].house
                          /\ record'[v] # "stored" => record[v] # "stored"
  PROVE  Steady /\ TreeStands'
<1>1. Steady
  BY DEF Steady
<1>2. Agreed(Server)'
  BY DEF TrapsInv, TreeStands, Agreed, Server
<1>3. Snapshot(getCurrentWeek, users, houses)'
  BY <1>1, SteadyKeeps DEF TrapsInv, TreeStands
<1> QED
  BY <1>1, <1>2, <1>3 DEF TrapsInv, TreeStands

\* What the others of the phone keep while u uses it.
OthersStill(u) ==
  \A v \in Users \ {u} :
    /\ phase'[v] = phase[v] /\ me'[v] = me[v] /\ seen'[v] = seen[v]
    /\ residents'[v] = residents[v] /\ uplink'[v] = uplink[v] /\ record'[v] = record[v]

LEMMA IdleWatched ==
  ASSUME TrapsInv, NEW u \in Sharers, signedIn = u, Steady, OthersStill(u),
         UNCHANGED <<accounts, signedIn, last>>, NEW v \in Sharers \ {u}
  PROVE  Watched(v)'
<1>1. /\ v \in Users \ Newcomers /\ Null \notin Users /\ Seat(v) /\ Watched(v)
      /\ last = Null
  BY TrapsFacts DEF TrapsInv, SessionInv, Ownership, Shared
<1>2. ~Running(v) /\ v # last /\ residents[v] = {}
  BY <1>1 DEF Seat, Watched, Memory
<1>3. ~Running(v)' /\ phase'[v] = phase[v] /\ record'[v] = record[v]
  BY <1>1, <1>2 DEF OthersStill, Running
<1>4. Registered(v)'
  BY <1>1, <1>3 DEF Watched, Registered
<1>5. Memory(v)'
  <2>1. /\ me'[v] = me[v] /\ seen'[v] = seen[v] /\ residents'[v] = {} /\ uplink'[v] = uplink[v]
    BY <1>1, <1>2 DEF OthersStill
  <2>2. users'[v].house = users[v].house
    BY <1>1 DEF Steady
  <2>3. Snapshot(getCurrentWeek', users', seen'[v])
    BY <1>1, <2>1, SteadyKeeps DEF Watched, Memory
  <2>4. NoRestart(uplink[v]) /\ me[v].house \in {Null, users[v].house}
    BY <1>1 DEF Watched, Memory
  <2> QED
    BY <2>1, <2>2, <2>3, <2>4 DEF Memory
<1>6. Fetched(v)'
  BY <1>3 DEF Fetched, Running
<1> QED
  BY <1>4, <1>5, <1>6 DEF Watched

\* The process ends.
Closes(u) ==
  /\ phase'[u] \in {"off", "crashed"}
  /\ phase'[u] = "crashed" => Excused(u)
  /\ me'[u] = NoUser /\ seen'[u] = NoHouses /\ residents'[u] = {} /\ uplink'[u] = << >>
  /\ record'[u] = IF record[u] = "unsent" THEN "none" ELSE record[u]
  /\ record[u] = "unsent" => u \in Killable \cup Offline

\* A load begins.
Begins(u) ==
  /\ phase'[u] = "loading" /\ asked'[u] = {"users", "houses"}
  /\ then'[u].step \notin {"checkWeek", "show"}
  /\ me'[u] = me[u] /\ seen'[u] = NoHouses /\ residents'[u] = residents[u]
  /\ uplink'[u] = uplink[u] /\ record'[u] = record[u]

\* The screen takes taps, as before, after a load, or for want of a connection.
Stays(u) ==
  /\ phase[u] = "ready" \/ (phase[u] = "loading" /\ asked[u] = {}) \/ (~online[u] /\ ~Running(u))
  /\ phase'[u] = "ready" /\ known'[u] = known[u]
  /\ me'[u] = me[u] /\ seen'[u] = seen[u] /\ residents'[u] = residents[u]
  /\ NoRestart(uplink[u]) => NoRestart(uplink'[u])
  /\ record'[u] = record[u] /\ directory' = directory

TapStep(u) ==
  /\ signedIn = u
  /\ OthersStill(u)
  /\ \A v \in Users : users'[v].house = users[v].house
  /\ UNCHANGED <<houses, week, online, accounts, signedIn, last>>
  /\ Closes(u) \/ Begins(u) \/ Stays(u)

LEMMA TapStepWatched ==
  ASSUME TrapsInv, NEW u \in Sharers, TapStep(u)
  PROVE  TreeStands' /\ (\A v \in Sharers : Watched(v)') /\ NoOtherTrap
<1>1. /\ u \in Users /\ Null \notin Users /\ Sharers \subseteq Users /\ Watched(u) /\ last = Null
  BY TrapsFacts DEF TrapsInv, SessionInv, Ownership, Shared, TapStep
<1>2. \A v \in Users : record'[v] # "stored" => record[v] # "stored"
  <2>1. \A v \in Users \ {u} : record'[v] = record[v]
    BY DEF TapStep, OthersStill
  <2>2. record[u] = "stored" => record'[u] = "stored"
    BY DEF TapStep, Closes, Begins, Stays
  <2> QED
    BY <2>1, <2>2
<1>3. Steady /\ TreeStands'
  <2>1. UNCHANGED <<houses, week>> /\ \A v \in Users : users'[v].house = users[v].house
    BY DEF TapStep
  <2> QED
    BY <1>2, <2>1, HomesStand
<1>4. NoOtherTrap
  <2>1. ASSUME NEW v \in Sharers, phase[v] # "crashed", phase'[v] = "crashed"
        PROVE  Excused(v)
    <3>1. v = u
      BY <1>1, <2>1 DEF TapStep, OthersStill
    <3> QED
      BY <2>1, <3>1 DEF TapStep, Closes, Begins, Stays
  <2> QED
    BY <2>1 DEF NoOtherTrap
<1>5. \A v \in Sharers \ {u} : Watched(v)'
  <2>1. /\ signedIn = u /\ OthersStill(u) /\ UNCHANGED <<accounts, signedIn, last>>
    BY DEF TapStep
  <2> QED
    BY <1>3, <2>1, IdleWatched
<1>6. /\ \A v \in Users : users'[v].house = users[v].house
      /\ Settlers(users') = Settlers(users)
      /\ last' # u
  BY <1>1, <1>3, SteadyKeeps DEF TapStep
<1>7. Registered(u)'
  <2>1. signedIn' = u /\ signedIn = u /\ accounts' = accounts /\ online' = online
    BY DEF TapStep
  <2>2. record'[u] = "none" => record[u] = "none" \/ u \in Killable \cup Offline
    BY DEF TapStep, Closes, Begins, Stays
  <2> QED
    BY <1>1, <2>1, <2>2 DEF Watched, Registered
<1>8. /\ me[u].house \in {Null, users[u].house}
      /\ residents[u] \ Newcomers \subseteq Settlers(users)
      /\ NoRestart(uplink[u])
      /\ Snapshot(getCurrentWeek', users', seen[u])
  BY <1>1, <1>3, SteadyKeeps DEF Watched, Memory
<1>9. Snapshot(getCurrentWeek', users', NoHouses)
  BY DEF Snapshot, NoHouses
<1>10. CASE Closes(u)
  <2>1. ~Running(u)' /\ phase'[u] \notin {"loading", "ready"}
    BY <1>10 DEF Closes, Running
  <2>2. Memory(u)'
    BY <1>6, <1>9, <1>10, <2>1 DEF Closes, Memory, NoUser, NoRestart
  <2>3. Fetched(u)'
    BY <2>1 DEF Fetched
  <2> QED
    BY <1>3, <1>4, <1>5, <1>7, <2>2, <2>3 DEF Watched
<1>11. CASE Begins(u)
  <2>1. Running(u)' /\ phase'[u] = "loading"
    BY <1>11 DEF Begins, Running
  <2>2. Memory(u)'
    BY <1>1, <1>6, <1>8, <1>9, <1>11, <2>1 DEF Begins, Memory
  <2>3. Fetched(u)'
    BY <1>11, <2>1 DEF Begins, Fetched
  <2> QED
    BY <1>3, <1>4, <1>5, <1>7, <2>2, <2>3 DEF Watched
<1>12. CASE Stays(u)
  <2>1. Running(u)' /\ phase'[u] = "ready"
    BY <1>12 DEF Stays, Running
  <2>2. residents[u] \ Newcomers \subseteq directory
    <3>1. CASE phase[u] = "ready"
      BY <1>1, <3>1 DEF Watched, Memory
    <3>2. CASE phase[u] = "loading" /\ asked[u] = {}
      <4>1. Settlers(users) \subseteq directory
        BY <1>1, <3>2 DEF Watched, Fetched
      <4> QED
        BY <1>8, <4>1
    <3>3. CASE ~online[u] /\ ~Running(u)
      <4>1. residents[u] = {}
        BY <1>1, <3>3 DEF Watched, Memory
      <4> QED
        BY <4>1
    <3> QED
      BY <1>12, <3>1, <3>2, <3>3 DEF Stays
  <2>3. u \notin Offline => known[u] /\ record[u] = "stored"
    <3>1. CASE phase[u] = "ready" \/ (phase[u] = "loading" /\ asked[u] = {})
      BY <1>1, <3>1 DEF Watched, Fetched
    <3>2. CASE ~online[u]
      BY <1>1, <3>2 DEF Watched, Registered, TapStep
    <3> QED
      BY <1>12, <3>1, <3>2 DEF Stays
  <2>4. Memory(u)'
    BY <1>1, <1>6, <1>8, <1>12, <2>1, <2>2 DEF Stays, Memory
  <2>5. Fetched(u)'
    BY <1>12, <2>1, <2>3 DEF Stays, Fetched
  <2> QED
    BY <1>3, <1>4, <1>5, <1>7, <2>4, <2>5 DEF Watched
<1> QED
  BY <1>10, <1>11, <1>12 DEF TapStep

\* The process ends by a trap or by hand.
LEMMA FallStep ==
  ASSUME TrapsInv, NEW u \in Sharers, Running(u),
         \/ EndApp(u)
         \/ /\ Fall(u) /\ Excused(u)
            /\ record[u] = "unsent" => u \in Killable \cup Offline,
         UNCHANGED houses, \A v \in Users : users'[v].house = users[v].house
  PROVE  TapStep(u)
<1>1. /\ u \in Users /\ signedIn = u /\ HomeTypeOK
      /\ record \in [Users -> {"none", "unsent", "stored"}]
  BY TrapsFacts, RunningSeat DEF TrapsInv
<1>2. PICK how \in {"off", "crashed"} : Stop(u, how) /\ (how = "crashed" => Excused(u))
  BY DEF Fall, EndApp, Crash
<1>3. /\ record' = [record EXCEPT ![u] = IF @ = "unsent" THEN "none" ELSE @]
      /\ UNCHANGED <<online, week, accounts, signedIn, last>>
  BY DEF Fall, EndApp, ForgetSession
<1>4. record[u] = "unsent" => u \in Killable \cup Offline
  BY DEF EndApp, Drained
<1>5. OthersStill(u)
  BY <1>1, <1>2, <1>3 DEF OthersStill, Stop, HomeTypeOK, DeviceTypeOK
<1>6. /\ phase'[u] = how /\ me'[u] = NoUser /\ seen'[u] = NoHouses
      /\ residents'[u] = {} /\ uplink'[u] = << >>
  BY <1>1, <1>2 DEF Stop, HomeTypeOK, DeviceTypeOK
<1>7. record'[u] = IF record[u] = "unsent" THEN "none" ELSE record[u]
  BY <1>1, <1>3
<1>8. Closes(u)
  BY <1>2, <1>4, <1>6, <1>7 DEF Closes
<1> QED
  BY <1>1, <1>3, <1>5, <1>8 DEF TapStep

LEMMA CloseStep ==
  ASSUME TrapsInv, NEW u \in Sharers, Running(u),
         \/ EndApp(u)
         \/ /\ Trap(u) /\ Excused(u)
            /\ record[u] = "unsent" => u \in Killable \cup Offline
  PROVE  TapStep(u)
<1>1. UNCHANGED houses /\ \A v \in Users : users'[v].house = users[v].house
  BY DEF Trap, EndApp, database
<1> QED
  BY <1>1, FallStep DEF Trap

\* A load begins, or the alert that there is no connection shows.
LEMMA LoadStep ==
  ASSUME TrapsInv, NEW u \in Sharers, signedIn = u, phase[u] = "ready" \/ ~Running(u),
         NEW step, step \notin {"checkWeek", "show"},
         GetAllData(u, Run(step)), FollowDirectory(u),
         UNCHANGED <<users, houses, week, online, accounts, signedIn, last>>,
         UNCHANGED <<me, residents, uplink, record>>
  PROVE  TapStep(u)
<1>1. u \in Users /\ HomeTypeOK
  BY TrapsFacts
<1>2. OthersStill(u)
  BY <1>1 DEF OthersStill, GetAllData, HomeTypeOK, DeviceTypeOK
<1>3. CASE online[u]
  <2>1. /\ phase'[u] = "loading" /\ asked'[u] = {"users", "houses"}
        /\ then'[u] = Run(step) /\ seen'[u] = NoHouses
    BY <1>1, <1>3 DEF GetAllData, HomeTypeOK, DeviceTypeOK
  <2>2. Begins(u)
    BY <2>1 DEF Begins, Run
  <2> QED
    BY <1>2, <2>2 DEF TapStep
<1>4. CASE ~online[u]
  <2>1. phase'[u] = "ready" /\ asked'[u] = asked[u] /\ seen' = seen /\ known' = known
    BY <1>1, <1>4 DEF GetAllData, HomeTypeOK, DeviceTypeOK
  <2>2. directory' = directory
    BY <2>1 DEF FollowDirectory, Running
  <2>3. Stays(u)
    BY <1>4, <2>1, <2>2 DEF Stays
  <2> QED
    BY <1>2, <2>3 DEF TapStep
<1> QED
  BY <1>3, <1>4

\* A handler is done, or a tap leaves the memory as it is.
LEMMA RestStep ==
  ASSUME TrapsInv, NEW u \in Sharers, phase[u] = "loading", asked[u] = {}, Rest(u),
         UNCHANGED <<users, houses, week, online, accounts, signedIn, last>>,
         UNCHANGED <<me, record, directory>>
  PROVE  TapStep(u)
<1>1. u \in Users /\ HomeTypeOK /\ signedIn = u
  BY TrapsFacts, RunningSeat DEF TrapsInv, Running
<1>2. OthersStill(u)
  BY <1>1 DEF OthersStill, Rest, HomeTypeOK, DeviceTypeOK
<1>3. phase'[u] = "ready" /\ UNCHANGED <<uplink, known, seen, residents>>
  BY <1>1 DEF Rest, HomeTypeOK, DeviceTypeOK
<1>4. Stays(u)
  BY <1>3 DEF Stays
<1> QED
  BY <1>1, <1>2, <1>4 DEF TapStep

LEMMA StillStep ==
  ASSUME TrapsInv, NEW u \in Sharers, phase[u] = "ready",
         UNCHANGED <<users, houses, week, online, accounts, signedIn, last>>,
         UNCHANGED <<phase, known, me, seen, residents, record, directory>>,
         \A v \in Users \ {u} : uplink'[v] = uplink[v],
         NoRestart(uplink[u]) => NoRestart(uplink'[u])
  PROVE  TapStep(u)
<1>1. signedIn = u
  BY RunningSeat DEF TrapsInv, Running
<1>2. OthersStill(u)
  BY DEF OthersStill
<1>3. Stays(u)
  BY DEF Stays
<1> QED
  BY <1>1, <1>2, <1>3 DEF TapStep

\* Home's handlers find the week in the schedule, and the user in the house.
LEMMA HandlersRest ==
  ASSUME IsFiniteSet(Users), TrapsInv, NEW u \in Sharers, HomeHandlers(u)
  PROVE  Rest(u) /\ UNCHANGED me /\ phase[u] = "loading" /\ asked[u] = {}
<1>. DEFINE h == me[u].house
            node == seen[u][h]
<1>1. /\ u \in Users \ Newcomers /\ HomeTypeOK /\ Watched(u)
      /\ phase[u] = "loading" /\ asked[u] = {}
  BY TrapsFacts, HomeHandlersDo DEF TrapsInv
<1>2. HomeAppeared(u)
  BY <1>1 DEF HomeHandlers, HomeWeekSet, HomeScheduleRestarted, HomeReloaded, Loaded,
              Watched, Fetched
<1>3. CASE h = Null \/ node = NoHouse
  BY <1>1, <1>2, <1>3 DEF HomeAppeared
<1>4. CASE h # Null /\ node # NoHouse
  <2>1. h \in Houses /\ h = users[u].house
    BY <1>1, <1>4 DEF Watched, Memory, HomeTypeOK, DeviceTypeOK, UserNode
  <2>2. node.firstWeek = getCurrentWeek /\ u \in node.residents
    BY <1>1, <1>4, <2>1 DEF Watched, Memory, Snapshot
  <2>3. u \in residents[u] /\ residents[u] \subseteq Users
    BY <1>1, <1>4 DEF Watched, Fetched, Listed, HomeTypeOK, DeviceTypeOK
  <2>4. Cardinality(residents[u]) \in Nat /\ Cardinality(residents[u]) > 0
    <3>1. IsFiniteSet(residents[u])
      BY <2>3, FS_Subset
    <3> QED
      BY <2>3, <3>1, FS_CardinalityType, FS_EmptySet
  <2>5. getCurrentWeek \in Int
    BY <1>1, DeviceAssumption DEF getCurrentWeek, HomeTypeOK, DeviceTypeOK
  <2>6. checkForEndOfYear(u, h)
    BY <1>2, <1>4 DEF HomeAppeared
  <2>7. checkIfWeekInSchedule(u, h)
    BY <2>2, <2>5, <2>6 DEF checkForEndOfYear
  <2>8. ~PastSchedule(u, node) /\ InRows(u, node)
    BY <2>2, <2>4, <2>5 DEF PastSchedule, InRows, weekIndex
  <2>9. showCurrentTask(u, h)
    BY <2>7, <2>8 DEF checkIfWeekInSchedule
  <2> QED
    BY <1>1, <2>2, <2>8, <2>9 DEF showCurrentTask
<1> QED
  BY <1>1, <1>3, <1>4

LEMMA HomeSteps ==
  ASSUME IsFiniteSet(Users), TrapsInv, NEW u \in Sharers,
         WithSession(u, HomeHandlers(u)) \/ WithSession(u, Refresh(u))
  PROVE  TapStep(u)
<1>1. u \in Users /\ HomeTypeOK /\ AroundHome(u)
  BY TrapsFacts DEF WithSession, AroundHome
<1>2. UNCHANGED <<accounts, signedIn, last>>
  BY <1>1 DEF AroundHome
<1>3. CASE HomeHandlers(u)
  <2>1. /\ Rest(u) /\ UNCHANGED me /\ phase[u] = "loading" /\ asked[u] = {}
        /\ UNCHANGED <<users, houses, online, week>>
    BY <1>1, <1>3, HandlersRest, HomeHandlersDo
  <2>2. phase'[u] = "ready" /\ asked' = asked
    BY <1>1, <2>1 DEF Rest, HomeTypeOK, DeviceTypeOK
  <2>3. UNCHANGED <<record, directory>>
    BY <1>1, <2>2 DEF AroundHome, FollowDirectory, Running
  <2> QED
    BY <1>2, <2>1, <2>3, RestStep
<1>4. CASE Refresh(u)
  <2>1. /\ phase[u] = "ready" /\ GetAllData(u, Run("appear"))
        /\ UNCHANGED <<users, houses, online, week>> /\ UNCHANGED <<me, residents, uplink>>
    BY <1>4 DEF Refresh, Ready, database
  <2>2. signedIn = u
    BY <2>1, RunningSeat DEF TrapsInv, Running
  <2>3. Running(u)'
    BY <1>1, <2>1 DEF GetAllData, Running, HomeTypeOK, DeviceTypeOK
  <2>4. record' = record /\ FollowDirectory(u)
    BY <1>1, <2>3 DEF AroundHome
  <2>5. "appear" \notin {"checkWeek", "show"}
    OBVIOUS
  <2> QED
    BY <1>2, <2>1, <2>2, <2>4, <2>5, LoadStep
<1> QED
  BY <1>3, <1>4 DEF WithSession

\* The dinner table, Your House and the tab bar.
LEMMA ListSteps ==
  ASSUME TrapsInv, NEW u \in Sharers,
         \/ PushDinnerTable(u) \/ DinnerShown(u) \/ LeaveDinnerTable(u)
         \/ ProfileLoaded(u) \/ PushYourHouse(u) \/ LeaveYourHouse(u)
         \/ TabToProfile(u) \/ TabToHome(u)
  PROVE  TapStep(u)
<1>1. u \in Users /\ Watched(u) /\ (Running(u) => signedIn = u)
  BY TrapsFacts, RunningSeat DEF TrapsInv
<1>2. ASSUME phase[u] = "ready", NEW s, NEW step, step \notin {"checkWeek", "show"},
             Show(u, s, step)
      PROVE  TapStep(u)
  <2>1. signedIn = u
    BY <1>1, <1>2 DEF Running
  <2>2. /\ GetAllData(u, Run(step)) /\ FollowDirectory(u)
        /\ UNCHANGED <<users, houses, week, online, accounts, signedIn, last>>
        /\ UNCHANGED <<me, residents, uplink, record>>
    BY <1>2 DEF Show, database, session
  <2> QED
    BY <1>2, <2>1, <2>2, LoadStep
<1>3. ASSUME phase[u] = "ready", NEW s, TurnTo(u, s)
      PROVE  TapStep(u)
  <2>1. /\ UNCHANGED <<users, houses, week, online, accounts, signedIn, last>>
        /\ UNCHANGED <<phase, known, me, seen, residents, record, directory>>
        /\ uplink' = uplink
    BY <1>3 DEF TurnTo, database, memory, session
  <2> QED
    BY <1>3, <2>1, StillStep
<1>4. CASE \/ PushDinnerTable(u) \/ LeaveDinnerTable(u) \/ LeaveYourHouse(u)
           \/ TabToProfile(u) \/ TabToHome(u)
  <2>1. /\ phase[u] = "ready"
        /\ \/ \E s \in Screens, step \in {"appear", "dinner", "profile"} : Show(u, s, step)
           \/ \E s \in Screens : TurnTo(u, s)
    BY <1>4 DEF PushDinnerTable, LeaveDinnerTable, LeaveYourHouse, TabToProfile, TabToHome,
                Ready, Screens
  <2> QED
    BY <1>2, <1>3, <2>1
<1>5. CASE (DinnerShown(u) \/ PushYourHouse(u)) /\ Trap(u) /\ ~AllKnown(u)
  <2>1. /\ residents[u] \ Newcomers \subseteq directory
        /\ record[u] = "unsent" => u \in Killable \cup Offline
        /\ Running(u)
    <3>1. CASE DinnerShown(u)
      <4>1. phase[u] = "loading" /\ asked[u] = {}
        BY <3>1 DEF DinnerShown, Loaded
      <4> QED
        BY <1>1, <4>1 DEF Watched, Memory, Fetched, Running
    <3>2. CASE PushYourHouse(u)
      <4>1. phase[u] = "ready"
        BY <3>2 DEF PushYourHouse, Ready
      <4> QED
        BY <1>1, <4>1 DEF Watched, Memory, Fetched, Running
    <3> QED
      BY <1>5, <3>1, <3>2
  <2>2. Excused(u)
    BY <1>5, <2>1 DEF AllKnown, Excused
  <2> QED
    BY <1>5, <2>1, <2>2, CloseStep
<1>6. CASE ProfileLoaded(u) \/ (DinnerShown(u) /\ AllKnown(u))
  <2>1. /\ phase[u] = "loading" /\ asked[u] = {} /\ Rest(u)
        /\ UNCHANGED <<users, houses, week, online, accounts, signedIn, last>>
        /\ UNCHANGED <<me, record, directory>>
    BY <1>6 DEF ProfileLoaded, DinnerShown, Loaded, database, session
  <2> QED
    BY <2>1, RestStep
<1>7. CASE PushYourHouse(u) /\ AllKnown(u)
  <2>1. /\ phase[u] = "ready"
        /\ UNCHANGED <<users, houses, week, online, accounts, signedIn, last>>
        /\ UNCHANGED <<phase, known, me, seen, residents, record, directory>>
        /\ uplink' = uplink
    BY <1>7 DEF PushYourHouse, Ready, database, memory, session
  <2> QED
    BY <2>1, StillStep
<1>8. CASE (DinnerShown(u) \/ PushYourHouse(u)) /\ ~AllKnown(u)
  BY <1>5, <1>8 DEF DinnerShown, PushYourHouse
<1> QED
  BY <1>4, <1>6, <1>7, <1>8

\* The dinner switch, known or not.
LEMMA SwitchStep ==
  ASSUME TrapsInv, NEW u \in Sharers, SwitchDinner(u)
  PROVE  TapStep(u)
<1>1. /\ u \in Users /\ Watched(u) /\ Ready(u, "home") /\ phase[u] = "ready" /\ Running(u)
      /\ uplink \in [Users -> Seq(Puts)]
  BY TrapsFacts DEF TrapsInv, SwitchDinner, Ready, Running
<1>2. CASE ~known[u] /\ Trap(u)
  <2>1. u \in Offline
    BY <1>1, <1>2 DEF Watched, Fetched
  <2>2. Excused(u)
    BY <1>1, <1>2, <2>1 DEF Excused
  <2> QED
    BY <1>1, <1>2, <2>1, <2>2, CloseStep
<1>3. ASSUME ~known[u], NEW on \in BOOLEAN, ref \in Stored, Drained(u),
             LastWrite(u, SetDinner(ref, on)), Fall(u)
      PROVE  TapStep(u)
  <2>1. u \in Offline
    BY <1>1, <1>3 DEF Watched, Fetched
  <2>2. Excused(u) /\ record[u] # "unsent"
    BY <1>1, <1>3, <2>1 DEF Excused, Drained
  <2>3. UNCHANGED houses /\ \A v \in Users : users'[v].house = users[v].house
    BY <1>3, LastWriteTyped DEF Stored, TrapsInv, SessionInv, SessionTypeOK
  <2> QED
    BY <1>1, <1>3, <2>2, <2>3, FallStep
<1>4. CASE known[u]
  <2>1. /\ \E on \in BOOLEAN : Issue(u, <<SetDinner(ref, on)>>)
        /\ UNCHANGED <<users, houses, week, online, accounts, signedIn, last>>
        /\ UNCHANGED <<phase, known, me, seen, residents, record, directory>>
    BY <1>4 DEF SwitchDinner, database, memory, session
  <2>2. PICK on \in BOOLEAN : Issue(u, <<SetDinner(ref, on)>>)
    BY <2>1
  <2>3. uplink'[u] = Append(uplink[u], SetDinner(ref, on)) /\ uplink[u] \in Seq(Puts)
    BY <1>1, <2>2 DEF Issue
  <2>4. ASSUME NoRestart(uplink[u]) PROVE NoRestart(uplink'[u])
    <3>1. SetDinner(ref, on).path # "houses/firstWeek"
      BY DEF SetDinner
    <3>2. ASSUME NEW i \in 1 .. Len(uplink'[u]) PROVE uplink'[u][i].path # "houses/firstWeek"
      <4>1. CASE i = Len(uplink[u]) + 1
        BY <2>3, <3>1, <4>1
      <4>2. CASE i \in 1 .. Len(uplink[u])
        BY <2>3, <2>4, <4>2 DEF NoRestart
      <4> QED
        BY <2>3, <3>2, <4>1, <4>2
    <3> QED
      BY <3>2 DEF NoRestart
  <2>5. \A v \in Users \ {u} : uplink'[v] = uplink[v]
    BY <1>1, <2>2 DEF Issue
  <2> QED
    BY <1>1, <2>1, <2>4, <2>5, StillStep
<1> QED
  BY <1>2, <1>3, <1>4 DEF SwitchDinner

\* The residents that the last answer of a load brings.
LEMMA HouseInfoListed ==
  ASSUME TrapsInv, NEW u \in Sharers, NEW home, home \in {Null, users[u].house}, NEW hs,
         Snapshot(getCurrentWeek, users, hs), hs \in [Houses -> HouseNode],
         SetHouseInfo(u, home, hs)
  PROVE  /\ residents'[u] \ Newcomers \subseteq Settlers(users)
         /\ home # Null /\ hs[home] # NoHouse => u \in residents'[u]
<1>1. /\ u \in Users \ Newcomers /\ HomeTypeOK /\ Watched(u)
      /\ residents \in [Users -> SUBSET Users]
  BY TrapsFacts DEF TrapsInv, HomeTypeOK, DeviceTypeOK
<1>2. CASE home # Null /\ hs[home] # NoHouse
  <2>1. home \in Houses /\ users[u].house = home
    BY <1>1, <1>2 DEF HomeTypeOK, DeviceTypeOK, UserNode
  <2>2. \A w \in Users \ Newcomers : w \in hs[home].residents <=> users[w].house = home
    BY <1>2, <2>1 DEF Snapshot
  <2>3. residents'[u] = hs[home].residents /\ hs[home].residents \subseteq Users
    BY <1>1, <1>2, <2>1 DEF SetHouseInfo, HouseNode
  <2>4. ASSUME NEW w \in residents'[u] \ Newcomers PROVE w \in Settlers(users)
    BY <1>2, <2>2, <2>3 DEF Settlers
  <2> QED
    BY <1>1, <2>1, <2>2, <2>3, <2>4
<1>3. CASE ~(home # Null /\ hs[home] # NoHouse)
  <2>1. residents'[u] = residents[u]
    BY <1>1, <1>3 DEF SetHouseInfo
  <2> QED
    BY <1>1, <1>3, <2>1 DEF Watched, Memory
<1> QED
  BY <1>2, <1>3

\* An answer to u changes only what is read, of u alone.
LEMMA AnswerWatched ==
  ASSUME TrapsInv, NEW u \in Sharers, asked[u] # {}, OthersStill(u), phase'[u] # "crashed",
         UNCHANGED <<users, houses, week, online, accounts, signedIn, last, record>>,
         phase'[u] \in {phase[u], "frozen"}, then' = then, uplink' = uplink,
         me'[u].house \in {Null, users[u].house},
         Snapshot(getCurrentWeek, users, seen'[u]),
         residents'[u] \ Newcomers \subseteq Settlers(users),
         phase'[u] = "loading" /\ "users" \notin asked'[u] =>
           /\ Settlers(users) \subseteq directory' /\ known'[u]
           /\ record[u] = "stored" \/ u \in Offline,
         phase'[u] = "loading" /\ asked'[u] = {} => Listed(u)'
  PROVE  TreeStands' /\ (\A v \in Sharers : Watched(v)') /\ NoOtherTrap
<1>1. /\ u \in Users /\ Null \notin Users /\ Sharers \subseteq Users /\ Watched(u)
      /\ phase[u] \in {"loading", "frozen"} /\ signedIn = u /\ last = Null
  <2>1. phase[u] \in {"loading", "frozen"}
    BY DEF TrapsInv, SessionInv, Ownership, Seat
  <2>2. Running(u)
    BY <2>1 DEF Running
  <2> QED
    BY <2>1, <2>2, TrapsFacts, RunningSeat DEF TrapsInv, SessionInv, Ownership, Shared
<1>2. Steady /\ TreeStands'
  BY HomesStand
<1>3. \A v \in Sharers \ {u} : Watched(v)'
  BY <1>1, <1>2, IdleWatched
<1>4. NoOtherTrap
  <2>1. \A v \in Users \ {u} : phase'[v] = phase[v]
    BY DEF OthersStill
  <2> QED
    BY <1>1, <2>1 DEF NoOtherTrap
<1>5. phase'[u] \in {"loading", "frozen"} /\ Running(u)'
  BY <1>1 DEF Running
<1>6. Registered(u)'
  BY <1>1 DEF Watched, Registered
<1>7. Memory(u)'
  <2>1. Snapshot(getCurrentWeek', users', seen'[u]) /\ Settlers(users') = Settlers(users)
    BY <1>2, SteadyKeeps
  <2>2. NoRestart(uplink'[u])
    BY <1>1 DEF Watched, Memory
  <2> QED
    BY <1>1, <1>5, <2>1, <2>2 DEF Memory
<1>8. Fetched(u)'
  <2>1. phase'[u] = "loading" => then[u].step \notin {"checkWeek", "show"}
    BY <1>1 DEF Watched, Fetched
  <2>2. Settlers(users') = Settlers(users)
    BY <1>2, SteadyKeeps
  <2> QED
    BY <1>5, <2>1, <2>2 DEF Fetched
<1> QED
  BY <1>2, <1>3, <1>4, <1>6, <1>7, <1>8 DEF Watched

\* What was parsed is as the tree is.
LEMMA ParsedSnapshot ==
  ASSUME TrapsInv
  PROVE  /\ ParsedHouses(houses) \in [Houses -> HouseNode]
         /\ Snapshot(getCurrentWeek, users, ParsedHouses(houses))
<1>1. houses \in [Houses -> HouseNode] /\ Snapshot(getCurrentWeek, users, houses)
  BY TrapsFacts DEF TrapsInv, TreeStands
<1>2. SUFFICES ASSUME NEW h \in Houses, ParsedHouses(houses)[h] # NoHouse
               PROVE  /\ ParsedHouses(houses)[h].firstWeek = getCurrentWeek
                      /\ \A w \in Users \ Newcomers :
                           w \in ParsedHouses(houses)[h].residents <=> users[w].house = h
  BY <1>1, NodesTyped DEF Snapshot
<1>3. /\ houses[h] # NoHouse
      /\ ParsedHouses(houses)[h].firstWeek = houses[h].firstWeek
      /\ ParsedHouses(houses)[h].residents = houses[h].residents
  BY <1>1, <1>2, ParsedKeeps
<1> QED
  BY <1>1, <1>3 DEF Snapshot

\* Writes of the dinner switch leave homes and houses as they are.
LEMMA DinnerQueue ==
  ASSUME NEW tree \in Trees, NEW q \in Seq(Puts),
         \A i \in 1 .. Len(q) : q[i].path = "users/dinner"
  PROVE  /\ Applied(tree, q).houses = tree.houses
         /\ \A w \in Users : Applied(tree, q).users[w].house = tree.users[w].house
<1>. DEFINE c == Course(tree, q)
            Same(t) == /\ t \in Trees /\ t.houses = tree.houses
                       /\ \A w \in Users : t.users[w].house = tree.users[w].house
            Bad == {n \in 0 .. Len(q) : ~Same(c[n])}
<1>1. c[0] = tree /\ \A n \in 1 .. Len(q) : c[n] = After(c[n - 1], q[n])
  BY CourseStep
<1>. HIDE DEF c
<1>2. Len(q) \in Nat /\ \A n \in 1 .. Len(q) : q[n] \in Puts
  OBVIOUS
<1>3. Bad = {}
  <2> SUFFICES ASSUME Bad # {} PROVE FALSE
    OBVIOUS
  <2>1. PICK n \in Bad : \A k \in Bad : n <= k
    <3>1. Bad \in SUBSET Nat
      BY <1>2
    <3> QED
      BY <3>1, LeastNatural
  <2>2. n \in 1 .. Len(q)
    BY <1>1, <1>2, <2>1
  <2>3. n - 1 \in 0 .. Len(q) /\ n - 1 \notin Bad
    BY <1>2, <2>1, <2>2
  <2>4. Same(c[n - 1]) /\ q[n] \in Puts /\ q[n].path = "users/dinner"
    BY <1>2, <2>2, <2>3
  <2>5. After(c[n - 1], q[n]) \in Trees
    BY <2>4, AfterTyped
  <2>6. /\ After(c[n - 1], q[n]).houses = c[n - 1].houses
        /\ After(c[n - 1], q[n]).users = [c[n - 1].users EXCEPT ![q[n].user].dinner = q[n].flag]
    BY <2>4 DEF After, UsersAfter, HousesAfter
  <2>7. \A w \in Users : After(c[n - 1], q[n]).users[w].house = c[n - 1].users[w].house
    <3> SUFFICES ASSUME NEW w \in Users
                 PROVE  After(c[n - 1], q[n]).users[w].house = c[n - 1].users[w].house
      OBVIOUS
    <3>1. c[n - 1].users \in [Users -> UserNode] /\ c[n - 1].users[w] \in UserNode
      BY <2>4 DEF Trees
    <3>2. CASE w = q[n].user
      BY <2>6, <3>1, <3>2 DEF UserNode
    <3>3. CASE w # q[n].user
      BY <2>6, <3>1, <3>3
    <3> QED
      BY <3>2, <3>3
  <2>8. Same(After(c[n - 1], q[n]))
    BY <2>4, <2>5, <2>6, <2>7
  <2>9. Same(c[n])
    BY <1>1, <2>2, <2>8
  <2> QED
    BY <2>1, <2>9
<1>4. Same(c[Len(q)])
  BY <1>2, <1>3
<1> QED
  BY <1>4 DEF Applied, c

\* So the answer to a phone is the server's as far as traps go.
LEMMA AnswerStands ==
  ASSUME TrapsInv, NEW u \in Sharers
  PROVE  /\ Answer(u).houses = houses
         /\ Answer(u).users[u] \in UserNode
         /\ Answer(u).users[u].house = users[u].house
<1>1. u \in Users /\ uplink[u] \in Seq(Puts) /\ Server \in Trees /\ DeviceTypeOK
  BY TrapsFacts DEF HomeTypeOK, DeviceTypeOK, Server, Trees
<1>2. \A i \in 1 .. Len(uplink[u]) : uplink[u][i].path = "users/dinner"
  BY DEF TrapsInv, Watched, Memory, NoRestart, SessionInv, Ownership, Seat, Queued
<1> QED
  BY <1>1, <1>2, DinnerQueue, AnswerTyped DEF Answer, Server

LEMMA HousesAnswerWatched ==
  ASSUME TrapsInv, NEW u \in Sharers, AnswerHouses(u)
  PROVE  TreeStands' /\ (\A v \in Sharers : Watched(v)') /\ NoOtherTrap
<1>1. /\ u \in Users /\ HomeTypeOK /\ Watched(u) /\ Parsable(houses)
      /\ Answer(u).houses = houses
  BY TrapsFacts, AnswerStands DEF TrapsInv, TreeStands, Agreed, Server
<1>2. /\ "houses" \in asked[u] /\ asked' = [asked EXCEPT ![u] = @ \ {"houses"}]
      /\ seen' = [seen EXCEPT ![u] = ParsedHouses(houses)]
      /\ phase' = [phase EXCEPT ![u] = IF houses = NoHouses THEN "frozen" ELSE @]
      /\ IF asked[u] = {"houses"} THEN SetHouseInfo(u, me[u].house, ParsedHouses(houses))
         ELSE UNCHANGED residents
      /\ UNCHANGED <<users, houses, online, week, uplink, then, me, known>>
      /\ AroundHome(u)
  BY <1>1 DEF AnswerHouses, WithSession, AroundHome, ServeHouses, database
<1>3. /\ phase[u] \in {"loading", "frozen"} /\ phase'[u] \in {phase[u], "frozen"}
      /\ asked'[u] = asked[u] \ {"houses"} /\ seen'[u] = ParsedHouses(houses)
  BY <1>1, <1>2 DEF TrapsInv, SessionInv, Ownership, Seat, HomeTypeOK, DeviceTypeOK
<1>4. Running(u) /\ Running(u)'
  BY <1>3 DEF Running
<1>5. UNCHANGED <<record, directory, accounts, signedIn, last>>
  <2>1. UNCHANGED <<record, accounts, signedIn, last>>
    BY <1>2, <1>4 DEF AroundHome
  <2>2. FollowDirectory(u)
    BY <1>2 DEF AroundHome
  <2>3. directory' = directory
    BY <1>2, <1>3, <1>4, <2>2 DEF FollowDirectory
  <2> QED
    BY <2>1, <2>3
<1>6. OthersStill(u)
  BY <1>1, <1>2, <1>5 DEF OthersStill, SetHouseInfo, HomeTypeOK, DeviceTypeOK
<1>7. me[u].house \in {Null, users[u].house}
  BY <1>1 DEF Watched, Memory
<1>8. /\ residents'[u] \ Newcomers \subseteq Settlers(users)
      /\ asked'[u] = {} => Listed(u)'
  <2>1. CASE asked[u] = {"houses"}
    <3>1. SetHouseInfo(u, me[u].house, ParsedHouses(houses))
      BY <1>2, <2>1
    <3>2. /\ residents'[u] \ Newcomers \subseteq Settlers(users)
          /\ me[u].house # Null /\ ParsedHouses(houses)[me[u].house] # NoHouse => u \in residents'[u]
      BY <1>7, <3>1, HouseInfoListed, ParsedSnapshot
    <3> QED
      BY <1>2, <1>3, <3>2 DEF Listed
  <2>2. CASE asked[u] # {"houses"}
    <3>1. residents' = residents /\ asked'[u] # {}
      BY <1>2, <1>3, <2>2
    <3> QED
      BY <1>1, <3>1 DEF Watched, Memory
  <2> QED
    BY <2>1, <2>2
<1>9. phase'[u] = "loading" /\ "users" \notin asked'[u] =>
        /\ Settlers(users) \subseteq directory' /\ known'[u]
        /\ record[u] = "stored" \/ u \in Offline
  BY <1>1, <1>2, <1>3, <1>5 DEF Watched, Fetched
<1>10. Snapshot(getCurrentWeek, users, seen'[u])
  BY <1>3, ParsedSnapshot
<1>11. phase'[u] # "crashed" /\ asked[u] # {} /\ me'[u].house \in {Null, users[u].house}
  BY <1>2, <1>3, <1>7
<1> QED
  BY <1>2, <1>3, <1>5, <1>6, <1>8, <1>9, <1>10, <1>11, AnswerWatched

LEMMA UsersAnswerWatched ==
  ASSUME TrapsInv, NEW u \in Sharers, AnswerUsers(u)
  PROVE  TreeStands' /\ (\A v \in Sharers : Watched(v)') /\ NoOtherTrap
<1>1. /\ u \in Users /\ HomeTypeOK /\ Watched(u) /\ "users" \in asked[u]
      /\ phase[u] \in {"loading", "frozen"} /\ Running(u) /\ signedIn = u /\ u \in accounts
  <2>1. "users" \in asked[u]
    BY DEF AnswerUsers, ServeUsers
  <2>2. phase[u] \in {"loading", "frozen"} /\ Running(u)
    BY <2>1 DEF TrapsInv, SessionInv, Ownership, Seat, Running
  <2> QED
    BY <2>1, <2>2, TrapsFacts, RunningSeat DEF TrapsInv, Watched, Registered
<1>2. CASE Shown(u)
  <2>1. /\ ServeUsers(u) /\ FollowDirectory(u)
        /\ UNCHANGED <<accounts, record, signedIn, last>>
    BY <1>2 DEF AnswerUsers, Shown
  <2>. DEFINE own == Answer(u).users[u]
              home == IF own.house = Null THEN me[u].house ELSE own.house
  <2>2. /\ asked' = [asked EXCEPT ![u] = @ \ {"users"}]
        /\ known' = [known EXCEPT ![u] = TRUE]
        /\ me' = [me EXCEPT ![u] = [own EXCEPT !.house = home]]
        /\ IF asked[u] = {"users"} /\ phase[u] = "loading" THEN SetHouseInfo(u, home, seen[u])
           ELSE UNCHANGED residents
        /\ UNCHANGED <<users, houses, online, week, uplink, phase, then, seen>>
    BY <2>1 DEF ServeUsers, database
  <2>3. home = users[u].house /\ own \in UserNode
    BY <1>1, AnswerStands DEF Watched, Memory
  <2>. HIDE DEF own, home
  <2>4. me'[u].house = home /\ known'[u] /\ asked'[u] = asked[u] \ {"users"}
    BY <1>1, <2>2, <2>3 DEF HomeTypeOK, DeviceTypeOK, UserNode
  <2>5. OthersStill(u)
    BY <1>1, <2>1, <2>2 DEF OthersStill, SetHouseInfo, HomeTypeOK, DeviceTypeOK
  <2>6. Settlers(users) \subseteq directory'
    <3>1. directory' = RecordsFor(u)
      <4>1. Running(u)' /\ "users" \in asked[u] \ asked'[u]
        BY <1>1, <2>2, <2>4 DEF Running
      <4> QED
        BY <1>1, <2>1, <4>1 DEF FollowDirectory
    <3>2. Settlers(users) \subseteq RecordsFor(u)
      BY DEF TrapsInv, TreeStands, Settlers, RecordsFor, Stored
    <3> QED
      BY <3>1, <3>2
  <2>7. /\ residents'[u] \ Newcomers \subseteq Settlers(users)
        /\ phase'[u] = "loading" /\ asked'[u] = {} => Listed(u)'
    <3>1. Snapshot(getCurrentWeek, users, seen[u]) /\ seen[u] \in [Houses -> HouseNode]
      BY <1>1 DEF Watched, Memory, HomeTypeOK, DeviceTypeOK
    <3>2. CASE asked[u] = {"users"} /\ phase[u] = "loading"
      <4>1. SetHouseInfo(u, home, seen[u])
        BY <2>2, <3>2
      <4>2. /\ residents'[u] \ Newcomers \subseteq Settlers(users)
            /\ home # Null /\ seen[u][home] # NoHouse => u \in residents'[u]
        BY <2>3, <3>1, <4>1, HouseInfoListed
      <4> QED
        BY <2>2, <2>4, <4>2 DEF Listed
    <3>3. CASE ~(asked[u] = {"users"} /\ phase[u] = "loading")
      <4>1. residents' = residents /\ (phase'[u] = "loading" => asked'[u] # {})
        BY <1>1, <2>2, <2>4, <3>3
      <4> QED
        BY <1>1, <4>1 DEF Watched, Memory
    <3> QED
      BY <3>2, <3>3
  <2>8. Snapshot(getCurrentWeek, users, seen'[u])
    BY <1>1, <2>2 DEF Watched, Memory
  <2>9. /\ phase'[u] = phase[u] /\ phase'[u] # "crashed" /\ asked[u] # {}
        /\ me'[u].house \in {Null, users[u].house}
    BY <1>1, <2>2, <2>3, <2>4
  <2> QED
    BY <1>2, <2>1, <2>2, <2>4, <2>5, <2>6, <2>7, <2>8, <2>9, AnswerWatched DEF Shown
<1>3. CASE record[u] = "none" /\ Trap(u)
  <2>1. Excused(u) /\ record[u] # "unsent"
    BY <1>1, <1>3 DEF Watched, Registered, Excused
  <2>2. TapStep(u)
    BY <1>1, <1>3, <2>1, CloseStep
  <2> QED
    BY <2>2, TapStepWatched
<1>4. CASE record[u] = "none" /\ ~Trap(u)
  <2>1. /\ asked' = [asked EXCEPT ![u] = @ \ {"users"}]
        /\ phase' = [phase EXCEPT ![u] = "frozen"]
        /\ UNCHANGED <<users, houses, online, week, uplink, then, me, known, seen, residents>>
        /\ UNCHANGED <<accounts, record, signedIn, last, directory>>
    BY <1>4 DEF AnswerUsers, Shown, database, memory, session
  <2>2. phase'[u] = "frozen"
    BY <1>1, <2>1 DEF HomeTypeOK, DeviceTypeOK
  <2>3. OthersStill(u)
    BY <1>1, <2>1 DEF OthersStill, HomeTypeOK, DeviceTypeOK
  <2>4. /\ Snapshot(getCurrentWeek, users, seen'[u])
        /\ residents'[u] \ Newcomers \subseteq Settlers(users)
        /\ me'[u].house \in {Null, users[u].house}
    BY <1>1, <2>1 DEF Watched, Memory
  <2>5. phase'[u] # "crashed" /\ asked[u] # {} /\ phase'[u] # "loading"
    BY <1>1, <2>2
  <2> QED
    BY <2>1, <2>2, <2>3, <2>4, <2>5, AnswerWatched
<1> QED
  BY <1>2, <1>3, <1>4 DEF AnswerUsers

\* No phone takes part: the tree, the connection or a registration moves on.
LEMMA OutsideWatched ==
  ASSUME TrapsInv, Steady,
         UNCHANGED <<phase, then, asked, me, known, seen, residents>>,
         UNCHANGED <<signedIn, last, directory>>,
         \A v \in Sharers :
           /\ users'[v].house = users[v].house
           /\ record[v] = "stored" => record'[v] = "stored"
           /\ record'[v] = "none" => record[v] = "none"
           /\ v \in accounts' <=> v \in accounts
           /\ signedIn = v /\ v \notin Offline => online'[v]
           /\ NoRestart(uplink[v]) => NoRestart(uplink'[v])
  PROVE  (\A v \in Sharers : Watched(v)') /\ NoOtherTrap
<1>1. NoOtherTrap
  BY DEF NoOtherTrap
<1>2. Settlers(users') = Settlers(users)
  BY SteadyKeeps
<1>3. ASSUME NEW v \in Sharers PROVE Watched(v)'
  <2>1. Watched(v)
    BY DEF TrapsInv
  <2>2. Registered(v)'
    BY <2>1 DEF Watched, Registered
  <2>3. Memory(v)'
    <3>1. Snapshot(getCurrentWeek', users', seen'[v])
      BY <2>1, SteadyKeeps DEF Watched, Memory
    <3> QED
      BY <1>2, <2>1, <3>1 DEF Watched, Memory, Running
  <2>4. Fetched(v)'
    BY <1>2, <2>1 DEF Watched, Fetched, Listed
  <2> QED
    BY <2>2, <2>3, <2>4 DEF Watched
<1> QED
  BY <1>1, <1>3

\* A registration or a write of the phone reaches the server.
LEMMA SentWatched ==
  ASSUME TrapsInv, NEW u \in Sharers, StoreRecord(u) \/ Deliver(u)
  PROVE  TreeStands' /\ (\A v \in Sharers : Watched(v)') /\ NoOtherTrap
<1>1. /\ u \in Users /\ Sharers \subseteq Users /\ users \in [Users -> UserNode]
      /\ record \in [Users -> {"none", "unsent", "stored"}]
      /\ uplink \in [Users -> Seq(Puts)] /\ Null \notin Users
      /\ \A v \in Sharers : Watched(v)
      /\ \A v \in Users : record[v] # "stored" => users[v].house = Null
  BY TrapsFacts DEF TrapsInv, TreeStands
<1>2. \A v \in Sharers : signedIn = v /\ v \notin Offline => online[v]
  BY <1>1 DEF Watched, Registered
<1>3. CASE StoreRecord(u)
  <2>1. /\ record[u] = "unsent"
        /\ record' = [record EXCEPT ![u] = "stored"]
        /\ users' = [users EXCEPT ![u] = NoUser]
        /\ UNCHANGED <<houses, week, uplink, online, accounts>>
        /\ UNCHANGED <<phase, then, asked, me, known, seen, residents>>
        /\ UNCHANGED <<signedIn, last, directory>>
    BY <1>3 DEF StoreRecord, memory
  <2>2. \A v \in Users : /\ users'[v].house = users[v].house
                         /\ record'[v] # "stored" => record[v] # "stored"
    BY <1>1, <2>1 DEF NoUser
  <2>3. Steady /\ TreeStands'
    BY <2>1, <2>2, HomesStand
  <2>4. \A v \in Sharers : /\ record[v] = "stored" => record'[v] = "stored"
                           /\ record'[v] = "none" => record[v] = "none"
    BY <1>1, <2>1
  <2> QED
    BY <1>1, <1>2, <2>1, <2>2, <2>3, <2>4, OutsideWatched
<1>4. CASE Deliver(u)
  <2>1. /\ uplink[u] # << >>
        /\ users' = UsersAfter(users, Head(uplink[u]))
        /\ houses' = HousesAfter(houses, Head(uplink[u]))
        /\ uplink' = [uplink EXCEPT ![u] = Tail(@)]
        /\ UNCHANGED <<week, online, accounts, record>>
        /\ UNCHANGED <<phase, then, asked, me, known, seen, residents>>
        /\ UNCHANGED <<signedIn, last, directory>>
    BY <1>4 DEF Deliver, ApplyPut, memory, session
  <2>2. /\ uplink[u] \in Seq(Puts) /\ Queued(u, uplink[u]) /\ NoRestart(uplink[u])
    BY <1>1 DEF TrapsInv, SessionInv, Ownership, Seat, Watched, Memory
  <2>3. /\ Head(uplink[u]) = uplink[u][1] /\ 1 \in 1 .. Len(uplink[u])
        /\ Head(uplink[u]) \in Puts
    BY <2>1, <2>2
  <2>4. Head(uplink[u]).path = "users/dinner"
    BY <2>2, <2>3 DEF Queued, NoRestart
  <2>5. /\ users' = [users EXCEPT ![Head(uplink[u]).user].dinner = Head(uplink[u]).flag]
        /\ houses' = houses
    BY <2>1, <2>4 DEF UsersAfter, HousesAfter
  <2>6. \A v \in Users : /\ users'[v].house = users[v].house
                         /\ record'[v] # "stored" => record[v] # "stored"
    <3>1. PICK w, b : users' = [users EXCEPT ![w].dinner = b]
      BY <2>5
    <3>2. \A v \in Users : users'[v].house = users[v].house
      BY <1>1, <3>1 DEF UserNode
    <3> QED
      BY <2>1, <3>2
  <2>7. Steady /\ TreeStands'
    BY <2>1, <2>5, <2>6, HomesStand
  <2>8. \A v \in Sharers : NoRestart(uplink[v]) => NoRestart(uplink'[v])
    <3>1. NoRestart(Tail(uplink[u]))
      <4>1. \A i \in 1 .. Len(Tail(uplink[u])) :
              i + 1 \in 1 .. Len(uplink[u]) /\ Tail(uplink[u])[i] = uplink[u][i + 1]
        BY <2>1, <2>2
      <4> QED
        BY <2>2, <4>1 DEF NoRestart
    <3> QED
      BY <1>1, <2>1, <3>1
  <2> QED
    BY <1>1, <1>2, <2>1, <2>6, <2>7, <2>8, OutsideWatched
<1> QED
  BY <1>3, <1>4

\* The connection, and newcomers on other phones.
LEMMA ElsewhereWatched ==
  ASSUME TrapsInv, Reach \/ Elsewhere
  PROVE  TreeStands' /\ (\A v \in Sharers : Watched(v)') /\ NoOtherTrap
<1>1. /\ Sharers \subseteq Users \ Newcomers /\ Newcomers \subseteq Users
      /\ Null \notin Users /\ Null \notin Houses
      /\ users \in [Users -> UserNode] /\ houses \in [Houses -> HouseNode]
      /\ record \in [Users -> {"none", "unsent", "stored"}]
      /\ \A v \in Sharers : Watched(v)
  BY TrapsFacts DEF TrapsInv
<1>2. \A v \in Sharers : signedIn = v /\ v \notin Offline => online[v]
  BY <1>1 DEF Watched, Registered
<1>3. CASE Reach
  <2>1. /\ UNCHANGED <<users, houses, week, uplink, accounts, record>>
        /\ UNCHANGED <<phase, then, asked, me, known, seen, residents>>
        /\ UNCHANGED <<signedIn, last, directory>>
    BY <1>3 DEF Reach, database, memory, session
  <2>2. \A v \in Sharers : signedIn = v /\ v \notin Offline => online'[v]
    BY <1>1, <1>3 DEF Reach
  <2>3. Steady /\ TreeStands'
    BY <2>1, HomesStand
  <2> QED
    BY <2>1, <2>2, <2>3, OutsideWatched
<1>4. ASSUME NEW u \in Newcomers, Enroll(u)
      PROVE  TreeStands' /\ (\A v \in Sharers : Watched(v)') /\ NoOtherTrap
  <2>1. /\ accounts' = accounts \cup {u}
        /\ record' = [record EXCEPT ![u] = "stored"]
        /\ UNCHANGED <<users, houses, week, uplink, online>>
        /\ UNCHANGED <<phase, then, asked, me, known, seen, residents>>
        /\ UNCHANGED <<signedIn, last, directory>>
    BY <1>4 DEF Enroll, homeVars, deviceVars
  <2>2. \A v \in Users : record'[v] # "stored" => record[v] # "stored"
    BY <1>1, <2>1
  <2>3. Steady /\ TreeStands'
    BY <2>1, <2>2, HomesStand
  <2>4. \A v \in Sharers : record'[v] = record[v] /\ (v \in accounts' <=> v \in accounts)
    BY <1>1, <2>1
  <2> QED
    BY <1>2, <2>1, <2>3, <2>4, OutsideWatched
<1>5. ASSUME NEW u \in Newcomers, NEW h \in Houses, MoveIn(u, h)
      PROVE  TreeStands' /\ (\A v \in Sharers : Watched(v)') /\ NoOtherTrap
  <2>1. /\ record[u] = "stored" /\ users[u].house = Null /\ houses[h] # NoHouse
        /\ users' = [users EXCEPT ![u].house = h]
        /\ houses' = [houses EXCEPT ![h].residents = houses[h].residents \cup {u}]
        /\ UNCHANGED <<week, uplink, online, accounts, record>>
        /\ UNCHANGED <<phase, then, asked, me, known, seen, residents>>
        /\ UNCHANGED <<signedIn, last, directory>>
    BY <1>5 DEF MoveIn, UsersAfter, HousesAfter, SetHome, SetResident, memory, session
  <2>2. /\ users'[u].house = h
        /\ \A v \in Users \ {u} : users'[v].house = users[v].house
    BY <1>1, <2>1 DEF UserNode
  <2>3. /\ houses'[h].residents = houses[h].residents \cup {u}
        /\ houses'[h].firstWeek = houses[h].firstWeek
        /\ houses'[h].password = houses[h].password /\ houses'[h].drinks = houses[h].drinks
        /\ houses'[h].tasks = houses[h].tasks
        /\ \A g \in Houses \ {h} : houses'[g] = houses[g]
    BY <1>1, <2>1 DEF HouseNode
  <2>4. Steady
    BY <1>1, <2>1, <2>2 DEF Steady
  <2>5. /\ Parsable(houses)
        /\ \A v \in Users, g \in Houses : v \in houses[g].residents <=> users[v].house = g
        /\ Snapshot(getCurrentWeek, users, houses)
        /\ \A v \in Users : record[v] # "stored" => users[v].house = Null
    BY DEF TrapsInv, TreeStands, Agreed, Server
  <2>6. Parsable(houses')
    <3>1. Complete(houses'[h])
      BY <2>1, <2>3, <2>5 DEF Parsable, Complete
    <3> QED
      BY <2>3, <2>5, <3>1 DEF Parsable
  <2>7. ASSUME NEW v \in Users, NEW g \in Houses
        PROVE  v \in houses'[g].residents <=> users'[v].house = g
    <3>1. v \in houses[g].residents <=> users[v].house = g
      BY <2>5
    <3>2. CASE v = u
      BY <1>1, <2>1, <2>2, <2>3, <3>1, <3>2
    <3>3. CASE v # u
      BY <1>1, <2>2, <2>3, <3>1, <3>3
    <3> QED
      BY <3>2, <3>3
  <2>8. Agreed(Server)'
    BY <2>6, <2>7 DEF Agreed, Server
  <2>9. Snapshot(getCurrentWeek', users', houses')
    <3>1. \A g \in Houses : houses'[g] # NoHouse => houses'[g].firstWeek = getCurrentWeek
      BY <2>1, <2>3, <2>5 DEF Snapshot
    <3> QED
      BY <2>4, <2>7, <3>1, SteadyKeeps DEF Snapshot
  <2>10. TreeStands'
    BY <2>1, <2>2, <2>5, <2>8, <2>9 DEF TreeStands
  <2>11. \A v \in Sharers : users'[v].house = users[v].house
    BY <1>1, <2>2
  <2> QED
    BY <1>2, <2>1, <2>4, <2>10, <2>11, OutsideWatched
<1> QED
  BY <1>3, <1>4, <1>5 DEF Elsewhere

\* The launch.
LEMMA ShowAppWatched ==
  ASSUME TrapsInv, ShowApp
  PROVE  TreeStands' /\ (\A v \in Sharers : Watched(v)') /\ NoOtherTrap
<1>1. CASE signedIn = Null /\ atLogIn' = TRUE /\ UNCHANGED <<homeVars, ref, directory>>
  <2>1. /\ UNCHANGED <<users, houses, week, uplink, online, accounts, record>>
        /\ UNCHANGED <<phase, then, asked, me, known, seen, residents>>
        /\ UNCHANGED <<signedIn, last, directory>>
    BY <1>1 DEF ShowApp, homeVars, deviceVars
  <2>2. Steady /\ TreeStands'
    BY <2>1, HomesStand
  <2>3. \A v \in Sharers : signedIn # v
    BY <1>1, TrapsFacts
  <2> QED
    BY <2>1, <2>2, <2>3, OutsideWatched
<1>2. ASSUME NEW u \in Sharers, u = signedIn, Launch(u), FollowDirectory(u)
      PROVE  TapStep(u)
  <2>1. ~Running(u)
    BY <1>2 DEF ShowApp, AppRunning
  <2>2. /\ GetAllData(u, Run("appear"))
        /\ UNCHANGED <<users, houses, week, online, accounts, signedIn, last>>
        /\ UNCHANGED <<me, residents, uplink, record>>
    BY <1>2 DEF Launch, ShowApp, database
  <2>3. "appear" \notin {"checkWeek", "show"}
    OBVIOUS
  <2> QED
    BY <1>2, <2>1, <2>2, <2>3, LoadStep
<1> QED
  BY <1>1, <1>2, TapStepWatched DEF ShowApp

\* At LogIn nobody runs the app, and only the last user's data is held.
LEMMA AtLogInFacts ==
  ASSUME TrapsInv, atLogIn, NEW v \in Sharers
  PROVE  /\ signedIn = Null /\ ~Running(v) /\ phase[v] \notin {"loading", "ready"}
         /\ me[v] = NoUser
         /\ residents[v] = {} \/ last = v
BY TrapsFacts DEF TrapsInv, SessionInv, Ownership, Shared, Seat, Watched, Memory, Running

LEMMA EndAtLogInWatched ==
  ASSUME TrapsInv, EndAtLogIn
  PROVE  TreeStands' /\ (\A v \in Sharers : Watched(v)') /\ NoOtherTrap
<1>1. /\ atLogIn /\ last' = Null
      /\ \A v \in Sharers : Drained(v) \/ v \in Killable
      /\ uplink' = [v \in Users |-> << >>]
      /\ record' = [v \in Users |-> IF record[v] = "unsent" THEN "none" ELSE record[v]]
      /\ me' = [v \in Users |-> NoUser]
      /\ seen' = [v \in Users |-> NoHouses]
      /\ residents' = [v \in Users |-> {}]
      /\ UNCHANGED <<users, houses, online, week, phase, accounts, signedIn>>
  BY DEF EndAtLogIn, database
<1>2. Sharers \subseteq Users /\ Null \notin Users
  BY TrapsFacts
<1>3. Steady /\ TreeStands'
  BY <1>1, HomesStand
<1>4. NoOtherTrap
  BY <1>1 DEF NoOtherTrap
<1>5. ASSUME NEW v \in Sharers PROVE Watched(v)'
  <2>1. Watched(v) /\ signedIn = Null /\ phase[v] \notin {"loading", "ready"} /\ v \in Users
    BY <1>1, <1>2, AtLogInFacts DEF TrapsInv
  <2>2. Registered(v)'
    <3>1. record'[v] = "none" => record[v] = "none" \/ v \in Killable
      BY <1>1, <2>1 DEF Drained
    <3> QED
      BY <1>1, <1>2, <2>1, <3>1 DEF Watched, Registered
  <2>3. Memory(v)'
    <3>1. Snapshot(getCurrentWeek', users', NoHouses)
      BY DEF Snapshot, NoHouses
    <3>2. /\ me'[v] = NoUser /\ seen'[v] = NoHouses /\ residents'[v] = {} /\ uplink'[v] = << >>
      BY <1>1, <2>1
    <3> QED
      BY <3>1, <3>2 DEF Memory, NoUser, NoRestart
  <2>4. Fetched(v)'
    BY <1>1, <2>1 DEF Fetched
  <2> QED
    BY <2>2, <2>3, <2>4 DEF Watched
<1> QED
  BY <1>3, <1>4, <1>5

LEMMA LogoutWatched ==
  ASSUME TrapsInv, NEW u \in Sharers, Logout(u)
  PROVE  TreeStands' /\ (\A v \in Sharers : Watched(v)') /\ NoOtherTrap
<1>1. /\ u \in Users /\ Null \notin Users /\ Sharers \subseteq Users /\ HomeTypeOK
      /\ phase[u] = "ready" /\ signedIn = u /\ Watched(u)
  BY TrapsFacts, RunningSeat DEF TrapsInv, Logout, Ready, Running
<1>2. /\ me' = [me EXCEPT ![u] = NoUser] /\ phase' = [phase EXCEPT ![u] = "off"]
      /\ signedIn' = Null /\ last' = u
      /\ UNCHANGED <<users, houses, online, week, uplink, accounts, record>>
      /\ UNCHANGED <<seen, residents, directory>>
  BY DEF Logout, database
<1>3. /\ me'[u] = NoUser /\ phase'[u] = "off"
      /\ \A v \in Users \ {u} : me'[v] = me[v] /\ phase'[v] = phase[v]
  BY <1>1, <1>2 DEF HomeTypeOK, DeviceTypeOK
<1>4. Steady /\ TreeStands'
  BY <1>2, HomesStand
<1>5. NoOtherTrap
  BY <1>1, <1>3 DEF NoOtherTrap
<1>6. ASSUME NEW v \in Sharers PROVE Watched(v)'
  <2>1. Watched(v) /\ v \in Users /\ Seat(v)
    BY <1>1 DEF TrapsInv, SessionInv, Ownership
  <2>2. /\ ~Running(v)' /\ phase'[v] \notin {"loading", "ready"}
        /\ v # u => residents[v] = {}
    <3>1. CASE v = u
      BY <1>3, <3>1 DEF Running
    <3>2. CASE v # u
      <4>1. ~Running(v) /\ last = Null
        BY <1>1, <2>1, <3>2 DEF Seat, TrapsInv, SessionInv, Ownership, Shared
      <4> QED
        BY <1>1, <1>3, <2>1, <3>2, <4>1 DEF Running, Watched, Memory
    <3> QED
      BY <3>1, <3>2
  <2>3. Registered(v)'
    BY <1>1, <1>2, <2>1 DEF Watched, Registered
  <2>4. Memory(v)'
    <3>1. Snapshot(getCurrentWeek', users', seen'[v]) /\ Settlers(users') = Settlers(users)
      BY <1>2, <1>4, <2>1, SteadyKeeps DEF Watched, Memory
    <3>2. me'[v].house \in {Null, users'[v].house}
      BY <1>2, <1>3, <2>1 DEF Watched, Memory, NoUser
    <3>3. residents'[v] \ Newcomers \subseteq Settlers(users') /\ NoRestart(uplink'[v])
      BY <1>2, <2>1, <3>1 DEF Watched, Memory
    <3>4. residents'[v] = {} \/ last' = v
      BY <1>2, <2>2
    <3>5. last' = v \/ phase'[v] = "ready" => residents'[v] \ Newcomers \subseteq directory'
      BY <1>1, <1>2, <2>1, <2>2 DEF Watched, Memory
    <3> QED
      BY <3>1, <3>2, <3>3, <3>4, <3>5 DEF Memory
  <2>5. Fetched(v)'
    BY <2>2 DEF Fetched
  <2> QED
    BY <2>3, <2>4, <2>5 DEF Watched
<1> QED
  BY <1>4, <1>5, <1>6

\* Logging in: the last user's residents become the own.
LEMMA LogInWatched ==
  ASSUME TrapsInv, NEW u \in Sharers, LogIn(u)
  PROVE  TreeStands' /\ (\A v \in Sharers : Watched(v)') /\ NoOtherTrap
<1>1. /\ u \in Users /\ Null \notin Users /\ Sharers \subseteq Users /\ HomeTypeOK
      /\ last \in Sharers \cup {Null} /\ accounts \subseteq Users
      /\ record \in [Users -> {"none", "unsent", "stored"}]
      /\ \A v \in Sharers : record[v] # "none" => v \in accounts
  BY TrapsFacts DEF TrapsInv, SessionInv, Ownership, Shared, SessionPartOK
<1>2. \A v \in Sharers : /\ signedIn = Null /\ phase[v] \notin {"loading", "ready"}
                         /\ me[v] = NoUser /\ (residents[v] = {} \/ last = v)
                         /\ Watched(v)
  BY AtLogInFacts DEF LogIn, TrapsInv
<1>3. /\ online[u] /\ signedIn' = u /\ last' = Null /\ RegisterIfNew(u)
      /\ UNCHANGED <<users, houses, uplink, week>>
      /\ IF last \in Users THEN InheritFrom(last, u) ELSE UNCHANGED <<me, residents>>
  BY DEF LogIn, database
<1>4. /\ u \in accounts'
      /\ \A v \in Sharers \ {u} : v \in accounts' => v \in accounts
      /\ \A v \in Users \ {u} : record'[v] = record[v]
      /\ record'[u] = "stored" <=> record[u] = "stored"
      /\ record'[u] = "none" => record[u] = "none" /\ u \in accounts
  <2>1. CASE u \in accounts
    BY <1>1, <1>3, <2>1 DEF RegisterIfNew
  <2>2. CASE u \notin accounts
    BY <1>1, <1>3, <2>2 DEF RegisterIfNew
  <2> QED
    BY <2>1, <2>2
<1>5. Steady /\ TreeStands'
  BY <1>3, <1>4, HomesStand
<1>6. \A v \in Sharers : me'[v] = NoUser
  <2>1. CASE last \in Users
    <3>1. me' = [me EXCEPT ![last] = NoUser, ![u] = me[last]] /\ last \in Sharers
      BY <1>1, <1>3, <2>1 DEF InheritFrom
    <3> QED
      BY <1>1, <1>2, <3>1 DEF HomeTypeOK, DeviceTypeOK
  <2>2. CASE last \notin Users
    BY <1>2, <1>3, <2>2
  <2> QED
    BY <2>1, <2>2
<1>7. /\ \A v \in Sharers \ {u} : residents'[v] = {}
      /\ residents'[u] \ Newcomers \subseteq Settlers(users)
      /\ residents'[u] \ Newcomers \subseteq directory
  <2>1. CASE last \in Users
    <3>1. residents' = [residents EXCEPT ![last] = {}, ![u] = residents[last]] /\ last \in Sharers
      BY <1>1, <1>3, <2>1 DEF InheritFrom
    <3>2. residents'[u] = residents[last] /\ \A v \in Sharers \ {u} : residents'[v] = {}
      BY <1>1, <1>2, <3>1 DEF HomeTypeOK, DeviceTypeOK
    <3>3. Watched(last)
      BY <1>2, <3>1
    <3> QED
      BY <3>2, <3>3 DEF Watched, Memory
  <2>2. CASE last \notin Users
    <3>1. residents' = residents /\ last \notin Sharers
      BY <1>1, <1>3, <2>2
    <3> QED
      BY <1>2, <3>1
  <2> QED
    BY <2>1, <2>2
<1>8. /\ \A v \in Users \ {u} : phase'[v] = phase[v]
      /\ \/ /\ phase'[u] = "loading" /\ then'[u].step = "appear"
            /\ asked'[u] = {"users", "houses"}
            /\ UNCHANGED online
         \/ /\ u \in Offline /\ phase'[u] = "ready" /\ directory' = directory
      /\ \A v \in Sharers : seen'[v] = NoHouses \/ (last \in Users /\ seen'[v] = seen[last])
  <2>1. CASE /\ phase' = [phase EXCEPT ![u] = "loading"]
             /\ then' = [then EXCEPT ![u] = Run("appear")]
             /\ asked' = [asked EXCEPT ![u] = {"users", "houses"}]
             /\ seen' = [v \in Users |-> NoHouses]
             /\ UNCHANGED online
    BY <1>1, <2>1 DEF HomeTypeOK, DeviceTypeOK, Run
  <2>2. CASE /\ u \in Offline
             /\ phase' = [phase EXCEPT ![u] = "ready"]
             /\ seen' = [v \in Users |-> IF v = u /\ last \in Users THEN seen[last] ELSE NoHouses]
             /\ UNCHANGED <<then, asked, directory>>
    BY <1>1, <2>2 DEF HomeTypeOK, DeviceTypeOK
  <2> QED
    BY <2>1, <2>2 DEF LogIn
<1>9. NoOtherTrap
  BY <1>1, <1>8 DEF NoOtherTrap
<1>10. ASSUME NEW v \in Sharers PROVE Watched(v)'
  <2>1. v \in Users /\ Watched(v) /\ v # last'
    BY <1>1, <1>2, <1>3
  <2>2. Registered(v)'
    <3>1. CASE v = u
      BY <1>1, <1>2, <1>3, <1>4, <1>8, <2>1, <3>1 DEF Watched, Registered
    <3>2. CASE v # u
      BY <1>3, <1>4, <2>1, <3>2 DEF Watched, Registered
    <3> QED
      BY <3>1, <3>2
  <2>3. Snapshot(getCurrentWeek', users', seen'[v])
    <3>1. CASE seen'[v] = NoHouses
      BY <3>1 DEF Snapshot, NoHouses
    <3>2. CASE last \in Users /\ seen'[v] = seen[last]
      <4>1. Snapshot(getCurrentWeek, users, seen[last])
        BY <1>1, <1>2, <3>2 DEF Watched, Memory
      <4> QED
        BY <1>5, <3>2, <4>1, SteadyKeeps
    <3> QED
      BY <1>8, <3>1, <3>2
  <2>4. NoRestart(uplink'[v]) /\ Settlers(users') = Settlers(users)
    BY <1>3, <1>5, <2>1, SteadyKeeps DEF Watched, Memory
  <2>5. CASE v = u
    <3>1. Running(u)'
      BY <1>8 DEF Running
    <3>2. phase'[u] = "ready" => residents'[u] \ Newcomers \subseteq directory'
      BY <1>7, <1>8
    <3>3. Memory(u)'
      BY <1>6, <1>7, <2>1, <2>3, <2>4, <2>5, <3>1, <3>2 DEF Memory, NoUser
    <3>4. Fetched(u)'
      BY <1>8 DEF Fetched
    <3> QED
      BY <2>2, <2>5, <3>3, <3>4 DEF Watched
  <2>6. CASE v # u
    <3>1. residents'[v] = {} /\ phase'[v] \notin {"loading", "ready"}
      BY <1>2, <1>7, <1>8, <2>1, <2>6
    <3>2. Memory(v)'
      BY <1>6, <2>3, <2>4, <3>1 DEF Memory, NoUser
    <3>3. Fetched(v)'
      BY <3>1 DEF Fetched
    <3> QED
      BY <2>2, <3>2, <3>3 DEF Watched
  <2> QED
    BY <2>5, <2>6
<1> QED
  BY <1>5, <1>9, <1>10

LEMMA TrapsInit == SessionInit => TrapsInv
<1>. SUFFICES ASSUME SessionInit PROVE TrapsInv
  OBVIOUS
<1>1. SessionInv
  BY InvInit
<1>2. /\ \A v \in Users : /\ phase[v] = "off" /\ uplink[v] = << >> /\ me[v] = NoUser
                          /\ seen[v] = NoHouses /\ residents[v] = {}
      /\ week = FirstWeek /\ signedIn = Null
      /\ Sharers \subseteq Users \ Newcomers /\ Null \notin Users /\ Null \notin Houses
      /\ Null \notin Passwords /\ Null \notin Int
  BY SessionAssumption, NamesAssumption DEF SessionInit, HomeInit, DeviceInit
<1>3. PICK homes \in [Users -> Houses \cup {Null}] :
        /\ homes \in InitialHomes
        /\ users = [v \in Users |-> [NoUser EXCEPT !.house = homes[v]]]
        /\ houses = [h \in Houses |-> InitialHouse(homes, h)]
  BY DeviceAssumption DEF SessionInit, HomeInit, DeviceInit
<1>4. \A v \in Users : users[v].house = homes[v]
  BY <1>3 DEF NoUser
<1>5. ASSUME NEW h \in Houses
      PROVE  /\ houses[h] # NoHouse => Complete(houses[h]) /\ houses[h].firstWeek = getCurrentWeek
             /\ \A v \in Users : v \in houses[h].residents <=> users[v].house = h
  <2>1. CASE \A v \in Users : homes[v] # h
    BY <1>3, <1>4, <2>1 DEF InitialHouse, NoHouse
  <2>2. CASE ~(\A v \in Users : homes[v] # h)
    <3>1. houses[h] = [password |-> CHOOSE p \in Passwords : TRUE, drinks |-> InitialStock,
                       firstWeek |-> ((FirstWeek - 1) % WeeksInYear) + 1,
                       residents |-> {v \in Users : homes[v] = h},
                       tasks |-> InitialTasks \cup {DefaultTask}]
      BY <1>3, <2>2 DEF InitialHouse
    <3>2. (CHOOSE p \in Passwords : TRUE) \in Passwords
      BY NamesAssumption
    <3>3. ((FirstWeek - 1) % WeeksInYear) + 1 \in Int /\ InitialStock \in Int
      BY DeviceAssumption
    <3>4. Complete(houses[h])
      BY <1>2, <2>2, <3>1, <3>2, <3>3 DEF Complete
    <3>5. houses[h].firstWeek = getCurrentWeek
      BY <1>2, <3>1 DEF getCurrentWeek
    <3> QED
      BY <1>4, <3>1, <3>4, <3>5
  <2> QED
    BY <2>1, <2>2
<1>6. Agreed(Server)
  BY <1>5 DEF Agreed, Parsable, Server
<1>7. Snapshot(getCurrentWeek, users, houses)
  BY <1>5 DEF Snapshot
<1>8. PICK new \in SUBSET {v \in Users \ Newcomers : users[v].house = Null} :
        accounts = Users \ (Newcomers \cup new)
  BY DEF SessionInit
<1>9. /\ \A v \in Sharers : record[v] = "none" => v \notin accounts
      /\ \A v \in Users : record[v] # "stored" => v \in Newcomers \/ users[v].house = Null
  BY <1>2, <1>8 DEF SessionInit
<1>10. \A v \in Newcomers : users[v].house = Null
  BY <1>3, <1>4, SessionAssumption, NewcomersAssumption
<1>11. TreeStands
  BY <1>6, <1>7, <1>9, <1>10 DEF TreeStands
<1>12. ASSUME NEW v \in Sharers PROVE Watched(v)
  <2>1. v \in Users
    BY <1>2
  <2>2. Registered(v)
    BY <1>2, <1>9 DEF Registered
  <2>3. Snapshot(getCurrentWeek, users, NoHouses)
    BY DEF Snapshot, NoHouses
  <2>4. Memory(v)
    BY <1>2, <2>1, <2>3 DEF Memory, NoUser, NoRestart, SessionInit
  <2>5. Fetched(v)
    BY <1>2, <2>1 DEF Fetched
  <2> QED
    BY <2>2, <2>4, <2>5 DEF Watched
<1> QED
  BY <1>1, <1>11, <1>12 DEF TrapsInv

\* Every step keeps the invariant, and traps in no other way.
LEMMA TrapsNext ==
  ASSUME IsFiniteSet(Users), TrapsInv, [SessionNext]_sessionVars
  PROVE  TrapsInv' /\ NoOtherTrap
<1>1. SessionInv'
  BY InvNext DEF TrapsInv
<1>2. CASE SessionNext
  <2>1. ASSUME NEW u \in Sharers, Serve(u)
        PROVE  TreeStands' /\ (\A v \in Sharers : Watched(v)') /\ NoOtherTrap
    BY <2>1, SentWatched, UsersAnswerWatched, HousesAnswerWatched DEF Serve
  <2>2. ASSUME NEW u \in Sharers, Handle(u)
        PROVE  TapStep(u)
    BY <2>2, HomeSteps, ListSteps DEF Handle
  <2>3. ASSUME NEW u \in Sharers, EndApp(u)
        PROVE  TapStep(u)
    BY <2>3, CloseStep DEF EndApp
  <2>4. ASSUME NEW u \in Sharers, Tap(u)
        PROVE  TreeStands' /\ (\A v \in Sharers : Watched(v)') /\ NoOtherTrap
    <3>1. CASE LogIn(u)
      BY <3>1, LogInWatched
    <3>2. CASE Logout(u)
      BY <3>2, LogoutWatched
    <3>3. CASE ~LogIn(u) /\ ~Logout(u)
      <4>1. TapStep(u)
        BY <2>3, <2>4, <3>3, HomeSteps, ListSteps, SwitchStep DEF Tap
      <4> QED
        BY <4>1, TapStepWatched
    <3> QED
      BY <3>1, <3>2, <3>3
  <2>5. TreeStands' /\ (\A v \in Sharers : Watched(v)') /\ NoOtherTrap
    <3>1. CASE \E u \in Sharers : Serve(u) \/ Handle(u) \/ Tap(u)
      BY <2>1, <2>2, <2>4, <3>1, TapStepWatched
    <3>2. CASE ShowApp
      BY <3>2, ShowAppWatched
    <3>3. CASE EndAtLogIn
      BY <3>3, EndAtLogInWatched
    <3>4. CASE Reach \/ Elsewhere
      BY <3>4, ElsewhereWatched
    <3> QED
      BY <1>2, <3>1, <3>2, <3>3, <3>4 DEF SessionNext
  <2> QED
    BY <1>1, <2>5 DEF TrapsInv
<1>3. CASE UNCHANGED sessionVars
  <2>1. /\ UNCHANGED <<users, houses, week, uplink, online, accounts, record>>
        /\ UNCHANGED <<phase, then, asked, me, known, seen, residents>>
        /\ UNCHANGED <<signedIn, last, directory>>
    BY <1>3 DEF sessionVars, homeVars, deviceVars, session
  <2>2. Steady /\ TreeStands'
    BY <2>1, HomesStand
  <2>3. \A v \in Sharers : signedIn = v /\ v \notin Offline => online[v]
    BY DEF TrapsInv, Watched, Registered
  <2>4. (\A v \in Sharers : Watched(v)') /\ NoOtherTrap
    BY <2>1, <2>2, <2>3, OutsideWatched
  <2> QED
    BY <1>1, <2>2, <2>4 DEF TrapsInv
<1> QED
  BY <1>2, <1>3

\* An app traps only after a registration lost with the app or for want of a
\* connection, at a dinner switch touched when nothing was loaded, or on a
\* resident who registered and moved in between the two reads of a load:
\* however often two users log in and out on the one phone, the data the
\* first leaves behind never traps the second.
THEOREM SessionTrapsOnly ==
  ASSUME IsFiniteSet(Users)
  PROVE  SessionSpec => SessionTraps
<1>1. TrapsInv /\ [SessionNext]_sessionVars => TrapsInv'
  BY TrapsNext
<1>2. TrapsInv /\ [SessionNext]_sessionVars =>
        [\A u \in Sharers : phase[u] # "crashed" /\ phase'[u] = "crashed" =>
           \/ u \in Killable \cup Offline /\ record[u] = "none"
           \/ u \in Offline /\ Ready(u, "home") /\ ~known[u]
           \/ (residents[u] \cap Newcomers) \ directory # {}]_sessionVars
  BY TrapsNext DEF NoOtherTrap, Excused
<1> QED
  BY <1>1, <1>2, TrapsInit, PTL DEF SessionSpec, SessionTraps

=============================================================================
