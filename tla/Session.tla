------------------------------ MODULE Session ------------------------------
(***************************************************************************)
(* One phone and the users who log in on it: LogInViewController and       *)
(* AppManager (who is signed in), Profile's logout, and the two lists of   *)
(* room mates, DinnerTable and YourHouse.                                  *)
(*                                                                         *)
(* Firebase Auth remembers who is signed in; CurrentUser lasts as long as  *)
(* the process and is shared by all who log in during it.  Logging out     *)
(* resets CurrentUser.user and nothing else.  Writes to the own record go  *)
(* through CurrentUser.ref, which is set by showApp, by a registration and *)
(* by each load.  The variables of Device that are kept per user stand     *)
(* here for the one phone while that user is signed in, or was last.       *)
(*                                                                         *)
(* On other phones newcomers register and move in; nobody else moves.      *)
(***************************************************************************)
EXTENDS Home

CONSTANTS
  Sharers,   \* the users who log in on the phone
  Newcomers  \* the users who register and move in elsewhere during a run

ASSUME SessionAssumption ==
  /\ Null \notin Users
  /\ Sharers \subseteq Users /\ Newcomers \subseteq Users \ Sharers

\* Who is not registered yet lives nowhere: the house stands in the user's record.
ASSUME NewcomersAssumption ==
  \A homes \in InitialHomes : \A u \in Newcomers : homes[u] = Null

VARIABLES
  accounts,    \* Firebase Auth: the users with an account
  record,      \* per user, whether users/<uid> is "stored", "unsent" or "none"
  signedIn,    \* Auth.auth().currentUser, or Null; survives the process
  atLogIn,     \* LogInViewController is on the screen
  last,        \* whose data CurrentUser holds at LogIn, if anybody's
  ref,         \* CurrentUser.ref: whose record, or Null for the root
  directory,   \* the keys of CurrentUser.users
  lists,       \* the rows of DinnerTable and of YourHouse
  homeTop,     \* the top of the Home tab's navigation stack
  profileTop,  \* the top of the Profile tab's navigation stack
  houseButton  \* Profile's houseButton.isEnabled

session == <<accounts, record, signedIn, atLogIn, last, ref>>
tabs == <<lists, homeTop, profileTop, houseButton>>
sessionVars == <<homeVars, session, directory, tabs>>

SessionTypeOK ==
  /\ DeviceTypeOK
  /\ LabelTypeOK
  /\ accounts \subseteq Users
  /\ record \in [Users -> {"none", "unsent", "stored"}]
  /\ signedIn \in Sharers \cup {Null}
  /\ atLogIn \in BOOLEAN
  /\ last \in Sharers \cup {Null}
  /\ ref \in Sharers \cup {Null}
  /\ directory \subseteq Users
  /\ lists \in [dinner: SUBSET Users, yourHouse: SUBSET Users]
  /\ homeTop \in {"home", "dinner"}
  /\ profileTop \in {"profile", "yourHouse"}
  /\ houseButton \in BOOLEAN

Stored == {u \in Users : record[u] = "stored"}
\* The records in an answer to u, the own one too while it is on its way.
RecordsFor(u) == Stored \cup {v \in {u} : record[v] = "unsent"}

AppRunning == atLogIn \/ \E u \in Sharers : Running(u)

\* All that was written on the phone has left it.
Drained(u) == uplink[u] = <<>> /\ record[u] # "unsent"

NewTabs ==
  /\ lists' = [dinner |-> {}, yourHouse |-> {}]
  /\ homeTop' = "home"
  /\ profileTop' = "profile"
  /\ houseButton' = TRUE

\* CurrentUser.users: emptied as a load begins, filled by getUsers.
FollowDirectory(u) ==
  directory' =
    IF ~Running(u)' \/ (asked[u] = {} /\ asked'[u] # {}) THEN {}
    ELSE IF "users" \in asked[u] \ asked'[u] THEN RecordsFor(u)
    ELSE directory

\* The process of the signed-in user ends: what Auth keeps stays, a
\* registration not sent is lost with the other writes.
ForgetSession(u) ==
  /\ LabelLost(u)
  /\ record' = [record EXCEPT ![u] = IF @ = "unsent" THEN "none" ELSE @]
  /\ ref' = Null
  /\ NewTabs

Fall(u) ==
  /\ Crash(u)
  /\ ForgetSession(u)
  /\ directory' = {}
  /\ UNCHANGED <<online, week, accounts, signedIn, atLogIn, last>>

Trap(u) == Fall(u) /\ UNCHANGED database

\* A step of the signed-in user's phone that is a step of Home.
WithSession(u, step) ==
  /\ step
  /\ FollowDirectory(u)
  /\ IF Running(u) /\ ~Running(u)' THEN ForgetSession(u)
     ELSE UNCHANGED <<record, ref, tabs>>
  /\ UNCHANGED <<accounts, signedIn, atLogIn, last>>

-----------------------------------------------------------------------------
(* The connection, with the record written by a registration ahead of all  *)
(* else, and the user's own record in the answer.  The connection of an    *)
(* Offline user may be restored with the reads before that record.         *)

StoreRecord(u) ==
  /\ online[u]
  /\ record[u] = "unsent"
  /\ record' = [record EXCEPT ![u] = "stored"]
  /\ users' = [users EXCEPT ![u] = NoUser]
  /\ UNCHANGED <<houses, uplink, online, phase, screen, then, asked, memory, week, label,
                 accounts, signedIn, atLogIn, last, ref, directory, tabs>>

Deliver(u) ==
  /\ record[u] # "unsent"
  /\ ApplyPut(u)
  /\ UNCHANGED <<label, session, directory, tabs>>

\* The record is at the server, or laid over what the server answers.
Shown(u) == record[u] = "stored" \/ (record[u] = "unsent" /\ u \in Offline)

\* What if: CurrentUser.ref were not set by a load.
AnswerUsers_KeepsRef(u) ==
  /\ Shown(u)
  /\ WithSession(u, ServeUsers(u) /\ UNCHANGED label)

\* getUsers, then the force-unwrapped own record; an empty users/ is nil and
\* the completion is never called.
AnswerUsers(u) ==
  \/ /\ Shown(u)
     /\ ServeUsers(u)
     /\ FollowDirectory(u)
     /\ ref' = u
     /\ UNCHANGED <<label, accounts, record, signedIn, atLogIn, last, tabs>>
  \/ /\ record[u] = "none"
     /\ "users" \in asked[u] /\ Answerable(u)
     /\ \/ Stored # {} /\ Trap(u)
        \/ /\ Stored = {}
           /\ asked' = [asked EXCEPT ![u] = @ \ {"users"}]
           /\ phase' = [phase EXCEPT ![u] = "frozen"]
           /\ UNCHANGED <<database, uplink, online, screen, then, memory, week, label,
                          session, directory, tabs>>

AnswerHouses(u) ==
  /\ record[u] # "unsent" \/ u \in Offline
  /\ WithSession(u, ServeHouses(u) /\
       IF phase'[u] = "crashed" THEN LabelLost(u) ELSE UNCHANGED label)

-----------------------------------------------------------------------------
(* The process.                                                            *)

\* AppContainerViewController appears: showApp.
ShowApp ==
  /\ ~AppRunning
  /\ \/ /\ signedIn = Null
        /\ atLogIn' = TRUE
        /\ UNCHANGED <<homeVars, ref, directory>>
     \/ \E u \in Sharers :
          /\ u = signedIn
          /\ Launch(u)
          /\ ref' = u
          /\ FollowDirectory(u)
          /\ UNCHANGED <<label, atLogIn>>
  /\ UNCHANGED <<accounts, record, signedIn, last, tabs>>

\* Ending the app while a user is signed in.
EndApp(u) ==
  /\ Running(u)
  /\ Drained(u) \/ u \in Killable
  /\ Stop(u, "off")
  /\ ForgetSession(u)
  /\ directory' = {}
  /\ UNCHANGED <<database, online, week, accounts, signedIn, atLogIn, last>>

\* Ending the app at LogIn.
EndAtLogIn ==
  /\ atLogIn
  /\ \A u \in Sharers : Drained(u) \/ u \in Killable
  /\ atLogIn' = FALSE
  /\ last' = Null
  /\ ref' = Null
  /\ directory' = {}
  /\ uplink' = [u \in Users |-> <<>>]
  /\ record' = [u \in Users |-> IF record[u] = "unsent" THEN "none" ELSE record[u]]
  /\ me' = [u \in Users |-> NoUser]
  /\ known' = [u \in Users |-> FALSE]
  /\ seen' = [u \in Users |-> NoHouses]
  /\ residents' = [u \in Users |-> {}]
  /\ UNCHANGED <<database, online, phase, screen, then, asked, week, label,
                 accounts, signedIn, tabs>>

-----------------------------------------------------------------------------
(* Logging in and out.                                                     *)

\* What if: no record were written for a new user.
RegisterIfNew_NoRecord(u) ==
  /\ accounts' = accounts \cup {u}
  /\ UNCHANGED <<record, ref>>

\* "if new user, create account online"
RegisterIfNew(u) ==
  IF u \in accounts THEN UNCHANGED <<accounts, record, ref>>
  ELSE /\ accounts' = accounts \cup {u}
       /\ record' = [record EXCEPT ![u] = "unsent"]
       /\ ref' = u

\* What CurrentUser still holds becomes u's.
InheritFrom(v, u) ==
  /\ me' = [me EXCEPT ![v] = NoUser, ![u] = me[v]]
  /\ residents' = [residents EXCEPT ![v] = {}, ![u] = residents[v]]

\* authUI(didSignInWith:) without an error, and the segue to Home, which
\* loads if the connection that logging in took is still there.  (Bound:
\* what the last user wrote has left the phone.)
LogIn(u) ==
  /\ atLogIn
  /\ online[u]
  /\ \A v \in Sharers : Drained(v)
  /\ signedIn' = u
  /\ atLogIn' = FALSE
  /\ last' = Null
  /\ RegisterIfNew(u)
  /\ IF last \in Users THEN InheritFrom(last, u) ELSE UNCHANGED <<me, residents>>
  /\ screen' = [screen EXCEPT ![u] = "home"]
  /\ \/ /\ phase' = [phase EXCEPT ![u] = "loading"]
        /\ then' = [then EXCEPT ![u] = Run("appear")]
        /\ asked' = [asked EXCEPT ![u] = {"users", "houses"}]
        /\ seen' = [v \in Users |-> NoHouses]
        /\ known' = [v \in Users |-> FALSE]
        /\ directory' = {}
        /\ UNCHANGED online
     \/ /\ u \in Offline
        /\ phase' = [phase EXCEPT ![u] = "ready"]
        /\ seen' = [v \in Users |-> IF v = u /\ last \in Users THEN seen[last] ELSE NoHouses]
        /\ known' = [v \in Users |-> v = u /\ u \in directory]
        /\ online' = [v \in Users |-> v \notin Sharers]
        /\ UNCHANGED <<then, asked, directory>>
  /\ UNCHANGED <<database, uplink, week, label, tabs>>

\* What if: CurrentUser.user were kept.
Logout_UserKept(u) ==
  /\ Ready(u, "profile")
  /\ phase' = [phase EXCEPT ![u] = "off"]
  /\ screen' = [screen EXCEPT ![u] = "home"]
  /\ signedIn' = Null
  /\ atLogIn' = TRUE
  /\ last' = u
  /\ LabelLost(u)
  /\ NewTabs
  /\ UNCHANGED <<database, uplink, online, then, asked, memory, week, accounts, record, ref, directory>>

\* logoutButtonTapped: CurrentUser.user = User(), sign out, back to LogIn.
Logout(u) ==
  /\ Ready(u, "profile")
  /\ me' = [me EXCEPT ![u] = NoUser]
  /\ phase' = [phase EXCEPT ![u] = "off"]
  /\ screen' = [screen EXCEPT ![u] = "home"]
  /\ signedIn' = Null
  /\ atLogIn' = TRUE
  /\ last' = u
  /\ LabelLost(u)
  /\ NewTabs
  /\ UNCHANGED <<database, uplink, online, then, asked, known, seen, residents, week,
                 accounts, record, ref, directory>>

-----------------------------------------------------------------------------
(* Home and its dinner table.                                              *)

\* dinnerSwitchChanged, with the record it really writes to.  A write issued
\* before the trap is the last of the queue, below a record or left out.
SwitchDinner(u) ==
  /\ u \in Diners
  /\ Ready(u, "home")
  /\ Len(uplink[u]) <= MaxUnsent
  /\ \/ ~known[u] /\ Trap(u)
     \/ /\ ~known[u]
        /\ ref \in Stored /\ Drained(u)
        /\ \E on \in BOOLEAN : LastWrite(u, SetDinner(ref, on))
        /\ Fall(u)
     \/ /\ known[u]
        /\ \E on \in BOOLEAN : Issue(u, <<SetDinner(ref, on)>>)
        /\ UNCHANGED <<database, online, phase, screen, then, asked, memory, week, label,
                       session, directory, tabs>>

\* Put screen s on top with a load, whose handler is step.
Show(u, s, step) ==
  /\ screen' = [screen EXCEPT ![u] = s]
  /\ GetAllData(u, Run(step))
  /\ FollowDirectory(u)
  /\ UNCHANGED <<database, uplink, online, me, residents, week, label, session>>

PushDinnerTable(u) ==
  /\ Ready(u, "home")
  /\ Show(u, "dinner", "dinner")
  /\ homeTop' = "dinner"
  /\ lists' = [lists EXCEPT !.dinner = {}]
  /\ UNCHANGED <<profileTop, houseButton>>

\* getResidentNames force-unwraps every resident in CurrentUser.users.
AllKnown(u) == residents[u] \subseteq directory

DinnerShown(u) ==
  /\ Loaded(u, "dinner")
  /\ \/ ~AllKnown(u) /\ Trap(u)
     \/ /\ AllKnown(u)
        /\ lists' = [lists EXCEPT !.dinner = residents[u]]
        /\ Rest(u)
        /\ UNCHANGED <<database, online, screen, me, week, label, session, directory,
                       homeTop, profileTop, houseButton>>

LeaveDinnerTable(u) ==
  /\ Ready(u, "dinner")
  /\ Show(u, "home", "appear")
  /\ homeTop' = "home"
  /\ UNCHANGED <<lists, profileTop, houseButton>>

-----------------------------------------------------------------------------
(* Profile and its list.                                                   *)

ProfileLoaded(u) ==
  /\ Loaded(u, "profile")
  /\ houseButton' = (me[u].house # Null)
  /\ Rest(u)
  /\ UNCHANGED <<database, online, screen, me, week, label, session, directory,
                 lists, homeTop, profileTop>>

\* YourHouse shows what the last load brought.
PushYourHouse(u) ==
  /\ Ready(u, "profile")
  /\ houseButton
  /\ \/ ~AllKnown(u) /\ Trap(u)
     \/ /\ AllKnown(u)
        /\ lists' = [lists EXCEPT !.yourHouse = residents[u]]
        /\ screen' = [screen EXCEPT ![u] = "yourHouse"]
        /\ profileTop' = "yourHouse"
        /\ UNCHANGED <<database, uplink, online, phase, then, asked, memory, week, label,
                       session, directory, homeTop, houseButton>>

LeaveYourHouse(u) ==
  /\ Ready(u, "yourHouse")
  /\ Show(u, "profile", "profile")
  /\ profileTop' = "profile"
  /\ UNCHANGED <<lists, homeTop, houseButton>>

-----------------------------------------------------------------------------
(* The tab bar: a screen that was pushed stays on its tab, without a load. *)

TurnTo(u, s) ==
  /\ screen' = [screen EXCEPT ![u] = s]
  /\ UNCHANGED <<database, uplink, online, phase, then, asked, memory, week, label,
                 session, directory>>

TabToProfile(u) ==
  /\ Ready(u, "home") \/ Ready(u, "dinner")
  /\ \/ profileTop = "profile" /\ Show(u, "profile", "profile")
     \/ profileTop = "yourHouse" /\ TurnTo(u, "yourHouse")
  /\ UNCHANGED tabs

TabToHome(u) ==
  /\ Ready(u, "profile") \/ Ready(u, "yourHouse")
  /\ \/ homeTop = "home" /\ Show(u, "home", "appear")
     \/ homeTop = "dinner" /\ TurnTo(u, "dinner")
  /\ UNCHANGED tabs

-----------------------------------------------------------------------------
(* Other phones.                                                           *)

Enroll(u) ==
  /\ u \in Newcomers
  /\ record[u] = "none"
  /\ accounts' = accounts \cup {u}
  /\ record' = [record EXCEPT ![u] = "stored"]
  /\ UNCHANGED <<homeVars, signedIn, atLogIn, last, ref, directory, tabs>>

MoveIn(u, h) ==
  /\ u \in Newcomers
  /\ record[u] = "stored"
  /\ users[u].house = Null
  /\ houses[h] # NoHouse
  /\ users' = UsersAfter(users, SetHome(u, h))
  /\ houses' = HousesAfter(houses, SetResident(h, u, TRUE))
  /\ UNCHANGED <<uplink, online, phase, screen, then, asked, memory, week, label,
                 session, directory, tabs>>

-----------------------------------------------------------------------------
Serve(u) == StoreRecord(u) \/ Deliver(u) \/ AnswerUsers(u) \/ AnswerHouses(u)

Handle(u) == WithSession(u, HomeHandlers(u)) \/ DinnerShown(u) \/ ProfileLoaded(u)

Tap(u) ==
  \/ WithSession(u, Refresh(u)) \/ SwitchDinner(u)
  \/ PushDinnerTable(u) \/ LeaveDinnerTable(u) \/ PushYourHouse(u) \/ LeaveYourHouse(u)
  \/ TabToProfile(u) \/ TabToHome(u) \/ LogIn(u) \/ Logout(u) \/ EndApp(u)

\* The one phone loses or regains its connection.
Reach ==
  /\ \/ /\ signedIn \in Offline
        /\ Settled(signedIn)
        /\ online' = [v \in Users |-> v \notin Sharers]
     \/ online' = [v \in Users |-> TRUE]
  /\ UNCHANGED <<database, uplink, phase, screen, then, asked, memory, week, label,
                 session, directory, tabs>>

Elsewhere == \E u \in Newcomers : Enroll(u) \/ \E h \in Houses : MoveIn(u, h)

\* At first all but the newcomers, and perhaps others without a house, are registered.
SessionInit ==
  /\ HomeInit
  /\ \E new \in SUBSET {u \in Users \ Newcomers : users[u].house = Null} :
       accounts = Users \ (Newcomers \cup new)
  /\ record = [u \in Users |-> IF u \in accounts THEN "stored" ELSE "none"]
  /\ signedIn = Null
  /\ atLogIn = FALSE
  /\ last = Null
  /\ ref = Null
  /\ directory = {}
  /\ lists = [dinner |-> {}, yourHouse |-> {}]
  /\ homeTop = "home"
  /\ profileTop = "profile"
  /\ houseButton = TRUE

SessionNext ==
  \/ ShowApp \/ EndAtLogIn \/ Reach \/ Elsewhere
  \/ \E u \in Sharers : Serve(u) \/ Handle(u) \/ Tap(u)

SessionSpec == SessionInit /\ [][SessionNext]_sessionVars

-----------------------------------------------------------------------------
(* Properties, of the users whose app is not killed with writes unsent and *)
(* who do not lose the connection while logged in.                         *)

Reliable == Sharers \ (Killable \cup Offline)

(* Every write that goes through CurrentUser.ref is to the record of the   *)
(* user who made it, whoever used the phone before and however the process *)
(* came to have a user: showApp, a registration or a log in.               *)
WritesAreOwn ==
  \A u \in Reliable : \A i \in 1 .. Len(uplink[u]) :
    uplink[u][i].path = "users/dinner" => uplink[u][i].user = u

(* The house the app works with is the signed-in user's, also for a user   *)
(* without one who logs in after a user with one.                          *)
HouseIsOwn ==
  \A u \in Reliable : phase[u] = "ready" => me[u].house = users[u].house

(* The only ways to trap, for all users: the own registration was lost     *)
(* with a killed app, or with the trap of a user without a connection; the *)
(* dinner switch is touched when no load since the launch or log in had a  *)
(* connection; or a list has a resident who registered after users/ was    *)
(* read and moved in before houses/ was.                                   *)
SessionTraps ==
  [][\A u \in Sharers : phase[u] # "crashed" /\ phase'[u] = "crashed" =>
       \/ u \in Killable \cup Offline /\ record[u] = "none"
       \/ u \in Offline /\ Ready(u, "home") /\ ~known[u]
       \/ (residents[u] \cap Newcomers) \ directory # {}]_sessionVars

(* DinnerTableViewController.swift:28 "assign names of room mates for      *)
(* table view": the list names residents of the user's own house only.     *)
RoomMatesOnly ==
  \A u \in Sharers : \A w \in lists.dinner :
    Ready(u, "dinner") => me[u].house # Null /\ w \in seen[u][me[u].house].residents
=============================================================================
