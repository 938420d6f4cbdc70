# RoomMate: specifications, checks and proofs

RoomMate is an iPhone app for people who share a house: each user lives in at
most one house; a house has a cleaning schedule, a stock of drinks and a list
of who eats in. All data is in one Firebase Realtime Database; each phone works
on a copy of it that it reloads at almost every tap. There is no server code:
every rule of the app is a decision some phone takes on its copy, followed by a
handful of separate writes. That is where everything hard about this program
is, and what these modules are about.

## 1. Inventory

| Part (under `src/code/RoomMate`) | State it keeps | Operations | Modelled in |
|---|---|---|---|
| Database tree (`Structures.swift`, and what the screens write) | `users/<uid>`, `houses/<name>` | the writes of sections below | `Database` |
| Loading (`DataController.swift`, `Extenstions.swift: getAllData`) | the global `CurrentUser`: user, users, houses, residents, tasks | two reads, a completion handler, connection check | `Device` |
| Home (`Home/HomeViewController.swift`) | task label, switch | appear, refresh, restart the schedule, dinner switch | `Home` |
| Moving house (`Profile/PickHouse…`, `NewHouse…`, `ProfileViewController.swift`) | picker rows, navigation stack | join, create, leave, alerts, back | `Residency` |
| Drinks (`Drinks/*.swift`) | total shown, enabled buttons, unsaved edits | drink one, buy, correct, save, reset | `Drinks` |
| Cleaning (`Clean/*.swift`) | table, segments, unsaved tasks | show week, new schedule | `Cleaning` |
| Rotation (`Extenstions.swift: setTasks, divideTasks`) | rows of tasks | fill up, rotate | `Rotation` |
| Session (`LogIn…`, `AppManager.swift`, `AppContainer…`, Profile's log out) | signed-in user, `CurrentUser.ref`, what `CurrentUser` keeps | register, log in, log out, show app | `Session` |
| Dinner table, Your House (`Home/DinnerTable…`, `Profile/YourHouse…`) | rows | list the room mates | `Session` |
| About (`Profile/About…`) | none | static text | no: no state |
| `AppDelegate.swift` | iOS notifications | schedule the 17:00 reminder | no: touches no state of the app |
| `Pods/FirebaseDatabase` (vendored SDK) | outstanding writes and listens, own writes not yet applied | queue and send writes, restore a connection, answer reads | `Device`, as far as the app relies on it |

How the parts interact. Screens never call each other; they share
`CurrentUser` and the database. `getAllData` empties the copy, asks for `users`
and `houses`, ignores taps until both answers are in, then runs the handler of
the screen that asked. Writes (`setValue`, `removeValue`) return at once; they
reach the server in the order of the calls of one phone. While a connection
lasts they also reach it before that phone's later reads, since both travel on
it. A connection that is restored sends the reads first and the waiting writes
after them (`FPersistentConnection.m:827`), so the answer of the server may
lack them; the client then lays the phone's own unsent writes over it
(`FWriteTree.m:187`), and the load can end before the server has them. Nothing
orders two phones, and no transaction is used anywhere.

Hard behaviour: decisions on a stale copy (is the house empty, is the name
free, how much is in stock); several writes that belong together and are
applied one at a time, with other phones' writes between them or the app ended
between them; handlers that load again inside a load; force unwraps of what may
be gone; saves without a connection. `PROJECT.json` lists each hazard at its
line, with the properties that watch it.

What makes each part right:

- *Loading*: a load ends; the copy is the database's; a house is never read half written.
- *Moving*: a user is in one house, the same in both records; a house goes
  exactly when its last resident does; success is announced when it is true.
- *Home*: the row shown is this week's, from a schedule that covers it; no subscript out of range.
- *Drinks*: stock and accounts change together, none is lost or counted twice.
- *Cleaning*: saving leaves a house with tasks and this week as its first; the
  week shown is this week's.
- *Rotation*: rows enough for every subscript; nobody shares a task; every
  resident gets each task once a round.
- *Session*: a signed-in user has a record; nothing of the last user is acted on.

## 2. The modules

```
Database            the tree, the writes, what getHouses makes of a snapshot
  Device            a phone: copy, write queue, load, connection, process, week
    Home            task label, schedule upkeep, dinner switch
      Residency     Home + Profile + PickHouse + NewHouse
        ResidencyTenancy   Residency implements Tenancy (atomic moves)
      Drinks        Home + DrinkOne + AddDrinks + Overview
        DrinksFridge       Drinks implements Fridge (one-step changes)
      Cleaning      Home + Clean + NewSchedule
      Session       Home + LogIn, showApp, log out, DinnerTable, YourHouse
Rotation            setTasks and divideTasks
Tenancy, Fridge     what moving house and the drinking system promise

DatabaseProofs                  what a queue of writes does to the tree
  HomeProofs                    facts about Database, Device and Home
    ResidencyProofs, CleaningProofs, SessionProofs
    TurnsProofs                 ResidencyTenancy in turns (with ResidencyProofs)
    DrinksProofs                Drinks; DrinksFridge in turns
RotationProofs

MCResidency, MCResidencyTenancy, MCDrinksFridge, MCCleaning, MCRotation,
MCSession           small instances
```

Each screen module puts its screens next to Home, because Home is where every
tab change passes and where the nested loads are; what Home does is checked and
proved in each of these compositions again.

**Database** has no state. `UserNode` and `HouseNode` are the children of the
two roots; a missing child is `Null`. Firebase keeps no empty node, so a house
is absent when all its leaves are (`NoHouse`), and a write below an absent
house makes a house with only that leaf. A write is a record (`SetHome`,
`SetResident`, `SetHouse`, …); `UsersAfter` and `HousesAfter` apply it.
`After` does both, `Course(tree, q)` is the trees that a queue of writes leads
through and `Applied(tree, q)` the last of them. `Complete` lists what
`getHouses` force-unwraps, `ParsedHouses` what it
produces (the task `default` disappears if it sorts first).

**Device** holds what every screen shares. `uplink[u]` is the queue of writes
not yet applied (`Issue`, `ApplyPut`); `asked[u]` the reads of the load without
answer (`ServeUsers`, `ServeHouses`). Every read shows `Answer(u)`, the
database with the phone's own queue laid over it. `Answerable(u)` says when:
on a connection that lasts, once the queue is empty; for a user in `Offline`
at any time, since a connection that was lost, be it for an instant, is
restored with the reads ahead of the queue. `then[u]` the handler that waits; `me`, `known`,
`seen`, `residents` are `CurrentUser.user`, "`CurrentUser.users` has me",
`CurrentUser.houses` and `CurrentUser.residents`. `phase[u]` says whether the
app is off, ended by a trap, loading (interaction ignored), ready, behind an
alert that pops the screen, or frozen. `GetAllData` without a connection does
nothing but alert, as in the code. A trap (`Crash`) ends the process: the copy
and the unsent writes go with it; a write issued just before the trap may have
been sent or not (`LastWrite`: the dinner switch writes before it unwraps). `Ahead` is the database as it will be when the
writes on their way are applied, for the properties of use in turns.

**Home** follows `setCurrentTask` through `checkForEndOfYear`,
`checkIfWeekInSchedule` and `showCurrentTask`; the first two may write
`firstWeek` and load again, and the rest continues in that load's handler
(`HomeWeekSet`, `HomeScheduleRestarted`). The label is the house whose task it
shows.

**Residency** adds Profile's screens. `JoinPuts` and `CreatePuts` are the
writes of a save, in the order of the code, decided on the copy (`LeavePuts`:
remove myself, or the whole house when the copy counts one resident). `Move`
issues them and loads; the alert comes when the load is done (`Saved`). The
picker's rows (`picker`) and the tab's stack (`pushed`) outlive a visit to Home.

**Drinks** adds the Drinks tab's screens to Home. `bar` is what
DrinkViewController shows and enables, `draft` the edits of AddDrinks since its
load, kept across tab changes. `DrinkTaken` is the handler of DrinkOne's load:
it writes totals computed from that load.

**Cleaning** adds the Clean tab. `table[u]` is what CleanViewController shows:
rows, segments, the selected segment; `draft` NewSchedule's unsaved tasks;
`top` which of the two is on the tab's stack. `SaveSchedule` issues
`SchedulePuts`: remove the tasks, add each, set the week. `CleanFilled` makes a
segment per week up to `LastSegment` (52) and selects `weekIndex`; when that
week has no segment the control selects none and the first cell's subscript
traps. Nobody moves house in this module.

**Rotation** turns the two loops into steps (`AppendEmpty`, `StartDividing`, `Divide`),
so that the rows the other screens index are an invariant's subject rather than a
definition. `Home` and `Cleaning` use only the range of the rows.

**Session** is one phone that several users (`Sharers`) log in on. `signedIn`
survives the process as Firebase Auth's user does; `ref` is `CurrentUser.ref`,
`directory` the keys of `CurrentUser.users`, `last` the user whose data
`CurrentUser` still holds at LogIn. `Logout` resets `CurrentUser.user` and leaves houses and
residents, as the code does, and `LogIn` hands them to the next user
(`InheritFrom`). A registration is a write of its own (`record`: none, unsent,
stored), so that it can be lost with the app; until it is stored it is in the
answers to its own phone only (`RecordsFor`, `Shown`). `Fall` is what a trap
takes with it here. On other phones newcomers
register and move in. `DinnerTable` and `YourHouse` are the two screens that
unwrap every resident in `CurrentUser.users`.

**Tenancy** and **Fridge** say what a user would expect: a move, a drink, a
purchase, a reset is one step. `ResidencyTenancy` and `DrinksFridge` map the
concrete state to `Ahead`, so the abstract step happens when the writes are
issued.

Definitions with an underscore (`SchedulePuts_NoWeek`, `Logout_UserKept`, …)
are "what if" variants of the definition they are named after. No action uses
them; each shows that a property notices that mistake.

## 3. The runs

Passing:

| Run | Instance | Shows |
|---|---|---|
| `races` | 2 users, 2 houses, every interleaving, every start with a house | what survives races: one house at most, listed at home, fresh copy at every tap, success announced when the server has it, a house removed only by one who lives there |
| `unreliable` | 2 users in turns, 2 houses; one is killed mid-move, loses the connection and moves again offline | the other user's records stay right; a success alert names where the phone's writes lead, and on the phone whose connection lasts the server is there already |
| `turns` | 3 users, 3 houses, two passwords, weeks 3 to 5 of years of 4 weeks, in turns | `Tenancy` is implemented; both records agree; no house is ever incomplete or replaced; no trap, no freeze; the label and the picker know the own house |
| `loads` | 2 users, 1 house, weeks 2 to 4 of years of 3 weeks, every interleaving, with fairness | every load ends, those nested in Home's included |
| `cleaning` | 2 phones on Home and Clean, every interleaving, weeks 2 to 5 of years of 4 weeks of which the last has no segment | no house is left without a schedule; a new schedule begins now; what Home shows comes from a schedule that covers the week; the two ways to trap |
| `rotation` | every list of up to 6 tasks, 1 to 4 residents | rows enough, no task shared, everybody once a round, which tasks are ever done |
| `fridge` | 2 users of the Drinks tab in turns, one maybe without a house | `Fridge` is implemented; the screen shows and offers what is in stock; what overdraws it; the one way to trap |
| `session` | 2 users of one phone, one of them killed and offline; 2 users elsewhere, one a newcomer | writes and house are the signed-in user's own, whoever came before; the three ways to trap |

Violations, each of something the repository says of itself:

| Run | The repository says | What happens |
|---|---|---|
| `empty_house` | "check for residents left, if none -> remove house" | two flatmates leave at once, the house stays, without residents |
| `lost_drink` | "had some problems with roommates drinking at the same time / fix: get all data again" | two drinks at once, one deducted |
| `week_turned` | "make current week selected when view appears" | a week begins with the app open; Clean is opened on a schedule that is over and traps |
| `last_user` | "assign names of room mates for table view" | a user without a house logs in and sees the last user's flatmates |

*In turns* (`SerialSpec`, `SerialDrinksSpec`): a phone takes a step only while
no other runs the app or has writes on their way. The properties checked this
way are the ones the code's decisions are written for; section 1 and the
hazards say how each breaks when phones interleave. The properties of `races`
need no such condition.

Bounds. Two phones are enough for each race: the code's decisions involve the
user and "somebody else". Two houses, each existing or not, allow a user to
leave one and join or create another while somebody else does the same; `turns`
has a third house for a choice of two, and a third user so that a house of two
can lose one and keep one. `MaxUnsent = 0`: a phone issues new writes only when
the last ones have left. `unreliable` raises it to 5, one whole move, so
that a second move is decided on top of a first that has not left (the theorems
hold for any bound). A year of 4 weeks and a house of two make every case of
the schedule occur within the weeks of a run: inside, just after, New Year. In
`cleaning` `LastSegment` is 3, so week 4 stands for week 53. One task per draft
is enough there (`MaxDraft = 1`): the tasks removed and the tasks added are
what other phones can tell apart. A crate of 2, counts up to 2 and corrections
by up to 2 in `fridge` reach an empty, a full and a negative stock; the values are never
compared except with zero, so larger ones add nothing. `rotation` has tasks
from none to more than `2n - 1` for two and three residents, and from none to
more than `n` for four. In `session` the two sharers
and the flatmate elsewhere cover a user with, without, and newly in a house.
Symmetry is used where users and houses are interchangeable and only safety is
checked. `rotation` ends when the loops do; nowhere else may a run stop.

A phone loses its connection only between loads (`Settled`). A week begins in
`turns` (`SerialSpec`), `cleaning` and `week_turned` (`CleaningSpec`) only while no load
or write is under way (`Quiet`); in `loads` (`Spec`), which is about loads ending and
not about what they find, it may begin at any moment; in the other runs no week
begins. The restriction is a real one: a New Year inside Home's nested
load makes the row negative and traps (hazard at
`HomeViewController.swift:96`). The dinner switch is used only when nothing of
the phone is on its way, except in `Session`. In
`Session` a user logs in only when what the last one wrote has left the phone.

Fairness. `Fairness` is weak fairness of `Serve(u)` (the connection delivers
queued writes and answers) and of `Handle(u)` (the main queue runs a completion
handler that is due), per phone. Nothing is assumed of taps, of relaunching, of
regaining the connection or of the calendar. Only `loads` uses it.

## 4. What is proved

All theorems hold for any sets of users, houses, tasks and passwords, any
number of phones, weeks and any bounds; those of "Use in turns" and of "Drinks
in turns" are about `SerialSpec` and `SerialDrinksSpec`, all others about every
interleaving. They rest on the assumptions
the modules name: `NamesAssumption` (Database), `DeviceAssumption`,
`DinersAssumption` (Home), `DrinksAssumption` (the crate and the bounds are
numbers), `PickerAssumption` (Residency: a picker that is not
loaded yet is told from any list of rows), `CleaningAssumption` (finitely many users),
`SessionAssumption` (`Null` is no user; newcomers do not share the phone),
`NewcomersAssumption` (who is not registered yet lives nowhere) and
`RotationAssumption` (distinct tasks, at least one resident). TLC evaluates
each of them in a run.

`HomeProofs` has what the others share: a write keeps the tree well formed, the
pieces actions are made of (`Issue`, `GetAllData`, `Rest`, `Stop`, the puts) and
the steps of Home keep their types. For use in turns it also has the tree ahead
(`Agreed`: the two records of who lives where agree, every house is complete) and
the copy of the one phone in use compared with it, which are the same for
moving house and for drinks.

### Moving house

`ResidencyProofs`, all of `Spec`:

| Theorem | Property |
|---|---|
| `TypeCorrect` | every variable keeps its type |
| `OneHouseAtMost` | `AtMostOneHouse`: no house lists a user who moved on |
| `ListingsAgree` | `ListedAtHome`: a house that lists a user is the one at `users/<uid>/house`, once the user's writes are applied |
| `CachedHomeIsFresh` | `HomeCacheFresh`: a screen that takes taps has the home the server has |
| `RemovalsAreOwn` | `RemovedByItsOwn`: a house is removed only by one registered to it |
| `SuccessIsReal` | `SuccessMeansMoved`: the success alert names the home the phone's writes lead to; on a connection that lasts they have arrived |

None of these is inductive: each is about the two records, and between the
writes of a move the records disagree. `Tenure` (`TenureInvariant`) says what
the writes still in the queue will do to them:

- `Owned`: a phone's queue has writes about its own user only. So another
  phone can take a user *out* of a house (by removing or replacing the house)
  but never put one in, and never changes `users/<uid>/house`.
- `Tidy(u, q, home, L)`: for a user registered at `home` and listed by the
  houses `L`, the queue `q` has every removal before every listing, every
  removal is of the one house in `L`, and whatever is listed is where the
  queue leaves the user registered. This is where the order of the writes in
  `saveButtonTapped` matters; it is kept when the head is applied
  (`TidyPops`), when another phone shrinks `L` (`TidyShrinks`), and when a
  move is appended to a queue without such writes (`MoveIsTidy`,
  `TidyPrefixed`).
- `Leaving`: what a removal removes is the house registered until then.
- A queue with a move in it implies that the phone is loading and neither read
  has been answered: no second move is decided before the first is applied. And
  when the read of `users` is in, `me[u].house` is the server's.

`Faithful(u)` is the conjunction for one user, and holds of the users in
`Reliable` (not in `Killable` or `Offline`): a phone that is killed in the
middle of a move, or saves offline and moves again, breaks it, and the
properties with it. `SuccessIsReal` needs none of that. `Announced` follows the
last move's home through the queue (`Arrives`) until the alert is gone, on
every phone, also one that is killed or reconnects: that is where the queue
leads, in the phone's answers and, once it has arrived, at the server. That the
queue is empty when the alert shows is said only of phones outside `Offline`:
theirs is not answered before. A phone that reconnects can announce a move
that only it knows of.

`StepsAreLocal` and `OwnSteps` divide the proof: a step of another phone
matters only if it applies a write; a step of the own phone applies a write,
starts a move, or is `Plain` (nothing about tenancy is queued, nothing about
the copy goes stale). `PutsMoveOwner` says what one applied write does to one
user.

### Use in turns

`TurnsProofs`, of `SerialSpec`, for finitely many users whose writes are never
lost (`Killable = {}`, `Offline = {}`):

| Theorem | Property |
|---|---|
| `MovesAreAtomicInTurns` | `MovesAreAtomic`: `Tenancy` is implemented; each step is a join, a creation or a stutter |
| `RecordsAgreeInTurns` | `RecordsAgree`: the two records tell the same story, no house is empty |
| `NoPartialHouseInTurns` | `NoPartialHouse`: no house is incomplete, not even in the middle of a move |
| `NeverStuckInTurns` | `NeverStuck`: nothing traps or freezes, if somebody has a house at the start |
| `HouseNotReplacedInTurns` | `HouseNotReplaced`: no house is overwritten |
| `OwnHouseNotShownInTurns` | `OwnHouseNotShown`: the picker does not offer the own house |
| `LabelIsOwnInTurns` | `LabelIsOwn`: Home shows a task of the own house |

Between two writes of a move nothing simple is true of the database, so the
invariant, `Turns` (`TurnsInvariant`), speaks of `Ahead`: on that tree the two
records agree (`Agreed`), and what the one phone in use has copied is compared
with it. A write that arrives leaves `Ahead` as it is; it only has to be one of
a `Passage`, a queue of which each write in its turn leaves every house
complete and replaces none (`Gentle`). `Passage` is kept at both ends:
`PassageMovesOn` takes the first write away, `PassageGoesOn` adds one. For each
phone, either it is `Idle` (closed, nothing queued, nothing left in memory) or
it is `InUse` and all the others are idle:

- `Process`: outside a load the copy is `Current`: home, houses and residents
  are those of `Ahead`. During a load `Underway` says what each answer has
  brought; no answer comes before the queue is empty, when `Ahead` is the
  database itself. A restart of the schedule leaves, through its nested load,
  a week in the house that Home finds current, hence no trap there.
- `Tabs`: what outlives a load, screen by screen: the picker's rows do not hold
  the house the user will have, the label is of that house or stays because
  the house has no tasks.

A move is then computed on `Ahead` itself. `LeavingLeaves` is the one place
where counting matters: the count of residents in the copy is above one exactly
if somebody stays behind. `JoiningMovesIn`, `CreatingMovesIn` and
`DrinksCleared` add the other writes, and `Moved` says what all of them do
together: that is the abstract `Join` or `Create`. Every other step leaves homes
and houses alone on `Ahead` (`Stayed`; a restarted schedule changes
the week only), which is a stutter of `Tenancy`. `NeverStuckInTurns` adds
`Housed`: a move that removes the house left behind leads into another, so some
house is always there and no load finds an empty list.

`Course` is defined by recursion along the queue. `DatabaseProofs` gets what is
needed of it without an induction rule: a function on `0 .. Len(q)` with the
recursion's two equations exists because a least length without one cannot
(`LeastNatural`, `CourseExists`), it is unique for the same reason
(`CourseUnique`), and from that follow `AppliedNothing`, `AppliedGoesOn` (a
write at the end) and `CourseMovesOn` (the first one applied).

### Drinks

`DrinksProofs`, of all of `DrinksSpec`, for finitely many users:
`DrinksTypeCorrect` (`DrinksTypeOK`). `UpdatedTotal` and `newTotalDrinks` are
arithmetic on what a load brought, so the stock of every house in every copy
must be a number. `Furnished` is the strengthening: every house there is has
its stock, in the database and in the copies, and what is written below a house
finds the house there, so that no write makes one that has nothing else. The
same holds of the answer to a phone that reconnects, which has its queue laid
over the database (`QueueFurnishes`, `AnswerFurnished`).

### Drinks in turns

`DrinksProofs`, of `SerialDrinksSpec`, for finitely many users whose writes are
never lost (`Killable = {}`, `Offline = {}`):

| Theorem | Property |
|---|---|
| `FridgeKeptInTurns` | `FridgeKept`: `Fridge` is implemented; each step is a drink, a fill, a reset or a stutter |
| `BarShowsStockInTurns` | `BarShowsStock`: the screen shows and offers what is in stock |
| `OverdrawnByCorrectionInTurns` | `OverdrawnByCorrection`: only a correction takes a stock below zero |
| `DrinksTrapsInTurns` | `DrinksTraps`: the one trap is DrinkOne without a house |

The shape is that of moving house: `DrinksTurnsInvariant` says that each phone
is `Idle`, or `InUse` while all the others are idle, and what `InUse` claims is
about `Ahead`. Three things are different.

- DrinkOne's handler writes without loading again, so from then on the copy's
  numbers are old. `Placed` asks less of the copy than `Current`: who lives
  where, and that the house is there. Its numbers are used only by the handlers
  of a load that has just ended, when they are those of `Ahead`.
- The screens compute with numbers of their own. `BarTrue` says of `bar`, and
  `Drafted` of `draft`, which number of `Ahead` each of them is; that is what
  makes the totals they write the abstract ones. `Drafted` survives a visit to
  Home, which writes only `firstWeek` and `dinner` (`SameKeepsDraft`);
  DrinkOne's load begins on a bar that shows a stock, which is still the stock
  when it ends.
- A correction is saved at one moment and overdraws at a later one, when the
  server applies it. `CalmQueue(tree, q, J)` says of the queue that no write in
  its turn overdraws a house outside `J`; the set is `Corrected`, which lasts
  until the save's load ends, and that load is not answered before the queue is
  empty. A queue is extended only when `Corrected` is empty, that is, when it
  is calm for any set (`CalmForAny`).

What the writes of one tap do together is a lemma each: `DrinkWritten`,
`SaveWritten`, and `TrashWritten` for the `2n + 1` writes of a reset of `n`
residents in whatever order `SetToSeq` lists them, by the least index at which
`ClearedUpTo` could fail. `OnwardIsFridge` reads them as steps of `Fridge`.

### Schedules

`CleaningProofs`, of `CleaningSpec`. `CleaningTypeCorrect` needs no more; the
others assume that no app is killed with writes unsent (`Killable = {}`: a
killed save leaves a house without tasks for good) and that no connection is
lost (`Offline = {}`: the load of a phone that reconnects can end before its
queued week is in the database, and "Tasks Set!" with it):

| Theorem | Property |
|---|---|
| `CleaningTypeCorrect` | `CleaningTypeOK`: types; the selected segment exists |
| `SchedulesDoSurvive` | `SchedulesSurvive`: with all writes applied, every house has what `getHouses` unwraps |
| `SchedulesStartNow` | `NewScheduleStarts`: "Tasks Set!" shows when the schedule begins this week |
| `SchedulesCoverWeek` | `ScheduleCoversWeek`: Home shows a task only from a schedule that covers the week |
| `TrapsHaveCauses` | `TrapCauses`: a trap is a half saved house or a week without a segment |

The types rest on `Fresh` (`TypeInv`): the table is empty when a load of Clean
ends, and a house that was read has its week, since an answer with a house
that lacks it traps.

`CleaningInv` (`SchedulesInvariant`) is inductive because it says what is on
its way: in every queue (`Line`) a removal of tasks is directly followed by a
task of the same house, and no write names another week, since a week only
begins when the queues are empty. So a house without tasks has its first new
task at the head of some queue (`Halves`), however many phones save at once.
`Load` says of each phone what its load has brought and, after a restart or a
save, that the week is either in the queue ahead of the answer or already
stored; that is what makes the copy of a nested load current. Most steps of a
phone are a `PhoneStep`: the tree stays, and afterwards the phone has either
begun a load (`Begins`) or is in none (`Settles`); `OthersFine` says that the
other phones' claims survive all of them. `TrapsHaveCauses` needs a second invariant,
`ReachedInv`: without a lost connection a screen is only reached through a
load, so its user is known, and whoever can create a schedule has a house.

### Sessions

`SessionProofs`, of `SessionSpec`:

| Theorem | Property |
|---|---|
| `SessionTypeCorrect` | `SessionTypeOK`: types; nothing is written below a nil reference |
| `WritesStayOwn` | `WritesAreOwn`: a reliable user's writes are to the own record |
| `HouseStaysOwn` | `HouseIsOwn`: a reliable user's screens work with the own house |
| `SessionTrapsOnly` | `SessionTraps`, for finitely many users |

`Ownership` is the inductive invariant. `Shared` ties `signedIn`, `atLogIn`,
`last` and `ref` together; `Seat(v)` says that whoever is not running holds no
user, and that `known` is left to the running or last user only; `Own(v)` says
of a reliable user that once `users` is read, the copy and the reference are
the own ones. Before that answer `ref` may be another's: the proof shows that
no tap comes in between, which is exactly what fails for a user who loses the
connection right after logging in.

`SessionTrapsOnly` has an invariant of its own, `TrapsInv`, on top of
`Ownership`. No week begins in `SessionSpec`, so no house's schedule is ever
restarted and every house read has one (`TreeStands`). Whoever does not move is
listed, in the tree and in every copy a phone holds, by exactly the house they
live in (`Snapshot`, `Memory`, `Listed`), and the `users/` a load has read names
everybody who is settled (`Fetched`): a resident without a name is a newcomer
who registered and moved in after that read. A registered record is missing only
after a kill or a trap of a user who may be killed or has no connection
(`Registered`). An answer that comes before the writes of a phone that
reconnects shows the same homes and houses as the database, as all that such a
phone can have on its way is a dinner switch (`DinnerQueue`, `AnswerStands`).

### Rotation

`RotationProofs`, of `RotationSpec`: `RotationTyped` (`RotationTypeOK`),
`RowsAreEnough` (`RowsSuffice`), `TasksNotShared` (`NoTaskShared`),
`RoundsAreFair` (`EveryoneOnce`) and `TasksReached` (`ReachedTasks`). The
invariant, `RowsAreTurned`, says of every row which entry of the first stands
where; as there are no more rows than places in a row, one wrap is all there is
and no division is needed.

### Only model-checked

Liveness (`LoadsEnd`), which is out of the prover's reach. Every other property
of a passing run is stated by a theorem.

## 5. Known limits of the code

Where the code does not do what a user would expect, and no passing run claims
it does; the hazards in `PROJECT.json` have each at its line. The four
violations are runs. The others follow from the code and from the restriction
the run in question names:

- a phone that was without a connection can announce a move, or a schedule,
  before the database has it: the load that follows the save is answered from
  the phone's own queue (`PickHouseViewController.swift:81`,
  `NewScheduleViewController.swift:44`). `SuccessMeansMoved` and
  `NewScheduleStarts` compare with the database only where the connection lasts;
- a trap or a kill while a save is queued loses the rest of the save
  (`NewHouseViewController.swift:58`); `ListedAtHome`
  excepts the phones that are `Killable`, and `cleaning` has none;
- two phones create the same house name at once, the second replaces the first
  (`NewHouseViewController.swift:36`); `HouseNotReplaced` is checked in turns;
- after a join saved offline the open picker offers the house the user lives in
  (`PickHouseViewController.swift:37`); `OwnHouseNotShown` is checked connected;
- with no house in the database no load completes and nobody can create the
  first one (`Extenstions.swift:39`, `DataController.swift:96`); the runs of
  `NeverStuck` start with a house;
- after a move to a house without tasks the old task stays on Home
  (`HomeViewController.swift:48`), which `LabelIsOwn` excepts;
- of more than `2n - 1` tasks in a house of `n` the rest is never done
  (`ReachedTasks`), although `REPORT.md:73` expects only that "some tasks would
  not be done every week";
- a user who logs in and loses the connection before Home's load, with the last
  user's copy still in memory, writes the dinner switch to the last user's
  record (`LogInViewController.swift:60`); `WritesAreOwn` excepts that user;
- a registration lost with a killed app, or with the trap of an app without a
  connection, is never repeated, and every later load of that user traps
  (`LogInViewController.swift:59`), one of the causes in
  `SessionTraps`.

## 6. Not modelled, and the plan

Names and mail addresses, layout, keyboards, the text of alerts (an alert that
does not pop a screen changes nothing), AboutViewController, and the reminder
of AppDelegate carry no decision of the app. Task and house names are abstract,
so a name with a character Firebase refuses in a path
(`NewScheduleViewController.swift:40`) is outside the model, and so are partial
records of users (`DataController.swift:59`).

What is modelled is the app's own Swift, in `src/code/RoomMate`. The
repository's C, C++ and Objective-C headers (leveldb, nanopb, GTMSessionFetcher, the
Firebase headers) are third-party code vendored by CocoaPods under `src/code/Pods`; none
of it was written for RoomMate. What the app relies on of it is stated in
`Device`, and mapped there to the client's queue of writes (`Issue`, `ApplyPut`,
`Answerable`, `Answer`, `LastWrite`): writes of one phone are applied in the order of
the calls, each once; on a connection that lasts, before that phone's later
reads; and the phone's answers show its own writes at once. Two things of that
client are left out. A write whose acknowledgement is lost with the connection
is sent again. And a write acknowledged while a read is open goes on being laid
over what the server sends until the read is answered
(`FPersistentConnection.m:584-592`); the model stops when the write is applied.

Next, in this order:

1. `Link`: at-least-once delivery of queued writes under `Device` (a resend
   after a reconnect), and which properties of `races` survive it.
2. Drinks in races: what the accounts still guarantee, and `AddDrinks` saving
   an old stock over a flatmate's drink.
3. `RoomMate`: all tabs on one phone, with small menus; first Residency with
   Cleaning, where a house can be removed under a schedule being saved.
4. Proof: the safety properties of 1 to 3, each from the invariants above.
