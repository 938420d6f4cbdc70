--------------------------- MODULE ResidencyProofs ---------------------------
(***************************************************************************)
(* What is proved of Residency, for any sets of users, houses, passwords   *)
(* and weeks and any number of phones.                                     *)
(***************************************************************************)
EXTENDS Residency, HomeProofs, SequenceTheorems

-----------------------------------------------------------------------------
(* Type correctness.                                                       *)

\* Every list of writes a screen issues is one of well-formed writes.
LEMMA MovePutsTyped ==
  ASSUME DeviceTypeOK, NEW u \in Users, NEW h \in Houses, NEW pw \in Passwords
  PROVE  /\ JoinPuts(u, h) \in Seq(Puts) /\ CreatePuts(u, h, pw) \in Seq(Puts)
         /\ LeavePuts(u) \in Seq(Puts)
         /\ {SetHome(u, h), SetResident(h, u, TRUE), SetHouse(h, NewHouse(u, pw)),
             SetDrinks(u, 0), SetDrinksToBuy(u, 0)} \subseteq Puts
<1>1. LeavePuts(u) \in Seq(Puts)
  <2>1. me[u].house = Null \/ me[u].house \in Houses
    BY DEF DeviceTypeOK, UserNode
  <2>2. \A g \in Houses : SetResident(g, u, FALSE) \in Puts /\ SetHouse(g, NoHouse) \in Puts
    BY NodesTyped DEF SetResident, SetHouse, Puts
  <2>3. \A p \in Puts : <<p>> \in Seq(Puts)
    OBVIOUS
  <2>4. << >> \in Seq(Puts)
    OBVIOUS
  <2>5. LeavePuts(u) \in {<< >>, <<SetResident(me[u].house, u, FALSE)>>,
                         <<SetHouse(me[u].house, NoHouse)>>}
    BY DEF LeavePuts
  <2>6. CASE me[u].house = Null
    BY <2>6, <2>4 DEF LeavePuts
  <2>7. CASE me[u].house \in Houses
    BY <2>7, <2>2, <2>3, <2>4, <2>5
  <2> QED
    BY <2>1, <2>6, <2>7
<1>2. SetHome(u, h) \in Puts /\ SetResident(h, u, TRUE) \in Puts
  BY DEF SetHome, SetResident, Puts
<1>3. SetHouse(h, NewHouse(u, pw)) \in Puts
  BY NodesTyped DEF SetHouse, Puts
<1>4. SetDrinks(u, 0) \in Puts /\ SetDrinksToBuy(u, 0) \in Puts
  BY DEF SetDrinks, SetDrinksToBuy, Puts
<1>7. ClearDrinks(u) \in Seq(Puts)
  BY <1>4 DEF ClearDrinks
<1>. DEFINE Pair(p, q) == <<p, q>>
<1>0. \A p, q \in Puts : Pair(p, q) \in Seq(Puts)
  OBVIOUS
<1>. HIDE DEF Pair
<1>5. Pair(SetHome(u, h), SetResident(h, u, TRUE)) \in Seq(Puts)
  BY <1>0, <1>2
<1>6. Pair(SetHouse(h, NewHouse(u, pw)), SetHome(u, h)) \in Seq(Puts)
  BY <1>0, <1>2, <1>3
<1> QED
  BY <1>1, <1>2, <1>3, <1>4, <1>5, <1>6, <1>7, ConcatProperties DEF JoinPuts, CreatePuts, Pair

-----------------------------------------------------------------------------
\* A save in PickHouse or NewHouse.
LEMMA MoveTyped ==
  ASSUME TypeOK, NEW u \in Users, NEW h \in Houses, NEW puts \in Seq(Puts),
         NEW step \in {"joined", "created"}, Move(u, puts, step, h)
  PROVE  TypeOK'
<1>1. CASE CanLeave(u)
  <2>1. [step |-> step, house |-> h] \in Handlers
    BY DEF Handlers, Steps
  <2>2. uplink' \in [Users -> Seq(Puts)]
    BY <1>1, IssueTyped DEF Move, TypeOK
  <2> QED
    BY <1>1, <2>1, <2>2, GetAllDataTyped DEF Move, TypeOK, DeviceTypeOK, LabelTypeOK, database
<1>2. CASE ~CanLeave(u)
  <2>1. /\ label' \in [Users -> Houses \cup {Null}]
        /\ pushed' \in [Users -> {"profile", "pick", "new"}]
        /\ picker' \in [Users -> (SUBSET Houses) \cup {Null}]
    BY <1>2 DEF Move, LabelLost, TypeOK, LabelTypeOK
  <2> QED
    BY <1>2, <2>1, StopTyped DEF Move, Crash, TypeOK, DeviceTypeOK, LabelTypeOK, database
<1> QED
  BY <1>1, <1>2

\* The other handlers and taps of the Profile tab.
LEMMA ProfileTyped ==
  ASSUME TypeOK, NEW u \in Users,
         \/ PickerLoaded(u) \/ ProfileLoaded(u) \/ Saved(u)
         \/ SaveWithoutPicker(u)
         \/ Okay(u) \/ Back(u) \/ TabToProfile(u) \/ TabToHome(u) \/ PushPick(u) \/ PushNew(u)
  PROVE  TypeOK'
<1>1. \A s \in {"appear", "profile", "picker"} : Run(s) \in Handlers
  BY DEF Run, Handlers, Steps
<1>2. {"home", "profile", "pick", "new"} \subseteq Screens /\ "alert" \in Phases
  BY DEF Screens, Phases
<1>3. CASE PickerLoaded(u)
  <2>1. picker' \in [Users -> (SUBSET Houses) \cup {Null}]
    <3>1. {h \in Houses : seen[u][h] # NoHouse} \ {me[u].house} \in SUBSET Houses
      OBVIOUS
    <3> QED
      BY <1>3, <3>1 DEF PickerLoaded, TypeOK
  <2> QED
    BY <1>3, <2>1, RestTyped DEF PickerLoaded, TypeOK, DeviceTypeOK, LabelTypeOK, database
<1>4. CASE ProfileLoaded(u)
  BY <1>4, RestTyped DEF ProfileLoaded, TypeOK, DeviceTypeOK, LabelTypeOK, database
<1>5. CASE Saved(u)
  BY <1>2, <1>5 DEF Saved, TypeOK, DeviceTypeOK, LabelTypeOK, memory, database
<1>6. CASE SaveWithoutPicker(u)
  <2>1. /\ label' \in [Users -> Houses \cup {Null}]
        /\ pushed' \in [Users -> {"profile", "pick", "new"}]
    BY <1>6 DEF SaveWithoutPicker, LabelLost, TypeOK, LabelTypeOK
  <2> QED
    BY <1>6, <2>1, StopTyped DEF SaveWithoutPicker, Crash, TypeOK, DeviceTypeOK, LabelTypeOK, database
<1>7. ASSUME ShowProfile(u) PROVE TypeOK'
  <2>1. /\ screen' \in [Users -> Screens]
        /\ pushed' \in [Users -> {"profile", "pick", "new"}]
    BY <1>2, <1>7 DEF ShowProfile, TypeOK, DeviceTypeOK
  <2> QED
    BY <1>1, <1>7, <2>1, GetAllDataTyped
    DEF ShowProfile, TypeOK, DeviceTypeOK, LabelTypeOK, database
<1>8. CASE Okay(u) \/ Back(u)
  BY <1>7, <1>8 DEF Okay, Back
<1>9. CASE TabToProfile(u)
  <2>1. CASE ~ShowProfile(u)
    <3>1. screen' \in [Users -> Screens]
      BY <1>2, <1>9, <2>1 DEF TabToProfile, TypeOK, DeviceTypeOK
    <3> QED
      BY <1>9, <2>1, <3>1 DEF TabToProfile, TypeOK, DeviceTypeOK, LabelTypeOK, memory, database
  <2> QED
    BY <1>7, <2>1
<1>10. CASE TabToHome(u)
  <2>1. screen' \in [Users -> Screens]
    BY <1>2, <1>10 DEF TabToHome, TypeOK, DeviceTypeOK
  <2> QED
    BY <1>1, <1>10, <2>1, GetAllDataTyped DEF TabToHome, TypeOK, DeviceTypeOK, LabelTypeOK, database
<1>11. CASE PushPick(u)
  <2>1. /\ screen' \in [Users -> Screens]
        /\ pushed' \in [Users -> {"profile", "pick", "new"}]
        /\ picker' \in [Users -> (SUBSET Houses) \cup {Null}]
    BY <1>2, <1>11 DEF PushPick, TypeOK, DeviceTypeOK
  <2> QED
    BY <1>1, <1>11, <2>1, GetAllDataTyped DEF PushPick, TypeOK, DeviceTypeOK, LabelTypeOK, database
<1>12. CASE PushNew(u)
  <2>1. /\ screen' \in [Users -> Screens]
        /\ pushed' \in [Users -> {"profile", "pick", "new"}]
    BY <1>2, <1>12 DEF PushNew, TypeOK, DeviceTypeOK
  <2> QED
    BY <1>12, <2>1 DEF PushNew, TypeOK, DeviceTypeOK, LabelTypeOK, memory, database
<1> QED
  BY <1>3, <1>4, <1>5, <1>6, <1>8, <1>9, <1>10, <1>11, <1>12

\* A step of Home next to the Profile tab.
LEMMA HomeStepTyped ==
  ASSUME TypeOK, NEW u \in Users, ForgetStack(u),
         Background(u) \/ HomeHandlers(u) \/ HomeTaps(u) \/ Lifecycle(u)
  PROVE  TypeOK'
<1>1. pushed' \in [Users -> {"profile", "pick", "new"}]
      /\ picker' \in [Users -> (SUBSET Houses) \cup {Null}]
  BY DEF TypeOK, ForgetStack
<1>2. HomeTypeOK
  BY DEF TypeOK, HomeTypeOK
<1>3. HomeTypeOK'
  BY <1>2, BackgroundTyped, HomeHandlersTyped, HomeTapsTyped
<1> QED
  BY <1>1, <1>3 DEF TypeOK, HomeTypeOK

LEMMA PhoneStepTyped ==
  ASSUME TypeOK, NEW u \in Users, PhoneStep(u)
  PROVE  TypeOK'
<1>1. CASE Serve(u)
  BY <1>1, HomeStepTyped DEF Serve
<1>2. CASE HomeHandlers(u) /\ ForgetStack(u)
  BY <1>2, HomeStepTyped
<1>3. CASE (HomeTaps(u) \/ Lifecycle(u)) /\ ForgetStack(u)
  BY <1>3, HomeStepTyped
<1>4. CASE \E h \in Houses, pw \in Passwords : JoinHouse(u, h, pw) \/ CreateHouse(u, h, pw)
  <2>1. PICK h \in Houses, pw \in Passwords : JoinHouse(u, h, pw) \/ CreateHouse(u, h, pw)
    BY <1>4
  <2>2. JoinPuts(u, h) \in Seq(Puts) /\ CreatePuts(u, h, pw) \in Seq(Puts)
    BY MovePutsTyped DEF TypeOK
  <2> QED
    BY <2>1, <2>2, MoveTyped, ProfileTyped DEF JoinHouse, CreateHouse
<1> QED
  BY <1>1, <1>2, <1>3, <1>4, ProfileTyped DEF PhoneStep, Handle, Tap

LEMMA InitTyped == ASSUME Init PROVE TypeOK
<1>1. HomeTypeOK
  BY HomeInitTyped DEF Init
<1> QED
  BY <1>1 DEF Init, TypeOK, HomeTypeOK

LEMMA NextTyped == ASSUME TypeOK, [Next]_vars PROVE TypeOK'
<1>1. CASE UNCHANGED vars
  BY <1>1 DEF vars, homeVars, deviceVars, TypeOK, DeviceTypeOK, LabelTypeOK
<1>2. CASE Calendar
  BY <1>2 DEF Calendar, NewWeek, TypeOK, DeviceTypeOK, LabelTypeOK, memory, database
<1> QED
  BY <1>1, <1>2, PhoneStepTyped DEF Next

(* Every variable keeps its type, whatever the sets of names: in           *)
(* particular no write below a nil house and none of a user who is not     *)
(* registered is ever issued.                                              *)
THEOREM TypeCorrect == Spec => []TypeOK
<1>1. Init => TypeOK
  BY InitTyped
<1>2. TypeOK /\ [Next]_vars => TypeOK'
  BY NextTyped
<1> QED
  BY <1>1, <1>2, PTL DEF Spec

-----------------------------------------------------------------------------
(* One house at most.                                                      *)

\* The writes of phone u that tell where users live, and with them those
\* that can leave nothing of a house.
IsHome(p) == p.path = "users/house"
IsTenancy(p) ==
  p.path \in {"users/house", "houses", "houses/residents", "houses/tasks"}
Lists(p, u) ==
  \/ p.path = "houses/residents" /\ p.listed
  \/ p.path = "houses" /\ u \in p.node.residents
Unlists(p, u) ==
  \/ p.path = "houses/residents" /\ ~p.listed
  \/ p.path = "houses" /\ u \notin p.node.residents

\* A phone writes of its own user only (and no Residency screen trashes the
\* tasks of a house).
OwnPut(p, u) ==
  /\ p.path \in {"users/house", "houses/residents"} => p.user = u
  /\ p.path = "houses" => p.node.residents \subseteq {u}
  /\ p.path # "houses/tasks"
Owned == \A v \in Users : \A i \in 1 .. Len(uplink[v]) : OwnPut(uplink[v][i], v)

Neutral(q) == \A i \in 1 .. Len(q) : ~IsTenancy(q[i])

\* With the queue q applied, a user registered at home is registered at h.
Aim(q, home, h) ==
  /\ \A i \in 1 .. Len(q) : IsHome(q[i]) => q[i].house = h
  /\ (\A i \in 1 .. Len(q) : ~IsHome(q[i])) => home = h

\* A queue of u's writes that brings a user registered at home and listed by
\* the houses L into one house: all removals come first, and are of the only
\* house there is; what is listed then is where the user will be registered.
Tidy(u, q, home, L) ==
  /\ \A i, j \in 1 .. Len(q) : Unlists(q[i], u) /\ Lists(q[j], u) => i < j
  /\ \A i \in 1 .. Len(q) : Unlists(q[i], u) => L \subseteq {q[i].house}
  /\ \A i \in 1 .. Len(q) : Lists(q[i], u) => Aim(q, home, q[i].house)
  /\ (\A i \in 1 .. Len(q) : ~Unlists(q[i], u)) => \A h \in L : Aim(q, home, h)

\* Every removal in the queue is of the house u is registered at until then.
Leaving(u, q, home) ==
  \A i \in 1 .. Len(q) : Unlists(q[i], u) =>
    q[i].house = home /\ \A j \in 1 .. i : ~IsHome(q[j])

Fresh(u) ==
  \/ phase[u] \in {"ready", "alert"}
  \/ phase[u] = "loading" /\ "users" \notin asked[u]

\* What holds of a user whose writes all arrive.
Faithful(u) ==
  /\ online[u]
  /\ Tidy(u, uplink[u], users[u].house, LivesIn(u))
  /\ Leaving(u, uplink[u], users[u].house)
  /\ ~Neutral(uplink[u]) => phase[u] = "loading" /\ asked[u] = {"users", "houses"}
  /\ Fresh(u) => me[u].house = users[u].house
  /\ users[u].house = Null => me[u].house = Null

Tenure == Owned /\ \A u \in Reliable : Faithful(u)

LEMMA ConcatIndex ==
  ASSUME NEW s \in Seq(Puts), NEW t \in Seq(Puts)
  PROVE  /\ s \o t \in Seq(Puts)
         /\ Len(s) \in Nat /\ Len(t) \in Nat /\ Len(s \o t) = Len(s) + Len(t)
         /\ \A i \in 1 .. Len(s) : i \in 1 .. Len(s \o t) /\ (s \o t)[i] = s[i]
         /\ \A j \in 1 .. Len(t) : j + Len(s) \in 1 .. Len(s \o t) /\ (s \o t)[j + Len(s)] = t[j]
         /\ \A i \in 1 .. Len(s \o t) : i \notin 1 .. Len(s) =>
              i - Len(s) \in 1 .. Len(t) /\ (s \o t)[i] = t[i - Len(s)]
OBVIOUS

\* Queues: what applying the first write, adding some, or losing a listing does.
LEMMA TidyShrinks ==
  ASSUME NEW u, NEW q, NEW home, NEW L, NEW M \in SUBSET L, Tidy(u, q, home, L)
  PROVE  Tidy(u, q, home, M)
BY DEF Tidy

LEMMA TidyWhenNeutral ==
  ASSUME NEW u, NEW q \in Seq(Puts), NEW home, NEW L, Neutral(q)
  PROVE  Tidy(u, q, home, L) <=> L \subseteq {home}
<1>1. \A i \in 1 .. Len(q) : ~Unlists(q[i], u) /\ ~Lists(q[i], u) /\ ~IsHome(q[i])
  BY DEF Neutral, IsTenancy, Unlists, Lists, IsHome
<1>2. \A h : Aim(q, home, h) <=> home = h
  BY <1>1 DEF Aim
<1> QED
  BY <1>1, <1>2 DEF Tidy

LEMMA TidyPrefixed ==
  ASSUME NEW u, NEW q \in Seq(Puts), NEW r \in Seq(Puts), NEW home, NEW L,
         Neutral(q), Tidy(u, r, home, L)
  PROVE  Tidy(u, q \o r, home, L)
<1>. DEFINE s == q \o r
<1>1. /\ Len(s) = Len(q) + Len(r)
      /\ \A i \in 1 .. Len(q) : s[i] = q[i]
      /\ \A i \in 1 .. Len(s) : i \notin 1 .. Len(q) =>
           i - Len(q) \in 1 .. Len(r) /\ s[i] = r[i - Len(q)]
      /\ \A i \in 1 .. Len(r) : i + Len(q) \in 1 .. Len(s) /\ s[i + Len(q)] = r[i]
      /\ Len(q) \in Nat /\ Len(r) \in Nat
  OBVIOUS
<1>. HIDE DEF s
<1>2. \A i \in 1 .. Len(q) : ~Unlists(s[i], u) /\ ~Lists(s[i], u) /\ ~IsHome(s[i])
  BY <1>1 DEF Neutral, IsTenancy, Unlists, Lists, IsHome
<1>3. \A h : Aim(r, home, h) => Aim(s, home, h)
  BY <1>1, <1>2 DEF Aim
<1>4. ASSUME NEW i \in 1 .. Len(s), NEW j \in 1 .. Len(s), Unlists(s[i], u), Lists(s[j], u)
      PROVE  i < j
  <2>1. i - Len(q) \in 1 .. Len(r) /\ s[i] = r[i - Len(q)]
    BY <1>1, <1>2, <1>4
  <2>2. j - Len(q) \in 1 .. Len(r) /\ s[j] = r[j - Len(q)]
    BY <1>1, <1>2, <1>4
  <2>3. i - Len(q) < j - Len(q)
    BY <1>4, <2>1, <2>2 DEF Tidy
  <2> QED
    BY <2>3, <1>1
<1>5. \A i \in 1 .. Len(s) : Unlists(s[i], u) => L \subseteq {s[i].house}
  BY <1>1, <1>2 DEF Tidy
<1>6. \A i \in 1 .. Len(s) : Lists(s[i], u) => Aim(s, home, s[i].house)
  BY <1>1, <1>2, <1>3 DEF Tidy
<1>7. (\A i \in 1 .. Len(s) : ~Unlists(s[i], u)) => \A h \in L : Aim(s, home, h)
  BY <1>1, <1>3 DEF Tidy
<1> QED
  BY <1>4, <1>5, <1>6, <1>7 DEF Tidy, s

LEMMA TidyPops ==
  ASSUME NEW u, NEW q \in Seq(Puts), q # << >>, NEW home, NEW L,
         Tidy(u, q, home, L),
         NEW home2, home2 = IF IsHome(Head(q)) THEN Head(q).house ELSE home,
         NEW M, Lists(Head(q), u) => M \subseteq L \cup {Head(q).house},
         Unlists(Head(q), u) => M \subseteq L \ {Head(q).house},
         ~Lists(Head(q), u) => M \subseteq L
  PROVE  Tidy(u, Tail(q), home2, M)
<1>. DEFINE t == Tail(q)
<1>1. /\ Len(q) \in Nat /\ Len(t) \in Nat /\ Len(q) = Len(t) + 1
      /\ Head(q) = q[1] /\ 1 \in 1 .. Len(q)
      /\ \A i \in 1 .. Len(t) : t[i] = q[i + 1] /\ i + 1 \in 1 .. Len(q)
      /\ \A i \in 1 .. Len(q) : i = 1 \/ (i - 1 \in 1 .. Len(t) /\ q[i] = t[i - 1])
  OBVIOUS
<1>. HIDE DEF t
<1>2. \A h : Aim(q, home, h) => Aim(t, home2, h)
  BY <1>1 DEF Aim
<1>3. \A i, j \in 1 .. Len(t) : Unlists(t[i], u) /\ Lists(t[j], u) => i < j
  <2> SUFFICES ASSUME NEW i \in 1 .. Len(t), NEW j \in 1 .. Len(t),
                      Unlists(t[i], u), Lists(t[j], u)
               PROVE  i < j
    OBVIOUS
  <2>1. i + 1 < j + 1
    BY <1>1 DEF Tidy
  <2> QED
    BY <2>1
<1>4. \A i \in 1 .. Len(t) : Lists(t[i], u) => Aim(t, home2, t[i].house)
  BY <1>1, <1>2 DEF Tidy
<1>5. CASE Lists(q[1], u)
  <2>1. \A i \in 1 .. Len(q) : ~Unlists(q[i], u)
    BY <1>1, <1>5 DEF Tidy
  <2>2. \A h \in L \cup {q[1].house} : Aim(q, home, h)
    BY <1>1, <1>5, <2>1 DEF Tidy
  <2>3. \A i \in 1 .. Len(t) : ~Unlists(t[i], u)
    BY <1>1, <2>1
  <2>4. \A h \in M : Aim(t, home2, h)
    BY <1>1, <1>2, <1>5, <2>2
  <2> QED
    BY <1>3, <1>4, <2>3, <2>4 DEF Tidy, t
<1>6. CASE Unlists(q[1], u)
  <2>1. L \subseteq {q[1].house}
    BY <1>1, <1>6 DEF Tidy
  <2>2. M = {}
    BY <1>1, <1>6, <2>1
  <2> QED
    BY <1>3, <1>4, <2>2 DEF Tidy, t
<1>7. CASE ~Lists(q[1], u) /\ ~Unlists(q[1], u)
  <2>1. M \subseteq L
    BY <1>1, <1>7
  <2>2. \A i \in 1 .. Len(t) : Unlists(t[i], u) => M \subseteq {t[i].house}
    BY <1>1, <2>1 DEF Tidy
  <2>3. (\A i \in 1 .. Len(t) : ~Unlists(t[i], u)) => \A h \in M : Aim(t, home2, h)
    <3>1. (\A i \in 1 .. Len(t) : ~Unlists(t[i], u)) => \A i \in 1 .. Len(q) : ~Unlists(q[i], u)
      BY <1>1, <1>7
    <3> QED
      BY <1>2, <2>1, <3>1 DEF Tidy
  <2> QED
    BY <1>3, <1>4, <2>2, <2>3 DEF Tidy, t
<1> QED
  BY <1>5, <1>6, <1>7

LEMMA LeavingWhenNeutral ==
  ASSUME NEW u, NEW q, NEW home, Neutral(q)
  PROVE  Leaving(u, q, home)
BY DEF Neutral, Leaving, IsTenancy, Unlists

LEMMA LeavingPrefixed ==
  ASSUME NEW u, NEW q \in Seq(Puts), NEW r \in Seq(Puts), NEW home,
         Neutral(q), Leaving(u, r, home)
  PROVE  Leaving(u, q \o r, home)
<1>. DEFINE s == q \o r
<1>1. /\ \A i \in 1 .. Len(q) : s[i] = q[i]
      /\ \A i \in 1 .. Len(s) : i \notin 1 .. Len(q) =>
           i - Len(q) \in 1 .. Len(r) /\ s[i] = r[i - Len(q)]
      /\ Len(s) \in Nat /\ Len(q) \in Nat /\ Len(r) \in Nat
  BY ConcatIndex
<1>. HIDE DEF s
<1>2. \A i \in 1 .. Len(q) : ~Unlists(s[i], u) /\ ~IsHome(s[i])
  BY <1>1 DEF Neutral, IsTenancy, Unlists, IsHome
<1>3. ASSUME NEW i \in 1 .. Len(s), Unlists(s[i], u)
      PROVE  s[i].house = home /\ \A j \in 1 .. i : ~IsHome(s[j])
  <2>1. i - Len(q) \in 1 .. Len(r) /\ s[i] = r[i - Len(q)]
    BY <1>1, <1>2, <1>3
  <2>2. s[i].house = home /\ \A j \in 1 .. i - Len(q) : ~IsHome(r[j])
    BY <1>3, <2>1 DEF Leaving
  <2>3. ASSUME NEW j \in 1 .. i PROVE ~IsHome(s[j])
    <3>1. CASE j \in 1 .. Len(q)
      BY <1>2, <3>1
    <3>2. CASE j \notin 1 .. Len(q)
      <4>1. j \in 1 .. Len(s)
        BY <1>1
      <4>2. j - Len(q) \in 1 .. i - Len(q) /\ s[j] = r[j - Len(q)]
        BY <1>1, <3>2, <4>1
      <4> QED
        BY <2>2, <4>2
    <3> QED
      BY <3>1, <3>2
  <2> QED
    BY <2>2, <2>3
<1> QED
  BY <1>3 DEF Leaving, s

LEMMA LeavingPops ==
  ASSUME NEW u, NEW q \in Seq(Puts), q # << >>, NEW home, Leaving(u, q, home),
         NEW home2, ~IsHome(Head(q)) => home2 = home
  PROVE  /\ Leaving(u, Tail(q), home2)
         /\ Unlists(Head(q), u) => Head(q).house = home
<1>. DEFINE t == Tail(q)
<1>1. /\ Len(q) \in Nat /\ Len(t) \in Nat
      /\ Head(q) = q[1] /\ 1 \in 1 .. Len(q)
      /\ \A i \in 1 .. Len(t) : t[i] = q[i + 1] /\ i + 1 \in 1 .. Len(q)
  OBVIOUS
<1>. HIDE DEF t
<1>2. ASSUME NEW i \in 1 .. Len(t), Unlists(t[i], u)
      PROVE  t[i].house = home2 /\ \A j \in 1 .. i : ~IsHome(t[j])
  <2>1. q[i + 1].house = home /\ \A j \in 1 .. i + 1 : ~IsHome(q[j])
    BY <1>1, <1>2 DEF Leaving
  <2>2. \A j \in 1 .. i : j \in 1 .. Len(t) /\ j + 1 \in 1 .. i + 1
    BY <1>1
  <2>3. 1 \in 1 .. i + 1
    OBVIOUS
  <2> QED
    BY <1>1, <2>1, <2>2, <2>3
<1> QED
  BY <1>1, <1>2 DEF Leaving, t

\* What a write of phone v does to where u is registered and listed.
LEMMA PutsMoveOwner ==
  ASSUME DeviceTypeOK, NEW u \in Users, NEW v \in Users, NEW p \in Puts, OwnPut(p, v),
         users' = UsersAfter(users, p), houses' = HousesAfter(houses, p)
  PROVE  /\ v # u => users'[u].house = users[u].house
         /\ v # u => LivesIn(u)' \subseteq LivesIn(u)
         /\ v = u => users'[u].house = IF IsHome(p) THEN p.house ELSE users[u].house
         /\ v = u /\ Lists(p, u) => LivesIn(u)' \subseteq LivesIn(u) \cup {p.house}
         /\ v = u /\ Unlists(p, u) => LivesIn(u)' \subseteq LivesIn(u) \ {p.house}
         /\ ~Lists(p, u) => LivesIn(u)' \subseteq LivesIn(u)
<1>1. CASE p.path = "users/house"
  BY <1>1 DEF Puts, OwnPut, UsersAfter, HousesAfter, LivesIn, IsHome, Lists, Unlists, DeviceTypeOK, UserNode
<1>2. CASE p.path \in {"users/drinks", "users/drinksToBuy", "users/dinner"}
  <2>1. houses' = houses /\ ~IsHome(p) /\ ~Lists(p, u) /\ ~Unlists(p, u)
    BY <1>2 DEF HousesAfter, IsHome, Lists, Unlists
  <2>2. users'[u].house = users[u].house
    <3>1. CASE p.path = "users/drinks"
      BY <3>1 DEF UsersAfter, DeviceTypeOK, UserNode
    <3>2. CASE p.path = "users/drinksToBuy"
      BY <3>2 DEF UsersAfter, DeviceTypeOK, UserNode
    <3>3. CASE p.path = "users/dinner"
      BY <3>3 DEF UsersAfter, DeviceTypeOK, UserNode
    <3> QED
      BY <1>2, <3>1, <3>2, <3>3
  <2> QED
    BY <2>1, <2>2 DEF LivesIn
<1>3. CASE p.path = "houses"
  BY <1>3 DEF Puts, OwnPut, UsersAfter, HousesAfter, LivesIn, IsHome, Lists, Unlists, DeviceTypeOK
<1>4. CASE p.path \in {"houses/drinks", "houses/firstWeek"}
  BY <1>4 DEF Puts, UsersAfter, HousesAfter, LivesIn, IsHome, Lists, Unlists, DeviceTypeOK, HouseNode
<1>5. CASE p.path = "houses/residents"
  BY <1>5 DEF Puts, OwnPut, UsersAfter, HousesAfter, LivesIn, IsHome, Lists, Unlists, DeviceTypeOK, HouseNode
<1>6. CASE p.path \in {"houses/tasks", "houses/tasks/task"}
  BY <1>6 DEF Puts, UsersAfter, HousesAfter, LivesIn, IsHome, Lists, Unlists, DeviceTypeOK, HouseNode
<1> QED
  BY <1>1, <1>2, <1>3, <1>4, <1>5, <1>6 DEF Puts

\* A phone's step changes only that phone's variables; only ApplyPut changes
\* who lives where and what the houses hold.
HomesStay == UNCHANGED houses /\ \A w \in Users : users'[w].house = users[w].house

Elsewhere(u) ==
  /\ uplink'[u] = uplink[u] /\ online'[u] = online[u] /\ phase'[u] = phase[u]
  /\ then'[u] = then[u] /\ asked'[u] = asked[u] /\ me'[u] = me[u]

LEMMA StepsAreLocal ==
  ASSUME TypeOK, NEW u \in Users, NEW v \in Users, u # v, PhoneStep(v)
  PROVE  Elsewhere(u) /\ (HomesStay \/ ApplyPut(v))
<1>. USE DEF TypeOK, DeviceTypeOK, Elsewhere, memory, database, HomesStay
<1>1. CASE Serve(v)
  BY <1>1 DEF Serve, Background, ApplyPut, ServeUsers, ServeHouses, Crash, Stop
<1>2. CASE HomeHandlers(v)
  <2>. USE DEF Rest, Crash, Stop, showCurrentTask, RestartSchedule, Issue, GetAllData
  <2>1. ASSUME NEW h, checkIfWeekInSchedule(v, h)
        PROVE  /\ uplink'[u] = uplink[u] /\ phase'[u] = phase[u] /\ then'[u] = then[u]
               /\ asked'[u] = asked[u] /\ me'[u] = me[u]
    BY <2>1 DEF checkIfWeekInSchedule
  <2>2. CASE HomeAppeared(v)
    BY <2>1, <2>2 DEF HomeAppeared, checkForEndOfYear
  <2>3. CASE HomeWeekSet(v)
    BY <2>1, <2>3 DEF HomeWeekSet, HomeReloaded
  <2>4. CASE HomeScheduleRestarted(v)
    BY <2>4 DEF HomeScheduleRestarted, HomeReloaded
  <2> QED
    BY <1>2, <2>2, <2>3, <2>4 DEF HomeHandlers, HomeAppeared, HomeWeekSet, HomeScheduleRestarted, HomeReloaded
<1>3. CASE HomeTaps(v) \/ Lifecycle(v)
  <2>1. CASE Refresh(v) \/ Launch(v)
    BY <2>1 DEF Refresh, Launch, GetAllData
  <2>2. CASE DinnerSwitch(v)
    <3>1. CASE known[v]
      BY <2>2, <3>1 DEF DinnerSwitch, Issue
    <3>2. CASE ~known[v]
      <4>1. PICK on \in BOOLEAN : LastWrite(v, SetDinner(v, on))
        BY <2>2, <3>2 DEF DinnerSwitch
      <4>2. HomesStay
        BY <4>1, LastWriteTyped
      <4>3. Crash(v) /\ UNCHANGED online
        BY <2>2, <3>2 DEF DinnerSwitch
      <4>4. Elsewhere(u)
        BY <4>3 DEF Crash, Stop
      <4> QED
        BY <4>2, <4>4
    <3> QED
      BY <3>1, <3>2
  <2>3. CASE LoseConnection(v) \/ RegainConnection(v) \/ Quit(v)
    BY <2>3 DEF LoseConnection, RegainConnection, Quit, Stop
  <2> QED
    BY <1>3, <2>1, <2>2, <2>3 DEF HomeTaps, Lifecycle
<1>4. CASE PickerLoaded(v) \/ ProfileLoaded(v) \/ Saved(v)
  BY <1>4 DEF PickerLoaded, ProfileLoaded, Saved, Rest
<1>5. ASSUME NEW h \in Houses, NEW pw \in Passwords, JoinHouse(v, h, pw) \/ CreateHouse(v, h, pw)
      PROVE  Elsewhere(u) /\ UNCHANGED database
  BY <1>5 DEF JoinHouse, CreateHouse, SaveWithoutPicker, Move, Issue, GetAllData, Crash, Stop
<1>6. CASE Okay(v) \/ Back(v) \/ TabToProfile(v) \/ TabToHome(v) \/ PushPick(v) \/ PushNew(v)
  BY <1>6 DEF Okay, Back, TabToProfile, TabToHome, PushPick, PushNew, ShowProfile, GetAllData
<1> QED
  BY <1>1, <1>2, <1>3, <1>4, <1>5, <1>6 DEF PhoneStep, Serve, Handle, Tap

\* What a step of phone v does to its queue of writes.
LEMMA QueueSteps ==
  ASSUME TypeOK, NEW v \in Users, PhoneStep(v)
  PROVE  \/ uplink'[v] = uplink[v]
         \/ uplink'[v] = << >>
         \/ uplink[v] # << >> /\ uplink'[v] = Tail(uplink[v])
         \/ \E p \in Puts : ~IsTenancy(p) /\ uplink'[v] = uplink[v] \o <<p>>
         \/ \E h \in Houses, pw \in Passwords :
              \E r \in {JoinPuts(v, h), CreatePuts(v, h, pw)} : uplink'[v] = uplink[v] \o r
<1>. USE DEF TypeOK, DeviceTypeOK, memory, database
<1>1. CASE Serve(v)
  BY <1>1 DEF Serve, Background, ApplyPut, ServeUsers, ServeHouses, Crash, Stop
<1>2. CASE HomeHandlers(v)
  <2>1. ASSUME NEW h \in Houses, NEW next, RestartSchedule(v, h, next)
        PROVE  \E p \in Puts : ~IsTenancy(p) /\ uplink'[v] = uplink[v] \o <<p>>
    <3>. DEFINE p == SetFirstWeek(h, getCurrentWeek)
    <3>1. getCurrentWeek \in Int
      BY DeviceAssumption DEF getCurrentWeek
    <3>2. p \in Puts /\ ~IsTenancy(p)
      BY <3>1 DEF SetFirstWeek, Puts, IsTenancy
    <3>3. uplink'[v] = uplink[v] \o <<p>>
      BY <2>1 DEF RestartSchedule, Issue
    <3> QED
      BY <3>2, <3>3
  <2>2. ASSUME NEW h \in Houses, showCurrentTask(v, h)
        PROVE  uplink'[v] = uplink[v] \/ uplink'[v] = << >>
    BY <2>2 DEF showCurrentTask, Rest, Crash, Stop
  <2>. DEFINE Goal == \/ uplink'[v] = uplink[v]
                      \/ uplink'[v] = << >>
                      \/ \E p \in Puts : ~IsTenancy(p) /\ uplink'[v] = uplink[v] \o <<p>>
  <2>3. ASSUME NEW h \in Houses, checkForEndOfYear(v, h) \/ checkIfWeekInSchedule(v, h)
        PROVE  Goal
    BY <2>1, <2>2, <2>3 DEF checkForEndOfYear, checkIfWeekInSchedule
  <2>4. ASSUME Rest(v) \/ Crash(v) PROVE Goal
    BY <2>4 DEF Rest, Crash, Stop
  <2>5. me[v].house # Null => me[v].house \in Houses
    BY DEF UserNode
  <2>6. ASSUME NEW h \in Houses, showCurrentTask(v, h) PROVE Goal
    BY <2>2, <2>6
  <2>. HIDE DEF Goal
  <2>7. ASSUME HomeAppeared(v) PROVE Goal
    BY <2>3, <2>4, <2>5, <2>7 DEF HomeAppeared
  <2>8. ASSUME HomeWeekSet(v) PROVE Goal
    BY <2>3, <2>4, <2>5, <2>8 DEF HomeWeekSet, HomeReloaded
  <2>9. ASSUME HomeScheduleRestarted(v) PROVE Goal
    BY <2>4, <2>5, <2>6, <2>9 DEF HomeScheduleRestarted, HomeReloaded
  <2>10. Goal
    BY <1>2, <2>7, <2>8, <2>9 DEF HomeHandlers
  <2> QED
    BY <2>10 DEF Goal
<1>3. CASE HomeTaps(v) \/ Lifecycle(v)
  <2>1. CASE DinnerSwitch(v)
    <3>1. CASE known[v]
      <4>1. PICK on \in BOOLEAN : Issue(v, <<SetDinner(v, on)>>)
        BY <2>1, <3>1 DEF DinnerSwitch
      <4>2. SetDinner(v, on) \in Puts /\ ~IsTenancy(SetDinner(v, on))
        BY DEF SetDinner, Puts, IsTenancy
      <4> QED
        BY <4>1, <4>2 DEF Issue
    <3>2. CASE ~known[v]
      BY <2>1, <3>2 DEF DinnerSwitch, Crash, Stop
    <3> QED
      BY <3>1, <3>2
  <2>2. CASE Refresh(v) \/ Lifecycle(v)
    BY <2>2 DEF Refresh, Lifecycle, Launch, LoseConnection, RegainConnection, Quit, Stop
  <2> QED
    BY <1>3, <2>1, <2>2 DEF HomeTaps
<1>4. CASE PickerLoaded(v) \/ ProfileLoaded(v) \/ Saved(v)
  BY <1>4 DEF PickerLoaded, ProfileLoaded, Saved, Rest
<1>5. ASSUME NEW h \in Houses, NEW pw \in Passwords, JoinHouse(v, h, pw) \/ CreateHouse(v, h, pw)
      PROVE  \/ uplink'[v] = << >>
             \/ uplink'[v] = uplink[v] \o JoinPuts(v, h)
             \/ uplink'[v] = uplink[v] \o CreatePuts(v, h, pw)
  BY <1>5 DEF JoinHouse, CreateHouse, SaveWithoutPicker, Move, Issue, Crash, Stop
<1>6. CASE Okay(v) \/ Back(v) \/ TabToProfile(v) \/ TabToHome(v) \/ PushPick(v) \/ PushNew(v)
  BY <1>6 DEF Okay, Back, TabToProfile, TabToHome, PushPick, PushNew, ShowProfile
<1>7. CASE \E h \in Houses, pw \in Passwords : JoinHouse(v, h, pw) \/ CreateHouse(v, h, pw)
  BY <1>5, <1>7
<1> QED
  BY <1>1, <1>2, <1>3, <1>4, <1>6, <1>7 DEF PhoneStep, Handle, Tap

LEMMA NeutralQueues ==
  ASSUME NEW q \in Seq(Puts), Neutral(q)
  PROVE  /\ q # << >> => Neutral(Tail(q))
         /\ \A p \in Puts : ~IsTenancy(p) => Neutral(q \o <<p>>)
<1>1. ASSUME q # << >> PROVE Neutral(Tail(q))
  <2>1. \A i \in 1 .. Len(Tail(q)) : Tail(q)[i] = q[i + 1] /\ i + 1 \in 1 .. Len(q)
    BY <1>1
  <2> QED
    BY <2>1 DEF Neutral
<1>2. ASSUME NEW p \in Puts, ~IsTenancy(p) PROVE Neutral(q \o <<p>>)
  <2>1. \A i \in 1 .. Len(q \o <<p>>) :
          \/ i \in 1 .. Len(q) /\ (q \o <<p>>)[i] = q[i]
          \/ (q \o <<p>>)[i] = p
    OBVIOUS
  <2> QED
    BY <1>2, <2>1 DEF Neutral
<1> QED
  BY <1>1, <1>2

-----------------------------------------------------------------------------
(* The writes of a move.                                                   *)

LEMMA PairOfPuts ==
  ASSUME NEW p \in Puts, NEW q \in Puts
  PROVE  \E t \in Seq(Puts) : t = <<p, q>> /\ Len(t) = 2 /\ t[1] = p /\ t[2] = q
<1>1. <<p, q>> \in Seq(Puts)
  OBVIOUS
<1> QED
  BY <1>1

\* A move is at most one removal, of the house left, and then writes that
\* list the user in the new one; one of them is of users/<uid>/house.
LEMMA MoveShape ==
  ASSUME DeviceTypeOK, NEW u \in Users, NEW h \in Houses, NEW pw \in Passwords,
         NEW r, r = JoinPuts(u, h) \/ r = CreatePuts(u, h, pw)
  PROVE  \E n \in {0, 1} :
           /\ n = 0 <=> me[u].house = Null
           /\ n = 1 => /\ Unlists(r[1], u) /\ ~Lists(r[1], u) /\ ~IsHome(r[1])
                       /\ r[1].house = me[u].house
           /\ \A i \in 1 .. Len(r) : i > n =>
                /\ ~Unlists(r[i], u)
                /\ Lists(r[i], u) \/ IsHome(r[i]) => r[i].house = h
           /\ \E i \in 1 .. Len(r) : IsHome(r[i])
           /\ \A i \in 1 .. Len(r) : OwnPut(r[i], u)
           /\ r \in Seq(Puts)
<1>. DEFINE home == SetHome(u, h)
            join == SetResident(h, u, TRUE)
            made == SetHouse(h, NewHouse(u, pw))
            drinks == SetDrinks(u, 0)
            buy == SetDrinksToBuy(u, 0)
<1>1. /\ IsHome(home) /\ ~Unlists(home, u) /\ home.house = h /\ OwnPut(home, u)
      /\ \A p \in {join, made} : ~Unlists(p, u) /\ p.house = h /\ OwnPut(p, u)
      /\ \A p \in {drinks, buy} : /\ ~IsHome(p) /\ ~Unlists(p, u) /\ ~Lists(p, u)
                                  /\ OwnPut(p, u)
  BY DEF SetHome, SetResident, SetHouse, NewHouse, SetDrinks, SetDrinksToBuy,
         IsHome, Lists, Unlists, OwnPut
<1>2. /\ {home, join, made, drinks, buy} \subseteq Puts
      /\ LeavePuts(u) \in Seq(Puts)
  BY MovePutsTyped
<1>3. PICK a, b : /\ {a, b} \subseteq {home, join, made} /\ home \in {a, b}
                  /\ r = (LeavePuts(u) \o <<a, b>>) \o <<drinks, buy>>
  BY DEF JoinPuts, CreatePuts, ClearDrinks
<1>. HIDE DEF home, join, made, drinks, buy
<1>4. \A p \in {a, b, drinks, buy} :
        /\ ~Unlists(p, u) /\ OwnPut(p, u)
        /\ Lists(p, u) \/ IsHome(p) => p.house = h
  BY <1>1, <1>3
<1>5. IsHome(a) \/ IsHome(b)
  BY <1>1, <1>3
<1>6. PICK s \in Seq(Puts) : s = LeavePuts(u)
  BY <1>2
<1>7. PICK t \in Seq(Puts) : t = <<a, b>> /\ Len(t) = 2 /\ t[1] = a /\ t[2] = b
  <2>1. a \in Puts /\ b \in Puts
    BY <1>2, <1>3
  <2> QED
    BY <2>1, PairOfPuts
<1>8. PICK w \in Seq(Puts) : /\ w = <<drinks, buy>> /\ Len(w) = 2
                              /\ w[1] = drinks /\ w[2] = buy
  <2>1. drinks \in Puts /\ buy \in Puts
    BY <1>2
  <2> QED
    BY <2>1, PairOfPuts
<1>9. /\ Len(t) = 2 /\ t[1] = a /\ t[2] = b
      /\ Len(w) = 2 /\ w[1] = drinks /\ w[2] = buy
  BY <1>7, <1>8
<1>10. PICK x \in Seq(Puts) : x = s \o t
  BY ConcatIndex
<1>11. /\ Len(s) \in Nat /\ Len(x) = Len(s) + Len(t)
       /\ \A i \in 1 .. Len(s) : i \in 1 .. Len(x) /\ x[i] = s[i]
       /\ \A j \in 1 .. Len(t) : j + Len(s) \in 1 .. Len(x) /\ x[j + Len(s)] = t[j]
       /\ \A i \in 1 .. Len(x) : i \notin 1 .. Len(s) =>
            i - Len(s) \in 1 .. Len(t) /\ x[i] = t[i - Len(s)]
  BY <1>10, ConcatIndex
<1>12. r = x \o w
  BY <1>3, <1>6, <1>7, <1>8, <1>10
<1>13. /\ r \in Seq(Puts)
       /\ \A i \in 1 .. Len(x) : i \in 1 .. Len(r) /\ r[i] = x[i]
       /\ \A i \in 1 .. Len(r) : i \notin 1 .. Len(x) => r[i] \in {drinks, buy}
  <2>1. /\ r \in Seq(Puts)
        /\ \A i \in 1 .. Len(x) : i \in 1 .. Len(r) /\ r[i] = x[i]
        /\ \A i \in 1 .. Len(r) : i \notin 1 .. Len(x) =>
             i - Len(x) \in 1 .. Len(w) /\ r[i] = w[i - Len(x)]
    BY <1>12, ConcatIndex
  <2>2. \A j \in 1 .. Len(w) : w[j] \in {drinks, buy}
    BY <1>9
  <2> QED
    BY <2>1, <2>2
<1>14. \A i \in 1 .. Len(r) : \/ i \in 1 .. Len(s) /\ r[i] = s[i]
                              \/ r[i] \in {a, b, drinks, buy}
  BY <1>9, <1>11, <1>13
<1>15. \E i \in 1 .. Len(r) : IsHome(r[i])
  <2>1. /\ 1 + Len(s) \in 1 .. Len(r) /\ r[1 + Len(s)] = a
        /\ 2 + Len(s) \in 1 .. Len(r) /\ r[2 + Len(s)] = b
    BY <1>9, <1>11, <1>13
  <2> QED
    BY <1>5, <2>1
<1>16. CASE me[u].house = Null
  <2>1. s = << >>
    BY <1>6, <1>16 DEF LeavePuts
  <2>2. \A i \in 1 .. Len(r) : r[i] \in {a, b, drinks, buy}
    BY <1>14, <2>1
  <2>3. \A i \in 1 .. Len(r) : /\ ~Unlists(r[i], u) /\ OwnPut(r[i], u)
                               /\ Lists(r[i], u) \/ IsHome(r[i]) => r[i].house = h
    BY <1>4, <2>2
  <2> QED
    BY <1>13, <1>15, <1>16, <2>3
<1>17. CASE me[u].house # Null
  <2>1. PICK l : /\ LeavePuts(u) = <<l>>
                 /\ \/ l = SetResident(me[u].house, u, FALSE)
                    \/ l = SetHouse(me[u].house, NoHouse)
    BY <1>17 DEF LeavePuts
  <2>2. /\ Unlists(l, u) /\ ~Lists(l, u) /\ ~IsHome(l)
        /\ l.house = me[u].house /\ OwnPut(l, u)
    BY <2>1 DEF SetResident, SetHouse, NoHouse, IsHome, Lists, Unlists, OwnPut
  <2>3. Len(s) = 1 /\ s[1] = l
    BY <1>6, <2>1
  <2>4. r[1] = l
    BY <1>11, <1>13, <2>3
  <2>5. \A i \in 1 .. Len(r) : i = 1 \/ r[i] \in {a, b, drinks, buy}
    BY <1>14, <2>3
  <2>6. \A i \in 1 .. Len(r) : i > 1 => r[i] \in {a, b, drinks, buy}
    BY <2>5
  <2>7. \A i \in 1 .. Len(r) : OwnPut(r[i], u)
    BY <1>4, <2>2, <2>4, <2>5
  <2>8. \A i \in 1 .. Len(r) : i > 1 =>
          /\ ~Unlists(r[i], u)
          /\ Lists(r[i], u) \/ IsHome(r[i]) => r[i].house = h
    BY <1>4, <2>6
  <2>9. /\ Unlists(r[1], u) /\ ~Lists(r[1], u) /\ ~IsHome(r[1])
        /\ r[1].house = me[u].house
    BY <2>2, <2>4
  <2>10. r \in Seq(Puts)
    BY <1>13
  <2> QED
    BY <1>15, <1>17, <2>7, <2>8, <2>9, <2>10
<1> QED
  BY <1>16, <1>17

LEMMA MoveIsTidy ==
  ASSUME DeviceTypeOK, NEW u \in Users, NEW h \in Houses, NEW pw \in Passwords,
         NEW r, r = JoinPuts(u, h) \/ r = CreatePuts(u, h, pw),
         NEW L \in SUBSET Houses, L \subseteq {me[u].house}
  PROVE  Tidy(u, r, me[u].house, L) /\ Leaving(u, r, me[u].house)
<1>1. PICK n \in {0, 1} :
        /\ n = 0 <=> me[u].house = Null
        /\ n = 1 => /\ Unlists(r[1], u) /\ ~Lists(r[1], u) /\ ~IsHome(r[1])
                    /\ r[1].house = me[u].house
        /\ \A i \in 1 .. Len(r) : i > n =>
             /\ ~Unlists(r[i], u)
             /\ Lists(r[i], u) \/ IsHome(r[i]) => r[i].house = h
        /\ \E i \in 1 .. Len(r) : IsHome(r[i])
        /\ r \in Seq(Puts)
  BY MoveShape
<1>2. Len(r) \in Nat /\ \A i \in 1 .. Len(r) : (i = 1 /\ n = 1) \/ i > n
  BY <1>1
<1>3. Aim(r, me[u].house, h)
  BY <1>1, <1>2 DEF Aim
<1>4. \A i, j \in 1 .. Len(r) : Unlists(r[i], u) /\ Lists(r[j], u) => i < j
  BY <1>1, <1>2
<1>5. \A i \in 1 .. Len(r) : Unlists(r[i], u) => L \subseteq {r[i].house}
  BY <1>1, <1>2
<1>6. \A i \in 1 .. Len(r) : Lists(r[i], u) => r[i].house = h
  BY <1>1, <1>2
<1>7. (\A i \in 1 .. Len(r) : ~Unlists(r[i], u)) => L = {}
  <2>1. CASE n = 0
    BY <1>1, <2>1, NamesAssumption
  <2>2. CASE n = 1
    BY <1>1, <2>2
  <2> QED
    BY <2>1, <2>2
<1>8. Leaving(u, r, me[u].house)
  BY <1>1, <1>2 DEF Leaving
<1> QED
  BY <1>3, <1>4, <1>5, <1>6, <1>7, <1>8 DEF Tidy

\* Only a phone's own writes are in its queue, whatever the phones do.
LEMMA OwnedKept ==
  ASSUME TypeOK, Owned, NEW v \in Users, PhoneStep(v)
  PROVE  Owned'
<1>1. \A w \in Users : w # v => uplink'[w] = uplink[w]
  BY StepsAreLocal DEF Elsewhere
<1>2. uplink[v] \in Seq(Puts)
  BY DEF TypeOK, DeviceTypeOK
<1>3. \A i \in 1 .. Len(uplink[v]) : OwnPut(uplink[v][i], v)
  BY DEF Owned
<1>. DEFINE q == uplink[v]
            AllOwn(s) == \A i \in 1 .. Len(s) : OwnPut(s[i], v)
<1>4. CASE uplink'[v] = q
  BY <1>1, <1>4 DEF Owned
<1>5. CASE uplink'[v] = << >>
  BY <1>1, <1>5 DEF Owned
<1>6. CASE q # << >> /\ uplink'[v] = Tail(q)
  <2>1. \A i \in 1 .. Len(Tail(q)) : Tail(q)[i] = q[i + 1] /\ i + 1 \in 1 .. Len(q)
    BY <1>2, <1>6
  <2>2. AllOwn(Tail(q))
    BY <1>3, <2>1
  <2> QED
    BY <1>1, <1>6, <2>2 DEF Owned
<1>7. ASSUME NEW s \in Seq(Puts), AllOwn(s), uplink'[v] = q \o s
      PROVE  Owned'
  <2>1. \A i \in 1 .. Len(q \o s) :
          \/ i \in 1 .. Len(q) /\ (q \o s)[i] = q[i]
          \/ i - Len(q) \in 1 .. Len(s) /\ (q \o s)[i] = s[i - Len(q)]
    BY <1>2, ConcatIndex
  <2>. HIDE DEF q
  <2>2. AllOwn(q \o s)
    BY <1>3, <1>7, <2>1 DEF q
  <2> QED
    BY <1>1, <1>7, <2>2 DEF Owned
<1>8. CASE \E p \in Puts : ~IsTenancy(p) /\ uplink'[v] = q \o <<p>>
  <2>1. PICK p \in Puts : ~IsTenancy(p) /\ uplink'[v] = q \o <<p>>
    BY <1>8
  <2>2. <<p>> \in Seq(Puts) /\ AllOwn(<<p>>)
    BY <2>1 DEF IsTenancy, OwnPut
  <2> QED
    BY <1>7, <2>1, <2>2
<1>9. CASE \E h \in Houses, pw \in Passwords :
             \E r \in {JoinPuts(v, h), CreatePuts(v, h, pw)} : uplink'[v] = q \o r
  <2>0. PICK h \in Houses, pw \in Passwords :
          \E r \in {JoinPuts(v, h), CreatePuts(v, h, pw)} : uplink'[v] = q \o r
    BY <1>9
  <2>1. PICK r \in {JoinPuts(v, h), CreatePuts(v, h, pw)} : uplink'[v] = q \o r
    BY <2>0
  <2>2. r \in Seq(Puts) /\ AllOwn(r)
    BY MoveShape DEF TypeOK
  <2> QED
    BY <1>7, <2>1, <2>2
<1> QED
  BY <1>4, <1>5, <1>6, <1>8, <1>9, QueueSteps

-----------------------------------------------------------------------------
(* A reliable user's own phone: it applies a write, starts a move, or does *)
(* what leaves all in order.                                               *)

Plain(u) ==
  /\ HomesStay /\ UNCHANGED online
  /\ Neutral(uplink[u]) /\ Neutral(uplink'[u])
  /\ Fresh(u)' => me'[u].house = users[u].house
  /\ users[u].house = Null => me'[u].house = Null

Moves(u) ==
  /\ UNCHANGED <<database, online>>
  /\ Neutral(uplink[u]) /\ me[u].house = users[u].house
  /\ \E h \in Houses, pw \in Passwords :
       \E r \in {JoinPuts(u, h), CreatePuts(u, h, pw)} : uplink'[u] = uplink[u] \o r
  /\ phase'[u] = "loading" /\ asked'[u] = {"users", "houses"} /\ me' = me

LEMMA StopIsPlain ==
  ASSUME TypeOK, NEW u \in Users, Neutral(uplink[u]), HomesStay, UNCHANGED online,
         NEW how \in {"off", "crashed"}, Stop(u, how)
  PROVE  Plain(u)
<1>1. uplink'[u] = << >> /\ phase'[u] = how /\ me'[u] = NoUser
  BY DEF Stop, TypeOK, DeviceTypeOK
<1>2. Neutral(uplink'[u])
  BY <1>1 DEF Neutral
<1>3. ~Fresh(u)'
  BY <1>1 DEF Fresh
<1> QED
  BY <1>1, <1>2, <1>3 DEF Plain, NoUser

LEMMA LoadIsPlain ==
  ASSUME TypeOK, NEW u \in Users, Faithful(u), Neutral(uplink[u]), Neutral(uplink'[u]),
         UNCHANGED <<database, online, me>>, NEW next, GetAllData(u, next)
  PROVE  Plain(u)
<1>1. phase'[u] = "loading" /\ asked'[u] = {"users", "houses"}
  BY DEF GetAllData, TypeOK, DeviceTypeOK, Faithful
<1> QED
  BY <1>1 DEF Plain, Fresh, Faithful, HomesStay, database

LEMMA RestIsPlain ==
  ASSUME TypeOK, NEW u \in Users, Faithful(u), Neutral(uplink[u]), Neutral(uplink'[u]),
         UNCHANGED <<database, online, me>>, Fresh(u)
  PROVE  Plain(u)
BY DEF Plain, Faithful, HomesStay, database

LEMMA OwnSteps ==
  ASSUME TypeOK, NEW u \in Reliable, Faithful(u), PhoneStep(u)
  PROVE  \/ ApplyPut(u) /\ UNCHANGED <<online, phase, asked, me>>
         \/ Plain(u)
         \/ Moves(u)
<1>. u \in Users /\ u \notin Killable /\ u \notin Offline
  BY DEF Reliable
<1>1. uplink[u] \in Seq(Puts)
  BY DEF TypeOK, DeviceTypeOK
<1>2. /\ uplink[u] = << >> => Neutral(uplink[u])
      /\ phase[u] # "loading" => Neutral(uplink[u])
      /\ asked[u] = {} => Neutral(uplink[u])
  BY DEF Faithful, Neutral
<1>3. Ready(u, screen[u]) => Fresh(u)
  BY DEF Ready, Fresh
<1>4. \A step : Loaded(u, step) => Fresh(u) /\ Neutral(uplink[u])
  BY <1>2 DEF Loaded, Fresh
<1>5. ASSUME Neutral(uplink[u]), NEW p \in Puts, ~IsTenancy(p), Issue(u, <<p>>)
      PROVE  Neutral(uplink'[u])
  <2>1. uplink'[u] = uplink[u] \o <<p>>
    BY <1>5 DEF Issue, TypeOK, DeviceTypeOK
  <2> QED
    BY <1>1, <1>5, <2>1, NeutralQueues
<1>6. CASE Serve(u)
  <2>1. CASE ApplyPut(u)
    BY <2>1 DEF ApplyPut, memory
  <2>2. CASE ServeUsers(u)
    <3>1. /\ uplink[u] = << >> /\ Answer(u).users = users
          /\ UNCHANGED <<online, uplink>> /\ HomesStay
      BY <2>2, ConnectedAnswer DEF ServeUsers, HomesStay, database
    <3>2. me'[u].house = IF users[u].house = Null THEN me[u].house ELSE users[u].house
      BY <2>2, <3>1 DEF ServeUsers, TypeOK, DeviceTypeOK, UserNode
    <3>3. me'[u].house = users[u].house
      BY <3>2 DEF Faithful
    <3> QED
      BY <1>2, <3>1, <3>3 DEF Plain
  <2>3. CASE ServeHouses(u)
    <3>1. uplink[u] = << >> /\ UNCHANGED online /\ HomesStay
      BY <2>3, ConnectedAnswer DEF ServeHouses, HomesStay, database
    <3>2. CASE Crash(u)
      BY <1>2, <3>1, <3>2, StopIsPlain DEF Crash
    <3>3. CASE ~Crash(u)
      <4>1. /\ asked' = [asked EXCEPT ![u] = @ \ {"houses"}]
            /\ phase' = [phase EXCEPT ![u] = IF Answer(u).houses = NoHouses THEN "frozen" ELSE @]
            /\ UNCHANGED <<uplink, me>>
        BY <2>3, <3>3 DEF ServeHouses
      <4>2. Fresh(u)' => Fresh(u)
        BY <4>1 DEF Fresh, TypeOK, DeviceTypeOK
      <4> QED
        BY <1>2, <3>1, <4>1, <4>2 DEF Plain, Faithful
    <3> QED
      BY <3>2, <3>3
  <2> QED
    BY <1>6, <2>1, <2>2, <2>3 DEF Serve, Background
<1>7. CASE HomeHandlers(u)
  <2>1. Fresh(u) /\ Neutral(uplink[u]) /\ UNCHANGED <<database, online>>
    BY <1>4, <1>7 DEF HomeHandlers, HomeAppeared, HomeWeekSet, HomeScheduleRestarted, HomeReloaded
  <2>2. ASSUME Rest(u), UNCHANGED me PROVE Plain(u)
    BY <2>1, <2>2, RestIsPlain DEF Rest
  <2>3. ASSUME Crash(u) PROVE Plain(u)
    BY <2>1, <2>3, StopIsPlain DEF Crash, HomesStay, database
  <2>4. ASSUME NEW h \in Houses, NEW next, RestartSchedule(u, h, next) PROVE Plain(u)
    <3>. DEFINE p == SetFirstWeek(h, getCurrentWeek)
    <3>1. getCurrentWeek \in Int
      BY DeviceAssumption DEF getCurrentWeek, TypeOK, DeviceTypeOK
    <3>2. p \in Puts /\ ~IsTenancy(p)
      BY <3>1 DEF SetFirstWeek, Puts, IsTenancy
    <3>3. Neutral(uplink'[u])
      BY <1>5, <2>1, <2>4, <3>2 DEF RestartSchedule
    <3> QED
      BY <2>1, <2>4, <3>3, LoadIsPlain DEF RestartSchedule
  <2>5. ASSUME NEW h \in Houses, showCurrentTask(u, h) PROVE Plain(u)
    BY <2>2, <2>3, <2>5 DEF showCurrentTask
  <2>6. ASSUME NEW h \in Houses, checkForEndOfYear(u, h) \/ checkIfWeekInSchedule(u, h)
        PROVE  Plain(u)
    BY <2>4, <2>5, <2>6 DEF checkForEndOfYear, checkIfWeekInSchedule
  <2>7. me[u].house # Null => me[u].house \in Houses
    BY DEF TypeOK, DeviceTypeOK, UserNode
  <2>8. ASSUME HomeAppeared(u) PROVE Plain(u)
    BY <2>2, <2>6, <2>7, <2>8 DEF HomeAppeared
  <2>9. ASSUME HomeWeekSet(u) PROVE Plain(u)
    BY <2>3, <2>6, <2>7, <2>9 DEF HomeWeekSet, HomeReloaded
  <2>10. ASSUME HomeScheduleRestarted(u) PROVE Plain(u)
    BY <2>3, <2>5, <2>7, <2>10 DEF HomeScheduleRestarted, HomeReloaded
  <2> QED
    BY <1>7, <2>8, <2>9, <2>10 DEF HomeHandlers
<1>8. CASE HomeTaps(u) \/ Lifecycle(u)
  <2>1. CASE Refresh(u)
    <3>1. phase[u] = "ready" /\ UNCHANGED <<database, uplink, online, me>>
      BY <2>1 DEF Refresh, Ready
    <3> QED
      BY <1>2, <2>1, <3>1, LoadIsPlain DEF Refresh
  <2>2. CASE DinnerSwitch(u)
    <3>1. /\ Neutral(uplink[u]) /\ Fresh(u)
          /\ UNCHANGED online
      BY <1>2, <2>2 DEF DinnerSwitch, Ready, Fresh
    <3>2. CASE known[u]
      <4>1. PICK on \in BOOLEAN : Issue(u, <<SetDinner(u, on)>>)
        BY <2>2, <3>2 DEF DinnerSwitch
      <4>2. SetDinner(u, on) \in Puts /\ ~IsTenancy(SetDinner(u, on))
        BY DEF SetDinner, Puts, IsTenancy
      <4>3. Neutral(uplink'[u])
        BY <1>5, <3>1, <4>1, <4>2
      <4>4. UNCHANGED <<me, database>>
        BY <2>2, <3>2 DEF DinnerSwitch, memory
      <4> QED
        BY <3>1, <4>3, <4>4, RestIsPlain
    <3>3. CASE ~known[u]
      <4>1. PICK on \in BOOLEAN : LastWrite(u, SetDinner(u, on)) /\ Crash(u)
        BY <2>2, <3>3 DEF DinnerSwitch
      <4>2. HomesStay
        BY <4>1, LastWriteTyped DEF TypeOK, HomesStay
      <4> QED
        BY <3>1, <4>1, <4>2, StopIsPlain DEF Crash
    <3> QED
      BY <3>2, <3>3
  <2>3. CASE Launch(u)
    <3>1. phase[u] # "loading" /\ UNCHANGED <<database, uplink, online, me>>
      BY <2>3 DEF Launch, Running
    <3> QED
      BY <1>2, <2>3, <3>1, LoadIsPlain DEF Launch
  <2>4. CASE Quit(u)
    BY <1>2, <2>4, StopIsPlain DEF Quit, HomesStay, database
  <2>5. ~LoseConnection(u) /\ ~RegainConnection(u)
    BY DEF LoseConnection, RegainConnection, Faithful
  <2> QED
    BY <1>8, <2>1, <2>2, <2>3, <2>4, <2>5 DEF HomeTaps, Lifecycle
<1>9. CASE PickerLoaded(u) \/ ProfileLoaded(u) \/ Saved(u)
  <2>1. Fresh(u) /\ Neutral(uplink[u]) /\ UNCHANGED <<database, uplink, online, me>>
    BY <1>4, <1>9 DEF PickerLoaded, ProfileLoaded, Saved, Rest, memory
  <2> QED
    BY <2>1, RestIsPlain
<1>10. ASSUME NEW h \in Houses, NEW pw \in Passwords, JoinHouse(u, h, pw) \/ CreateHouse(u, h, pw)
       PROVE  Plain(u) \/ Moves(u)
  <2>1. /\ Neutral(uplink[u]) /\ me[u].house = users[u].house
        /\ UNCHANGED <<database, online>>
    BY <1>2, <1>10
    DEF JoinHouse, CreateHouse, Ready, Fresh, Faithful, Move, SaveWithoutPicker
  <2>2. CASE Crash(u)
    BY <2>1, <2>2, StopIsPlain DEF Crash, HomesStay, database
  <2>3. CASE ~Crash(u)
    <3>1. PICK r \in {JoinPuts(u, h), CreatePuts(u, h, pw)}, step \in {"joined", "created"} :
            Move(u, r, step, h)
      BY <1>10, <2>3 DEF JoinHouse, CreateHouse, SaveWithoutPicker
    <3>2. Issue(u, r) /\ GetAllData(u, [step |-> step, house |-> h]) /\ me' = me
      BY <2>3, <3>1 DEF Move
    <3>3. uplink'[u] = uplink[u] \o r
      BY <3>2 DEF Issue, TypeOK, DeviceTypeOK
    <3>4. phase'[u] = "loading" /\ asked'[u] = {"users", "houses"}
      BY <3>2 DEF GetAllData, TypeOK, DeviceTypeOK, Faithful
    <3> QED
      BY <2>1, <3>2, <3>3, <3>4 DEF Moves
  <2> QED
    BY <2>2, <2>3
<1>11. CASE Okay(u) \/ Back(u) \/ TabToProfile(u) \/ TabToHome(u) \/ PushPick(u) \/ PushNew(u)
  <2>1. /\ phase[u] \in {"ready", "alert"} /\ UNCHANGED <<database, uplink, online, me>>
    BY <1>11 DEF Okay, Back, TabToProfile, TabToHome, PushPick, PushNew, ShowProfile, Ready, memory
  <2>2. Fresh(u) /\ Neutral(uplink[u])
    BY <1>2, <2>1 DEF Fresh
  <2> QED
    BY <2>1, <2>2, RestIsPlain
<1> QED
  BY <1>6, <1>7, <1>8, <1>9, <1>10, <1>11 DEF PhoneStep, Handle, Tap

-----------------------------------------------------------------------------
(* Tenure is an invariant.                                                 *)

LEMMA LivesInHouses == ASSUME NEW u PROVE LivesIn(u) \subseteq Houses
BY DEF LivesIn

\* The steps of the user's own phone.
LEMMA OwnStepKeepsFaithful ==
  ASSUME TypeOK, Owned, NEW u \in Reliable, Faithful(u), PhoneStep(u)
  PROVE  Faithful(u)'
<1>. DEFINE q == uplink[u]
            home == users[u].house
            L == LivesIn(u)
<1>0. u \in Users /\ q \in Seq(Puts)
  BY DEF Reliable, TypeOK, DeviceTypeOK
<1>1. CASE ApplyPut(u) /\ UNCHANGED <<online, phase, asked, me>>
  <2>1. q # << >> /\ uplink'[u] = Tail(q) /\ Head(q) \in Puts /\ Tail(q) \in Seq(Puts)
    BY <1>0, <1>1 DEF ApplyPut, TypeOK, DeviceTypeOK
  <2>2. OwnPut(Head(q), u)
    BY <1>0, <2>1 DEF Owned
  <2>3. users' = UsersAfter(users, Head(q)) /\ houses' = HousesAfter(houses, Head(q))
    BY <1>1 DEF ApplyPut
  <2>. HIDE DEF q
  <2>4. /\ users'[u].house = IF IsHome(Head(q)) THEN Head(q).house ELSE home
        /\ Lists(Head(q), u) => LivesIn(u)' \subseteq L \cup {Head(q).house}
        /\ Unlists(Head(q), u) => LivesIn(u)' \subseteq L \ {Head(q).house}
        /\ ~Lists(Head(q), u) => LivesIn(u)' \subseteq L
    BY <1>0, <2>1, <2>2, <2>3, PutsMoveOwner DEF TypeOK
  <2>5. Tidy(u, q, home, L)
    BY DEF Faithful, q
  <2>6. Tidy(u, Tail(q), users'[u].house, LivesIn(u)')
    BY <1>0, <2>1, <2>4, <2>5, TidyPops
  <2>12. Leaving(u, Tail(q), users'[u].house)
    <3>1. Leaving(u, q, home)
      BY DEF Faithful, q
    <3> QED
      BY <1>0, <2>1, <2>4, <3>1, LeavingPops
  <2>7. (~Neutral(q) => phase[u] = "loading" /\ asked[u] = {"users", "houses"})
    BY DEF Faithful, q
  <2>8. ~Neutral(Tail(q)) => phase'[u] = "loading" /\ asked'[u] = {"users", "houses"}
    BY <1>0, <1>1, <2>1, <2>7, NeutralQueues
  <2>9. IsHome(Head(q)) => ~Neutral(q)
    BY <1>0, <2>1 DEF Neutral, IsHome, IsTenancy
  <2>10. Fresh(u)' => me'[u].house = users'[u].house
    <3>1. CASE IsHome(Head(q))
      BY <1>1, <2>7, <2>9, <3>1 DEF Fresh
    <3>2. CASE ~IsHome(Head(q))
      BY <1>1, <2>4, <3>2 DEF Fresh, Faithful
    <3> QED
      BY <3>1, <3>2
  <2>11. users'[u].house = Null => me'[u].house = Null
    <3>1. CASE IsHome(Head(q))
      <4>1. Head(q).house \in Houses
        BY <2>1, <3>1 DEF Puts, IsHome
      <4> QED
        BY <2>4, <3>1, <4>1, NamesAssumption
    <3>2. CASE ~IsHome(Head(q))
      BY <1>1, <2>4, <3>2 DEF Faithful
    <3> QED
      BY <3>1, <3>2
  <2> QED
    BY <1>1, <2>1, <2>6, <2>8, <2>10, <2>11, <2>12 DEF Faithful, q
<1>2. ASSUME HomesStay, UNCHANGED online
      PROVE  users'[u].house = home /\ LivesIn(u)' = L /\ online'[u]
  BY <1>0, <1>2 DEF HomesStay, LivesIn, Faithful
<1>3. CASE Plain(u)
  <2>1. /\ users'[u].house = home /\ LivesIn(u)' = L /\ online'[u]
        /\ Neutral(q) /\ Neutral(uplink'[u])
        /\ Fresh(u)' => me'[u].house = users[u].house
        /\ users[u].house = Null => me'[u].house = Null
    BY <1>2, <1>3 DEF Plain
  <2>2. uplink'[u] \in Seq(Puts)
    <3>1. TypeOK'
      BY PhoneStepTyped, <1>0
    <3> QED
      BY <1>0, <3>1 DEF TypeOK, DeviceTypeOK
  <2>3. L \subseteq {home}
    BY <1>0, <2>1, TidyWhenNeutral DEF Faithful
  <2>4. Tidy(u, uplink'[u], home, L)
    BY <2>1, <2>2, <2>3, TidyWhenNeutral
  <2>5. Leaving(u, uplink'[u], home)
    BY <2>1, LeavingWhenNeutral
  <2> QED
    BY <2>1, <2>4, <2>5 DEF Faithful
<1>4. CASE Moves(u)
  <2>1. /\ users'[u].house = home /\ LivesIn(u)' = L /\ online'[u]
        /\ Neutral(q) /\ me[u].house = home /\ me' = me
        /\ phase'[u] = "loading" /\ asked'[u] = {"users", "houses"}
    BY <1>2, <1>4 DEF Moves, HomesStay, database
  <2>2. PICK h \in Houses, pw \in Passwords :
          \E r \in {JoinPuts(u, h), CreatePuts(u, h, pw)} : uplink'[u] = q \o r
    BY <1>4 DEF Moves
  <2>3. PICK r \in {JoinPuts(u, h), CreatePuts(u, h, pw)} : uplink'[u] = q \o r
    BY <2>2
  <2>4. L \subseteq {home}
    BY <1>0, <2>1, TidyWhenNeutral DEF Faithful
  <2>5. r \in Seq(Puts)
    BY <1>0, MovePutsTyped DEF TypeOK
  <2>6. Tidy(u, r, home, L) /\ Leaving(u, r, home)
    BY <1>0, <2>1, <2>4, LivesInHouses, MoveIsTidy DEF TypeOK
  <2>7. Tidy(u, q \o r, home, L) /\ Leaving(u, q \o r, home)
    BY <1>0, <2>1, <2>5, <2>6, TidyPrefixed, LeavingPrefixed
  <2>8. ~Fresh(u)'
    BY <2>1 DEF Fresh
  <2> QED
    BY <2>1, <2>3, <2>7, <2>8 DEF Faithful
<1> QED
  BY <1>1, <1>3, <1>4, OwnSteps

\* The steps of the other phones: they move no other user in, and write no
\* other user's home.
LEMMA OtherStepIsElsewhere ==
  ASSUME TypeOK, Owned, NEW u \in Users, NEW v \in Users, v # u, PhoneStep(v)
  PROVE  /\ Elsewhere(u)
         /\ users'[u].house = users[u].house
         /\ LivesIn(u)' \subseteq LivesIn(u)
<1>1. Elsewhere(u) /\ (HomesStay \/ ApplyPut(v))
  BY StepsAreLocal
<1>2. CASE HomesStay
  BY <1>1, <1>2 DEF HomesStay, LivesIn
<1>3. CASE ApplyPut(v)
  <2>1. /\ uplink[v] \in Seq(Puts) /\ uplink[v] # << >>
        /\ users' = UsersAfter(users, Head(uplink[v]))
        /\ houses' = HousesAfter(houses, Head(uplink[v]))
    BY <1>3 DEF ApplyPut, TypeOK, DeviceTypeOK
  <2>2. Head(uplink[v]) \in Puts /\ OwnPut(Head(uplink[v]), v)
    BY <2>1 DEF Owned
  <2> QED
    BY <1>1, <2>1, <2>2, PutsMoveOwner DEF TypeOK
<1> QED
  BY <1>1, <1>2, <1>3

LEMMA OtherStepKeepsFaithful ==
  ASSUME TypeOK, Owned, NEW u \in Reliable, Faithful(u), NEW v \in Users, v # u, PhoneStep(v)
  PROVE  Faithful(u)'
<1>1. u \in Users
  BY DEF Reliable
<1>2. Elsewhere(u) /\ users'[u].house = users[u].house /\ LivesIn(u)' \subseteq LivesIn(u)
  BY <1>1, OtherStepIsElsewhere
<1>3. Tidy(u, uplink[u], users[u].house, LivesIn(u)')
  BY <1>2, TidyShrinks DEF Faithful
<1> QED
  BY <1>2, <1>3 DEF Elsewhere, Faithful, Fresh

\* At the start nothing is queued and everybody is listed only at home.
LEMMA InitTenure ==
  ASSUME Init
  PROVE  Tenure
<1>1. /\ uplink = [u \in Users |-> << >>]
      /\ online = [u \in Users |-> TRUE]
      /\ phase = [u \in Users |-> "off"]
      /\ me = [u \in Users |-> NoUser]
  BY DEF Init, HomeInit, DeviceInit
<1>2. PICK homes \in InitialHomes :
        /\ users = [u \in Users |-> [NoUser EXCEPT !.house = homes[u]]]
        /\ houses = [h \in Houses |-> InitialHouse(homes, h)]
  BY DEF Init, HomeInit, DeviceInit
<1>3. Owned
  BY <1>1 DEF Owned
<1>4. ASSUME NEW u \in Reliable PROVE Faithful(u)
  <2>0. u \in Users
    BY DEF Reliable
  <2>1. users[u].house = homes[u]
    BY <1>2, <2>0 DEF NoUser
  <2>2. LivesIn(u) \subseteq {homes[u]}
    BY <1>2 DEF LivesIn, InitialHouse, NoHouse
  <2>3. uplink[u] = << >> /\ Neutral(uplink[u]) /\ uplink[u] \in Seq(Puts)
    BY <1>1, <2>0 DEF Neutral
  <2>4. Tidy(u, uplink[u], users[u].house, LivesIn(u))
    <3>1. \A q \in Seq(Puts) : \A home, L :
            Neutral(q) /\ L \subseteq {home} => Tidy(u, q, home, L)
      BY TidyWhenNeutral
    <3> QED
      BY <2>1, <2>2, <2>3, <3>1
  <2>5. Leaving(u, uplink[u], users[u].house)
    BY <2>3, LeavingWhenNeutral
  <2> QED
    BY <1>1, <2>0, <2>3, <2>4, <2>5 DEF Faithful, Fresh, NoUser
<1> QED
  BY <1>3, <1>4 DEF Tenure

LEMMA NextKeepsTenure ==
  ASSUME TypeOK, Tenure, [Next]_vars
  PROVE  Tenure'
<1>1. CASE UNCHANGED vars
  BY <1>1 DEF vars, homeVars, deviceVars, Tenure, Owned, Faithful, Fresh, LivesIn
<1>2. CASE Calendar
  BY <1>2 DEF Calendar, NewWeek, database, memory, Tenure, Owned, Faithful, Fresh, LivesIn
<1>3. CASE \E v \in Users : PhoneStep(v)
  <2>1. PICK v \in Users : PhoneStep(v)
    BY <1>3
  <2>2. Owned'
    BY <2>1, OwnedKept DEF Tenure
  <2>3. ASSUME NEW u \in Reliable PROVE Faithful(u)'
    <3>1. CASE u = v
      BY <2>1, <3>1, OwnStepKeepsFaithful DEF Tenure
    <3>2. CASE u # v
      BY <2>1, <3>2, OtherStepKeepsFaithful DEF Tenure
    <3> QED
      BY <3>1, <3>2
  <2> QED
    BY <2>2, <2>3 DEF Tenure
<1> QED
  BY <1>1, <1>2, <1>3 DEF Next

THEOREM TenureInvariant == Spec => []Tenure
<1>1. Init => Tenure
  BY InitTenure
<1>2. TypeOK /\ Tenure /\ [Next]_vars => Tenure'
  BY NextKeepsTenure
<1> QED
  BY <1>1, <1>2, TypeCorrect, PTL DEF Spec

\* A tidy queue lists its user once.
LEMMA TidyListsOnce ==
  ASSUME NEW u, NEW q \in Seq(Puts), NEW home, NEW L, Tidy(u, q, home, L),
         NEW g \in L, NEW h \in L
  PROVE  g = h
<1>1. CASE \E i \in 1 .. Len(q) : Unlists(q[i], u)
  BY <1>1 DEF Tidy
<1>2. CASE \A i \in 1 .. Len(q) : ~Unlists(q[i], u)
  <2>1. Aim(q, home, g) /\ Aim(q, home, h)
    BY <1>2 DEF Tidy
  <2>2. CASE \E i \in 1 .. Len(q) : IsHome(q[i])
    BY <2>1, <2>2 DEF Aim
  <2>3. CASE \A i \in 1 .. Len(q) : ~IsHome(q[i])
    BY <2>1, <2>3 DEF Aim
  <2> QED
    BY <2>2, <2>3
<1> QED
  BY <1>1, <1>2

(* However the moves, removals and creations of any number of phones       *)
(* interleave, no house lists a user who moved on to another.              *)
THEOREM OneHouseAtMost == Spec => []AtMostOneHouse
<1>1. TypeOK /\ Tenure => AtMostOneHouse
  <2> SUFFICES ASSUME TypeOK, Tenure, NEW u \in Reliable, NEW g \in LivesIn(u), NEW h \in LivesIn(u)
               PROVE  g = h
    BY DEF AtMostOneHouse
  <2>1. uplink[u] \in Seq(Puts)
    BY DEF Reliable, TypeOK, DeviceTypeOK
  <2> QED
    BY <2>1, TidyListsOnce DEF Tenure, Faithful
<1> QED
  BY <1>1, TypeCorrect, TenureInvariant, PTL

(* Once a user's writes are applied, a house that lists the user is the    *)
(* one registered at users/<uid>/house.                                    *)
THEOREM ListingsAgree == Spec => []ListedAtHome
<1>1. TypeOK /\ Tenure => ListedAtHome
  <2> SUFFICES ASSUME TypeOK, Tenure, NEW u \in Reliable, uplink[u] = << >>
               PROVE  LivesIn(u) \subseteq {users[u].house}
    BY DEF ListedAtHome
  <2>1. uplink[u] \in Seq(Puts) /\ Neutral(uplink[u])
    BY DEF Reliable, TypeOK, DeviceTypeOK, Neutral
  <2>2. PICK q \in Seq(Puts) : q = uplink[u] /\ Neutral(q)
    BY <2>1
  <2>3. Tidy(u, q, users[u].house, LivesIn(u))
    BY <2>2 DEF Tenure, Faithful
  <2>4. \A home, L : Tidy(u, q, home, L) => L \subseteq {home}
    BY <2>2, TidyWhenNeutral
  <2> QED
    BY <2>3, <2>4
<1> QED
  BY <1>1, TypeCorrect, TenureInvariant, PTL

(* A screen that takes taps decides on the home the server has.            *)
THEOREM CachedHomeIsFresh == Spec => []HomeCacheFresh
<1>1. Tenure => HomeCacheFresh
  BY DEF Tenure, Faithful, Fresh, HomeCacheFresh
<1> QED
  BY <1>1, TenureInvariant, PTL

\* Of the writes these screens issue only a removal can leave nothing.
LEMMA OnlyRemovalsEmpty ==
  ASSUME DeviceTypeOK, NEW v \in Users, NEW p \in Puts, OwnPut(p, v),
         houses' = HousesAfter(houses, p),
         NEW h \in Houses, houses[h] # NoHouse, houses'[h] = NoHouse
  PROVE  Unlists(p, v) /\ p.house = h
<1>0. /\ houses'[h].residents = {} /\ houses'[h].tasks = {}
      /\ houses'[h].drinks = Null /\ houses'[h].firstWeek = Null
  BY DEF NoHouse
<1>. USE DEF HousesAfter, DeviceTypeOK, HouseNode
<1>1. CASE p.path = "houses"
  <2>1. p.house = h /\ p.node = NoHouse
    BY <1>1 DEF Puts
  <2> QED
    BY <1>1, <2>1 DEF Unlists, NoHouse
<1>2. CASE p.path \in {"houses/drinks", "houses/firstWeek"}
  <2>1. p.count # Null /\ p.house \in Houses
    BY <1>2, NamesAssumption DEF Puts
  <2>2. p.house = h
    BY <1>2, <2>1
  <2>3. houses'[h].drinks = p.count \/ houses'[h].firstWeek = p.count
    BY <1>2, <2>2
  <2> QED
    BY <1>0, <2>1, <2>3
<1>3. CASE p.path = "houses/residents"
  <2>1. p.house \in Houses
    BY <1>3 DEF Puts
  <2>2. p.house = h
    BY <1>3, <2>1
  <2>3. ASSUME p.listed PROVE p.user \in houses'[h].residents
    BY <1>3, <2>2, <2>3
  <2>4. ~p.listed
    BY <1>0, <2>3
  <2> QED
    BY <1>3, <2>2, <2>4 DEF Unlists
<1>4. CASE p.path = "houses/tasks/task"
  <2>1. p.house \in Houses
    BY <1>4 DEF Puts
  <2>2. p.house = h
    BY <1>4, <2>1
  <2>3. houses'[h].tasks = houses[h].tasks \cup {p.task}
    BY <1>4, <2>2
  <2> QED
    BY <1>0, <2>3
<1>5. CASE p.path = "houses/tasks"
  BY <1>5 DEF OwnPut
<1>6. CASE p.path \in {"users/house", "users/drinks", "users/drinksToBuy", "users/dinner"}
  BY <1>6
<1> QED
  BY <1>1, <1>2, <1>3, <1>4, <1>5, <1>6 DEF Puts

(* Whoever removes a house is registered to it when the server applies the *)
(* removal, whatever the other phones did since it was decided.            *)
THEOREM RemovalsAreOwn == Spec => RemovedByItsOwn
<1>. DEFINE Step ==
       \A h \in Houses, u \in Reliable :
         /\ houses[h] # NoHouse /\ houses'[h] = NoHouse
         /\ Len(uplink'[u]) < Len(uplink[u])
         => users[u].house = h
<1>1. TypeOK /\ Tenure /\ [Next]_vars => [Step]_vars
  <2> SUFFICES ASSUME TypeOK, Tenure, Next, NEW h \in Houses, NEW u \in Reliable,
                      houses[h] # NoHouse, houses'[h] = NoHouse,
                      Len(uplink'[u]) < Len(uplink[u])
               PROVE  users[u].house = h
    OBVIOUS
  <2>. DEFINE q == uplink[u]
  <2>1. u \in Users /\ q \in Seq(Puts)
    BY DEF Reliable, TypeOK, DeviceTypeOK
  <2>2. uplink'[u] # q /\ houses' # houses
    BY <2>1
  <2>3. PICK v \in Users : PhoneStep(v)
    BY <2>2 DEF Next, Calendar, NewWeek
  <2>4. v = u
    BY <2>1, <2>2, <2>3, StepsAreLocal DEF Elsewhere
  <2>5. ApplyPut(u)
    <3>1. Faithful(u)
      BY DEF Tenure
    <3> QED
      BY <2>2, <2>3, <2>4, <3>1, OwnSteps DEF Plain, Moves, HomesStay, database
  <2>6. q # << >> /\ Head(q) \in Puts /\ OwnPut(Head(q), u)
    BY <2>1, <2>5 DEF ApplyPut, Tenure, Owned
  <2>7. Unlists(Head(q), u) /\ Head(q).house = h
    BY <2>1, <2>5, <2>6, OnlyRemovalsEmpty DEF ApplyPut, TypeOK
  <2>8. Leaving(u, q, users[u].house)
    BY DEF Tenure, Faithful
  <2>. HIDE DEF q
  <2>9. Head(q).house = users[u].house
    BY <2>1, <2>6, <2>7, <2>8, LeavingPops
  <2> QED
    BY <2>7, <2>9
<1>2. RemovedByItsOwn <=> [][Step]_vars
  BY DEF RemovedByItsOwn
<1> QED
  BY <1>1, <1>2, TypeCorrect, TenureInvariant, PTL DEF Spec

-----------------------------------------------------------------------------
(* Success means moved.                                                    *)

\* The queue q ends with its user registered at h.
Arrives(q, home, h) ==
  \/ Aim(q, home, h)
  \/ \E k \in 1 .. Len(q) :
       IsHome(q[k]) /\ \A i \in k .. Len(q) : IsHome(q[i]) => q[i].house = h

\* A move is under way, or its success is announced: it is where the phone's
\* writes lead, and what a lasting connection answered, it answered after them.
Moving(u) == phase[u] = "loading" /\ then[u].step \in {"joined", "created"}

Announced(u) ==
  /\ Moving(u) \/ phase[u] = "alert" => Arrives(uplink[u], users[u].house, then[u].house)
  /\ u \notin Offline =>
       /\ Moving(u) => asked[u] = {"users", "houses"} \/ uplink[u] = << >>
       /\ phase[u] = "alert" => uplink[u] = << >>

Announcements == Owned /\ \A u \in Users : Announced(u)

\* What an own write makes of the home, in any tree.
LEMMA HomeWritten ==
  ASSUME NEW tree \in Trees, NEW u \in Users, NEW p \in Puts, OwnPut(p, u)
  PROVE  After(tree, p).users[u].house = IF IsHome(p) THEN p.house ELSE tree.users[u].house
<1>. USE DEF After, Trees, UsersAfter, IsHome, UserNode
<1>1. CASE p.path = "users/house"
  BY <1>1 DEF Puts, OwnPut
<1>2. CASE p.path = "users/drinks"
  BY <1>2 DEF Puts
<1>3. CASE p.path = "users/drinksToBuy"
  BY <1>3 DEF Puts
<1>4. CASE p.path = "users/dinner"
  BY <1>4 DEF Puts
<1>5. CASE p.path \notin {"users/house", "users/drinks", "users/drinksToBuy", "users/dinner"}
  BY <1>5
<1> QED
  BY <1>1, <1>2, <1>3, <1>4, <1>5

\* Where the phone's writes lead is what an answer shows.
LEMMA ArrivesShows ==
  ASSUME TypeOK, Owned, NEW u \in Users, NEW h, Arrives(uplink[u], users[u].house, h)
  PROVE  Answer(u).users[u].house = h
<1>. DEFINE q == uplink[u]
            c == Course(Server, q)
            Onto(n) == \A i \in n + 1 .. Len(q) : IsHome(q[i]) => q[i].house = h
            Due(n) == /\ c[n] \in Trees
                      /\ \/ c[n].users[u].house = h /\ Onto(n)
                         \/ \E k \in n + 1 .. Len(q) : IsHome(q[k]) /\ Onto(k - 1)
            Bad == {n \in 0 .. Len(q) : ~Due(n)}
<1>1. q \in Seq(Puts) /\ Len(q) \in Nat /\ \A n \in 1 .. Len(q) : q[n] \in Puts /\ OwnPut(q[n], u)
  BY DEF TypeOK, DeviceTypeOK, Owned
<1>2. c[0] = Server /\ \A n \in 1 .. Len(q) : c[n] = After(c[n - 1], q[n])
  BY <1>1, CourseStep
<1>3. Server \in Trees /\ Server.users = users
  BY DEF Server, Trees, TypeOK, DeviceTypeOK
<1>4. Arrives(q, users[u].house, h)
  OBVIOUS
<1>. HIDE DEF c, q
<1>5. Due(0)
  <2>1. CASE Aim(q, users[u].house, h)
    <3>1. CASE \A i \in 1 .. Len(q) : ~IsHome(q[i])
      BY <1>1, <1>2, <1>3, <2>1, <3>1 DEF Aim
    <3>2. CASE \E i \in 1 .. Len(q) : IsHome(q[i])
      BY <1>1, <1>2, <1>3, <2>1, <3>2 DEF Aim
    <3> QED
      BY <3>1, <3>2
  <2>2. CASE ~Aim(q, users[u].house, h)
    <3>1. PICK k \in 1 .. Len(q) :
            IsHome(q[k]) /\ \A i \in k .. Len(q) : IsHome(q[i]) => q[i].house = h
      BY <1>4, <2>2 DEF Arrives
    <3>2. Onto(k - 1)
      BY <1>1, <3>1
    <3> QED
      BY <1>1, <1>2, <1>3, <3>1, <3>2
  <2> QED
    BY <2>1, <2>2
<1>6. ASSUME NEW n \in 1 .. Len(q), Due(n - 1) PROVE Due(n)
  <2>1. /\ c[n] = After(c[n - 1], q[n]) /\ q[n] \in Puts /\ OwnPut(q[n], u)
        /\ c[n - 1] \in Trees /\ (n - 1) + 1 = n
    BY <1>1, <1>2, <1>6
  <2>2. c[n] \in Trees
    BY <2>1, AfterTyped
  <2>3. c[n].users[u].house = IF IsHome(q[n]) THEN q[n].house ELSE c[n - 1].users[u].house
    BY <2>1, HomeWritten
  <2>4. CASE c[n - 1].users[u].house = h /\ Onto(n - 1)
    <3>1. IsHome(q[n]) => q[n].house = h
      BY <1>1, <2>1, <2>4
    <3>2. Onto(n)
      BY <1>1, <2>1, <2>4
    <3> QED
      BY <2>2, <2>3, <2>4, <3>1, <3>2
  <2>5. ASSUME NEW k \in n .. Len(q), IsHome(q[k]), Onto(k - 1) PROVE Due(n)
    <3>1. CASE k = n
      <4>1. q[n].house = h
        BY <1>1, <2>1, <2>5, <3>1
      <4>2. Onto(n)
        BY <1>1, <2>1, <2>5, <3>1
      <4> QED
        BY <2>2, <2>3, <2>5, <3>1, <4>1, <4>2
    <3>2. CASE k # n
      <4>1. k \in n + 1 .. Len(q)
        BY <1>1, <3>2
      <4> QED
        BY <2>2, <2>5, <4>1
    <3> QED
      BY <3>1, <3>2
  <2> QED
    BY <1>6, <2>1, <2>4, <2>5
<1>. HIDE DEF Due
<1>7. Bad = {}
  <2> SUFFICES ASSUME Bad # {} PROVE FALSE
    OBVIOUS
  <2>1. PICK n \in Bad : \A k \in Bad : n <= k
    <3>1. Bad \in SUBSET Nat
      BY <1>1
    <3> QED
      BY <3>1, LeastNatural
  <2>2. n \in 1 .. Len(q)
    BY <1>1, <1>5, <2>1
  <2>3. n - 1 \in 0 .. Len(q) /\ n - 1 \notin Bad
    BY <1>1, <2>1, <2>2
  <2> QED
    BY <1>6, <2>1, <2>2, <2>3
<1>8. Due(Len(q))
  BY <1>1, <1>7
<1>9. c[Len(q)].users[u].house = h
  BY <1>1, <1>8 DEF Due
<1> QED
  BY <1>9 DEF Answer, Applied, c, q

LEMMA ArrivesPops ==
  ASSUME NEW q \in Seq(Puts), q # << >>, NEW home, NEW h, Arrives(q, home, h),
         NEW home2, home2 = IF IsHome(Head(q)) THEN Head(q).house ELSE home
  PROVE  Arrives(Tail(q), home2, h)
<1>. DEFINE t == Tail(q)
<1>1. /\ Len(q) \in Nat /\ Len(t) \in Nat /\ Len(q) = Len(t) + 1
      /\ Head(q) = q[1] /\ 1 \in 1 .. Len(q)
      /\ \A i \in 1 .. Len(t) : t[i] = q[i + 1] /\ i + 1 \in 1 .. Len(q)
      /\ \A i \in 1 .. Len(q) : i = 1 \/ (i - 1 \in 1 .. Len(t) /\ q[i] = t[i - 1])
  OBVIOUS
<1>. HIDE DEF t
<1>2. CASE Aim(q, home, h)
  BY <1>1, <1>2 DEF Aim, Arrives, t
<1>3. ASSUME NEW k \in 1 .. Len(q), IsHome(q[k]),
             \A i \in k .. Len(q) : IsHome(q[i]) => q[i].house = h
      PROVE  Arrives(t, home2, h)
  <2>1. CASE k = 1
    <3>1. home2 = h
      BY <1>1, <1>3, <2>1
    <3>2. \A i \in 1 .. Len(t) : IsHome(t[i]) => t[i].house = h
      BY <1>1, <1>3, <2>1
    <3> QED
      BY <3>1, <3>2 DEF Aim, Arrives
  <2>2. CASE k # 1
    <3>1. k - 1 \in 1 .. Len(t) /\ IsHome(t[k - 1])
      BY <1>1, <1>3, <2>2
    <3>2. ASSUME NEW i \in k - 1 .. Len(t), IsHome(t[i]) PROVE t[i].house = h
      <4>1. i \in 1 .. Len(t) /\ i + 1 \in k .. Len(q)
        BY <1>1, <3>1
      <4> QED
        BY <1>1, <1>3, <3>2, <4>1
    <3> QED
      BY <3>1, <3>2 DEF Arrives
  <2> QED
    BY <2>1, <2>2
<1> QED
  BY <1>2, <1>3 DEF Arrives, t

LEMMA MoveArrives ==
  ASSUME DeviceTypeOK, NEW u \in Users, NEW h \in Houses, NEW pw \in Passwords,
         NEW r, r = JoinPuts(u, h) \/ r = CreatePuts(u, h, pw),
         NEW q \in Seq(Puts), NEW home
  PROVE  Arrives(q \o r, home, h)
<1>1. PICK n \in {0, 1} :
        /\ n = 1 => ~IsHome(r[1])
        /\ \A i \in 1 .. Len(r) : i > n /\ IsHome(r[i]) => r[i].house = h
        /\ \E i \in 1 .. Len(r) : IsHome(r[i])
        /\ r \in Seq(Puts)
  BY MoveShape
<1>2. \A i \in 1 .. Len(r) : IsHome(r[i]) => r[i].house = h
  BY <1>1
<1>3. PICK k \in 1 .. Len(r) : IsHome(r[k])
  BY <1>1
<1>. DEFINE s == q \o r
<1>4. /\ Len(q) \in Nat /\ Len(r) \in Nat /\ Len(s) = Len(q) + Len(r)
      /\ \A j \in 1 .. Len(r) : j + Len(q) \in 1 .. Len(s) /\ s[j + Len(q)] = r[j]
      /\ \A i \in 1 .. Len(s) : i \notin 1 .. Len(q) =>
           i - Len(q) \in 1 .. Len(r) /\ s[i] = r[i - Len(q)]
  BY <1>1, ConcatIndex
<1>. HIDE DEF s
<1>5. k + Len(q) \in 1 .. Len(s) /\ IsHome(s[k + Len(q)])
  BY <1>3, <1>4
<1>6. ASSUME NEW i \in k + Len(q) .. Len(s), IsHome(s[i]) PROVE s[i].house = h
  <2>1. i \in 1 .. Len(s) /\ i \notin 1 .. Len(q)
    BY <1>4
  <2> QED
    BY <1>2, <1>4, <1>6, <2>1
<1> QED
  BY <1>5, <1>6 DEF Arrives, s

LEMMA OwnStepKeepsAnnounced ==
  ASSUME TypeOK, Owned, NEW u \in Users, Announced(u), PhoneStep(u)
  PROVE  Announced(u)'
<1>. DEFINE Silent == /\ phase'[u] # "alert"
                      /\ phase'[u] = "loading" => then'[u].step \notin {"joined", "created"}
            Same == /\ UNCHANGED users /\ uplink'[u] = uplink[u]
                    /\ phase'[u] = phase[u] /\ then'[u] = then[u]
<1>1. ASSUME Silent PROVE Announced(u)'
  BY <1>1 DEF Announced, Moving
<1>2. ASSUME Same, u \in Offline \/ asked'[u] = asked[u] \/ uplink[u] = << >>
      PROVE  Announced(u)'
  BY <1>2 DEF Announced, Moving
<1>3. ASSUME Rest(u) \/ Stop(u, "off") \/ Crash(u) PROVE Silent
  BY <1>3 DEF Rest, Stop, Crash, TypeOK, DeviceTypeOK
<1>4. ASSUME NEW step \in {"appear", "checkWeek", "show", "profile", "picker"},
             GetAllData(u, Run(step))
      PROVE  Silent
  <2>1. Run(step).step \notin {"joined", "created"}
    BY DEF Run
  <2> QED
    BY <1>4, <2>1 DEF GetAllData, TypeOK, DeviceTypeOK
<1>. HIDE DEF Silent
<1>5. CASE Serve(u)
  <2>1. CASE ApplyPut(u)
    <3>. DEFINE q == uplink[u]
    <3>1. /\ q \in Seq(Puts) /\ q # << >> /\ Head(q) \in Puts
          /\ uplink'[u] = Tail(q) /\ OwnPut(Head(q), u)
          /\ users' = UsersAfter(users, Head(q)) /\ houses' = HousesAfter(houses, Head(q))
          /\ UNCHANGED <<phase, then, asked>>
      BY <2>1 DEF ApplyPut, TypeOK, DeviceTypeOK, Owned
    <3>. HIDE DEF q
    <3>2. users'[u].house = IF IsHome(Head(q)) THEN Head(q).house ELSE users[u].house
      BY <3>1, PutsMoveOwner DEF TypeOK
    <3>3. CASE Moving(u) \/ phase[u] = "alert"
      <4>1. Arrives(q, users[u].house, then[u].house)
        BY <3>3 DEF Announced, q
      <4>2. Arrives(Tail(q), users'[u].house, then[u].house)
        BY <3>1, <3>2, <4>1, ArrivesPops
      <4>3. u \notin Offline => Moving(u) /\ phase[u] # "alert" /\ asked[u] = {"users", "houses"}
        BY <3>1, <3>3 DEF Announced, Moving, q
      <4> QED
        BY <3>1, <4>2, <4>3 DEF Announced, Moving
    <3>4. CASE ~(Moving(u) \/ phase[u] = "alert")
      BY <3>1, <3>4 DEF Announced, Moving
    <3> QED
      BY <3>3, <3>4
  <2>2. CASE ServeUsers(u)
    BY <1>2, <2>2 DEF ServeUsers, Answerable, database
  <2>3. CASE ServeHouses(u)
    <3>1. CASE Crash(u)
      BY <1>1, <1>3, <3>1
    <3>2. CASE ~Crash(u) /\ phase'[u] = phase[u]
      BY <1>2, <2>3, <3>2 DEF ServeHouses, Answerable, database
    <3>3. CASE ~Crash(u) /\ phase'[u] # phase[u]
      <4>1. phase'[u] = "frozen"
        BY <2>3, <3>3 DEF ServeHouses, TypeOK, DeviceTypeOK
      <4> QED
        BY <4>1 DEF Announced, Moving
    <3> QED
      BY <3>1, <3>2, <3>3
  <2> QED
    BY <1>5, <2>1, <2>2, <2>3 DEF Serve, Background
<1>6. CASE HomeHandlers(u)
  <2>1. ASSUME NEW h, showCurrentTask(u, h) PROVE Silent
    BY <1>3, <2>1 DEF showCurrentTask
  <2>2. ASSUME NEW h, checkForEndOfYear(u, h) \/ checkIfWeekInSchedule(u, h) PROVE Silent
    BY <1>4, <2>1, <2>2 DEF checkForEndOfYear, checkIfWeekInSchedule, RestartSchedule
  <2>3. ASSUME HomeAppeared(u) PROVE Silent
    BY <1>3, <2>2, <2>3 DEF HomeAppeared
  <2>4. ASSUME HomeWeekSet(u) PROVE Silent
    BY <1>3, <2>2, <2>4 DEF HomeWeekSet, HomeReloaded
  <2>5. ASSUME HomeScheduleRestarted(u) PROVE Silent
    BY <1>3, <2>1, <2>5 DEF HomeScheduleRestarted, HomeReloaded
  <2> QED
    BY <1>1, <1>6, <2>3, <2>4, <2>5 DEF HomeHandlers
<1>7. CASE HomeTaps(u) \/ Lifecycle(u)
  <2>1. CASE Refresh(u) \/ Launch(u)
    BY <1>1, <1>4, <2>1 DEF Refresh, Launch
  <2>2. CASE DinnerSwitch(u)
    <3>1. CASE known[u]
      <4>1. phase'[u] = "ready"
        BY <2>2, <3>1 DEF DinnerSwitch, Ready
      <4> QED
        BY <4>1 DEF Announced, Moving
    <3>2. CASE ~known[u]
      BY <1>1, <1>3, <2>2, <3>2 DEF DinnerSwitch
    <3> QED
      BY <3>1, <3>2
  <2>3. CASE LoseConnection(u) \/ RegainConnection(u)
    BY <1>2, <2>3 DEF LoseConnection, RegainConnection, database
  <2>4. CASE Quit(u)
    BY <1>1, <1>3, <2>4 DEF Quit
  <2> QED
    BY <1>7, <2>1, <2>2, <2>3, <2>4 DEF HomeTaps, Lifecycle
<1>8. CASE PickerLoaded(u) \/ ProfileLoaded(u)
  BY <1>1, <1>3, <1>8 DEF PickerLoaded, ProfileLoaded
<1>9. CASE Saved(u)
  <2>1. /\ phase[u] = "loading" /\ asked[u] = {} /\ then[u].step \in {"joined", "created"}
        /\ UNCHANGED <<users, uplink, then>> /\ phase'[u] = "alert"
    BY <1>9 DEF Saved, Loaded, database, TypeOK, DeviceTypeOK
  <2>2. /\ Arrives(uplink[u], users[u].house, then[u].house)
        /\ u \notin Offline => uplink[u] = << >>
    BY <2>1 DEF Announced, Moving
  <2> QED
    BY <2>1, <2>2 DEF Announced, Moving
<1>10. ASSUME NEW h \in Houses, NEW pw \in Passwords, JoinHouse(u, h, pw) \/ CreateHouse(u, h, pw)
       PROVE  Announced(u)'
  <2>1. CASE Crash(u)
    BY <1>1, <1>3, <2>1
  <2>2. CASE ~Crash(u)
    <3>1. PICK r \in {JoinPuts(u, h), CreatePuts(u, h, pw)}, step \in {"joined", "created"} :
            Move(u, r, step, h)
      BY <1>10, <2>2 DEF JoinHouse, CreateHouse, SaveWithoutPicker
    <3>2. Issue(u, r) /\ GetAllData(u, [step |-> step, house |-> h]) /\ users' = users
      BY <2>2, <3>1 DEF Move, database
    <3>3. CASE online[u]
      <4>1. /\ phase'[u] = "loading" /\ asked'[u] = {"users", "houses"}
            /\ then'[u].house = h /\ uplink'[u] = uplink[u] \o r
        BY <3>2, <3>3 DEF GetAllData, Issue, TypeOK, DeviceTypeOK
      <4>2. uplink[u] \in Seq(Puts)
        BY DEF TypeOK, DeviceTypeOK
      <4>3. \A home : Arrives(uplink[u] \o r, home, h)
        BY <4>2, MoveArrives DEF TypeOK
      <4>4. Arrives(uplink'[u], users'[u].house, then'[u].house)
        BY <4>1, <4>3
      <4> QED
        BY <4>1, <4>4 DEF Announced, Moving
    <3>4. CASE ~online[u]
      <4>1. phase'[u] = "ready"
        BY <3>2, <3>4 DEF GetAllData, TypeOK, DeviceTypeOK
      <4> QED
        BY <4>1 DEF Announced, Moving
    <3> QED
      BY <3>3, <3>4
  <2> QED
    BY <2>1, <2>2
<1>11. CASE Okay(u) \/ Back(u) \/ TabToHome(u) \/ PushPick(u)
  BY <1>1, <1>4, <1>11 DEF Okay, Back, TabToHome, PushPick, ShowProfile
<1>12. CASE TabToProfile(u) \/ PushNew(u)
  <2>1. CASE ShowProfile(u)
    BY <1>1, <1>4, <2>1 DEF ShowProfile
  <2>2. CASE ~ShowProfile(u)
    BY <1>2, <1>12, <2>2 DEF TabToProfile, PushNew, database
  <2> QED
    BY <2>1, <2>2
<1> QED
  BY <1>5, <1>6, <1>7, <1>8, <1>9, <1>10, <1>11, <1>12 DEF PhoneStep, Handle, Tap

LEMMA NextKeepsAnnouncements ==
  ASSUME TypeOK, Announcements, [Next]_vars
  PROVE  Announcements'
<1>1. CASE UNCHANGED vars
  BY <1>1 DEF vars, homeVars, deviceVars, Announcements, Owned, Announced, Moving
<1>2. CASE Calendar
  BY <1>2 DEF Calendar, NewWeek, database, Announcements, Owned, Announced, Moving
<1>3. ASSUME NEW v \in Users, PhoneStep(v) PROVE Announcements'
  <2>1. Owned'
    BY <1>3, OwnedKept DEF Announcements
  <2>2. ASSUME NEW u \in Users, u # v PROVE Announced(u)'
    <3>1. Elsewhere(u) /\ users'[u].house = users[u].house
      BY <1>3, <2>2, OtherStepIsElsewhere DEF Announcements
    <3> QED
      BY <2>2, <3>1 DEF Elsewhere, Announcements, Announced, Moving
  <2> QED
    BY <1>3, <2>1, <2>2, OwnStepKeepsAnnounced DEF Announcements
<1> QED
  BY <1>1, <1>2, <1>3 DEF Next

(* "You just joined h" or "Succesfully Created h" shows only when h is the *)
(* home the server has or will have once the phone's writes arrive, however *)
(* other phones interleave; and, on a phone whose connection lasts, only    *)
(* when all of the move's writes are at the server.  A phone that reconnects *)
(* can show the alert before it has sent them.                              *)
THEOREM SuccessIsReal == Spec => []SuccessMeansMoved
<1>1. Init => Announcements
  BY DEF Init, HomeInit, DeviceInit, Announcements, Owned, Announced, Moving
<1>2. TypeOK /\ Announcements /\ [Next]_vars => Announcements'
  BY NextKeepsAnnouncements
<1>3. TypeOK /\ Announcements => SuccessMeansMoved
  BY ArrivesShows DEF Announcements, Announced, SuccessMeansMoved
<1> QED
  BY <1>1, <1>2, <1>3, TypeCorrect, PTL DEF Spec
=============================================================================
