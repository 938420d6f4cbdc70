---------------------------- MODULE TurnsProofs ----------------------------
(***************************************************************************)
(* What is proved of Residency used in turns, for any finite number of     *)
(* users: that it implements Tenancy, and what else one phone at a time    *)
(* can rely on.                                                            *)
(*                                                                         *)
(* Everything the one phone in use decides on is compared with Ahead, the  *)
(* tree with the writes on their way applied, so that a write arriving     *)
(* changes nothing in the invariant but what is still to come.             *)
(***************************************************************************)
EXTENDS ResidencyTenancy, ResidencyProofs

-----------------------------------------------------------------------------
(* The inductive invariant.                                                *)

\* A write that leaves every house complete, and replaces none.
Gentle(before, after) ==
  /\ Parsable(after.houses)
  /\ \A h \in Houses :
       before.houses[h] # NoHouse /\ after.houses[h] # NoHouse =>
         after.houses[h].password = before.houses[h].password

Passage(tree, q) ==
  /\ Parsable(tree.houses)
  /\ \A n \in 1 .. Len(q) : Gentle(Course(tree, q)[n - 1], Course(tree, q)[n])

\* The screens: where their loads lead, and what outlives them.
Joining(u) == phase[u] # "ready" /\ then[u].step = "joined"

Tabs(u) ==
  /\ screen[u] \in {"home", "profile", "pick", "new"}
  /\ screen[u] # "home" => pushed[u] = screen[u]
  /\ screen[u] = "home" => phase[u] # "alert"
  /\ screen[u] = "home" /\ phase[u] = "loading" =>
       then[u].step \in {"appear", "checkWeek", "show"}
  /\ pushed[u] = "pick" /\ picker[u] = Null =>
       phase[u] \in {"loading", "frozen"} /\ then[u].step = "picker"
  /\ pushed[u] = "pick" /\ picker[u] # Null /\ ~Joining(u) => Home(u) \notin picker[u]
  /\ Ready(u, "home") /\ label[u] # Null =>
       me[u].house # Null /\ (label[u] = me[u].house \/ seen[u][me[u].house].tasks = {})

Process(u) ==
  /\ Running(u) /\ online[u]
  /\ Home(u) = Null => me[u].house = Null
  /\ phase[u] = "frozen" => uplink[u] = << >> /\ Ahead.houses = NoHouses
  /\ phase[u] \in {"ready", "alert"} => Current(u)
  /\ phase[u] = "loading" => Underway(u)

InUse(u) == Process(u) /\ Tabs(u)

Idle(u) ==
  /\ phase[u] = "off" /\ online[u]
  /\ uplink[u] = << >> /\ asked[u] = {}
  /\ me[u].house = Null /\ pushed[u] = "profile"

OthersIdle(u) == \A v \in Users \ {u} : Idle(v)

Turns ==
  /\ Agreed(Ahead)
  /\ Passage(Server, OnTheirWay)
  /\ \A u \in Users : Idle(u) \/ (InUse(u) /\ OthersIdle(u))

TurnsInv == TypeOK /\ Turns

-----------------------------------------------------------------------------
(* Writes joining and leaving a queue.                                     *)

\* A gentle write can be added to those on their way.
LEMMA PassageGoesOn ==
  ASSUME NEW tree, NEW q \in Seq(Puts), NEW p \in Puts, Passage(tree, q),
         NEW ahead, ahead = Applied(tree, q), Gentle(ahead, After(ahead, p))
  PROVE  /\ Append(q, p) \in Seq(Puts)
         /\ Passage(tree, Append(q, p))
         /\ Applied(tree, Append(q, p)) = After(ahead, p)
<1>0. /\ \A n \in 0 .. Len(q) : Course(tree, Append(q, p))[n] = Course(tree, q)[n]
      /\ Course(tree, Append(q, p))[Len(q) + 1] = After(Applied(tree, q), p)
      /\ Applied(tree, Append(q, p)) = After(Applied(tree, q), p)
  BY CourseGoesOn, AppliedGoesOn
<1>. DEFINE r == Append(q, p)
            c == Course(tree, q)
            d == Course(tree, r)
<1>1. r \in Seq(Puts) /\ Len(q) \in Nat /\ Len(r) = Len(q) + 1
  OBVIOUS
<1>2. /\ \A n \in 0 .. Len(q) : d[n] = c[n]
      /\ d[Len(q) + 1] = After(ahead, p)
      /\ Applied(tree, r) = After(ahead, p)
  BY <1>0
<1>3. /\ Parsable(tree.houses)
      /\ \A n \in 1 .. Len(q) : Gentle(c[n - 1], c[n])
      /\ c[Len(q)] = ahead
  BY DEF Passage, Applied
<1>. HIDE DEF r, c, d
<1>4. ASSUME NEW n \in 1 .. Len(r) PROVE Gentle(d[n - 1], d[n])
  <2>1. CASE n \in 1 .. Len(q)
    <3>1. n \in 0 .. Len(q) /\ n - 1 \in 0 .. Len(q)
      BY <1>1, <2>1
    <3>2. d[n] = c[n] /\ d[n - 1] = c[n - 1]
      BY <1>2, <3>1
    <3> QED
      BY <1>3, <2>1, <3>2
  <2>2. CASE n = Len(q) + 1
    <3>1. n - 1 = Len(q) /\ Len(q) \in 0 .. Len(q)
      BY <1>1, <2>2
    <3>2. d[n - 1] = ahead /\ d[n] = After(ahead, p)
      BY <1>2, <1>3, <2>2, <3>1
    <3> QED
      BY <3>2
  <2> QED
    BY <1>1, <2>1, <2>2
<1>5. Passage(tree, r)
  BY <1>3, <1>4 DEF Passage, d
<1> QED
  BY <1>1, <1>2, <1>5 DEF r

\* The first write on its way can be applied.
LEMMA PassageMovesOn ==
  ASSUME NEW tree, NEW q \in Seq(Puts), q # << >>, Passage(tree, q)
  PROVE  /\ Passage(After(tree, Head(q)), Tail(q))
         /\ Gentle(tree, After(tree, Head(q)))
         /\ Applied(After(tree, Head(q)), Tail(q)) = Applied(tree, q)
<1>. DEFINE t == Tail(q)
            next == After(tree, Head(q))
            c == Course(tree, q)
            d == Course(next, t)
<1>1. Len(t) \in Nat /\ Len(q) = Len(t) + 1
  BY HeadTailProperties, LenProperties
<1>2. /\ \A n \in 0 .. Len(t) : d[n] = c[n + 1]
      /\ Applied(next, t) = Applied(tree, q)
  BY CourseMovesOn
<1>3. /\ Parsable(tree.houses)
      /\ \A n \in 1 .. Len(q) : Gentle(c[n - 1], c[n])
  BY DEF Passage
<1>4. c[0] = tree
  BY CourseStep
<1>5. d[0] = next
  <2>1. t \in Seq(Puts)
    BY HeadTailProperties
  <2> QED
    BY <2>1, CourseStep
<1>. HIDE DEF t, next, c, d
<1>6. Gentle(tree, next)
  <2>1. 1 \in 1 .. Len(q) /\ 1 - 1 = 0 /\ 0 \in 0 .. Len(t) /\ 0 + 1 = 1
    BY <1>1
  <2>2. Gentle(c[1 - 1], c[1]) /\ d[0] = c[0 + 1]
    BY <1>2, <1>3, <2>1
  <2> QED
    BY <1>4, <1>5, <2>1, <2>2
<1>7. ASSUME NEW n \in 1 .. Len(t) PROVE Gentle(d[n - 1], d[n])
  <2>1. /\ n + 1 \in 1 .. Len(q) /\ (n + 1) - 1 = n /\ (n - 1) + 1 = n
        /\ n \in 0 .. Len(t) /\ n - 1 \in 0 .. Len(t)
    BY <1>1
  <2>2. d[n] = c[n + 1] /\ d[n - 1] = c[n] /\ Gentle(c[n], c[n + 1])
    BY <1>2, <1>3, <2>1
  <2> QED
    BY <2>2
<1>8. Passage(next, t)
  BY <1>6, <1>7 DEF Passage, Gentle, d
<1> QED
  BY <1>2, <1>6, <1>8 DEF t, next

LEMMA PairIssued ==
  ASSUME NEW q \in Seq(Puts), NEW a \in Puts, NEW b \in Puts
  PROVE  q \o <<a, b>> = Append(Append(q, a), b) /\ q \o <<a, b>> \in Seq(Puts)
OBVIOUS

LEMMA FourConcatenated ==
  ASSUME NEW q \in Seq(Puts), NEW l \in Seq(Puts), NEW x \in Seq(Puts), NEW y \in Seq(Puts)
  PROVE  q \o ((l \o x) \o y) = ((q \o l) \o x) \o y
<1>1. PICK m \in Seq(Puts) : m = l \o x
  BY ConcatProperties
<1>2. q \o (m \o y) = (q \o m) \o y
  BY ConcatAssociative, SMTT(30)
<1>3. q \o (l \o x) = (q \o l) \o x
  BY ConcatAssociative, SMTT(30)
<1> QED
  BY <1>1, <1>2, <1>3

-----------------------------------------------------------------------------
(* A move on the tree.                                                     *)

\* What is left of tree when u has moved out.
Left(tree, next, u) ==
  /\ next.users = tree.users
  /\ Gentle(tree, next)
  /\ \A v \in Users, h \in Houses :
       v \in next.houses[h].residents <=> v # u /\ tree.users[v].house = h
  /\ \A h \in Houses :
       next.houses[h] # NoHouse <=>
         /\ tree.houses[h] # NoHouse
         /\ h = tree.users[u].house => \E v \in Users \ {u} : tree.users[v].house = h

LEMMA NoHouseLeft ==
  ASSUME NEW tree \in Trees, Agreed(tree), NEW u \in Users, tree.users[u].house = Null
  PROVE  Left(tree, tree, u)
<1>1. Null \notin Houses
  BY NamesAssumption
<1> QED
  BY <1>1 DEF Left, Agreed, Gentle

LEMMA LeavingLeaves ==
  ASSUME IsFiniteSet(Users), NEW tree \in Trees, Agreed(tree), NEW u \in Users,
         NEW o \in Houses, tree.users[u].house = o
  PROVE  /\ Cardinality(tree.houses[o].residents) > 1 =>
              Left(tree, After(tree, SetResident(o, u, FALSE)), u)
         /\ ~(Cardinality(tree.houses[o].residents) > 1) =>
              Left(tree, After(tree, SetHouse(o, NoHouse)), u)
<1>. DEFINE R == tree.houses[o].residents
            out == [tree.houses EXCEPT ![o].residents = @ \ {u}]
            gone == [tree.houses EXCEPT ![o] = NoHouse]
<1>1. /\ tree.houses \in [Houses -> HouseNode]
      /\ R \in SUBSET Users /\ u \in R
      /\ \A v \in Users, h \in Houses :
           v \in tree.houses[h].residents <=> tree.users[v].house = h
      /\ \A h \in Houses : tree.houses[h] # NoHouse => Complete(tree.houses[h])
      /\ tree.houses[o] # NoHouse
  BY HomesAreOpen DEF Agreed, Parsable, Trees, HouseNode
<1>2. IsFiniteSet(R) /\ Cardinality(R) \in Nat
  BY <1>1, FS_Subset, FS_CardinalityType
<1>3. After(tree, SetResident(o, u, FALSE)) = [users |-> tree.users, houses |-> out]
      /\ After(tree, SetHouse(o, NoHouse)) = [users |-> tree.users, houses |-> gone]
  BY DEF After, UsersAfter, HousesAfter, SetResident, SetHouse
<1>4. ASSUME Cardinality(R) > 1
      PROVE  Left(tree, [users |-> tree.users, houses |-> out], u)
  <2>1. R \ {u} # {}
    BY <1>2, <1>4, FS_EmptySet, FS_RemoveElement, <1>1
  <2>2. out[o] = [tree.houses[o] EXCEPT !.residents = R \ {u}]
        /\ \A h \in Houses : h # o => out[h] = tree.houses[h]
    BY <1>1
  <2>3. /\ out[o].residents = R \ {u} /\ out[o].password = tree.houses[o].password
        /\ Complete(out[o]) /\ out[o] # NoHouse
    BY <1>1, <2>1, <2>2 DEF Complete, HouseNode, NoHouse
  <2>4. Gentle(tree, [users |-> tree.users, houses |-> out])
    BY <1>1, <2>2, <2>3 DEF Gentle, Parsable
  <2>5. \E v \in Users \ {u} : tree.users[v].house = o
    BY <1>1, <2>1
  <2>6. \A v \in Users, h \in Houses : v \in out[h].residents <=> v # u /\ tree.users[v].house = h
    BY <1>1, <2>2, <2>3
  <2> QED
    BY <1>1, <2>2, <2>3, <2>4, <2>5, <2>6 DEF Left
<1>5. ASSUME ~(Cardinality(R) > 1)
      PROVE  Left(tree, [users |-> tree.users, houses |-> gone], u)
  <2>1. R = {u}
    <3>1. Cardinality(R) # 0
      BY <1>1, <1>2, FS_EmptySet
    <3>2. Cardinality(R) = 1
      BY <1>2, <1>5, <3>1
    <3>3. PICK x : R = {x}
      BY <1>2, <3>2, FS_Singleton
    <3> QED
      BY <1>1, <3>3
  <2>2. gone[o] = NoHouse /\ \A h \in Houses : h # o => gone[h] = tree.houses[h]
    BY <1>1
  <2>3. \A v \in Users \ {u} : tree.users[v].house # o
    BY <1>1, <2>1
  <2>4. Gentle(tree, [users |-> tree.users, houses |-> gone])
    BY <1>1, <2>2 DEF Gentle, Parsable
  <2>5. \A v \in Users, h \in Houses : v \in gone[h].residents <=> v # u /\ tree.users[v].house = h
    BY <1>1, <2>2, <2>3 DEF NoHouse
  <2> QED
    BY <1>1, <2>2, <2>3, <2>4, <2>5 DEF Left
<1> QED
  BY <1>3, <1>4, <1>5

\* Moving in: the tree after the two writes, and after those about drinks.
MovedIn(tree, next, u, h) ==
  /\ Agreed(next)
  /\ next.users[u].house = h
  /\ \A v \in Users \ {u} : next.users[v].house = tree.users[v].house
  /\ \A g \in Houses : next.houses[g] # NoHouse <=> tree.houses[g] # NoHouse \/ g = h

LEMMA DrinksCleared ==
  ASSUME NEW tree, NEW next \in Trees, NEW u \in Users, NEW h \in Houses,
         MovedIn(tree, next, u, h), NEW p \in {SetDrinks(u, 0), SetDrinksToBuy(u, 0)}
  PROVE  Gentle(next, After(next, p)) /\ MovedIn(tree, After(next, p), u, h)
<1>1. /\ After(next, p).houses = next.houses
      /\ \A v \in Users : After(next, p).users[v].house = next.users[v].house
  BY DEF After, UsersAfter, HousesAfter, SetDrinks, SetDrinksToBuy, Trees, UserNode
<1> QED
  BY <1>1 DEF MovedIn, Agreed, Gentle

LEMMA JoiningMovesIn ==
  ASSUME NEW old, NEW tree \in Trees, NEW u \in Users, NEW h \in Houses,
         Left(old, tree, u), tree.houses[h] # NoHouse,
         NEW mid, mid = After(tree, SetHome(u, h)),
         NEW next, next = After(mid, SetResident(h, u, TRUE))
  PROVE  Gentle(tree, mid) /\ Gentle(mid, next) /\ MovedIn(tree, next, u, h)
<1>1. /\ mid.houses = tree.houses
      /\ next.users = [tree.users EXCEPT ![u].house = h]
      /\ next.houses = [tree.houses EXCEPT ![h].residents = @ \cup {u}]
  BY DEF After, UsersAfter, HousesAfter, SetHome, SetResident
<1>2. /\ tree.users \in [Users -> UserNode] /\ tree.houses \in [Houses -> HouseNode]
      /\ \A g \in Houses : tree.houses[g] # NoHouse => Complete(tree.houses[g])
      /\ \A v \in Users, g \in Houses :
           v \in tree.houses[g].residents <=> v # u /\ tree.users[v].house = g
  BY DEF Trees, Left, Gentle, Parsable
<1>3. /\ next.users[u].house = h
      /\ \A v \in Users \ {u} : next.users[v].house = tree.users[v].house
  <2>1. PICK us \in [Users -> UserNode] : us = tree.users
    BY <1>2
  <2>2. next.users = [us EXCEPT ![u].house = h]
    BY <1>1, <2>1
  <2> QED
    BY <2>1, <2>2 DEF UserNode
<1>4. /\ next.houses[h] = [tree.houses[h] EXCEPT !.residents = @ \cup {u}]
      /\ \A g \in Houses : g # h => next.houses[g] = tree.houses[g]
  BY <1>1, <1>2
<1>5. /\ next.houses[h].residents = tree.houses[h].residents \cup {u}
      /\ next.houses[h].password = tree.houses[h].password
      /\ Complete(next.houses[h]) /\ next.houses[h] # NoHouse
  <2>1. tree.houses[h] \in HouseNode /\ Complete(tree.houses[h])
    BY <1>2
  <2>. DEFINE node == tree.houses[h]
  <2>. HIDE DEF node
  <2>2. next.houses[h] = [node EXCEPT !.residents = @ \cup {u}]
    BY <1>4 DEF node
  <2>3. node \in HouseNode /\ Complete(node)
    BY <2>1 DEF node
  <2>4. /\ next.houses[h].residents = node.residents \cup {u}
        /\ next.houses[h].password = node.password
        /\ Complete(next.houses[h])
    BY <2>2, <2>3 DEF Complete, HouseNode
  <2>5. ~Complete(NoHouse)
    BY DEF Complete, NoHouse
  <2> QED
    BY <2>4, <2>5 DEF node
<1>6. Gentle(tree, mid) /\ Gentle(mid, next)
  BY <1>1, <1>2, <1>4, <1>5, ZenonT(60) DEF Gentle, Parsable
<1>7. \A v \in Users, g \in Houses :
        v \in next.houses[g].residents <=> next.users[v].house = g
  <2>1. SUFFICES ASSUME NEW v \in Users, NEW g \in Houses
                 PROVE  v \in next.houses[g].residents <=> next.users[v].house = g
    OBVIOUS
  <2>2. v \in tree.houses[g].residents <=> v # u /\ tree.users[v].house = g
    BY <1>2
  <2>3. v \in next.houses[g].residents <=> v \in tree.houses[g].residents \/ (g = h /\ v = u)
    BY <1>4, <1>5
  <2>4. next.users[v].house = IF v = u THEN h ELSE tree.users[v].house
    BY <1>3
  <2> QED
    BY <2>2, <2>3, <2>4
<1> QED
  BY <1>3, <1>4, <1>5, <1>6, <1>7 DEF MovedIn, Agreed, Gentle

LEMMA CreatingMovesIn ==
  ASSUME NEW old, NEW tree \in Trees, NEW u \in Users, NEW h \in Houses, NEW pw \in Passwords,
         Left(old, tree, u), tree.houses[h] = NoHouse,
         NEW mid, mid = After(tree, SetHouse(h, NewHouse(u, pw))),
         NEW next, next = After(mid, SetHome(u, h))
  PROVE  Gentle(tree, mid) /\ Gentle(mid, next) /\ MovedIn(tree, next, u, h)
<1>1. /\ mid.houses = [tree.houses EXCEPT ![h] = NewHouse(u, pw)]
      /\ next.users = [tree.users EXCEPT ![u].house = h]
      /\ next.houses = mid.houses
  BY DEF After, UsersAfter, HousesAfter, SetHome, SetHouse
<1>2. /\ tree.users \in [Users -> UserNode] /\ tree.houses \in [Houses -> HouseNode]
      /\ \A g \in Houses : tree.houses[g] # NoHouse => Complete(tree.houses[g])
      /\ \A v \in Users, g \in Houses :
           v \in tree.houses[g].residents <=> v # u /\ tree.users[v].house = g
  BY DEF Trees, Left, Gentle, Parsable
<1>3. /\ next.users[u].house = h
      /\ \A v \in Users \ {u} : next.users[v].house = tree.users[v].house
  BY <1>1, <1>2 DEF UserNode
<1>4. /\ next.houses[h] = NewHouse(u, pw)
      /\ \A g \in Houses : g # h => next.houses[g] = tree.houses[g]
  BY <1>1, <1>2
<1>5. /\ next.houses[h].residents = {u}
      /\ Complete(next.houses[h]) /\ next.houses[h] # NoHouse
  <2>1. pw # Null /\ 0 # Null
    BY NamesAssumption
  <2>. DEFINE new == NewHouse(u, pw)
  <2>2. /\ new.password = pw /\ new.drinks = 0 /\ new.firstWeek = 0
        /\ new.residents = {u} /\ new.tasks = {DefaultTask}
    BY DEF NewHouse
  <2>. HIDE DEF new
  <2>3. Complete(new)
    BY <2>1, <2>2 DEF Complete
  <2>4. NoHouse.residents = {}
    BY DEF NoHouse
  <2>5. new # NoHouse
    BY <2>2, <2>4
  <2>6. next.houses[h] = new
    BY <1>4 DEF new
  <2> QED
    BY <2>2, <2>3, <2>5, <2>6
<1>6. Gentle(tree, mid) /\ Gentle(mid, next)
  BY <1>1, <1>2, <1>4, <1>5 DEF Gentle, Parsable
<1>7. \A v \in Users, g \in Houses :
        v \in next.houses[g].residents <=> next.users[v].house = g
  BY <1>2, <1>3, <1>4, <1>5 DEF NoHouse
<1> QED
  BY <1>3, <1>4, <1>5, <1>6, <1>7 DEF MovedIn, Agreed, Gentle

-----------------------------------------------------------------------------
(* A move on the queue.                                                    *)

\* Phone u may issue behind q: the writes of q are gentle, and lead to ahead,
\* of which the phone holds a copy.
Informed(tree, q, ahead, u) ==
  /\ q \in Seq(Puts) /\ Passage(tree, q)
  /\ ahead \in Trees /\ ahead = Applied(tree, q)
  /\ Agreed(ahead)
  /\ me[u].house = ahead.users[u].house
  /\ seen[u] = ParsedHouses(ahead.houses)

LEMMA LeaveIssued ==
  ASSUME IsFiniteSet(Users), DeviceTypeOK, NEW u \in Users,
         NEW tree, NEW q, NEW ahead, Informed(tree, q, ahead, u)
  PROVE  /\ q \o LeavePuts(u) \in Seq(Puts)
         /\ Passage(tree, q \o LeavePuts(u))
         /\ Applied(tree, q \o LeavePuts(u)) \in Trees
         /\ Left(ahead, Applied(tree, q \o LeavePuts(u)), u)
<1>. DEFINE o == ahead.users[u].house
            n == Cardinality(seen[u][o].residents)
<1>1. /\ q \in Seq(Puts) /\ Passage(tree, q)
      /\ ahead \in Trees /\ ahead = Applied(tree, q)
      /\ Agreed(ahead)
      /\ me[u].house = o
  BY DEF Informed
<1>2. o \in Houses \cup {Null}
  BY <1>1 DEF Trees, UserNode
<1>3. CASE o = Null
  <2>1. LeavePuts(u) = << >> /\ q \o << >> = q
    BY <1>1, <1>3 DEF LeavePuts
  <2> QED
    BY <1>1, <1>3, <2>1, NoHouseLeft
<1>4. CASE o # Null
  <2>1. o \in Houses /\ seen[u][o].residents = ahead.houses[o].residents
    BY <1>1, <1>2, <1>4, ParsedKeeps DEF Informed, Trees
  <2>2. PICK p \in Puts : LeavePuts(u) = <<p>> /\ Left(ahead, After(ahead, p), u)
    <3>1. CASE n > 1
      <4>1. LeavePuts(u) = <<SetResident(o, u, FALSE)>>
        BY <1>1, <1>4, <3>1 DEF LeavePuts
      <4>2. SetResident(o, u, FALSE) \in Puts
        BY <2>1 DEF SetResident, Puts
      <4> QED
        BY <1>1, <2>1, <3>1, <4>1, <4>2, LeavingLeaves
    <3>2. CASE ~(n > 1)
      <4>1. LeavePuts(u) = <<SetHouse(o, NoHouse)>>
        BY <1>1, <1>4, <3>2 DEF LeavePuts
      <4>2. SetHouse(o, NoHouse) \in Puts
        BY <2>1, NodesTyped DEF SetHouse, Puts
      <4> QED
        BY <1>1, <2>1, <3>2, <4>1, <4>2, LeavingLeaves
    <3> QED
      BY <3>1, <3>2
  <2>3. q \o LeavePuts(u) = Append(q, p)
    BY <1>1, <2>2
  <2>4. Gentle(ahead, After(ahead, p)) /\ After(ahead, p) \in Trees
    BY <1>1, <2>2, AfterTyped DEF Left
  <2>5. /\ Append(q, p) \in Seq(Puts)
        /\ Passage(tree, Append(q, p))
        /\ Applied(tree, Append(q, p)) = After(ahead, p)
    BY <1>1, <2>4, PassageGoesOn
  <2> QED
    BY <2>2, <2>3, <2>4, <2>5
<1> QED
  BY <1>3, <1>4

\* u moved to h, where nobody else's home changed.
Moved(tree, next, u, h) ==
  /\ Agreed(next)
  /\ next.users[u].house = h
  /\ \A v \in Users \ {u} : next.users[v].house = tree.users[v].house
  /\ \A g \in Houses :
       next.houses[g] # NoHouse <=>
         \/ g = h
         \/ /\ tree.houses[g] # NoHouse
            /\ g = tree.users[u].house => \E v \in Users \ {u} : tree.users[v].house = g

LEMMA LeftThenMovedIn ==
  ASSUME NEW ahead, NEW left, NEW next, NEW u \in Users, NEW h \in Houses,
         Left(ahead, left, u), MovedIn(left, next, u, h)
  PROVE  Moved(ahead, next, u, h)
BY DEF Left, MovedIn, Moved

\* Two writes that move in behind those that leave, and those of ClearDrinks.
LEMMA MoveBehind ==
  ASSUME NEW u \in Users, NEW h \in Houses, NEW tree, NEW q \in Seq(Puts),
         NEW l \in Seq(Puts), q \o l \in Seq(Puts), Passage(tree, q \o l),
         NEW left \in Trees, left = Applied(tree, q \o l),
         NEW a \in Puts, NEW b \in Puts,
         NEW mid, mid = After(left, a), NEW next, next = After(mid, b),
         Gentle(left, mid), Gentle(mid, next), MovedIn(left, next, u, h),
         NEW r, r = q \o (l \o <<a, b>> \o ClearDrinks(u))
  PROVE  /\ Passage(tree, r)
         /\ MovedIn(left, Applied(tree, r), u, h)
<1>0. \A x, y \in Seq(Puts) : q \o ((l \o x) \o y) = ((q \o l) \o x) \o y
  BY FourConcatenated
<1>. DEFINE c == SetDrinks(u, 0)
            d == SetDrinksToBuy(u, 0)
            q0 == q \o l
            q1 == Append(q0, a)
            q2 == Append(q1, b)
            q3 == Append(q2, c)
            q4 == Append(q3, d)
<1>1. c \in Puts /\ d \in Puts
  BY DEF SetDrinks, SetDrinksToBuy, Puts
<1>2. r = q4
  <2>1. r = q \o (l \o <<a, b>> \o <<c, d>>)
    BY DEF ClearDrinks
  <2>2. <<a, b>> \in Seq(Puts) /\ <<c, d>> \in Seq(Puts)
    BY <1>1
  <2>. HIDE DEF c, d
  <2>3. PICK x \in Seq(Puts), y \in Seq(Puts) : x = <<a, b>> /\ y = <<c, d>>
    BY <2>2
  <2>4. q \o ((l \o x) \o y) = (q0 \o x) \o y
    BY <1>0
  <2>5. q0 \o x \in Seq(Puts) /\ q0 \o x = q2
    BY <2>3, PairIssued
  <2>. HIDE DEF q2
  <2>6. q2 \in Seq(Puts) /\ q2 \o y = q4
    BY <1>1, <2>3, <2>5, PairIssued
  <2> QED
    BY <2>1, <2>3, <2>4, <2>5, <2>6
<1>3. q0 \in Seq(Puts) /\ Passage(tree, q0) /\ Applied(tree, q0) = left
  OBVIOUS
<1>. HIDE DEF q0, q1, q2, q3, q4, c, d
<1>4. q1 \in Seq(Puts) /\ Passage(tree, q1) /\ Applied(tree, q1) = mid
  BY <1>3, PassageGoesOn DEF q1
<1>5. q2 \in Seq(Puts) /\ Passage(tree, q2) /\ Applied(tree, q2) = next
  BY <1>4, PassageGoesOn DEF q2
<1>6. next \in Trees
  BY AfterTyped
<1>7. /\ Gentle(next, After(next, c)) /\ MovedIn(left, After(next, c), u, h)
      /\ After(next, c) \in Trees
  BY <1>1, <1>6, DrinksCleared, AfterTyped DEF c
<1>8. q3 \in Seq(Puts) /\ Passage(tree, q3) /\ Applied(tree, q3) = After(next, c)
  BY <1>1, <1>5, <1>7, PassageGoesOn DEF q3
<1>9. /\ Gentle(After(next, c), After(After(next, c), d))
      /\ MovedIn(left, After(After(next, c), d), u, h)
  BY <1>7, DrinksCleared DEF d
<1>10. Passage(tree, q4) /\ Applied(tree, q4) = After(After(next, c), d)
  BY <1>1, <1>7, <1>8, <1>9, PassageGoesOn DEF q4
<1> QED
  BY <1>2, <1>9, <1>10

LEMMA JoinIssued ==
  ASSUME IsFiniteSet(Users), DeviceTypeOK, NEW u \in Users, NEW h \in Houses,
         NEW tree, NEW q, NEW ahead, Informed(tree, q, ahead, u),
         h # ahead.users[u].house, ahead.houses[h] # NoHouse,
         NEW r, r = q \o JoinPuts(u, h)
  PROVE  Passage(tree, r) /\ Moved(ahead, Applied(tree, r), u, h)
<1>. DEFINE left == Applied(tree, q \o LeavePuts(u))
            a == SetHome(u, h)
            b == SetResident(h, u, TRUE)
<1>1. /\ q \in Seq(Puts) /\ LeavePuts(u) \in Seq(Puts) /\ q \o LeavePuts(u) \in Seq(Puts)
      /\ Passage(tree, q \o LeavePuts(u))
      /\ left \in Trees /\ Left(ahead, left, u)
  BY LeaveIssued, NamesAssumption, MovePutsTyped DEF Informed
<1>2. a \in Puts /\ b \in Puts
  BY DEF SetHome, SetResident, Puts
<1>3. r = q \o (LeavePuts(u) \o <<a, b>> \o ClearDrinks(u))
  BY DEF JoinPuts
<1>4. left.houses[h] # NoHouse
  BY <1>1 DEF Left
<1>. HIDE DEF left
<1>5. /\ Gentle(left, After(left, a)) /\ Gentle(After(left, a), After(After(left, a), b))
      /\ MovedIn(left, After(After(left, a), b), u, h)
  BY <1>1, <1>4, JoiningMovesIn
<1>. HIDE DEF a, b
<1>6. Passage(tree, r) /\ MovedIn(left, Applied(tree, r), u, h)
  BY <1>1, <1>2, <1>3, <1>5, MoveBehind DEF left
<1> QED
  BY <1>1, <1>6, LeftThenMovedIn

LEMMA CreateIssued ==
  ASSUME IsFiniteSet(Users), DeviceTypeOK, NEW u \in Users, NEW h \in Houses,
         NEW pw \in Passwords,
         NEW tree, NEW q, NEW ahead, Informed(tree, q, ahead, u),
         ahead.houses[h] = NoHouse,
         NEW r, r = q \o CreatePuts(u, h, pw)
  PROVE  Passage(tree, r) /\ Moved(ahead, Applied(tree, r), u, h)
<1>. DEFINE left == Applied(tree, q \o LeavePuts(u))
            a == SetHouse(h, NewHouse(u, pw))
            b == SetHome(u, h)
<1>1. /\ q \in Seq(Puts) /\ LeavePuts(u) \in Seq(Puts) /\ q \o LeavePuts(u) \in Seq(Puts)
      /\ Passage(tree, q \o LeavePuts(u))
      /\ left \in Trees /\ Left(ahead, left, u)
  BY LeaveIssued, MovePutsTyped DEF Informed
<1>2. a \in Puts /\ b \in Puts
  BY NodesTyped DEF SetHome, SetHouse, Puts
<1>3. r = q \o (LeavePuts(u) \o <<a, b>> \o ClearDrinks(u))
  BY DEF CreatePuts
<1>4. left.houses[h] = NoHouse
  BY <1>1 DEF Left
<1>. HIDE DEF left
<1>5. /\ Gentle(left, After(left, a)) /\ Gentle(After(left, a), After(After(left, a), b))
      /\ MovedIn(left, After(After(left, a), b), u, h)
  BY <1>1, <1>4, CreatingMovesIn
<1>. HIDE DEF a, b
<1>6. Passage(tree, r) /\ MovedIn(left, Applied(tree, r), u, h)
  BY <1>1, <1>2, <1>3, <1>5, MoveBehind DEF left
<1> QED
  BY <1>1, <1>6, LeftThenMovedIn

-----------------------------------------------------------------------------
(* One phone's turn.                                                       *)

Turn(u) ==
  /\ TypeOK
  /\ Agreed(Ahead)
  /\ Passage(Server, OnTheirWay)
  /\ Idle(u) \/ InUse(u)
  /\ OthersIdle(u)

\* The phones that wait their turn are left alone.
LEMMA OthersStayIdle ==
  ASSUME TypeOK, NEW u \in Users, OthersIdle(u), PhoneStep(u)
  PROVE  OthersIdle(u)'
<1> SUFFICES ASSUME NEW v \in Users \ {u} PROVE Idle(v)'
  BY DEF OthersIdle
<1>1. Idle(v) /\ Elsewhere(v)
  BY StepsAreLocal DEF OthersIdle
<1>2. pushed'[v] = pushed[v]
  <2>1. ASSUME ForgetStack(u) PROVE pushed'[v] = pushed[v]
    BY <2>1 DEF ForgetStack, TypeOK
  <2>2. ASSUME NEW puts, NEW step, NEW h, Move(u, puts, step, h) PROVE pushed'[v] = pushed[v]
    BY <2>2 DEF Move, TypeOK
  <2>3. ASSUME ShowProfile(u) PROVE pushed'[v] = pushed[v]
    BY <2>3 DEF ShowProfile, TypeOK
  <2>4. CASE Serve(u) \/ Handle(u)
    BY <2>1, <2>4 DEF Serve, Handle, PickerLoaded, ProfileLoaded, Saved
  <2>5. CASE Tap(u)
    <3>1. CASE \E h \in Houses, pw \in Passwords : JoinHouse(u, h, pw) \/ CreateHouse(u, h, pw)
      BY <2>2, <3>1 DEF JoinHouse, CreateHouse, SaveWithoutPicker, TypeOK
    <3>2. CASE Okay(u) \/ Back(u) \/ TabToProfile(u)
      BY <2>3, <3>2 DEF Okay, Back, TabToProfile
    <3>3. CASE TabToHome(u) \/ PushPick(u) \/ PushNew(u)
      BY <3>3 DEF TabToHome, PushPick, PushNew, TypeOK
    <3> QED
      BY <2>1, <2>5, <3>1, <3>2, <3>3 DEF Tap
  <2> QED
    BY <2>4, <2>5 DEF PhoneStep
<1> QED
  BY <1>1, <1>2 DEF Idle, Elsewhere

LEMMA TurnFacts ==
  ASSUME NEW u \in Users, Turn(u)
  PROVE  /\ Sole(u)
         /\ uplink[u] \in Seq(Puts)
         /\ OnTheirWay = uplink[u]
         /\ Server \in Trees
         /\ Ahead \in Trees
         /\ Ahead = Applied(Server, uplink[u])
         /\ uplink[u] = << >> => Ahead = Server
<1>1. Sole(u)
  BY DEF Sole, Turn, OthersIdle, Idle, TypeOK, HomeTypeOK
<1> QED
  BY <1>1, SoleFacts

LEMMA TurnGoesOn ==
  ASSUME NEW u \in Users, Turn(u), PhoneStep(u)
  PROVE  /\ OthersIdle(u)'
         /\ OnTheirWay' = uplink'[u]
         /\ Ahead' = Applied(Server', uplink'[u])
<1>1. OthersIdle(u)'
  BY OthersStayIdle DEF Turn
<1>2. \A v \in Users \ {u} : uplink'[v] = << >>
  BY <1>1 DEF OthersIdle, Idle
<1>3. OnTheirWay' = uplink'[u]
  BY <1>2, OneQueue DEF OnTheirWay
<1> QED
  BY <1>1, <1>3 DEF Ahead

\* Steps that write nothing.
LEMMA QueueKept ==
  ASSUME NEW u \in Users, Turn(u), PhoneStep(u), UNCHANGED database, uplink'[u] = uplink[u]
  PROVE  Ahead' = Ahead /\ Passage(Server, OnTheirWay)'
<1>1. Server' = Server
  BY DEF database, Server
<1>2. OnTheirWay' = OnTheirWay /\ Ahead' = Ahead
  BY <1>1, TurnFacts, TurnGoesOn
<1> QED
  BY <1>1, <1>2 DEF Turn

\* The server applies a write.
LEMMA QueueShortened ==
  ASSUME NEW u \in Users, Turn(u), PhoneStep(u), ApplyPut(u)
  PROVE  Ahead' = Ahead /\ Passage(Server, OnTheirWay)' /\ Gentle(Server, Server')
<1>1. uplink[u] # << >> /\ uplink'[u] = Tail(uplink[u])
  BY DEF ApplyPut, Turn, TypeOK, DeviceTypeOK
<1>2. Server' = After(Server, Head(uplink[u]))
  BY DEF ApplyPut, Server, After
<1>3. uplink[u] \in Seq(Puts) /\ Ahead = Applied(Server, uplink[u])
      /\ Passage(Server, uplink[u])
  BY TurnFacts DEF Turn
<1>4. /\ Passage(Server', uplink'[u])
      /\ Gentle(Server, Server')
      /\ Applied(Server', uplink'[u]) = Applied(Server, uplink[u])
  BY <1>1, <1>2, <1>3, PassageMovesOn
<1> QED
  BY <1>3, <1>4, TurnGoesOn

\* A single write is issued.
LEMMA QueueLengthened ==
  ASSUME NEW u \in Users, Turn(u), PhoneStep(u), UNCHANGED database,
         NEW p \in Puts, uplink'[u] = uplink[u] \o <<p>>, Gentle(Ahead, After(Ahead, p))
  PROVE  Ahead' = After(Ahead, p) /\ Passage(Server, OnTheirWay)'
<1>1. Server' = Server
  BY DEF database, Server
<1>2. uplink[u] \in Seq(Puts) /\ Ahead = Applied(Server, uplink[u])
      /\ Passage(Server, uplink[u])
  BY TurnFacts DEF Turn
<1>3. uplink'[u] = Append(uplink[u], p)
  BY <1>2
<1>4. /\ Passage(Server, Append(uplink[u], p))
      /\ Applied(Server, Append(uplink[u], p)) = After(Ahead, p)
  BY <1>2, PassageGoesOn
<1> QED
  BY <1>1, <1>3, <1>4, TurnGoesOn

-----------------------------------------------------------------------------
(* The phone's own state: steps that start a load.                         *)

LEMMA LoadStarts ==
  ASSUME NEW u \in Users, Turn(u), NEW next, GetAllData(u, next), UNCHANGED <<online, me>>,
         next.step \notin {"checkWeek", "show"},
         Home(u)' = Null => me[u].house = Null
  PROVE  /\ phase'[u] = "loading" /\ then'[u] = next
         /\ Process(u)'
<1>1. online[u]
  BY DEF Turn, Idle, InUse, Process
<1>2. /\ phase'[u] = "loading" /\ then'[u] = next
      /\ asked'[u] = {"users", "houses"}
      /\ online'[u] /\ me'[u] = me[u]
  BY <1>1 DEF GetAllData, Turn, TypeOK, DeviceTypeOK
<1>3. Underway(u)'
  BY <1>2 DEF Underway
<1> QED
  BY <1>2, <1>3 DEF Process, Running

\* Shown by a tap, with the home unchanged.
LEMMA ReadyOrAlert ==
  ASSUME NEW u \in Users, Turn(u), phase[u] \in {"ready", "alert", "loading", "frozen"}
  PROVE  Process(u) /\ Tabs(u) /\ (Home(u) = Null => me[u].house = Null)
BY DEF Turn, Idle, InUse, Process

LEMMA LoadingSteps ==
  ASSUME NEW u \in Users, Turn(u), PhoneStep(u), Ahead' = Ahead,
         \/ (Launch(u) \/ Refresh(u)) /\ ForgetStack(u) /\ UNCHANGED label
         \/ Okay(u) \/ Back(u) \/ TabToHome(u) \/ PushPick(u)
         \/ TabToProfile(u) /\ ShowProfile(u)
  PROVE  InUse(u)'
<1>1. Home(u)' = Home(u)
  BY DEF Home
<1>2. \A x \in {"appear", "picker", "profile"} : Run(x).step = x
  BY DEF Run
<1>3. CASE (Launch(u) \/ Refresh(u)) /\ ForgetStack(u) /\ UNCHANGED label
  <2>1. Home(u) = Null => me[u].house = Null
    BY <1>3, ReadyOrAlert DEF Launch, Refresh, Ready, Running, Turn, Idle, InUse, Process
  <2>2. GetAllData(u, Run("appear")) /\ UNCHANGED <<online, me>> /\ screen'[u] = "home"
    BY <1>3 DEF Launch, Refresh, Ready, Turn, TypeOK, DeviceTypeOK
  <2>3. phase'[u] = "loading" /\ then'[u].step = "appear" /\ Process(u)'
    BY <1>1, <1>2, <2>1, <2>2, LoadStarts
  <2>4. UNCHANGED <<pushed, picker>>
    BY <1>3, <2>3 DEF ForgetStack, Running, Launch, Refresh, Ready
  <2>5. pushed[u] = "pick" => Ready(u, "home") /\ Tabs(u)
    BY <1>3, ReadyOrAlert DEF Launch, Refresh, Turn, Idle, InUse, Process, Ready
  <2> QED
    BY <1>1, <2>2, <2>3, <2>4, <2>5 DEF InUse, Tabs, Ready, Joining
<1>4. CASE Okay(u) \/ Back(u) \/ (TabToProfile(u) /\ ShowProfile(u))
  <2>1. ShowProfile(u) /\ (Home(u) = Null => me[u].house = Null)
    BY <1>4, ReadyOrAlert DEF Okay, Back, TabToProfile, Ready
  <2>2. phase'[u] = "loading" /\ then'[u].step = "profile" /\ Process(u)'
    BY <1>1, <1>2, <2>1, LoadStarts DEF ShowProfile
  <2>3. screen'[u] = "profile" /\ pushed'[u] = "profile"
    BY <2>1 DEF ShowProfile, Turn, TypeOK, DeviceTypeOK
  <2> QED
    BY <2>2, <2>3 DEF InUse, Tabs, Ready
<1>5. CASE TabToHome(u)
  <2>1. phase[u] = "ready" /\ Tabs(u) /\ (Home(u) = Null => me[u].house = Null)
    BY <1>5, ReadyOrAlert DEF TabToHome, Ready
  <2>2. phase'[u] = "loading" /\ then'[u].step = "appear" /\ Process(u)'
    BY <1>1, <1>2, <1>5, <2>1, LoadStarts DEF TabToHome
  <2>3. screen'[u] = "home" /\ UNCHANGED <<pushed, picker>>
    BY <1>5 DEF TabToHome, Turn, TypeOK, DeviceTypeOK
  <2> QED
    BY <1>1, <2>1, <2>2, <2>3 DEF InUse, Tabs, Ready, Joining
<1>6. CASE PushPick(u)
  <2>1. Home(u) = Null => me[u].house = Null
    BY <1>6, ReadyOrAlert DEF PushPick, Ready
  <2>2. phase'[u] = "loading" /\ then'[u].step = "picker" /\ Process(u)'
    BY <1>1, <1>2, <1>6, <2>1, LoadStarts DEF PushPick
  <2>3. screen'[u] = "pick" /\ pushed'[u] = "pick" /\ picker'[u] = Null
    BY <1>6 DEF PushPick, Turn, TypeOK, DeviceTypeOK
  <2> QED
    BY <2>2, <2>3 DEF InUse, Tabs, Ready
<1> QED
  BY <1>3, <1>4, <1>5, <1>6

-----------------------------------------------------------------------------
(* Steps without a load.                                                   *)

\* The copy stays what it was.
LEMMA CopyStays ==
  ASSUME NEW u \in Users, Ahead' = Ahead, UNCHANGED <<online, asked, me, known, seen, residents>>,
         phase'[u] \in {"ready", "alert"}, online[u], Current(u),
         Home(u) = Null => me[u].house = Null
  PROVE  Process(u)'
<1>1. Home(u)' = Home(u)
  BY DEF Home
<1>2. Current(u)'
  BY <1>1 DEF Current, CopiedHome, CopiedHouses, CopiedResidents
<1> QED
  BY <1>1, <1>2 DEF Process, Running

\* A completion handler has all of its load.
LEMMA LoadedIsCurrent ==
  ASSUME NEW u \in Users, Turn(u), phase[u] = "loading", asked[u] = {}
  PROVE  /\ Current(u) /\ online[u] /\ uplink[u] = << >>
         /\ Tabs(u) /\ (Home(u) = Null => me[u].house = Null)
<1>1. Process(u) /\ Tabs(u)
  BY ReadyOrAlert
<1> QED
  BY <1>1 DEF Process, Underway, Current

LEMMA PlainSteps ==
  ASSUME NEW u \in Users, Turn(u), PhoneStep(u), Ahead' = Ahead,
         \/ PickerLoaded(u) \/ ProfileLoaded(u) \/ Saved(u)
         \/ PushNew(u)
         \/ TabToProfile(u) /\ ~ShowProfile(u)
  PROVE  InUse(u)'
<1>1. Home(u)' = Home(u)
  BY DEF Home
<1>. USE DEF Turn, TypeOK, DeviceTypeOK
<1>2. CASE PickerLoaded(u) \/ ProfileLoaded(u)
  <2>1. /\ Current(u) /\ online[u] /\ Tabs(u)
        /\ Home(u) = Null => me[u].house = Null
        /\ phase[u] = "loading" /\ then[u].step \in {"picker", "profile"}
    BY <1>2, LoadedIsCurrent DEF PickerLoaded, ProfileLoaded, Loaded
  <2>2. /\ Rest(u) /\ UNCHANGED <<online, me, screen, pushed>>
        /\ phase'[u] = "ready"
    BY <1>2 DEF PickerLoaded, ProfileLoaded, Rest
  <2>3. Process(u)'
    BY <2>1, <2>2, CopyStays DEF Rest
  <2>4. screen[u] # "home"
    BY <2>1 DEF Tabs
  <2>5. ASSUME pushed[u] = "pick" PROVE picker'[u] # Null /\ Home(u) \notin picker'[u]
    <3>1. CASE PickerLoaded(u)
      <4>1. picker'[u] = {h \in Houses : seen[u][h] # NoHouse} \ {me[u].house}
        BY <3>1 DEF PickerLoaded
      <4>2. me[u].house = Home(u) /\ Null \notin Houses
        BY <2>1, NamesAssumption DEF Current, CopiedHome
      <4>3. Home(u) \in picker'[u] => FALSE
        BY <4>1, <4>2
      <4>4. picker'[u] # Null
        BY <4>1, PickerAssumption
      <4> QED
        BY <4>3, <4>4
    <3>2. CASE ProfileLoaded(u)
      BY <2>1, <2>5, <3>2 DEF ProfileLoaded, Loaded, Tabs, Joining
    <3> QED
      BY <1>2, <3>1, <3>2
  <2> QED
    BY <1>1, <2>1, <2>2, <2>3, <2>4, <2>5 DEF InUse, Tabs, Ready, Joining
<1>3. CASE Saved(u)
  <2>1. /\ Current(u) /\ online[u] /\ Tabs(u)
        /\ Home(u) = Null => me[u].house = Null
        /\ phase[u] = "loading" /\ then[u].step \in {"joined", "created"}
    BY <1>3, LoadedIsCurrent DEF Saved, Loaded
  <2>2. /\ UNCHANGED <<online, screen, then, asked, memory, pushed, picker>>
        /\ phase'[u] = "alert"
    BY <1>3 DEF Saved
  <2>3. Process(u)'
    BY <2>1, <2>2, CopyStays DEF memory
  <2> QED
    BY <1>1, <2>1, <2>2, <2>3 DEF InUse, Tabs, Ready, Joining
<1>4. CASE PushNew(u) \/ (TabToProfile(u) /\ ~ShowProfile(u))
  <2>1. phase[u] = "ready" /\ Process(u) /\ Tabs(u)
    BY <1>4, ReadyOrAlert DEF PushNew, TabToProfile, Ready
  <2>2. UNCHANGED <<online, phase, then, asked, memory, label, picker>>
    BY <1>4 DEF PushNew, TabToProfile
  <2>3. Process(u)'
    BY <2>1, <2>2, CopyStays DEF memory, Process
  <2>4. pushed'[u] = screen'[u] /\ screen'[u] \in {"profile", "pick", "new"}
        /\ (pushed'[u] = "pick" => pushed[u] = "pick")
    BY <1>4 DEF PushNew, TabToProfile
  <2> QED
    BY <1>1, <2>1, <2>2, <2>3, <2>4 DEF InUse, Tabs, Ready, Joining
<1> QED
  BY <1>2, <1>3, <1>4

-----------------------------------------------------------------------------
(* The server's steps, and the end of the app.                             *)

LEMMA ApplyingGoesOn ==
  ASSUME NEW u \in Users, Turn(u), PhoneStep(u), Ahead' = Ahead,
         ApplyPut(u), UNCHANGED label, ForgetStack(u)
  PROVE  InUse(u)'
<1>1. Home(u)' = Home(u)
  BY DEF Home
<1>2. uplink[u] # << >> /\ UNCHANGED <<online, phase, screen, then, asked, memory, week>>
  BY DEF ApplyPut
<1>3. InUse(u) /\ UNCHANGED <<pushed, picker>>
  BY <1>2 DEF Turn, Idle, ForgetStack, Running
<1>4. getCurrentWeek' = getCurrentWeek
  BY <1>2 DEF getCurrentWeek
<1>5. Current(u) => Current(u)'
  BY <1>1, <1>2 DEF Current, CopiedHome, CopiedHouses, CopiedResidents, memory
<1>6. Underway(u) => Underway(u)'
  BY <1>1, <1>2, <1>4 DEF Underway, CopiedHome, CopiedHouses, CopiedResidents, memory
<1>7. Process(u)'
  BY <1>1, <1>2, <1>3, <1>5, <1>6 DEF InUse, Process, Running, memory
<1>8. Tabs(u)'
  BY <1>1, <1>2, <1>3 DEF InUse, Tabs, Ready, Joining, memory
<1> QED
  BY <1>7, <1>8 DEF InUse

\* An answer comes to a load or a frozen screen, and behind the phone's writes.
LEMMA AnswersCome ==
  ASSUME NEW u \in Users, Turn(u), asked[u] # {}, uplink[u] = << >>
  PROVE  /\ InUse(u) /\ phase[u] \in {"loading", "frozen"}
         /\ Ahead = Server
<1>1. phase[u] \in Phases /\ Ahead = Server
  BY TurnFacts DEF Turn, TypeOK, DeviceTypeOK
<1>2. InUse(u)
  BY DEF Turn, Idle
<1> QED
  BY <1>1, <1>2 DEF InUse, Process, Running, Current, Phases

LEMMA UsersAnswered ==
  ASSUME NEW u \in Users, u \notin Offline, Turn(u), PhoneStep(u), Ahead' = Ahead,
         ServeUsers(u), UNCHANGED label, ForgetStack(u)
  PROVE  InUse(u)'
<1>1. Home(u)' = Home(u)
  BY DEF Home
<1>2. "users" \in asked[u] /\ uplink[u] = << >>
  BY ConnectedAnswer DEF ServeUsers
<1>3. InUse(u) /\ phase[u] \in {"loading", "frozen"}
  BY <1>2, AnswersCome
<1>4. /\ UNCHANGED <<users, houses, uplink, online, phase, screen, then, seen, week>>
      /\ me'[u] = Ahead.users[u]
      /\ phase[u] = "loading" => Underway(u)'
  BY <1>3, TurnFacts, UsersCopied DEF InUse, Process
<1>5. UNCHANGED <<pushed, picker>>
  BY <1>3, <1>4 DEF ForgetStack, Running
<1>6. Process(u)'
  BY <1>1, <1>3, <1>4 DEF InUse, Process, Running, Home
<1>7. Tabs(u)'
  BY <1>1, <1>3, <1>4, <1>5 DEF InUse, Tabs, Ready, Joining
<1> QED
  BY <1>6, <1>7 DEF InUse

LEMMA HousesAnswered ==
  ASSUME NEW u \in Users, u \notin Offline, Turn(u), PhoneStep(u), Ahead' = Ahead,
         ServeHouses(u), phase'[u] # "crashed" => UNCHANGED label, ForgetStack(u)
  PROVE  InUse(u)'
<1>1. Home(u)' = Home(u)
  BY DEF Home
<1>2. "houses" \in asked[u] /\ uplink[u] = << >>
  BY ConnectedAnswer DEF ServeHouses
<1>3. InUse(u) /\ phase[u] \in {"loading", "frozen"}
  BY <1>2, AnswersCome
<1>4. /\ UNCHANGED <<users, houses, uplink, online, screen, then, me, known, week>>
      /\ phase'[u] = IF Ahead.houses = NoHouses THEN "frozen" ELSE phase[u]
      /\ phase[u] = "loading" => Underway(u)'
  BY <1>3, TurnFacts, HousesCopied DEF InUse, Process
<1>5. UNCHANGED <<pushed, picker, label>>
  BY <1>3, <1>4 DEF ForgetStack, Running
<1>6. Process(u)'
  BY <1>1, <1>2, <1>3, <1>4 DEF InUse, Process, Running
<1>7. Tabs(u)'
  BY <1>1, <1>3, <1>4, <1>5 DEF InUse, Tabs, Ready, Joining
<1> QED
  BY <1>6, <1>7 DEF InUse

LEMMA QuitIsIdle ==
  ASSUME Killable = {}, NEW u \in Users, Turn(u), Quit(u), ForgetStack(u)
  PROVE  Idle(u)' /\ uplink'[u] = uplink[u]
<1>1. Running(u) /\ online[u] /\ uplink[u] = << >>
  BY DEF Quit, Turn, Idle, InUse, Process, Running
<1>2. /\ phase'[u] = "off" /\ online'[u] /\ uplink'[u] = << >> /\ asked'[u] = {}
      /\ me'[u] = NoUser
  BY <1>1 DEF Quit, Stop, Turn, TypeOK, DeviceTypeOK
<1>3. pushed'[u] = "profile"
  BY <1>1, <1>2 DEF ForgetStack, Running, Turn, TypeOK
<1> QED
  BY <1>1, <1>2, <1>3 DEF Idle, NoUser

-----------------------------------------------------------------------------
(* Home: its completion handlers never trap, and leave a task of the house *)
(* on the label.                                                           *)

\* Nobody moved, and no house came or went.
Stayed(tree, next) ==
  /\ Agreed(next)
  /\ \A v \in Users : next.users[v].house = tree.users[v].house
  /\ \A h \in Houses : next.houses[h] # NoHouse <=> tree.houses[h] # NoHouse

LEMMA FirstWeekSet ==
  ASSUME NEW tree \in Trees, Agreed(tree), NEW h \in Houses, tree.houses[h] # NoHouse,
         NEW n \in Int, NEW next, next = After(tree, SetFirstWeek(h, n))
  PROVE  /\ Gentle(tree, next) /\ Stayed(tree, next)
         /\ next.users = tree.users /\ next.houses[h].firstWeek = n
<1>1. /\ next.users = tree.users
      /\ next.houses = [tree.houses EXCEPT ![h].firstWeek = n]
  BY DEF After, UsersAfter, HousesAfter, SetFirstWeek
<1>2. /\ tree.houses \in [Houses -> HouseNode]
      /\ tree.houses[h] \in HouseNode /\ Complete(tree.houses[h])
      /\ \A g \in Houses : tree.houses[g] # NoHouse => Complete(tree.houses[g])
  BY HomesAreOpen DEF Trees
<1>. DEFINE node == tree.houses[h]
<1>3. /\ next.houses[h] = [node EXCEPT !.firstWeek = n]
      /\ \A g \in Houses : g # h => next.houses[g] = tree.houses[g]
  BY <1>1, <1>2
<1>. HIDE DEF node
<1>4. n # Null
  BY NamesAssumption
<1>5. /\ next.houses[h].firstWeek = n
      /\ next.houses[h].password = node.password
      /\ next.houses[h].residents = node.residents
      /\ Complete(next.houses[h])
  <2>1. node \in HouseNode /\ Complete(node)
    BY <1>2 DEF node
  <2> QED
    BY <1>3, <1>4, <2>1 DEF Complete, HouseNode
<1>6. next.houses[h] # NoHouse
  BY <1>5 DEF Complete, NoHouse
<1>7. Gentle(tree, next)
  BY <1>2, <1>3, <1>5 DEF Gentle, Parsable, node
<1>8. Agreed(next)
  BY <1>1, <1>3, <1>5, <1>7 DEF Agreed, Gentle, node
<1> QED
  BY <1>1, <1>3, <1>5, <1>6, <1>7, <1>8 DEF Stayed

LEMMA DinnerSet ==
  ASSUME NEW tree \in Trees, Agreed(tree), NEW u \in Users,
         NEW b \in BOOLEAN, NEW next, next = After(tree, SetDinner(u, b))
  PROVE  /\ Gentle(tree, next) /\ Stayed(tree, next)
         /\ next.houses = tree.houses
<1>1. PICK us \in [Users -> UserNode] : us = tree.users
  BY DEF Trees
<1>2. /\ next.houses = tree.houses
      /\ next.users = [us EXCEPT ![u].dinner = b]
  BY <1>1 DEF After, UsersAfter, HousesAfter, SetDinner
<1>3. \A v \in Users : next.users[v].house = tree.users[v].house
  BY <1>1, <1>2 DEF UserNode
<1> QED
  BY <1>2, <1>3 DEF Gentle, Stayed, Agreed

LEMMA ShowingGoesOn ==
  ASSUME NEW u \in Users, Turn(u), Ahead' = Ahead, HomeHandlers(u), Shows(u), ForgetStack(u)
  PROVE  InUse(u)' /\ uplink' = uplink
<1>1. /\ phase[u] = "loading" /\ asked[u] = {}
      /\ UNCHANGED <<users, houses, online, week>>
  BY HomeHandlersDo DEF Turn, TypeOK, HomeTypeOK
<1>2. /\ phase'[u] = "ready"
      /\ UNCHANGED <<uplink, asked, known, seen, residents, screen, me>>
  BY DEF Shows, Rest, Turn, TypeOK, DeviceTypeOK
<1>3. /\ Current(u) /\ online[u] /\ Tabs(u)
      /\ Home(u) = Null => me[u].house = Null
  BY <1>1, LoadedIsCurrent
<1>4. Process(u)'
  BY <1>1, <1>2, <1>3, CopyStays
<1>5. UNCHANGED <<pushed, picker>>
  BY <1>1, <1>2 DEF ForgetStack, Running
<1>6. then[u].step \in {"appear", "checkWeek", "show"}
  BY DEF HomeHandlers, HomeAppeared, HomeWeekSet, HomeScheduleRestarted, HomeReloaded, Loaded
<1>7. Home(u)' = Home(u)
  BY DEF Home
<1>8. Tabs(u)'
  BY <1>2, <1>3, <1>5, <1>6, <1>7 DEF Tabs, Ready, Joining, Shows
<1> QED
  BY <1>2, <1>4, <1>8 DEF InUse

LEMMA RestartingGoesOn ==
  ASSUME IsFiniteSet(Users), NEW u \in Users, Turn(u), PhoneStep(u),
         HomeHandlers(u), HandlerRestarts(u), ForgetStack(u)
  PROVE  /\ InUse(u)' /\ Stayed(Ahead, Ahead')
         /\ Passage(Server, OnTheirWay)'
<1>. DEFINE h == me[u].house
            p == SetFirstWeek(h, getCurrentWeek)
<1>1. /\ phase[u] = "loading" /\ asked[u] = {}
      /\ UNCHANGED <<users, houses, online, week>>
  BY HomeHandlersDo DEF Turn, TypeOK, HomeTypeOK
<1>2. /\ Current(u) /\ online[u] /\ Tabs(u)
  BY <1>1, LoadedIsCurrent
<1>3. PICK next \in {"checkWeek", "show"} : h \in Houses /\ RestartSchedule(u, h, next)
  BY DEF HandlerRestarts
<1>4. h # Null /\ h = Home(u) /\ Ahead.houses[h] # NoHouse
  BY <1>2, <1>3, TurnFacts, HouseCopied, NamesAssumption
<1>5. getCurrentWeek \in Int /\ getCurrentWeek' = getCurrentWeek
  BY <1>1, DeviceAssumption DEF getCurrentWeek, Turn, TypeOK, DeviceTypeOK
<1>6. Ahead \in Trees /\ Agreed(Ahead)
  BY TurnFacts DEF Turn
<1>7. /\ Gentle(Ahead, After(Ahead, p)) /\ Stayed(Ahead, After(Ahead, p))
      /\ After(Ahead, p).users = Ahead.users
      /\ After(Ahead, p).houses[h].firstWeek = getCurrentWeek
  BY <1>3, <1>4, <1>5, <1>6, FirstWeekSet
<1>8. p \in Puts
  BY <1>3, <1>5 DEF SetFirstWeek, Puts
<1>9. uplink'[u] = uplink[u] \o <<p>>
  BY <1>3 DEF RestartSchedule, Issue, Turn, TypeOK, DeviceTypeOK
<1>. HIDE DEF p
<1>10. Ahead' = After(Ahead, p) /\ Passage(Server, OnTheirWay)'
  BY <1>1, <1>7, <1>8, <1>9, QueueLengthened DEF database
<1>11. /\ phase'[u] = "loading" /\ then'[u].step = next
       /\ asked'[u] = {"users", "houses"}
       /\ UNCHANGED <<screen, me, residents, label>>
  BY <1>2, <1>3 DEF RestartSchedule, GetAllData, Run, Turn, TypeOK, DeviceTypeOK
<1>12. Home(u)' = Home(u)
  BY <1>7, <1>10 DEF Home
<1>13. Underway(u)'
  BY <1>4, <1>5, <1>7, <1>10, <1>11, <1>12 DEF Underway
<1>14. Process(u)'
  BY <1>1, <1>2, <1>4, <1>11, <1>12, <1>13 DEF Process, Running
<1>15. UNCHANGED <<pushed, picker>>
  BY <1>1, <1>11 DEF ForgetStack, Running
<1>16. then[u].step \in {"appear", "checkWeek", "show"}
  BY DEF HomeHandlers, HomeAppeared, HomeWeekSet, HomeScheduleRestarted, HomeReloaded, Loaded
<1>17. Tabs(u)'
  BY <1>1, <1>2, <1>11, <1>12, <1>15, <1>16 DEF Tabs, Ready, Joining
<1> QED
  BY <1>7, <1>10, <1>14, <1>17 DEF InUse

\* The dinner switch finds the user known, and writes nothing about houses.
LEMMA SwitchingGoesOn ==
  ASSUME NEW u \in Users, Turn(u), PhoneStep(u), DinnerSwitch(u), ForgetStack(u)
  PROVE  /\ InUse(u)' /\ Stayed(Ahead, Ahead')
         /\ Passage(Server, OnTheirWay)'
         /\ UNCHANGED database
<1>0. phase[u] = "ready" /\ screen[u] = "home" /\ UNCHANGED <<online, week>>
  BY DEF DinnerSwitch, Ready
<1>2. Process(u) /\ Tabs(u) /\ Current(u)
  BY <1>0, ReadyOrAlert DEF Process
<1>1. /\ phase[u] = "ready" /\ screen[u] = "home"
      /\ UNCHANGED <<users, houses, online, week>>
  BY <1>0, <1>2 DEF DinnerSwitch, Current, CopiedHome, database
<1>3. PICK on \in BOOLEAN : Issue(u, <<SetDinner(u, on)>>)
  BY <1>2 DEF DinnerSwitch, Current, CopiedHome
<1>4. UNCHANGED <<phase, screen, then, asked, memory, label>>
  BY <1>2 DEF DinnerSwitch, Current, CopiedHome
<1>. DEFINE p == SetDinner(u, on)
<1>5. Ahead \in Trees /\ Agreed(Ahead)
  BY TurnFacts DEF Turn
<1>6. /\ Gentle(Ahead, After(Ahead, p)) /\ Stayed(Ahead, After(Ahead, p))
      /\ After(Ahead, p).houses = Ahead.houses
  BY <1>5, DinnerSet
<1>7. p \in Puts
  BY DEF SetDinner, Puts
<1>8. uplink'[u] = uplink[u] \o <<p>>
  BY <1>3 DEF Issue, Turn, TypeOK, DeviceTypeOK
<1>. HIDE DEF p
<1>9. Ahead' = After(Ahead, p) /\ Passage(Server, OnTheirWay)'
  BY <1>1, <1>6, <1>7, <1>8, QueueLengthened DEF database
<1>10. Home(u)' = Home(u) /\ Ahead'.houses = Ahead.houses
  BY <1>6, <1>9 DEF Home, Stayed
<1>11. Current(u)'
  BY <1>2, <1>4, <1>10 DEF Current, CopiedHome, CopiedHouses, CopiedResidents, memory
<1>12. Process(u)'
  BY <1>1, <1>2, <1>4, <1>10, <1>11 DEF Process, Running, memory
<1>13. UNCHANGED <<pushed, picker>>
  BY <1>1, <1>4 DEF ForgetStack, Running
<1>14. Tabs(u)'
  BY <1>2, <1>4, <1>10, <1>13 DEF Tabs, Ready, Joining, memory
<1> QED
  BY <1>1, <1>6, <1>9, <1>12, <1>14 DEF InUse, database

-----------------------------------------------------------------------------
(* The moves.                                                              *)

\* A screen that takes taps decides on a copy of the tree ahead.
LEMMA ReadyIsInformed ==
  ASSUME NEW u \in Users, Turn(u), phase[u] = "ready"
  PROVE  /\ Informed(Server, uplink[u], Ahead, u)
         /\ CanLeave(u) /\ online[u] /\ Tabs(u)
<1>1. Process(u) /\ Tabs(u) /\ Current(u)
  BY ReadyOrAlert DEF Process
<1>2. /\ uplink[u] \in Seq(Puts) /\ Ahead \in Trees /\ Ahead = Applied(Server, uplink[u])
      /\ Passage(Server, uplink[u]) /\ Agreed(Ahead)
  BY TurnFacts DEF Turn
<1>3. me[u].house = Ahead.users[u].house /\ seen[u] = ParsedHouses(Ahead.houses)
  BY <1>1 DEF Current, CopiedHome, CopiedHouses, Home
<1>4. CanLeave(u)
  <2> SUFFICES ASSUME me[u].house # Null PROVE seen[u][me[u].house] # NoHouse
    BY DEF CanLeave
  <2>1. me[u].house \in Houses
    BY DEF Turn, TypeOK, DeviceTypeOK, UserNode
  <2>2. Ahead.houses[me[u].house] # NoHouse /\ Complete(Ahead.houses[me[u].house])
    BY <1>2, <1>3, <2>1, HomesAreOpen
  <2> QED
    BY <1>2, <1>3, <2>1, <2>2, ParsedKeeps DEF Trees
<1> QED
  BY <1>1, <1>2, <1>3, <1>4 DEF Informed, Process

LEMMA MovingGoesOn ==
  ASSUME NEW u \in Users, Turn(u), PhoneStep(u), phase[u] = "ready",
         NEW step \in {"joined", "created"}, NEW h \in Houses, NEW puts \in Seq(Puts),
         Move(u, puts, step, h),
         screen[u] = IF step = "joined" THEN "pick" ELSE "new",
         step = "joined" => picker[u] # Null,
         NEW r, r = uplink[u] \o puts,
         Passage(Server, r), Moved(Ahead, Applied(Server, r), u, h)
  PROVE  /\ InUse(u)' /\ Moved(Ahead, Ahead', u, h)
         /\ Passage(Server, OnTheirWay)'
<1>1. CanLeave(u) /\ online[u] /\ Tabs(u)
  BY ReadyIsInformed
<1>2. /\ Issue(u, puts)
      /\ GetAllData(u, [step |-> step, house |-> h])
      /\ UNCHANGED <<screen, me, residents, label, pushed, picker, users, houses, online, week>>
  BY <1>1 DEF Move, database
<1>3. uplink'[u] = r
  BY <1>2 DEF Issue, Turn, TypeOK, DeviceTypeOK
<1>4. Server' = Server
  BY <1>2 DEF Server
<1>5. Ahead' = Applied(Server, r) /\ OnTheirWay' = r
  BY <1>3, <1>4, TurnGoesOn
<1>6. Home(u)' = h /\ h # Null
  BY <1>5, NamesAssumption DEF Home, Moved
<1>7. phase'[u] = "loading" /\ then'[u].step = step /\ Process(u)'
  BY <1>2, <1>6, LoadStarts
<1>8. Tabs(u)'
  BY <1>1, <1>2, <1>7 DEF Tabs, Ready, Joining
<1> QED
  BY <1>4, <1>5, <1>7, <1>8 DEF InUse

LEMMA JoiningGoesOn ==
  ASSUME IsFiniteSet(Users), NEW u \in Users, Turn(u), PhoneStep(u),
         NEW h \in Houses, NEW pw \in Passwords, JoinHouse(u, h, pw)
  PROVE  /\ InUse(u)' /\ Moved(Ahead, Ahead', u, h)
         /\ Passage(Server, OnTheirWay)'
         /\ h # Ahead.users[u].house /\ Ahead.houses[h] # NoHouse
<1>1. phase[u] = "ready" /\ screen[u] = "pick"
  BY DEF JoinHouse, Ready
<1>2. Informed(Server, uplink[u], Ahead, u) /\ Tabs(u)
  BY <1>1, ReadyIsInformed
<1>3. pushed[u] = "pick" /\ picker[u] # Null /\ Home(u) \notin picker[u]
  BY <1>1, <1>2 DEF Tabs, Joining
<1>4. h \in picker[u] /\ pw = seen[u][h].password /\ Move(u, JoinPuts(u, h), "joined", h)
  BY <1>3 DEF JoinHouse
<1>5. h # Ahead.users[u].house
  BY <1>3, <1>4 DEF Home
<1>6. Ahead.houses[h] # NoHouse
  <2>1. seen[u][h].password # Null
    BY <1>4, NamesAssumption
  <2>2. seen[u][h].password = Ahead.houses[h].password
    BY <1>2, ParsedKeeps DEF Informed, Trees
  <2> QED
    BY <2>1, <2>2 DEF NoHouse
<1>7. DeviceTypeOK /\ JoinPuts(u, h) \in Seq(Puts)
  BY MovePutsTyped DEF Turn, TypeOK
<1>. DEFINE r == uplink[u] \o JoinPuts(u, h)
<1>8. Passage(Server, r) /\ Moved(Ahead, Applied(Server, r), u, h)
  BY <1>2, <1>5, <1>6, <1>7, JoinIssued
<1>. HIDE DEF r
<1>9. InUse(u)' /\ Moved(Ahead, Ahead', u, h) /\ Passage(Server, OnTheirWay)'
  BY <1>1, <1>3, <1>4, <1>7, <1>8, MovingGoesOn DEF r
<1> QED
  BY <1>5, <1>6, <1>9

LEMMA CreatingGoesOn ==
  ASSUME IsFiniteSet(Users), NEW u \in Users, Turn(u), PhoneStep(u),
         NEW h \in Houses, NEW pw \in Passwords, CreateHouse(u, h, pw)
  PROVE  /\ InUse(u)' /\ Moved(Ahead, Ahead', u, h)
         /\ Passage(Server, OnTheirWay)'
         /\ Ahead.houses[h] = NoHouse
<1>1. phase[u] = "ready" /\ screen[u] = "new"
  BY DEF CreateHouse, Ready
<1>2. Informed(Server, uplink[u], Ahead, u)
  BY <1>1, ReadyIsInformed
<1>3. seen[u][h] = NoHouse /\ Move(u, CreatePuts(u, h, pw), "created", h)
  BY DEF CreateHouse
<1>4. Ahead.houses[h] = NoHouse
  BY <1>2, <1>3, ParsedKeeps, HomesAreOpen DEF Informed, Trees
<1>5. DeviceTypeOK /\ CreatePuts(u, h, pw) \in Seq(Puts)
  BY MovePutsTyped DEF Turn, TypeOK
<1>. DEFINE r == uplink[u] \o CreatePuts(u, h, pw)
<1>6. Passage(Server, r) /\ Moved(Ahead, Applied(Server, r), u, h)
  BY <1>2, <1>4, <1>5, CreateIssued
<1>. HIDE DEF r
<1>7. InUse(u)' /\ Moved(Ahead, Ahead', u, h) /\ Passage(Server, OnTheirWay)'
  BY <1>1, <1>3, <1>5, <1>6, MovingGoesOn DEF r
<1> QED
  BY <1>4, <1>7

-----------------------------------------------------------------------------
(* A phone's step in its turn, and all there is to say of it.              *)

Onward(u) ==
  \/ Stayed(Ahead, Ahead')
  \/ \E h \in Houses :
       /\ Moved(Ahead, Ahead', u, h)
       /\ \/ Ahead.houses[h] # NoHouse /\ h # Ahead.users[u].house
          \/ Ahead.houses[h] = NoHouse

LEMMA StayedPut ==
  ASSUME NEW u \in Users, Turn(u), Ahead' = Ahead
  PROVE  Stayed(Ahead, Ahead')
BY DEF Turn, Stayed

LEMMA TurnStep ==
  ASSUME IsFiniteSet(Users), Killable = {}, Offline = {},
         NEW u \in Users, Turn(u), PhoneStep(u)
  PROVE  /\ Idle(u)' \/ InUse(u)'
         /\ OthersIdle(u)'
         /\ Passage(Server, OnTheirWay)'
         /\ Onward(u)
         /\ Gentle(Server, Server') \/ UNCHANGED database
<1>1. OthersIdle(u)'
  BY OthersStayIdle DEF Turn
<1>2. ASSUME UNCHANGED database, uplink'[u] = uplink[u]
      PROVE  Ahead' = Ahead /\ Passage(Server, OnTheirWay)' /\ Onward(u)
  BY <1>2, QueueKept, StayedPut DEF Onward
<1>3. CASE Serve(u)
  <2>1. CASE ApplyPut(u) /\ UNCHANGED label
    BY <1>1, <1>3, <2>1, QueueShortened, StayedPut, ApplyingGoesOn DEF Serve, Onward
  <2>2. CASE ServeUsers(u) /\ UNCHANGED label
    <3>1. UNCHANGED database /\ uplink'[u] = uplink[u]
      BY <2>2 DEF ServeUsers
    <3> QED
      BY <1>1, <1>2, <1>3, <2>2, <3>1, UsersAnswered DEF Serve
  <2>3. CASE ServeHouses(u) /\ (phase'[u] # "crashed" => UNCHANGED label)
    <3>1. UNCHANGED database /\ uplink'[u] = uplink[u]
      BY <2>3, ConnectedAnswer DEF ServeHouses, Crash, Stop, Turn, TypeOK, DeviceTypeOK
    <3> QED
      BY <1>1, <1>2, <1>3, <2>3, <3>1, HousesAnswered DEF Serve
  <2> QED
    BY <1>3, <2>1, <2>2, <2>3 DEF Serve, Background
<1>4. CASE HomeHandlers(u) /\ ForgetStack(u)
  <2>1. UNCHANGED database
    BY <1>4, HomeHandlersDo DEF Turn, TypeOK, HomeTypeOK, database
  <2>2. CASE Shows(u)
    <3>1. uplink'[u] = uplink[u]
      BY <2>2 DEF Shows, Rest
    <3> QED
      BY <1>1, <1>2, <1>4, <2>1, <2>2, <3>1, ShowingGoesOn
  <2>3. CASE HandlerRestarts(u)
    BY <1>1, <1>4, <2>1, <2>3, RestartingGoesOn DEF Onward
  <2>4. Underway(u)
    BY <1>4, HomeHandlersDo, ReadyOrAlert DEF Turn, TypeOK, HomeTypeOK, Process
  <2> QED
    BY <1>4, <2>2, <2>3, <2>4, TurnFacts, HandlersShow
<1>5. CASE DinnerSwitch(u) /\ ForgetStack(u)
  BY <1>1, <1>5, SwitchingGoesOn DEF Onward
<1>6. CASE \/ (Launch(u) \/ Refresh(u)) /\ ForgetStack(u) /\ UNCHANGED label
           \/ Okay(u) \/ Back(u) \/ TabToHome(u) \/ PushPick(u)
           \/ TabToProfile(u) /\ ShowProfile(u)
  <2>1. UNCHANGED database /\ uplink'[u] = uplink[u]
    BY <1>6 DEF Launch, Refresh, Okay, Back, TabToHome, PushPick, ShowProfile
  <2> QED
    BY <1>1, <1>2, <1>6, <2>1, LoadingSteps
<1>7. CASE \/ PickerLoaded(u) \/ ProfileLoaded(u) \/ Saved(u)
           \/ PushNew(u)
           \/ TabToProfile(u) /\ ~ShowProfile(u)
  <2>1. UNCHANGED database /\ uplink'[u] = uplink[u]
    BY <1>7 DEF PickerLoaded, ProfileLoaded, Saved, PushNew, TabToProfile, Rest
  <2> QED
    BY <1>1, <1>2, <1>7, <2>1, PlainSteps
<1>8. CASE Quit(u) /\ ForgetStack(u)
  <2>1. UNCHANGED database
    BY <1>8 DEF Quit
  <2> QED
    BY <1>1, <1>2, <1>8, <2>1, QuitIsIdle
<1>9. CASE \E h \in Houses, pw \in Passwords : JoinHouse(u, h, pw) \/ CreateHouse(u, h, pw)
  <2>1. PICK h \in Houses, pw \in Passwords : JoinHouse(u, h, pw) \/ CreateHouse(u, h, pw)
    BY <1>9
  <2>2. UNCHANGED database
    BY <2>1 DEF JoinHouse, CreateHouse, Move, SaveWithoutPicker
  <2>3. CASE JoinHouse(u, h, pw)
    BY <1>1, <2>2, <2>3, JoiningGoesOn DEF Onward
  <2>4. CASE CreateHouse(u, h, pw)
    BY <1>1, <2>2, <2>4, CreatingGoesOn DEF Onward
  <2> QED
    BY <2>1, <2>3, <2>4
<1>10. ~LoseConnection(u) /\ ~RegainConnection(u)
  BY DEF LoseConnection, RegainConnection, Turn, Idle, InUse, Process
<1>11. CASE Handle(u)
  BY <1>4, <1>7, <1>11 DEF Handle
<1>12. CASE Tap(u)
  <2>1. CASE (HomeTaps(u) \/ Lifecycle(u)) /\ ForgetStack(u)
    <3>1. \/ DinnerSwitch(u) /\ ForgetStack(u)
          \/ (Launch(u) \/ Refresh(u)) /\ ForgetStack(u) /\ UNCHANGED label
          \/ Quit(u) /\ ForgetStack(u)
      BY <1>10, <2>1 DEF HomeTaps, Lifecycle, Refresh
    <3> QED
      BY <1>5, <1>6, <1>8, <3>1
  <2>2. CASE Okay(u) \/ Back(u) \/ TabToHome(u) \/ PushPick(u)
    BY <1>6, <2>2
  <2>3. CASE PushNew(u)
    BY <1>7, <2>3
  <2>4. CASE TabToProfile(u)
    <3>1. CASE ShowProfile(u)
      BY <1>6, <2>4, <3>1
    <3>2. CASE ~ShowProfile(u)
      BY <1>7, <2>4, <3>2
    <3> QED
      BY <3>1, <3>2
  <2> QED
    BY <1>9, <1>12, <2>1, <2>2, <2>3, <2>4 DEF Tap
<1> QED
  BY <1>3, <1>11, <1>12 DEF PhoneStep

\* A new week begins between loads.
LEMMA WeekGoesOn ==
  ASSUME TurnsInv, Quiet, Calendar
  PROVE  Turns' /\ Ahead' = Ahead /\ UNCHANGED database
<1>1. /\ UNCHANGED <<users, houses, uplink, online, phase, screen, then, asked>>
      /\ UNCHANGED <<me, known, seen, residents, label, pushed, picker>>
  BY DEF Calendar, NewWeek, database, memory
<1>2. Server' = Server /\ OnTheirWay' = OnTheirWay
  BY <1>1 DEF Server, OnTheirWay
<1>3. Ahead' = Ahead
  BY <1>2 DEF Ahead
<1>4. \A u \in Users : Home(u)' = Home(u)
  BY <1>3 DEF Home
<1>5. ASSUME NEW u \in Users PROVE Idle(u)' = Idle(u)
  BY <1>1 DEF Idle
<1>6. ASSUME NEW u \in Users, InUse(u) PROVE InUse(u)'
  <2>1. phase[u] # "loading"
    BY DEF Quiet
  <2>2. Current(u) => Current(u)'
    BY <1>1, <1>3, <1>4 DEF Current, CopiedHome, CopiedHouses, CopiedResidents
  <2>3. Process(u)'
    BY <1>1, <1>3, <1>4, <1>6, <2>1, <2>2 DEF InUse, Process, Running
  <2>4. Tabs(u)'
    BY <1>1, <1>4, <1>6 DEF InUse, Tabs, Ready, Joining
  <2> QED
    BY <2>3, <2>4 DEF InUse
<1>7. \A u \in Users : OthersIdle(u) => OthersIdle(u)'
  BY <1>5 DEF OthersIdle
<1>8. \A u \in Users : (Idle(u) \/ (InUse(u) /\ OthersIdle(u)))'
  BY <1>5, <1>6, <1>7 DEF TurnsInv, Turns
<1> QED
  BY <1>1, <1>2, <1>3, <1>8 DEF TurnsInv, Turns, database

\* The database a run starts from.
LEMMA InitTurns ==
  ASSUME Init
  PROVE  Turns
<1>1. PICK homes \in [Users -> Houses \cup {Null}] :
        /\ users = [u \in Users |-> [NoUser EXCEPT !.house = homes[u]]]
        /\ houses = [h \in Houses |-> InitialHouse(homes, h)]
  BY DeviceAssumption DEF Init, HomeInit, DeviceInit
<1>2. OnTheirWay = << >>
  BY DEF OnTheirWay, Init, HomeInit, DeviceInit
<1>3. Ahead = Server
  BY <1>2, AppliedNothing DEF Ahead
<1>4. \A u \in Users : users[u].house = homes[u]
  BY <1>1 DEF NoUser
<1>5. ASSUME NEW h \in Houses
      PROVE  /\ \A v \in Users : v \in houses[h].residents <=> homes[v] = h
             /\ houses[h] # NoHouse => Complete(houses[h])
  <2>1. CASE \A u \in Users : homes[u] # h
    BY <1>1, <2>1 DEF InitialHouse, NoHouse
  <2>2. CASE ~(\A u \in Users : homes[u] # h)
    <3>1. /\ houses[h].residents = {u \in Users : homes[u] = h}
          /\ houses[h].tasks = InitialTasks \cup {DefaultTask}
          /\ houses[h].password = CHOOSE p \in Passwords : TRUE
          /\ houses[h].drinks = InitialStock
          /\ houses[h].firstWeek = ((FirstWeek - 1) % WeeksInYear) + 1
      BY <1>1, <2>2 DEF InitialHouse
    <3>2. (CHOOSE p \in Passwords : TRUE) \in Passwords
      BY NamesAssumption
    <3>3. ((FirstWeek - 1) % WeeksInYear) + 1 \in Int /\ InitialStock \in Int
      BY DeviceAssumption
    <3>4. Null \notin Passwords /\ Null \notin Int
      BY NamesAssumption
    <3>5. Complete(houses[h])
      BY <2>2, <3>1, <3>2, <3>3, <3>4 DEF Complete
    <3> QED
      BY <3>1, <3>5
  <2> QED
    BY <2>1, <2>2
<1>6. Agreed(Server)
  BY <1>4, <1>5 DEF Agreed, Server, Parsable
<1>7. Passage(Server, OnTheirWay)
  <2>1. Len(OnTheirWay) = 0
    BY <1>2
  <2> QED
    BY <1>6, <2>1 DEF Passage, Agreed
<1>8. \A u \in Users : Idle(u)
  BY DEF Idle, Init, HomeInit, DeviceInit, NoUser
<1> QED
  BY <1>3, <1>6, <1>7, <1>8 DEF Turns

LEMMA StutteringGoesOn ==
  ASSUME TurnsInv, UNCHANGED vars
  PROVE  Turns' /\ Ahead' = Ahead
<1>1. /\ UNCHANGED <<users, houses, uplink, online, phase, screen, then, asked>>
      /\ UNCHANGED <<me, known, seen, residents, label, pushed, picker, week>>
  BY DEF vars, homeVars, deviceVars
<1>2. Server' = Server /\ OnTheirWay' = OnTheirWay /\ getCurrentWeek' = getCurrentWeek
  BY <1>1 DEF Server, OnTheirWay, getCurrentWeek
<1>3. Ahead' = Ahead
  BY <1>2 DEF Ahead
<1>4. ASSUME NEW u \in Users PROVE Idle(u)' = Idle(u)
  BY <1>1 DEF Idle
<1>5. ASSUME NEW u \in Users, InUse(u) PROVE InUse(u)'
  <2>1. Home(u)' = Home(u)
    BY <1>3 DEF Home
  <2>2. Current(u) => Current(u)'
    BY <1>1, <1>3, <2>1 DEF Current, CopiedHome, CopiedHouses, CopiedResidents
  <2>3. Underway(u) => Underway(u)'
    BY <1>1, <1>2, <1>3, <2>1 DEF Underway, CopiedHome, CopiedHouses, CopiedResidents
  <2>4. Process(u)'
    BY <1>1, <1>3, <1>5, <2>1, <2>2, <2>3 DEF InUse, Process, Running
  <2>5. Tabs(u)'
    BY <1>1, <1>5, <2>1 DEF InUse, Tabs, Ready, Joining
  <2> QED
    BY <2>4, <2>5 DEF InUse
<1>6. \A u \in Users : OthersIdle(u) => OthersIdle(u)'
  BY <1>4 DEF OthersIdle
<1>7. \A u \in Users : (Idle(u) \/ (InUse(u) /\ OthersIdle(u)))'
  BY <1>4, <1>5, <1>6 DEF TurnsInv, Turns
<1> QED
  BY <1>2, <1>3, <1>7 DEF TurnsInv, Turns

\* A phone that may step is alone, so it is its turn.
LEMMA AloneIsTurn ==
  ASSUME TurnsInv, NEW u \in Users, Alone(u)
  PROVE  Turn(u)
<1>1. ASSUME NEW v \in Users \ {u} PROVE Idle(v)
  <2>1. ~InUse(v)
    BY DEF Alone, InUse, Process
  <2> QED
    BY <2>1 DEF TurnsInv, Turns
<1> QED
  BY <1>1 DEF TurnsInv, Turns, Turn, OthersIdle

\* What every step of a use in turns does to the tree ahead.
LEMMA SerialStep ==
  ASSUME IsFiniteSet(Users), Killable = {}, Offline = {}, TurnsInv, [SerialNext]_vars
  PROVE  /\ TurnsInv'
         /\ Ahead' = Ahead \/ \E u \in Users : Onward(u)
         /\ Gentle(Server, Server') \/ UNCHANGED database
<1>1. TypeOK'
  <2>1. [Next]_vars
    BY DEF SerialNext, Next
  <2> QED
    BY <2>1, NextTyped DEF TurnsInv
<1>2. CASE UNCHANGED vars
  BY <1>1, <1>2, StutteringGoesOn DEF TurnsInv, vars, homeVars, deviceVars, database
<1>3. CASE Quiet /\ Calendar
  BY <1>1, <1>3, WeekGoesOn DEF TurnsInv
<1>4. CASE \E u \in Users : Alone(u) /\ PhoneStep(u)
  <2>1. PICK u \in Users : Alone(u) /\ PhoneStep(u)
    BY <1>4
  <2>2. Turn(u)
    BY <2>1, AloneIsTurn
  <2>3. /\ Idle(u)' \/ InUse(u)'
        /\ OthersIdle(u)'
        /\ Passage(Server, OnTheirWay)'
        /\ Onward(u)
        /\ Gentle(Server, Server') \/ UNCHANGED database
    BY <2>1, <2>2, TurnStep
  <2>4. Agreed(Ahead)'
    BY <2>3 DEF Onward, Stayed, Moved
  <2>5. ASSUME NEW v \in Users PROVE (Idle(v) \/ (InUse(v) /\ OthersIdle(v)))'
    BY <2>3 DEF OthersIdle
  <2> QED
    BY <1>1, <2>3, <2>4, <2>5 DEF TurnsInv, Turns
<1> QED
  BY <1>2, <1>3, <1>4 DEF SerialNext

-----------------------------------------------------------------------------
(* What a use in turns can rely on.                                        *)

(* Used in turns, with no write ever lost, the phone in use is up to date  *)
(* about its house and everybody else's app is closed; the two records of  *)
(* who lives where agree once the writes on their way are applied, and     *)
(* each of those writes leaves every house complete.                       *)
THEOREM TurnsInvariant ==
  ASSUME IsFiniteSet(Users), Killable = {}, Offline = {}
  PROVE  SerialSpec => []TurnsInv
<1>1. Init => TurnsInv
  BY InitTyped, InitTurns DEF TurnsInv
<1>2. TurnsInv /\ [SerialNext]_vars => TurnsInv'
  BY SerialStep
<1> QED
  BY <1>1, <1>2, PTL DEF SerialSpec

(* Used in turns, users/<uid>/house and houses/<name>/residents tell the   *)
(* same story whenever all writes are applied, and no house is left empty: *)
(* the writes of a move, decided on the copy of the last load, add up.     *)
THEOREM RecordsAgreeInTurns ==
  ASSUME IsFiniteSet(Users), Killable = {}, Offline = {}
  PROVE  SerialSpec => []RecordsAgree
<1>1. TurnsInv => RecordsAgree
  <2> SUFFICES ASSUME TurnsInv, AtRest PROVE RecordsAgree
    BY DEF RecordsAgree
  <2>1. OnTheirWay = << >>
    BY DEF AtRest, OnTheirWay
  <2>2. Ahead = Server
    BY <2>1, AppliedNothing DEF Ahead
  <2>3. Agreed(Server)
    BY <2>2 DEF TurnsInv, Turns
  <2>4. \A u \in Users, h \in Houses : u \in houses[h].residents <=> users[u].house = h
    BY <2>3 DEF Agreed, Server
  <2>5. \A h \in Houses : houses[h] # NoHouse => houses[h].residents # {}
    BY <2>3 DEF Agreed, Server, Parsable, Complete
  <2> QED
    BY <2>4, <2>5 DEF RecordsAgree
<1> QED
  BY <1>1, TurnsInvariant, PTL

(* Used in turns, getHouses never meets a house with a child missing, not  *)
(* even between two writes of one move.                                    *)
THEOREM NoPartialHouseInTurns ==
  ASSUME IsFiniteSet(Users), Killable = {}, Offline = {}
  PROVE  SerialSpec => []NoPartialHouse
<1>1. TurnsInv => NoPartialHouse
  BY DEF TurnsInv, Turns, Passage, Server, NoPartialHouse
<1> QED
  BY <1>1, TurnsInvariant, PTL

(* Used in turns, PickHouse's rows, computed once, never come to hold the  *)
(* user's own house while the screen takes taps.                           *)
THEOREM OwnHouseNotShownInTurns ==
  ASSUME IsFiniteSet(Users), Killable = {}, Offline = {}
  PROVE  SerialSpec => []OwnHouseNotShown
<1>1. TurnsInv => OwnHouseNotShown
  <2> SUFFICES ASSUME TurnsInv, NEW u \in Users, Ready(u, "pick"), picker[u] # Null
               PROVE  me[u].house \notin picker[u]
    BY DEF OwnHouseNotShown
  <2>1. InUse(u) /\ phase[u] = "ready" /\ screen[u] = "pick"
    BY DEF TurnsInv, Turns, Idle, Ready
  <2>2. pushed[u] = "pick" /\ Home(u) \notin picker[u]
    BY <2>1 DEF InUse, Tabs, Joining
  <2>3. me[u].house = Home(u)
    BY <2>1 DEF InUse, Process, Current, CopiedHome
  <2> QED
    BY <2>2, <2>3
<1> QED
  BY <1>1, TurnsInvariant, PTL

(* Used in turns, Home names a task of the house the user lives in, or the *)
(* last one shown when that house has no tasks at all.                     *)
THEOREM LabelIsOwnInTurns ==
  ASSUME IsFiniteSet(Users), Killable = {}, Offline = {}
  PROVE  SerialSpec => []LabelIsOwn
<1>1. TurnsInv => LabelIsOwn
  <2> SUFFICES ASSUME TurnsInv, NEW u \in Users, Ready(u, "home"), label[u] # Null
               PROVE  label[u] = me[u].house \/ seen[u][me[u].house].tasks = {}
    BY DEF LabelIsOwn
  <2>1. InUse(u)
    BY DEF TurnsInv, Turns, Idle, Ready
  <2> QED
    BY <2>1 DEF InUse, Tabs
<1> QED
  BY <1>1, TurnsInvariant, PTL

(* Used in turns, a house is removed or created, never replaced: nobody's  *)
(* house changes its password.                                             *)
THEOREM HouseNotReplacedInTurns ==
  ASSUME IsFiniteSet(Users), Killable = {}, Offline = {}
  PROVE  SerialSpec => HouseNotReplaced
<1>. DEFINE Kept == \A h \in Houses :
              houses[h] # NoHouse /\ houses'[h] # NoHouse
                => houses'[h].password = houses[h].password
<1>1. TurnsInv /\ [SerialNext]_vars => [Kept]_vars
  <2> SUFFICES ASSUME TurnsInv, [SerialNext]_vars PROVE Kept
    OBVIOUS
  <2>1. Gentle(Server, Server') \/ UNCHANGED database
    BY SerialStep
  <2> QED
    BY <2>1 DEF Gentle, Server, database
<1> QED
  BY <1>1, TurnsInvariant, PTL DEF SerialSpec, HouseNotReplaced

-----------------------------------------------------------------------------
(* Nothing freezes as long as there is a house, and a move keeps one open. *)

Housed == \E u \in Users : Ahead.users[u].house # Null

LEMMA HousedIsOpen ==
  ASSUME TurnsInv, Housed
  PROVE  Ahead.houses # NoHouses
<1>1. PICK u \in Users : Ahead.users[u].house # Null
  BY DEF Housed
<1>2. Ahead \in Trees /\ Agreed(Ahead)
  BY TreeAhead DEF TurnsInv, Turns, TypeOK
<1>3. PICK h \in Houses : Ahead.users[u].house = h
  BY <1>1, <1>2 DEF Trees, UserNode
<1>4. Ahead.houses[h] # NoHouse
  BY <1>2, <1>3, HomesAreOpen
<1> QED
  BY <1>4 DEF NoHouses

LEMMA StaysHoused ==
  ASSUME Housed, Ahead' = Ahead \/ \E u \in Users : Onward(u)
  PROVE  Housed'
<1>1. PICK v \in Users : Ahead.users[v].house # Null
  BY DEF Housed
<1>2. CASE Ahead' = Ahead
  BY <1>1, <1>2 DEF Housed
<1>3. CASE \E u \in Users : Onward(u)
  <2>1. PICK u \in Users : Onward(u)
    BY <1>3
  <2>2. CASE Stayed(Ahead, Ahead')
    BY <1>1, <2>2 DEF Stayed, Housed
  <2>3. CASE \E h \in Houses : Moved(Ahead, Ahead', u, h)
    <3>1. PICK h \in Houses : Ahead'.users[u].house = h
      BY <2>3 DEF Moved
    <3>2. h # Null
      BY NamesAssumption
    <3> QED
      BY <3>1, <3>2 DEF Housed
  <2> QED
    BY <2>1, <2>2, <2>3 DEF Onward
<1> QED
  BY <1>2, <1>3

(* Used in turns, starting where somebody has a house, no force unwrap     *)
(* fails and no load waits forever for a first house: a move that removes  *)
(* the house left behind is towards another one.                           *)
THEOREM NeverStuckInTurns ==
  ASSUME IsFiniteSet(Users), Killable = {}, Offline = {},
         \A homes \in InitialHomes : \E u \in Users : homes[u] # Null
  PROVE  SerialSpec => []NeverStuck
<1>1. Init => Housed
  <2> SUFFICES ASSUME Init PROVE Housed
    OBVIOUS
  <2>1. PICK homes \in InitialHomes :
          users = [u \in Users |-> [NoUser EXCEPT !.house = homes[u]]]
    BY DEF Init, HomeInit, DeviceInit
  <2>2. PICK u \in Users : homes[u] # Null
    BY <2>1
  <2>3. users[u].house # Null
    BY <2>1, <2>2 DEF NoUser
  <2>4. OnTheirWay = << >>
    BY DEF OnTheirWay, Init, HomeInit, DeviceInit
  <2>5. Ahead = Server
    BY <2>4, AppliedNothing DEF Ahead
  <2> QED
    BY <2>3, <2>5 DEF Housed, Server
<1>2. TurnsInv /\ Housed /\ [SerialNext]_vars => Housed'
  BY SerialStep, StaysHoused
<1>3. TurnsInv /\ Housed => NeverStuck
  <2> SUFFICES ASSUME TurnsInv, Housed, NEW u \in Users
               PROVE  phase[u] \notin {"crashed", "frozen"}
    BY DEF NeverStuck
  <2>1. CASE Idle(u)
    BY <2>1 DEF Idle
  <2>2. CASE InUse(u)
    BY <2>2, HousedIsOpen DEF InUse, Process, Running
  <2> QED
    BY <2>1, <2>2 DEF TurnsInv, Turns
<1> QED
  BY <1>1, <1>2, <1>3, TurnsInvariant, PTL DEF SerialSpec

-----------------------------------------------------------------------------
(* Moving house is atomic.                                                 *)

LEMMA InitTenancy ==
  ASSUME Init
  PROVE  Abstract!Init
<1>1. Ahead \in Trees /\ Agreed(Ahead)
  BY InitTyped, InitTurns, TreeAhead DEF Turns, TypeOK
<1>2. [u \in Users |-> Ahead.users[u].house] \in [Users -> Houses \cup {Null}]
  BY <1>1 DEF Trees, UserNode
<1>3. \A h \in Houses :
        Ahead.houses[h] # NoHouse <=> \E u \in Users : Ahead.users[u].house = h
  BY <1>1, HomesAreOpen
<1> QED
  BY <1>2, <1>3 DEF Abstract!Init

LEMMA StayedIsStutter ==
  ASSUME Ahead' = Ahead \/ Stayed(Ahead, Ahead')
  PROVE  UNCHANGED Abstract!tenancy
<1>1. /\ \A u \in Users : Ahead'.users[u].house = Ahead.users[u].house
      /\ \A h \in Houses : Ahead'.houses[h] # NoHouse <=> Ahead.houses[h] # NoHouse
  BY DEF Stayed
<1>2. [u \in Users |-> Ahead.users[u].house]' = [u \in Users |-> Ahead.users[u].house]
  BY <1>1
<1>3. {h \in Houses : Ahead.houses[h] # NoHouse}' = {h \in Houses : Ahead.houses[h] # NoHouse}
  BY <1>1
<1> QED
  BY <1>2, <1>3 DEF Abstract!tenancy

LEMMA MovedIsMove ==
  ASSUME TurnsInv, NEW u \in Users, NEW h \in Houses, Moved(Ahead, Ahead', u, h),
         \/ Ahead.houses[h] # NoHouse /\ h # Ahead.users[u].house
         \/ Ahead.houses[h] = NoHouse
  PROVE  Abstract!Join(u, h) \/ Abstract!Create(u, h)
<1>. DEFINE lives == [v \in Users |-> Ahead.users[v].house]
            open == {g \in Houses : Ahead.houses[g] # NoHouse}
            home == Ahead.users[u].house
            Lonely == ~ \E v \in Users \ {u} : lives[v] = lives[u]
<1>1. /\ Ahead'.users[u].house = h
      /\ \A v \in Users \ {u} : Ahead'.users[v].house = Ahead.users[v].house
      /\ \A g \in Houses :
           Ahead'.houses[g] # NoHouse <=>
             \/ g = h
             \/ /\ Ahead.houses[g] # NoHouse
                /\ g = home => \E v \in Users \ {u} : Ahead.users[v].house = g
  BY DEF Moved
<1>2. lives' = [lives EXCEPT ![u] = h]
  BY <1>1
<1>3. open' = (IF Lonely THEN open \ {lives[u]} ELSE open) \cup {h}
  BY <1>1
<1>4. CASE Ahead.houses[h] # NoHouse /\ h # home
  <2>1. h \in open \ {lives[u]}
    BY <1>4
  <2>2. open' = IF Lonely THEN open \ {lives[u]} ELSE open
    BY <1>3, <2>1
  <2> QED
    BY <1>2, <2>1, <2>2 DEF Abstract!Join, Abstract!OpenWithout
<1>5. CASE Ahead.houses[h] = NoHouse
  <2>1. h \in Houses \ open
    BY <1>5
  <2> QED
    BY <1>2, <1>3, <2>1 DEF Abstract!Create, Abstract!OpenWithout
<1> QED
  BY <1>4, <1>5

(* Used in turns, the app implements Tenancy: saving in PickHouse and      *)
(* NewHouse moves one user and closes and opens houses in one step, though *)
(* it is four or five writes that the server applies one at a time, and no *)
(* other step of any screen moves anybody.                                 *)
THEOREM MovesAreAtomicInTurns ==
  ASSUME IsFiniteSet(Users), Killable = {}, Offline = {}
  PROVE  SerialSpec => MovesAreAtomic
<1>1. Init => Abstract!Init
  BY InitTenancy
<1>2. TurnsInv /\ [SerialNext]_vars => [Abstract!Next]_(Abstract!tenancy)
  <2> SUFFICES ASSUME TurnsInv, [SerialNext]_vars
               PROVE  Abstract!Next \/ UNCHANGED Abstract!tenancy
    OBVIOUS
  <2>1. CASE Ahead' = Ahead \/ Stayed(Ahead, Ahead')
    BY <2>1, StayedIsStutter
  <2>2. CASE \E u \in Users, h \in Houses :
               /\ Moved(Ahead, Ahead', u, h)
               /\ \/ Ahead.houses[h] # NoHouse /\ h # Ahead.users[u].house
                  \/ Ahead.houses[h] = NoHouse
    BY <2>2, MovedIsMove DEF Abstract!Next
  <2> QED
    BY <2>1, <2>2, SerialStep DEF Onward
<1> QED
  BY <1>1, <1>2, TurnsInvariant, PTL DEF SerialSpec, MovesAreAtomic, Abstract!Spec
=============================================================================
