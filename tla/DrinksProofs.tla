---------------------------- MODULE DrinksProofs ----------------------------
(***************************************************************************)
(* What is proved of the Drinks tab, for any finite number of users: the   *)
(* types of its state under every interleaving of the phones, and, for a   *)
(* use in turns, that it implements Fridge and what the screens rely on.   *)
(***************************************************************************)
EXTENDS DrinksFridge, HomeProofs

-----------------------------------------------------------------------------
(* The residents, one after the other.                                     *)

LEMMA FiniteSetsListed ==
  ASSUME NEW S, IsFiniteSet(S)
  PROVE  /\ Cardinality(S) \in Nat
         /\ \E f \in [1 .. Cardinality(S) -> S] : IsInjective(f)
<1>1. PICK f \in Bijection(1 .. Cardinality(S), S) : TRUE
  BY FS_CardinalityType DEF ExistsBijection
<1>2. f \in [1 .. Cardinality(S) -> S] /\ IsInjective(f)
  BY <1>1 DEF Bijection, Injection
<1> QED
  BY <1>2, FS_CardinalityType

LEMMA OrderListsAll ==
  ASSUME NEW S, IsFiniteSet(S)
  PROVE  /\ SetToSeq(S) \in [1 .. Cardinality(S) -> S]
         /\ \A s \in S : \E i \in 1 .. Cardinality(S) : SetToSeq(S)[i] = s
<1>1. PICK o \in [1 .. Cardinality(S) -> S] : o = SetToSeq(S) /\ IsInjective(o)
  BY FiniteSetsListed DEF SetToSeq
<1>2. o \in Injection(1 .. Cardinality(S), S)
  BY <1>1 DEF Injection
<1>3. Cardinality(1 .. Cardinality(S)) = Cardinality(S)
  BY FS_CardinalityType, FS_Interval
<1>4. o \in Surjection(1 .. Cardinality(S), S)
  BY <1>2, <1>3, FS_Injection
<1>5. \A s \in S : \E i \in 1 .. Cardinality(S) : o[i] = s
  BY <1>4 DEF Surjection
<1> QED
  BY <1>1, <1>5

\* TrashPuts with its order named.
TrashFor(order, n, h) ==
  [i \in 1 .. 2 * n + 1 |->
     IF i > 2 * n THEN SetStock(h, 0)
     ELSE IF i % 2 = 1 THEN SetDrinks(order[(i + 1) \div 2], 0)
     ELSE SetDrinksToBuy(order[i \div 2], 0)]

\* The order lists all n residents, and gives the writes of TrashPuts.
TrashPutsIn(u, h, n, order) ==
  /\ order \in [1 .. n -> residents[u]]
  /\ TrashPuts(u, h) = TrashFor(order, n, h)
  /\ \A v \in residents[u] : \E i \in 1 .. n : order[i] = v

LEMMA TrashPutsAre ==
  ASSUME NEW u, NEW h, IsFiniteSet(residents[u])
  PROVE  \E n \in Nat : \E order : TrashPutsIn(u, h, n, order)
<1>. DEFINE n == Cardinality(residents[u])
            order == SetToSeq(residents[u])
<1>1. n \in Nat /\ order \in [1 .. n -> residents[u]]
      /\ \A v \in residents[u] : \E i \in 1 .. n : order[i] = v
  BY FS_CardinalityType, OrderListsAll
<1>2. TrashPuts(u, h) = TrashFor(order, n, h)
  BY DEF TrashPuts, TrashFor
<1>3. TrashPutsIn(u, h, n, order)
  BY <1>1, <1>2 DEF TrashPutsIn
<1>. HIDE DEF n, order
<1> QED
  BY <1>1, <1>3

\* Where the i-th of those writes comes from.
LEMMA TrashAt ==
  ASSUME NEW n \in Nat, NEW order, NEW h, NEW i \in 1 .. 2 * n + 1
  PROVE  \/ i = 2 * n + 1 /\ TrashFor(order, n, h)[i] = SetStock(h, 0)
         \/ \E j \in 1 .. n : i = 2 * j - 1 /\ TrashFor(order, n, h)[i] = SetDrinks(order[j], 0)
         \/ \E j \in 1 .. n : i = 2 * j /\ TrashFor(order, n, h)[i] = SetDrinksToBuy(order[j], 0)
<1>1. CASE i > 2 * n
  BY <1>1 DEF TrashFor
<1>2. CASE i <= 2 * n /\ i % 2 = 1
  <2>. DEFINE j == (i + 1) \div 2
  <2>1. i = 2 * j - 1 /\ j \in Int
    BY <1>2
  <2>2. j \in 1 .. n
    BY <1>2, <2>1
  <2>3. TrashFor(order, n, h)[i] = SetDrinks(order[j], 0)
    BY <1>2 DEF TrashFor
  <2> QED
    BY <2>1, <2>2, <2>3
<1>3. CASE i <= 2 * n /\ i % 2 # 1
  <2>. DEFINE j == i \div 2
  <2>1. i = 2 * j /\ j \in Int
    BY <1>3
  <2>2. j \in 1 .. n
    BY <1>3, <2>1
  <2>3. TrashFor(order, n, h)[i] = SetDrinksToBuy(order[j], 0)
    BY <1>3 DEF TrashFor
  <2> QED
    BY <2>1, <2>2, <2>3
<1> QED
  BY <1>1, <1>2, <1>3

-----------------------------------------------------------------------------
(* The types, whoever does what at the same time.                          *)

\* Every house has a stock, and what is written below a house finds it there.
Stocked(hs) == \A h \in Houses : hs[h] # NoHouse => hs[h].drinks \in Int

Found(hs, p) ==
  \/ p.path \in {"users/drinks", "users/drinksToBuy", "users/dinner"}
  \/ p.path \in {"houses/drinks", "houses/firstWeek"} /\ hs[p.house] # NoHouse

Furnished ==
  /\ Stocked(houses)
  /\ \A v \in Users : users[v].house # Null => houses[users[v].house] # NoHouse
  /\ \A v \in Users : me[v].house \in {Null, users[v].house}
  /\ \A v \in Users : Stocked(seen[v])
  /\ \A v \in Users : \A i \in 1 .. Len(uplink[v]) : Found(houses, uplink[v][i])

DrinksInv == DrinksTypeOK /\ Furnished

\* u's copy after a step that answers no load.
CopyKept(u) ==
  /\ UNCHANGED houses /\ \A v \in Users : users'[v].house = users[v].house
  /\ me'[u].house \in {Null, me[u].house}
  /\ \A v \in Users \ {u} : me'[v] = me[v] /\ seen'[v] = seen[v] /\ uplink'[v] = uplink[v]
  /\ Stocked(seen'[u])

LEMMA NoHousesStocked == Stocked(NoHouses)
BY DEF Stocked, NoHouses

\* Nothing written, or only below what is there.
LEMMA CopyKeeps ==
  ASSUME DrinksInv, NEW u \in Users, CopyKept(u),
         \/ uplink'[u] \in {uplink[u], << >>}
         \/ \E puts \in Seq(Puts) :
              /\ uplink'[u] = uplink[u] \o puts
              /\ \A i \in 1 .. Len(puts) : Found(houses, puts[i])
  PROVE  Furnished'
<1>1. ASSUME NEW i \in 1 .. Len(uplink'[u]) PROVE Found(houses, uplink'[u][i])
  <2>1. CASE uplink'[u] \in {uplink[u], << >>}
    BY <1>1, <2>1 DEF DrinksInv, Furnished
  <2>2. CASE \E puts \in Seq(Puts) :
               /\ uplink'[u] = uplink[u] \o puts
               /\ \A k \in 1 .. Len(puts) : Found(houses, puts[k])
    <3>1. PICK puts \in Seq(Puts) :
            /\ uplink'[u] = uplink[u] \o puts
            /\ \A k \in 1 .. Len(puts) : Found(houses, puts[k])
      BY <2>2
    <3>2. PICK q \in Seq(Puts) : q = uplink[u]
      BY DEF DrinksInv, DrinksTypeOK, DeviceTypeOK
    <3>3. \A k \in 1 .. Len(q) : Found(houses, q[k])
      BY <3>2 DEF DrinksInv, Furnished
    <3>4. CASE i \in 1 .. Len(q)
      <4>1. uplink'[u][i] = q[i]
        BY <3>1, <3>2, <3>4
      <4> QED
        BY <3>3, <3>4, <4>1
    <3>5. CASE i \notin 1 .. Len(q)
      <4>1. i - Len(q) \in 1 .. Len(puts) /\ uplink'[u][i] = puts[i - Len(q)]
        BY <1>1, <3>1, <3>2, <3>5
      <4> QED
        BY <3>1, <4>1
    <3> QED
      BY <3>4, <3>5
  <2> QED
    BY <2>1, <2>2
<1>2. \A v \in Users : me'[v].house \in {Null, users[v].house}
  BY DEF CopyKept, DrinksInv, Furnished
<1>3. \A v \in Users : Stocked(seen'[v])
  BY DEF CopyKept, DrinksInv, Furnished
<1>4. \A v \in Users : \A i \in 1 .. Len(uplink'[v]) : Found(houses, uplink'[v][i])
  BY <1>1 DEF CopyKept, DrinksInv, Furnished
<1> QED
  BY <1>2, <1>3, <1>4 DEF CopyKept, DrinksInv, Furnished, Stocked, Found

\* What the pieces of the actions leave in the copy.
LEMMA PiecesStocked ==
  ASSUME DrinksInv, NEW u \in Users
  PROVE  /\ \A next : GetAllData(u, next) =>
              Stocked(seen'[u]) /\ \A v \in Users \ {u} : seen'[v] = seen[v]
         /\ Rest(u) => seen' = seen /\ uplink' = uplink
         /\ \A how : Stop(u, how) =>
              /\ Stocked(seen'[u]) /\ me'[u].house = Null /\ uplink'[u] = << >>
              /\ \A v \in Users \ {u} : me'[v] = me[v] /\ seen'[v] = seen[v] /\ uplink'[v] = uplink[v]
<1>1. /\ seen \in [Users -> [Houses -> HouseNode]] /\ me \in [Users -> UserNode]
      /\ uplink \in [Users -> Seq(Puts)] /\ Stocked(seen[u])
  BY DEF DrinksInv, DrinksTypeOK, DeviceTypeOK, Furnished
<1>2. ASSUME NEW next, GetAllData(u, next)
      PROVE  Stocked(seen'[u]) /\ \A v \in Users \ {u} : seen'[v] = seen[v]
  BY <1>1, <1>2, NoHousesStocked DEF GetAllData
<1>3. ASSUME NEW how, Stop(u, how)
      PROVE  /\ Stocked(seen'[u]) /\ me'[u].house = Null /\ uplink'[u] = << >>
             /\ \A v \in Users \ {u} : me'[v] = me[v] /\ seen'[v] = seen[v] /\ uplink'[v] = uplink[v]
  BY <1>1, <1>3, NoHousesStocked DEF Stop, NoUser
<1> QED
  BY <1>2, <1>3 DEF Rest

\* A write that finds its house, on any tree: no home, no house and no stock
\* comes or goes.
Furnishing(tree, other) ==
  /\ other \in Trees
  /\ \A v \in Users : other.users[v].house = tree.users[v].house
  /\ \A h \in Houses : other.houses[h] # NoHouse <=> tree.houses[h] # NoHouse
  /\ Stocked(other.houses)

LEMMA FoundFurnishes ==
  ASSUME NEW tree \in Trees, Stocked(tree.houses), NEW p \in Puts, Found(tree.houses, p)
  PROVE  Furnishing(tree, After(tree, p))
<1>. DEFINE us == tree.users
            hs == tree.houses
            hs2 == HousesAfter(hs, p)
<1>1. us \in [Users -> UserNode] /\ hs \in [Houses -> HouseNode]
  BY DEF Trees
<1>2. After(tree, p) \in Trees
  BY AfterTyped
<1>3. \A v \in Users : UsersAfter(us, p)[v].house = us[v].house
  BY <1>1, SMTT(30) DEF Found, UsersAfter, UserNode
<1>4. (\A h \in Houses : hs2[h] # NoHouse <=> hs[h] # NoHouse) /\ Stocked(hs2)
  <2>1. CASE p.path \in {"users/drinks", "users/drinksToBuy", "users/dinner"}
    <3>1. hs2 = hs
      BY <2>1 DEF HousesAfter
    <3> QED
      BY <3>1
  <2>2. ASSUME p.path \in {"houses/drinks", "houses/firstWeek"}, hs[p.house] # NoHouse
        PROVE  /\ p.house \in Houses /\ p.count \in Int
               /\ hs[p.house] \in HouseNode /\ hs[p.house].drinks \in Int
    <3>1. p.house \in Houses /\ p.count \in Int
      BY <2>2 DEF Puts
    <3> QED
      BY <1>1, <2>2, <3>1 DEF Stocked
  <2>3. CASE p.path = "houses/drinks" /\ hs[p.house] # NoHouse
    <3>1. hs2 = [hs EXCEPT ![p.house].drinks = p.count]
      BY <2>3 DEF HousesAfter
    <3>. HIDE DEF hs, hs2
    <3>2. /\ hs2[p.house].drinks = p.count
          /\ \A h \in Houses : h # p.house => hs2[h] = hs[h]
      BY <1>1, <2>2, <2>3, <3>1 DEF HouseNode
    <3>3. hs2[p.house] # NoHouse
      BY <2>2, <2>3, <3>2, NamesAssumption DEF NoHouse
    <3>4. Stocked(hs)
      BY DEF hs
    <3> QED
      BY <2>2, <2>3, <3>2, <3>3, <3>4 DEF Stocked
  <2>4. CASE p.path = "houses/firstWeek" /\ hs[p.house] # NoHouse
    <3>1. hs2 = [hs EXCEPT ![p.house].firstWeek = p.count]
      BY <2>4 DEF HousesAfter
    <3>. HIDE DEF hs, hs2
    <3>2. /\ hs2[p.house].drinks = hs[p.house].drinks
          /\ \A h \in Houses : h # p.house => hs2[h] = hs[h]
      BY <1>1, <2>2, <2>4, <3>1 DEF HouseNode
    <3>3. hs2[p.house] # NoHouse
      BY <2>2, <2>4, <3>2, NamesAssumption DEF NoHouse
    <3>4. Stocked(hs)
      BY DEF hs
    <3> QED
      BY <2>2, <2>4, <3>2, <3>3, <3>4 DEF Stocked
  <2> QED
    BY <2>1, <2>3, <2>4 DEF Found
<1>5. After(tree, p).users = UsersAfter(us, p) /\ After(tree, p).houses = hs2
  BY DEF After
<1> QED
  BY <1>2, <1>3, <1>4, <1>5 DEF Furnishing

\* So do any number of them, one after the other.
LEMMA QueueFurnishes ==
  ASSUME NEW tree \in Trees, Stocked(tree.houses), NEW q \in Seq(Puts),
         \A i \in 1 .. Len(q) : Found(tree.houses, q[i])
  PROVE  Furnishing(tree, Applied(tree, q))
<1>. DEFINE c == Course(tree, q)
            Bad == {n \in 0 .. Len(q) : ~Furnishing(tree, c[n])}
<1>1. c[0] = tree /\ \A n \in 1 .. Len(q) : c[n] = After(c[n - 1], q[n])
  BY CourseStep
<1>. HIDE DEF c
<1>2. Len(q) \in Nat /\ \A n \in 1 .. Len(q) : q[n] \in Puts
  OBVIOUS
<1>3. Furnishing(tree, tree)
  BY DEF Furnishing
<1>4. Bad = {}
  <2> SUFFICES ASSUME Bad # {} PROVE FALSE
    OBVIOUS
  <2>1. PICK n \in Bad : \A k \in Bad : n <= k
    <3>1. Bad \in SUBSET Nat
      BY <1>2
    <3> QED
      BY <3>1, LeastNatural
  <2>2. n \in 1 .. Len(q)
    BY <1>1, <1>2, <1>3, <2>1
  <2>3. n - 1 \in 0 .. Len(q) /\ n - 1 \notin Bad
    BY <1>2, <2>1, <2>2
  <2>4. Furnishing(tree, c[n - 1])
    BY <2>3
  <2>5. q[n] \in Puts /\ Found(c[n - 1].houses, q[n])
    <3>1. q[n] \in Puts /\ Found(tree.houses, q[n])
      BY <1>2, <2>2
    <3>2. q[n].path \in {"houses/drinks", "houses/firstWeek"} => q[n].house \in Houses
      BY <3>1 DEF Puts
    <3> QED
      BY <2>4, <3>1, <3>2 DEF Found, Furnishing
  <2>6. Furnishing(c[n - 1], After(c[n - 1], q[n]))
    BY <2>4, <2>5, FoundFurnishes DEF Furnishing
  <2>7. Furnishing(tree, c[n])
    BY <1>1, <2>2, <2>4, <2>6 DEF Furnishing
  <2> QED
    BY <2>1, <2>7
<1>5. Furnishing(tree, c[Len(q)])
  BY <1>2, <1>4
<1> QED
  BY <1>5 DEF Applied, c

LEMMA AnswerFurnished ==
  ASSUME DrinksInv, NEW u \in Users
  PROVE  Furnishing(Server, Answer(u))
<1>1. Server \in Trees /\ Stocked(Server.houses) /\ uplink[u] \in Seq(Puts)
  BY DEF Server, Trees, DrinksInv, Furnished, DrinksTypeOK, DeviceTypeOK
<1>2. \A i \in 1 .. Len(uplink[u]) : Found(Server.houses, uplink[u][i])
  BY DEF Server, DrinksInv, Furnished
<1> QED
  BY <1>1, <1>2, QueueFurnishes DEF Answer

\* The server: a write lands on what is there, and an answer copies it.
LEMMA BackgroundKeeps ==
  ASSUME DrinksInv, NEW u \in Users, Background(u)
  PROVE  Furnished'
<1>1. /\ users \in [Users -> UserNode] /\ houses \in [Houses -> HouseNode]
      /\ uplink \in [Users -> Seq(Puts)]
      /\ seen \in [Users -> [Houses -> HouseNode]] /\ me \in [Users -> UserNode]
  BY DEF DrinksInv, DrinksTypeOK, DeviceTypeOK
<1>2. CASE ApplyPut(u)
  <2>. DEFINE p == Head(uplink[u])
  <2>1. uplink[u] \in Seq(Puts) /\ uplink[u] # << >>
    BY <1>1, <1>2 DEF ApplyPut
  <2>2. /\ p \in Puts /\ p = uplink[u][1] /\ Len(uplink[u]) \in Nat /\ Len(uplink[u]) > 0
        /\ Len(Tail(uplink[u])) = Len(uplink[u]) - 1
        /\ \A i \in 1 .. Len(Tail(uplink[u])) : Tail(uplink[u])[i] = uplink[u][i + 1]
    BY <2>1
  <2>3. Found(houses, p)
    BY <2>2 DEF DrinksInv, Furnished
  <2>4. users' = UsersAfter(users, p) /\ houses' = HousesAfter(houses, p)
        /\ uplink' = [uplink EXCEPT ![u] = Tail(@)] /\ me' = me /\ seen' = seen
    BY <1>2 DEF ApplyPut, memory
  <2>. HIDE DEF p
  <2>5. Furnishing(Server, After(Server, p))
    <3>1. Server \in Trees /\ Stocked(Server.houses) /\ Found(Server.houses, p)
      BY <1>1, <2>3 DEF Server, Trees, DrinksInv, Furnished
    <3> QED
      BY <2>2, <3>1, FoundFurnishes
  <2>6. /\ \A v \in Users : users'[v].house = users[v].house
        /\ \A h \in Houses : houses'[h] # NoHouse <=> houses[h] # NoHouse
        /\ Stocked(houses')
    BY <2>4, <2>5 DEF Furnishing, After, Server
  <2>7. ASSUME NEW v \in Users, NEW i \in 1 .. Len(uplink'[v])
        PROVE  Found(houses, uplink'[v][i])
    <3>1. CASE v = u
      <4>1. i + 1 \in 1 .. Len(uplink[u]) /\ uplink'[u][i] = uplink[u][i + 1]
        BY <1>1, <2>2, <2>4, <2>7, <3>1
      <4> QED
        BY <3>1, <4>1 DEF DrinksInv, Furnished
    <3>2. CASE v # u
      BY <1>1, <2>4, <2>7, <3>2 DEF DrinksInv, Furnished
    <3> QED
      BY <3>1, <3>2
  <2>8. \A v \in Users : \A i \in 1 .. Len(uplink'[v]) : uplink'[v][i] \in Puts
    <3>1. \A v \in Users : uplink'[v] \in Seq(Puts)
      BY <1>1, <2>1, <2>4
    <3> QED
      BY <3>1
  <2>9. \A q \in Puts : Found(houses, q) => Found(houses', q)
    <3> SUFFICES ASSUME NEW q \in Puts, q.path \in {"houses/drinks", "houses/firstWeek"},
                        houses[q.house] # NoHouse
                 PROVE  houses'[q.house] # NoHouse
      BY DEF Found
    <3>1. q.house \in Houses
      BY DEF Puts
    <3> QED
      BY <2>6, <3>1
  <2>10. \A v \in Users : users[v].house # Null => users[v].house \in Houses
    BY <1>1 DEF UserNode
  <2>11. \A v \in Users : users'[v].house # Null => houses'[users'[v].house] # NoHouse
    BY <2>6, <2>10 DEF DrinksInv, Furnished
  <2>12. \A v \in Users : me'[v].house \in {Null, users'[v].house} /\ Stocked(seen'[v])
    BY <2>4, <2>6 DEF DrinksInv, Furnished
  <2>13. \A v \in Users : \A i \in 1 .. Len(uplink'[v]) : Found(houses', uplink'[v][i])
    BY <2>7, <2>8, <2>9
  <2> QED
    BY <2>6, <2>11, <2>12, <2>13 DEF Furnished
<1>3. CASE ServeUsers(u)
  <2>. DEFINE own == Answer(u).users[u]
              home == IF own.house = Null THEN me[u].house ELSE own.house
  <2>1. /\ UNCHANGED <<users, houses, uplink, seen>>
        /\ me' = [me EXCEPT ![u] = [own EXCEPT !.house = home]]
    BY <1>3 DEF ServeUsers, database
  <2>4. own \in UserNode /\ own.house = users[u].house
    BY AnswerTyped, AnswerFurnished DEF Furnishing, Server, DrinksInv, DrinksTypeOK
  <2>. HIDE DEF own
  <2>2. me'[u].house = home /\ \A v \in Users \ {u} : me'[v] = me[v]
    BY <1>1, <2>1, <2>4 DEF UserNode
  <2>3. home \in {Null, users[u].house}
    BY <2>4 DEF DrinksInv, Furnished
  <2> QED
    BY <2>1, <2>2, <2>3 DEF DrinksInv, Furnished, Stocked, Found
<1>4. CASE ServeHouses(u)
  <2>1. CASE Crash(u)
    <3>1. CopyKept(u) /\ uplink'[u] = << >>
      BY <1>4, <2>1, PiecesStocked DEF Crash, ServeHouses, CopyKept, database
    <3> QED
      BY <3>1, CopyKeeps
  <2>2. CASE ~Crash(u)
    <3>. DEFINE hs == Answer(u).houses
    <3>1. /\ UNCHANGED <<users, houses, uplink, me>>
          /\ seen' = [seen EXCEPT ![u] = ParsedHouses(hs)]
      BY <1>4, <2>2 DEF ServeHouses, database
    <3>4. hs \in [Houses -> HouseNode] /\ Stocked(hs)
      BY AnswerTyped, AnswerFurnished DEF Furnishing, DrinksInv, DrinksTypeOK
    <3>. HIDE DEF hs
    <3>2. Stocked(ParsedHouses(hs))
      <4>1. ASSUME NEW h \in Houses
            PROVE  /\ ParsedHouses(hs)[h].drinks = hs[h].drinks
                   /\ hs[h] = NoHouse => ParsedHouses(hs)[h] = NoHouse
        <5>1. ParsedHouses(hs)[h] = [hs[h] EXCEPT !.tasks = ParsedTasks(@)]
              /\ hs[h] \in HouseNode
          BY <3>4 DEF ParsedHouses
        <5>2. hs[h] = NoHouse => ParsedHouses(hs)[h] = NoHouse
          BY <3>4, ParsedKeeps
        <5> QED
          BY <5>1, <5>2 DEF HouseNode
      <4> QED
        BY <3>4, <4>1 DEF Stocked
    <3>3. CopyKept(u)
      BY <1>1, <3>1, <3>2 DEF CopyKept
    <3> QED
      BY <3>1, <3>3, CopyKeeps
  <2> QED
    BY <2>1, <2>2
<1> QED
  BY <1>2, <1>3, <1>4 DEF Background

\* One to three writes, each found.
LEMMA WritesFound ==
  ASSUME NEW hs, NEW a \in Puts, Found(hs, a), NEW b \in Puts, Found(hs, b),
         NEW c \in Puts, Found(hs, c), NEW puts \in {<<a>>, <<a, b>>, <<a, b, c>>}
  PROVE  puts \in Seq(Puts) /\ \A i \in 1 .. Len(puts) : Found(hs, puts[i])
<1>1. CASE puts = <<a>>
  <2>1. puts \in Seq(Puts) /\ Len(puts) = 1 /\ puts[1] = a
    BY <1>1
  <2> QED
    BY <2>1
<1>2. CASE puts = <<a, b>>
  <2>1. puts \in Seq(Puts) /\ Len(puts) = 2 /\ puts[1] = a /\ puts[2] = b
    BY <1>2
  <2>2. \A i \in 1 .. 2 : i = 1 \/ i = 2
    OBVIOUS
  <2> QED
    BY <2>1, <2>2
<1>3. CASE puts = <<a, b, c>>
  <2>1. puts \in Seq(Puts) /\ Len(puts) = 3 /\ puts[1] = a /\ puts[2] = b /\ puts[3] = c
    BY <1>3
  <2>2. \A i \in 1 .. 3 : i = 1 \/ i = 2 \/ i = 3
    OBVIOUS
  <2> QED
    BY <2>1, <2>2
<1> QED
  BY <1>1, <1>2, <1>3

\* Home's handlers and taps, and the app's start and end.
LEMMA HandlersKeep ==
  ASSUME DrinksInv, NEW u \in Users, HomeHandlers(u)
  PROVE  Furnished'
<1>1. HomeTypeOK
  BY DEF DrinksInv, DrinksTypeOK, HomeTypeOK
<1>2. UNCHANGED <<users, houses>> /\ (HandlerEnds(u) \/ HandlerRestarts(u))
  BY <1>1, HomeHandlersDo
<1>3. /\ uplink \in [Users -> Seq(Puts)] /\ Stocked(seen[u])
      /\ me[u].house \in {Null, users[u].house}
      /\ users[u].house # Null => houses[users[u].house] # NoHouse
  BY DEF DrinksInv, DrinksTypeOK, DeviceTypeOK, Furnished
<1>4. CASE Rest(u) /\ UNCHANGED me
  <2>1. CopyKept(u) /\ uplink'[u] = uplink[u]
    BY <1>2, <1>3, <1>4 DEF CopyKept, Rest
  <2> QED
    BY <2>1, CopyKeeps
<1>5. CASE Crash(u)
  <2>1. CopyKept(u) /\ uplink'[u] = << >>
    BY <1>2, <1>5, PiecesStocked DEF Crash, CopyKept
  <2> QED
    BY <2>1, CopyKeeps
<1>6. CASE HandlerRestarts(u)
  <2>1. PICK next \in {"checkWeek", "show"} :
          me[u].house \in Houses /\ RestartSchedule(u, me[u].house, next)
    BY <1>6 DEF HandlerRestarts
  <2>. DEFINE p == SetFirstWeek(me[u].house, getCurrentWeek)
  <2>2. GetAllData(u, Run(next)) /\ UNCHANGED me
        /\ uplink' = [uplink EXCEPT ![u] = @ \o <<p>>]
    BY <2>1 DEF RestartSchedule, Issue
  <2>3. <<p>> \in Seq(Puts)
    BY <2>1, HomePutsTyped DEF DrinksInv, DrinksTypeOK
  <2>4. Found(houses, p)
    BY <1>3, <2>1, NamesAssumption DEF Found, SetFirstWeek
  <2>. HIDE DEF p
  <2>5. PICK puts \in Seq(Puts) : puts = <<p>> /\ \A i \in 1 .. Len(puts) : Found(houses, puts[i])
    <3>1. PICK a \in Puts : a = p
      BY <2>3
    <3>2. <<a>> \in Seq(Puts) /\ \A i \in 1 .. Len(<<a>>) : Found(houses, <<a>>[i])
      BY <2>4, <3>1, WritesFound
    <3> QED
      BY <3>1, <3>2
  <2>6. uplink'[u] = uplink[u] \o puts /\ \A v \in Users \ {u} : uplink'[v] = uplink[v]
    BY <1>3, <2>2, <2>5
  <2>7. CopyKept(u)
    BY <1>2, <2>2, <2>6, PiecesStocked DEF CopyKept
  <2> QED
    BY <2>5, <2>6, <2>7, CopyKeeps
<1> QED
  BY <1>2, <1>4, <1>5, <1>6 DEF HandlerEnds

LEMMA TapsKeep ==
  ASSUME DrinksInv, NEW u \in Users, HomeTaps(u) \/ Lifecycle(u)
  PROVE  Furnished'
<1>1. uplink \in [Users -> Seq(Puts)] /\ Stocked(seen[u])
  BY DEF DrinksInv, DrinksTypeOK, DeviceTypeOK, Furnished
<1>2. CASE Refresh(u) \/ Launch(u)
  <2>1. CopyKept(u) /\ uplink'[u] = uplink[u]
    BY <1>2, PiecesStocked DEF CopyKept, Refresh, Launch, database
  <2> QED
    BY <2>1, CopyKeeps
<1>3. CASE LoseConnection(u) \/ RegainConnection(u)
  <2>1. CopyKept(u) /\ uplink'[u] = uplink[u]
    BY <1>1, <1>3 DEF CopyKept, LoseConnection, RegainConnection, database, memory
  <2> QED
    BY <2>1, CopyKeeps
<1>4. CASE Quit(u)
  <2>1. CopyKept(u) /\ uplink'[u] = << >>
    BY <1>4, PiecesStocked DEF CopyKept, Quit, database
  <2> QED
    BY <2>1, CopyKeeps
<1>5. CASE DinnerSwitch(u)
  <2>1. CASE known[u]
    <3>1. PICK on \in BOOLEAN : Issue(u, <<SetDinner(u, on)>>)
      BY <1>5, <2>1 DEF DinnerSwitch
    <3>2. SetDinner(u, on) \in Puts /\ Found(houses, SetDinner(u, on))
      BY DEF SetDinner, Puts, Found
    <3>3. PICK puts \in Seq(Puts) :
            puts = <<SetDinner(u, on)>> /\ \A i \in 1 .. Len(puts) : Found(houses, puts[i])
      <4>1. PICK a \in Puts : a = SetDinner(u, on)
        BY <3>2
      <4>2. <<a>> \in Seq(Puts) /\ \A i \in 1 .. Len(<<a>>) : Found(houses, <<a>>[i])
        BY <3>2, <4>1, WritesFound
      <4> QED
        BY <4>1, <4>2
    <3>4. uplink'[u] = uplink[u] \o puts /\ \A v \in Users \ {u} : uplink'[v] = uplink[v]
      BY <1>1, <3>1, <3>3 DEF Issue
    <3>5. CopyKept(u)
      BY <1>1, <1>5, <2>1, <3>4 DEF CopyKept, DinnerSwitch, memory, database
    <3> QED
      BY <3>3, <3>4, <3>5, CopyKeeps
  <2>2. CASE ~known[u]
    <3>0. /\ UNCHANGED houses /\ \A v \in Users : users'[v].house = users[v].house
          /\ Crash(u)
      BY <1>5, <2>2, LastWriteTyped DEF DinnerSwitch, DrinksInv, DrinksTypeOK
    <3>1. CopyKept(u) /\ uplink'[u] = << >>
      BY <3>0, PiecesStocked DEF CopyKept, Crash
    <3> QED
      BY <3>1, CopyKeeps
  <2> QED
    BY <2>1, <2>2
<1> QED
  BY <1>2, <1>3, <1>4, <1>5 DEF HomeTaps, Lifecycle

LEMMA ForgettingTyped ==
  ASSUME DrinksTypeOK, NEW u \in Users, ForgetTab(u) \/ UNCHANGED <<bar, draft, top>>
  PROVE  /\ bar' \in [Users -> [total: Int, canDrink: BOOLEAN, canOpen: BOOLEAN]]
         /\ draft' \in [Users -> [stock: Int, bought: 0 .. MaxBought, toBuy: Int,
                                  change: -MaxChange .. MaxChange, minus: BOOLEAN]]
         /\ top' \in [Users -> {"drink", "add", "overview"}]
<1>1. NewBar \in [total: Int, canDrink: BOOLEAN, canOpen: BOOLEAN]
  BY DEF NewBar
<1>2. NewDraft \in [stock: Int, bought: 0 .. MaxBought, toBuy: Int,
                    change: -MaxChange .. MaxChange, minus: BOOLEAN]
  BY DrinksAssumption DEF NewDraft
<1>3. CASE ForgetTab(u)
  BY <1>1, <1>2, <1>3 DEF ForgetTab, DrinksTypeOK
<1> QED
  BY <1>3 DEF DrinksTypeOK

LEMMA HomeStepKeeps ==
  ASSUME DrinksInv, NEW u \in Users, HomeStep(u)
  PROVE  DrinksInv'
<1>1. HomeTypeOK'
  BY BackgroundTyped, HomeHandlersTyped, HomeTapsTyped
  DEF HomeStep, HomePhone, DrinksInv, DrinksTypeOK, HomeTypeOK
<1>2. DrinksTypeOK'
  BY <1>1, ForgettingTyped DEF HomeStep, DrinksInv, DrinksTypeOK, HomeTypeOK
<1> QED
  BY <1>2, BackgroundKeeps, HandlersKeep, TapsKeep DEF HomeStep, HomePhone, DrinksInv

\* The three screens: steps that start a load, end one, trap or write.
TabTypeOK ==
  /\ bar \in [Users -> [total: Int, canDrink: BOOLEAN, canOpen: BOOLEAN]]
  /\ draft \in [Users -> [stock: Int, bought: 0 .. MaxBought, toBuy: Int,
                          change: -MaxChange .. MaxChange, minus: BOOLEAN]]
  /\ top \in [Users -> {"drink", "add", "overview"}]

LEMMA DrinksTypes ==
  /\ DrinksTypeOK <=> HomeTypeOK /\ TabTypeOK
  /\ DrinksTypeOK' <=> HomeTypeOK' /\ TabTypeOK'
BY DEF DrinksTypeOK, HomeTypeOK, TabTypeOK

LEMMA LoadsKeep ==
  ASSUME DrinksInv, NEW u \in Users, NEW next \in Handlers, GetAllData(u, next),
         UNCHANGED <<users, houses, uplink, online, me, residents, week, label>>,
         screen' \in [Users -> Screens]
  PROVE  HomeTypeOK' /\ Furnished'
<1>1. HomeTypeOK'
  BY GetAllDataTyped DEF DrinksInv, DrinksTypeOK, HomeTypeOK, DeviceTypeOK, LabelTypeOK
<1>2. CopyKept(u) /\ uplink'[u] = uplink[u]
  BY PiecesStocked DEF CopyKept
<1> QED
  BY <1>1, <1>2, CopyKeeps

LEMMA RestsKeep ==
  ASSUME DrinksInv, NEW u \in Users, Rest(u),
         UNCHANGED <<users, houses, online, screen, me, week, label>>
  PROVE  HomeTypeOK' /\ Furnished'
<1>1. HomeTypeOK'
  BY RestTyped DEF DrinksInv, DrinksTypeOK, HomeTypeOK, DeviceTypeOK, LabelTypeOK
<1>2. CopyKept(u) /\ uplink'[u] = uplink[u]
  BY PiecesStocked DEF CopyKept, DrinksInv, Furnished
<1> QED
  BY <1>1, <1>2, CopyKeeps

LEMMA TrapKeeps ==
  ASSUME DrinksInv, NEW u \in Users, Trap(u)
  PROVE  HomeTypeOK' /\ TabTypeOK' /\ Furnished'
<1>1. label' \in [Users -> Houses \cup {Null}]
  BY DEF Trap, LabelLost, DrinksInv, DrinksTypeOK, LabelTypeOK
<1>2. HomeTypeOK'
  BY <1>1, StopTyped
  DEF Trap, Crash, database, DrinksInv, DrinksTypeOK, HomeTypeOK, DeviceTypeOK, LabelTypeOK
<1>3. TabTypeOK'
  BY ForgettingTyped DEF Trap, DrinksInv, TabTypeOK
<1>4. CopyKept(u) /\ uplink'[u] = << >>
  BY PiecesStocked DEF Trap, Crash, CopyKept, database
<1> QED
  BY <1>2, <1>3, <1>4, CopyKeeps

LEMMA WritesKeep ==
  ASSUME DrinksInv, NEW u \in Users, NEW puts \in Seq(Puts), Issue(u, puts),
         \A i \in 1 .. Len(puts) : Found(houses, puts[i]),
         UNCHANGED <<users, houses, online, screen, me, residents, week, label>>,
         phase' \in [Users -> Phases], then' \in [Users -> Handlers],
         asked' \in [Users -> SUBSET {"users", "houses"}],
         seen' \in [Users -> [Houses -> HouseNode]], known' \in [Users -> BOOLEAN],
         Stocked(seen'[u]), \A v \in Users \ {u} : seen'[v] = seen[v]
  PROVE  HomeTypeOK' /\ Furnished'
<1>1. uplink \in [Users -> Seq(Puts)]
  BY DEF DrinksInv, DrinksTypeOK, DeviceTypeOK
<1>2. HomeTypeOK'
  BY IssueTyped DEF DrinksInv, DrinksTypeOK, HomeTypeOK, DeviceTypeOK, LabelTypeOK
<1>3. uplink'[u] = uplink[u] \o puts /\ \A v \in Users \ {u} : uplink'[v] = uplink[v]
  BY <1>1 DEF Issue
<1>4. CopyKept(u)
  BY <1>3 DEF CopyKept
<1> QED
  BY <1>2, <1>3, <1>4, CopyKeeps

\* The house of a user who has one is there, in the database.
LEMMA OwnHouseFound ==
  ASSUME DrinksInv, NEW u \in Users, NEW h, h = me[u].house, h # Null
  PROVE  h \in Houses /\ houses[h] # NoHouse
BY DEF DrinksInv, DrinksTypeOK, DeviceTypeOK, UserNode, Furnished

\* The writes of a drink, of a save and of a reset.
LEMMA DrinkPutsFound ==
  ASSUME DrinksInv, NEW u \in Users, NEW h \in Houses, houses[h] # NoHouse,
         NEW n \in Int, NEW m \in Int, NEW k \in Int,
         NEW puts \in {<<SetStock(h, n), SetDrinks(u, m), SetDrinksToBuy(u, k)>>,
                       <<SetStock(h, n), SetDrinksToBuy(u, k)>>}
  PROVE  puts \in Seq(Puts) /\ \A i \in 1 .. Len(puts) : Found(houses, puts[i])
<1>1. PICK a, b, c \in Puts : a = SetStock(h, n) /\ b = SetDrinks(u, m) /\ c = SetDrinksToBuy(u, k)
  BY DEF SetStock, SetDrinks, SetDrinksToBuy, Puts
<1>2. Found(houses, a) /\ Found(houses, b) /\ Found(houses, c)
  BY <1>1 DEF Found, SetStock, SetDrinks, SetDrinksToBuy
<1>3. puts = <<a, b, c>> \/ puts = <<a, c>>
  BY <1>1
<1> QED
  BY <1>2, <1>3, WritesFound

LEMMA TrashPutsFound ==
  ASSUME IsFiniteSet(Users), DrinksInv, NEW u \in Users, NEW h \in Houses, houses[h] # NoHouse
  PROVE  /\ TrashPuts(u, h) \in Seq(Puts)
         /\ \A i \in 1 .. Len(TrashPuts(u, h)) : Found(houses, TrashPuts(u, h)[i])
<1>1. residents[u] \in SUBSET Users /\ IsFiniteSet(residents[u])
  BY FS_Subset DEF DrinksInv, DrinksTypeOK, DeviceTypeOK
<1>2. PICK n \in Nat : \E order : TrashPutsIn(u, h, n, order)
  BY <1>1, TrashPutsAre
<1>3. PICK order : TrashPutsIn(u, h, n, order)
  BY <1>2
<1>6. order \in [1 .. n -> residents[u]] /\ TrashPuts(u, h) = TrashFor(order, n, h)
  BY <1>3 DEF TrashPutsIn
<1>4. ASSUME NEW i \in 1 .. 2 * n + 1
      PROVE  TrashFor(order, n, h)[i] \in Puts /\ Found(houses, TrashFor(order, n, h)[i])
  <2>1. SetStock(h, 0) \in Puts /\ Found(houses, SetStock(h, 0))
    BY DEF SetStock, Puts, Found
  <2>2. \A v \in Users : /\ SetDrinks(v, 0) \in Puts /\ Found(houses, SetDrinks(v, 0))
                         /\ SetDrinksToBuy(v, 0) \in Puts /\ Found(houses, SetDrinksToBuy(v, 0))
    BY DEF SetDrinks, SetDrinksToBuy, Puts, Found
  <2>3. \A j \in 1 .. n : order[j] \in Users
    BY <1>1, <1>6
  <2>4. CASE i = 2 * n + 1 /\ TrashFor(order, n, h)[i] = SetStock(h, 0)
    BY <2>1, <2>4
  <2>5. ASSUME NEW j \in 1 .. n,
               \/ TrashFor(order, n, h)[i] = SetDrinks(order[j], 0)
               \/ TrashFor(order, n, h)[i] = SetDrinksToBuy(order[j], 0)
        PROVE  TrashFor(order, n, h)[i] \in Puts /\ Found(houses, TrashFor(order, n, h)[i])
    BY <2>2, <2>3, <2>5
  <2>6. \/ i = 2 * n + 1 /\ TrashFor(order, n, h)[i] = SetStock(h, 0)
        \/ \E j \in 1 .. n : i = 2 * j - 1 /\ TrashFor(order, n, h)[i] = SetDrinks(order[j], 0)
        \/ \E j \in 1 .. n : i = 2 * j /\ TrashFor(order, n, h)[i] = SetDrinksToBuy(order[j], 0)
    BY TrashAt
  <2>7. CASE \E j \in 1 .. n : TrashFor(order, n, h)[i] = SetDrinks(order[j], 0)
    BY <2>7, <2>5
  <2>8. CASE \E j \in 1 .. n : TrashFor(order, n, h)[i] = SetDrinksToBuy(order[j], 0)
    BY <2>8, <2>5
  <2> QED
    BY <2>4, <2>6, <2>7, <2>8, Zenon
<1>5. TrashFor(order, n, h) \in Seq(Puts) /\ Len(TrashFor(order, n, h)) = 2 * n + 1
  <2>. DEFINE t == TrashFor(order, n, h)
  <2>1. t = [i \in 1 .. 2 * n + 1 |-> t[i]]
    BY DEF TrashFor
  <2>2. 2 * n + 1 \in Nat
    OBVIOUS
  <2>. HIDE DEF t
  <2>3. t \in [1 .. 2 * n + 1 -> Puts]
    BY <1>4, <2>1 DEF t
  <2>4. t \in Seq(Puts) /\ Len(t) = 2 * n + 1
    BY <2>2, <2>3
  <2> QED
    BY <2>4 DEF t
<1> QED
  BY <1>6, <1>4, <1>5

\* A screen's load, and what it leaves of the tab's own state.
LEMMA LoadingStepsKeep ==
  ASSUME DrinksInv, NEW u \in Users,
         \/ ShowDrinks(u) \/ drinkOneButtonTapped(u) \/ PushAdd(u) \/ PushOverview(u)
         \/ TabToHome(u)
  PROVE  DrinksInv'
<1>1. /\ {"drink", "add", "overview", "home"} \subseteq Screens
      /\ \A s \in {"drinks", "drunk", "add", "overview", "appear"} : Run(s) \in Handlers
  BY DEF Screens, Run, Handlers, Steps
<1>2. /\ \E s \in {"drinks", "drunk", "add", "overview", "appear"} : GetAllData(u, Run(s))
      /\ UNCHANGED <<users, houses, uplink, online, me, residents, week, label>>
  BY DEF ShowDrinks, drinkOneButtonTapped, PushAdd, PushOverview, TabToHome, database
<1>3. screen' \in [Users -> Screens]
  <2>1. screen' = screen \/ \E s \in Screens : screen' = [screen EXCEPT ![u] = s]
    BY <1>1 DEF ShowDrinks, drinkOneButtonTapped, PushAdd, PushOverview, TabToHome
  <2> QED
    BY <2>1 DEF DrinksInv, DrinksTypeOK, DeviceTypeOK
<1>4. HomeTypeOK' /\ Furnished'
  BY <1>1, <1>2, <1>3, LoadsKeep
<1>5. TabTypeOK'
  <2>1. NewDraft \in [stock: Int, bought: 0 .. MaxBought, toBuy: Int,
                      change: -MaxChange .. MaxChange, minus: BOOLEAN]
    BY DrinksAssumption DEF NewDraft
  <2>2. draft' \in [Users -> [stock: Int, bought: 0 .. MaxBought, toBuy: Int,
                              change: -MaxChange .. MaxChange, minus: BOOLEAN]]
    BY <2>1 DEF ShowDrinks, drinkOneButtonTapped, PushAdd, PushOverview, TabToHome,
                DrinksInv, DrinksTypeOK
  <2>3. bar' = bar /\ top' \in [Users -> {"drink", "add", "overview"}]
    BY DEF ShowDrinks, drinkOneButtonTapped, PushAdd, PushOverview, TabToHome,
           DrinksInv, DrinksTypeOK
  <2> QED
    BY <2>2, <2>3 DEF TabTypeOK, DrinksInv, DrinksTypeOK
<1> QED
  BY <1>4, <1>5, DrinksTypes DEF DrinksInv

\* What updateValues takes as the total.
LEMMA TotalsAreNumbers ==
  ASSUME DrinksInv, NEW u \in Users, me[u].house # Null
  PROVE  me[u].house \in Houses /\ UpdatedTotal(u, me[u].house) \in Int
<1>1. me[u].house \in Houses /\ bar[u].total \in Int
  BY DEF DrinksInv, DrinksTypeOK, DeviceTypeOK, UserNode
<1>2. seen[u][me[u].house] # NoHouse => seen[u][me[u].house].drinks \in Int
  BY <1>1 DEF DrinksInv, Furnished, Stocked
<1> QED
  BY <1>1, <1>2 DEF UpdatedTotal

\* The loads that end with the screen taking taps again.
LEMMA RestingStepsKeep ==
  ASSUME DrinksInv, NEW u \in Users, DrinksShown(u) \/ AddOpened(u) \/ OverviewOpened(u)
  PROVE  DrinksInv'
<1>1. CASE DrinksShown(u)
  <2>1. HomeTypeOK' /\ Furnished'
    BY <1>1, RestsKeep DEF DrinksShown, database
  <2>2. bar' \in [Users -> [total: Int, canDrink: BOOLEAN, canOpen: BOOLEAN]]
    <3>1. CASE me[u].house = Null
      BY <1>1, <3>1 DEF DrinksShown, DrinksInv, DrinksTypeOK
    <3>2. CASE me[u].house # Null
      <4>1. PICK total \in Int : total = UpdatedTotal(u, me[u].house)
        BY <3>2, TotalsAreNumbers
      <4>2. bar' = [bar EXCEPT ![u] = [total |-> total, canOpen |-> TRUE, canDrink |-> total # 0]]
        BY <1>1, <3>2, <4>1 DEF DrinksShown
      <4>3. [total |-> total, canOpen |-> TRUE, canDrink |-> total # 0]
              \in [total: Int, canDrink: BOOLEAN, canOpen: BOOLEAN]
        OBVIOUS
      <4> QED
        BY <4>2, <4>3 DEF DrinksInv, DrinksTypeOK
    <3> QED
      BY <3>1, <3>2
  <2>3. TabTypeOK'
    BY <1>1, <2>2 DEF DrinksShown, TabTypeOK, DrinksInv, DrinksTypeOK
  <2> QED
    BY <2>1, <2>3, DrinksTypes DEF DrinksInv
<1>2. CASE AddOpened(u)
  <2>1. CASE Trap(u)
    BY <2>1, TrapKeeps, DrinksTypes DEF DrinksInv
  <2>2. CASE ~Trap(u)
    <3>. DEFINE h == me[u].house
    <3>1. /\ h # Null /\ seen[u][h] # NoHouse
          /\ draft' = [draft EXCEPT ![u] =
               [@ EXCEPT !.stock = seen[u][h].drinks, !.toBuy = me[u].drinksToBuy,
                         !.minus = seen[u][h].drinks # 0]]
          /\ Rest(u)
          /\ UNCHANGED <<users, houses, online, screen, me, week, label, bar, top>>
      BY <1>2, <2>2 DEF AddOpened, database
    <3>2. HomeTypeOK' /\ Furnished'
      BY <3>1, RestsKeep
    <3>3. seen[u][h].drinks \in Int /\ me[u].drinksToBuy \in Int
      BY <3>1, TotalsAreNumbers DEF UpdatedTotal, DrinksInv, DrinksTypeOK, DeviceTypeOK, UserNode
    <3>4. draft' \in [Users -> [stock: Int, bought: 0 .. MaxBought, toBuy: Int,
                                change: -MaxChange .. MaxChange, minus: BOOLEAN]]
      BY <3>1, <3>3, ZenonT(60) DEF DrinksInv, DrinksTypeOK
    <3>5. TabTypeOK'
      BY <3>1, <3>4 DEF TabTypeOK, DrinksInv, DrinksTypeOK
    <3> QED
      BY <3>2, <3>5, DrinksTypes DEF DrinksInv
  <2> QED
    BY <2>1, <2>2
<1>3. CASE OverviewOpened(u)
  <2>1. HomeTypeOK' /\ Furnished'
    BY <1>3, RestsKeep DEF OverviewOpened, database
  <2>2. TabTypeOK'
    BY <1>3 DEF OverviewOpened, TabTypeOK, DrinksInv, DrinksTypeOK
  <2> QED
    BY <2>1, <2>2, DrinksTypes DEF DrinksInv
<1> QED
  BY <1>1, <1>2, <1>3

\* The loads that end with writes, or with an alert.
LEMMA DrinkTakenKeeps ==
  ASSUME DrinksInv, NEW u \in Users, DrinkTaken(u)
  PROVE  DrinksInv'
<1>. DEFINE h == me[u].house
            left == UpdatedTotal(u, h) - 1
<1>1. CASE Trap(u)
  BY <1>1, TrapKeeps, DrinksTypes DEF DrinksInv
<1>2. CASE ~Trap(u)
  <2>1. /\ h # Null
        /\ bar' = [bar EXCEPT ![u].total = left, ![u].canDrink = (left # 0)]
        /\ Issue(u, DrinkPuts(u, h, left))
        /\ phase' = [phase EXCEPT ![u] = "ready"]
        /\ then' = [then EXCEPT ![u] = Nothing]
        /\ UNCHANGED <<users, houses, online, screen, asked, me, known, seen, residents,
                       week, label, draft, top>>
    BY <1>2 DEF DrinkTaken, database, memory
  <2>2. h \in Houses /\ houses[h] # NoHouse
    BY <2>1, OwnHouseFound
  <2>3. left \in Int /\ me[u].drinks + 1 \in Int /\ me[u].drinksToBuy + 1 \in Int
    <3>1. UpdatedTotal(u, h) \in Int
      BY <2>1, TotalsAreNumbers
    <3>2. me[u] \in UserNode
      BY DEF DrinksInv, DrinksTypeOK, DeviceTypeOK
    <3> QED
      BY <3>1, <3>2 DEF UserNode
  <2>4. PICK n, m, k \in Int : n = left /\ m = me[u].drinks + 1 /\ k = me[u].drinksToBuy + 1
    BY <2>3
  <2>5. PICK puts : puts = <<SetStock(h, n), SetDrinks(u, m), SetDrinksToBuy(u, k)>>
    OBVIOUS
  <2>6. puts = DrinkPuts(u, h, left)
    BY <2>4, <2>5 DEF DrinkPuts
  <2>7. puts \in Seq(Puts) /\ \A i \in 1 .. Len(puts) : Found(houses, puts[i])
    BY <2>2, <2>5, DrinkPutsFound
  <2>8. Issue(u, puts)
    BY <2>1, <2>6
  <2>9. phase' \in [Users -> Phases] /\ then' \in [Users -> Handlers]
    BY <2>1 DEF DrinksInv, DrinksTypeOK, DeviceTypeOK, Phases, Nothing, Run, Handlers, Steps
  <2>10. Stocked(seen'[u]) /\ asked' \in [Users -> SUBSET {"users", "houses"}]
         /\ seen' \in [Users -> [Houses -> HouseNode]] /\ known' \in [Users -> BOOLEAN]
    BY <2>1 DEF DrinksInv, DrinksTypeOK, DeviceTypeOK, Furnished
  <2>11. HomeTypeOK' /\ Furnished'
    BY <2>1, <2>7, <2>8, <2>9, <2>10, WritesKeep
  <2>12. TabTypeOK'
    BY <2>1, <2>3, ZenonT(60) DEF TabTypeOK, DrinksInv, DrinksTypeOK
  <2> QED
    BY <2>11, <2>12, DrinksTypes DEF DrinksInv
<1> QED
  BY <1>1, <1>2

\* The taps that write: what the phone holds afterwards, loading or not.
LEMMA SaveDrinksKeeps ==
  ASSUME DrinksInv, NEW u \in Users, SaveDrinks(u)
  PROVE  DrinksInv'
<1>. DEFINE h == me[u].house
            total == newTotalDrinks(u)
<1>1. CASE Trap(u)
  BY <1>1, TrapKeeps, DrinksTypes DEF DrinksInv
<1>2. CASE ~Trap(u)
  <2>1. /\ h # Null /\ seen[u][h] # NoHouse
        /\ Issue(u, <<SetStock(h, total), SetDrinksToBuy(u, draft[u].toBuy)>>)
        /\ IF online[u] THEN GetAllData(u, Run("added"))
           ELSE /\ seen' = [seen EXCEPT ![u][h].drinks = total]
                /\ UNCHANGED <<phase, then, asked, known>>
        /\ UNCHANGED <<users, houses, online, screen, me, residents, week, label, bar, draft, top>>
    BY <1>2 DEF SaveDrinks, database
  <2>2. h \in Houses /\ houses[h] # NoHouse
    BY <2>1, OwnHouseFound
  <2>3. total \in Int /\ draft[u].toBuy \in Int
    BY DrinksAssumption DEF newTotalDrinks, DrinksInv, DrinksTypeOK
  <2>4. PICK n, k \in Int : n = total /\ k = draft[u].toBuy
    BY <2>3
  <2>5. PICK puts : puts = <<SetStock(h, n), SetDrinksToBuy(u, k)>>
    OBVIOUS
  <2>6. puts \in Seq(Puts) /\ \A i \in 1 .. Len(puts) : Found(houses, puts[i])
    BY <2>2, <2>5, DrinkPutsFound
  <2>7. Issue(u, puts)
    BY <2>1, <2>4, <2>5
  <2>8. /\ phase' \in [Users -> Phases] /\ then' \in [Users -> Handlers]
        /\ asked' \in [Users -> SUBSET {"users", "houses"}]
        /\ known' \in [Users -> BOOLEAN]
        /\ seen' \in [Users -> [Houses -> HouseNode]]
        /\ Stocked(seen'[u]) /\ \A v \in Users \ {u} : seen'[v] = seen[v]
    <3>1. CASE online[u]
      <4>1. Run("added") \in Handlers /\ GetAllData(u, Run("added"))
        BY <2>1, <3>1 DEF Run, Handlers, Steps
      <4> QED
        BY <4>1, GetAllDataTyped, PiecesStocked DEF DrinksInv, DrinksTypeOK
    <3>2. CASE ~online[u]
      <4>1. seen' = [seen EXCEPT ![u][h].drinks = total] /\ UNCHANGED <<phase, then, asked, known>>
        BY <2>1, <3>2
      <4>2. PICK node \in HouseNode : node = seen[u][h]
        BY <2>2 DEF DrinksInv, DrinksTypeOK, DeviceTypeOK
      <4>3. seen' = [seen EXCEPT ![u] = [@ EXCEPT ![h] = [node EXCEPT !.drinks = n]]]
        BY <2>4, <4>1, <4>2
      <4>4. [node EXCEPT !.drinks = n] \in HouseNode /\ [node EXCEPT !.drinks = n].drinks = n
        BY DEF HouseNode
      <4>5. seen' \in [Users -> [Houses -> HouseNode]]
        BY <2>2, <4>3, <4>4 DEF DrinksInv, DrinksTypeOK, DeviceTypeOK
      <4>6. /\ seen'[u][h].drinks = n
            /\ \A g \in Houses \ {h} : seen'[u][g] = seen[u][g]
            /\ \A v \in Users \ {u} : seen'[v] = seen[v]
        BY <2>2, <4>3, <4>4 DEF DrinksInv, DrinksTypeOK, DeviceTypeOK
      <4>7. Stocked(seen'[u])
        BY <4>6 DEF Stocked, DrinksInv, Furnished
      <4> QED
        BY <4>1, <4>5, <4>6, <4>7 DEF DrinksInv, DrinksTypeOK, DeviceTypeOK
    <3> QED
      BY <3>1, <3>2
  <2>9. HomeTypeOK' /\ Furnished'
    BY <2>1, <2>6, <2>7, <2>8, WritesKeep
  <2>10. TabTypeOK'
    BY <2>1 DEF TabTypeOK, DrinksInv, DrinksTypeOK
  <2> QED
    BY <2>9, <2>10, DrinksTypes DEF DrinksInv
<1> QED
  BY <1>1, <1>2

LEMMA TrashDrinksKeeps ==
  ASSUME IsFiniteSet(Users), DrinksInv, NEW u \in Users, TrashDrinks(u)
  PROVE  DrinksInv'
<1>. DEFINE h == me[u].house
<1>1. CASE Trap(u)
  BY <1>1, TrapKeeps, DrinksTypes DEF DrinksInv
<1>2. CASE ~Trap(u)
  <2>1. /\ h # Null
        /\ Issue(u, TrashPuts(u, h))
        /\ GetAllData(u, Run("trashed"))
        /\ UNCHANGED <<users, houses, online, screen, me, residents, week, label, bar, draft, top>>
    BY <1>2 DEF TrashDrinks, database
  <2>2. h \in Houses /\ houses[h] # NoHouse
    BY <2>1, OwnHouseFound
  <2>3. PICK puts \in Seq(Puts) :
          puts = TrashPuts(u, h) /\ \A i \in 1 .. Len(puts) : Found(houses, puts[i])
    BY <2>2, TrashPutsFound
  <2>4. Issue(u, puts)
    BY <2>1, <2>3
  <2>5. Run("trashed") \in Handlers
    BY DEF Run, Handlers, Steps
  <2>6. /\ phase' \in [Users -> Phases] /\ then' \in [Users -> Handlers]
        /\ asked' \in [Users -> SUBSET {"users", "houses"}]
        /\ known' \in [Users -> BOOLEAN]
        /\ seen' \in [Users -> [Houses -> HouseNode]]
    BY <2>1, <2>5, GetAllDataTyped DEF DrinksInv, DrinksTypeOK
  <2>7. Stocked(seen'[u]) /\ \A v \in Users \ {u} : seen'[v] = seen[v]
    BY <2>1, PiecesStocked
  <2>8. HomeTypeOK' /\ Furnished'
    BY <2>1, <2>3, <2>4, <2>6, <2>7, WritesKeep
  <2>9. TabTypeOK'
    BY <2>1 DEF TabTypeOK, DrinksInv, DrinksTypeOK
  <2> QED
    BY <2>8, <2>9, DrinksTypes DEF DrinksInv
<1> QED
  BY <1>1, <1>2

\* The steps that change the edits, the alert or the tab, and nothing else.
LEMMA QuietStepsKeep ==
  ASSUME DrinksInv, NEW u \in Users,
         \/ \E n, c \in Int : Edit(u, n, c) /\ n >= 0
         \/ Added(u)
         \/ TabToDrinks(u) /\ ~ShowDrinks(u)
  PROVE  DrinksInv'
<1>1. /\ UNCHANGED <<users, houses, uplink, online, me, residents, week, label, then, asked,
                     known, seen, bar, top>>
      /\ phase' = phase \/ phase' = [phase EXCEPT ![u] = "alert"]
      /\ screen' = screen \/ \E s \in {"drink", "add", "overview"} : screen' = [screen EXCEPT ![u] = s]
  <2>1. top[u] \in {"drink", "add", "overview"}
    BY DEF DrinksInv, DrinksTypeOK
  <2> QED
    BY <2>1 DEF Edit, Added, TabToDrinks, deviceVars, database, memory
<1>2. HomeTypeOK'
  <2>1. phase' \in [Users -> Phases]
    BY <1>1 DEF DrinksInv, DrinksTypeOK, DeviceTypeOK, Phases
  <2>2. screen' \in [Users -> Screens]
    BY <1>1 DEF DrinksInv, DrinksTypeOK, DeviceTypeOK, Screens
  <2>3. residents' = residents
    BY <1>1
  <2> QED
    BY <1>1, <2>1, <2>2 DEF DrinksInv, DrinksTypeOK, HomeTypeOK, DeviceTypeOK, LabelTypeOK
<1>3. Furnished'
  BY <1>1 DEF DrinksInv, Furnished, Stocked, Found
<1>4. draft' \in [Users -> [stock: Int, bought: 0 .. MaxBought, toBuy: Int,
                            change: -MaxChange .. MaxChange, minus: BOOLEAN]]
  <2>1. CASE draft' = draft
    BY <2>1 DEF DrinksInv, DrinksTypeOK
  <2>2. CASE draft' # draft
    <3>1. PICK n, c \in Int : Edit(u, n, c) /\ n >= 0
      BY <2>2 DEF Added, TabToDrinks
    <3>2. /\ draft[u].bought + n <= MaxBought
          /\ draft[u].change + c \in -MaxChange .. MaxChange
          /\ draft' = [draft EXCEPT ![u].bought = @ + n, ![u].toBuy = @ - n,
                                    ![u].change = @ + c, ![u].minus = draft[u].stock # 0]
      BY <3>1 DEF Edit
    <3>. DEFINE B == 0 .. MaxBought
                C == -MaxChange .. MaxChange
    <3>3. draft \in [Users -> [stock: Int, bought: B, toBuy: Int, change: C, minus: BOOLEAN]]
      BY DEF DrinksInv, DrinksTypeOK
    <3>4. draft[u].bought + n \in B /\ draft[u].change + c \in C
      <4>1. draft[u].bought \in 0 .. MaxBought
        BY <3>3
      <4> QED
        BY <3>1, <3>2, <4>1, DrinksAssumption
    <3>. HIDE DEF B, C
    <3>5. PICK f \in [Users -> [stock: Int, bought: B, toBuy: Int, change: C, minus: BOOLEAN]] :
            f = draft
      BY <3>3
    <3>6. f[u].bought + n \in B /\ f[u].change + c \in C
      BY <3>4, <3>5
    <3>7. [f EXCEPT ![u].bought = @ + n, ![u].toBuy = @ - n,
                    ![u].change = @ + c, ![u].minus = f[u].stock # 0]
            \in [Users -> [stock: Int, bought: B, toBuy: Int, change: C, minus: BOOLEAN]]
      <4>1. f[u].toBuy - n \in Int /\ (f[u].stock # 0) \in BOOLEAN
        BY <3>1
      <4> QED
        BY <3>6, <4>1, ZenonT(60)
    <3>8. draft' \in [Users -> [stock: Int, bought: B, toBuy: Int, change: C, minus: BOOLEAN]]
      BY <3>2, <3>5, <3>7
    <3> QED
      BY <3>8 DEF B, C
  <2> QED
    BY <2>1, <2>2
<1>5. TabTypeOK'
  BY <1>1, <1>4 DEF TabTypeOK, DrinksInv, DrinksTypeOK
<1> QED
  BY <1>2, <1>3, <1>5, DrinksTypes DEF DrinksInv

LEMMA DrinksStepKeeps ==
  ASSUME IsFiniteSet(Users), DrinksInv, NEW u \in Users, DrinksStep(u)
  PROVE  DrinksInv'
<1>1. CASE drinkOneButtonTapped(u) \/ PushAdd(u) \/ PushOverview(u) \/ TabToHome(u) \/ ShowDrinks(u)
  BY <1>1, LoadingStepsKeep
<1>2. CASE Trashed(u) \/ Okay(u) \/ Back(u)
  BY <1>1, <1>2 DEF Trashed, Okay, Back
<1>3. CASE DrinksShown(u) \/ AddOpened(u) \/ OverviewOpened(u)
  BY <1>3, RestingStepsKeep
<1>4. CASE DrinkTaken(u)
  BY <1>4, DrinkTakenKeeps
<1>5. CASE SaveDrinks(u)
  BY <1>5, SaveDrinksKeeps
<1>6. CASE TrashDrinks(u)
  BY <1>6, TrashDrinksKeeps
<1>7. CASE plusBoughtButtonTapped(u) \/ plusButtonTapped(u) \/ minusOneButtonTapped(u)
  <2>1. \E n, c \in Int : Edit(u, n, c) /\ n >= 0
    BY <1>7, DrinksAssumption DEF plusBoughtButtonTapped, plusButtonTapped, minusOneButtonTapped
  <2> QED
    BY <2>1, QuietStepsKeep
<1>8. CASE Added(u)
  BY <1>8, QuietStepsKeep
<1>9. CASE TabToDrinks(u)
  BY <1>1, <1>9, QuietStepsKeep
<1> QED
  BY <1>1, <1>2, <1>3, <1>4, <1>5, <1>6, <1>7, <1>8, <1>9 DEF DrinksStep

\* The database a run starts with is furnished.
LEMMA DrinksInitFurnished ==
  ASSUME DrinksInit
  PROVE  DrinksInv
<1>1. HomeTypeOK
  BY HomeInitTyped DEF DrinksInit
<1>2. TabTypeOK
  <2>1. NewBar \in [total: Int, canDrink: BOOLEAN, canOpen: BOOLEAN]
    BY DEF NewBar
  <2>2. NewDraft \in [stock: Int, bought: 0 .. MaxBought, toBuy: Int,
                      change: -MaxChange .. MaxChange, minus: BOOLEAN]
    BY DrinksAssumption DEF NewDraft
  <2> QED
    BY <2>1, <2>2 DEF DrinksInit, TabTypeOK
<1>3. PICK homes \in InitialHomes :
        /\ users = [u \in Users |-> [NoUser EXCEPT !.house = homes[u]]]
        /\ houses = [h \in Houses |-> InitialHouse(homes, h)]
  BY DEF DrinksInit, HomeInit, DeviceInit
<1>4. homes \in [Users -> Houses \cup {Null}]
  BY DeviceAssumption
<1>5. \A v \in Users : users[v].house = homes[v]
  BY <1>3, <1>4 DEF NoUser
<1>6. ASSUME NEW h \in Houses
      PROVE  /\ houses[h] # NoHouse => houses[h].drinks \in Int
             /\ (\E v \in Users : homes[v] = h) => houses[h] # NoHouse
  <2>1. CASE \A v \in Users : homes[v] # h
    BY <1>3, <2>1 DEF InitialHouse
  <2>2. CASE \E v \in Users : homes[v] = h
    <3>1. houses[h].drinks = InitialStock /\ InitialStock \in Int
      BY <1>3, <2>2, DeviceAssumption DEF InitialHouse
    <3> QED
      BY <3>1, NamesAssumption DEF NoHouse
  <2> QED
    BY <2>1, <2>2
<1>7. Stocked(houses) /\ \A v \in Users : users[v].house # Null => houses[users[v].house] # NoHouse
  BY <1>4, <1>5, <1>6 DEF Stocked
<1>8. /\ \A v \in Users : me[v].house = Null
      /\ \A v \in Users : seen[v] = NoHouses
      /\ \A v \in Users : Len(uplink[v]) = 0
  BY DEF DrinksInit, HomeInit, DeviceInit, NoUser
<1>9. Furnished
  BY <1>7, <1>8, NoHousesStocked DEF Furnished
<1> QED
  BY <1>1, <1>2, <1>9, DrinksTypes DEF DrinksInv

(* Under every interleaving of the phones, offline and killed ones too,    *)
(* everything stays of its type: no stock is ever Null, whoever computes   *)
(* with it (updateValues, saveButtonTapped), because every house is        *)
(* written with its stock and what is written below a house finds it there.*)
THEOREM DrinksTypeCorrect ==
  ASSUME IsFiniteSet(Users)
  PROVE  DrinksSpec => []DrinksTypeOK
<1>1. DrinksInit => DrinksInv
  BY DrinksInitFurnished
<1>2. DrinksInv /\ [DrinksNext]_drinksVars => DrinksInv'
  <2> SUFFICES ASSUME DrinksInv, [DrinksNext]_drinksVars PROVE DrinksInv'
    OBVIOUS
  <2>1. CASE UNCHANGED drinksVars
    BY <2>1 DEF drinksVars, homeVars, deviceVars, database, memory, DrinksInv, DrinksTypeOK,
                DeviceTypeOK, LabelTypeOK, Furnished, Stocked, Found
  <2>2. ASSUME NEW u \in Users, HomeStep(u) \/ DrinksStep(u) PROVE DrinksInv'
    BY <2>2, HomeStepKeeps, DrinksStepKeeps, DrinksAssumption
  <2> QED
    BY <2>1, <2>2 DEF DrinksNext
<1>3. DrinksInv => DrinksTypeOK
  BY DEF DrinksInv
<1> QED
  BY <1>1, <1>2, <1>3, PTL DEF DrinksSpec

-----------------------------------------------------------------------------
(* In turns: what the writes of the tab do to a tree.                      *)

HomeOf(tree) == [v \in Users |-> tree.users[v].house]
StockOf(tree) == [h \in Houses |-> tree.houses[h].drinks]
TakenOf(tree) == [v \in Users |-> tree.users[v].drinks]
ToBuyOf(tree) == [v \in Users |-> tree.users[v].drinksToBuy]

\* Nobody moved, and no house came or went.
Settles(tree, next) ==
  /\ next \in Trees /\ Agreed(next)
  /\ HomeOf(next) = HomeOf(tree)
  /\ \A h \in Houses : next.houses[h] # NoHouse <=> tree.houses[h] # NoHouse

LEMMA SettledIsTree ==
  ASSUME NEW tree, NEW next, Settles(tree, next)
  PROVE  next \in Trees /\ Agreed(next)
BY DEF Settles

LEMMA CountLands ==
  ASSUME NEW tree \in Trees, Agreed(tree), NEW v \in Users, NEW n \in Int,
         NEW p \in {SetDrinks(v, n), SetDrinksToBuy(v, n)}, NEW next, next = After(tree, p)
  PROVE  /\ Settles(tree, next) /\ next.houses = tree.houses
         /\ TakenOf(next) = IF p.path = "users/drinks" THEN [TakenOf(tree) EXCEPT ![v] = n]
                            ELSE TakenOf(tree)
         /\ ToBuyOf(next) = IF p.path = "users/drinksToBuy" THEN [ToBuyOf(tree) EXCEPT ![v] = n]
                            ELSE ToBuyOf(tree)
<1>1. PICK us \in [Users -> UserNode] : us = tree.users
  BY DEF Trees
<1>2. p \in Puts
  BY DEF SetDrinks, SetDrinksToBuy, Puts
<1>3. next \in Trees
  BY <1>2, AfterTyped
<1>4. next.houses = tree.houses
  BY DEF After, HousesAfter, SetDrinks, SetDrinksToBuy
<1>5. CASE p = SetDrinks(v, n)
  <2>1. next.users = [us EXCEPT ![v].drinks = n] /\ p.path = "users/drinks"
    BY <1>1, <1>5 DEF After, UsersAfter, SetDrinks
  <2>2. \A w \in Users :
          /\ next.users[w].house = us[w].house
          /\ next.users[w].drinksToBuy = us[w].drinksToBuy
          /\ next.users[w].drinks = IF w = v THEN n ELSE us[w].drinks
    BY <2>1 DEF UserNode
  <2>3. HomeOf(next) = HomeOf(tree) /\ ToBuyOf(next) = ToBuyOf(tree)
        /\ TakenOf(next) = [TakenOf(tree) EXCEPT ![v] = n]
    BY <1>1, <2>2 DEF HomeOf, ToBuyOf, TakenOf
  <2>4. Agreed(next)
    BY <1>1, <1>4, <2>2 DEF Agreed
  <2> QED
    BY <1>3, <1>4, <2>1, <2>3, <2>4 DEF Settles
<1>6. CASE p = SetDrinksToBuy(v, n)
  <2>1. next.users = [us EXCEPT ![v].drinksToBuy = n] /\ p.path = "users/drinksToBuy"
    BY <1>1, <1>6 DEF After, UsersAfter, SetDrinksToBuy
  <2>2. \A w \in Users :
          /\ next.users[w].house = us[w].house
          /\ next.users[w].drinks = us[w].drinks
          /\ next.users[w].drinksToBuy = IF w = v THEN n ELSE us[w].drinksToBuy
    BY <2>1 DEF UserNode
  <2>3. HomeOf(next) = HomeOf(tree) /\ TakenOf(next) = TakenOf(tree)
        /\ ToBuyOf(next) = [ToBuyOf(tree) EXCEPT ![v] = n]
    BY <1>1, <2>2 DEF HomeOf, ToBuyOf, TakenOf
  <2>4. Agreed(next)
    BY <1>1, <1>4, <2>2 DEF Agreed
  <2> QED
    BY <1>3, <1>4, <2>1, <2>3, <2>4 DEF Settles
<1> QED
  BY <1>5, <1>6

LEMMA DinnerLands ==
  ASSUME NEW tree \in Trees, Agreed(tree), NEW v \in Users, NEW b \in BOOLEAN,
         NEW next, next = After(tree, SetDinner(v, b))
  PROVE  /\ Settles(tree, next) /\ next.houses = tree.houses
         /\ TakenOf(next) = TakenOf(tree) /\ ToBuyOf(next) = ToBuyOf(tree)
<1>1. PICK us \in [Users -> UserNode] : us = tree.users
  BY DEF Trees
<1>2. next \in Trees
  BY AfterTyped DEF SetDinner, Puts
<1>3. next.houses = tree.houses /\ next.users = [us EXCEPT ![v].dinner = b]
  BY <1>1 DEF After, HousesAfter, UsersAfter, SetDinner
<1>4. \A w \in Users :
        /\ next.users[w].house = us[w].house
        /\ next.users[w].drinks = us[w].drinks
        /\ next.users[w].drinksToBuy = us[w].drinksToBuy
  BY <1>3 DEF UserNode
<1>5. HomeOf(next) = HomeOf(tree) /\ TakenOf(next) = TakenOf(tree) /\ ToBuyOf(next) = ToBuyOf(tree)
  BY <1>1, <1>4 DEF HomeOf, ToBuyOf, TakenOf
<1>6. Agreed(next)
  BY <1>1, <1>3, <1>4 DEF Agreed
<1> QED
  BY <1>2, <1>3, <1>5, <1>6 DEF Settles

LEMMA HouseLands ==
  ASSUME NEW tree \in Trees, Agreed(tree), NEW h \in Houses, tree.houses[h] # NoHouse,
         NEW n \in Int, NEW p \in {SetStock(h, n), SetFirstWeek(h, n)},
         NEW next, next = After(tree, p)
  PROVE  /\ Settles(tree, next) /\ next.users = tree.users
         /\ StockOf(next) = IF p.path = "houses/drinks" THEN [StockOf(tree) EXCEPT ![h] = n]
                            ELSE StockOf(tree)
         /\ p.path = "houses/firstWeek" => next.houses[h].firstWeek = n
<1>1. PICK hs \in [Houses -> HouseNode] : hs = tree.houses
  BY DEF Trees
<1>2. p \in Puts
  BY DEF SetStock, SetFirstWeek, Puts
<1>3. next \in Trees
  BY <1>2, AfterTyped
<1>4. next.users = tree.users
  BY DEF After, UsersAfter, SetStock, SetFirstWeek
<1>5. PICK node \in HouseNode : node = hs[h]
  OBVIOUS
<1>6. Complete(node) /\ n # Null
  BY <1>1, <1>5, NamesAssumption DEF Agreed, Parsable
<1>7. /\ \A g \in Houses \ {h} : next.houses[g] = hs[g]
      /\ \/ p = SetStock(h, n) /\ next.houses[h] = [node EXCEPT !.drinks = n]
         \/ p = SetFirstWeek(h, n) /\ next.houses[h] = [node EXCEPT !.firstWeek = n]
  BY <1>1, <1>5 DEF After, HousesAfter, SetStock, SetFirstWeek
<1>8. /\ next.houses[h].residents = node.residents
      /\ Complete(next.houses[h])
      /\ p = SetStock(h, n) => next.houses[h].drinks = n
      /\ p = SetFirstWeek(h, n) => next.houses[h].drinks = node.drinks /\ next.houses[h].firstWeek = n
  <2>1. CASE p = SetStock(h, n) /\ next.houses[h] = [node EXCEPT !.drinks = n]
    BY <1>6, <2>1 DEF Complete, HouseNode, SetStock, SetFirstWeek
  <2>2. CASE p = SetFirstWeek(h, n) /\ next.houses[h] = [node EXCEPT !.firstWeek = n]
    BY <1>6, <2>2 DEF Complete, HouseNode, SetStock, SetFirstWeek
  <2> QED
    BY <1>7, <2>1, <2>2
<1>9. next.houses[h] # NoHouse
  BY <1>8 DEF Complete, NoHouse
<1>10. Agreed(next)
  <2>1. \A g \in Houses : next.houses[g].residents = hs[g].residents
    BY <1>5, <1>7, <1>8
  <2>2. \A g \in Houses : next.houses[g] # NoHouse => Complete(next.houses[g])
    BY <1>1, <1>7, <1>8 DEF Agreed, Parsable
  <2> QED
    BY <1>1, <1>4, <2>1, <2>2 DEF Agreed, Parsable
<1>11. HomeOf(next) = HomeOf(tree)
  BY <1>4 DEF HomeOf
<1>12. Settles(tree, next)
  BY <1>1, <1>3, <1>5, <1>7, <1>9, <1>10, <1>11 DEF Settles
<1>13. p.path = (IF p = SetStock(h, n) THEN "houses/drinks" ELSE "houses/firstWeek")
  BY <1>7 DEF SetStock, SetFirstWeek
<1>14. StockOf(next) = IF p.path = "houses/drinks" THEN [StockOf(tree) EXCEPT ![h] = n]
                       ELSE StockOf(tree)
  <2>1. CASE p = SetStock(h, n)
    <3>1. \A g \in Houses : next.houses[g].drinks = IF g = h THEN n ELSE tree.houses[g].drinks
      BY <1>1, <1>7, <1>8, <2>1
    <3> QED
      BY <1>13, <2>1, <3>1 DEF StockOf
  <2>2. CASE p # SetStock(h, n)
    <3>1. \A g \in Houses : next.houses[g].drinks = tree.houses[g].drinks
      BY <1>1, <1>5, <1>7, <1>8, <2>2
    <3> QED
      BY <1>13, <2>2, <3>1 DEF StockOf
  <2> QED
    BY <2>1, <2>2
<1>15. p.path = "houses/firstWeek" => next.houses[h].firstWeek = n
  BY <1>7, <1>8, <1>13
<1> QED
  BY <1>4, <1>12, <1>14, <1>15

\* Any write found, and any queue of them.
LEMMA FoundSettles ==
  ASSUME NEW tree \in Trees, Agreed(tree), NEW p \in Puts, Found(tree.houses, p)
  PROVE  Settles(tree, After(tree, p))
<1>1. CASE p.path = "users/drinks"
  <2>1. PICK v \in Users, n \in Int : p = SetDrinks(v, n)
    BY <1>1 DEF Puts, SetDrinks
  <2> QED
    BY <2>1, CountLands
<1>2. CASE p.path = "users/drinksToBuy"
  <2>1. PICK v \in Users, n \in Int : p = SetDrinksToBuy(v, n)
    BY <1>2 DEF Puts, SetDrinksToBuy
  <2> QED
    BY <2>1, CountLands
<1>3. CASE p.path = "users/dinner"
  <2>1. PICK v \in Users, b \in BOOLEAN : p = SetDinner(v, b)
    BY <1>3 DEF Puts, SetDinner
  <2> QED
    BY <2>1, DinnerLands
<1>4. CASE p.path = "houses/drinks" /\ tree.houses[p.house] # NoHouse
  <2>1. PICK h \in Houses, n \in Int : p = SetStock(h, n)
    BY <1>4 DEF Puts, SetStock
  <2>2. tree.houses[h] # NoHouse
    BY <1>4, <2>1 DEF SetStock
  <2> QED
    BY <2>1, <2>2, HouseLands
<1>5. CASE p.path = "houses/firstWeek" /\ tree.houses[p.house] # NoHouse
  <2>1. PICK h \in Houses, n \in Int : p = SetFirstWeek(h, n)
    BY <1>5 DEF Puts, SetFirstWeek
  <2>2. tree.houses[h] # NoHouse
    BY <1>5, <2>1 DEF SetFirstWeek
  <2> QED
    BY <2>1, <2>2, HouseLands
<1> QED
  BY <1>1, <1>2, <1>3, <1>4, <1>5 DEF Found

LEMMA QueueSettles ==
  ASSUME NEW tree \in Trees, Agreed(tree), NEW q \in Seq(Puts),
         \A i \in 1 .. Len(q) : Found(tree.houses, q[i])
  PROVE  /\ \A n \in 0 .. Len(q) : Settles(tree, Course(tree, q)[n])
         /\ Settles(tree, Applied(tree, q))
<1>. DEFINE c == Course(tree, q)
            Bad == {n \in 0 .. Len(q) : ~Settles(tree, c[n])}
<1>1. c[0] = tree /\ \A n \in 1 .. Len(q) : c[n] = After(c[n - 1], q[n])
  BY CourseStep
<1>2. Settles(tree, tree)
  BY DEF Settles
<1>. HIDE DEF c
<1>3. Len(q) \in Nat /\ \A n \in 1 .. Len(q) : q[n] \in Puts
  OBVIOUS
<1>4. Bad = {}
  <2> SUFFICES ASSUME Bad # {} PROVE FALSE
    OBVIOUS
  <2>1. PICK n \in Bad : \A k \in Bad : n <= k
    <3>1. Bad \in SUBSET Nat
      BY <1>3
    <3> QED
      BY <3>1, LeastNatural
  <2>2. n \in 1 .. Len(q)
    BY <1>1, <1>2, <1>3, <2>1
  <2>3. n - 1 \in 0 .. Len(q) /\ n - 1 \notin Bad
    BY <1>3, <2>1, <2>2
  <2>4. PICK mid : mid = c[n - 1]
    OBVIOUS
  <2>5. Settles(tree, mid)
    BY <2>3, <2>4
  <2>6. Found(mid.houses, q[n])
    <3>1. q[n] \in Puts /\ Found(tree.houses, q[n])
      BY <1>3, <2>2
    <3>2. q[n].path \in {"houses/drinks", "houses/firstWeek"} => q[n].house \in Houses
      BY <3>1 DEF Puts
    <3> QED
      BY <2>5, <3>1, <3>2 DEF Found, Settles
  <2>7. Settles(mid, After(mid, q[n]))
    BY <1>3, <2>2, <2>5, <2>6, FoundSettles DEF Settles
  <2>8. Settles(tree, After(mid, q[n]))
    BY <2>5, <2>7 DEF Settles
  <2> QED
    BY <1>1, <2>1, <2>2, <2>4, <2>8
<1>5. \A n \in 0 .. Len(q) : Settles(tree, c[n])
  BY <1>4
<1>6. Settles(tree, c[Len(q)])
  BY <1>3, <1>5
<1> QED
  BY <1>5, <1>6 DEF Applied, c

-----------------------------------------------------------------------------
(* Which of the writes on their way may take a stock below zero.           *)

\* No house but those of J is overdrawn, by one write and by a queue of them.
Calm(before, after, J) ==
  \A h \in Houses \ J :
    before.houses[h] # NoHouse /\ before.houses[h].drinks >= 0 => ~(after.houses[h].drinks < 0)

CalmQueue(tree, q, J) ==
  \A n \in 1 .. Len(q) : Calm(Course(tree, q)[n - 1], Course(tree, q)[n], J)

LEMMA CalmNothing ==
  ASSUME NEW tree, NEW J
  PROVE  CalmQueue(tree, << >>, J)
<1>1. Len(<< >>) = 0
  OBVIOUS
<1> QED
  BY <1>1 DEF CalmQueue

LEMMA CalmWidens ==
  ASSUME NEW tree, NEW q, NEW J, NEW K, J \subseteq K, CalmQueue(tree, q, J)
  PROVE  CalmQueue(tree, q, K)
BY DEF CalmQueue, Calm

LEMMA CalmGoesOn ==
  ASSUME NEW tree, NEW q \in Seq(Puts), NEW r \in Seq(Puts), NEW J,
         CalmQueue(tree, q, J), CalmQueue(Applied(tree, q), r, J)
  PROVE  CalmQueue(tree, q \o r, J)
<1>. DEFINE s == q \o r
            c == Course(tree, q)
            d == Course(Applied(tree, q), r)
            e == Course(tree, s)
<1>1. /\ Len(q) \in Nat /\ Len(r) \in Nat /\ Len(s) = Len(q) + Len(r)
  BY ConcatProperties, LenProperties
<1>2. /\ \A n \in 0 .. Len(q) : e[n] = c[n]
      /\ \A k \in 0 .. Len(r) : e[Len(q) + k] = d[k]
  BY CourseOfBoth
<1>3. /\ \A n \in 1 .. Len(q) : Calm(c[n - 1], c[n], J)
      /\ \A n \in 1 .. Len(r) : Calm(d[n - 1], d[n], J)
  BY DEF CalmQueue
<1>. HIDE DEF s, c, d, e
<1>4. ASSUME NEW n \in 1 .. Len(s) PROVE Calm(e[n - 1], e[n], J)
  <2>1. CASE n \in 1 .. Len(q)
    <3>1. n \in 0 .. Len(q) /\ n - 1 \in 0 .. Len(q)
      BY <1>1, <2>1
    <3>2. e[n] = c[n] /\ e[n - 1] = c[n - 1]
      BY <1>2, <3>1
    <3> QED
      BY <1>3, <2>1, <3>2
  <2>2. CASE n \notin 1 .. Len(q)
    <3>1. PICK k \in 1 .. Len(r) : n = Len(q) + k /\ n - 1 = Len(q) + (k - 1)
      <4>. DEFINE k == n - Len(q)
      <4>1. k \in 1 .. Len(r)
        BY <1>1, <2>2
      <4>2. n = Len(q) + k /\ n - 1 = Len(q) + (k - 1)
        BY <1>1
      <4> QED
        BY <4>1, <4>2
    <3>2. k \in 0 .. Len(r) /\ k - 1 \in 0 .. Len(r)
      BY <1>1
    <3>3. e[n] = d[k] /\ e[n - 1] = d[k - 1]
      BY <1>2, <3>1, <3>2
    <3> QED
      BY <1>3, <3>3
  <2> QED
    BY <2>1, <2>2
<1> QED
  BY <1>4 DEF CalmQueue, s, e

LEMMA CalmMovesOn ==
  ASSUME NEW tree, NEW q \in Seq(Puts), q # << >>, NEW J, CalmQueue(tree, q, J)
  PROVE  /\ CalmQueue(After(tree, Head(q)), Tail(q), J)
         /\ Calm(tree, After(tree, Head(q)), J)
<1>. DEFINE t == Tail(q)
            next == After(tree, Head(q))
            c == Course(tree, q)
            d == Course(next, t)
<1>1. Len(t) \in Nat /\ Len(q) = Len(t) + 1 /\ t \in Seq(Puts)
  BY HeadTailProperties, LenProperties
<1>2. \A n \in 0 .. Len(t) : d[n] = c[n + 1]
  BY CourseMovesOn
<1>3. \A n \in 1 .. Len(q) : Calm(c[n - 1], c[n], J)
  BY DEF CalmQueue
<1>4. c[0] = tree
  BY CourseStep
<1>5. d[0] = next
  BY <1>1, CourseStep
<1>. HIDE DEF t, next, c, d
<1>6. Calm(tree, next, J)
  <2>1. 1 \in 1 .. Len(q) /\ 1 - 1 = 0 /\ 0 \in 0 .. Len(t) /\ 0 + 1 = 1
    BY <1>1
  <2>2. Calm(c[1 - 1], c[1], J) /\ d[0] = c[0 + 1]
    BY <1>2, <1>3, <2>1
  <2> QED
    BY <1>4, <1>5, <2>1, <2>2
<1>7. ASSUME NEW n \in 1 .. Len(t) PROVE Calm(d[n - 1], d[n], J)
  <2>1. /\ n + 1 \in 1 .. Len(q) /\ (n + 1) - 1 = n /\ (n - 1) + 1 = n
        /\ n \in 0 .. Len(t) /\ n - 1 \in 0 .. Len(t)
    BY <1>1
  <2>2. d[n] = c[n + 1] /\ d[n - 1] = c[n] /\ Calm(c[n], c[n + 1], J)
    BY <1>2, <1>3, <2>1
  <2> QED
    BY <2>2
<1> QED
  BY <1>6, <1>7 DEF CalmQueue, t, next, d

\* A write that leaves the houses alone.
LEMMA HousesCalm ==
  ASSUME NEW before \in Trees, Agreed(before), NEW after, after.houses = before.houses, NEW J
  PROVE  Calm(before, after, J)
<1> SUFFICES ASSUME NEW h \in Houses, before.houses[h] # NoHouse, before.houses[h].drinks >= 0
             PROVE  ~(before.houses[h].drinks < 0)
  BY DEF Calm
<1>1. before.houses[h].drinks \in Int
  BY DEF Agreed, Parsable, Complete, Trees, HouseNode
<1> QED
  BY <1>1

\* A write of a stock, and of a first week.
LEMMA HouseCalm ==
  ASSUME NEW before \in Trees, Agreed(before), NEW h \in Houses, before.houses[h] # NoHouse,
         NEW n \in Int, NEW J, NEW p \in {SetStock(h, n), SetFirstWeek(h, n)},
         p = SetStock(h, n) /\ n < 0 /\ h \notin J => before.houses[h].drinks < 0
  PROVE  Calm(before, After(before, p), J)
<1>1. PICK hs \in [Houses -> HouseNode] : hs = before.houses
  BY DEF Trees
<1>2. \A g \in Houses : hs[g] # NoHouse => hs[g].drinks \in Int
  BY <1>1 DEF Agreed, Parsable, Complete, HouseNode
<1>3. PICK after : after = After(before, p)
  OBVIOUS
<1>4. /\ \A g \in Houses \ {h} : after.houses[g] = hs[g]
      /\ \/ p = SetStock(h, n) /\ after.houses[h].drinks = n
         \/ p = SetFirstWeek(h, n) /\ after.houses[h].drinks = hs[h].drinks
  BY <1>1, <1>3 DEF After, HousesAfter, SetStock, SetFirstWeek, HouseNode
<1>5. ASSUME NEW g \in Houses \ J, hs[g] # NoHouse, hs[g].drinks >= 0
      PROVE  ~(after.houses[g].drinks < 0)
  <2>1. CASE g # h
    BY <1>2, <1>4, <1>5, <2>1
  <2>2. CASE g = h
    <3>1. hs[h].drinks \in Int /\ hs[h].drinks >= 0
      BY <1>2, <1>5, <2>2
    <3> QED
      BY <1>1, <1>4, <1>5, <2>2, <3>1
  <2> QED
    BY <2>1, <2>2
<1> QED
  BY <1>1, <1>3, <1>5 DEF Calm

\* One write behind others.
LEMMA WriteBehind ==
  ASSUME NEW tree, NEW q \in Seq(Puts), NEW p \in Puts, NEW J, CalmQueue(tree, q, J),
         NEW mid, mid = Applied(tree, q), Calm(mid, After(mid, p), J)
  PROVE  /\ Append(q, p) \in Seq(Puts)
         /\ Applied(tree, Append(q, p)) = After(mid, p)
         /\ CalmQueue(tree, Append(q, p), J)
<1>0. /\ \A n \in 0 .. Len(q) : Course(tree, Append(q, p))[n] = Course(tree, q)[n]
      /\ Course(tree, Append(q, p))[Len(q) + 1] = After(Applied(tree, q), p)
      /\ Applied(tree, Append(q, p)) = After(Applied(tree, q), p)
  BY CourseGoesOn, AppliedGoesOn
<1>. DEFINE r == Append(q, p)
            c == Course(tree, q)
            d == Course(tree, r)
<1>1. r \in Seq(Puts) /\ Len(q) \in Nat /\ Len(r) = Len(q) + 1
  OBVIOUS
<1>2. /\ \A n \in 0 .. Len(q) : d[n] = c[n]
      /\ d[Len(q) + 1] = After(mid, p)
      /\ Applied(tree, r) = After(mid, p)
  BY <1>0
<1>3. /\ \A n \in 1 .. Len(q) : Calm(c[n - 1], c[n], J)
      /\ c[Len(q)] = mid
  BY DEF CalmQueue, Applied
<1>. HIDE DEF r, c, d
<1>4. ASSUME NEW n \in 1 .. Len(r) PROVE Calm(d[n - 1], d[n], J)
  <2>1. CASE n \in 1 .. Len(q)
    <3>1. n \in 0 .. Len(q) /\ n - 1 \in 0 .. Len(q)
      BY <1>1, <2>1
    <3>2. d[n] = c[n] /\ d[n - 1] = c[n - 1]
      BY <1>2, <3>1
    <3> QED
      BY <1>3, <2>1, <3>2
  <2>2. CASE n = Len(q) + 1
    <3>1. n - 1 = Len(q) /\ Len(q) \in 0 .. Len(q)
      BY <1>1, <2>2
    <3>2. d[n - 1] = mid /\ d[n] = After(mid, p)
      BY <1>2, <1>3, <2>2, <3>1
    <3> QED
      BY <3>2
  <2> QED
    BY <1>1, <2>1, <2>2
<1>5. CalmQueue(tree, r, J)
  BY <1>4 DEF CalmQueue, d
<1> QED
  BY <1>1, <1>2, <1>5 DEF r

\* One, two and three writes.
LEMMA OneListed ==
  ASSUME NEW a \in Puts
  PROVE  <<a>> = Append(<< >>, a)
<1>1. \A q \in Seq(Puts) : q \o <<a>> = Append(q, a)
  OBVIOUS
<1>2. << >> \in Seq(Puts)
  OBVIOUS
<1>3. << >> \o <<a>> = <<a>>
  OBVIOUS
<1> QED
  BY <1>1, <1>2, <1>3

LEMMA TwoListed ==
  ASSUME NEW a \in Puts, NEW b \in Puts
  PROVE  <<a, b>> = Append(Append(<< >>, a), b)
<1>1. \A q \in Seq(Puts) : q \o <<a, b>> = Append(Append(q, a), b)
  OBVIOUS
<1>2. << >> \in Seq(Puts)
  OBVIOUS
<1>3. << >> \o <<a, b>> = <<a, b>>
  OBVIOUS
<1> QED
  BY <1>1, <1>2, <1>3

LEMMA ThreeListed ==
  ASSUME NEW a \in Puts, NEW b \in Puts, NEW c \in Puts
  PROVE  <<a, b, c>> = Append(Append(Append(<< >>, a), b), c)
<1>1. \A q \in Seq(Puts) : q \o <<a, b, c>> = Append(Append(Append(q, a), b), c)
  OBVIOUS
<1>2. << >> \in Seq(Puts)
  OBVIOUS
<1>3. << >> \o <<a, b, c>> = <<a, b, c>>
  OBVIOUS
<1> QED
  BY <1>1, <1>2, <1>3

LEMMA OneWrite ==
  ASSUME NEW tree, NEW J, NEW a \in Puts, NEW ta, ta = After(tree, a), Calm(tree, ta, J)
  PROVE  <<a>> \in Seq(Puts) /\ Applied(tree, <<a>>) = ta /\ CalmQueue(tree, <<a>>, J)
<1>. DEFINE q == << >>
<1>1. <<a>> = Append(q, a)
  BY OneListed
<1>2. q \in Seq(Puts) /\ Applied(tree, q) = tree /\ CalmQueue(tree, q, J)
  BY AppliedNothing, CalmNothing
<1>. HIDE DEF q
<1>3. /\ Append(q, a) \in Seq(Puts) /\ Applied(tree, Append(q, a)) = ta
      /\ CalmQueue(tree, Append(q, a), J)
  BY <1>2, WriteBehind
<1> QED
  BY <1>1, <1>3

LEMMA TwoWrites ==
  ASSUME NEW tree, NEW J, NEW a \in Puts, NEW b \in Puts,
         NEW ta, ta = After(tree, a), NEW tb, tb = After(ta, b),
         Calm(tree, ta, J), Calm(ta, tb, J)
  PROVE  <<a, b>> \in Seq(Puts) /\ Applied(tree, <<a, b>>) = tb /\ CalmQueue(tree, <<a, b>>, J)
<1>. DEFINE q == Append(<< >>, a)
<1>1. <<a>> = q /\ <<a, b>> = Append(q, b)
  BY OneListed, TwoListed
<1>2. <<a>> \in Seq(Puts) /\ Applied(tree, <<a>>) = ta /\ CalmQueue(tree, <<a>>, J)
  BY OneWrite
<1>. HIDE DEF q
<1>3. q \in Seq(Puts) /\ Applied(tree, q) = ta /\ CalmQueue(tree, q, J)
  BY <1>1, <1>2
<1>4. /\ Append(q, b) \in Seq(Puts) /\ Applied(tree, Append(q, b)) = tb
      /\ CalmQueue(tree, Append(q, b), J)
  BY <1>3, WriteBehind
<1> QED
  BY <1>1, <1>4

LEMMA ThreeWrites ==
  ASSUME NEW tree, NEW J, NEW a \in Puts, NEW b \in Puts, NEW c \in Puts,
         NEW ta, ta = After(tree, a), NEW tb, tb = After(ta, b), NEW tc, tc = After(tb, c),
         Calm(tree, ta, J), Calm(ta, tb, J), Calm(tb, tc, J)
  PROVE  /\ <<a, b, c>> \in Seq(Puts) /\ Applied(tree, <<a, b, c>>) = tc
         /\ CalmQueue(tree, <<a, b, c>>, J)
<1>. DEFINE q == Append(Append(<< >>, a), b)
<1>1. <<a, b>> = q /\ <<a, b, c>> = Append(q, c)
  BY TwoListed, ThreeListed
<1>2. <<a, b>> \in Seq(Puts) /\ Applied(tree, <<a, b>>) = tb /\ CalmQueue(tree, <<a, b>>, J)
  BY TwoWrites
<1>. HIDE DEF q
<1>3. q \in Seq(Puts) /\ Applied(tree, q) = tb /\ CalmQueue(tree, q, J)
  BY <1>1, <1>2
<1>4. /\ Append(q, c) \in Seq(Puts) /\ Applied(tree, Append(q, c)) = tc
      /\ CalmQueue(tree, Append(q, c), J)
  BY <1>3, WriteBehind
<1> QED
  BY <1>1, <1>4

-----------------------------------------------------------------------------
(* What a drink, a save and a reset make of the tree ahead.                *)

\* Nothing that the fridge is about changed.
Same(tree, next) ==
  /\ Settles(tree, next)
  /\ StockOf(next) = StockOf(tree)
  /\ TakenOf(next) = TakenOf(tree)
  /\ ToBuyOf(next) = ToBuyOf(tree)

LEMMA SameAsItself ==
  ASSUME NEW tree \in Trees, Agreed(tree)
  PROVE  Same(tree, tree) /\ \A J : Calm(tree, tree, J)
BY HousesCalm DEF Same, Settles

LEMMA DinnerWritten ==
  ASSUME NEW tree \in Trees, Agreed(tree), NEW v \in Users, NEW b \in BOOLEAN,
         NEW J, NEW next, next = Applied(tree, <<SetDinner(v, b)>>)
  PROVE  /\ <<SetDinner(v, b)>> \in Seq(Puts) /\ CalmQueue(tree, <<SetDinner(v, b)>>, J)
         /\ Same(tree, next) /\ next.houses = tree.houses
<1>1. SetDinner(v, b) \in Puts
  BY DEF SetDinner, Puts
<1>2. PICK p, end : p \in Puts /\ p = SetDinner(v, b) /\ end = After(tree, p)
  BY <1>1
<1>3. /\ Settles(tree, end) /\ end.houses = tree.houses
      /\ TakenOf(end) = TakenOf(tree) /\ ToBuyOf(end) = ToBuyOf(tree)
  BY <1>2, DinnerLands
<1>4. Calm(tree, end, J)
  BY <1>3, HousesCalm
<1>5. <<p>> \in Seq(Puts) /\ Applied(tree, <<p>>) = end /\ CalmQueue(tree, <<p>>, J)
  BY <1>2, <1>4, OneWrite
<1> QED
  BY <1>2, <1>3, <1>5 DEF Same, StockOf

LEMMA FirstWeekWritten ==
  ASSUME NEW tree \in Trees, Agreed(tree), NEW h \in Houses, tree.houses[h] # NoHouse,
         NEW n \in Int, NEW J, NEW next, next = Applied(tree, <<SetFirstWeek(h, n)>>)
  PROVE  /\ <<SetFirstWeek(h, n)>> \in Seq(Puts) /\ CalmQueue(tree, <<SetFirstWeek(h, n)>>, J)
         /\ Same(tree, next) /\ next.houses[h].firstWeek = n
<1>1. SetFirstWeek(h, n) \in Puts
  BY DEF SetFirstWeek, Puts
<1>2. PICK p, end : p \in Puts /\ p = SetFirstWeek(h, n) /\ end = After(tree, p)
  BY <1>1
<1>3. p.path = "houses/firstWeek" /\ p # SetStock(h, n)
  BY <1>2 DEF SetFirstWeek, SetStock
<1>4. /\ Settles(tree, end) /\ end.users = tree.users
      /\ StockOf(end) = StockOf(tree) /\ end.houses[h].firstWeek = n
  BY <1>2, <1>3, HouseLands
<1>5. Calm(tree, end, J)
  BY <1>2, <1>3, HouseCalm
<1>6. <<p>> \in Seq(Puts) /\ Applied(tree, <<p>>) = end /\ CalmQueue(tree, <<p>>, J)
  BY <1>2, <1>5, OneWrite
<1> QED
  BY <1>2, <1>4, <1>6 DEF Same, TakenOf, ToBuyOf

LEMMA StockWritten ==
  ASSUME NEW tree \in Trees, Agreed(tree), NEW h \in Houses, tree.houses[h] # NoHouse,
         NEW n \in Int
  PROVE  /\ SetStock(h, n) \in Puts /\ Settles(tree, After(tree, SetStock(h, n)))
         /\ StockOf(After(tree, SetStock(h, n))) = [StockOf(tree) EXCEPT ![h] = n]
         /\ TakenOf(After(tree, SetStock(h, n))) = TakenOf(tree)
         /\ ToBuyOf(After(tree, SetStock(h, n))) = ToBuyOf(tree)
         /\ \A J : (n < 0 /\ h \notin J => tree.houses[h].drinks < 0) =>
                      Calm(tree, After(tree, SetStock(h, n)), J)
<1>1. SetStock(h, n) \in Puts
  BY DEF SetStock, Puts
<1>2. PICK p, next : p \in Puts /\ p = SetStock(h, n) /\ next = After(tree, p)
  BY <1>1
<1>3. p.path = "houses/drinks"
  BY <1>2 DEF SetStock
<1>4. /\ Settles(tree, next) /\ next.users = tree.users
      /\ StockOf(next) = [StockOf(tree) EXCEPT ![h] = n]
  BY <1>2, <1>3, HouseLands
<1>5. ASSUME NEW J, n < 0 /\ h \notin J => tree.houses[h].drinks < 0
      PROVE  Calm(tree, next, J)
  BY <1>2, <1>5, HouseCalm
<1>6. TakenOf(next) = TakenOf(tree) /\ ToBuyOf(next) = ToBuyOf(tree)
  BY <1>4 DEF TakenOf, ToBuyOf
<1> QED
  BY <1>1, <1>2, <1>4, <1>5, <1>6

LEMMA TakenWritten ==
  ASSUME NEW tree \in Trees, Agreed(tree), NEW v \in Users, NEW n \in Int
  PROVE  /\ SetDrinks(v, n) \in Puts /\ Settles(tree, After(tree, SetDrinks(v, n)))
         /\ After(tree, SetDrinks(v, n)).houses = tree.houses
         /\ StockOf(After(tree, SetDrinks(v, n))) = StockOf(tree)
         /\ TakenOf(After(tree, SetDrinks(v, n))) = [TakenOf(tree) EXCEPT ![v] = n]
         /\ ToBuyOf(After(tree, SetDrinks(v, n))) = ToBuyOf(tree)
         /\ \A J : Calm(tree, After(tree, SetDrinks(v, n)), J)
<1>1. SetDrinks(v, n) \in Puts
  BY DEF SetDrinks, Puts
<1>2. PICK p, next : p \in Puts /\ p = SetDrinks(v, n) /\ next = After(tree, p)
  BY <1>1
<1>3. p.path = "users/drinks"
  BY <1>2 DEF SetDrinks
<1>4. /\ Settles(tree, next) /\ next.houses = tree.houses
      /\ TakenOf(next) = [TakenOf(tree) EXCEPT ![v] = n] /\ ToBuyOf(next) = ToBuyOf(tree)
  BY <1>2, <1>3, CountLands
<1>5. \A J : Calm(tree, next, J)
  BY <1>4, HousesCalm
<1>6. StockOf(next) = StockOf(tree)
  BY <1>4 DEF StockOf
<1> QED
  BY <1>1, <1>2, <1>4, <1>5, <1>6

LEMMA ToBuyWritten ==
  ASSUME NEW tree \in Trees, Agreed(tree), NEW v \in Users, NEW n \in Int
  PROVE  /\ SetDrinksToBuy(v, n) \in Puts /\ Settles(tree, After(tree, SetDrinksToBuy(v, n)))
         /\ After(tree, SetDrinksToBuy(v, n)).houses = tree.houses
         /\ StockOf(After(tree, SetDrinksToBuy(v, n))) = StockOf(tree)
         /\ ToBuyOf(After(tree, SetDrinksToBuy(v, n))) = [ToBuyOf(tree) EXCEPT ![v] = n]
         /\ TakenOf(After(tree, SetDrinksToBuy(v, n))) = TakenOf(tree)
         /\ \A J : Calm(tree, After(tree, SetDrinksToBuy(v, n)), J)
<1>1. SetDrinksToBuy(v, n) \in Puts
  BY DEF SetDrinksToBuy, Puts
<1>2. PICK p, next : p \in Puts /\ p = SetDrinksToBuy(v, n) /\ next = After(tree, p)
  BY <1>1
<1>3. p.path = "users/drinksToBuy"
  BY <1>2 DEF SetDrinksToBuy
<1>4. /\ Settles(tree, next) /\ next.houses = tree.houses
      /\ ToBuyOf(next) = [ToBuyOf(tree) EXCEPT ![v] = n] /\ TakenOf(next) = TakenOf(tree)
  BY <1>2, <1>3, CountLands
<1>5. \A J : Calm(tree, next, J)
  BY <1>4, HousesCalm
<1>6. StockOf(next) = StockOf(tree)
  BY <1>4 DEF StockOf
<1> QED
  BY <1>1, <1>2, <1>4, <1>5, <1>6

Cleared(tree, next, h) ==
  /\ Settles(tree, next)
  /\ StockOf(next) = [StockOf(tree) EXCEPT ![h] = 0]
  /\ \A v \in Users :
       /\ TakenOf(next)[v] = IF HomeOf(tree)[v] = h THEN 0 ELSE TakenOf(tree)[v]
       /\ ToBuyOf(next)[v] = IF HomeOf(tree)[v] = h THEN 0 ELSE ToBuyOf(tree)[v]

\* The writes q make h's stock n, and u's counts m and k.
Writes(tree, q, J, h, n, v, m, k) ==
  /\ q \in Seq(Puts) /\ CalmQueue(tree, q, J)
  /\ Settles(tree, Applied(tree, q))
  /\ StockOf(Applied(tree, q)) = [StockOf(tree) EXCEPT ![h] = n]
  /\ TakenOf(Applied(tree, q)) = [TakenOf(tree) EXCEPT ![v] = m]
  /\ ToBuyOf(Applied(tree, q)) = [ToBuyOf(tree) EXCEPT ![v] = k]

LEMMA DrinkWritten ==
  ASSUME NEW tree \in Trees, Agreed(tree), NEW h \in Houses, tree.houses[h] # NoHouse,
         NEW v \in Users, NEW n \in Int, NEW m \in Int, NEW k \in Int,
         NEW J, n < 0 /\ h \notin J => tree.houses[h].drinks < 0,
         NEW q, q = <<SetStock(h, n), SetDrinks(v, m), SetDrinksToBuy(v, k)>>
  PROVE  Writes(tree, q, J, h, n, v, m, k)
<1>1. PICK ta : ta = After(tree, SetStock(h, n))
  OBVIOUS
<1>2. /\ SetStock(h, n) \in Puts /\ Settles(tree, ta) /\ Calm(tree, ta, J)
      /\ StockOf(ta) = [StockOf(tree) EXCEPT ![h] = n]
      /\ TakenOf(ta) = TakenOf(tree) /\ ToBuyOf(ta) = ToBuyOf(tree)
  BY <1>1, StockWritten
<1>3. PICK tb : tb = After(ta, SetDrinks(v, m))
  OBVIOUS
<1>4. /\ SetDrinks(v, m) \in Puts /\ Settles(ta, tb) /\ Calm(ta, tb, J)
      /\ StockOf(tb) = StockOf(ta) /\ ToBuyOf(tb) = ToBuyOf(ta)
      /\ TakenOf(tb) = [TakenOf(ta) EXCEPT ![v] = m]
  <2>1. ta \in Trees /\ Agreed(ta)
    BY <1>2 DEF Settles
  <2> QED
    BY <1>3, <2>1, TakenWritten
<1>5. PICK tc : tc = After(tb, SetDrinksToBuy(v, k))
  OBVIOUS
<1>6. /\ SetDrinksToBuy(v, k) \in Puts /\ Settles(tb, tc) /\ Calm(tb, tc, J)
      /\ StockOf(tc) = StockOf(tb) /\ TakenOf(tc) = TakenOf(tb)
      /\ ToBuyOf(tc) = [ToBuyOf(tb) EXCEPT ![v] = k]
  <2>1. tb \in Trees /\ Agreed(tb)
    BY <1>4 DEF Settles
  <2> QED
    BY <1>5, <2>1, ToBuyWritten
<1>7. q \in Seq(Puts) /\ Applied(tree, q) = tc /\ CalmQueue(tree, q, J)
  <2>1. PICK a \in Puts, b \in Puts, c \in Puts :
          a = SetStock(h, n) /\ b = SetDrinks(v, m) /\ c = SetDrinksToBuy(v, k)
    BY <1>2, <1>4, <1>6
  <2>2. ta = After(tree, a) /\ tb = After(ta, b) /\ tc = After(tb, c) /\ q = <<a, b, c>>
    BY <1>1, <1>3, <1>5, <2>1
  <2> QED
    BY <1>2, <1>4, <1>6, <2>2, ThreeWrites
<1>8. Settles(tree, tc)
  BY <1>2, <1>4, <1>6 DEF Settles
<1> QED
  BY <1>2, <1>4, <1>6, <1>7, <1>8 DEF Writes

LEMMA SaveWritten ==
  ASSUME NEW tree \in Trees, Agreed(tree), NEW h \in Houses, tree.houses[h] # NoHouse,
         NEW v \in Users, NEW n \in Int, NEW k \in Int,
         NEW J, n < 0 /\ h \notin J => tree.houses[h].drinks < 0,
         NEW q, q = <<SetStock(h, n), SetDrinksToBuy(v, k)>>
  PROVE  Writes(tree, q, J, h, n, v, tree.users[v].drinks, k)
<1>1. PICK ta : ta = After(tree, SetStock(h, n))
  OBVIOUS
<1>2. /\ SetStock(h, n) \in Puts /\ Settles(tree, ta) /\ Calm(tree, ta, J)
      /\ StockOf(ta) = [StockOf(tree) EXCEPT ![h] = n]
      /\ TakenOf(ta) = TakenOf(tree) /\ ToBuyOf(ta) = ToBuyOf(tree)
  BY <1>1, StockWritten
<1>3. PICK tb : tb = After(ta, SetDrinksToBuy(v, k))
  OBVIOUS
<1>4. /\ SetDrinksToBuy(v, k) \in Puts /\ Settles(ta, tb) /\ Calm(ta, tb, J)
      /\ StockOf(tb) = StockOf(ta) /\ TakenOf(tb) = TakenOf(ta)
      /\ ToBuyOf(tb) = [ToBuyOf(ta) EXCEPT ![v] = k]
  BY <1>2, <1>3, SettledIsTree, ToBuyWritten
<1>5. q \in Seq(Puts) /\ Applied(tree, q) = tb /\ CalmQueue(tree, q, J)
  <2>1. PICK a \in Puts, b \in Puts : a = SetStock(h, n) /\ b = SetDrinksToBuy(v, k)
    BY <1>2, <1>4
  <2>2. ta = After(tree, a) /\ tb = After(ta, b) /\ q = <<a, b>>
    BY <1>1, <1>3, <2>1
  <2> QED
    BY <1>2, <1>4, <2>2, TwoWrites
<1>6. Settles(tree, tb)
  BY <1>2, <1>4 DEF Settles
<1>7. TakenOf(tree) = [TakenOf(tree) EXCEPT ![v] = tree.users[v].drinks]
  BY DEF TakenOf
<1> QED
  BY <1>2, <1>4, <1>5, <1>6, <1>7 DEF Writes

\* The first k writes of a reset: the counts of the residents come first.
ClearedUpTo(tree, mid, order, n, k) ==
  /\ Settles(tree, mid) /\ mid.houses = tree.houses
  /\ \A v \in Users :
       /\ TakenOf(mid)[v] =
            IF \E j \in 1 .. n : 2 * j - 1 <= k /\ order[j] = v THEN 0 ELSE TakenOf(tree)[v]
       /\ ToBuyOf(mid)[v] =
            IF \E j \in 1 .. n : 2 * j <= k /\ order[j] = v THEN 0 ELSE ToBuyOf(tree)[v]

LEMMA ClearingGoesOn ==
  ASSUME NEW tree, NEW mid, NEW n \in Nat, NEW R, R \subseteq Users, NEW order \in [1 .. n -> R],
         NEW h, NEW k \in 1 .. 2 * n, ClearedUpTo(tree, mid, order, n, k - 1),
         NEW next, next = After(mid, TrashFor(order, n, h)[k]), NEW J
  PROVE  ClearedUpTo(tree, next, order, n, k) /\ Calm(mid, next, J)
<1>1. mid \in Trees /\ Agreed(mid)
  BY DEF ClearedUpTo, Settles
<1>2. PICK j \in 1 .. n :
        \/ k = 2 * j - 1 /\ TrashFor(order, n, h)[k] = SetDrinks(order[j], 0)
        \/ k = 2 * j /\ TrashFor(order, n, h)[k] = SetDrinksToBuy(order[j], 0)
  <2>1. k \in 1 .. 2 * n + 1 /\ k # 2 * n + 1
    OBVIOUS
  <2>2. PICK i \in 1 .. 2 * n + 1 : i = k
    BY <2>1
  <2>3. CASE i = 2 * n + 1
    BY <2>1, <2>2, <2>3
  <2>4. CASE \E j \in 1 .. n : i = 2 * j - 1 /\ TrashFor(order, n, h)[i] = SetDrinks(order[j], 0)
    BY <2>2, <2>4
  <2>5. CASE \E j \in 1 .. n : i = 2 * j /\ TrashFor(order, n, h)[i] = SetDrinksToBuy(order[j], 0)
    BY <2>2, <2>5
  <2> QED
    BY <2>3, <2>4, <2>5, TrashAt
<1>3. PICK w \in Users : w = order[j]
  OBVIOUS
<1>4. CASE k = 2 * j - 1 /\ next = After(mid, SetDrinks(w, 0))
  <2>1. /\ Settles(mid, next) /\ Calm(mid, next, J)
        /\ TakenOf(next) = [TakenOf(mid) EXCEPT ![w] = 0] /\ ToBuyOf(next) = ToBuyOf(mid)
    BY <1>1, <1>4, TakenWritten
  <2>2. next.houses = mid.houses
    BY <1>1, <1>4, TakenWritten
  <2>3. ASSUME NEW v \in Users
        PROVE  TakenOf(next)[v] = IF \E i \in 1 .. n : 2 * i - 1 <= k /\ order[i] = v
                                  THEN 0 ELSE TakenOf(tree)[v]
    <3>1. TakenOf(next)[v] = IF v = w THEN 0 ELSE TakenOf(mid)[v]
      BY <2>1 DEF TakenOf
    <3>2. CASE v = w
      <4>1. 2 * j - 1 <= k /\ order[j] = v
        BY <1>3, <1>4, <3>2
      <4> QED
        BY <3>1, <3>2, <4>1
    <3>3. CASE v # w
      <4>1. \A i \in 1 .. n : order[i] = v => (2 * i - 1 <= k <=> 2 * i - 1 <= k - 1)
        BY <1>3, <1>4, <3>3
      <4>2. (\E i \in 1 .. n : 2 * i - 1 <= k /\ order[i] = v)
              <=> (\E i \in 1 .. n : 2 * i - 1 <= k - 1 /\ order[i] = v)
        BY <4>1
      <4> QED
        BY <3>1, <3>3, <4>2 DEF ClearedUpTo
    <3> QED
      BY <3>2, <3>3
  <2>4. ASSUME NEW v \in Users
        PROVE  ToBuyOf(next)[v] = IF \E i \in 1 .. n : 2 * i <= k /\ order[i] = v
                                  THEN 0 ELSE ToBuyOf(tree)[v]
    <3>1. \A i \in 1 .. n : 2 * i <= k <=> 2 * i <= k - 1
      BY <1>4
    <3>2. (\E i \in 1 .. n : 2 * i <= k /\ order[i] = v)
            <=> (\E i \in 1 .. n : 2 * i <= k - 1 /\ order[i] = v)
      BY <3>1
    <3> QED
      BY <2>1, <3>2 DEF ClearedUpTo
  <2>5. Settles(tree, next) /\ next.houses = tree.houses
    BY <2>1, <2>2 DEF ClearedUpTo, Settles
  <2> QED
    BY <2>1, <2>3, <2>4, <2>5 DEF ClearedUpTo
<1>5. CASE k = 2 * j /\ next = After(mid, SetDrinksToBuy(w, 0))
  <2>1. /\ Settles(mid, next) /\ Calm(mid, next, J)
        /\ ToBuyOf(next) = [ToBuyOf(mid) EXCEPT ![w] = 0] /\ TakenOf(next) = TakenOf(mid)
    <3>1. /\ Settles(mid, After(mid, SetDrinksToBuy(w, 0)))
          /\ Calm(mid, After(mid, SetDrinksToBuy(w, 0)), J)
      BY <1>1, ToBuyWritten
    <3>2. /\ ToBuyOf(After(mid, SetDrinksToBuy(w, 0))) = [ToBuyOf(mid) EXCEPT ![w] = 0]
          /\ TakenOf(After(mid, SetDrinksToBuy(w, 0))) = TakenOf(mid)
      BY <1>1, ToBuyWritten
    <3> QED
      BY <1>5, <3>1, <3>2
  <2>2. next.houses = mid.houses
    BY <1>1, <1>5, ToBuyWritten
  <2>3. ASSUME NEW v \in Users
        PROVE  ToBuyOf(next)[v] = IF \E i \in 1 .. n : 2 * i <= k /\ order[i] = v
                                  THEN 0 ELSE ToBuyOf(tree)[v]
    <3>1. ToBuyOf(next)[v] = IF v = w THEN 0 ELSE ToBuyOf(mid)[v]
      BY <2>1 DEF ToBuyOf
    <3>2. CASE v = w
      <4>1. 2 * j <= k /\ order[j] = v
        BY <1>3, <1>5, <3>2
      <4> QED
        BY <3>1, <3>2, <4>1
    <3>3. CASE v # w
      <4>1. \A i \in 1 .. n : order[i] = v => (2 * i <= k <=> 2 * i <= k - 1)
        BY <1>3, <1>5, <3>3
      <4>2. (\E i \in 1 .. n : 2 * i <= k /\ order[i] = v)
              <=> (\E i \in 1 .. n : 2 * i <= k - 1 /\ order[i] = v)
        BY <4>1
      <4> QED
        BY <3>1, <3>3, <4>2 DEF ClearedUpTo
    <3> QED
      BY <3>2, <3>3
  <2>4. ASSUME NEW v \in Users
        PROVE  TakenOf(next)[v] = IF \E i \in 1 .. n : 2 * i - 1 <= k /\ order[i] = v
                                  THEN 0 ELSE TakenOf(tree)[v]
    <3>1. \A i \in 1 .. n : 2 * i - 1 <= k <=> 2 * i - 1 <= k - 1
      BY <1>5
    <3>2. (\E i \in 1 .. n : 2 * i - 1 <= k /\ order[i] = v)
            <=> (\E i \in 1 .. n : 2 * i - 1 <= k - 1 /\ order[i] = v)
      BY <3>1
    <3> QED
      BY <2>1, <3>2 DEF ClearedUpTo
  <2>5. Settles(tree, next) /\ next.houses = tree.houses
    BY <2>1, <2>2 DEF ClearedUpTo, Settles
  <2> QED
    BY <2>1, <2>3, <2>4, <2>5 DEF ClearedUpTo
<1> QED
  BY <1>2, <1>3, <1>4, <1>5

LEMMA TrashWritten ==
  ASSUME NEW tree \in Trees, Agreed(tree), NEW h \in Houses, tree.houses[h] # NoHouse,
         NEW n \in Nat, NEW R, R = tree.houses[h].residents, NEW order \in [1 .. n -> R],
         \A v \in R : \E i \in 1 .. n : order[i] = v,
         NEW q \in Seq(Puts), q = TrashFor(order, n, h)
  PROVE  /\ \A J : CalmQueue(tree, q, J)
         /\ Cleared(tree, Applied(tree, q), h)
<1>17. PICK next : next = Applied(tree, q)
  OBVIOUS
<1>. DEFINE c == Course(tree, q)
            Bad == {k \in 0 .. 2 * n : ~ClearedUpTo(tree, c[k], order, n, k)}
<1>1. Len(q) = 2 * n + 1 /\ q[2 * n + 1] = SetStock(h, 0)
  <2>1. 2 * n + 1 \in Nat /\ 2 * n + 1 > 2 * n
    OBVIOUS
  <2>2. DOMAIN q = 1 .. 2 * n + 1 /\ DOMAIN q = 1 .. Len(q) /\ Len(q) \in Nat
    BY LenProperties DEF TrashFor
  <2>3. Len(q) = 2 * n + 1
    BY <2>1, <2>2
  <2> QED
    BY <2>1, <2>3 DEF TrashFor
<1>2. c[0] = tree /\ \A k \in 1 .. 2 * n + 1 : c[k] = After(c[k - 1], q[k])
  BY <1>1, CourseStep
<1>. HIDE DEF c
<1>3. R \subseteq Users
  BY DEF Trees, HouseNode
<1>4. ClearedUpTo(tree, tree, order, n, 0)
  <2>1. \A i \in 1 .. n : ~(2 * i - 1 <= 0) /\ ~(2 * i <= 0)
    OBVIOUS
  <2> QED
    BY <2>1 DEF ClearedUpTo, Settles
<1>5. ASSUME NEW k \in 1 .. 2 * n, ClearedUpTo(tree, c[k - 1], order, n, k - 1)
      PROVE  ClearedUpTo(tree, c[k], order, n, k) /\ \A J : Calm(c[k - 1], c[k], J)
  <2>1. c[k] = After(c[k - 1], TrashFor(order, n, h)[k])
    BY <1>2
  <2>2. PICK mid, end : mid = c[k - 1] /\ end = c[k]
    OBVIOUS
  <2>3. ClearedUpTo(tree, mid, order, n, k - 1) /\ end = After(mid, TrashFor(order, n, h)[k])
    BY <1>5, <2>1, <2>2
  <2>4. ClearedUpTo(tree, end, order, n, k) /\ \A J : Calm(mid, end, J)
    BY <1>3, <2>3, ClearingGoesOn
  <2> QED
    BY <2>2, <2>4
<1>6. Bad = {}
  <2> SUFFICES ASSUME Bad # {} PROVE FALSE
    OBVIOUS
  <2>1. PICK k \in Bad : \A i \in Bad : k <= i
    <3>1. Bad \in SUBSET Nat
      OBVIOUS
    <3> QED
      BY <3>1, LeastNatural
  <2>2. k \in 1 .. 2 * n
    BY <1>2, <1>4, <2>1
  <2>3. k - 1 \in 0 .. 2 * n /\ k - 1 \notin Bad
    BY <2>1, <2>2
  <2> QED
    BY <1>5, <2>1, <2>2, <2>3
<1>7. PICK last : last = c[2 * n]
  OBVIOUS
<1>8. ClearedUpTo(tree, last, order, n, 2 * n)
  <2>1. 2 * n \in 0 .. 2 * n
    OBVIOUS
  <2> QED
    BY <1>6, <1>7, <2>1
<1>9. next = After(last, SetStock(h, 0))
  <2>1. 2 * n + 1 \in 1 .. 2 * n + 1 /\ (2 * n + 1) - 1 = 2 * n
    OBVIOUS
  <2>2. c[2 * n + 1] = After(c[2 * n], q[2 * n + 1])
    BY <1>2, <2>1
  <2> QED
    BY <1>1, <1>7, <1>17, <2>2 DEF Applied, c
<1>10. last \in Trees /\ Agreed(last) /\ last.houses[h] # NoHouse
  BY <1>8 DEF ClearedUpTo, Settles
<1>11. /\ Settles(last, next) /\ \A J : Calm(last, next, J)
       /\ StockOf(next) = [StockOf(last) EXCEPT ![h] = 0]
       /\ TakenOf(next) = TakenOf(last) /\ ToBuyOf(next) = ToBuyOf(last)
  BY <1>9, <1>10, StockWritten
<1>12. ASSUME NEW k \in 1 .. 2 * n + 1 PROVE \A J : Calm(c[k - 1], c[k], J)
  <2>1. CASE k \in 1 .. 2 * n
    <3>1. k - 1 \in 0 .. 2 * n
      BY <2>1
    <3>2. ClearedUpTo(tree, c[k - 1], order, n, k - 1)
      BY <1>6, <3>1
    <3> QED
      BY <1>5, <2>1, <3>2
  <2>2. CASE k = 2 * n + 1
    <3>1. k - 1 = 2 * n /\ k \in 1 .. 2 * n + 1
      BY <2>2
    <3>2. c[k] = next
      BY <1>1, <1>2, <1>7, <1>9, <2>2, <3>1
    <3> QED
      BY <1>7, <1>11, <3>1, <3>2
  <2> QED
    BY <2>1, <2>2
<1>13. \A J : CalmQueue(tree, q, J)
  BY <1>1, <1>12 DEF CalmQueue, c
<1>14. Settles(tree, next)
  BY <1>8, <1>11 DEF ClearedUpTo, Settles
<1>15. StockOf(last) = StockOf(tree)
  BY <1>8 DEF ClearedUpTo, StockOf
<1>16. ASSUME NEW v \in Users
       PROVE  /\ TakenOf(next)[v] = IF HomeOf(tree)[v] = h THEN 0 ELSE TakenOf(tree)[v]
              /\ ToBuyOf(next)[v] = IF HomeOf(tree)[v] = h THEN 0 ELSE ToBuyOf(tree)[v]
  <2>1. v \in R <=> HomeOf(tree)[v] = h
    BY DEF Agreed, HomeOf
  <2>2. (\E i \in 1 .. n : 2 * i - 1 <= 2 * n /\ order[i] = v) <=> v \in R
    OBVIOUS
  <2>3. (\E i \in 1 .. n : 2 * i <= 2 * n /\ order[i] = v) <=> v \in R
    OBVIOUS
  <2> QED
    BY <1>8, <1>11, <2>1, <2>2, <2>3 DEF ClearedUpTo
<1> QED
  BY <1>11, <1>13, <1>14, <1>15, <1>16, <1>17 DEF Cleared
-----------------------------------------------------------------------------
(* The inductive invariant of a use in turns.                              *)

\* The screens' own state, compared with the tree ahead.
BarTrue(u) ==
  /\ bar[u].canOpen => Home(u) # Null
  /\ Home(u) # Null =>
       /\ bar[u].total = Ahead.houses[Home(u)].drinks
       /\ bar[u].canDrink <=> bar[u].total # 0

Drafted(u) ==
  /\ draft[u].stock = Ahead.houses[Home(u)].drinks
  /\ draft[u].toBuy + draft[u].bought = Ahead.users[u].drinksToBuy
  /\ draft[u].minus \/ draft[u].change < 0 => draft[u].stock # 0

LoadsOf(s) ==
  CASE s = "home"     -> {"appear", "checkWeek", "show"}
    [] s = "drink"    -> {"drinks", "drunk"}
    [] s = "add"      -> {"add", "added"}
    [] s = "overview" -> {"overview", "trashed"}

Tabs(u) ==
  /\ screen[u] \in {"home", "drink", "add", "overview"}
  /\ screen[u] # "home" => top[u] = screen[u]
  /\ top[u] # "drink" => Home(u) # Null
  /\ phase[u] = "loading" =>
       /\ then[u].step \in LoadsOf(screen[u])
       /\ then[u].step = "drunk" /\ Home(u) # Null => Ahead.houses[Home(u)].drinks # 0
       /\ then[u].step = "add" => draft[u] = NewDraft
  /\ Ready(u, "drink") => BarTrue(u)
  /\ top[u] = "add" /\ (screen[u] = "home" \/ phase[u] = "ready") => Drafted(u)

\* Between loads the copy is right about who lives where; its numbers may
\* have been written over since.
Placed(u) ==
  /\ asked[u] = {}
  /\ CopiedHome(u) /\ CopiedResidents(u)
  /\ me[u].house # Null => seen[u][me[u].house] # NoHouse

\* The house that a correction is being saved for.
Corrected(u) ==
  {h \in Houses : /\ phase[u] = "loading" /\ then[u].step = "added" /\ screen[u] = "add"
                  /\ me[u].house = h /\ draft[u].stock > 0 /\ draft[u].change < 0}

Process(u) ==
  /\ Running(u) /\ online[u]
  /\ Home(u) = Null => me[u].house = Null
  /\ phase[u] \in {"ready", "alert"} => Placed(u)
  /\ phase[u] = "loading" =>
       Underway(u) /\ ("users" \notin asked[u] => me[u] = Ahead.users[u])
  /\ CalmQueue(Server, uplink[u], Corrected(u))

InUse(u) == Process(u) /\ Tabs(u)

Idle(u) ==
  /\ phase[u] \in {"off", "crashed"} /\ online[u]
  /\ uplink[u] = << >> /\ asked[u] = {}
  /\ me[u].house = Null /\ top[u] = "drink"

OthersIdle(u) == \A v \in Users \ {u} : Idle(v)

Turns ==
  /\ Agreed(Server)
  /\ \A u \in Users : Idle(u) \/ (InUse(u) /\ OthersIdle(u))

TurnsInv == DrinksInv /\ Turns

-----------------------------------------------------------------------------
(* One phone's turn.                                                       *)

Turn(u) ==
  /\ DrinksInv
  /\ Agreed(Server)
  /\ Idle(u) \/ InUse(u)
  /\ OthersIdle(u)

PhoneStep(u) == HomeStep(u) \/ DrinksStep(u)

LEMMA TurnTypes ==
  ASSUME NEW u \in Users, Turn(u)
  PROVE  DrinksTypeOK /\ HomeTypeOK /\ DeviceTypeOK /\ TabTypeOK
BY DrinksTypes DEF Turn, DrinksInv, HomeTypeOK

LEMMA TurnFacts ==
  ASSUME NEW u \in Users, Turn(u)
  PROVE  /\ Sole(u)
         /\ uplink[u] \in Seq(Puts)
         /\ OnTheirWay = uplink[u]
         /\ Server \in Trees
         /\ Ahead \in Trees /\ Agreed(Ahead)
         /\ Ahead = Applied(Server, uplink[u])
         /\ uplink[u] = << >> => Ahead = Server
         /\ Settles(Server, Ahead)
<1>1. DrinksTypeOK /\ HomeTypeOK /\ DeviceTypeOK
  BY TurnTypes
<1>2. \A v \in Users \ {u} : uplink[v] = << >>
  BY DEF Turn, OthersIdle, Idle
<1>3. OnTheirWay = uplink[u]
  BY <1>2, OneQueue DEF OnTheirWay
<1>4. uplink[u] \in Seq(Puts) /\ Server \in Trees /\ Agreed(Server)
  BY <1>1 DEF DeviceTypeOK, Server, Trees, Turn
<1>5. \A i \in 1 .. Len(uplink[u]) : Found(Server.houses, uplink[u][i])
  BY DEF Turn, DrinksInv, Furnished, Server
<1>6. Settles(Server, Ahead)
  BY <1>3, <1>4, <1>5, QueueSettles DEF Ahead
<1>7. Sole(u)
  BY <1>1, <1>2, <1>6 DEF Sole, Settles
<1> QED
  BY <1>3, <1>4, <1>6, <1>7, SoleFacts DEF Settles

\* The phones that wait their turn are left alone.
LEMMA HomeStepsAreLocal ==
  ASSUME DrinksTypeOK, NEW u \in Users, HomeStep(u), NEW v \in Users \ {u}, Idle(v)
  PROVE  Idle(v)' /\ phase'[v] = phase[v]
<1>. USE DEF DrinksTypeOK, DeviceTypeOK, memory, database
<1>1. top'[v] = top[v]
  BY DEF HomeStep, ForgetTab
<1>. DEFINE Left == /\ uplink'[v] = uplink[v] /\ online'[v] = online[v] /\ phase'[v] = phase[v]
                    /\ asked'[v] = asked[v] /\ me'[v] = me[v]
<1>2. CASE Background(u)
  <2>1. Left
    BY <1>2 DEF Background, ApplyPut, ServeUsers, ServeHouses, Crash, Stop
  <2> QED
    BY <1>1, <2>1 DEF Idle
<1>3. CASE HomeHandlers(u)
  <2>1. /\ UNCHANGED <<users, houses, online, week>>
        /\ HandlerEnds(u) \/ HandlerRestarts(u)
    BY <1>3, HomeHandlersDo DEF HomeTypeOK
  <2>2. Left
    BY <2>1 DEF HandlerEnds, HandlerRestarts, Rest, Crash, Stop, RestartSchedule, Issue, GetAllData
  <2> QED
    BY <1>1, <2>2 DEF Idle
<1>4. CASE HomeTaps(u) \/ Lifecycle(u)
  <2>1. CASE Refresh(u) \/ Launch(u)
    BY <1>1, <2>1 DEF Refresh, Launch, GetAllData, Idle
  <2>2. CASE DinnerSwitch(u)
    <3>1. CASE known[u]
      BY <1>1, <2>2, <3>1 DEF DinnerSwitch, Issue, Idle
    <3>2. CASE ~known[u]
      BY <1>1, <2>2, <3>2 DEF DinnerSwitch, Crash, Stop, Idle
    <3> QED
      BY <3>1, <3>2
  <2>3. CASE LoseConnection(u) \/ RegainConnection(u) \/ Quit(u)
    BY <1>1, <2>3 DEF LoseConnection, RegainConnection, Quit, Stop, Idle
  <2> QED
    BY <1>4, <2>1, <2>2, <2>3 DEF HomeTaps, Lifecycle
<1> QED
  BY <1>2, <1>3, <1>4 DEF HomeStep, HomePhone

LEMMA DrinksStepsAreLocal ==
  ASSUME DrinksTypeOK, NEW u \in Users, DrinksStep(u), NEW v \in Users \ {u}, Idle(v)
  PROVE  Idle(v)' /\ phase'[v] = phase[v]
<1>. USE DEF DrinksTypeOK, DeviceTypeOK, memory, database
<1>. DEFINE Left == /\ uplink'[v] = uplink[v] /\ online'[v] = online[v] /\ phase'[v] = phase[v]
                    /\ asked'[v] = asked[v] /\ me'[v] = me[v] /\ top'[v] = top[v]
<1>1. ShowDrinks(u) => Left
  BY DEF ShowDrinks, GetAllData
<1>2. Trap(u) => Left
  BY DEF Trap, Crash, Stop, ForgetTab
<1>3. CASE DrinksShown(u) \/ drinkOneButtonTapped(u) \/ OverviewOpened(u) \/ Added(u)
  BY <1>3 DEF DrinksShown, drinkOneButtonTapped, OverviewOpened, Added, Rest, GetAllData, Idle
<1>4. CASE PushAdd(u) \/ PushOverview(u) \/ TabToHome(u)
  BY <1>4 DEF PushAdd, PushOverview, TabToHome, GetAllData, Idle
<1>5. CASE DrinkTaken(u)
  <2>1. Left
    BY <1>2, <1>5 DEF DrinkTaken, Issue
  <2> QED
    BY <2>1 DEF Idle
<1>6. CASE AddOpened(u)
  <2>1. Left
    BY <1>2, <1>6 DEF AddOpened, Rest
  <2> QED
    BY <2>1 DEF Idle
<1>7. CASE SaveDrinks(u)
  <2>1. Left
    BY <1>2, <1>7 DEF SaveDrinks, Issue, GetAllData
  <2> QED
    BY <2>1 DEF Idle
<1>8. CASE TrashDrinks(u)
  <2>1. Left
    BY <1>2, <1>8 DEF TrashDrinks, Issue, GetAllData
  <2> QED
    BY <2>1 DEF Idle
<1>9. CASE plusBoughtButtonTapped(u) \/ plusButtonTapped(u) \/ minusOneButtonTapped(u)
  BY <1>9 DEF plusBoughtButtonTapped, plusButtonTapped, minusOneButtonTapped, Edit, deviceVars, Idle
<1>10. CASE Trashed(u) \/ Okay(u) \/ Back(u) \/ TabToDrinks(u)
  <2>1. Left
    BY <1>1, <1>10 DEF Trashed, Okay, Back, TabToDrinks
  <2> QED
    BY <2>1 DEF Idle
<1> QED
  BY <1>3, <1>4, <1>5, <1>6, <1>7, <1>8, <1>9, <1>10 DEF DrinksStep

LEMMA TurnGoesOn ==
  ASSUME NEW u \in Users, Turn(u), PhoneStep(u)
  PROVE  /\ OthersIdle(u)'
         /\ OnTheirWay' = uplink'[u]
         /\ Ahead' = Applied(Server', uplink'[u])
<1>1. OthersIdle(u)'
  <2> SUFFICES ASSUME NEW v \in Users \ {u} PROVE Idle(v)'
    BY DEF OthersIdle
  <2>1. Idle(v) /\ DrinksTypeOK
    BY DEF Turn, OthersIdle, DrinksInv
  <2> QED
    BY <2>1, HomeStepsAreLocal, DrinksStepsAreLocal DEF PhoneStep
<1>2. \A v \in Users \ {u} : uplink'[v] = << >>
  BY <1>1 DEF OthersIdle, Idle
<1>3. OnTheirWay' = uplink'[u]
  BY <1>2, OneQueue DEF OnTheirWay
<1> QED
  BY <1>1, <1>3 DEF Ahead

\* A tap or a handler never comes while a correction is on its way.
NotSaving(u) == uplink[u] = << >> \/ Corrected(u) = {}

LEMMA CalmSoFar ==
  ASSUME NEW u \in Users, Turn(u)
  PROVE  CalmQueue(Server, uplink[u], Corrected(u))
<1>1. CASE Idle(u)
  BY <1>1, CalmNothing DEF Idle
<1>2. CASE InUse(u)
  BY <1>2 DEF InUse, Process
<1> QED
  BY <1>1, <1>2 DEF Turn

LEMMA CalmForAny ==
  ASSUME NEW u \in Users, Turn(u), NotSaving(u), NEW J
  PROVE  CalmQueue(Server, uplink[u], J)
<1>1. CASE uplink[u] = << >>
  BY <1>1, CalmNothing
<1>2. CASE Corrected(u) = {}
  BY <1>2, CalmSoFar, CalmWidens
<1> QED
  BY <1>1, <1>2 DEF NotSaving

\* Steps that write nothing.
LEMMA QueueKept ==
  ASSUME NEW u \in Users, Turn(u), PhoneStep(u), UNCHANGED database, uplink'[u] = uplink[u],
         NotSaving(u)
  PROVE  /\ Ahead' = Ahead /\ Agreed(Server)'
         /\ CalmQueue(Server, uplink[u], Corrected(u))'
<1>1. Server' = Server
  BY DEF database, Server
<1>2. Ahead' = Ahead
  BY <1>1, TurnFacts, TurnGoesOn
<1>3. CalmQueue(Server, uplink[u], Corrected(u)')
  BY CalmForAny
<1> QED
  BY <1>1, <1>2, <1>3 DEF Turn

\* The server applies a write.
LEMMA QueueShortened ==
  ASSUME NEW u \in Users, Turn(u), PhoneStep(u), ApplyPut(u), UNCHANGED draft
  PROVE  /\ Ahead' = Ahead /\ Agreed(Server)'
         /\ CalmQueue(Server, uplink[u], Corrected(u))'
         /\ Calm(Server, Server', Corrected(u))
<1>1. uplink[u] # << >> /\ uplink'[u] = Tail(uplink[u])
  BY TurnTypes DEF ApplyPut, DeviceTypeOK
<1>2. Server' = After(Server, Head(uplink[u]))
  BY DEF ApplyPut, Server, After
<1>3. uplink[u] \in Seq(Puts) /\ Ahead = Applied(Server, uplink[u]) /\ Server \in Trees
  BY TurnFacts
<1>4. Corrected(u)' = Corrected(u)
  BY DEF ApplyPut, Corrected, memory
<1>5. Applied(Server', uplink'[u]) = Applied(Server, uplink[u])
  BY <1>1, <1>2, <1>3, CourseMovesOn
<1>6. CalmQueue(Server', uplink'[u], Corrected(u)) /\ Calm(Server, Server', Corrected(u))
  BY <1>1, <1>2, <1>3, CalmSoFar, CalmMovesOn
<1>7. Agreed(Server')
  <2>1. 1 \in 1 .. Len(uplink[u]) /\ Head(uplink[u]) = uplink[u][1] /\ Head(uplink[u]) \in Puts
    BY <1>1, <1>3
  <2>2. Found(Server.houses, Head(uplink[u]))
    BY <2>1 DEF Turn, DrinksInv, Furnished, Server
  <2>3. Settles(Server, Server')
    BY <1>2, <1>3, <2>1, <2>2, FoundSettles DEF Turn
  <2> QED
    BY <2>3 DEF Settles
<1>8. CalmQueue(Server', uplink'[u], Corrected(u)')
  BY <1>4, <1>6
<1> QED
  BY <1>3, <1>5, <1>6, <1>7, <1>8, TurnGoesOn

\* Writes are issued.
LEMMA QueueLengthened ==
  ASSUME NEW u \in Users, Turn(u), PhoneStep(u), UNCHANGED database, NotSaving(u),
         NEW puts \in Seq(Puts), Issue(u, puts), CalmQueue(Ahead, puts, Corrected(u)')
  PROVE  /\ Ahead' = Applied(Ahead, puts) /\ Agreed(Server)'
         /\ CalmQueue(Server, uplink[u], Corrected(u))'
<1>1. Server' = Server
  BY DEF database, Server
<1>2. uplink[u] \in Seq(Puts) /\ Ahead = Applied(Server, uplink[u])
  BY TurnFacts
<1>3. uplink'[u] = uplink[u] \o puts
  BY TurnTypes DEF Issue, DeviceTypeOK
<1>4. CalmQueue(Server, uplink[u], Corrected(u)')
  BY CalmForAny
<1>5. Applied(Server, uplink[u] \o puts) = Applied(Applied(Server, uplink[u]), puts)
  BY <1>2, CourseOfBoth
<1>6. CalmQueue(Server, uplink[u] \o puts, Corrected(u)')
  BY <1>2, <1>4, CalmGoesOn
<1> QED
  BY <1>1, <1>2, <1>3, <1>5, <1>6, TurnGoesOn DEF Turn

-----------------------------------------------------------------------------
(* Steps that start a load.                                                *)

LEMMA LoadStarts ==
  ASSUME NEW u \in Users, Turn(u), NEW next, GetAllData(u, next), UNCHANGED <<online, me>>,
         next.step \notin {"checkWeek", "show"},
         Home(u)' = Null => me[u].house = Null,
         CalmQueue(Server, uplink[u], Corrected(u))'
  PROVE  /\ phase'[u] = "loading" /\ then'[u] = next
         /\ Process(u)'
<1>1. online[u]
  BY DEF Turn, Idle, InUse, Process
<1>2. /\ phase'[u] = "loading" /\ then'[u] = next
      /\ asked'[u] = {"users", "houses"}
      /\ online'[u] /\ me'[u] = me[u]
  BY <1>1, TurnTypes DEF GetAllData, DeviceTypeOK
<1>3. Underway(u)'
  BY <1>2 DEF Underway
<1> QED
  BY <1>2, <1>3 DEF Process, Running

\* Between loads the phone takes taps, and a handler has all of its load.
LEMMA ReadyOrAlert ==
  ASSUME NEW u \in Users, Turn(u), Running(u)
  PROVE  /\ Process(u) /\ Tabs(u) /\ online[u]
         /\ Home(u) = Null => me[u].house = Null
         /\ phase[u] # "loading" => NotSaving(u)
BY DEF Turn, Idle, InUse, Process, Running, NotSaving, Corrected

LEMMA LoadedIsCurrent ==
  ASSUME NEW u \in Users, Turn(u), phase[u] = "loading", asked[u] = {}
  PROVE  /\ Current(u) /\ online[u] /\ uplink[u] = << >> /\ NotSaving(u)
         /\ Tabs(u) /\ me[u] = Ahead.users[u] /\ me[u].house = Home(u)
<1>1. Process(u) /\ Tabs(u)
  BY ReadyOrAlert DEF Running
<1> QED
  BY <1>1 DEF Process, Underway, Current, NotSaving, CopiedHome

LEMMA ReadyIsPlaced ==
  ASSUME NEW u \in Users, Turn(u), phase[u] \in {"ready", "alert"}
  PROVE  /\ Placed(u) /\ online[u] /\ NotSaving(u)
         /\ Tabs(u) /\ me[u].house = Home(u)
<1>1. Process(u) /\ Tabs(u) /\ NotSaving(u)
  BY ReadyOrAlert DEF Running
<1> QED
  BY <1>1 DEF Process, Placed, CopiedHome
LEMMA ScreensKept ==
  ASSUME NEW u \in Users, Ahead' = Ahead
  PROVE  /\ Home(u)' = Home(u)
         /\ bar'[u] = bar[u] => BarTrue(u)' = BarTrue(u)
         /\ draft'[u] = draft[u] => Drafted(u)' = Drafted(u)
BY DEF Home, BarTrue, Drafted

LEMMA RunSteps ==
  /\ \A x : Run(x).step = x
  /\ {"appear", "checkWeek", "show"} \subseteq LoadsOf("home")
  /\ {"drinks", "drunk"} \subseteq LoadsOf("drink")
  /\ {"add", "added"} \subseteq LoadsOf("add")
  /\ {"overview", "trashed"} \subseteq LoadsOf("overview")
BY DEF Run, LoadsOf

LEMMA HomeLoadsGoOn ==
  ASSUME NEW u \in Users, Turn(u), HomeStep(u), (Launch(u) \/ Refresh(u)) /\ UNCHANGED label
  PROVE  /\ InUse(u)' /\ Ahead' = Ahead /\ Agreed(Server)'
         /\ phase'[u] # "crashed"
<1>1. /\ UNCHANGED database /\ uplink'[u] = uplink[u]
      /\ GetAllData(u, Run("appear")) /\ UNCHANGED <<online, me>> /\ screen'[u] = "home"
  BY TurnTypes DEF Launch, Refresh, Ready, DeviceTypeOK
<1>2. NotSaving(u) /\ (Home(u) = Null => me[u].house = Null)
  <2>1. CASE Running(u)
    BY <2>1, ReadyOrAlert DEF Launch, Refresh, Ready
  <2>2. CASE ~Running(u)
    <3>1. Idle(u)
      BY <2>2 DEF Turn, InUse, Process
    <3> QED
      BY <3>1 DEF NotSaving, Idle
  <2> QED
    BY <2>1, <2>2
<1>3. /\ Ahead' = Ahead /\ Agreed(Server)'
      /\ CalmQueue(Server, uplink[u], Corrected(u))'
  BY <1>1, <1>2, QueueKept DEF PhoneStep
<1>4. Home(u)' = Home(u)
  BY <1>3, ScreensKept
<1>5. phase'[u] = "loading" /\ then'[u].step = "appear" /\ Process(u)'
  BY <1>1, <1>2, <1>3, <1>4, LoadStarts, RunSteps
<1>6. UNCHANGED <<bar, draft, top>>
  BY <1>5 DEF HomeStep, Running
<1>7. /\ top[u] # "drink" => Home(u) # Null
      /\ top[u] = "add" => Drafted(u)
  <2>1. CASE Launch(u)
    <3>1. Idle(u)
      BY <2>1 DEF Launch, Turn, InUse, Process
    <3> QED
      BY <3>1 DEF Idle
  <2>2. CASE Refresh(u)
    BY <2>2, ReadyIsPlaced DEF Refresh, Ready, Tabs
  <2> QED
    BY <2>1, <2>2
<1>8. Drafted(u)' = Drafted(u)
  BY <1>3, <1>6, ScreensKept
<1>9. Tabs(u)'
  BY <1>1, <1>4, <1>5, <1>6, <1>7, <1>8, RunSteps DEF Tabs, Ready
<1> QED
  BY <1>3, <1>5, <1>9 DEF InUse

LEMMA ShowingDrinksGoesOn ==
  ASSUME NEW u \in Users, Turn(u), PhoneStep(u), ShowDrinks(u), Running(u), NotSaving(u)
  PROVE  /\ InUse(u)' /\ Ahead' = Ahead /\ Agreed(Server)'
         /\ phase'[u] # "crashed"
<1>1. /\ UNCHANGED database /\ uplink'[u] = uplink[u]
      /\ GetAllData(u, Run("drinks")) /\ UNCHANGED <<online, me>>
      /\ screen'[u] = "drink" /\ top'[u] = "drink"
  BY TurnTypes DEF ShowDrinks, DeviceTypeOK, TabTypeOK
<1>2. Home(u) = Null => me[u].house = Null
  BY ReadyOrAlert
<1>3. /\ Ahead' = Ahead /\ Agreed(Server)'
      /\ CalmQueue(Server, uplink[u], Corrected(u))'
  BY <1>1, QueueKept
<1>4. Home(u)' = Home(u)
  BY <1>3, ScreensKept
<1>5. phase'[u] = "loading" /\ then'[u].step = "drinks" /\ Process(u)'
  BY <1>1, <1>2, <1>3, <1>4, LoadStarts, RunSteps
<1>6. Tabs(u)'
  BY <1>1, <1>5, RunSteps DEF Tabs, Ready
<1> QED
  BY <1>3, <1>5, <1>6 DEF InUse

LEMMA TapsLoad ==
  ASSUME NEW u \in Users, Turn(u), PhoneStep(u),
         drinkOneButtonTapped(u) \/ PushAdd(u) \/ PushOverview(u) \/ TabToHome(u)
  PROVE  /\ InUse(u)' /\ Ahead' = Ahead /\ Agreed(Server)'
         /\ phase'[u] # "crashed"
<1>1. /\ UNCHANGED database /\ uplink'[u] = uplink[u] /\ UNCHANGED <<online, me>>
      /\ phase[u] = "ready"
  BY DEF drinkOneButtonTapped, PushAdd, PushOverview, TabToHome, Ready
<1>2. NotSaving(u) /\ Tabs(u) /\ me[u].house = Home(u)
  BY <1>1, ReadyIsPlaced
<1>3. /\ Ahead' = Ahead /\ Agreed(Server)'
      /\ CalmQueue(Server, uplink[u], Corrected(u))'
  BY <1>1, <1>2, QueueKept
<1>4. Home(u)' = Home(u)
  BY <1>3, ScreensKept
<1>5. \A x \in {"appear", "drunk", "add", "overview"} :
        GetAllData(u, Run(x)) => phase'[u] = "loading" /\ then'[u].step = x /\ Process(u)'
  BY <1>1, <1>2, <1>3, <1>4, LoadStarts, RunSteps
<1>. USE TurnTypes DEF DeviceTypeOK, TabTypeOK
<1>6. CASE drinkOneButtonTapped(u)
  <2>1. /\ screen[u] = "drink" /\ BarTrue(u) /\ bar[u].canDrink
        /\ UNCHANGED <<screen, bar, draft, top>>
    BY <1>2, <1>6 DEF drinkOneButtonTapped, Ready, Tabs
  <2>2. phase'[u] = "loading" /\ then'[u].step = "drunk" /\ Process(u)'
    BY <1>5, <1>6 DEF drinkOneButtonTapped
  <2>3. Home(u) # Null => Ahead.houses[Home(u)].drinks # 0
    BY <2>1 DEF BarTrue
  <2>4. top'[u] = "drink" /\ screen'[u] = "drink"
    BY <1>2, <2>1 DEF Tabs
  <2>5. Tabs(u)'
    BY <1>3, <1>4, <2>2, <2>3, <2>4, RunSteps DEF Tabs, Ready
  <2> QED
    BY <1>3, <2>2, <2>5 DEF InUse
<1>7. CASE PushAdd(u) \/ PushOverview(u)
  <2>1. Home(u) # Null
    BY <1>2, <1>7 DEF PushAdd, PushOverview, Ready, Tabs, BarTrue
  <2>2. CASE PushAdd(u)
    <3>1. screen'[u] = "add" /\ top'[u] = "add" /\ draft'[u] = NewDraft
      BY <2>2 DEF PushAdd
    <3>2. phase'[u] = "loading" /\ then'[u].step = "add" /\ Process(u)'
      BY <1>5, <2>2 DEF PushAdd
    <3>3. Tabs(u)'
      BY <1>4, <2>1, <3>1, <3>2, RunSteps DEF Tabs, Ready
    <3> QED
      BY <1>3, <3>2, <3>3 DEF InUse
  <2>3. CASE PushOverview(u)
    <3>1. screen'[u] = "overview" /\ top'[u] = "overview"
      BY <2>3 DEF PushOverview
    <3>2. phase'[u] = "loading" /\ then'[u].step = "overview" /\ Process(u)'
      BY <1>5, <2>3 DEF PushOverview
    <3>3. Tabs(u)'
      BY <1>4, <2>1, <3>1, <3>2, RunSteps DEF Tabs, Ready
    <3> QED
      BY <1>3, <3>2, <3>3 DEF InUse
  <2> QED
    BY <1>7, <2>2, <2>3
<1>8. CASE TabToHome(u)
  <2>1. screen'[u] = "home" /\ UNCHANGED <<draft, top>>
    BY <1>8 DEF TabToHome
  <2>2. phase'[u] = "loading" /\ then'[u].step = "appear" /\ Process(u)'
    BY <1>5, <1>8 DEF TabToHome
  <2>3. /\ top[u] # "drink" => Home(u) # Null
        /\ top[u] = "add" => Drafted(u)
    BY <1>1, <1>2 DEF Tabs
  <2>4. Drafted(u)' = Drafted(u)
    BY <1>3, <2>1, ScreensKept
  <2>5. Tabs(u)'
    BY <1>4, <2>1, <2>2, <2>3, <2>4, RunSteps DEF Tabs, Ready
  <2> QED
    BY <1>3, <2>2, <2>5 DEF InUse
<1> QED
  BY <1>6, <1>7, <1>8
-----------------------------------------------------------------------------
(* Steps without a load.                                                   *)

LEMMA SettledKeepsResidents ==
  ASSUME NEW tree \in Trees, Agreed(tree), NEW next, Settles(tree, next)
  PROVE  /\ \A v \in Users : next.users[v].house = tree.users[v].house
         /\ \A h \in Houses : next.houses[h].residents = tree.houses[h].residents
<1>1. \A v \in Users : next.users[v].house = tree.users[v].house
  <2> TAKE v \in Users
  <2>1. HomeOf(next)[v] = HomeOf(tree)[v]
    BY DEF Settles
  <2> QED
    BY <2>1 DEF HomeOf
<1>2. ASSUME NEW h \in Houses PROVE next.houses[h].residents = tree.houses[h].residents
  <2>1. next.houses[h].residents \in SUBSET Users /\ tree.houses[h].residents \in SUBSET Users
    BY DEF Settles, Trees, HouseNode
  <2>2. \A v \in Users : v \in next.houses[h].residents <=> v \in tree.houses[h].residents
    BY <1>1 DEF Settles, Agreed
  <2> QED
    BY <2>1, <2>2
<1> QED
  BY <1>1, <1>2

LEMMA CurrentIsPlaced ==
  ASSUME NEW u \in Users, Turn(u), Current(u)
  PROVE  /\ Placed(u)
         /\ me[u].house # Null =>
              /\ me[u].house \in Houses /\ me[u].house = Home(u)
              /\ Ahead.houses[me[u].house] # NoHouse
              /\ seen[u][me[u].house].drinks = Ahead.houses[me[u].house].drinks
              /\ Ahead.houses[me[u].house].drinks \in Int
<1>. DEFINE h == me[u].house
<1>1. /\ asked[u] = {} /\ CopiedHome(u) /\ CopiedResidents(u)
      /\ h = Home(u) /\ seen[u] = ParsedHouses(Ahead.houses)
  BY DEF Current, CopiedHome, CopiedHouses
<1>2. ASSUME h # Null
      PROVE  /\ h \in Houses /\ Ahead.houses[h] # NoHouse /\ seen[u][h] # NoHouse
             /\ seen[u][h].drinks = Ahead.houses[h].drinks
             /\ Ahead.houses[h].drinks \in Int
  <2>1. h \in Houses /\ Ahead \in Trees /\ Agreed(Ahead)
    BY <1>2, TurnTypes, TurnFacts DEF DeviceTypeOK, UserNode
  <2>2. Ahead.houses[h] # NoHouse /\ Complete(Ahead.houses[h])
    BY <1>1, <2>1, HomesAreOpen DEF Home
  <2>3. seen[u][h] # NoHouse /\ seen[u][h].drinks = Ahead.houses[h].drinks
    BY <1>1, <2>1, <2>2, ParsedKeeps DEF Trees
  <2> QED
    BY <2>1, <2>2, <2>3 DEF Trees, HouseNode, Complete
<1> QED
  BY <1>1, <1>2 DEF Placed

\* The copy stays what it was.
LEMMA CopyStays ==
  ASSUME NEW u \in Users, Turn(u), Settles(Ahead, Ahead'), Placed(u), me[u].house = Home(u),
         online[u], UNCHANGED <<online, asked, me, known, seen, residents>>,
         phase'[u] \in {"ready", "alert"}, CalmQueue(Server, uplink[u], Corrected(u))'
  PROVE  Process(u)' /\ Home(u)' = Home(u)
<1>1. Ahead \in Trees /\ Agreed(Ahead)
  BY TurnFacts
<1>2. /\ Ahead'.users[u].house = Ahead.users[u].house
      /\ \A h \in Houses : Ahead'.houses[h].residents = Ahead.houses[h].residents
  BY <1>1, SettledKeepsResidents
<1>3. Home(u)' = Home(u)
  BY <1>2 DEF Home
<1>4. me[u].house \in Houses \cup {Null}
  BY TurnTypes DEF DeviceTypeOK, UserNode
<1>5. Placed(u)'
  BY <1>2, <1>3, <1>4 DEF Placed, CopiedHome, CopiedResidents
<1> QED
  BY <1>3, <1>5 DEF Process, Running

LEMMA SettledAsItIs ==
  ASSUME NEW u \in Users, Turn(u), Ahead' = Ahead
  PROVE  Same(Ahead, Ahead') /\ Settles(Ahead, Ahead')
BY TurnFacts, SameAsItself DEF Same

LEMMA ScreensOfLoads ==
  ASSUME NEW s \in {"home", "drink", "add", "overview"}, NEW x \in LoadsOf(s)
  PROVE  /\ x \in {"appear", "checkWeek", "show"} <=> s = "home"
         /\ x \in {"drinks", "drunk"} <=> s = "drink"
         /\ x \in {"add", "added"} <=> s = "add"
         /\ x \in {"overview", "trashed"} <=> s = "overview"
BY DEF LoadsOf

LEMMA ButtonFollows ==
  ASSUME NEW n, NEW b, b = [total |-> n, canOpen |-> TRUE, canDrink |-> n # 0]
  PROVE  b.canDrink <=> b.total # 0
<1>1. b.canDrink = (n # 0) /\ b.total = n
  OBVIOUS
<1> QED
  BY <1>1

LEMMA LoadsComplete ==
  ASSUME NEW u \in Users, Turn(u), PhoneStep(u),
         DrinksShown(u) \/ OverviewOpened(u) \/ AddOpened(u) \/ Added(u)
  PROVE  /\ InUse(u)' /\ Ahead' = Ahead /\ Agreed(Server)'
         /\ phase'[u] # "crashed"
<1>. DEFINE h == me[u].house
<1>1. phase[u] = "loading" /\ asked[u] = {}
  BY DEF DrinksShown, OverviewOpened, AddOpened, Added, Loaded
<1>2. /\ Current(u) /\ online[u] /\ uplink[u] = << >> /\ NotSaving(u)
      /\ Tabs(u) /\ me[u] = Ahead.users[u] /\ h = Home(u)
  BY <1>1, LoadedIsCurrent
<1>3. /\ Placed(u)
      /\ h # Null => /\ h \in Houses /\ seen[u][h] # NoHouse
                     /\ seen[u][h].drinks = Ahead.houses[h].drinks
  BY <1>2, CurrentIsPlaced DEF Placed
<1>4. ASSUME UNCHANGED <<users, houses, online, me, uplink, asked, known, seen, residents>>,
             phase'[u] \in {"ready", "alert"}
      PROVE  /\ Ahead' = Ahead /\ Agreed(Server)' /\ Process(u)' /\ Home(u)' = Home(u)
             /\ phase'[u] # "crashed"
  <2>1. /\ Ahead' = Ahead /\ Agreed(Server)'
        /\ CalmQueue(Server, uplink[u], Corrected(u))'
    BY <1>2, <1>4, QueueKept DEF database
  <2>2. Process(u)' /\ Home(u)' = Home(u)
    BY <1>2, <1>3, <1>4, <2>1, SettledAsItIs, CopyStays
  <2> QED
    BY <1>4, <2>1, <2>2
<1>5. then[u].step \in LoadsOf(screen[u]) /\ screen[u] \in {"home", "drink", "add", "overview"}
  BY <1>1, <1>2 DEF Tabs
<1>. USE TurnTypes DEF DeviceTypeOK, TabTypeOK
<1>6. CASE DrinksShown(u)
  <2>1. /\ UNCHANGED <<users, houses, online, me, uplink, asked, known, seen, residents>>
        /\ phase'[u] = "ready" /\ UNCHANGED <<screen, draft, top>>
    BY <1>6 DEF DrinksShown, Rest, database
  <2>2. Ahead' = Ahead /\ Agreed(Server)' /\ Process(u)' /\ Home(u)' = Home(u)
    BY <1>4, <2>1
  <2>3. screen[u] = "drink"
    BY <1>5, <1>6, ScreensOfLoads DEF DrinksShown, Loaded
  <2>4. BarTrue(u)'
    <3>1. CASE h = Null
      <4>1. bar'[u].canOpen = FALSE
        BY <1>6, <3>1 DEF DrinksShown
      <4> QED
        BY <1>2, <2>2, <3>1, <4>1 DEF BarTrue
    <3>2. CASE h # Null
      <4>1. bar'[u] = [total |-> seen[u][h].drinks, canOpen |-> TRUE,
                       canDrink |-> seen[u][h].drinks # 0]
        BY <1>3, <1>6, <3>2 DEF DrinksShown, UpdatedTotal
      <4>2. /\ bar'[u].total = Ahead'.houses[Home(u)'].drinks
            /\ Home(u)' # Null
        BY <1>2, <1>3, <2>2, <3>2, <4>1
      <4>3. bar'[u].canDrink <=> bar'[u].total # 0
        <5>1. PICK b, n : b = bar'[u] /\ n = seen[u][h].drinks
          OBVIOUS
        <5>2. b = [total |-> n, canOpen |-> TRUE, canDrink |-> n # 0]
          BY <4>1, <5>1
        <5>3. b.canDrink <=> b.total # 0
          BY <5>2, ButtonFollows
        <5> QED
          BY <5>1, <5>3
      <4> QED
        BY <4>2, <4>3 DEF BarTrue
    <3> QED
      BY <3>1, <3>2
  <2>5. Tabs(u)'
    BY <1>2, <2>1, <2>2, <2>3, <2>4 DEF Tabs, Ready
  <2> QED
    BY <2>1, <2>2, <2>5 DEF InUse
<1>7. CASE OverviewOpened(u)
  <2>1. /\ UNCHANGED <<users, houses, online, me, uplink, asked, known, seen, residents>>
        /\ phase'[u] = "ready" /\ UNCHANGED <<screen, draft, top>>
    BY <1>7 DEF OverviewOpened, Rest, database
  <2>2. Ahead' = Ahead /\ Agreed(Server)' /\ Process(u)' /\ Home(u)' = Home(u)
    BY <1>4, <2>1
  <2>3. screen[u] = "overview"
    BY <1>5, <1>7, ScreensOfLoads DEF OverviewOpened, Loaded
  <2>4. Tabs(u)'
    BY <1>2, <2>1, <2>2, <2>3 DEF Tabs, Ready
  <2> QED
    BY <2>1, <2>2, <2>4 DEF InUse
<1>8. CASE AddOpened(u)
  <2>1. screen[u] = "add" /\ then[u].step = "add"
    BY <1>5, <1>8, ScreensOfLoads DEF AddOpened, Loaded
  <2>2. h # Null /\ draft[u] = NewDraft
    BY <1>1, <1>2, <2>1 DEF Tabs
  <2>3. /\ UNCHANGED <<users, houses, online, me, uplink, asked, known, seen, residents>>
        /\ phase'[u] = "ready" /\ UNCHANGED <<screen, bar, top>>
        /\ draft'[u] = [draft[u] EXCEPT !.stock = seen[u][h].drinks, !.toBuy = me[u].drinksToBuy,
                                        !.minus = seen[u][h].drinks # 0]
    BY <1>3, <1>8, <2>2 DEF AddOpened, Rest, database
  <2>4. Ahead' = Ahead /\ Agreed(Server)' /\ Process(u)' /\ Home(u)' = Home(u)
    BY <1>4, <2>3
  <2>5. /\ draft'[u].stock = Ahead.houses[h].drinks
        /\ draft'[u].toBuy = Ahead.users[u].drinksToBuy /\ draft'[u].bought = 0
        /\ draft'[u].change = 0
        /\ draft'[u].minus = (draft'[u].stock # 0)
    BY <1>2, <1>3, <2>2, <2>3 DEF NewDraft
  <2>6. Ahead.users[u].drinksToBuy \in Int
    BY TurnFacts DEF Trees, UserNode
  <2>7. Drafted(u)'
    <3>1. draft'[u].stock = Ahead'.houses[Home(u)'].drinks
      BY <1>2, <2>4, <2>5
    <3>2. draft'[u].toBuy + draft'[u].bought = Ahead'.users[u].drinksToBuy
      BY <2>4, <2>5, <2>6
    <3>3. draft'[u].minus \/ draft'[u].change < 0 => draft'[u].stock # 0
      <4>1. ~(draft'[u].change < 0)
        BY <2>5
      <4>2. draft'[u].minus => draft'[u].stock # 0
        BY <2>5, Zenon
      <4> QED
        BY <4>1, <4>2
    <3> QED
      BY <3>1, <3>2, <3>3 DEF Drafted
  <2>8. Tabs(u)'
    BY <1>2, <2>1, <2>2, <2>3, <2>4, <2>7 DEF Tabs, Ready
  <2> QED
    BY <2>3, <2>4, <2>8 DEF InUse
<1>9. CASE Added(u)
  <2>1. /\ UNCHANGED <<users, houses, online, me, uplink, asked, known, seen, residents>>
        /\ phase'[u] = "alert" /\ UNCHANGED <<screen, draft, top>>
    BY <1>9 DEF Added, memory, database
  <2>2. Ahead' = Ahead /\ Agreed(Server)' /\ Process(u)' /\ Home(u)' = Home(u)
    BY <1>4, <2>1
  <2>3. screen[u] = "add"
    BY <1>5, <1>9, ScreensOfLoads DEF Added, Loaded
  <2>4. Tabs(u)'
    BY <1>2, <2>1, <2>2, <2>3 DEF Tabs, Ready
  <2> QED
    BY <2>1, <2>2, <2>4 DEF InUse
<1> QED
  BY <1>6, <1>7, <1>8, <1>9

LEMMA PlainTaps ==
  ASSUME NEW u \in Users, Turn(u), PhoneStep(u),
         \/ plusBoughtButtonTapped(u) \/ plusButtonTapped(u) \/ minusOneButtonTapped(u)
         \/ TabToDrinks(u) /\ ~ShowDrinks(u)
  PROVE  /\ InUse(u)' /\ Ahead' = Ahead /\ Agreed(Server)'
         /\ phase'[u] # "crashed"
<1>1. /\ phase[u] = "ready"
      /\ UNCHANGED <<users, houses, online, me, uplink, asked, known, seen, residents, phase, top>>
  BY DEF plusBoughtButtonTapped, plusButtonTapped, minusOneButtonTapped, Edit, deviceVars,
         TabToDrinks, Ready, memory, database
<1>2. Placed(u) /\ online[u] /\ NotSaving(u) /\ Tabs(u) /\ me[u].house = Home(u)
  BY <1>1, ReadyIsPlaced
<1>3. /\ Ahead' = Ahead /\ Agreed(Server)'
      /\ CalmQueue(Server, uplink[u], Corrected(u))'
  BY <1>1, <1>2, QueueKept DEF database
<1>4. Process(u)' /\ Home(u)' = Home(u)
  BY <1>1, <1>2, <1>3, SettledAsItIs, CopyStays
<1>5. ASSUME NEW n \in Nat, NEW c \in Int, Edit(u, n, c), c < 0 => draft[u].minus
      PROVE  Tabs(u)'
  <2>1. screen[u] = "add" /\ Drafted(u) /\ top[u] = "add" /\ UNCHANGED screen
    BY <1>2, <1>5 DEF Edit, Ready, Tabs, deviceVars
  <2>2. draft[u] \in [stock: Int, bought: 0 .. MaxBought, toBuy: Int,
                      change: -MaxChange .. MaxChange, minus: BOOLEAN]
    BY TurnTypes DEF TabTypeOK
  <2>3. /\ draft'[u].stock = draft[u].stock /\ draft'[u].minus = (draft[u].stock # 0)
        /\ draft'[u].bought = draft[u].bought + n /\ draft'[u].toBuy = draft[u].toBuy - n
        /\ draft'[u].change = draft[u].change + c
    BY <1>5, TurnTypes DEF Edit, TabTypeOK
  <2>4. /\ draft[u].toBuy \in Int /\ draft[u].bought \in Int /\ draft[u].change \in Int
    BY <2>2, DrinksAssumption
  <2>5. draft'[u].toBuy + draft'[u].bought = draft[u].toBuy + draft[u].bought
    BY <2>3, <2>4
  <2>6. draft'[u].change < 0 => draft[u].change < 0 \/ c < 0
    BY <2>3, <2>4
  <2>7. Drafted(u)'
    BY <1>3, <1>4, <1>5, <2>1, <2>3, <2>5, <2>6 DEF Drafted
  <2> QED
    BY <1>1, <1>2, <1>4, <2>1, <2>7 DEF Tabs, Ready
<1>6. CASE plusBoughtButtonTapped(u) \/ plusButtonTapped(u) \/ minusOneButtonTapped(u)
  <2>1. {1, Crate} \subseteq Nat /\ 0 \in Nat /\ -1 \in Int
    BY DrinksAssumption
  <2>2. Tabs(u)'
    <3>1. CASE plusBoughtButtonTapped(u)
      <4>1. PICK n \in {1, Crate} : Edit(u, n, 0)
        BY <3>1 DEF plusBoughtButtonTapped
      <4> QED
        BY <1>5, <2>1, <4>1
    <3>2. CASE plusButtonTapped(u)
      <4>1. PICK n \in {1, Crate} : Edit(u, 0, n)
        BY <3>2 DEF plusButtonTapped
      <4>2. ~(n < 0) /\ n \in Int
        BY <2>1
      <4> QED
        BY <1>5, <2>1, <4>1, <4>2
    <3>3. CASE minusOneButtonTapped(u)
      BY <1>5, <2>1, <3>3 DEF minusOneButtonTapped
    <3> QED
      BY <1>6, <3>1, <3>2, <3>3
  <2> QED
    BY <1>1, <1>3, <1>4, <2>2 DEF InUse
<1>7. CASE TabToDrinks(u) /\ ~ShowDrinks(u)
  <2>1. /\ screen[u] = "home" /\ top[u] # "drink" /\ screen'[u] = top[u]
        /\ UNCHANGED draft
    BY <1>7, TurnTypes DEF TabToDrinks, Ready, DeviceTypeOK
  <2>2. Drafted(u)' = Drafted(u)
    BY <1>3, <2>1, ScreensKept
  <2>3. top[u] \in {"add", "overview"}
    BY <2>1, TurnTypes DEF TabTypeOK
  <2>4. Tabs(u)'
    BY <1>1, <1>2, <1>4, <2>1, <2>2, <2>3 DEF Tabs, Ready
  <2> QED
    BY <1>1, <1>3, <1>4, <2>4 DEF InUse
<1> QED
  BY <1>6, <1>7
-----------------------------------------------------------------------------
(* The server's steps, the end of the app, and Home.                       *)

LEMMA ApplyingGoesOn ==
  ASSUME NEW u \in Users, Turn(u), HomeStep(u), ApplyPut(u), UNCHANGED label
  PROVE  /\ InUse(u)' /\ Ahead' = Ahead /\ Agreed(Server)'
         /\ Calm(Server, Server', Corrected(u)) /\ phase'[u] # "crashed"
<1>1. uplink[u] # << >> /\ UNCHANGED <<online, phase, screen, then, asked, memory, week>>
  BY DEF ApplyPut
<1>2. InUse(u)
  BY <1>1 DEF Turn, Idle
<1>3. UNCHANGED <<bar, draft, top>>
  BY <1>1 DEF HomeStep, Running
<1>4. /\ Ahead' = Ahead /\ Agreed(Server)'
      /\ CalmQueue(Server, uplink[u], Corrected(u))'
      /\ Calm(Server, Server', Corrected(u))
  BY <1>3, QueueShortened DEF PhoneStep
<1>5. /\ Home(u)' = Home(u) /\ BarTrue(u)' = BarTrue(u) /\ Drafted(u)' = Drafted(u)
  BY <1>3, <1>4, ScreensKept
<1>6. getCurrentWeek' = getCurrentWeek
  BY <1>1 DEF getCurrentWeek
<1>7. Placed(u) => Placed(u)'
  BY <1>1, <1>4, <1>5 DEF Placed, CopiedHome, CopiedResidents, memory
<1>8. Underway(u) => Underway(u)'
  BY <1>1, <1>4, <1>5, <1>6 DEF Underway, CopiedHome, CopiedHouses, CopiedResidents, memory
<1>9. Process(u)'
  BY <1>1, <1>2, <1>4, <1>5, <1>7, <1>8 DEF InUse, Process, Running, memory
<1>10. Tabs(u)'
  BY <1>1, <1>2, <1>3, <1>4, <1>5 DEF InUse, Tabs, Ready
<1>11. phase'[u] # "crashed"
  BY <1>9 DEF Process, Running
<1> QED
  BY <1>4, <1>9, <1>10, <1>11 DEF InUse

\* An answer comes to a load or a frozen screen, and behind the phone's writes.
LEMMA AnswersCome ==
  ASSUME NEW u \in Users, u \notin Offline, Turn(u), HomeStep(u), ServeUsers(u) \/ ServeHouses(u)
  PROVE  /\ InUse(u) /\ phase[u] \in {"loading", "frozen"}
         /\ uplink[u] = << >> /\ Ahead = Server /\ NotSaving(u)
<1>1. asked[u] # {} /\ uplink[u] = << >>
  BY ConnectedAnswer DEF ServeUsers, ServeHouses
<1>2. phase[u] \in Phases /\ Ahead = Server
  BY <1>1, TurnFacts, TurnTypes DEF DeviceTypeOK
<1>3. InUse(u)
  BY <1>1 DEF Turn, Idle
<1> QED
  BY <1>1, <1>2, <1>3 DEF InUse, Process, Running, Placed, Phases, NotSaving

LEMMA UsersAnswered ==
  ASSUME NEW u \in Users, u \notin Offline, Turn(u), HomeStep(u), ServeUsers(u), UNCHANGED label
  PROVE  /\ InUse(u)' /\ Ahead' = Ahead /\ Agreed(Server)'
         /\ phase'[u] # "crashed"
<1>1. InUse(u) /\ phase[u] \in {"loading", "frozen"} /\ NotSaving(u)
  BY AnswersCome
<1>2. UNCHANGED database /\ uplink'[u] = uplink[u]
  BY DEF ServeUsers
<1>3. /\ Ahead' = Ahead /\ Agreed(Server)'
      /\ CalmQueue(Server, uplink[u], Corrected(u))'
  BY <1>1, <1>2, QueueKept DEF PhoneStep
<1>4. /\ UNCHANGED <<users, houses, uplink, online, phase, screen, then, seen, week>>
      /\ me'[u] = Ahead.users[u]
      /\ phase[u] = "loading" => Underway(u)'
  BY <1>1, <1>3, TurnFacts, UsersCopied DEF InUse, Process
<1>5. UNCHANGED <<bar, draft, top>>
  BY <1>4 DEF HomeStep, Running
<1>6. /\ Home(u)' = Home(u) /\ BarTrue(u)' = BarTrue(u) /\ Drafted(u)' = Drafted(u)
  BY <1>3, <1>5, ScreensKept
<1>7. Process(u)'
  BY <1>1, <1>3, <1>4, <1>6 DEF InUse, Process, Running, Home
<1>8. Tabs(u)'
  BY <1>1, <1>3, <1>4, <1>5, <1>6 DEF InUse, Tabs, Ready
<1>9. phase'[u] # "crashed"
  BY <1>7 DEF Process, Running
<1> QED
  BY <1>3, <1>7, <1>8, <1>9 DEF InUse

LEMMA HousesAnswered ==
  ASSUME NEW u \in Users, u \notin Offline, Turn(u), HomeStep(u), ServeHouses(u)
  PROVE  /\ InUse(u)' /\ Ahead' = Ahead /\ Agreed(Server)'
         /\ phase'[u] # "crashed"
<1>1. /\ InUse(u) /\ phase[u] \in {"loading", "frozen"} /\ NotSaving(u)
      /\ uplink[u] = << >>
  BY AnswersCome
<1>2. UNCHANGED database /\ uplink'[u] = uplink[u]
  BY <1>1, TurnTypes DEF ServeHouses, Crash, Stop, DeviceTypeOK
<1>3. /\ Ahead' = Ahead /\ Agreed(Server)'
      /\ CalmQueue(Server, uplink[u], Corrected(u))'
  BY <1>1, <1>2, QueueKept DEF PhoneStep
<1>4. /\ UNCHANGED <<users, houses, uplink, online, screen, then, me, known, week>>
      /\ phase'[u] = IF Ahead.houses = NoHouses THEN "frozen" ELSE phase[u]
      /\ phase[u] = "loading" => Underway(u)'
  BY <1>1, <1>3, TurnFacts, HousesCopied DEF InUse, Process
<1>5. "users" \in asked'[u] <=> "users" \in asked[u]
  <2>1. Parsable(houses)
    BY <1>1, TurnFacts DEF Agreed, Server
  <2>2. asked'[u] = asked[u] \ {"houses"}
    BY <2>1, ConnectedAnswer, TurnTypes DEF ServeHouses, DeviceTypeOK
  <2> QED
    BY <2>2
<1>6. UNCHANGED <<bar, draft, top>>
  BY <1>1, <1>4 DEF HomeStep, Running
<1>7. /\ Home(u)' = Home(u) /\ BarTrue(u)' = BarTrue(u) /\ Drafted(u)' = Drafted(u)
  BY <1>3, <1>6, ScreensKept
<1>8. Process(u)'
  BY <1>1, <1>3, <1>4, <1>5, <1>7 DEF InUse, Process, Running
<1>9. Tabs(u)'
  BY <1>1, <1>3, <1>4, <1>6, <1>7 DEF InUse, Tabs, Ready
<1>10. phase'[u] # "crashed"
  BY <1>8 DEF Process, Running
<1> QED
  BY <1>3, <1>8, <1>9, <1>10 DEF InUse

LEMMA QuitIsIdle ==
  ASSUME Killable = {}, NEW u \in Users, Turn(u), HomeStep(u), Quit(u)
  PROVE  /\ Idle(u)' /\ Ahead' = Ahead /\ Agreed(Server)'
         /\ phase'[u] # "crashed"
<1>1. Running(u) /\ online[u] /\ uplink[u] = << >>
  BY DEF Quit, Turn, Idle, InUse, Process, Running
<1>2. /\ phase'[u] = "off" /\ online'[u] /\ uplink'[u] = << >> /\ asked'[u] = {}
      /\ me'[u] = NoUser /\ UNCHANGED database
  BY <1>1, TurnTypes DEF Quit, Stop, DeviceTypeOK
<1>3. top'[u] = "drink"
  BY <1>1, <1>2, TurnTypes DEF HomeStep, ForgetTab, Running, TabTypeOK
<1>4. Ahead' = Ahead /\ Agreed(Server)'
  BY <1>1, <1>2, QueueKept DEF PhoneStep, NotSaving
<1> QED
  BY <1>1, <1>2, <1>3, <1>4 DEF Idle, NoUser

LEMMA ShowingGoesOn ==
  ASSUME NEW u \in Users, Turn(u), HomeStep(u), HomeHandlers(u), Shows(u)
  PROVE  /\ InUse(u)' /\ Ahead' = Ahead /\ Agreed(Server)'
         /\ phase'[u] # "crashed"
<1>1. /\ phase[u] = "loading" /\ asked[u] = {}
      /\ UNCHANGED <<users, houses, online, week>>
  BY TurnTypes, HomeHandlersDo
<1>2. /\ phase'[u] = "ready"
      /\ UNCHANGED <<uplink, asked, known, seen, residents, screen, me>>
  BY TurnTypes DEF Shows, Rest, DeviceTypeOK
<1>3. /\ Current(u) /\ online[u] /\ NotSaving(u) /\ Tabs(u) /\ me[u].house = Home(u)
  BY <1>1, LoadedIsCurrent
<1>4. /\ Ahead' = Ahead /\ Agreed(Server)'
      /\ CalmQueue(Server, uplink[u], Corrected(u))'
  BY <1>1, <1>2, <1>3, QueueKept DEF PhoneStep, database
<1>5. Process(u)' /\ Home(u)' = Home(u)
  BY <1>1, <1>2, <1>3, <1>4, CurrentIsPlaced, SettledAsItIs, CopyStays
<1>6. UNCHANGED <<bar, draft, top>>
  BY <1>1, <1>2 DEF HomeStep, Running
<1>7. screen[u] = "home"
  <2>1. then[u].step \in {"appear", "checkWeek", "show"}
    BY DEF HomeHandlers, HomeAppeared, HomeWeekSet, HomeScheduleRestarted, HomeReloaded, Loaded
  <2>2. then[u].step \in LoadsOf(screen[u]) /\ screen[u] \in {"home", "drink", "add", "overview"}
    BY <1>1, <1>3 DEF Tabs
  <2> QED
    BY <2>1, <2>2, ScreensOfLoads
<1>8. Drafted(u)' = Drafted(u)
  BY <1>4, <1>6, ScreensKept
<1>9. Tabs(u)'
  BY <1>2, <1>3, <1>5, <1>6, <1>7, <1>8 DEF Tabs, Ready
<1> QED
  BY <1>2, <1>4, <1>5, <1>9 DEF InUse

\* Writes that the fridge is not about leave the drafts right.
LEMMA SameKeepsDraft ==
  ASSUME NEW u \in Users, Turn(u), Same(Ahead, Ahead')
  PROVE  /\ Home(u)' = Home(u)
         /\ draft'[u] = draft[u] /\ Home(u) # Null /\ Drafted(u) => Drafted(u)'
<1>1. Ahead \in Trees /\ Agreed(Ahead) /\ Settles(Ahead, Ahead')
  BY TurnFacts DEF Same
<1>2. Home(u)' = Home(u)
  BY <1>1, SettledKeepsResidents DEF Home
<1>3. ASSUME draft'[u] = draft[u], Home(u) # Null, Drafted(u) PROVE Drafted(u)'
  <2>1. Home(u) \in Houses
    BY <1>1, <1>3 DEF Home, Trees, UserNode
  <2>2. StockOf(Ahead')[Home(u)] = StockOf(Ahead)[Home(u)] /\ ToBuyOf(Ahead')[u] = ToBuyOf(Ahead)[u]
    BY DEF Same
  <2>3. /\ Ahead'.houses[Home(u)].drinks = Ahead.houses[Home(u)].drinks
        /\ Ahead'.users[u].drinksToBuy = Ahead.users[u].drinksToBuy
    BY <2>1, <2>2 DEF StockOf, ToBuyOf
  <2> QED
    BY <1>2, <1>3, <2>3 DEF Drafted
<1> QED
  BY <1>2, <1>3

LEMMA RestartingGoesOn ==
  ASSUME IsFiniteSet(Users), NEW u \in Users, Turn(u), HomeStep(u),
         HomeHandlers(u), HandlerRestarts(u)
  PROVE  /\ InUse(u)' /\ Same(Ahead, Ahead') /\ Agreed(Server)'
         /\ phase'[u] # "crashed"
<1>. DEFINE h == me[u].house
            puts == <<SetFirstWeek(h, getCurrentWeek)>>
<1>1. /\ phase[u] = "loading" /\ asked[u] = {}
      /\ UNCHANGED <<users, houses, online, week>>
  BY TurnTypes, HomeHandlersDo
<1>2. /\ Current(u) /\ online[u] /\ NotSaving(u) /\ Tabs(u)
  BY <1>1, LoadedIsCurrent
<1>3. PICK next \in {"checkWeek", "show"} : h \in Houses /\ RestartSchedule(u, h, next)
  BY DEF HandlerRestarts
<1>4. h # Null /\ h = Home(u) /\ Ahead.houses[h] # NoHouse
  BY <1>2, <1>3, TurnFacts, HouseCopied, NamesAssumption
<1>5. getCurrentWeek \in Int /\ getCurrentWeek' = getCurrentWeek
  BY <1>1, DeviceAssumption, TurnTypes DEF getCurrentWeek, DeviceTypeOK
<1>6. Ahead \in Trees /\ Agreed(Ahead)
  BY TurnFacts
<1>7. /\ puts \in Seq(Puts) /\ CalmQueue(Ahead, puts, Corrected(u)')
      /\ Same(Ahead, Applied(Ahead, puts))
      /\ Applied(Ahead, puts).houses[h].firstWeek = getCurrentWeek
  BY <1>3, <1>4, <1>5, <1>6, FirstWeekWritten
<1>8. Issue(u, puts)
  BY <1>3 DEF RestartSchedule
<1>. HIDE DEF puts
<1>9. /\ Ahead' = Applied(Ahead, puts) /\ Agreed(Server)'
      /\ CalmQueue(Server, uplink[u], Corrected(u))'
  BY <1>1, <1>2, <1>7, <1>8, QueueLengthened DEF database, PhoneStep
<1>10. /\ phase'[u] = "loading" /\ then'[u].step = next
       /\ asked'[u] = {"users", "houses"}
       /\ UNCHANGED <<screen, me, residents, label>>
  BY <1>2, <1>3, TurnTypes DEF RestartSchedule, GetAllData, Run, DeviceTypeOK
<1>11. UNCHANGED <<bar, draft, top>>
  BY <1>1, <1>10 DEF HomeStep, Running
<1>12. /\ Home(u)' = Home(u)
       /\ Home(u) # Null /\ Drafted(u) => Drafted(u)'
  BY <1>7, <1>9, <1>11, SameKeepsDraft
<1>13. Underway(u)'
  BY <1>4, <1>5, <1>7, <1>9, <1>10, <1>12 DEF Underway
<1>14. Process(u)'
  BY <1>1, <1>2, <1>4, <1>9, <1>10, <1>12, <1>13 DEF Process, Running
<1>15. screen[u] = "home"
  <2>1. then[u].step \in {"appear", "checkWeek", "show"}
    BY DEF HomeHandlers, HomeAppeared, HomeWeekSet, HomeScheduleRestarted, HomeReloaded, Loaded
  <2>2. then[u].step \in LoadsOf(screen[u]) /\ screen[u] \in {"home", "drink", "add", "overview"}
    BY <1>1, <1>2 DEF Tabs
  <2> QED
    BY <2>1, <2>2, ScreensOfLoads
<1>16. next \in LoadsOf("home")
  BY RunSteps
<1>17. Tabs(u)'
  BY <1>2, <1>4, <1>10, <1>11, <1>12, <1>15, <1>16 DEF Tabs, Ready
<1> QED
  BY <1>7, <1>9, <1>10, <1>14, <1>17 DEF InUse

\* The dinner switch finds the user known, and writes nothing about drinks.
LEMMA SwitchingGoesOn ==
  ASSUME NEW u \in Users, Turn(u), HomeStep(u), DinnerSwitch(u)
  PROVE  /\ InUse(u)' /\ Same(Ahead, Ahead') /\ Agreed(Server)'
         /\ phase'[u] # "crashed" /\ UNCHANGED database
<1>0. phase[u] = "ready" /\ screen[u] = "home" /\ UNCHANGED <<online, week>>
  BY DEF DinnerSwitch, Ready
<1>2. Placed(u) /\ online[u] /\ NotSaving(u) /\ Tabs(u) /\ me[u].house = Home(u)
  BY <1>0, ReadyIsPlaced
<1>1. /\ phase[u] = "ready" /\ screen[u] = "home"
      /\ UNCHANGED <<users, houses, online, week>>
  BY <1>0, <1>2 DEF DinnerSwitch, Placed, CopiedHome, database
<1>3. PICK on \in BOOLEAN : Issue(u, <<SetDinner(u, on)>>)
  BY <1>2 DEF DinnerSwitch, Placed, CopiedHome
<1>4. UNCHANGED <<phase, screen, then, asked, memory, label>>
  BY <1>2 DEF DinnerSwitch, Placed, CopiedHome
<1>. DEFINE puts == <<SetDinner(u, on)>>
<1>5. Ahead \in Trees /\ Agreed(Ahead)
  BY TurnFacts
<1>6. /\ puts \in Seq(Puts) /\ CalmQueue(Ahead, puts, Corrected(u)')
      /\ Same(Ahead, Applied(Ahead, puts))
  BY <1>5, DinnerWritten
<1>7. Issue(u, puts)
  BY <1>3
<1>. HIDE DEF puts
<1>8. /\ Ahead' = Applied(Ahead, puts) /\ Agreed(Server)'
      /\ CalmQueue(Server, uplink[u], Corrected(u))'
  BY <1>1, <1>2, <1>6, <1>7, QueueLengthened DEF database, PhoneStep
<1>9. Settles(Ahead, Ahead')
  BY <1>6, <1>8 DEF Same
<1>10. Process(u)'
  BY <1>1, <1>2, <1>4, <1>8, <1>9, CopyStays DEF memory
<1>11. UNCHANGED <<bar, draft, top>>
  BY <1>1, <1>4 DEF HomeStep, Running
<1>12. /\ Home(u)' = Home(u)
       /\ Home(u) # Null /\ Drafted(u) => Drafted(u)'
  BY <1>6, <1>8, <1>11, SameKeepsDraft
<1>13. Tabs(u)'
  BY <1>1, <1>2, <1>4, <1>11, <1>12 DEF Tabs, Ready
<1> QED
  BY <1>1, <1>4, <1>6, <1>8, <1>10, <1>13 DEF InUse, database
-----------------------------------------------------------------------------
(* The steps the fridge is about.                                          *)

Drunk(tree, next, u) ==
  LET h == tree.users[u].house IN
  /\ Settles(tree, next)
  /\ h \in Houses /\ tree.houses[h].drinks # 0
  /\ StockOf(next) = [StockOf(tree) EXCEPT ![h] = tree.houses[h].drinks - 1]
  /\ TakenOf(next) = [TakenOf(tree) EXCEPT ![u] = tree.users[u].drinks + 1]
  /\ ToBuyOf(next) = [ToBuyOf(tree) EXCEPT ![u] = tree.users[u].drinksToBuy + 1]

Filled(tree, next, u, bought, change) ==
  LET h == tree.users[u].house IN
  /\ Settles(tree, next)
  /\ h \in Houses
  /\ StockOf(next) = [StockOf(tree) EXCEPT ![h] = tree.houses[h].drinks + bought + change]
  /\ TakenOf(next) = TakenOf(tree)
  /\ ToBuyOf(next) = [ToBuyOf(tree) EXCEPT ![u] = tree.users[u].drinksToBuy - bought]

LEMMA TrappingIsIdle ==
  ASSUME NEW u \in Users, Turn(u), PhoneStep(u), Trap(u), uplink[u] = << >>, online[u]
  PROVE  Idle(u)' /\ Ahead' = Ahead /\ Agreed(Server)'
<1>1. /\ phase'[u] = "crashed" /\ online'[u] /\ uplink'[u] = << >> /\ asked'[u] = {}
      /\ me'[u] = NoUser /\ top'[u] = "drink" /\ UNCHANGED database
  BY TurnTypes DEF Trap, Crash, Stop, ForgetTab, DeviceTypeOK, TabTypeOK
<1>2. Ahead' = Ahead /\ Agreed(Server)'
  BY <1>1, QueueKept DEF NotSaving
<1> QED
  BY <1>1, <1>2 DEF Idle, NoUser

LEMMA DrinkingGoesOn ==
  ASSUME NEW u \in Users, Turn(u), PhoneStep(u), DrinkTaken(u)
  PROVE  /\ Agreed(Server)' /\ UNCHANGED database
         /\ \/ Idle(u)' /\ Ahead' = Ahead /\ Loaded(u, "drunk") /\ me[u].house = Null
            \/ InUse(u)' /\ Drunk(Ahead, Ahead', u) /\ phase'[u] # "crashed"
<1>. DEFINE h == me[u].house
            left == UpdatedTotal(u, h) - 1
            m == me[u].drinks + 1
            k == me[u].drinksToBuy + 1
<1>1. phase[u] = "loading" /\ asked[u] = {} /\ then[u].step = "drunk"
  BY DEF DrinkTaken, Loaded
<1>2. /\ Current(u) /\ online[u] /\ uplink[u] = << >> /\ NotSaving(u)
      /\ Tabs(u) /\ me[u] = Ahead.users[u] /\ h = Home(u)
  BY <1>1, LoadedIsCurrent
<1>3. CASE h = Null
  <2>1. Trap(u)
    BY <1>3 DEF DrinkTaken
  <2> QED
    BY <1>1, <1>2, <1>3, <2>1, TrappingIsIdle DEF Trap, Loaded
<1>4. CASE h # Null
  <2>1. /\ Placed(u)
        /\ h \in Houses /\ seen[u][h] # NoHouse /\ Ahead.houses[h] # NoHouse
        /\ seen[u][h].drinks = Ahead.houses[h].drinks /\ Ahead.houses[h].drinks \in Int
    BY <1>2, <1>4, CurrentIsPlaced DEF Placed
  <2>2. Ahead.houses[h].drinks # 0
    BY <1>1, <1>2, <1>4 DEF Tabs
  <2>3. left = Ahead.houses[h].drinks - 1 /\ left \in Int
    BY <2>1 DEF UpdatedTotal
  <2>4. m = Ahead.users[u].drinks + 1 /\ k = Ahead.users[u].drinksToBuy + 1
    BY <1>2
  <2>5. m \in Int /\ k \in Int
    BY TurnTypes DEF DeviceTypeOK, UserNode
  <2>6. Ahead \in Trees /\ Agreed(Ahead)
    BY TurnFacts
  <2>7. /\ Issue(u, DrinkPuts(u, h, left)) /\ phase'[u] = "ready"
        /\ bar'[u].total = left /\ bar'[u].canDrink = (left # 0)
        /\ UNCHANGED <<users, houses, online, screen, asked, me, known, seen, residents, draft, top>>
    BY <1>4, TurnTypes DEF DrinkTaken, memory, database, DeviceTypeOK, TabTypeOK
  <2>8. DrinkPuts(u, h, left) = <<SetStock(h, left), SetDrinks(u, m), SetDrinksToBuy(u, k)>>
    BY DEF DrinkPuts
  <2>. HIDE DEF left, m, k, h
  <2>9. PICK puts : puts = <<SetStock(h, left), SetDrinks(u, m), SetDrinksToBuy(u, k)>>
    OBVIOUS
  <2>10. \A J : left < 0 /\ h \notin J => Ahead.houses[h].drinks < 0
    BY <2>1, <2>2, <2>3
  <2>11. /\ puts \in Seq(Puts) /\ CalmQueue(Ahead, puts, Corrected(u)')
         /\ Settles(Ahead, Applied(Ahead, puts))
         /\ StockOf(Applied(Ahead, puts)) = [StockOf(Ahead) EXCEPT ![h] = left]
         /\ TakenOf(Applied(Ahead, puts)) = [TakenOf(Ahead) EXCEPT ![u] = m]
         /\ ToBuyOf(Applied(Ahead, puts)) = [ToBuyOf(Ahead) EXCEPT ![u] = k]
    <3>1. Writes(Ahead, puts, Corrected(u)', h, left, u, m, k)
      BY <2>1, <2>3, <2>5, <2>6, <2>9, <2>10, DrinkWritten
    <3> QED
      BY <3>1 DEF Writes
  <2>12. Issue(u, puts)
    BY <2>7, <2>8, <2>9
  <2>13. /\ Ahead' = Applied(Ahead, puts) /\ Agreed(Server)'
         /\ CalmQueue(Server, uplink[u], Corrected(u))'
    BY <1>2, <2>7, <2>11, <2>12, QueueLengthened DEF database
  <2>14. Settles(Ahead, Ahead')
    BY <2>11, <2>13
  <2>15. Process(u)' /\ Home(u)' = Home(u)
    BY <1>2, <2>1, <2>7, <2>13, <2>14, CopyStays DEF h
  <2>16. Drunk(Ahead, Ahead', u)
    <3>1. Ahead.users[u].house = h
      BY <1>2 DEF Home, h
    <3> QED
      BY <2>1, <2>2, <2>3, <2>4, <2>11, <2>13, <3>1 DEF Drunk
  <2>17. screen[u] = "drink"
    <3>1. then[u].step \in LoadsOf(screen[u]) /\ screen[u] \in {"home", "drink", "add", "overview"}
      BY <1>1, <1>2 DEF Tabs
    <3> QED
      BY <1>1, <3>1, ScreensOfLoads
  <2>18. BarTrue(u)'
    <3>1. Home(u)' # Null /\ Home(u)' = h
      BY <1>2, <1>4, <2>15 DEF h
    <3>2. Ahead'.houses[h].drinks = left
      <4>1. StockOf(Ahead')[h] = left
        BY <2>1, <2>11, <2>13 DEF StockOf
      <4> QED
        BY <2>1, <4>1 DEF StockOf
    <3>3. bar'[u].canDrink <=> bar'[u].total # 0
      BY <2>7
    <3> QED
      BY <2>7, <3>1, <3>2, <3>3 DEF BarTrue
  <2>19. Tabs(u)'
    BY <1>2, <2>7, <2>15, <2>17, <2>18 DEF Tabs, Ready
  <2> QED
    BY <2>7, <2>13, <2>15, <2>16, <2>19 DEF InUse, database
<1> QED
  BY <1>3, <1>4

LEMMA SavingGoesOn ==
  ASSUME NEW u \in Users, Turn(u), PhoneStep(u), SaveDrinks(u)
  PROVE  /\ InUse(u)' /\ Agreed(Server)' /\ UNCHANGED database
         /\ \E bought \in 0 .. MaxBought, change \in -MaxChange .. MaxChange :
              Filled(Ahead, Ahead', u, bought, change)
         /\ phase'[u] # "crashed"
<1>. DEFINE h == me[u].house
            n == newTotalDrinks(u)
            k == draft[u].toBuy
<1>1. phase[u] = "ready" /\ screen[u] = "add"
  BY DEF SaveDrinks, Ready
<1>2. Placed(u) /\ online[u] /\ NotSaving(u) /\ Tabs(u) /\ h = Home(u)
  BY <1>1, ReadyIsPlaced
<1>3. top[u] = "add" /\ h # Null /\ Drafted(u)
  BY <1>1, <1>2 DEF Tabs
<1>4. h \in Houses /\ seen[u][h] # NoHouse
  BY <1>2, <1>3, TurnTypes DEF Placed, DeviceTypeOK, UserNode
<1>5. Ahead \in Trees /\ Agreed(Ahead) /\ Ahead.houses[h] # NoHouse
  BY <1>2, <1>4, TurnFacts, HomesAreOpen DEF Home
<1>6. /\ draft[u].bought \in 0 .. MaxBought /\ draft[u].change \in -MaxChange .. MaxChange
      /\ draft[u].stock \in Int /\ k \in Int
  BY TurnTypes DEF TabTypeOK
<1>7. draft[u].bought \in Nat /\ draft[u].change \in Int
  BY <1>6, DrinksAssumption
<1>8. /\ n = Ahead.houses[h].drinks + draft[u].bought + draft[u].change
      /\ n \in Int
      /\ draft[u].stock = Ahead.houses[h].drinks
  BY <1>2, <1>3, <1>6, <1>7 DEF Drafted, newTotalDrinks
<1>9. k = Ahead.users[u].drinksToBuy - draft[u].bought
  <2>1. Ahead.users[u].drinksToBuy \in Int
    BY <1>5 DEF Trees, UserNode
  <2> QED
    BY <1>3, <1>6, <1>7, <2>1 DEF Drafted
<1>10. /\ Issue(u, <<SetStock(h, n), SetDrinksToBuy(u, k)>>)
       /\ GetAllData(u, Run("added"))
       /\ UNCHANGED <<users, houses, online, screen, me, residents, draft, top>>
  BY <1>2, <1>3, <1>4 DEF SaveDrinks, database
<1>11. phase'[u] = "loading" /\ then'[u].step = "added"
  BY <1>2, <1>10, TurnTypes, RunSteps DEF GetAllData, DeviceTypeOK
<1>12. n < 0 /\ h \notin Corrected(u)' => Ahead.houses[h].drinks < 0
  <2> SUFFICES ASSUME n < 0, ~(Ahead.houses[h].drinks < 0) PROVE h \in Corrected(u)'
    OBVIOUS
  <2>1. draft[u].change < 0
    BY <1>6, <1>7, <1>8
  <2>2. draft[u].stock > 0
    BY <1>3, <1>6, <1>8, <2>1 DEF Drafted
  <2> QED
    BY <1>1, <1>4, <1>10, <1>11, <2>1, <2>2 DEF Corrected
<1>. HIDE DEF h, n, k
<1>13. PICK puts : puts = <<SetStock(h, n), SetDrinksToBuy(u, k)>>
  OBVIOUS
<1>14. Writes(Ahead, puts, Corrected(u)', h, n, u, Ahead.users[u].drinks, k)
  <2>1. k \in Int
    BY <1>6 DEF k
  <2> QED
    BY <1>4, <1>5, <1>8, <1>12, <1>13, <2>1, SaveWritten
<1>15. /\ Ahead' = Applied(Ahead, puts) /\ Agreed(Server)'
       /\ CalmQueue(Server, uplink[u], Corrected(u))'
  BY <1>2, <1>10, <1>13, <1>14, QueueLengthened DEF database, Writes
<1>16. Filled(Ahead, Ahead', u, draft[u].bought, draft[u].change)
  <2>1. Ahead.users[u].house = h
    BY <1>2 DEF Home, h
  <2> QED
    <3>1. TakenOf(Ahead) = [TakenOf(Ahead) EXCEPT ![u] = Ahead.users[u].drinks]
      BY DEF TakenOf
    <3> QED
      BY <1>4, <1>8, <1>9, <1>14, <1>15, <2>1, <3>1 DEF Filled, Writes
<1>17. Home(u)' = Home(u)
  BY <1>5, <1>14, <1>15, SettledKeepsResidents DEF Home, Writes
<1>18. Process(u)'
  BY <1>2, <1>3, <1>10, <1>15, <1>17, LoadStarts, RunSteps DEF h
<1>19. Tabs(u)'
  BY <1>1, <1>2, <1>3, <1>10, <1>11, <1>17, RunSteps DEF Tabs, Ready, h
<1> QED
  BY <1>6, <1>10, <1>11, <1>15, <1>16, <1>18, <1>19 DEF InUse, database

LEMMA ResettingGoesOn ==
  ASSUME IsFiniteSet(Users), NEW u \in Users, Turn(u), PhoneStep(u), TrashDrinks(u)
  PROVE  /\ InUse(u)' /\ Agreed(Server)' /\ UNCHANGED database
         /\ \E h \in Houses : Cleared(Ahead, Ahead', h)
         /\ phase'[u] # "crashed"
<1>. DEFINE h == me[u].house
<1>1. phase[u] = "ready" /\ screen[u] = "overview"
  BY DEF TrashDrinks, Ready
<1>2. Placed(u) /\ online[u] /\ NotSaving(u) /\ Tabs(u) /\ h = Home(u)
  BY <1>1, ReadyIsPlaced
<1>3. top[u] = "overview" /\ h # Null /\ h \in Houses
  BY <1>1, <1>2, TurnTypes DEF Tabs, DeviceTypeOK, UserNode
<1>4. Ahead \in Trees /\ Agreed(Ahead) /\ Ahead.houses[h] # NoHouse
  BY <1>2, <1>3, TurnFacts, HomesAreOpen DEF Home
<1>5. residents[u] = Ahead.houses[h].residents
  BY <1>2, <1>3 DEF Placed, CopiedResidents
<1>6. houses[h] # NoHouse
  BY <1>3, <1>4, TurnFacts DEF Settles, Server
<1>7. IsFiniteSet(residents[u])
  BY TurnTypes, FS_Subset DEF DeviceTypeOK
<1>8. TrashPuts(u, h) \in Seq(Puts)
  BY <1>3, <1>6, TrashPutsFound DEF Turn
<1>9. /\ Issue(u, TrashPuts(u, h))
      /\ GetAllData(u, Run("trashed"))
      /\ UNCHANGED <<users, houses, online, screen, me, residents, draft, top>>
  BY <1>3 DEF TrashDrinks, database
<1>10. PICK n \in Nat : \E order : TrashPutsIn(u, h, n, order)
  BY <1>7, TrashPutsAre
<1>11. PICK order : TrashPutsIn(u, h, n, order)
  BY <1>10
<1>12. /\ order \in [1 .. n -> residents[u]] /\ TrashPuts(u, h) = TrashFor(order, n, h)
       /\ \A v \in residents[u] : \E i \in 1 .. n : order[i] = v
  BY <1>11 DEF TrashPutsIn
<1>. HIDE DEF h
<1>13. PICK puts, R : puts = TrashPuts(u, h) /\ R = residents[u]
  OBVIOUS
<1>14. puts \in Seq(Puts) /\ puts = TrashFor(order, n, h) /\ R = Ahead.houses[h].residents
  BY <1>5, <1>8, <1>12, <1>13 DEF h
<1>15. order \in [1 .. n -> R] /\ \A v \in R : \E i \in 1 .. n : order[i] = v
  BY <1>12, <1>13
<1>16. /\ \A J : CalmQueue(Ahead, puts, J)
       /\ Cleared(Ahead, Applied(Ahead, puts), h)
  BY <1>3, <1>4, <1>14, <1>15, TrashWritten DEF h
<1>17. Issue(u, puts)
  BY <1>9, <1>13
<1>18. /\ Ahead' = Applied(Ahead, puts) /\ Agreed(Server)'
       /\ CalmQueue(Server, uplink[u], Corrected(u))'
  BY <1>2, <1>9, <1>14, <1>16, <1>17, QueueLengthened DEF database
<1>19. Cleared(Ahead, Ahead', h)
  BY <1>16, <1>18
<1>20. Home(u)' = Home(u)
  BY <1>4, <1>19, SettledKeepsResidents DEF Home, Cleared
<1>21. phase'[u] = "loading" /\ then'[u].step = "trashed" /\ Process(u)'
  BY <1>2, <1>3, <1>9, <1>18, <1>20, LoadStarts, RunSteps DEF h
<1>22. Tabs(u)'
  BY <1>1, <1>2, <1>3, <1>9, <1>20, <1>21, RunSteps DEF Tabs, Ready, h
<1> QED
  BY <1>3, <1>9, <1>18, <1>19, <1>21, <1>22 DEF InUse, database

-----------------------------------------------------------------------------
(* What one step of the phone in use does.                                 *)

Onward(u) ==
  \/ Same(Ahead, Ahead')
  \/ Drunk(Ahead, Ahead', u)
  \/ \E bought \in 0 .. MaxBought, change \in -MaxChange .. MaxChange :
       Filled(Ahead, Ahead', u, bought, change)
  \/ \E h \in Houses : Cleared(Ahead, Ahead', h)

TurnTaken(u) ==
  /\ Idle(u)' \/ InUse(u)'
  /\ Agreed(Server)'
  /\ Onward(u)
  /\ Calm(Server, Server', Corrected(u))
  /\ phase'[u] = "crashed" => Loaded(u, "drunk") /\ me[u].house = Null

LEMMA HomeTurn ==
  ASSUME IsFiniteSet(Users), Killable = {}, Offline = {},
         NEW u \in Users, Turn(u), HomeStep(u)
  PROVE  TurnTaken(u)
<1>1. Ahead' = Ahead => Onward(u)
  BY SettledAsItIs DEF Onward
<1>2. Same(Ahead, Ahead') => Onward(u)
  BY DEF Onward
<1>3. UNCHANGED database => Calm(Server, Server', Corrected(u))
  <2>1. Server \in Trees /\ Agreed(Server)
    BY TurnFacts DEF Turn
  <2>2. UNCHANGED database => Server'.houses = Server.houses
    BY DEF database, Server
  <2> QED
    BY <2>1, <2>2, HousesCalm
<1>4. CASE ApplyPut(u) /\ UNCHANGED label
  BY <1>1, <1>4, ApplyingGoesOn DEF TurnTaken
<1>5. CASE ServeUsers(u) /\ UNCHANGED label
  BY <1>1, <1>3, <1>5, UsersAnswered DEF TurnTaken, ServeUsers
<1>6. CASE ServeHouses(u)
  BY <1>1, <1>3, <1>6, HousesAnswered DEF TurnTaken, ServeHouses
<1>7. CASE HomeHandlers(u)
  <2>1. phase[u] = "loading" /\ UNCHANGED database
    BY <1>7, TurnTypes, HomeHandlersDo DEF database
  <2>2. Sole(u) /\ Underway(u)
    BY <2>1, TurnFacts, ReadyOrAlert DEF Process, Running
  <2>3. CASE Shows(u)
    BY <1>1, <1>3, <1>7, <2>1, <2>3, ShowingGoesOn DEF TurnTaken
  <2>4. CASE HandlerRestarts(u)
    BY <1>2, <1>3, <1>7, <2>1, <2>4, RestartingGoesOn DEF TurnTaken
  <2> QED
    BY <1>7, <2>2, <2>3, <2>4, HandlersShow
<1>8. CASE DinnerSwitch(u)
  BY <1>2, <1>3, <1>8, SwitchingGoesOn DEF TurnTaken
<1>9. CASE (Launch(u) \/ Refresh(u)) /\ UNCHANGED label
  BY <1>1, <1>3, <1>9, HomeLoadsGoOn DEF TurnTaken, Launch, Refresh
<1>10. CASE Quit(u)
  BY <1>1, <1>3, <1>10, QuitIsIdle DEF TurnTaken, Quit
<1>11. ~LoseConnection(u) /\ ~RegainConnection(u)
  BY DEF LoseConnection, RegainConnection, Turn, Idle, InUse, Process
<1>12. CASE Background(u)
  BY <1>4, <1>5, <1>6, <1>12 DEF Background
<1>13. CASE HomeTaps(u)
  BY <1>8, <1>9, <1>13 DEF HomeTaps, Refresh
<1>14. CASE Lifecycle(u)
  BY <1>9, <1>10, <1>11, <1>14 DEF Lifecycle
<1> QED
  BY <1>7, <1>12, <1>13, <1>14 DEF HomeStep, HomePhone

LEMMA DrinksTurn ==
  ASSUME IsFiniteSet(Users), NEW u \in Users, Turn(u), DrinksStep(u)
  PROVE  TurnTaken(u)
<1>1. Ahead' = Ahead => Onward(u)
  BY SettledAsItIs DEF Onward
<1>2. PhoneStep(u)
  BY DEF PhoneStep
<1>3. UNCHANGED database => Calm(Server, Server', Corrected(u))
  <2>1. Server \in Trees /\ Agreed(Server)
    BY TurnFacts DEF Turn
  <2>2. UNCHANGED database => Server'.houses = Server.houses
    BY DEF database, Server
  <2> QED
    BY <2>1, <2>2, HousesCalm
<1>4. CASE DrinksShown(u) \/ OverviewOpened(u) \/ AddOpened(u) \/ Added(u)
  <2>1. UNCHANGED database
    BY <1>4 DEF DrinksShown, OverviewOpened, AddOpened, Added, Trap
  <2> QED
    BY <1>1, <1>2, <1>3, <1>4, <2>1, LoadsComplete DEF TurnTaken
<1>5. CASE drinkOneButtonTapped(u) \/ PushAdd(u) \/ PushOverview(u) \/ TabToHome(u)
  <2>1. UNCHANGED database
    BY <1>5 DEF drinkOneButtonTapped, PushAdd, PushOverview, TabToHome
  <2> QED
    BY <1>1, <1>2, <1>3, <1>5, <2>1, TapsLoad DEF TurnTaken
<1>6. CASE \/ plusBoughtButtonTapped(u) \/ plusButtonTapped(u) \/ minusOneButtonTapped(u)
           \/ TabToDrinks(u) /\ ~ShowDrinks(u)
  <2>1. UNCHANGED database
    BY <1>6 DEF plusBoughtButtonTapped, plusButtonTapped, minusOneButtonTapped, Edit, TabToDrinks,
                deviceVars, database
  <2> QED
    BY <1>1, <1>2, <1>3, <1>6, <2>1, PlainTaps DEF TurnTaken
<1>7. CASE ShowDrinks(u) /\ (Trashed(u) \/ Okay(u) \/ Back(u) \/ TabToDrinks(u))
  <2>1. UNCHANGED database
    BY <1>7 DEF ShowDrinks
  <2>2. CASE Trashed(u)
    <3>1. phase[u] = "loading" /\ asked[u] = {}
      BY <2>2 DEF Trashed, Loaded
    <3>2. NotSaving(u)
      BY <3>1, LoadedIsCurrent
    <3> QED
      BY <1>1, <1>2, <1>3, <1>7, <2>1, <3>1, <3>2, ShowingDrinksGoesOn DEF TurnTaken, Running
  <2>3. CASE Okay(u) \/ Back(u) \/ TabToDrinks(u)
    <3>1. phase[u] \in {"ready", "alert"}
      BY <2>3 DEF Okay, Back, TabToDrinks, Ready
    <3>2. NotSaving(u)
      BY <3>1, ReadyIsPlaced
    <3> QED
      BY <1>1, <1>2, <1>3, <1>7, <2>1, <3>1, <3>2, ShowingDrinksGoesOn DEF TurnTaken, Running
  <2> QED
    BY <1>7, <2>2, <2>3
<1>8. CASE DrinkTaken(u)
  BY <1>1, <1>2, <1>3, <1>8, DrinkingGoesOn DEF TurnTaken, Onward
<1>9. CASE SaveDrinks(u)
  BY <1>2, <1>3, <1>9, SavingGoesOn DEF TurnTaken, Onward
<1>10. CASE TrashDrinks(u)
  BY <1>2, <1>3, <1>10, ResettingGoesOn DEF TurnTaken, Onward
<1>11. (Trashed(u) \/ Okay(u) \/ Back(u)) => ShowDrinks(u)
  BY DEF Trashed, Okay, Back
<1> QED
  BY <1>4, <1>5, <1>6, <1>7, <1>8, <1>9, <1>10, <1>11 DEF DrinksStep

LEMMA StutteringGoesOn ==
  ASSUME TurnsInv, UNCHANGED drinksVars
  PROVE  Turns' /\ Ahead' = Ahead
<1>1. /\ UNCHANGED <<users, houses, uplink, online, phase, screen, then, asked>>
      /\ UNCHANGED <<me, known, seen, residents, label, bar, draft, top, week>>
  BY DEF drinksVars, homeVars, deviceVars
<1>2. Server' = Server /\ OnTheirWay' = OnTheirWay /\ getCurrentWeek' = getCurrentWeek
  BY <1>1 DEF Server, OnTheirWay, getCurrentWeek
<1>3. Ahead' = Ahead
  BY <1>2 DEF Ahead
<1>4. ASSUME NEW u \in Users PROVE Idle(u)' = Idle(u)
  BY <1>1 DEF Idle
<1>5. ASSUME NEW u \in Users, InUse(u) PROVE InUse(u)'
  <2>1. Home(u)' = Home(u) /\ Corrected(u)' = Corrected(u)
    BY <1>1, <1>3 DEF Home, Corrected
  <2>2. Placed(u) => Placed(u)'
    BY <1>1, <1>3, <2>1 DEF Placed, CopiedHome, CopiedResidents
  <2>3. Underway(u) => Underway(u)'
    BY <1>1, <1>2, <1>3, <2>1 DEF Underway, CopiedHome, CopiedHouses, CopiedResidents
  <2>4. CalmQueue(Server, uplink[u], Corrected(u)) => CalmQueue(Server, uplink[u], Corrected(u))'
    BY <1>1, <1>2, <2>1
  <2>5. Process(u)'
    BY <1>1, <1>3, <1>5, <2>1, <2>2, <2>3, <2>4 DEF InUse, Process, Running
  <2>6. (BarTrue(u) => BarTrue(u)') /\ (Drafted(u) => Drafted(u)')
    BY <1>1, <1>3, ScreensKept
  <2>7. Tabs(u)'
    BY <1>1, <1>3, <1>5, <2>1, <2>6 DEF InUse, Tabs, Ready
  <2> QED
    BY <2>5, <2>7 DEF InUse
<1>6. \A u \in Users : OthersIdle(u) => OthersIdle(u)'
  BY <1>4 DEF OthersIdle
<1>7. \A u \in Users : (Idle(u) \/ (InUse(u) /\ OthersIdle(u)))'
  BY <1>4, <1>5, <1>6 DEF TurnsInv, Turns
<1> QED
  BY <1>2, <1>3, <1>7 DEF TurnsInv, Turns

LEMMA InitTurns ==
  ASSUME DrinksInit
  PROVE  Turns
<1>1. PICK homes \in [Users -> Houses \cup {Null}] :
        /\ users = [u \in Users |-> [NoUser EXCEPT !.house = homes[u]]]
        /\ houses = [h \in Houses |-> InitialHouse(homes, h)]
  BY DeviceAssumption DEF DrinksInit, HomeInit, DeviceInit
<1>2. OnTheirWay = << >>
  BY DEF OnTheirWay, DrinksInit, HomeInit, DeviceInit
<1>3. Ahead = Server
  BY <1>2, AppliedNothing DEF Ahead
<1>4. \A u \in Users : users[u].house = homes[u]
  BY <1>1 DEF NoUser
<1>5. ASSUME NEW h \in Houses
      PROVE  /\ \A v \in Users : v \in houses[h].residents <=> homes[v] = h
             /\ houses[h] # NoHouse => Complete(houses[h])
  <2>1. CASE \A u \in Users : homes[u] # h
    BY <1>1, <2>1 DEF InitialHouse, NoHouse
  <2>2. CASE ~(\A u \in Users : homes[u] # h)
    <3>1. /\ houses[h].residents = {u \in Users : homes[u] = h}
          /\ houses[h].tasks = InitialTasks \cup {DefaultTask}
          /\ houses[h].password = CHOOSE p \in Passwords : TRUE
          /\ houses[h].drinks = InitialStock
          /\ houses[h].firstWeek = ((FirstWeek - 1) % WeeksInYear) + 1
      BY <1>1, <2>2 DEF InitialHouse
    <3>2. (CHOOSE p \in Passwords : TRUE) \in Passwords
      BY NamesAssumption
    <3>3. ((FirstWeek - 1) % WeeksInYear) + 1 \in Int /\ InitialStock \in Int
      BY DeviceAssumption
    <3>4. Null \notin Passwords /\ Null \notin Int
      BY NamesAssumption
    <3>5. Complete(houses[h])
      BY <2>2, <3>1, <3>2, <3>3, <3>4 DEF Complete
    <3> QED
      BY <3>1, <3>5
  <2> QED
    BY <2>1, <2>2
<1>6. Agreed(Server)
  BY <1>4, <1>5 DEF Agreed, Server, Parsable
<1>7. \A u \in Users : Idle(u)
  BY DEF Idle, DrinksInit, HomeInit, DeviceInit, NoUser
<1> QED
  BY <1>6, <1>7 DEF Turns

\* A phone that may step is alone, so it is its turn.
LEMMA AloneIsTurn ==
  ASSUME TurnsInv, NEW u \in Users, Alone(u)
  PROVE  Turn(u)
<1>1. ASSUME NEW v \in Users \ {u} PROVE Idle(v)
  <2>1. ~InUse(v)
    BY DEF Alone, InUse, Process
  <2> QED
    BY <2>1 DEF TurnsInv, Turns
<1> QED
  BY <1>1 DEF TurnsInv, Turns, Turn, OthersIdle

\* What every step of a use in turns does, with the phone that takes it.
TurnTakenBy(u) == Turn(u) /\ TurnTaken(u) /\ \A v \in Users \ {u} : phase'[v] = phase[v]

LEMMA SerialStep ==
  ASSUME IsFiniteSet(Users), Killable = {}, Offline = {}, TurnsInv,
         [SerialDrinksNext]_drinksVars
  PROVE  /\ TurnsInv'
         /\ \/ UNCHANGED drinksVars /\ Ahead' = Ahead
            \/ \E u \in Users : TurnTakenBy(u)
<1>1. CASE UNCHANGED drinksVars
  <2>1. DrinksInv'
    BY <1>1 DEF drinksVars, homeVars, deviceVars, database, memory, TurnsInv, DrinksInv, DrinksTypeOK,
                DeviceTypeOK, LabelTypeOK, Furnished, Stocked, Found
  <2> QED
    BY <1>1, <2>1, StutteringGoesOn DEF TurnsInv
<1>2. CASE \E u \in Users : Alone(u) /\ PhoneStep(u)
  <2>1. PICK u \in Users : Alone(u) /\ PhoneStep(u)
    BY <1>2
  <2>2. Turn(u)
    BY <2>1, AloneIsTurn
  <2>3. DrinksInv'
    BY <2>1, HomeStepKeeps, DrinksStepKeeps, DrinksAssumption DEF TurnsInv, PhoneStep
  <2>4. TurnTaken(u)
    BY <2>1, <2>2, HomeTurn, DrinksTurn DEF PhoneStep
  <2>5. ASSUME NEW v \in Users \ {u} PROVE Idle(v)' /\ phase'[v] = phase[v]
    BY <2>1, <2>2, HomeStepsAreLocal, DrinksStepsAreLocal
       DEF Turn, OthersIdle, DrinksInv, PhoneStep
  <2>6. OthersIdle(u)'
    BY <2>5 DEF OthersIdle
  <2>7. ASSUME NEW v \in Users PROVE (Idle(v) \/ (InUse(v) /\ OthersIdle(v)))'
    BY <2>4, <2>5, <2>6 DEF TurnTaken
  <2> QED
    BY <2>2, <2>3, <2>4, <2>5, <2>7 DEF TurnsInv, Turns, TurnTaken, TurnTakenBy
<1> QED
  BY <1>1, <1>2 DEF SerialDrinksNext, PhoneStep

-----------------------------------------------------------------------------
(* What a use in turns can rely on.                                        *)

(* Used in turns, with no write ever lost, the phone in use shows and      *)
(* edits numbers that are those of the tree ahead, everybody else's app is *)
(* closed, and no write on its way takes a stock below zero except of the  *)
(* house a correction is being saved for.                                  *)
THEOREM DrinksTurnsInvariant ==
  ASSUME IsFiniteSet(Users), Killable = {}, Offline = {}
  PROVE  SerialDrinksSpec => []TurnsInv
<1>1. DrinksInit => TurnsInv
  BY DrinksInitFurnished, InitTurns DEF TurnsInv
<1>2. TurnsInv /\ [SerialDrinksNext]_drinksVars => TurnsInv'
  BY SerialStep
<1> QED
  BY <1>1, <1>2, PTL DEF SerialDrinksSpec

(* Used in turns, once the phone's writes are applied totalDrinks is the   *)
(* stock of the user's house and DrinkOne works exactly while it is not    *)
(* zero, after a drink, a save, a reset or a visit to another tab.         *)
THEOREM BarShowsStockInTurns ==
  ASSUME IsFiniteSet(Users), Killable = {}, Offline = {}
  PROVE  SerialDrinksSpec => []BarShowsStock
<1>1. TurnsInv => BarShowsStock
  <2> SUFFICES ASSUME TurnsInv, NEW u \in Users,
                      Ready(u, "drink"), uplink[u] = << >>, me[u].house # Null
               PROVE  /\ bar[u].total = houses[me[u].house].drinks
                      /\ bar[u].canDrink <=> bar[u].total # 0
    BY DEF BarShowsStock
  <2>1. InUse(u) /\ OthersIdle(u) /\ phase[u] = "ready"
    BY DEF TurnsInv, Turns, Idle, Ready
  <2>2. Turn(u)
    BY <2>1 DEF TurnsInv, Turns, Turn
  <2>3. Ahead = Server
    BY <2>2, TurnFacts
  <2>4. me[u].house = Home(u)
    BY <2>1, <2>2, ReadyIsPlaced
  <2>5. BarTrue(u)
    BY <2>1 DEF InUse, Tabs
  <2> QED
    BY <2>3, <2>4, <2>5 DEF BarTrue, Server
<1> QED
  BY <1>1, DrinksTurnsInvariant, PTL

(* Used in turns, the one trap of the tab is DrinkOne for a user without a *)
(* house: AddDrinks, Overview and Home always find what they unwrap.       *)
THEOREM DrinksTrapsInTurns ==
  ASSUME IsFiniteSet(Users), Killable = {}, Offline = {}
  PROVE  SerialDrinksSpec => DrinksTraps
<1>. DEFINE Trapped == \A u \in Users : phase[u] # "crashed" /\ phase'[u] = "crashed" =>
                         Loaded(u, "drunk") /\ me[u].house = Null
<1>1. TurnsInv /\ [SerialDrinksNext]_drinksVars => [Trapped]_drinksVars
  <2> SUFFICES ASSUME TurnsInv, [SerialDrinksNext]_drinksVars, ~UNCHANGED drinksVars
               PROVE  Trapped
    OBVIOUS
  <2>1. PICK u \in Users : TurnTakenBy(u)
    BY SerialStep
  <2> QED
    BY <2>1 DEF TurnTakenBy, TurnTaken
<1> QED
  BY <1>1, DrinksTurnsInvariant, PTL DEF SerialDrinksSpec, DrinksTraps

(* Used in turns, whatever takes a stock below zero is a correction saved  *)
(* in AddDrinks of a stock that was above zero when the screen opened; the *)
(* write is still found on its way, and its screen still open, when the    *)
(* server applies it.                                                      *)
THEOREM OverdrawnByCorrectionInTurns ==
  ASSUME IsFiniteSet(Users), Killable = {}, Offline = {}
  PROVE  SerialDrinksSpec => OverdrawnByCorrection
<1>. DEFINE Explained == \A h \in Houses :
              houses[h] # NoHouse /\ houses[h].drinks >= 0 /\ houses'[h].drinks < 0 =>
                \E u \in Users : /\ screen[u] = "add" /\ me[u].house = h
                                /\ draft[u].stock > 0 /\ draft[u].change < 0
<1>1. TurnsInv /\ [SerialDrinksNext]_drinksVars => [Explained]_drinksVars
  <2> SUFFICES ASSUME TurnsInv, [SerialDrinksNext]_drinksVars, ~UNCHANGED drinksVars,
                      NEW h \in Houses,
                      houses[h] # NoHouse, houses[h].drinks >= 0, houses'[h].drinks < 0
               PROVE  \E u \in Users : /\ screen[u] = "add" /\ me[u].house = h
                                      /\ draft[u].stock > 0 /\ draft[u].change < 0
    OBVIOUS
  <2>1. PICK u \in Users : TurnTakenBy(u)
    BY SerialStep
  <2>2. Calm(Server, Server', Corrected(u))
    BY <2>1 DEF TurnTakenBy, TurnTaken
  <2>3. h \in Corrected(u)
    BY <2>2 DEF Calm, Server
  <2> QED
    BY <2>3 DEF Corrected
<1> QED
  BY <1>1, DrinksTurnsInvariant, PTL DEF SerialDrinksSpec, OverdrawnByCorrection

-----------------------------------------------------------------------------
(* The fridge.                                                             *)

LEMMA InitFridge ==
  ASSUME DrinksInit
  PROVE  Abstract!Init
<1>1. PICK homes \in [Users -> Houses \cup {Null}] :
        users = [u \in Users |-> [NoUser EXCEPT !.house = homes[u]]]
  BY DeviceAssumption DEF DrinksInit, HomeInit, DeviceInit
<1>2. OnTheirWay = << >>
  BY DEF OnTheirWay, DrinksInit, HomeInit, DeviceInit
<1>3. Ahead.users = users
  BY <1>2, AppliedNothing DEF Ahead, Server
<1>4. \A u \in Users : /\ Ahead.users[u].house \in Houses \cup {Null}
                       /\ Ahead.users[u].drinks = 0 /\ Ahead.users[u].drinksToBuy = 0
  BY <1>1, <1>3 DEF NoUser
<1> QED
  BY <1>4 DEF Abstract!Init

\* Every step of a turn is a step of the fridge, or nothing happens to it.
LEMMA OnwardIsFridge ==
  ASSUME NEW u \in Users, Onward(u)
  PROVE  Abstract!Next \/ UNCHANGED Abstract!fridge
<1>1. CASE Same(Ahead, Ahead')
  BY <1>1 DEF Same, Settles, HomeOf, StockOf, TakenOf, ToBuyOf, Abstract!fridge
<1>2. CASE Drunk(Ahead, Ahead', u)
  <2>1. Abstract!Drink(u)
    BY <1>2, NamesAssumption DEF Drunk, Settles, HomeOf, StockOf, TakenOf, ToBuyOf, Abstract!Drink
  <2> QED
    BY <2>1 DEF Abstract!Next
<1>3. CASE \E bought \in 0 .. MaxBought, change \in -MaxChange .. MaxChange :
             Filled(Ahead, Ahead', u, bought, change)
  <2>1. PICK bought \in 0 .. MaxBought, change \in -MaxChange .. MaxChange :
          Filled(Ahead, Ahead', u, bought, change)
    BY <1>3
  <2>2. Abstract!Fill(u, bought, change)
    BY <2>1, NamesAssumption DEF Filled, Settles, HomeOf, StockOf, TakenOf, ToBuyOf, Abstract!Fill
  <2> QED
    BY <2>2 DEF Abstract!Next
<1>4. CASE \E h \in Houses : Cleared(Ahead, Ahead', h)
  <2>1. PICK h \in Houses : Cleared(Ahead, Ahead', h)
    BY <1>4
  <2>2. Abstract!Reset(h)
    BY <2>1 DEF Cleared, Settles, HomeOf, StockOf, TakenOf, ToBuyOf, Abstract!Reset
  <2> QED
    BY <2>2 DEF Abstract!Next
<1> QED
  BY <1>1, <1>2, <1>3, <1>4 DEF Onward

(* Used in turns, the Drinks tab implements Fridge: a drink, a save and a  *)
(* reset are one step each on stock and accounts, though they are two,     *)
(* three or 2n + 1 writes that the server applies one at a time; each      *)
(* starts from what the one before left; nothing else changes either.      *)
THEOREM FridgeKeptInTurns ==
  ASSUME IsFiniteSet(Users), Killable = {}, Offline = {}
  PROVE  SerialDrinksSpec => FridgeKept
<1>1. DrinksInit => Abstract!Init
  BY InitFridge
<1>2. TurnsInv /\ [SerialDrinksNext]_drinksVars => [Abstract!Next]_(Abstract!fridge)
  <2> SUFFICES ASSUME TurnsInv, [SerialDrinksNext]_drinksVars
               PROVE  Abstract!Next \/ UNCHANGED Abstract!fridge
    OBVIOUS
  <2>1. CASE Ahead' = Ahead
    BY <2>1 DEF Abstract!fridge
  <2>2. CASE \E u \in Users : TurnTakenBy(u)
    BY <2>2, OnwardIsFridge DEF TurnTakenBy, TurnTaken
  <2> QED
    BY <2>1, <2>2, SerialStep
<1> QED
  BY <1>1, <1>2, DrinksTurnsInvariant, PTL DEF SerialDrinksSpec, FridgeKept, Abstract!Spec
=============================================================================
