--------------------------- MODULE DatabaseProofs ---------------------------
(***************************************************************************)
(* What the server makes of a sequence of writes: the recursion of Course  *)
(* is well defined, and Applied takes a write off the front of a queue or  *)
(* adds one at its end.                                                    *)
(*                                                                         *)
(* The library's induction takes an operator; each induction here is its   *)
(* contrapositive, on the least natural number of a set.                   *)
(***************************************************************************)
EXTENDS Database, WellFoundedInduction, SequenceTheorems, TLAPS

LEMMA LeastNatural ==
  ASSUME NEW S \in SUBSET Nat, S # {}
  PROVE  \E m \in S : \A n \in S : m <= n
<1>1. PICK m \in S : \A n \in S : <<n, m>> \notin OpToRel(<, Nat)
  BY NatLessThanWellFounded, WFMin
<1>2. \A n \in S : ~(n < m)
  BY <1>1 DEF OpToRel
<1> QED
  BY <1>2

\* at is the course of q from tree.
IsCourse(at, tree, q) ==
  at = [n \in 0 .. Len(q) |-> IF n = 0 THEN tree ELSE After(at[n - 1], q[n])]

LEMMA CourseExists ==
  ASSUME NEW tree, NEW q \in Seq(Puts)
  PROVE  \E at : IsCourse(at, tree, q)
<1>. DEFINE Upto(m) == \E at : at = [n \in 0 .. m |-> IF n = 0 THEN tree ELSE After(at[n - 1], q[n])]
            Bad == {m \in Nat : ~Upto(m)}
<1>1. Upto(0)
  <2>. DEFINE at == [n \in 0 .. 0 |-> tree]
  <2>1. at = [n \in 0 .. 0 |-> IF n = 0 THEN tree ELSE After(at[n - 1], q[n])]
    OBVIOUS
  <2> QED
    BY <2>1
<1>2. ASSUME NEW m \in Nat, Upto(m) PROVE Upto(m + 1)
  <2>1. PICK f : f = [n \in 0 .. m |-> IF n = 0 THEN tree ELSE After(f[n - 1], q[n])]
    BY <1>2
  <2>. DEFINE g == [n \in 0 .. m + 1 |-> IF n \in 0 .. m THEN f[n] ELSE After(f[m], q[n])]
  <2>2. \A n \in 0 .. m + 1 : g[n] = IF n = 0 THEN tree ELSE After(g[n - 1], q[n])
    <3> SUFFICES ASSUME NEW n \in 0 .. m + 1
                 PROVE  g[n] = IF n = 0 THEN tree ELSE After(g[n - 1], q[n])
      OBVIOUS
    <3>1. CASE n = 0
      BY <2>1, <3>1
    <3>2. CASE n \in 1 .. m
      <4>1. f[n] = After(f[n - 1], q[n])
        BY <2>1, <3>2
      <4>2. g[n] = f[n] /\ g[n - 1] = f[n - 1]
        BY <3>2
      <4> QED
        BY <3>2, <4>1, <4>2
    <3>3. CASE n = m + 1
      BY <3>3
    <3> QED
      BY <3>1, <3>2, <3>3
  <2>3. g = [n \in 0 .. m + 1 |-> IF n = 0 THEN tree ELSE After(g[n - 1], q[n])]
    BY <2>2
  <2> QED
    BY <2>3
<1>. HIDE DEF Upto
<1>3. Bad = {}
  <2> SUFFICES ASSUME Bad # {} PROVE FALSE
    OBVIOUS
  <2>1. PICK m \in Bad : \A n \in Bad : m <= n
    BY LeastNatural
  <2>2. m # 0 /\ m - 1 \in Nat /\ m - 1 \notin Bad
    BY <1>1, <2>1
  <2> QED
    BY <1>2, <2>1, <2>2
<1>4. Upto(Len(q))
  BY <1>3, LenProperties
<1> QED
  BY <1>4 DEF Upto, IsCourse

LEMMA CourseStep ==
  ASSUME NEW tree, NEW q \in Seq(Puts)
  PROVE  /\ Course(tree, q)[0] = tree
         /\ \A n \in 1 .. Len(q) : Course(tree, q)[n] = After(Course(tree, q)[n - 1], q[n])
<1>1. Course(tree, q) = CHOOSE at : IsCourse(at, tree, q)
  BY DEF Course, IsCourse
<1>2. IsCourse(Course(tree, q), tree, q)
  BY <1>1, CourseExists
<1>. DEFINE c == Course(tree, q)
<1>3. c = [n \in 0 .. Len(q) |-> IF n = 0 THEN tree ELSE After(c[n - 1], q[n])]
  BY <1>2 DEF IsCourse
<1>. HIDE DEF c
<1>4. Len(q) \in Nat
  BY LenProperties
<1>5. /\ c[0] = tree
      /\ \A n \in 1 .. Len(q) : c[n] = After(c[n - 1], q[n])
  BY <1>3, <1>4
<1> QED
  BY <1>5 DEF c

\* Whatever is computed the same way is the same.
LEMMA CourseUnique ==
  ASSUME NEW tree, NEW q \in Seq(Puts), NEW m \in 0 .. Len(q), NEW f,
         f[0] = tree, \A n \in 1 .. m : f[n] = After(f[n - 1], q[n])
  PROVE  \A n \in 0 .. m : f[n] = Course(tree, q)[n]
<1>. DEFINE c == Course(tree, q)
            Bad == {n \in 0 .. m : f[n] # c[n]}
<1>1. c[0] = tree /\ \A n \in 1 .. Len(q) : c[n] = After(c[n - 1], q[n])
  BY CourseStep
<1>. HIDE DEF c
<1>2. Len(q) \in Nat
  BY LenProperties
<1>3. Bad = {}
  <2> SUFFICES ASSUME Bad # {} PROVE FALSE
    OBVIOUS
  <2>1. PICK n \in Bad : \A k \in Bad : n <= k
    <3>1. Bad \in SUBSET Nat
      BY <1>2
    <3> QED
      BY <3>1, LeastNatural
  <2>2. n \in 1 .. m
    BY <1>1, <1>2, <2>1
  <2>3. n - 1 \in 0 .. m /\ n - 1 \notin Bad
    BY <1>2, <2>1, <2>2
  <2>4. f[n] = c[n]
    <3>1. f[n - 1] = c[n - 1]
      BY <2>3
    <3>2. f[n] = After(f[n - 1], q[n]) /\ c[n] = After(c[n - 1], q[n])
      BY <1>1, <1>2, <2>2
    <3> QED
      BY <3>1, <3>2
  <2> QED
    BY <2>1, <2>4
<1> QED
  BY <1>3 DEF c

-----------------------------------------------------------------------------
(* Queues that grow at the end and shrink at the front.                    *)

LEMMA AppliedNothing ==
  ASSUME NEW tree
  PROVE  Applied(tree, << >>) = tree
<1>1. << >> \in Seq(Puts) /\ Len(<< >>) = 0
  OBVIOUS
<1>2. Course(tree, << >>)[0] = tree
  BY <1>1, CourseStep
<1> QED
  BY <1>1, <1>2 DEF Applied

LEMMA CourseGoesOn ==
  ASSUME NEW tree, NEW q \in Seq(Puts), NEW p \in Puts
  PROVE  /\ \A n \in 0 .. Len(q) : Course(tree, Append(q, p))[n] = Course(tree, q)[n]
         /\ Course(tree, Append(q, p))[Len(q) + 1] = After(Applied(tree, q), p)
<1>. DEFINE r == Append(q, p)
            c == Course(tree, r)
<1>1. /\ r \in Seq(Puts) /\ Len(q) \in Nat /\ Len(r) = Len(q) + 1
      /\ r[Len(q) + 1] = p
      /\ \A n \in 1 .. Len(q) : r[n] = q[n]
  OBVIOUS
<1>. HIDE DEF r
<1>2. c[0] = tree /\ \A n \in 1 .. Len(r) : c[n] = After(c[n - 1], r[n])
  BY <1>1, CourseStep
<1>. HIDE DEF c
<1>3. \A n \in 1 .. Len(q) : c[n] = After(c[n - 1], q[n])
  BY <1>1, <1>2
<1>4. \A n \in 0 .. Len(q) : c[n] = Course(tree, q)[n]
  BY <1>1, <1>2, <1>3, CourseUnique
<1>5. c[Len(q) + 1] = After(c[Len(q)], p)
  <2>1. Len(q) + 1 \in 1 .. Len(r) /\ (Len(q) + 1) - 1 = Len(q)
    BY <1>1
  <2> QED
    BY <1>1, <1>2, <2>1
<1>6. Len(q) \in 0 .. Len(q)
  BY <1>1
<1> QED
  BY <1>1, <1>4, <1>5, <1>6 DEF Applied, c, r

LEMMA AppliedGoesOn ==
  ASSUME NEW tree, NEW q \in Seq(Puts), NEW p \in Puts
  PROVE  Applied(tree, Append(q, p)) = After(Applied(tree, q), p)
<1>1. Course(tree, Append(q, p))[Len(q) + 1] = After(Applied(tree, q), p)
  BY CourseGoesOn
<1>2. Len(Append(q, p)) = Len(q) + 1
  OBVIOUS
<1> QED
  BY <1>1, <1>2 DEF Applied

LEMMA CourseMovesOn ==
  ASSUME NEW tree, NEW q \in Seq(Puts), q # << >>
  PROVE  /\ \A n \in 0 .. Len(Tail(q)) :
              Course(After(tree, Head(q)), Tail(q))[n] = Course(tree, q)[n + 1]
         /\ Applied(After(tree, Head(q)), Tail(q)) = Applied(tree, q)
<1>. DEFINE t == Tail(q)
            first == After(tree, Head(q))
            c == Course(tree, q)
            f == [n \in 0 .. Len(t) |-> c[n + 1]]
<1>1. /\ t \in Seq(Puts) /\ Len(t) \in Nat /\ Len(q) = Len(t) + 1
      /\ \A n \in 1 .. Len(t) : t[n] = q[n + 1]
      /\ q[1] = Head(q)
  BY HeadTailProperties, LenProperties
<1>2. c[0] = tree /\ \A n \in 1 .. Len(q) : c[n] = After(c[n - 1], q[n])
  BY CourseStep
<1>. HIDE DEF c, t
<1>3. f[0] = first
  <2>1. 1 \in 1 .. Len(q) /\ 1 - 1 = 0
    BY <1>1
  <2>2. c[1] = After(c[0], q[1])
    BY <1>2, <2>1
  <2> QED
    BY <1>1, <1>2, <2>2
<1>4. \A n \in 1 .. Len(t) : f[n] = After(f[n - 1], t[n])
  <2> SUFFICES ASSUME NEW n \in 1 .. Len(t) PROVE f[n] = After(f[n - 1], t[n])
    OBVIOUS
  <2>1. n + 1 \in 1 .. Len(q) /\ (n + 1) - 1 = n /\ n \in 0 .. Len(t) /\ n - 1 \in 0 .. Len(t)
    BY <1>1
  <2>2. c[n + 1] = After(c[n], q[n + 1])
    BY <1>2, <2>1
  <2> QED
    BY <1>1, <2>1, <2>2
<1>. HIDE DEF f, first
<1>5. \A n \in 0 .. Len(t) : f[n] = Course(first, t)[n]
  <2>1. Len(t) \in 0 .. Len(t)
    BY <1>1
  <2> QED
    BY <1>1, <1>3, <1>4, <2>1, CourseUnique
<1>6. \A n \in 0 .. Len(t) : Course(first, t)[n] = c[n + 1]
  BY <1>5 DEF f
<1> QED
  BY <1>1, <1>6 DEF Applied, c, t, first

\* One queue behind another.
LEMMA CourseOfBoth ==
  ASSUME NEW tree, NEW q \in Seq(Puts), NEW r \in Seq(Puts)
  PROVE  /\ \A n \in 0 .. Len(q) : Course(tree, q \o r)[n] = Course(tree, q)[n]
         /\ \A k \in 0 .. Len(r) :
              Course(tree, q \o r)[Len(q) + k] = Course(Applied(tree, q), r)[k]
         /\ Applied(tree, q \o r) = Applied(Applied(tree, q), r)
<1>. DEFINE s == q \o r
            c == Course(tree, s)
            ahead == Applied(tree, q)
            f == [k \in 0 .. Len(r) |-> c[Len(q) + k]]
<1>1. /\ s \in Seq(Puts) /\ Len(q) \in Nat /\ Len(r) \in Nat /\ Len(s) = Len(q) + Len(r)
      /\ \A n \in 1 .. Len(q) : s[n] = q[n]
      /\ \A k \in 1 .. Len(r) : s[Len(q) + k] = r[k]
  BY ConcatProperties, LenProperties
<1>. HIDE DEF s
<1>2. c[0] = tree /\ \A n \in 1 .. Len(s) : c[n] = After(c[n - 1], s[n])
  BY <1>1, CourseStep
<1>. HIDE DEF c
<1>3. \A n \in 1 .. Len(q) : c[n] = After(c[n - 1], q[n])
  BY <1>1, <1>2
<1>4. \A n \in 0 .. Len(q) : c[n] = Course(tree, q)[n]
  BY <1>1, <1>2, <1>3, CourseUnique
<1>5. c[Len(q)] = ahead
  BY <1>1, <1>4 DEF Applied
<1>. HIDE DEF ahead
<1>6. f[0] = ahead
  BY <1>1, <1>5
<1>7. \A k \in 1 .. Len(r) : f[k] = After(f[k - 1], r[k])
  <2> SUFFICES ASSUME NEW k \in 1 .. Len(r) PROVE f[k] = After(f[k - 1], r[k])
    OBVIOUS
  <2>1. /\ Len(q) + k \in 1 .. Len(s) /\ (Len(q) + k) - 1 = Len(q) + (k - 1)
        /\ k \in 0 .. Len(r) /\ k - 1 \in 0 .. Len(r)
    BY <1>1
  <2>2. c[Len(q) + k] = After(c[Len(q) + (k - 1)], r[k])
    BY <1>1, <1>2, <2>1
  <2> QED
    BY <2>1, <2>2
<1>. HIDE DEF f
<1>8. \A k \in 0 .. Len(r) : f[k] = Course(ahead, r)[k]
  <2>1. Len(r) \in 0 .. Len(r)
    BY <1>1
  <2> QED
    BY <1>6, <1>7, <2>1, CourseUnique
<1>9. \A k \in 0 .. Len(r) : c[Len(q) + k] = Course(ahead, r)[k]
  BY <1>8 DEF f
<1>10. c[Len(s)] = Course(ahead, r)[Len(r)]
  BY <1>1, <1>9
<1> QED
  BY <1>4, <1>9, <1>10 DEF Applied, c, s, ahead
=============================================================================
