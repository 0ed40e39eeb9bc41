------------------------ MODULE SchedulerPick_proofs ------------------------
(***************************************************************************)
(* The scheduler finds the best ready credential (BestIsPicked) and gives     *)
(* everybody their turns (TurnsTaken), for any number of credentials,         *)
(* providers, virtual parents, priorities and provider lists.                 *)
(*                                                                           *)
(* A cursor counts places of a ring.  Ahead is the way from one place to      *)
(* another, Arc the members between the start of the round and the cursor,    *)
(* which are those Rotation says have had their turn; RingTurn shows that     *)
(* going on to the first who may be served (First) is a turn of Rotation.     *)
(* Between turns, a ring whose order has not changed stands where it stood    *)
(* (PlaceKept), and as members determine their order (OrderSame), only a      *)
(* change of members loses the place, and Rotation begins a new round then.   *)
(*                                                                           *)
(* The invariant IInv says that the cursors of a view lie within it or one    *)
(* past its end, and every round began in its ring.  Steps is the form that   *)
(* all steps share, as one lemma for each action shows (UpsertMoves to        *)
(* MixedMoves); that it keeps the invariant (StepInv) and gives turns         *)
(* (RingTurns) is proved once.                                                *)
(***************************************************************************)
EXTENDS SchedulerPick, FiniteSetTheorems, SequenceTheorems, NaturalsInduction, TLAPS

------------------------------------------------------------------------------
(* Numbers and finite sets.                                                 *)

\* A set of naturals has a least element.
LEMMA Least ==
  ASSUME NEW S, S \subseteq Nat, S # {}
  PROVE  Min(S) \in S /\ \A y \in S : Min(S) <= y
<1>1. PICK x \in S : \A y \in S : ~(<<y, x>> \in OpToRel(<, Nat))
  BY NatLessThanWellFounded, WFMin
<1>2. \A u, t \in Nat : ~(<<u, t>> \in OpToRel(<, Nat)) => t <= u
  BY DEF OpToRel
<1>3. \A y \in S : x <= y
  BY <1>1, <1>2
<1> QED
  BY <1>3 DEF Min

\* A finite set of integers has a greatest element: the one with the fewest above it.
LEMMA Greatest ==
  ASSUME NEW S, S \subseteq Int, IsFiniteSet(S), S # {}
  PROVE  Max(S) \in S /\ \A y \in S : y <= Max(S)
<1> DEFINE Above(x) == {y \in S : y > x}
           Numbers == {Cardinality(Above(x)) : x \in S}
<1>1. \A x \in S : IsFiniteSet(Above(x)) /\ Cardinality(Above(x)) \in Nat
  BY FS_Subset, FS_CardinalityType
<1>2. Numbers \subseteq Nat /\ Numbers # {}
  BY <1>1
<1>3. PICK x \in S : \A y \in S : Cardinality(Above(x)) <= Cardinality(Above(y))
  <2>1. PICK m \in Numbers : \A k \in Numbers : m <= k
    <3> HIDE DEF Numbers
    <3> QED
      BY <1>2, Least
  <2> HIDE DEF Above
  <2> QED
    BY <2>1
<1>4. ASSUME NEW y \in S, y > x PROVE FALSE
  <2>1. Above(y) \subseteq Above(x) /\ y \in Above(x) /\ y \notin Above(y)
    <3>1. x \in Int /\ y \in Int /\ \A z \in S : z \in Int
      OBVIOUS
    <3>2. (\A z \in S : z > y => z > x) /\ ~(y > y)
      BY <1>4, <3>1
    <3> QED
      BY <1>4, <3>2
  <2>2. Cardinality(Above(y)) <= Cardinality(Above(x)) /\ Cardinality(Above(y)) # Cardinality(Above(x))
    BY <1>1, <2>1, FS_Subset
  <2> QED
    BY <1>1, <1>3, <2>2
<1>5. \A y \in S : x >= y
  BY <1>4
<1> QED
  BY <1>5 DEF Max

\* A part of a finite set is no larger, and if it is no smaller it is all.
LEMMA SubsetCount ==
  ASSUME NEW S, IsFiniteSet(S), NEW T, T \subseteq S
  PROVE  /\ IsFiniteSet(T) /\ Cardinality(T) \in Nat /\ Cardinality(S) \in Nat
         /\ Cardinality(T) <= Cardinality(S)
         /\ Cardinality(T) = Cardinality(S) => T = S
  BY FS_Subset, FS_CardinalityType

\* q lists the members of S, each once.
Enumerates(q, S) ==
  /\ q \in Seq(S) /\ Range(q) = S
  /\ \A i, j \in 1..Len(q) : q[i] = q[j] => i = j

\* A sequence that hits everybody, and nobody twice, lists the set.
LEMMA Enumerated ==
  ASSUME NEW n \in Nat, NEW S, NEW q, q \in [1..n -> S],
         \A s \in S : \E i \in 1..n : q[i] = s,
         \A i, j \in 1..n : q[i] = q[j] => i = j
  PROVE  Enumerates(q, S) /\ Len(q) = n
<1>1. q \in Seq(S)
  OBVIOUS
<1>2. Len(q) = n
  BY <1>1
<1> QED
  BY <1>1, <1>2 DEF Enumerates, Range

\* The k-th of a set in its order is the one with k-1 before it.
LEMMA Ordered ==
  ASSUME NEW S, S \subseteq Nat, IsFiniteSet(S)
  PROVE  Enumerates(InOrder(S), S) /\ Len(InOrder(S)) = Cardinality(S)
<1> DEFINE Below(a) == {b \in S : b < a}
           n == Cardinality(S)
           rank == [a \in S |-> Cardinality(Below(a)) + 1]
<1>0. n \in Nat /\ IsFiniteSet(1..n) /\ Cardinality(1..n) = n
  BY FS_CardinalityType, FS_Interval
<1>1. ASSUME NEW a \in S PROVE Cardinality(Below(a)) \in 0..(n-1)
  <2>1. Below(a) \subseteq S /\ a \notin Below(a)
    BY a \in Nat
  <2> QED
    BY <1>0, <2>1, SubsetCount
<1>2. ASSUME NEW a \in S, NEW b \in S, a < b PROVE Cardinality(Below(a)) < Cardinality(Below(b))
  <2>1. Below(a) \subseteq Below(b) /\ a \in Below(b) /\ a \notin Below(a)
    <3>1. a \in Nat /\ b \in Nat /\ \A z \in S : z \in Nat
      OBVIOUS
    <3>2. (\A z \in S : z < a => z < b) /\ ~(a < a)
      BY <1>2, <3>1
    <3> QED
      BY <1>2, <3>2
  <2>2. IsFiniteSet(Below(b))
    BY SubsetCount
  <2> QED
    BY <2>1, <2>2, SubsetCount
<1>3. \A a, b \in S : Cardinality(Below(a)) = Cardinality(Below(b)) => a = b
  <2>1. \A a, b \in S : a = b \/ a < b \/ b < a
    OBVIOUS
  <2>2. \A a, b \in S : a < b => Cardinality(Below(a)) # Cardinality(Below(b))
    BY <1>1, <1>2
  <2> HIDE DEF Below
  <2> QED
    BY <2>1, <2>2
<1>4. rank \in Injection(S, 1..n)
  <2>1. rank \in [S -> 1..n]
    BY <1>0, <1>1
  <2>2. \A a, b \in S : rank[a] = rank[b] => a = b
    <3> HIDE DEF Below
    <3>1. \A a \in S : Cardinality(Below(a)) \in Int
      BY <1>0, <1>1
    <3> QED
      BY <1>3, <3>1
  <2> QED
    BY <2>1, <2>2 DEF Injection, IsInjective
<1>5. rank \in Surjection(S, 1..n)
  BY <1>0, <1>4, FS_Injection
<1>6. \A i \in 1..n : \E a \in S : Cardinality(Below(a)) = i - 1
  <2>1. ASSUME NEW i \in 1..n PROVE \E a \in S : Cardinality(Below(a)) = i - 1
    <3>1. PICK a \in S : rank[a] = i
      BY <1>5 DEF Surjection
    <3> HIDE DEF Below
    <3> QED
      BY <1>0, <1>1, <3>1
  <2> QED
    BY <2>1
<1> DEFINE q == InOrder(S)
<1>7. \A i \in 1..n : q[i] \in S /\ Cardinality(Below(q[i])) = i - 1
  BY <1>6 DEF InOrder
<1>8. q \in [1..n -> S]
  BY <1>7 DEF InOrder
<1>9. \A i, j \in 1..n : q[i] = q[j] => i = j
  <2> HIDE DEF Below, q
  <2> QED
    BY <1>0, <1>7
<1>10. \A s \in S : \E i \in 1..n : q[i] = s
  <2>1. ASSUME NEW s \in S PROVE q[Cardinality(Below(s)) + 1] = s /\ Cardinality(Below(s)) + 1 \in 1..n
    <3>1. Cardinality(Below(s)) + 1 \in 1..n
      BY <1>0, <1>1
    <3>2. PICK i \in 1..n : i = Cardinality(Below(s)) + 1
      BY <3>1
    <3>3. Cardinality(Below(q[i])) = Cardinality(Below(s))
      BY <1>0, <1>1, <1>7, <3>2
    <3> QED
      BY <1>3, <1>7, <3>2, <3>3
  <2> HIDE DEF Below, q
  <2> QED
    BY <2>1
<1> HIDE DEF q
<1>11. Enumerates(q, S) /\ Len(q) = n
  BY <1>0, <1>8, <1>9, <1>10, Enumerated
<1> QED
  BY <1>11 DEF q

\* The remainder is what is left over by a multiple.
LEMMA ModUnique ==
  ASSUME NEW n \in Nat \ {0}, NEW q \in Int, NEW r \in 0..n-1
  PROVE  (n * q + r) % n = r
  OBVIOUS

\* It is a place of the ring.
LEMMA ModRange ==
  ASSUME NEW n \in Nat \ {0}, NEW c \in Int
  PROVE  c % n \in 0..n-1
  OBVIOUS

\* Every integer is a multiple and a remainder.
LEMMA ModDiv ==
  ASSUME NEW n \in Nat \ {0}, NEW c \in Int
  PROVE  \E q \in Int, r \in 0..n-1 : c = n * q + r /\ c % n = r
<1>1. c \div n \in Int /\ c = n * (c \div n) + (c % n) /\ c % n \in 0..n-1
  OBVIOUS
<1> QED
  BY <1>1

\* Places are their own remainders.
LEMMA ModSmall ==
  ASSUME NEW n \in Nat \ {0}, NEW c \in 0..n-1
  PROVE  c % n = c
  OBVIOUS

\* One turn of the ring too many is taken off.
LEMMA ModStep ==
  ASSUME NEW n \in Nat \ {0}, NEW c \in n..2*n-1
  PROVE  c % n = c - n
  OBVIOUS

\* One too few is added.
LEMMA ModNeg ==
  ASSUME NEW n \in Nat \ {0}, NEW c \in (-n)..(-1)
  PROVE  c % n = c + n
  OBVIOUS

\* It does not matter when the remainder is taken.
LEMMA ModAdd ==
  ASSUME NEW n \in Nat \ {0}, NEW c \in Nat, NEW j \in Nat
  PROVE  (c + j) % n = ((c % n) + j) % n
<1>0. c \in Int
  OBVIOUS
<1>1. PICK q \in Int, r \in 0..n-1 : c = n * q + r /\ c % n = r
  BY ModDiv, <1>0, Zenon
<1>2. r + j \in Int
  OBVIOUS
<1>3. PICK u \in Int, m \in 0..n-1 : r + j = n * u + m /\ (r + j) % n = m
  BY ModDiv, <1>2
<1>4. c + j = n * (q + u) + m
  BY <1>1, <1>3
<1>5. (n * (q + u) + m) % n = m
  BY ModUnique, q + u \in Int
<1> QED
  BY <1>1, <1>3, <1>4, <1>5

------------------------------------------------------------------------------
(* Rings of places 0..n-1.                                                  *)

\* How far place x is ahead of place s in a ring of n places.
Ahead(n, s, x) == IF x >= s THEN x - s ELSE x - s + n

\* Distances from another start: shifted, and for what lies before it a turn longer.
LEMMA AheadFacts ==
  ASSUME NEW n \in Nat \ {0}, NEW s \in 0..n-1, NEW t \in 0..n-1, NEW x \in 0..n-1
  PROVE  /\ Ahead(n, s, x) \in 0..n-1
         /\ Ahead(n, s, t) <= Ahead(n, s, x) => Ahead(n, t, x) = Ahead(n, s, x) - Ahead(n, s, t)
         /\ Ahead(n, s, x) < Ahead(n, s, t) => Ahead(n, t, x) = Ahead(n, s, x) - Ahead(n, s, t) + n
         /\ Ahead(n, s, x) = Ahead(n, s, t) => x = t
  BY DEF Ahead

\* Of i and p, and of any x and y, the order in which their turns come after s and after p.
LEMMA AheadTurn ==
  ASSUME NEW n \in Nat \ {0}, NEW s \in 0..n-1, NEW p \in 0..n-1, NEW i \in 0..n-1
  PROVE  \A x \in 0..n-1 :
           /\ Ahead(n, s, x) < Ahead(n, s, p) \/ Ahead(n, s, p) <= Ahead(n, s, x)
           /\ ~(Ahead(n, s, x) < Ahead(n, s, p) /\ Ahead(n, s, p) <= Ahead(n, s, x))
           /\ Ahead(n, s, x) <= Ahead(n, s, i) <=> Ahead(n, s, x) < Ahead(n, s, i) \/ x = i
           /\ Ahead(n, s, i) < Ahead(n, s, p) /\ Ahead(n, s, x) < Ahead(n, s, i)
                 => Ahead(n, p, x) < Ahead(n, p, i)
           /\ Ahead(n, s, p) <= Ahead(n, s, x) /\ ~(Ahead(n, p, x) < Ahead(n, p, i))
                 => Ahead(n, s, p) <= Ahead(n, s, i)
           /\ Ahead(n, s, p) <= Ahead(n, s, i) =>
                (Ahead(n, s, x) <= Ahead(n, s, i) <=>
                   Ahead(n, s, x) < Ahead(n, s, p) \/ Ahead(n, p, x) < Ahead(n, p, i) \/ x = i)
  BY DEF Ahead

\* Ahead is what the code computes with %.
LEMMA AheadMod ==
  ASSUME NEW n \in Nat \ {0}, NEW s \in 0..n-1, NEW t \in 0..n-1
  PROVE  /\ (t - s) % n = Ahead(n, s, t)
         /\ (s + Ahead(n, s, t)) % n = t
<1>1. CASE t >= s
  <2>1. (t - s) % n = t - s /\ t % n = t
    BY <1>1, ModSmall, t - s \in 0..n-1
  <2>2. s + (t - s) = t
    OBVIOUS
  <2> QED
    BY <1>1, <2>1, <2>2 DEF Ahead
<1>2. CASE t < s
  <2>1. (t - s) % n = t - s + n
    BY <1>2, ModNeg, t - s \in (-n)..(-1)
  <2>2. (t + n) % n = t
    BY ModStep, t + n \in n..2*n-1
  <2>3. s + (t - s + n) = t + n /\ ~(t >= s)
    BY <1>2
  <2> QED
    BY <2>1, <2>2, <2>3 DEF Ahead
<1> QED
  BY <1>1, <1>2

\* The place k steps on is k ahead.
LEMMA AheadBy ==
  ASSUME NEW n \in Nat \ {0}, NEW s \in 0..n-1, NEW k \in 0..n-1
  PROVE  (s + k) % n \in 0..n-1 /\ Ahead(n, s, (s + k) % n) = k
<1>1. CASE s + k < n
  <2>1. (s + k) % n = s + k
    BY <1>1, ModSmall, s + k \in 0..n-1
  <2> QED
    BY <1>1, <2>1 DEF Ahead
<1>2. CASE s + k >= n
  <2>1. (s + k) % n = s + k - n
    BY <1>2, ModStep, s + k \in n..2*n-1
  <2> QED
    BY <1>2, <2>1 DEF Ahead
<1> QED
  BY <1>1, <1>2

\* The place after i.
LEMMA AheadNext ==
  ASSUME NEW n \in Nat \ {0}, NEW s \in 0..n-1, NEW i \in 0..n-1
  PROVE  /\ (i + 1) % n \in 0..n-1
         /\ Ahead(n, s, (i + 1) % n) = IF Ahead(n, s, i) = n - 1 THEN 0 ELSE Ahead(n, s, i) + 1
<1>1. CASE i + 1 < n
  <2>1. (i + 1) % n = i + 1
    BY <1>1, ModSmall, i + 1 \in 0..n-1
  <2> QED
    BY <1>1, <2>1 DEF Ahead
<1>2. CASE i = n - 1
  <2>1. (i + 1) % n = 0
    BY <1>2, ModStep, i + 1 \in n..2*n-1
  <2> QED
    BY <1>2, <2>1 DEF Ahead
<1> QED
  BY <1>1, <1>2

\* The members of q from place s on, those at t and after it not included.
Arc(q, s, t) == {q[x + 1] : x \in {z \in 0..Len(q)-1 : Ahead(Len(q), s, z) < Ahead(Len(q), s, t)}}

\* Had, of one ring: q, its round begun at place s, its cursor at place t.
HadOf(q, s, t) ==
  LET n == Len(q)
      gone == IF n = 0 THEN 0 ELSE (t - s) % n
  IN {q[((s + i) % n) + 1] : i \in 0..(gone - 1)}

\* In terms of places, those between the start of the round and the cursor.
LEMMA HadOfArc ==
  ASSUME NEW q, NEW n \in Nat \ {0}, n = Len(q), NEW s \in 0..n-1, NEW t \in 0..n-1
  PROVE  HadOf(q, s, t) = Arc(q, s, t)
<1> DEFINE L == {q[((s + i) % n) + 1] : i \in 0..(((t - s) % n) - 1)}
<1> HIDE DEF L
<1>0. Ahead(n, s, t) \in 0..n-1 /\ (t - s) % n = Ahead(n, s, t)
  <2>1. Ahead(n, s, t) \in 0..n-1
    BY AheadFacts
  <2>2. (t - s) % n = Ahead(n, s, t)
    BY AheadMod, Zenon
  <2> QED
    BY <2>1, <2>2
<1>1. PICK g \in 0..n-1 : g = (t - s) % n /\ g = Ahead(n, s, t)
  BY <1>0
<1>2. ASSUME NEW i \in 0..(g - 1) PROVE q[((s + i) % n) + 1] \in Arc(q, s, t)
  <2>1. i \in 0..n-1
    OBVIOUS
  <2>22. (s + i) % n \in 0..n-1
    BY <2>1, AheadBy, Zenon
  <2>23. Ahead(n, s, (s + i) % n) = i
    BY <2>1, AheadBy
  <2>2. (s + i) % n \in 0..n-1 /\ Ahead(n, s, (s + i) % n) = i
    BY <2>22, <2>23, Zenon
  <2>20. PICK z : z = (s + i) % n
    OBVIOUS
  <2>21. z \in 0..n-1 /\ Ahead(n, s, z) = i
    BY <2>2, <2>20
  <2>3. Ahead(n, s, z) < Ahead(n, s, t)
    BY <1>1, <2>21
  <2> QED
    BY <2>20, <2>21, <2>3 DEF Arc
<1>3. ASSUME NEW z \in 0..n-1, Ahead(n, s, z) < Ahead(n, s, t) PROVE q[z + 1] \in L
  <2>1. PICK i \in 0..n-1 : i = Ahead(n, s, z)
    BY AheadFacts
  <2>2. (s + i) % n = z
    BY <2>1, AheadMod
  <2>3. i \in 0..(g - 1)
    BY <1>1, <1>3, <2>1
  <2>4. \E k \in 0..(((t - s) % n) - 1) : q[z + 1] = q[((s + k) % n) + 1]
    BY <1>1, <2>2, <2>3
  <2> QED
    BY <2>4, Zenon DEF L
<1>4. L \subseteq Arc(q, s, t)
  BY <1>1, <1>2 DEF L
<1>5. Arc(q, s, t) \subseteq L
  BY <1>3 DEF Arc
<1>6. HadOf(q, s, t) = L
  <2>1. Len(q) = n /\ n # 0
    OBVIOUS
  <2> QED
    BY <2>1, Zenon DEF HadOf, L
<1> QED
  BY <1>4, <1>5, <1>6

\* i is the first place from p on, in the turn of the ring q, whose member is in able.
First(q, p, i, able) ==
  /\ i \in 0..Len(q)-1 /\ q[i + 1] \in able
  /\ \A x \in 0..Len(q)-1 : Ahead(Len(q), p, x) < Ahead(Len(q), p, i) => q[x + 1] \notin able

\* What NextIndex finds.
LEMMA NextFound ==
  ASSUME NEW q, NEW n \in Nat \ {0}, n = Len(q), NEW c \in Nat, NEW able,
         \E k \in 1..n : q[k] \in able
  PROVE  First(q, c % n, NextIndex(q, c, able), able)
<1> DEFINE J == {j \in 0..n-1 : q[((c + j) % n) + 1] \in able}
<1>0. c \in Int
  OBVIOUS
<1>1. PICK p \in 0..n-1 : p = c % n
  <2>1. c % n \in 0..n-1
    BY <1>0, ModRange, Zenon
  <2> QED
    BY <2>1
<1>2. \A j \in 0..n-1 : (c + j) % n = (p + j) % n
  <2>1. \A j \in Nat : (c + j) % n = ((c % n) + j) % n
    BY ModAdd, Zenon
  <2> QED
    BY <1>1, <2>1
<1>3. \A x \in 0..n-1 : /\ Ahead(n, p, x) \in 0..n-1
                        /\ (p + Ahead(n, p, x)) % n = x
  <2>1. \A x \in 0..n-1 : Ahead(n, p, x) \in 0..n-1
    BY AheadFacts
  <2>2. ASSUME NEW x \in 0..n-1 PROVE (p + Ahead(n, p, x)) % n = x
    BY AheadMod, Zenon
  <2> QED
    BY <2>1, <2>2
<1>4. J \subseteq Nat /\ J # {}
  <2>1. PICK k \in 1..n : q[k] \in able
    OBVIOUS
  <2>2. PICK x \in 0..n-1 : x + 1 = k
    BY k - 1 \in 0..n-1
  <2>3. PICK j \in 0..n-1 : j = Ahead(n, p, x) /\ (p + j) % n = x
    BY <1>3
  <2>4. j \in J
    BY <1>2, <2>1, <2>2, <2>3
  <2>5. J \subseteq 0..n-1 /\ 0..n-1 \subseteq Nat
    OBVIOUS
  <2> HIDE DEF J
  <2> QED
    BY <2>4, <2>5
<1> DEFINE k == Min(J)
<1>5. k \in J /\ \A j \in J : k <= j
  <2> HIDE DEF J
  <2> QED
    BY <1>4, Least
<1>6. PICK i \in 0..n-1 : i = (p + k) % n /\ Ahead(n, p, i) = k
  <2>1. k \in 0..n-1
    BY <1>5
  <2> HIDE DEF k
  <2> QED
    <3>1. \A z \in 0..n-1 : (p + z) % n \in 0..n-1 /\ Ahead(n, p, (p + z) % n) = z
      BY AheadBy, Zenon
    <3> QED
      BY <2>1, <3>1
<1>7. i = NextIndex(q, c, able)
  <2>1. k \in 0..n-1
    BY <1>5
  <2>2. (c + k) % n = i
    BY <1>2, <1>6, <2>1
  <2> QED
    BY <2>2 DEF NextIndex
<1>8. q[i + 1] \in able
  <2>1. k \in 0..n-1 /\ q[((c + k) % n) + 1] \in able
    BY <1>5
  <2>2. (c + k) % n = i
    BY <1>2, <1>6, <2>1
  <2> HIDE DEF k
  <2> QED
    BY <2>1, <2>2
<1>9. ASSUME NEW x \in 0..n-1, Ahead(n, p, x) < Ahead(n, p, i) PROVE q[x + 1] \notin able
  <2>1. PICK j \in 0..n-1 : j = Ahead(n, p, x) /\ (p + j) % n = x
    BY <1>3
  <2>2. j < k
    BY <1>6, <1>9, <2>1
  <2>3. j \notin J
    <3>1. k \in 0..n-1
      BY <1>5
    <3> HIDE DEF J, k
    <3> QED
      BY <1>5, <2>2, <3>1
  <2>4. (c + j) % n = x
    BY <1>2, <2>1
  <2> QED
    BY <2>3, <2>4
<1> HIDE DEF J, k
<1> QED
  BY <1>1, <1>7, <1>8, <1>9 DEF First

\* Enumerates, in terms of places.
LEMMA Places ==
  ASSUME NEW S, NEW q, Enumerates(q, S), NEW n \in Nat, n = Len(q)
  PROVE  /\ \A x \in 0..n-1 : q[x + 1] \in S
         /\ \A x, y \in 0..n-1 : q[x + 1] = q[y + 1] => x = y
         /\ \A m \in S : \E x \in 0..n-1 : q[x + 1] = m
<1>1. \A x \in 0..n-1 : x + 1 \in 1..n
  OBVIOUS
<1>2. \A m \in S : \E k \in 1..n : q[k] = m
  BY DEF Enumerates, Range
<1>3. \A k \in 1..n : k - 1 \in 0..n-1 /\ (k - 1) + 1 = k
  OBVIOUS
<1>4. \A m \in S : \E x \in 0..n-1 : q[x + 1] = m
  BY <1>2, <1>3
<1>5. \A k \in 1..n : q[k] \in S
  BY DEF Enumerates
<1>6. \A x \in 0..n-1 : q[x + 1] \in S
  BY <1>1, <1>5
<1>7. \A x, y \in 0..n-1 : q[x + 1] = q[y + 1] => x = y
  BY <1>1 DEF Enumerates
<1> QED
  BY <1>4, <1>6, <1>7

\* The members of q from place s on, up to place i with it.
Upto(q, s, i) == {q[x + 1] : x \in {z \in 0..Len(q)-1 : Ahead(Len(q), s, z) <= Ahead(Len(q), s, i)}}

\* When i has had its turn: those up to it, or a new round.
LEMMA AfterTurn ==
  ASSUME NEW S, NEW q, Enumerates(q, S), NEW n \in Nat \ {0}, n = Len(q),
         NEW s \in 0..n-1, NEW i \in 0..n-1
  PROVE  Arc(q, s, (i + 1) % n) = IF Upto(q, s, i) = S THEN {} ELSE Upto(q, s, i)
<1>1. PICK m \in 0..n-1 : /\ m = (i + 1) % n
                          /\ Ahead(n, s, m) = IF Ahead(n, s, i) = n - 1 THEN 0 ELSE Ahead(n, s, i) + 1
  BY AheadNext
<1>2. \A x \in 0..n-1 : Ahead(n, s, x) \in 0..n-1
  BY AheadFacts
<1>3. CASE Ahead(n, s, i) = n - 1
  <2>1. Arc(q, s, m) = {}
    <3>1. \A x \in 0..n-1 : ~(Ahead(n, s, x) < Ahead(n, s, m))
      BY <1>1, <1>2, <1>3
    <3> QED
      BY <3>1 DEF Arc
  <2>2. S \subseteq Upto(q, s, i)
    <3>1. ASSUME NEW y \in S PROVE y \in Upto(q, s, i)
      <4>1. PICK x \in 0..n-1 : q[x + 1] = y
        BY Places
      <4>2. Ahead(n, s, x) <= Ahead(n, s, i)
        BY <1>2, <1>3
      <4> QED
        BY <4>1, <4>2 DEF Upto
    <3> QED
      BY <3>1
  <2>3. Upto(q, s, i) \subseteq S
    <3>1. \A x \in 0..n-1 : q[x + 1] \in S
      BY Places
    <3> QED
      BY <3>1 DEF Upto
  <2>4. Upto(q, s, i) = S
    BY <2>2, <2>3
  <2> QED
    BY <1>1, <2>1, <2>4
<1>4. CASE Ahead(n, s, i) # n - 1
  <2>1. \A x \in 0..n-1 : Ahead(n, s, x) < Ahead(n, s, m) <=> Ahead(n, s, x) <= Ahead(n, s, i)
    BY <1>1, <1>2, <1>4
  <2>2. Arc(q, s, m) = Upto(q, s, i)
    BY <2>1 DEF Arc, Upto
  <2>3. PICK y \in 0..n-1 : Ahead(n, s, y) = n - 1
    BY AheadBy, n - 1 \in 0..n-1
  <2>4. q[y + 1] \in S
    BY Places
  <2>5. ASSUME q[y + 1] \in Upto(q, s, i) PROVE FALSE
    <3>1. PICK x \in 0..n-1 : q[x + 1] = q[y + 1] /\ Ahead(n, s, x) <= Ahead(n, s, i)
      BY <2>5 DEF Upto
    <3>2. x = y
      BY <3>1, Places
    <3> QED
      BY <1>2, <1>4, <2>3, <3>1, <3>2
  <2> QED
    BY <1>1, <2>2, <2>4, <2>5
<1> QED
  BY <1>3, <1>4

\* x's turn among those of S that may be served, as Rotation has it: had before,
\* had2 after.
TurnGiven(S, had, able, x, had2) ==
  \E lost \in SUBSET (S \ able) :
    LET round == IF able \subseteq had THEN {} ELSE had
        now == round \cup lost \cup {x}
    IN /\ x \in able \ round
       /\ had2 = IF now = S THEN {} ELSE now

\* The turn of a ring: the members after s that had theirs before p, the first
\* from p on that may be served, and those passed over.
LEMMA RingTurn ==
  ASSUME NEW S, NEW q, Enumerates(q, S), NEW n \in Nat \ {0}, n = Len(q),
         NEW s \in 0..n-1, NEW p \in 0..n-1, NEW able, able \subseteq S,
         NEW i, First(q, p, i, able)
  PROVE  TurnGiven(S, Arc(q, s, p), able, q[i + 1], Arc(q, s, (i + 1) % n))
<1> SUFFICES \E lost \in SUBSET (S \ able) :
           LET round == IF able \subseteq Arc(q, s, p) THEN {} ELSE Arc(q, s, p)
               now == round \cup lost \cup {q[i + 1]}
           IN /\ q[i + 1] \in able \ round
              /\ Arc(q, s, (i + 1) % n) = IF now = S THEN {} ELSE now
  BY DEF TurnGiven
<1> DEFINE Skipped == {q[x + 1] : x \in {z \in 0..n-1 : Ahead(n, p, z) < Ahead(n, p, i)}}
           Early == {q[x + 1] : x \in {z \in 0..n-1 : Ahead(n, s, z) < Ahead(n, s, i)}}
<1>1. /\ i \in 0..n-1 /\ q[i + 1] \in able
      /\ \A x \in 0..n-1 : Ahead(n, p, x) < Ahead(n, p, i) => q[x + 1] \notin able
  BY DEF First
<1>2. /\ \A x \in 0..n-1 : q[x + 1] \in S
      /\ \A x, y \in 0..n-1 : q[x + 1] = q[y + 1] => x = y
      /\ \A m \in S : \E x \in 0..n-1 : q[x + 1] = m
  <2>1. \A x \in 0..n-1 : q[x + 1] \in S
    BY Places
  <2>2. \A x, y \in 0..n-1 : q[x + 1] = q[y + 1] => x = y
    BY Places
  <2>3. \A m \in S : \E x \in 0..n-1 : q[x + 1] = m
    BY Places
  <2> QED
    BY <2>1, <2>2, <2>3
<1>3. i \in 0..n-1
  BY <1>1
<1>4. \A m : m \in Upto(q, s, i) <=> \E x \in 0..n-1 : q[x + 1] = m /\ Ahead(n, s, x) <= Ahead(n, s, i)
  BY DEF Upto
<1>5. \A m : m \in Arc(q, s, p) <=> \E x \in 0..n-1 : q[x + 1] = m /\ Ahead(n, s, x) < Ahead(n, s, p)
  BY DEF Arc
<1>6. \A m : m \in Skipped <=> \E x \in 0..n-1 : q[x + 1] = m /\ Ahead(n, p, x) < Ahead(n, p, i)
  OBVIOUS
<1>7. \A m : m \in Early <=> \E x \in 0..n-1 : q[x + 1] = m /\ Ahead(n, s, x) < Ahead(n, s, i)
  OBVIOUS
<1> HIDE DEF Skipped, Early
<1>8. Arc(q, s, (i + 1) % n) = IF Upto(q, s, i) = S THEN {} ELSE Upto(q, s, i)
  BY <1>1, AfterTurn
<1>9. CASE able \subseteq Arc(q, s, p)
  <2>1. Ahead(n, s, i) < Ahead(n, s, p)
    BY <1>1, <1>2, <1>5, <1>9
  <2>2. \A x \in 0..n-1 : Ahead(n, s, x) < Ahead(n, s, i) => Ahead(n, p, x) < Ahead(n, p, i)
    BY <1>3, <2>1, AheadTurn
  <2>3. Early \in SUBSET (S \ able)
    BY <1>1, <1>2, <1>7, <2>2
  <2>4. \A x \in 0..n-1 : Ahead(n, s, x) <= Ahead(n, s, i) <=> Ahead(n, s, x) < Ahead(n, s, i) \/ x = i
    BY <1>3, AheadTurn
  <2>5. {} \cup Early \cup {q[i + 1]} = Upto(q, s, i)
    BY <1>1, <1>4, <1>7, <2>4
  <2> QED
    BY <1>1, <1>8, <1>9, <2>3, <2>5
<1>10. CASE ~(able \subseteq Arc(q, s, p))
  <2>1. PICK y \in 0..n-1 : q[y + 1] \in able /\ Ahead(n, s, p) <= Ahead(n, s, y)
    <3>1. PICK m \in able : m \notin Arc(q, s, p)
      BY <1>10
    <3>2. PICK y \in 0..n-1 : q[y + 1] = m
      BY <1>2
    <3> QED
      <4>1. ~(Ahead(n, s, y) < Ahead(n, s, p))
        BY <1>5, <3>1, <3>2
      <4> QED
        BY <1>3, <3>1, <3>2, <4>1, AheadTurn
  <2>2. Ahead(n, s, p) <= Ahead(n, s, i)
    BY <1>1, <1>3, <2>1, AheadTurn
  <2>3. q[i + 1] \notin Arc(q, s, p)
    BY <1>2, <1>3, <1>5, <2>2, AheadTurn
  <2>4. Skipped \in SUBSET (S \ able)
    BY <1>1, <1>2, <1>6
  <2>5. \A x \in 0..n-1 : Ahead(n, s, x) <= Ahead(n, s, i) <=>
           Ahead(n, s, x) < Ahead(n, s, p) \/ Ahead(n, p, x) < Ahead(n, p, i) \/ x = i
    BY <1>3, <2>2, AheadTurn
  <2>6. Arc(q, s, p) \cup Skipped \cup {q[i + 1]} = Upto(q, s, i)
    BY <1>1, <1>4, <1>5, <1>6, <2>5
  <2> QED
    BY <1>1, <1>8, <1>10, <2>3, <2>4, <2>6
<1> QED
  BY <1>9, <1>10

------------------------------------------------------------------------------
(* Ready views and what they list.                                          *)

Entry == [state: States, prio: Priorities, parent: Parents \cup {0}, ws: BOOLEAN]
Entered == [Auths -> Entry]

\* What SchedulerAssumption says, in the forms the proofs use.
LEMMA Constants ==
  /\ \A a \in Auths : a \in Nat
  /\ IsFiniteSet(Auths) /\ Cardinality(Auths) \in Nat
  /\ \A q \in Parents : q \in Nat /\ q # 0
  /\ Priorities # {} /\ \A p \in Priorities : p \in Int
  /\ IsFiniteSet(Priorities) /\ IsFiniteSet(Parents)
  BY SchedulerAssumption, FS_CardinalityType

\* A view holds finitely many credentials, numbered as all of them are.
LEMMA ReadyFinite ==
  ASSUME NEW en, NEW p, NEW prio, NEW v
  PROVE  /\ Ready(en, p, prio, v) \subseteq Auths
         /\ Ready(en, p, prio, v) \subseteq Nat
         /\ IsFiniteSet(Ready(en, p, prio, v))
         /\ Cardinality(Ready(en, p, prio, v)) \in Nat
         /\ Cardinality(Ready(en, p, prio, v)) <= Cardinality(Auths)
<1>1. Ready(en, p, prio, v) \subseteq Auths
  BY DEF Ready
<1>2. Ready(en, p, prio, v) \subseteq Nat
  BY <1>1, Constants
<1> QED
  BY <1>1, <1>2, Constants, SubsetCount

\* So are the children of a parent.
LEMMA ChildrenFinite ==
  ASSUME NEW en, NEW p, NEW prio, NEW v, NEW q
  PROVE  /\ ChildrenOf(en, p, prio, v, q) \subseteq Ready(en, p, prio, v)
         /\ ChildrenOf(en, p, prio, v, q) \subseteq Nat
         /\ IsFiniteSet(ChildrenOf(en, p, prio, v, q))
         /\ Cardinality(ChildrenOf(en, p, prio, v, q)) \in Nat
         /\ Cardinality(ChildrenOf(en, p, prio, v, q)) <= Cardinality(Auths)
<1>1. ChildrenOf(en, p, prio, v, q) \subseteq Ready(en, p, prio, v)
  BY DEF ChildrenOf
<1>2. ChildrenOf(en, p, prio, v, q) \subseteq Auths
  BY <1>1, ReadyFinite
<1>3. ChildrenOf(en, p, prio, v, q) \subseteq Nat
  BY <1>2, Constants
<1> QED
  BY <1>1, <1>2, <1>3, Constants, SubsetCount

\* Turns go across the parents of all a view's credentials, or across none.
LEMMA ParentsFinite ==
  ASSUME NEW en \in Entered, NEW p, NEW prio, NEW v
  PROVE  /\ ParentsOf(en, p, prio, v) \subseteq Parents
         /\ ParentsOf(en, p, prio, v) \subseteq Nat
         /\ IsFiniteSet(ParentsOf(en, p, prio, v))
         /\ Cardinality(ParentsOf(en, p, prio, v)) \in Nat
         /\ Cardinality(ParentsOf(en, p, prio, v)) <= Cardinality(Auths)
         /\ ParentsOf(en, p, prio, v) # {} =>
              ParentsOf(en, p, prio, v) = {en[a].parent : a \in Ready(en, p, prio, v)}
<1> DEFINE view == Ready(en, p, prio, v)
           all == {en[a].parent : a \in view}
<1>0. view \subseteq Auths /\ IsFiniteSet(view) /\ Cardinality(view) \in Nat
      /\ Cardinality(view) <= Cardinality(Auths)
  BY ReadyFinite
<1>1. ParentsOf(en, p, prio, v) = IF 0 \in all \/ Cardinality(all) <= 1 THEN {} ELSE all
  BY DEF ParentsOf
<1>2. all \subseteq Parents \cup {0}
  <2>1. \A a \in Auths : en[a].parent \in Parents \cup {0}
    BY DEF Entered, Entry
  <2> HIDE DEF view
  <2> QED
    BY <1>0, <2>1
<1>3. IsFiniteSet(all) /\ Cardinality(all) <= Cardinality(view)
  <2> DEFINE f == [a \in view |-> en[a].parent]
  <2>1. f \in Surjection(view, all)
    <3> HIDE DEF view
    <3> QED
      BY DEF Surjection
  <2> HIDE DEF view, all, f
  <2> QED
    BY <1>0, <2>1, FS_Surjection
<1>4. Cardinality(all) \in Nat
  BY <1>3, FS_CardinalityType
<1> HIDE DEF all, view
<1>5. CASE ParentsOf(en, p, prio, v) = {}
  BY <1>5, FS_EmptySet, Constants
<1>6. CASE ParentsOf(en, p, prio, v) # {}
  <2>1. ParentsOf(en, p, prio, v) = all /\ 0 \notin all
    BY <1>1, <1>6
  <2>2. all \subseteq Parents
    BY <1>2, <2>1
  <2>3. all \subseteq Nat
    BY <2>2, Constants
  <2>4. Cardinality(all) <= Cardinality(Auths)
    BY <1>0, <1>3, <1>4, Constants
  <2>5. all = {en[a].parent : a \in Ready(en, p, prio, v)}
    BY DEF all, view
  <2> QED
    BY <1>3, <1>4, <2>1, <2>2, <2>3, <2>4, <2>5
<1> QED
  BY <1>5, <1>6

------------------------------------------------------------------------------
(* Slots of mixed requests.                                                 *)

Weight(en, l, prio, i) == Cardinality(Ready(en, l[i], prio, "all"))

\* What a mixed request's slots are, as a set.
SlotSet(en, l, prio) ==
  UNION {{<<l[i], prio, k>> : k \in 1..Weight(en, l, prio, i)} : i \in 1..Len(l)}

\* Lists of providers name nobody twice.
LEMMA ListFacts ==
  ASSUME NEW l \in Lists
  PROVE  /\ Len(l) \in Nat /\ Len(l) >= 2
         /\ \A i, j \in 1..Len(l) : l[i] = l[j] => i = j
         /\ \A x : x \in Range(l) <=> \E i \in 1..Len(l) : l[i] = x
<1>1. l \in Seq(Range(l)) /\ Len(l) >= 2 /\ IsInjective(l)
  BY SchedulerAssumption
<1>2. DOMAIN l = 1..Len(l) /\ Len(l) \in Nat
  BY <1>1
<1> QED
  BY <1>1, <1>2 DEF IsInjective, Range

\* Each provider's segment follows the one before it.
LEMMA Segments ==
  ASSUME NEW en, NEW l \in Lists, NEW prio
  PROVE  /\ \A i \in 0..Len(l) : SegmentEnd(en, l, prio, i) \in 0..Cardinality(Auths)
         /\ SegmentEnd(en, l, prio, 0) = 0
         /\ \A i \in 1..Len(l) :
              /\ Weight(en, l, prio, i) \in Nat
              /\ SegmentEnd(en, l, prio, i) = SegmentEnd(en, l, prio, i - 1) + Weight(en, l, prio, i)
         /\ \A i, j \in 0..Len(l) : i <= j => SegmentEnd(en, l, prio, i) <= SegmentEnd(en, l, prio, j)
<1> DEFINE W(i) == Ready(en, l[i], prio, "all")
           C(i) == {a \in Auths : \E k \in 1..i : a \in W(k)}
<1>0. Len(l) \in Nat /\ \A i, j \in 1..Len(l) : l[i] = l[j] => i = j
  BY ListFacts
<1>1. \A i \in 0..Len(l) : C(i) \subseteq Auths /\ SegmentEnd(en, l, prio, i) = Cardinality(C(i))
  BY DEF SegmentEnd
<1>2. \A i \in 0..Len(l) : IsFiniteSet(C(i)) /\ Cardinality(C(i)) \in Nat /\ Cardinality(C(i)) <= Cardinality(Auths)
  <2> HIDE DEF C
  <2> QED
    BY <1>1, Constants, SubsetCount
<1>3. C(0) = {}
  OBVIOUS
<1>4. ASSUME NEW i \in 1..Len(l)
      PROVE  /\ Weight(en, l, prio, i) \in Nat
             /\ SegmentEnd(en, l, prio, i) = SegmentEnd(en, l, prio, i - 1) + Weight(en, l, prio, i)
  <2>1. W(i) \subseteq Auths /\ IsFiniteSet(W(i)) /\ Cardinality(W(i)) \in Nat
    BY ReadyFinite
  <2>2. \A k \in 1..i : k \in 1..(i - 1) \/ k = i
    OBVIOUS
  <2>3. \A k \in 1..(i - 1) : k \in 1..i /\ k \in 1..Len(l) /\ k # i
    OBVIOUS
  <2>4. C(i) = C(i - 1) \cup W(i)
    <3>1. i \in 1..i
      OBVIOUS
    <3> HIDE DEF W
    <3> QED
      BY <2>1, <2>2, <2>3, <3>1
  <2>5. C(i - 1) \cap W(i) = {}
    <3>1. \A k \in 1..(i - 1) : W(k) \cap W(i) = {}
      <4>1. \A k \in 1..Len(l) : \A a \in W(k) : ProviderOf[a] = l[k]
        BY DEF Ready
      <4> HIDE DEF W
      <4> QED
        BY <1>0, <2>3, <4>1
    <3> HIDE DEF W
    <3> QED
      BY <3>1
  <2>6. i \in 0..Len(l) /\ i - 1 \in 0..Len(l)
    BY <1>0
  <2>7. Cardinality(C(i)) = Cardinality(C(i - 1)) + Cardinality(W(i)) - Cardinality({})
    <3>1. IsFiniteSet(C(i - 1))
      BY <1>2, <2>6
    <3>2. \A S, T : IsFiniteSet(S) /\ IsFiniteSet(T) =>
            Cardinality(S \cup T) = Cardinality(S) + Cardinality(T) - Cardinality(S \cap T)
      BY FS_Union
    <3> HIDE DEF C, W
    <3> QED
      BY <2>1, <2>4, <2>5, <3>1, <3>2
  <2>8. Weight(en, l, prio, i) = Cardinality(W(i))
    BY DEF Weight
  <2> HIDE DEF C, W
  <2> QED
    BY <1>1, <1>2, <2>1, <2>6, <2>7, <2>8, FS_EmptySet
<1>5. ASSUME NEW i \in 0..Len(l), NEW j \in 0..Len(l), i <= j
      PROVE  SegmentEnd(en, l, prio, i) <= SegmentEnd(en, l, prio, j)
  <2>1. \A k \in 1..i : k \in 1..j
    BY <1>0, <1>5
  <2>2. C(i) \subseteq C(j)
    BY <2>1
  <2> HIDE DEF C
  <2> QED
    BY <1>1, <1>2, <2>2, SubsetCount
<1>6. SegmentEnd(en, l, prio, 0) = 0
  <2>1. 0 \in 0..Len(l)
    BY <1>0
  <2> HIDE DEF C
  <2> QED
    BY <1>1, <1>3, <2>1, FS_EmptySet
<1>7. \A i \in 0..Len(l) : SegmentEnd(en, l, prio, i) \in 0..Cardinality(Auths)
  <2> HIDE DEF C
  <2> QED
    BY <1>1, <1>2, Constants
<1> QED
  BY <1>4, <1>5, <1>6, <1>7

\* The provider a slot belongs to: the first whose segment reaches it.
Holder(en, l, prio, n) == Min({i \in 1..Len(l) : n <= SegmentEnd(en, l, prio, i)})

\* A slot lies within the segment of its holder.
LEMMA HolderFacts ==
  ASSUME NEW en, NEW l \in Lists, NEW prio, NEW n \in 1..SegmentEnd(en, l, prio, Len(l))
  PROVE  /\ Holder(en, l, prio, n) \in 1..Len(l)
         /\ n - SegmentEnd(en, l, prio, Holder(en, l, prio, n) - 1)
              \in 1..Weight(en, l, prio, Holder(en, l, prio, n))
         /\ SlotsOf(en, l, prio)[n] =
              <<l[Holder(en, l, prio, n)], prio, n - SegmentEnd(en, l, prio, Holder(en, l, prio, n) - 1)>>
<1> DEFINE c(i) == SegmentEnd(en, l, prio, i)
           R == {i \in 1..Len(l) : n <= c(i)}
<1>1. /\ \A i \in 0..Len(l) : c(i) \in Nat
      /\ c(0) = 0
      /\ \A i \in 1..Len(l) : Weight(en, l, prio, i) \in Nat /\ c(i) = c(i - 1) + Weight(en, l, prio, i)
  <2>1. \A i \in 0..Len(l) : c(i) \in 0..Cardinality(Auths)
    BY Segments
  <2>2. c(0) = 0
    BY Segments
  <2>3. \A i \in 1..Len(l) : Weight(en, l, prio, i) \in Nat /\ c(i) = c(i - 1) + Weight(en, l, prio, i)
    BY Segments
  <2> HIDE DEF c
  <2> QED
    BY <2>1, <2>2, <2>3, Constants
<1>2. Len(l) \in Nat /\ Len(l) >= 2
  BY ListFacts
<1>3. R \subseteq Nat /\ Len(l) \in R
  <2>1. n <= c(Len(l)) /\ Len(l) \in 0..Len(l)
    BY <1>1, <1>2
  <2> HIDE DEF c
  <2> QED
    BY <1>2, <2>1
<1>4. PICK h \in R : h = Holder(en, l, prio, n) /\ \A i \in R : h <= i
  <2>1. Min(R) \in R /\ \A i \in R : Min(R) <= i
    <3> HIDE DEF R
    <3> QED
      BY <1>3, Least
  <2>2. Min(R) = Holder(en, l, prio, n)
    BY DEF Holder
  <2> HIDE DEF R
  <2> QED
    BY <2>1, <2>2
<1>5. h \in 1..Len(l) /\ n <= c(h)
  BY <1>4
<1> HIDE DEF c
<1>6. c(h - 1) < n
  <2>1. CASE h = 1
    BY <1>1, <2>1
  <2>2. CASE h # 1
    <3>1. h - 1 \in 1..Len(l) /\ h - 1 \notin R
      BY <1>2, <1>4, <1>5, <2>2
    <3>2. c(h - 1) \in Nat
      BY <1>1, <1>2, <3>1
    <3>3. ~(n <= c(h - 1))
      BY <3>1
    <3>4. n \in Int
      BY <1>1, <1>2
    <3> QED
      BY <3>2, <3>3, <3>4
  <2> QED
    BY <2>1, <2>2
<1>7. n \in Nat /\ c(h - 1) \in Nat /\ c(h) = c(h - 1) + Weight(en, l, prio, h) /\ Weight(en, l, prio, h) \in Nat
  BY <1>1, <1>2, <1>5
<1>8. n - c(h - 1) \in 1..Weight(en, l, prio, h)
  BY <1>5, <1>6, <1>7
<1>9. SlotsOf(en, l, prio)[n] = <<l[h], prio, n - c(h - 1)>>
  <2>1. \A m \in 1..SegmentEnd(en, l, prio, Len(l)) : SlotsOf(en, l, prio)[m] =
          <<l[Holder(en, l, prio, m)], prio, m - SegmentEnd(en, l, prio, Holder(en, l, prio, m) - 1)>>
    BY DEF SlotsOf, Holder
  <2> QED
    BY <1>4, <2>1 DEF c
<1> QED
  BY <1>4, <1>5, <1>8, <1>9 DEF c

\* The slots list every provider of the request as often as it has credentials
\* ready, each slot once.
LEMMA SlotsListed ==
  ASSUME NEW en, NEW l \in Lists, NEW prio
  PROVE  /\ Enumerates(SlotsOf(en, l, prio), SlotSet(en, l, prio))
         /\ Len(SlotsOf(en, l, prio)) = SegmentEnd(en, l, prio, Len(l))
<1> DEFINE c(i) == SegmentEnd(en, l, prio, i)
           h(m) == Holder(en, l, prio, m)
           q == SlotsOf(en, l, prio)
           S == SlotSet(en, l, prio)
           w(i) == Weight(en, l, prio, i)
<1>1. Len(l) \in Nat /\ Len(l) >= 2 /\ \A i, j \in 1..Len(l) : l[i] = l[j] => i = j
  BY ListFacts
<1>2. PICK n \in Nat : n = c(Len(l))
  <2>1. c(Len(l)) \in 0..Cardinality(Auths)
    BY <1>1, Segments, Len(l) \in 0..Len(l)
  <2> QED
    BY <2>1, Constants
<1>3. \A i \in 0..Len(l) : c(i) \in Nat
  <2>1. \A i \in 0..Len(l) : c(i) \in 0..Cardinality(Auths)
    BY Segments
  <2> HIDE DEF c
  <2> QED
    BY <2>1, Constants
<1>4. \A i \in 1..Len(l) : w(i) \in Nat /\ c(i) = c(i - 1) + w(i)
  BY Segments
<1>5. \A i, j \in 0..Len(l) : i <= j => c(i) <= c(j)
  BY Segments
<1>6. \A m \in 1..n : h(m) \in 1..Len(l) /\ m - c(h(m) - 1) \in 1..w(h(m)) /\ q[m] = <<l[h(m)], prio, m - c(h(m) - 1)>>
  BY <1>2, HolderFacts
<1>7. \A m \in 1..n : h(m) = Min({i \in 1..Len(l) : m <= c(i)})
  BY DEF Holder
<1>8. \A s : s \in S <=> \E i \in 1..Len(l) : \E k \in 1..w(i) : s = <<l[i], prio, k>>
  BY DEF SlotSet
<1>9. DOMAIN q = 1..n
  BY <1>2 DEF SlotsOf
<1>10. q = [m \in 1..n |-> q[m]]
  BY <1>2 DEF SlotsOf
<1> HIDE DEF c, h, q, S, w
<1>11. q \in [1..n -> S]
  <2>1. \A m \in 1..n : q[m] \in S
    BY <1>6, <1>8
  <2> QED
    BY <1>10, <2>1
<1>12. \A i, j \in 1..n : q[i] = q[j] => i = j
  <2>1. ASSUME NEW i \in 1..n, NEW j \in 1..n, q[i] = q[j] PROVE i = j
    <3>0. /\ h(i) \in 1..Len(l) /\ h(j) \in 1..Len(l)
          /\ <<l[h(i)], prio, i - c(h(i) - 1)>> = <<l[h(j)], prio, j - c(h(j) - 1)>>
      BY <1>6, <2>1
    <3>1. h(i) = h(j)
      <4>1. l[h(i)] = l[h(j)]
        BY <3>0
      <4> QED
        BY <1>1, <3>0, <4>1
    <3>2. i - c(h(i) - 1) = j - c(h(j) - 1)
      BY <3>0
    <3>3. h(i) - 1 \in 0..Len(l)
      BY <1>1, <1>6
    <3>4. c(h(i) - 1) \in Nat
      BY <1>3, <3>3
    <3> QED
      BY <3>1, <3>2, <3>4
  <2> QED
    BY <2>1
<1>13. \A s \in S : \E m \in 1..n : q[m] = s
  <2>1. ASSUME NEW i \in 1..Len(l), NEW k \in 1..w(i)
        PROVE  \E m \in 1..n : q[m] = <<l[i], prio, k>>
    <3>1. i - 1 \in 0..Len(l) /\ i \in 0..Len(l) /\ Len(l) \in 0..Len(l) /\ i <= Len(l)
      BY <1>1
    <3>2. c(i - 1) \in Nat /\ c(i) \in Nat /\ w(i) \in Nat /\ c(i) = c(i - 1) + w(i) /\ c(i) <= n
      BY <1>2, <1>3, <1>4, <1>5, <3>1
    <3>3. PICK m \in 1..n : m = c(i - 1) + k
      BY <3>2
    <3>4. m <= c(i) /\ ~(m <= c(i - 1))
      BY <3>2, <3>3
    <3>5. \A j \in 1..Len(l) : m <= c(j) => i <= j
      <4>1. ASSUME NEW j \in 1..Len(l), m <= c(j), j < i PROVE FALSE
        <5>1. j <= i - 1 /\ j \in 0..Len(l)
          BY <1>1, <4>1
        <5>2. c(j) \in Nat /\ c(j) <= c(i - 1)
          BY <1>3, <1>5, <3>1, <5>1
        <5> QED
          BY <3>2, <3>4, <4>1, <5>2
      <4> QED
        BY <4>1
    <3>6. h(m) = i
      <4> DEFINE R == {j \in 1..Len(l) : m <= c(j)}
      <4>1. R \subseteq Nat /\ i \in R /\ \A j \in R : i <= j
        BY <3>4, <3>5
      <4>2. h(m) = Min(R)
        BY <1>7
      <4> HIDE DEF R
      <4>3. Min(R) \in R /\ \A j \in R : Min(R) <= j
        BY <4>1, Least
      <4>4. Min(R) <= i /\ i <= Min(R) /\ Min(R) \in Nat /\ i \in Nat
        BY <4>1, <4>3
      <4> QED
        BY <4>2, <4>4
    <3>7. m - c(h(m) - 1) = k
      BY <3>2, <3>3, <3>6
    <3> QED
      BY <1>6, <3>6, <3>7
  <2>2. ASSUME NEW s \in S PROVE \E m \in 1..n : q[m] = s
    <3>1. PICK i \in 1..Len(l) : \E k \in 1..w(i) : s = <<l[i], prio, k>>
      BY <1>8
    <3>2. PICK k \in 1..w(i) : s = <<l[i], prio, k>>
      BY <3>1
    <3> QED
      BY <2>1, <3>2
  <2> QED
    BY <2>2
<1>14. Enumerates(q, S) /\ Len(q) = n
  BY <1>11, <1>12, <1>13, Enumerated
<1> QED
  BY <1>2, <1>14 DEF c, q, S

\* Of nothing, the list is empty.
LEMMA NoneListed ==
  ASSUME NEW S, NEW q, Enumerates(q, S), Len(q) = 0
  PROVE  q = <<>>
  BY EmptySeq DEF Enumerates

\* The same slots, the same order.
LEMMA SlotsSame ==
  ASSUME NEW en, NEW en2, NEW l \in Lists, NEW prio, NEW prio2,
         SlotSet(en, l, prio) = SlotSet(en2, l, prio2)
  PROVE  SlotsOf(en, l, prio) = SlotsOf(en2, l, prio2)
<1> DEFINE c(i) == SegmentEnd(en, l, prio, i)
           c2(i) == SegmentEnd(en2, l, prio2, i)
           w(i) == Weight(en, l, prio, i)
           w2(i) == Weight(en2, l, prio2, i)
           S == SlotSet(en, l, prio)
<1>1. Len(l) \in Nat /\ Len(l) >= 2 /\ \A i, j \in 1..Len(l) : l[i] = l[j] => i = j
  BY ListFacts
<1>2. \A s : s \in S <=> \E i \in 1..Len(l) : \E k \in 1..w(i) : s = <<l[i], prio, k>>
  BY DEF SlotSet
<1>3. \A s : s \in S <=> \E i \in 1..Len(l) : \E k \in 1..w2(i) : s = <<l[i], prio2, k>>
  BY DEF SlotSet
<1>4. CASE S = {}
  <2>1. ASSUME NEW e, NEW r, SlotSet(e, l, r) = {} PROVE SlotsOf(e, l, r) = <<>>
    <3>1. Enumerates(SlotsOf(e, l, r), {})
      BY <2>1, SlotsListed
    <3>2. SlotsOf(e, l, r) \in Seq({})
      BY <3>1 DEF Enumerates
    <3> QED
      BY <3>2
  <2> QED
    BY <1>4, <2>1
<1>5. CASE S # {}
  <2> HIDE DEF S
  <2>1. \A i \in 1..Len(l) : w(i) \in Nat /\ w2(i) \in Nat /\ c(i) = c(i - 1) + w(i) /\ c2(i) = c2(i - 1) + w2(i)
    BY Segments
  <2>2. c(0) = 0 /\ c2(0) = 0
    BY Segments
  <2>3. prio = prio2
    <3> HIDE DEF w, w2
    <3> QED
      BY <1>2, <1>3, <1>5
  <2> HIDE DEF c, c2, w, w2
  <2>4. ASSUME NEW i \in 1..Len(l) PROVE w(i) = w2(i)
    <3>1. \A k \in Nat : k \in 1..w(i) <=> <<l[i], prio, k>> \in S
      BY <1>1, <1>2
    <3>2. \A k \in Nat : k \in 1..w2(i) <=> <<l[i], prio, k>> \in S
      BY <1>1, <1>3, <2>3
    <3>3. \A k \in Nat : k \in 1..w(i) <=> k \in 1..w2(i)
      BY <3>1, <3>2
    <3> QED
      BY <2>1, <3>3
  <2>5. \A i \in 0..Len(l) : c(i) = c2(i)
    <3> DEFINE D == {i \in 0..Len(l) : c(i) # c2(i)}
    <3>1. SUFFICES ASSUME D # {} PROVE FALSE
      OBVIOUS
    <3>2. D \subseteq Nat
      OBVIOUS
    <3>3. PICK i \in D : \A j \in D : i <= j
      <4> HIDE DEF D
      <4> QED
        BY <3>1, <3>2, Least
    <3>4. i \in 1..Len(l) /\ i - 1 \in 0..Len(l)
      BY <1>1, <2>2, <3>3
    <3>5. c(i - 1) = c2(i - 1)
      BY <3>3, <3>4
    <3> QED
      BY <2>1, <2>4, <3>3, <3>4, <3>5
  <2>6. \A n : {i \in 1..Len(l) : n <= c(i)} = {i \in 1..Len(l) : n <= c2(i)}
    <3>1. \A i \in 1..Len(l) : i \in 0..Len(l)
      OBVIOUS
    <3> QED
      BY <2>5, <3>1
  <2>7. \A n \in 1..c(Len(l)) : SlotsOf(en, l, prio)[n] = SlotsOf(en2, l, prio2)[n]
    <3>1. ASSUME NEW n \in 1..c(Len(l)) PROVE SlotsOf(en, l, prio)[n] = SlotsOf(en2, l, prio2)[n]
      <4>1. Holder(en, l, prio, n) = Holder(en2, l, prio2, n)
        BY <2>6 DEF Holder, c, c2
      <4>2. c(Len(l)) = c2(Len(l))
        BY <1>1, <2>5
      <4>3. PICK h \in 1..Len(l) : h = Holder(en, l, prio, n) /\ SlotsOf(en, l, prio)[n] = <<l[h], prio, n - c(h - 1)>>
        BY <3>1, HolderFacts DEF c
      <4>4. SlotsOf(en2, l, prio2)[n] = <<l[h], prio2, n - c2(h - 1)>>
        BY <3>1, <4>1, <4>2, <4>3, HolderFacts DEF c, c2
      <4>5. c(h - 1) = c2(h - 1)
        BY <1>1, <2>5, h - 1 \in 0..Len(l)
      <4> QED
        BY <2>3, <4>3, <4>4, <4>5
    <3> QED
      BY <3>1
  <2>8. /\ SlotsOf(en, l, prio) = [n \in 1..c(Len(l)) |-> SlotsOf(en, l, prio)[n]]
        /\ SlotsOf(en2, l, prio2) = [n \in 1..c2(Len(l)) |-> SlotsOf(en2, l, prio2)[n]]
    BY DEF SlotsOf, c, c2
  <2>9. c(Len(l)) = c2(Len(l))
    BY <1>1, <2>5
  <2> QED
    BY <2>7, <2>8, <2>9
<1> QED
  BY <1>4, <1>5

------------------------------------------------------------------------------
(* Rings.                                                                   *)

Flat(en, p, prio, v) == IF ParentsOf(en, p, prio, v) = {} THEN Ready(en, p, prio, v) ELSE {}

Children(en, p, prio, v, q) ==
  IF q \in ParentsOf(en, p, prio, v) THEN ChildrenOf(en, p, prio, v, q) ELSE {}

\* The views whose rings a request asks for.
Asked(p, prio, v) ==
  /\ prio \in Priorities
  /\ \/ v = "all" /\ p \in Providers
     \/ v = "ws" /\ p = Codex

\* A ring is of one of four kinds.
LEMMA RingKinds ==
  ASSUME NEW r \in Rings
  PROVE  \/ \E p, prio, v : Asked(p, prio, v) /\ r = <<"flat", p, prio, v>>
         \/ \E p \in Providers, prio \in Priorities : r = <<"parents", p, prio, "all">>
         \/ \E p \in Providers, prio \in Priorities, q \in Parents : r = <<"child", p, prio, "all", q>>
         \/ \E l \in Lists : r = <<"slots", l>>
<1>1. CASE r \in {<<"flat", p, prio, "all">> : p \in Providers, prio \in Priorities}
  <2>1. PICK p \in Providers, prio \in Priorities : r = <<"flat", p, prio, "all">>
    BY <1>1
  <2>2. Asked(p, prio, "all")
    BY DEF Asked
  <2> QED
    BY <2>1, <2>2
<1>2. CASE r \in {<<"flat", Codex, prio, "ws">> : prio \in Priorities}
  BY <1>2 DEF Asked
<1>3. CASE r \in {<<"parents", p, prio, "all">> : p \in Providers, prio \in Priorities}
  BY <1>3
<1>4. CASE r \in {<<"child", p, prio, "all", q>> : p \in Providers, prio \in Priorities, q \in Parents}
  BY <1>4
<1>5. CASE r \in {<<"slots", l>> : l \in Lists}
  BY <1>5
<1> QED
  BY <1>1, <1>2, <1>3, <1>4, <1>5 DEF Rings

\* The order of a flat view.
LEMMA OrderFlat ==
  ASSUME NEW en, NEW lv, NEW p, NEW prio, NEW v
  PROVE  Order(en, lv, <<"flat", p, prio, v>>) =
           IF ParentsOf(en, p, prio, v) = {} THEN InOrder(Ready(en, p, prio, v)) ELSE <<>>
  BY DEF Order

\* The order of the virtual parents of a view.
LEMMA OrderParents ==
  ASSUME NEW en, NEW lv, NEW p, NEW prio, NEW v
  PROVE  Order(en, lv, <<"parents", p, prio, v>>) = InOrder(ParentsOf(en, p, prio, v))
  BY DEF Order

\* The order of a parent's children.
LEMMA OrderChild ==
  ASSUME NEW en, NEW lv, NEW p, NEW prio, NEW v, NEW q
  PROVE  Order(en, lv, <<"child", p, prio, v, q>>) =
           IF q \in ParentsOf(en, p, prio, v) THEN InOrder(ChildrenOf(en, p, prio, v, q)) ELSE <<>>
  BY DEF Order

\* The order of the slots of a provider list.
LEMMA OrderSlots ==
  ASSUME NEW en, NEW lv, NEW l
  PROVE  Order(en, lv, <<"slots", l>>) = SlotsOf(en, l, lv[l])
  BY DEF Order

\* The cursor of each kind of ring.
LEMMA CursorIs ==
  ASSUME NEW cs, NEW mx
  PROVE  /\ \A p, prio, v : CursorOf(cs, mx, <<"flat", p, prio, v>>) = cs[p][prio][v].flat
         /\ \A p, prio, v : CursorOf(cs, mx, <<"parents", p, prio, v>>) = cs[p][prio][v].parent
         /\ \A p, prio, v, q : CursorOf(cs, mx, <<"child", p, prio, v, q>>) = cs[p][prio][v].child[q]
         /\ \A l : CursorOf(cs, mx, <<"slots", l>>) = mx[l]
  BY DEF CursorOf

\* The empty sequence lists nobody.
LEMMA NothingListed == Enumerates(<<>>, {}) /\ Len(<<>>) = 0
<1>1. <<>> \in Seq({})
  OBVIOUS
<1>2. Len(<<>>) = 0 /\ DOMAIN <<>> = {}
  OBVIOUS
<1> QED
  BY <1>1, <1>2 DEF Enumerates, Range

\* What each kind of ring lists, and how many.
LEMMA FlatListed ==
  ASSUME NEW en, NEW lv, NEW p, NEW prio, NEW v
  PROVE  /\ Enumerates(Order(en, lv, <<"flat", p, prio, v>>), Flat(en, p, prio, v))
         /\ Len(Order(en, lv, <<"flat", p, prio, v>>)) = Cardinality(Flat(en, p, prio, v))
         /\ Cardinality(Flat(en, p, prio, v)) \in 0..Cardinality(Auths)
<1>1. CASE ParentsOf(en, p, prio, v) = {}
  <2>1. /\ Enumerates(InOrder(Ready(en, p, prio, v)), Ready(en, p, prio, v))
        /\ Len(InOrder(Ready(en, p, prio, v))) = Cardinality(Ready(en, p, prio, v))
    BY ReadyFinite, Ordered
  <2>2. Order(en, lv, <<"flat", p, prio, v>>) = InOrder(Ready(en, p, prio, v)) /\ Flat(en, p, prio, v) = Ready(en, p, prio, v)
    BY <1>1, OrderFlat DEF Flat
  <2> QED
    BY <2>1, <2>2, ReadyFinite, Constants
<1>2. CASE ParentsOf(en, p, prio, v) # {}
  <2>1. Order(en, lv, <<"flat", p, prio, v>>) = <<>> /\ Flat(en, p, prio, v) = {}
    BY <1>2, OrderFlat DEF Flat
  <2> QED
    BY <2>1, NothingListed, FS_EmptySet, Constants
<1> QED
  BY <1>1, <1>2

\* The parents of a view are listed once each.
LEMMA ParentsListed ==
  ASSUME NEW en \in Entered, NEW lv, NEW p, NEW prio, NEW v
  PROVE  /\ Enumerates(Order(en, lv, <<"parents", p, prio, v>>), ParentsOf(en, p, prio, v))
         /\ Len(Order(en, lv, <<"parents", p, prio, v>>)) = Cardinality(ParentsOf(en, p, prio, v))
         /\ Cardinality(ParentsOf(en, p, prio, v)) \in 0..Cardinality(Auths)
<1>1. /\ Enumerates(InOrder(ParentsOf(en, p, prio, v)), ParentsOf(en, p, prio, v))
      /\ Len(InOrder(ParentsOf(en, p, prio, v))) = Cardinality(ParentsOf(en, p, prio, v))
  BY ParentsFinite, Ordered
<1>2. Order(en, lv, <<"parents", p, prio, v>>) = InOrder(ParentsOf(en, p, prio, v))
  BY OrderParents
<1> QED
  BY <1>1, <1>2, ParentsFinite, Constants

\* A parent's children are.
LEMMA ChildrenListed ==
  ASSUME NEW en, NEW lv, NEW p, NEW prio, NEW v, NEW q
  PROVE  /\ Enumerates(Order(en, lv, <<"child", p, prio, v, q>>), Children(en, p, prio, v, q))
         /\ Len(Order(en, lv, <<"child", p, prio, v, q>>)) = Cardinality(Children(en, p, prio, v, q))
         /\ Cardinality(Children(en, p, prio, v, q)) \in 0..Cardinality(Auths)
<1>1. CASE q \in ParentsOf(en, p, prio, v)
  <2>1. /\ Enumerates(InOrder(ChildrenOf(en, p, prio, v, q)), ChildrenOf(en, p, prio, v, q))
        /\ Len(InOrder(ChildrenOf(en, p, prio, v, q))) = Cardinality(ChildrenOf(en, p, prio, v, q))
    BY ChildrenFinite, Ordered
  <2>2. /\ Order(en, lv, <<"child", p, prio, v, q>>) = InOrder(ChildrenOf(en, p, prio, v, q))
        /\ Children(en, p, prio, v, q) = ChildrenOf(en, p, prio, v, q)
    BY <1>1, OrderChild DEF Children
  <2> QED
    BY <2>1, <2>2, ChildrenFinite, Constants
<1>2. CASE q \notin ParentsOf(en, p, prio, v)
  <2>1. Order(en, lv, <<"child", p, prio, v, q>>) = <<>> /\ Children(en, p, prio, v, q) = {}
    BY <1>2, OrderChild DEF Children
  <2> QED
    BY <2>1, NothingListed, FS_EmptySet, Constants
<1> QED
  BY <1>1, <1>2

\* The slots of a list are, and there are no more of them than credentials.
LEMMA SlotRingListed ==
  ASSUME NEW en, NEW lv, NEW l \in Lists
  PROVE  /\ Enumerates(Order(en, lv, <<"slots", l>>), SlotSet(en, l, lv[l]))
         /\ Len(Order(en, lv, <<"slots", l>>)) \in 0..Cardinality(Auths)
<1>1. Order(en, lv, <<"slots", l>>) = SlotsOf(en, l, lv[l])
  BY OrderSlots
<1>2. SegmentEnd(en, l, lv[l], Len(l)) \in 0..Cardinality(Auths)
  BY ListFacts, Segments, Len(l) \in 0..Len(l)
<1> QED
  BY <1>1, <1>2, SlotsListed

\* Whatever ring: it lists its members once, and not more than there are credentials.
LEMMA RingListed ==
  ASSUME NEW en \in Entered, NEW lv, NEW r \in Rings
  PROVE  /\ Enumerates(Order(en, lv, r), Range(Order(en, lv, r)))
         /\ Len(Order(en, lv, r)) \in 0..Cardinality(Auths)
<1>1. ASSUME NEW S, Enumerates(Order(en, lv, r), S), Len(Order(en, lv, r)) \in 0..Cardinality(Auths)
      PROVE  /\ Enumerates(Order(en, lv, r), Range(Order(en, lv, r)))
             /\ Len(Order(en, lv, r)) \in 0..Cardinality(Auths)
  BY <1>1 DEF Enumerates
<1>2. CASE \E p, prio, v : r = <<"flat", p, prio, v>>
  BY <1>1, <1>2, FlatListed
<1>3. CASE \E p, prio, v : r = <<"parents", p, prio, v>>
  BY <1>1, <1>3, ParentsListed
<1>4. CASE \E p, prio, v, q : r = <<"child", p, prio, v, q>>
  BY <1>1, <1>4, ChildrenListed
<1>5. CASE \E l \in Lists : r = <<"slots", l>>
  BY <1>1, <1>5, SlotRingListed
<1> QED
  BY <1>2, <1>3, <1>4, <1>5, RingKinds

\* The members of a ring are those listed.
LEMMA ListedIsRange ==
  ASSUME NEW q, NEW S, Enumerates(q, S)
  PROVE  Range(q) = S
  BY DEF Enumerates

\* The members of a ring determine their order.
LEMMA OrderSame ==
  ASSUME NEW en \in Entered, NEW en2 \in Entered, NEW lv, NEW lv2, NEW r \in Rings,
         Range(Order(en, lv, r)) = Range(Order(en2, lv2, r))
  PROVE  Order(en, lv, r) = Order(en2, lv2, r)
<1>1. ASSUME NEW p, NEW prio, NEW v, r = <<"flat", p, prio, v>> PROVE Order(en, lv, r) = Order(en2, lv2, r)
  <2>1. Flat(en, p, prio, v) = Flat(en2, p, prio, v)
    BY <1>1, FlatListed, ListedIsRange
  <2>2. CASE Flat(en, p, prio, v) = {}
    <3>1. Len(Order(en, lv, r)) = 0 /\ Len(Order(en2, lv2, r)) = 0
      <4>1. Cardinality(Flat(en, p, prio, v)) = 0 /\ Cardinality(Flat(en2, p, prio, v)) = 0
        BY <2>1, <2>2, FS_EmptySet
      <4> QED
        BY <1>1, <4>1, FlatListed
    <3>2. Enumerates(Order(en, lv, r), {}) /\ Enumerates(Order(en2, lv2, r), {})
      BY <1>1, <2>1, <2>2, FlatListed
    <3> QED
      BY <3>1, <3>2, NoneListed
  <2>3. CASE Flat(en, p, prio, v) # {}
    <3>1. /\ ParentsOf(en, p, prio, v) = {} /\ ParentsOf(en2, p, prio, v) = {}
          /\ Ready(en, p, prio, v) = Ready(en2, p, prio, v)
      BY <2>1, <2>3 DEF Flat
    <3> QED
      BY <1>1, <3>1, OrderFlat
  <2> QED
    BY <2>2, <2>3
<1>2. ASSUME NEW p, NEW prio, NEW v, r = <<"parents", p, prio, v>> PROVE Order(en, lv, r) = Order(en2, lv2, r)
  <2>1. ParentsOf(en, p, prio, v) = ParentsOf(en2, p, prio, v)
    BY <1>2, ParentsListed, ListedIsRange
  <2> QED
    BY <1>2, <2>1, OrderParents
<1>3. ASSUME NEW p, NEW prio, NEW v, NEW q, r = <<"child", p, prio, v, q>> PROVE Order(en, lv, r) = Order(en2, lv2, r)
  <2>1. Children(en, p, prio, v, q) = Children(en2, p, prio, v, q)
    BY <1>3, ChildrenListed, ListedIsRange
  <2>2. CASE Children(en, p, prio, v, q) = {}
    <3>1. Len(Order(en, lv, r)) = 0 /\ Len(Order(en2, lv2, r)) = 0
      <4>1. Cardinality(Children(en, p, prio, v, q)) = 0 /\ Cardinality(Children(en2, p, prio, v, q)) = 0
        BY <2>1, <2>2, FS_EmptySet
      <4> QED
        BY <1>3, <4>1, ChildrenListed
    <3>2. Enumerates(Order(en, lv, r), {}) /\ Enumerates(Order(en2, lv2, r), {})
      BY <1>3, <2>1, <2>2, ChildrenListed
    <3> QED
      BY <3>1, <3>2, NoneListed
  <2>3. CASE Children(en, p, prio, v, q) # {}
    <3>1. /\ q \in ParentsOf(en, p, prio, v) /\ q \in ParentsOf(en2, p, prio, v)
          /\ ChildrenOf(en, p, prio, v, q) = ChildrenOf(en2, p, prio, v, q)
      BY <2>1, <2>3 DEF Children
    <3> QED
      BY <1>3, <3>1, OrderChild
  <2> QED
    BY <2>2, <2>3
<1>4. ASSUME NEW l \in Lists, r = <<"slots", l>> PROVE Order(en, lv, r) = Order(en2, lv2, r)
  <2>1. SlotSet(en, l, lv[l]) = SlotSet(en2, l, lv2[l])
    BY <1>4, SlotRingListed, ListedIsRange
  <2>2. SlotsOf(en, l, lv[l]) = SlotsOf(en2, l, lv2[l])
    BY <2>1, SlotsSame
  <2> QED
    BY <1>4, <2>2, OrderSlots
<1> QED
  BY <1>1, <1>2, <1>3, <1>4, RingKinds

------------------------------------------------------------------------------
(* Cursors.                                                                 *)

Cursor == [flat: Nat, parent: Nat, child: [Parents -> Nat]]
Shards == [Providers -> [Priorities -> [Views -> Cursor]]]

\* CursorOK, of any entries.
Inside(en, c, p, prio, v) ==
  /\ c.flat \in 0..Cardinality(Ready(en, p, prio, v))
  /\ c.parent \in 0..Cardinality(ParentsOf(en, p, prio, v))
  /\ \A q \in Parents : c.child[q] \in 0..Cardinality(ChildrenOf(en, p, prio, v, q))

\* The cursors of all views lie within them.
CursorsIn(en, cs) ==
  /\ cs \in Shards
  /\ \A p \in Providers, prio \in Priorities, v \in Views : Inside(en, cs[p][prio][v], p, prio, v)

\* A provider's views hold the same credentials, under the same parents.
SameViews(en, en2, p) ==
  \A prio, v : /\ Ready(en2, p, prio, v) = Ready(en, p, prio, v)
               /\ ParentsOf(en2, p, prio, v) = ParentsOf(en, p, prio, v)
               /\ \A q : ChildrenOf(en2, p, prio, v, q) = ChildrenOf(en, p, prio, v, q)

\* What is not ready does not matter to the views.
LEMMA ViewsKept ==
  ASSUME NEW en, NEW en2, NEW p,
         \A a \in Auths : ProviderOf[a] = p =>
           en2[a] = en[a] \/ (en[a].state # "ready" /\ en2[a].state # "ready")
  PROVE  SameViews(en, en2, p)
<1>1. ASSUME NEW prio, NEW v
      PROVE  /\ Ready(en2, p, prio, v) = Ready(en, p, prio, v)
             /\ ParentsOf(en2, p, prio, v) = ParentsOf(en, p, prio, v)
             /\ \A q : ChildrenOf(en2, p, prio, v, q) = ChildrenOf(en, p, prio, v, q)
  <2>1. Ready(en2, p, prio, v) = Ready(en, p, prio, v)
    BY DEF Ready
  <2>2. \A a \in Ready(en, p, prio, v) : en2[a].parent = en[a].parent
    BY DEF Ready
  <2>3. {en2[a].parent : a \in Ready(en2, p, prio, v)} = {en[a].parent : a \in Ready(en, p, prio, v)}
    BY <2>1, <2>2
  <2>4. ParentsOf(en2, p, prio, v) = ParentsOf(en, p, prio, v)
    BY <2>3 DEF ParentsOf
  <2>5. \A q : ChildrenOf(en2, p, prio, v, q) = ChildrenOf(en, p, prio, v, q)
    BY <2>1, <2>2 DEF ChildrenOf
  <2> QED
    BY <2>1, <2>4, <2>5
<1> QED
  BY <1>1 DEF SameViews

\* normalizeCursor returns a place of the view; a second time it changes nothing.
LEMMA Normal ==
  ASSUME NEW c \in Nat, NEW n \in Nat
  PROVE  /\ NormalizeCursor(c, n) \in 0..n
         /\ NormalizeCursor(c, n) \in Nat
         /\ n # 0 => NormalizeCursor(c, n) \in 0..n-1 /\ NormalizeCursor(c, n) = c % n
         /\ NormalizeCursor(NormalizeCursor(c, n), n) = NormalizeCursor(c, n)
<1>1. CASE n = 0
  BY <1>1 DEF NormalizeCursor
<1>2. CASE n # 0
  <2>1. n \in Nat \ {0} /\ c \in Int /\ ~(n <= 0)
    BY <1>2
  <2>2. c % n \in 0..n-1
    BY <2>1, ModRange, Zenon
  <2>3. PICK m \in 0..n-1 : m = c % n
    BY <2>2
  <2>4. m % n = m
    BY <2>1, ModSmall, Zenon
  <2>5. NormalizeCursor(c, n) = m /\ NormalizeCursor(m, n) = m
    BY <2>1, <2>3, <2>4 DEF NormalizeCursor
  <2> QED
    BY <2>1, <2>3, <2>5
<1> QED
  BY <1>1, <1>2

\* Cursors of new shards are within their views.
LEMMA FreshIn ==
  ASSUME NEW en \in Entered
  PROVE  CursorsIn(en, [p \in Providers |-> NewShard])
<1>1. NoCursors \in Cursor /\ NoCursors.flat = 0 /\ NoCursors.parent = 0 /\ \A q \in Parents : NoCursors.child[q] = 0
  BY DEF NoCursors, Cursor
<1>2. \A p, prio, v : Inside(en, NoCursors, p, prio, v)
  <2>1. ASSUME NEW p, NEW prio, NEW v PROVE Inside(en, NoCursors, p, prio, v)
    <3>1. /\ Cardinality(Ready(en, p, prio, v)) \in Nat
          /\ Cardinality(ParentsOf(en, p, prio, v)) \in Nat
          /\ \A q : Cardinality(ChildrenOf(en, p, prio, v, q)) \in Nat
      BY ReadyFinite, ParentsFinite, ChildrenFinite
    <3> QED
      BY <1>1, <3>1 DEF Inside
  <2> QED
    BY <2>1
<1>3. [p \in Providers |-> NewShard] \in Shards
  BY <1>1 DEF Shards, NewShard
<1>4. \A p \in Providers, prio \in Priorities, v \in Views :
        [x \in Providers |-> NewShard][p][prio][v] = NoCursors
  BY DEF NewShard
<1> QED
  BY <1>2, <1>3, <1>4 DEF CursorsIn

\* Restored ones are, whatever the cursors were.
LEMMA RestoredIn ==
  ASSUME NEW en \in Entered, NEW c \in Cursor, NEW p, NEW prio, NEW v
  PROVE  Restored(c, en, p, prio, v) \in Cursor /\ Inside(en, Restored(c, en, p, prio, v), p, prio, v)
<1>1. /\ Cardinality(Ready(en, p, prio, v)) \in Nat
      /\ Cardinality(ParentsOf(en, p, prio, v)) \in Nat
      /\ \A q : Cardinality(ChildrenOf(en, p, prio, v, q)) \in Nat
  BY ReadyFinite, ParentsFinite, ChildrenFinite
<1>2. c.flat \in Nat /\ c.parent \in Nat /\ \A q \in Parents : c.child[q] \in Nat
  BY DEF Cursor
<1>3. PICK f \in Nat : f = NormalizeCursor(c.flat, Cardinality(Ready(en, p, prio, v)))
                       /\ f \in 0..Cardinality(Ready(en, p, prio, v))
  BY <1>1, <1>2, Normal
<1>4. PICK g \in Nat : g = NormalizeCursor(c.parent, Cardinality(ParentsOf(en, p, prio, v)))
                       /\ g \in 0..Cardinality(ParentsOf(en, p, prio, v))
  BY <1>1, <1>2, Normal
<1> DEFINE ch == [q \in Parents |-> IF q \in ParentsOf(en, p, prio, v)
                    THEN NormalizeCursor(c.child[q], Cardinality(ChildrenOf(en, p, prio, v, q))) ELSE 0]
<1>5. \A q \in Parents : ch[q] \in 0..Cardinality(ChildrenOf(en, p, prio, v, q)) /\ ch[q] \in Nat
  <2>1. ASSUME NEW q \in Parents
        PROVE  ch[q] \in 0..Cardinality(ChildrenOf(en, p, prio, v, q)) /\ ch[q] \in Nat
    <3>1. /\ NormalizeCursor(c.child[q], Cardinality(ChildrenOf(en, p, prio, v, q))) \in
               0..Cardinality(ChildrenOf(en, p, prio, v, q))
          /\ NormalizeCursor(c.child[q], Cardinality(ChildrenOf(en, p, prio, v, q))) \in Nat
      BY <1>1, <1>2, Normal
    <3> QED
      BY <1>1, <3>1
  <2> HIDE DEF ch
  <2> QED
    BY <2>1
<1>6. ch \in [Parents -> Nat]
  <2>1. ch = [q \in Parents |-> ch[q]]
    OBVIOUS
  <2> HIDE DEF ch
  <2> QED
    BY <1>5, <2>1
<1>7. Restored(c, en, p, prio, v) = [flat |-> f, parent |-> g, child |-> ch]
  BY <1>3, <1>4 DEF Restored
<1> HIDE DEF ch
<1>8. Restored(c, en, p, prio, v) \in Cursor
  BY <1>6, <1>7 DEF Cursor
<1> QED
  BY <1>3, <1>4, <1>5, <1>7, <1>8 DEF Inside

\* After a rebuild of the indexes of ps all are, if the views of the others are as they were.
LEMMA RebuiltIn ==
  ASSUME NEW en \in Entered, NEW en2 \in Entered, NEW cs, CursorsIn(en, cs), NEW ps,
         \A p \in Providers \ ps : SameViews(en, en2, p)
  PROVE  CursorsIn(en2, Rebuilt(cs, ps, en, en2))
<1> DEFINE rs == Rebuilt(cs, ps, en, en2)
<1>1. \A p \in Providers, prio \in Priorities, v \in Views : cs[p][prio][v] \in Cursor
  BY DEF CursorsIn, Shards
<1>2. NoCursors \in Cursor
  BY DEF NoCursors, Cursor
<1>3. \A p, prio, v : Inside(en2, NoCursors, p, prio, v)
  <2>1. ASSUME NEW p, NEW prio, NEW v PROVE Inside(en2, NoCursors, p, prio, v)
    <3>1. /\ Cardinality(Ready(en2, p, prio, v)) \in Nat
          /\ Cardinality(ParentsOf(en2, p, prio, v)) \in Nat
          /\ \A q : Cardinality(ChildrenOf(en2, p, prio, v, q)) \in Nat
      BY ReadyFinite, ParentsFinite, ChildrenFinite
    <3> QED
      BY <3>1 DEF Inside, NoCursors
  <2> QED
    BY <2>1
<1>4. \A p \in Providers \ ps : rs[p] = cs[p]
  BY DEF Rebuilt
<1>5. \A p \in Providers \cap ps, prio \in Priorities, v \in Views :
        rs[p][prio][v] = IF Ready(en, p, prio, "all") = {} THEN NoCursors
                         ELSE Restored(cs[p][prio][v], en2, p, prio, v)
  BY DEF Rebuilt
<1>6. \A p \in Providers \cap ps, prio \in Priorities, v \in Views :
        rs[p][prio][v] \in Cursor /\ Inside(en2, rs[p][prio][v], p, prio, v)
  <2> HIDE DEF rs
  <2>1. ASSUME NEW p \in Providers \cap ps, NEW prio \in Priorities, NEW v \in Views
        PROVE  rs[p][prio][v] \in Cursor /\ Inside(en2, rs[p][prio][v], p, prio, v)
    <3>1. CASE Ready(en, p, prio, "all") = {}
      BY <1>2, <1>3, <1>5, <3>1
    <3>2. CASE Ready(en, p, prio, "all") # {}
      <4>1. cs[p][prio][v] \in Cursor
        BY <1>1
      <4>2. rs[p][prio][v] = Restored(cs[p][prio][v], en2, p, prio, v)
        BY <1>5, <3>2
      <4> QED
        BY <4>1, <4>2, RestoredIn
    <3> QED
      BY <3>1, <3>2
  <2> QED
    BY <2>1
<1>7. rs \in Shards
  <2>1. \A p \in Providers \cap ps : rs[p] \in [Priorities -> [Views -> Cursor]]
    <3>1. ASSUME NEW p \in Providers \cap ps PROVE rs[p] \in [Priorities -> [Views -> Cursor]]
      <4>1. rs[p] = [prio \in Priorities |-> [v \in Views |-> rs[p][prio][v]]]
        BY DEF Rebuilt
      <4> HIDE DEF rs
      <4> QED
        BY <1>6, <4>1
    <3> QED
      BY <3>1
  <2>2. \A p \in Providers \ ps : rs[p] \in [Priorities -> [Views -> Cursor]]
    <3>1. \A p \in Providers : cs[p] \in [Priorities -> [Views -> Cursor]]
      BY DEF CursorsIn, Shards
    <3> HIDE DEF rs
    <3> QED
      BY <1>4, <3>1
  <2>3. rs = [p \in Providers |-> rs[p]]
    BY DEF Rebuilt
  <2> HIDE DEF rs
  <2>4. \A p \in Providers : rs[p] \in [Priorities -> [Views -> Cursor]]
    BY <2>1, <2>2
  <2> QED
    BY <2>3, <2>4 DEF Shards
<1>8. \A p \in Providers \ ps, prio \in Priorities, v \in Views : Inside(en2, rs[p][prio][v], p, prio, v)
  <2> HIDE DEF rs
  <2>1. ASSUME NEW p \in Providers \ ps, NEW prio \in Priorities, NEW v \in Views
        PROVE  Inside(en2, rs[p][prio][v], p, prio, v)
    <3>1. SameViews(en, en2, p) /\ rs[p] = cs[p] /\ Inside(en, cs[p][prio][v], p, prio, v)
      BY <1>4 DEF CursorsIn
    <3> QED
      BY <3>1 DEF SameViews, Inside
  <2> QED
    BY <2>1
<1> HIDE DEF rs
<1>9. CursorsIn(en2, rs)
  BY <1>6, <1>7, <1>8 DEF CursorsIn
<1> QED
  BY <1>9 DEF rs

\* Who is in a view is in the view of all.
LEMMA ReadyThere ==
  ASSUME NEW en, NEW p, NEW prio, NEW v, Ready(en, p, prio, v) # {}
  PROVE  p \in Providers /\ Ready(en, p, prio, "all") # {}
<1>1. PICK a \in Auths : a \in Ready(en, p, prio, v)
  BY DEF Ready
<1>2. ProviderOf[a] = p /\ a \in Ready(en, p, prio, "all")
  BY <1>1 DEF Ready
<1> QED
  BY <1>2 DEF Providers

\* An empty view has no parents.
LEMMA NoParents ==
  ASSUME NEW en \in Entered, NEW p, NEW prio, NEW v, Ready(en, p, prio, v) = {}
  PROVE  ParentsOf(en, p, prio, v) = {}
  BY ParentsFinite

\* The cursor of view <<p, prio, v>> when indexes are rebuilt.
LEMMA RebuiltAt ==
  ASSUME NEW cs, NEW ps, NEW en, NEW en2, NEW p \in Providers, NEW prio \in Priorities, NEW v \in Views
  PROVE  /\ p \notin ps => Rebuilt(cs, ps, en, en2)[p][prio][v] = cs[p][prio][v]
         /\ p \in ps /\ Ready(en, p, prio, "all") # {} =>
              Rebuilt(cs, ps, en, en2)[p][prio][v] = Restored(cs[p][prio][v], en2, p, prio, v)
  BY DEF Rebuilt

\* Restoring normalises each cursor by the length of its own list.
LEMMA RestoredFields ==
  ASSUME NEW c, NEW en, NEW p, NEW prio, NEW v
  PROVE  /\ Restored(c, en, p, prio, v).flat = NormalizeCursor(c.flat, Cardinality(Ready(en, p, prio, v)))
         /\ Restored(c, en, p, prio, v).parent = NormalizeCursor(c.parent, Cardinality(ParentsOf(en, p, prio, v)))
         /\ \A q \in Parents : q \in ParentsOf(en, p, prio, v) => Restored(c, en, p, prio, v).child[q] =
                 NormalizeCursor(c.child[q], Cardinality(ChildrenOf(en, p, prio, v, q)))
  BY DEF Restored

\* Where nobody is listed, all cursors are alike.
LEMMA NormalOfNone ==
  ASSUME NEW c, NEW d
  PROVE  NormalizeCursor(c, 0) = NormalizeCursor(d, 0)
  BY DEF NormalizeCursor

\* A flat ring belongs to a priority and a view.
LEMMA AskedView ==
  ASSUME NEW p, NEW prio, NEW v, Asked(p, prio, v)
  PROVE  prio \in Priorities /\ v \in Views
  BY DEF Asked, Views

\* Where a ring stands does not change when indexes are rebuilt, unless its order does.
LEMMA PlaceKept ==
  ASSUME NEW en \in Entered, NEW en2 \in Entered, NEW cs, CursorsIn(en, cs), NEW ps,
         NEW lv, NEW lv2, NEW mx, NEW r \in Rings,
         Order(en2, lv2, r) = Order(en, lv, r)
  PROVE  NormalizeCursor(CursorOf(Rebuilt(cs, ps, en, en2), mx, r), Len(Order(en, lv, r))) =
           NormalizeCursor(CursorOf(cs, mx, r), Len(Order(en, lv, r)))
<1> DEFINE rs == Rebuilt(cs, ps, en, en2)
           n == Len(Order(en, lv, r))
           Goal == NormalizeCursor(CursorOf(rs, mx, r), n) = NormalizeCursor(CursorOf(cs, mx, r), n)
<1>0. n = 0 => Goal
  BY NormalOfNone
<1>1. \A p \in Providers, prio \in Priorities, v \in Views : cs[p][prio][v] \in Cursor
  BY DEF CursorsIn, Shards
<1>2. ASSUME NEW p, NEW prio, NEW v, Asked(p, prio, v), r = <<"flat", p, prio, v>>, n # 0 PROVE Goal
  <2>1. n = Cardinality(Flat(en, p, prio, v)) /\ n = Cardinality(Flat(en2, p, prio, v))
    BY <1>2, FlatListed
  <2>2. Flat(en, p, prio, v) # {} /\ Flat(en2, p, prio, v) # {}
    BY <1>2, <2>1, FS_EmptySet
  <2>3. Flat(en, p, prio, v) = Ready(en, p, prio, v) /\ Flat(en2, p, prio, v) = Ready(en2, p, prio, v)
    BY <2>2 DEF Flat
  <2>4. p \in Providers /\ prio \in Priorities /\ v \in Views /\ Ready(en, p, prio, "all") # {}
    BY <1>2, <2>2, <2>3, ReadyThere, AskedView
  <2>5. CursorOf(rs, mx, r) = rs[p][prio][v].flat /\ CursorOf(cs, mx, r) = cs[p][prio][v].flat
    BY <1>2 DEF CursorOf
  <2>6. CASE p \notin ps
    BY <2>4, <2>5, <2>6, RebuiltAt
  <2>7. CASE p \in ps
    <3>1. rs[p][prio][v] = Restored(cs[p][prio][v], en2, p, prio, v)
      BY <2>4, <2>7, RebuiltAt
    <3>2. rs[p][prio][v].flat = NormalizeCursor(cs[p][prio][v].flat, n)
      BY <2>1, <2>3, <3>1, RestoredFields
    <3>3. cs[p][prio][v].flat \in Nat /\ n \in Nat
      BY <1>1, <2>1, <2>3, <2>4, ReadyFinite DEF Cursor
    <3> HIDE DEF rs, n
    <3>4. NormalizeCursor(NormalizeCursor(cs[p][prio][v].flat, n), n) = NormalizeCursor(cs[p][prio][v].flat, n)
      BY <3>3, Normal
    <3> QED
      BY <2>5, <3>2, <3>4
  <2> QED
    BY <2>6, <2>7
<1>3. ASSUME NEW p \in Providers, NEW prio \in Priorities, r = <<"parents", p, prio, "all">>, n # 0 PROVE Goal
  <2> DEFINE v == "all"
  <2>1. n = Cardinality(ParentsOf(en, p, prio, v)) /\ n = Cardinality(ParentsOf(en2, p, prio, v))
    BY <1>3, ParentsListed
  <2>2. ParentsOf(en, p, prio, v) # {}
    BY <1>3, <2>1, FS_EmptySet
  <2>4. v \in Views /\ Ready(en, p, prio, "all") # {}
    BY <2>2, NoParents DEF Views
  <2>5. CursorOf(rs, mx, r) = rs[p][prio][v].parent /\ CursorOf(cs, mx, r) = cs[p][prio][v].parent
    BY <1>3 DEF CursorOf
  <2>6. CASE p \notin ps
    BY <2>4, <2>5, <2>6, RebuiltAt
  <2>7. CASE p \in ps
    <3>1. rs[p][prio][v] = Restored(cs[p][prio][v], en2, p, prio, v)
      BY <2>4, <2>7, RebuiltAt
    <3>2. rs[p][prio][v].parent = NormalizeCursor(cs[p][prio][v].parent, n)
      BY <2>1, <3>1, RestoredFields
    <3>3. cs[p][prio][v].parent \in Nat /\ n \in Nat
      BY <1>1, <2>1, <2>4, ParentsFinite DEF Cursor
    <3> HIDE DEF rs, n
    <3>4. NormalizeCursor(NormalizeCursor(cs[p][prio][v].parent, n), n) = NormalizeCursor(cs[p][prio][v].parent, n)
      BY <3>3, Normal
    <3> QED
      BY <2>5, <3>2, <3>4
  <2> QED
    BY <2>6, <2>7
<1>4. ASSUME NEW p \in Providers, NEW prio \in Priorities, NEW q \in Parents,
             r = <<"child", p, prio, "all", q>>, n # 0
      PROVE  Goal
  <2> DEFINE v == "all"
  <2>1. n = Cardinality(Children(en, p, prio, v, q)) /\ n = Cardinality(Children(en2, p, prio, v, q))
    BY <1>4, ChildrenListed
  <2>2. Children(en, p, prio, v, q) # {} /\ Children(en2, p, prio, v, q) # {}
    BY <1>4, <2>1, FS_EmptySet
  <2>3. /\ Children(en2, p, prio, v, q) = ChildrenOf(en2, p, prio, v, q)
        /\ q \in ParentsOf(en2, p, prio, v) /\ q \in ParentsOf(en, p, prio, v)
    BY <2>2 DEF Children
  <2>4. v \in Views /\ Ready(en, p, prio, "all") # {}
    BY <2>3, NoParents DEF Views
  <2>5. CursorOf(rs, mx, r) = rs[p][prio][v].child[q] /\ CursorOf(cs, mx, r) = cs[p][prio][v].child[q]
    BY <1>4 DEF CursorOf
  <2>6. CASE p \notin ps
    BY <2>4, <2>5, <2>6, RebuiltAt
  <2>7. CASE p \in ps
    <3>1. rs[p][prio][v] = Restored(cs[p][prio][v], en2, p, prio, v)
      BY <2>4, <2>7, RebuiltAt
    <3>2. rs[p][prio][v].child[q] = NormalizeCursor(cs[p][prio][v].child[q], n)
      BY <2>1, <2>3, <3>1, RestoredFields
    <3>3. cs[p][prio][v].child[q] \in Nat /\ n \in Nat
      BY <1>1, <2>1, <2>3, <2>4, ChildrenFinite DEF Cursor
    <3> HIDE DEF rs, n
    <3>4. NormalizeCursor(NormalizeCursor(cs[p][prio][v].child[q], n), n) = NormalizeCursor(cs[p][prio][v].child[q], n)
      BY <3>3, Normal
    <3> QED
      BY <2>5, <3>2, <3>4
  <2> QED
    BY <2>6, <2>7
<1>5. ASSUME NEW l \in Lists, r = <<"slots", l>> PROVE Goal
  <2>1. CursorOf(rs, mx, r) = mx[l] /\ CursorOf(cs, mx, r) = mx[l]
    BY <1>5 DEF CursorOf
  <2> QED
    BY <2>1
<1> HIDE DEF Goal
<1>6. Goal
  BY <1>0, <1>2, <1>3, <1>4, <1>5, RingKinds
<1> QED
  BY <1>6 DEF Goal

------------------------------------------------------------------------------
(* Picks from one view.                                                     *)

\* A turn of the ring q, its cursor at c1 before and c2 after: x is served among able.
Serves(q, c1, c2, x, able) ==
  /\ Len(q) # 0 /\ able \subseteq Range(q)
  /\ \E i \in 0..Len(q)-1 : First(q, c1 % Len(q), i, able) /\ x = q[i + 1] /\ c2 = i + 1

\* The same cursor, in a ring as long as q.
Stands(q, c1, c2) == NormalizeCursor(c2, Len(q)) = NormalizeCursor(c1, Len(q))

\* What the turns of a step mean to ring r.
RingStep(q, c1, c2, turns, r) ==
  \/ (\A t \in turns : t[1] # r) /\ Stands(q, c1, c2)
  \/ \E x, able : {t \in turns : t[1] = r} = {<<r, x, able>>} /\ Serves(q, c1, c2, x, able)

\* What NextIndex gives in a view's order.
LEMMA NextIn ==
  ASSUME NEW S, NEW q, Enumerates(q, S), Len(q) \in Nat, NEW c \in Nat, NEW able, S \cap able # {}
  PROVE  /\ Len(q) # 0
         /\ NextIndex(q, c, able) \in 0..Len(q)-1
         /\ q[NextIndex(q, c, able) + 1] \in S \cap able
         /\ Serves(q, c, NextIndex(q, c, able) + 1, q[NextIndex(q, c, able) + 1], S \cap able)
<1>1. PICK n \in Nat : n = Len(q)
  OBVIOUS
<1>2. PICK m \in S \cap able : TRUE
  OBVIOUS
<1>3. PICK x \in 0..n-1 : q[x + 1] = m
  <2>1. \A e \in S : \E x \in 0..n-1 : q[x + 1] = e
    BY <1>1, Places
  <2> QED
    BY <1>2, <2>1
<1>4. n \in Nat \ {0} /\ x + 1 \in 1..n
  BY <1>3
<1>5. First(q, c % n, NextIndex(q, c, able), able)
  <2>1. \E k \in 1..n : q[k] \in able
    BY <1>2, <1>3, <1>4
  <2> QED
    BY <1>1, <1>4, <2>1, NextFound
<1>6. PICK i : i = NextIndex(q, c, able)
  OBVIOUS
<1>7. /\ i \in 0..n-1 /\ q[i + 1] \in able
      /\ \A z \in 0..n-1 : Ahead(n, c % n, z) < Ahead(n, c % n, i) => q[z + 1] \notin able
  BY <1>1, <1>5, <1>6 DEF First
<1>8. q[i + 1] \in S
  <2>1. \A z \in 0..n-1 : q[z + 1] \in S
    BY <1>1, Places
  <2> QED
    BY <1>7, <2>1
<1>9. First(q, c % Len(q), i, S \cap able)
  BY <1>1, <1>7, <1>8 DEF First
<1>10. Range(q) = S
  BY ListedIsRange
<1>11. Serves(q, c, i + 1, q[i + 1], S \cap able)
  BY <1>1, <1>4, <1>7, <1>9, <1>10 DEF Serves
<1> QED
  BY <1>1, <1>4, <1>6, <1>7, <1>8, <1>11

\* A pick among credentials all at one level, or each under a parent.
FlatPicked(en, c, p, prio, v, able, pick) ==
  \E i \in Nat, x \in Ready(en, p, prio, v) \cap able :
    /\ pick = [got |-> x, cur |-> [c EXCEPT !.flat = i + 1],
               turns |-> {<<<<"flat", p, prio, v>>, x, able \cap Ready(en, p, prio, v)>>}]
    /\ i + 1 \in 0..Cardinality(Ready(en, p, prio, v))
    /\ Serves(InOrder(Ready(en, p, prio, v)), c.flat, i + 1, x, able \cap Ready(en, p, prio, v))

GroupPicked(en, c, p, prio, v, able, pick) ==
  \E i \in Nat, j \in Nat, q \in ParentsOf(en, p, prio, v), x \in Ready(en, p, prio, v) \cap able :
  \E ableParents :
    /\ pick = [got |-> x, cur |-> Advanced(c, q, i, j),
               turns |-> {<<<<"parents", p, prio, v>>, q, ableParents>>,
                          <<<<"child", p, prio, v, q>>, x, able \cap ChildrenOf(en, p, prio, v, q)>>}]
    /\ i + 1 \in 0..Cardinality(ParentsOf(en, p, prio, v))
    /\ j + 1 \in 0..Cardinality(ChildrenOf(en, p, prio, v, q))
    /\ Serves(InOrder(ParentsOf(en, p, prio, v)), c.parent, i + 1, q, ableParents)
    /\ Serves(InOrder(ChildrenOf(en, p, prio, v, q)), c.child[q], j + 1, x, able \cap ChildrenOf(en, p, prio, v, q))

\* pickRoundRobin serves the next of a flat view.
LEMMA PickedFlat ==
  ASSUME NEW en \in Entered, NEW c \in Cursor, NEW p, NEW prio, NEW v, NEW able,
         Ready(en, p, prio, v) \cap able # {}, ParentsOf(en, p, prio, v) = {}
  PROVE  FlatPicked(en, c, p, prio, v, able, PickRoundRobin(en, c, p, prio, v, able))
<1>1. PICK S : S = Ready(en, p, prio, v)
  OBVIOUS
<1>2. Enumerates(InOrder(S), S) /\ Len(InOrder(S)) = Cardinality(S) /\ Cardinality(S) \in Nat
  BY <1>1, ReadyFinite, Ordered
<1>3. PICK k \in Nat : k = c.flat
  BY DEF Cursor
<1>4. PICK q : q = InOrder(S)
  OBVIOUS
<1>5. PICK i : i = NextIndex(q, c.flat, able)
  OBVIOUS
<1>6. /\ i \in 0..Len(q)-1 /\ Len(q) = Cardinality(S)
      /\ q[i + 1] \in S \cap able
      /\ Serves(q, c.flat, i + 1, q[i + 1], S \cap able)
  <2>1. i = NextIndex(q, k, able) /\ S \cap able # {} /\ Enumerates(q, S) /\ Len(q) = Cardinality(S)
        /\ Len(q) \in Nat
    BY <1>1, <1>2, <1>3, <1>4, <1>5
  <2>2. NextIndex(q, k, able) \in 0..Len(q)-1 /\ q[NextIndex(q, k, able) + 1] \in S \cap able
    BY <2>1, NextIn
  <2>3. Serves(q, k, NextIndex(q, k, able) + 1, q[NextIndex(q, k, able) + 1], S \cap able)
    BY <2>1, NextIn
  <2> QED
    BY <1>3, <2>1, <2>2, <2>3
<1>7. i \in Nat /\ i + 1 \in 0..Cardinality(S)
  BY <1>2, <1>6
<1>8. PickRoundRobin(en, c, p, prio, v, able) =
        [got |-> q[i + 1], cur |-> [c EXCEPT !.flat = i + 1],
         turns |-> {<<<<"flat", p, prio, v>>, q[i + 1], able \cap S>>}]
  BY <1>1, <1>4, <1>5 DEF PickRoundRobin
<1>9. S \cap able = able \cap S
  OBVIOUS
<1> QED
  BY <1>1, <1>4, <1>6, <1>7, <1>8, <1>9 DEF FlatPicked

\* pickGroupedRoundRobin serves the next parent, and the next of its children.
LEMMA PickedGroup ==
  ASSUME NEW en \in Entered, NEW c \in Cursor, NEW p, NEW prio, NEW v, NEW able,
         Ready(en, p, prio, v) \cap able # {}, ParentsOf(en, p, prio, v) # {}
  PROVE  GroupPicked(en, c, p, prio, v, able, PickRoundRobin(en, c, p, prio, v, able))
<1>1. PICK S : S = ParentsOf(en, p, prio, v)
  OBVIOUS
<1>2. Enumerates(InOrder(S), S) /\ Len(InOrder(S)) = Cardinality(S) /\ Cardinality(S) \in Nat
  BY <1>1, ParentsFinite, Ordered
<1>3. c.parent \in Nat /\ \A q \in Parents : c.child[q] \in Nat
  BY DEF Cursor
<1>4. PICK A : A = {q \in S : ChildrenOf(en, p, prio, v, q) \cap able # {}}
  OBVIOUS
<1>5. S \cap A # {} /\ S \cap A = A
  <2>1. PICK a \in Ready(en, p, prio, v) : a \in able
    OBVIOUS
  <2>2. en[a].parent \in S
    BY <1>1, ParentsFinite
  <2>3. a \in ChildrenOf(en, p, prio, v, en[a].parent)
    BY DEF ChildrenOf
  <2> QED
    BY <1>4, <2>1, <2>2, <2>3
<1>6. PICK o : o = InOrder(S)
  OBVIOUS
<1>7. PICK i : i = NextIndex(o, c.parent, A)
  OBVIOUS
<1>8. /\ i \in 0..Len(o)-1 /\ Len(o) = Cardinality(S)
      /\ o[i + 1] \in A
      /\ Serves(o, c.parent, i + 1, o[i + 1], A)
  <2>0. PICK k \in Nat : k = c.parent
    BY <1>3
  <2>1. i = NextIndex(o, k, A) /\ S \cap A # {} /\ S \cap A = A /\ Enumerates(o, S) /\ Len(o) = Cardinality(S)
        /\ Len(o) \in Nat
    BY <1>2, <1>5, <1>6, <1>7, <2>0
  <2>2. NextIndex(o, k, A) \in 0..Len(o)-1 /\ o[NextIndex(o, k, A) + 1] \in S \cap A
    BY <2>1, NextIn
  <2>3. Serves(o, k, NextIndex(o, k, A) + 1, o[NextIndex(o, k, A) + 1], S \cap A)
    BY <2>1, NextIn
  <2> QED
    BY <2>0, <2>1, <2>2, <2>3
<1>9. i \in Nat /\ i + 1 \in 0..Cardinality(S)
  BY <1>2, <1>8
<1>10. PICK q \in S : q = o[i + 1] /\ ChildrenOf(en, p, prio, v, q) \cap able # {} /\ q \in Parents
  BY <1>1, <1>4, <1>8, ParentsFinite
<1>11. PICK T : T = ChildrenOf(en, p, prio, v, q)
  OBVIOUS
<1>12. Enumerates(InOrder(T), T) /\ Len(InOrder(T)) = Cardinality(T) /\ Cardinality(T) \in Nat
  BY <1>11, ChildrenFinite, Ordered
<1>13. PICK u : u = InOrder(T)
  OBVIOUS
<1>14. PICK j : j = NextIndex(u, c.child[q], able)
  OBVIOUS
<1>15. /\ j \in 0..Len(u)-1 /\ Len(u) = Cardinality(T)
       /\ u[j + 1] \in T \cap able
       /\ Serves(u, c.child[q], j + 1, u[j + 1], T \cap able)
  <2>0. PICK k \in Nat : k = c.child[q]
    BY <1>3, <1>10
  <2>1. j = NextIndex(u, k, able) /\ T \cap able # {} /\ Enumerates(u, T) /\ Len(u) = Cardinality(T)
        /\ Len(u) \in Nat
    BY <1>10, <1>11, <1>12, <1>13, <1>14, <2>0
  <2>2. NextIndex(u, k, able) \in 0..Len(u)-1 /\ u[NextIndex(u, k, able) + 1] \in T \cap able
    BY <2>1, NextIn
  <2>3. Serves(u, k, NextIndex(u, k, able) + 1, u[NextIndex(u, k, able) + 1], T \cap able)
    BY <2>1, NextIn
  <2> QED
    BY <2>0, <2>1, <2>2, <2>3
<1>16. j \in Nat /\ j + 1 \in 0..Cardinality(T)
  BY <1>12, <1>15
<1>17. PickRoundRobin(en, c, p, prio, v, able) =
        [got |-> u[j + 1], cur |-> Advanced(c, q, i, j),
         turns |-> {<<<<"parents", p, prio, v>>, q, A>>,
                    <<<<"child", p, prio, v, q>>, u[j + 1], able \cap T>>}]
  BY <1>1, <1>4, <1>6, <1>7, <1>10, <1>11, <1>13, <1>14 DEF PickRoundRobin
<1>18. u[j + 1] \in Ready(en, p, prio, v) \cap able
  BY <1>11, <1>15, ChildrenFinite
<1>19. T \cap able = able \cap T
  OBVIOUS
<1>20. Serves(InOrder(ParentsOf(en, p, prio, v)), c.parent, i + 1, q, A)
  BY <1>1, <1>6, <1>8, <1>10
<1>21. Serves(InOrder(ChildrenOf(en, p, prio, v, q)), c.child[q], j + 1, u[j + 1],
              able \cap ChildrenOf(en, p, prio, v, q))
  BY <1>11, <1>13, <1>15, <1>19
<1> QED
  BY <1>1, <1>9, <1>10, <1>11, <1>16, <1>17, <1>18, <1>20, <1>21 DEF GroupPicked

\* The cursors of one view replaced.
LEMMA OneView ==
  ASSUME NEW cs \in Shards, NEW p \in Providers, NEW prio \in Priorities, NEW v \in Views, NEW cur \in Cursor
  PROVE  /\ [cs EXCEPT ![p][prio][v] = cur] \in Shards
         /\ [cs EXCEPT ![p][prio][v] = cur][p][prio][v] = cur
         /\ \A p2 \in Providers, prio2 \in Priorities, v2 \in Views :
              p2 # p \/ prio2 # prio \/ v2 # v =>
                [cs EXCEPT ![p][prio][v] = cur][p2][prio2][v2] = cs[p2][prio2][v2]
  BY DEF Shards

\* A pick from a flat view moves its cursor and no other.
LEMMA FlatCursor ==
  ASSUME NEW c \in Cursor, NEW k \in Nat
  PROVE  /\ [c EXCEPT !.flat = k] \in Cursor
         /\ [c EXCEPT !.flat = k].flat = k
         /\ [c EXCEPT !.flat = k].parent = c.parent
         /\ [c EXCEPT !.flat = k].child = c.child
  BY DEF Cursor

\* A pick from a grouped view moves the parent's and that of the child.
MovedBoth(c, d, q, i, j) ==
  /\ d \in Cursor /\ d.flat = c.flat /\ d.parent = i + 1 /\ d.child[q] = j + 1
  /\ \A q2 \in Parents : q2 # q => d.child[q2] = c.child[q2]

\* Nothing else of the cursor moves with them.
LEMMA GroupCursor ==
  ASSUME NEW c \in Cursor, NEW q \in Parents, NEW i \in Nat, NEW j \in Nat
  PROVE  MovedBoth(c, Advanced(c, q, i, j), q, i, j)
<1>1. PICK d \in [Parents -> Nat] : d = c.child
  BY DEF Cursor
<1>2. PICK f \in Nat, g \in Nat : c = [flat |-> f, parent |-> g, child |-> d]
  BY <1>1 DEF Cursor
<1>3. PICK k \in Nat, m \in Nat : k = i + 1 /\ m = j + 1
  OBVIOUS
<1> DEFINE r == [[flat |-> f, parent |-> g, child |-> d] EXCEPT !.parent = k, !.child[q] = m]
<1>4. Advanced(c, q, i, j) = r
  BY <1>2, <1>3 DEF Advanced
<1>5. r \in [flat: Nat, parent: Nat, child: [Parents -> Nat]]
  OBVIOUS
<1>6. r.flat = f /\ r.parent = k
  OBVIOUS
<1>7. r.child = [d EXCEPT ![q] = m]
  OBVIOUS
<1> HIDE DEF r
<1>8. r.child[q] = m /\ \A q2 \in Parents : q2 # q => r.child[q2] = d[q2]
  BY <1>7
<1> QED
  BY <1>1, <1>2, <1>3, <1>4, <1>5, <1>6, <1>8 DEF Cursor, MovedBoth

\* A pick from a view: which cursors it moves and what it answers.
Pick(en, cs, p, prio, v, able) == PickRoundRobin(en, cs[p][prio][v], p, prio, v, able)
After(en, cs, p, prio, v, able) == [cs EXCEPT ![p][prio][v] = Pick(en, cs, p, prio, v, able).cur]

\* Who is picked is ready and may be picked, and the cursors stay within their views.
LEMMA PickIn ==
  ASSUME NEW en \in Entered, NEW cs, CursorsIn(en, cs),
         NEW p \in Providers, NEW prio \in Priorities, NEW v \in Views, NEW able,
         Ready(en, p, prio, v) \cap able # {}
  PROVE  /\ Pick(en, cs, p, prio, v, able).got \in Ready(en, p, prio, v) \cap able
         /\ Pick(en, cs, p, prio, v, able).cur \in Cursor
         /\ CursorsIn(en, After(en, cs, p, prio, v, able))
<1>1. PICK c \in Cursor : c = cs[p][prio][v] /\ Inside(en, c, p, prio, v)
  BY DEF CursorsIn, Shards
<1>2. PICK pick : pick = Pick(en, cs, p, prio, v, able)
  OBVIOUS
<1>3. pick = PickRoundRobin(en, c, p, prio, v, able)
  BY <1>1, <1>2 DEF Pick
<1>4. pick.got \in Ready(en, p, prio, v) \cap able /\ pick.cur \in Cursor /\ Inside(en, pick.cur, p, prio, v)
  <2>1. CASE ParentsOf(en, p, prio, v) = {}
    <3>1. PICK i \in Nat, x \in Ready(en, p, prio, v) \cap able :
            /\ pick.got = x /\ pick.cur = [c EXCEPT !.flat = i + 1]
            /\ i + 1 \in 0..Cardinality(Ready(en, p, prio, v))
      <4>1. FlatPicked(en, c, p, prio, v, able, pick)
        BY <1>3, <2>1, PickedFlat
      <4> QED
        BY <4>1 DEF FlatPicked
    <3>2. PICK k \in Nat : k = i + 1
      OBVIOUS
    <3>3. pick.cur \in Cursor /\ pick.cur.flat = k /\ pick.cur.parent = c.parent /\ pick.cur.child = c.child
      BY <3>1, <3>2, FlatCursor
    <3> QED
      BY <1>1, <3>1, <3>2, <3>3 DEF Inside
  <2>2. CASE ParentsOf(en, p, prio, v) # {}
    <3>1. PICK i \in Nat, j \in Nat, q \in ParentsOf(en, p, prio, v), x \in Ready(en, p, prio, v) \cap able :
            /\ pick.got = x /\ pick.cur = Advanced(c, q, i, j)
            /\ i + 1 \in 0..Cardinality(ParentsOf(en, p, prio, v))
            /\ j + 1 \in 0..Cardinality(ChildrenOf(en, p, prio, v, q))
      <4>1. GroupPicked(en, c, p, prio, v, able, pick)
        BY <1>3, <2>2, PickedGroup
      <4> QED
        BY <4>1 DEF GroupPicked
    <3>2. q \in Parents
      BY ParentsFinite
    <3>3. /\ pick.cur \in Cursor /\ pick.cur.flat = c.flat /\ pick.cur.parent = i + 1
          /\ pick.cur.child[q] = j + 1
          /\ \A q2 \in Parents : q2 # q => pick.cur.child[q2] = c.child[q2]
      <4>1. MovedBoth(c, Advanced(c, q, i, j), q, i, j)
        BY <3>2, GroupCursor
      <4> QED
        BY <3>1, <4>1 DEF MovedBoth
    <3>4. \A q2 \in Parents : pick.cur.child[q2] \in 0..Cardinality(ChildrenOf(en, p, prio, v, q2))
      BY <1>1, <3>1, <3>3 DEF Inside
    <3> QED
      BY <1>1, <3>1, <3>3, <3>4 DEF Inside
  <2> QED
    BY <2>1, <2>2
<1>5. PICK cs2 : cs2 = [cs EXCEPT ![p][prio][v] = pick.cur]
  OBVIOUS
<1>6. /\ cs2 \in Shards /\ cs2[p][prio][v] = pick.cur
      /\ \A p2 \in Providers, prio2 \in Priorities, v2 \in Views :
           p2 # p \/ prio2 # prio \/ v2 # v => cs2[p2][prio2][v2] = cs[p2][prio2][v2]
  <2>1. cs \in Shards
    BY DEF CursorsIn
  <2>2. PICK cur \in Cursor : cur = pick.cur
    BY <1>4
  <2>3. cs2 = [cs EXCEPT ![p][prio][v] = cur]
    BY <1>5, <2>2
  <2>4. cs2 \in Shards /\ cs2[p][prio][v] = cur
    <3>1. cs2 \in Shards
      BY <2>1, <2>3, OneView
    <3>2. cs2[p][prio][v] = cur
      BY <2>1, <2>3, OneView
    <3> QED
      BY <3>1, <3>2
  <2>5. \A p2 \in Providers, prio2 \in Priorities, v2 \in Views :
          p2 # p \/ prio2 # prio \/ v2 # v => cs2[p2][prio2][v2] = cs[p2][prio2][v2]
    BY <2>1, <2>3, OneView
  <2> QED
    BY <2>2, <2>4, <2>5
<1>7. \A p2 \in Providers, prio2 \in Priorities, v2 \in Views : Inside(en, cs2[p2][prio2][v2], p2, prio2, v2)
  BY <1>4, <1>6 DEF CursorsIn
<1>8. CursorsIn(en, cs2)
  BY <1>6, <1>7 DEF CursorsIn
<1> QED
  BY <1>2, <1>4, <1>5, <1>8 DEF After

\* An empty ring stands still.
LEMMA NobodyStands ==
  ASSUME NEW q, Len(q) = 0, NEW c1, NEW c2
  PROVE  Stands(q, c1, c2)
  BY NormalOfNone DEF Stands

\* A provider nobody belongs to has empty views.
LEMMA AskedEmpty ==
  ASSUME NEW en \in Entered, NEW lv, NEW p, NEW prio, NEW v, p \notin Providers
  PROVE  Len(Order(en, lv, <<"flat", p, prio, v>>)) = 0
<1>1. Ready(en, p, prio, v) = {}
  BY ReadyThere
<1>2. Flat(en, p, prio, v) = {}
  BY <1>1 DEF Flat
<1>3. Len(Order(en, lv, <<"flat", p, prio, v>>)) = Cardinality({})
  BY <1>2, FlatListed, Zenon
<1>4. Cardinality({}) = 0
  BY FS_EmptySet
<1> QED
  BY <1>3, <1>4, Zenon

\* Every ring but the slots, when one view is picked from: it is served as the
\* turns of the pick say, or stands.
LEMMA PickRings ==
  ASSUME NEW en \in Entered, NEW cs, CursorsIn(en, cs),
         NEW p \in Providers, NEW prio \in Priorities, NEW v \in Views, NEW able,
         Ready(en, p, prio, v) \cap able # {},
         NEW lv, NEW mx, NEW mx2, NEW r \in Rings, r[1] # "slots"
  PROVE  RingStep(Order(en, lv, r), CursorOf(cs, mx, r), CursorOf(After(en, cs, p, prio, v, able), mx2, r),
                  Pick(en, cs, p, prio, v, able).turns, r)
<1>1. PICK c \in Cursor : c = cs[p][prio][v]
  BY DEF CursorsIn, Shards
<1>2. PICK pick : pick = Pick(en, cs, p, prio, v, able)
  OBVIOUS
<1>3. pick = PickRoundRobin(en, c, p, prio, v, able)
  BY <1>1, <1>2 DEF Pick
<1>4. PICK cs2 : cs2 = After(en, cs, p, prio, v, able)
  OBVIOUS
<1>5. pick.cur \in Cursor
  BY <1>2, PickIn
<1>6. /\ cs2[p][prio][v] = pick.cur
      /\ \A p2 \in Providers, prio2 \in Priorities, v2 \in Views :
           p2 # p \/ prio2 # prio \/ v2 # v => cs2[p2][prio2][v2] = cs[p2][prio2][v2]
  <2>1. cs \in Shards
    BY DEF CursorsIn
  <2>2. PICK cur \in Cursor : cur = pick.cur
    BY <1>5
  <2>3. cs2 = [cs EXCEPT ![p][prio][v] = cur]
    BY <1>2, <1>4, <2>2 DEF After
  <2>4. cs2[p][prio][v] = cur
    BY <2>1, <2>3, OneView
  <2>5. \A p2 \in Providers, prio2 \in Priorities, v2 \in Views :
          p2 # p \/ prio2 # prio \/ v2 # v => cs2[p2][prio2][v2] = cs[p2][prio2][v2]
    BY <2>1, <2>3, OneView
  <2> QED
    BY <2>2, <2>4, <2>5
<1> DEFINE Goal == RingStep(Order(en, lv, r), CursorOf(cs, mx, r), CursorOf(cs2, mx2, r), pick.turns, r)
\* The turns of the pick, where credentials are all at one level.
<1>7. CASE ParentsOf(en, p, prio, v) = {}
  <2>0. FlatPicked(en, c, p, prio, v, able, pick)
    BY <1>3, <1>7, PickedFlat
  <2>1. PICK i \in Nat, x \in Ready(en, p, prio, v) \cap able :
          /\ pick.cur = [c EXCEPT !.flat = i + 1]
          /\ pick.turns = {<<<<"flat", p, prio, v>>, x, able \cap Ready(en, p, prio, v)>>}
          /\ Serves(InOrder(Ready(en, p, prio, v)), c.flat, i + 1, x, able \cap Ready(en, p, prio, v))
    BY <2>0 DEF FlatPicked
  <2>2. PICK k \in Nat : k = i + 1
    OBVIOUS
  <2>3. pick.cur.flat = k /\ pick.cur.parent = c.parent /\ pick.cur.child = c.child
    BY <2>1, <2>2, FlatCursor
  <2>4. ASSUME r = <<"flat", p, prio, v>> PROVE Goal
    <3>1. Order(en, lv, r) = InOrder(Ready(en, p, prio, v))
      BY <1>7, <2>4, OrderFlat
    <3>2. CursorOf(cs, mx, r) = c.flat /\ CursorOf(cs2, mx2, r) = k
      BY <1>1, <1>6, <2>3, <2>4 DEF CursorOf
    <3>3. Serves(Order(en, lv, r), CursorOf(cs, mx, r), CursorOf(cs2, mx2, r), x, able \cap Ready(en, p, prio, v))
      BY <2>1, <2>2, <3>1, <3>2
    <3>4. {t \in pick.turns : t[1] = r} = {<<r, x, able \cap Ready(en, p, prio, v)>>}
      BY <2>1, <2>4
    <3> QED
      BY <3>3, <3>4 DEF RingStep
  <2>5. ASSUME r # <<"flat", p, prio, v>> PROVE Goal
    <3>1. \A t \in pick.turns : t[1] # r
      BY <2>1, <2>5
    <3>2. ASSUME Stands(Order(en, lv, r), CursorOf(cs, mx, r), CursorOf(cs2, mx2, r)) PROVE Goal
      BY <3>1, <3>2 DEF RingStep
    <3>3. ASSUME CursorOf(cs2, mx2, r) = CursorOf(cs, mx, r) PROVE Goal
      BY <3>2, <3>3 DEF Stands
    <3>4. ASSUME NEW p2, NEW prio2, NEW v2, Asked(p2, prio2, v2), r = <<"flat", p2, prio2, v2>> PROVE Goal
      <4>1. CASE p2 \in Providers
        <5>1. prio2 \in Priorities /\ v2 \in Views
          BY <3>4, AskedView
        <5>2. p2 # p \/ prio2 # prio \/ v2 # v
          BY <2>5, <3>4
        <5>3. cs2[p2][prio2][v2] = cs[p2][prio2][v2]
          BY <1>6, <4>1, <5>1, <5>2
        <5> QED
          BY <3>3, <3>4, <5>3 DEF CursorOf
      <4>2. CASE p2 \notin Providers
        BY <3>2, <3>4, <4>2, AskedEmpty, NobodyStands
      <4> QED
        BY <4>1, <4>2
    <3>5. ASSUME NEW p2 \in Providers, NEW prio2 \in Priorities, r = <<"parents", p2, prio2, "all">> PROVE Goal
      <4>1. cs2[p2][prio2]["all"].parent = cs[p2][prio2]["all"].parent
        BY <1>1, <1>6, <2>3 DEF Views
      <4> QED
        BY <3>3, <3>5, <4>1 DEF CursorOf
    <3>6. ASSUME NEW p2 \in Providers, NEW prio2 \in Priorities, NEW q2 \in Parents,
                 r = <<"child", p2, prio2, "all", q2>>
          PROVE  Goal
      <4>1. cs2[p2][prio2]["all"].child = cs[p2][prio2]["all"].child
        BY <1>1, <1>6, <2>3 DEF Views
      <4> QED
        BY <3>3, <3>6, <4>1 DEF CursorOf
    <3> HIDE DEF Goal
    <3>7. ASSUME NEW l \in Lists, r = <<"slots", l>> PROVE Goal
      BY <3>7
    <3>8. Goal
      BY <3>4, <3>5, <3>6, <3>7, RingKinds
    <3> QED
      BY <3>8 DEF Goal
  <2>6. Goal
    BY <2>4, <2>5
  <2> QED
    BY <1>2, <1>4, <2>6
\* The turns of the pick, where credentials are under parents.
<1>8. CASE ParentsOf(en, p, prio, v) # {}
  <2>0. GroupPicked(en, c, p, prio, v, able, pick)
    BY <1>3, <1>8, PickedGroup
  <2>1. PICK i \in Nat, j \in Nat, q \in ParentsOf(en, p, prio, v), x \in Ready(en, p, prio, v) \cap able :
        \E ableParents :
          /\ pick = [got |-> x, cur |-> Advanced(c, q, i, j),
                     turns |-> {<<<<"parents", p, prio, v>>, q, ableParents>>,
                                <<<<"child", p, prio, v, q>>, x, able \cap ChildrenOf(en, p, prio, v, q)>>}]
          /\ i + 1 \in 0..Cardinality(ParentsOf(en, p, prio, v))
          /\ j + 1 \in 0..Cardinality(ChildrenOf(en, p, prio, v, q))
          /\ Serves(InOrder(ParentsOf(en, p, prio, v)), c.parent, i + 1, q, ableParents)
          /\ Serves(InOrder(ChildrenOf(en, p, prio, v, q)), c.child[q], j + 1, x, able \cap ChildrenOf(en, p, prio, v, q))
    BY <2>0, Zenon DEF GroupPicked
  <2>2. PICK ableParents :
          /\ pick.cur = Advanced(c, q, i, j)
          /\ pick.turns = {<<<<"parents", p, prio, v>>, q, ableParents>>,
                           <<<<"child", p, prio, v, q>>, x, able \cap ChildrenOf(en, p, prio, v, q)>>}
          /\ Serves(InOrder(ParentsOf(en, p, prio, v)), c.parent, i + 1, q, ableParents)
          /\ Serves(InOrder(ChildrenOf(en, p, prio, v, q)), c.child[q], j + 1, x, able \cap ChildrenOf(en, p, prio, v, q))
    BY <2>1
  <2>3. q \in Parents
    BY ParentsFinite
  <2>4. /\ pick.cur.flat = c.flat /\ pick.cur.parent = i + 1 /\ pick.cur.child[q] = j + 1
        /\ \A q2 \in Parents : q2 # q => pick.cur.child[q2] = c.child[q2]
    <3>1. MovedBoth(c, Advanced(c, q, i, j), q, i, j)
      BY <2>3, GroupCursor
    <3> QED
      BY <2>2, <3>1 DEF MovedBoth
  <2>5. CASE r = <<"parents", p, prio, v>>
    <3>1. Order(en, lv, r) = InOrder(ParentsOf(en, p, prio, v))
      BY <2>5, OrderParents
    <3>2. CursorOf(cs, mx, r) = c.parent /\ CursorOf(cs2, mx2, r) = i + 1
      BY <1>1, <1>6, <2>4, <2>5 DEF CursorOf
    <3>3. Serves(Order(en, lv, r), CursorOf(cs, mx, r), CursorOf(cs2, mx2, r), q, ableParents)
      BY <2>2, <3>1, <3>2
    <3>4. {t \in pick.turns : t[1] = r} = {<<r, q, ableParents>>}
      BY <2>2, <2>5
    <3>5. Goal
      BY <3>3, <3>4 DEF RingStep
    <3> QED
      BY <1>2, <1>4, <3>5
  <2>6. CASE r = <<"child", p, prio, v, q>>
    <3>1. Order(en, lv, r) = InOrder(ChildrenOf(en, p, prio, v, q))
      BY <2>6, OrderChild
    <3>2. CursorOf(cs, mx, r) = c.child[q] /\ CursorOf(cs2, mx2, r) = j + 1
      BY <1>1, <1>6, <2>4, <2>6 DEF CursorOf
    <3>3. Serves(Order(en, lv, r), CursorOf(cs, mx, r), CursorOf(cs2, mx2, r), x, able \cap ChildrenOf(en, p, prio, v, q))
      BY <2>2, <3>1, <3>2
    <3>4. {t \in pick.turns : t[1] = r} = {<<r, x, able \cap ChildrenOf(en, p, prio, v, q)>>}
      BY <2>2, <2>6
    <3>5. Goal
      BY <3>3, <3>4 DEF RingStep
    <3> QED
      BY <1>2, <1>4, <3>5
  <2>7. CASE r # <<"parents", p, prio, v>> /\ r # <<"child", p, prio, v, q>>
    <3>1. \A t \in pick.turns : t[1] # r
      BY <2>2, <2>7
    <3>2. ASSUME Stands(Order(en, lv, r), CursorOf(cs, mx, r), CursorOf(cs2, mx2, r)) PROVE Goal
      BY <3>1, <3>2 DEF RingStep
    <3>3. ASSUME CursorOf(cs2, mx2, r) = CursorOf(cs, mx, r) PROVE Goal
      BY <3>2, <3>3 DEF Stands
    <3>4. ASSUME NEW p2, NEW prio2, NEW v2, Asked(p2, prio2, v2), r = <<"flat", p2, prio2, v2>> PROVE Goal
      <4>1. CASE p2 \in Providers
        <5>1. prio2 \in Priorities /\ v2 \in Views
          BY <3>4, AskedView
        <5>2. cs2[p2][prio2][v2].flat = cs[p2][prio2][v2].flat
          BY <1>1, <1>6, <2>4, <4>1, <5>1
        <5> QED
          BY <3>3, <3>4, <5>2 DEF CursorOf
      <4>2. CASE p2 \notin Providers
        BY <3>2, <3>4, <4>2, AskedEmpty, NobodyStands
      <4> QED
        BY <4>1, <4>2
    <3>5. ASSUME NEW p2 \in Providers, NEW prio2 \in Priorities, r = <<"parents", p2, prio2, "all">> PROVE Goal
      <4>1. p2 # p \/ prio2 # prio \/ "all" # v
        BY <2>7, <3>5
      <4>2. cs2[p2][prio2]["all"] = cs[p2][prio2]["all"]
        BY <1>6, <4>1 DEF Views
      <4> QED
        BY <3>3, <3>5, <4>2 DEF CursorOf
    <3>6. ASSUME NEW p2 \in Providers, NEW prio2 \in Priorities, NEW q2 \in Parents,
                 r = <<"child", p2, prio2, "all", q2>>
          PROVE  Goal
      <4>1. p2 # p \/ prio2 # prio \/ "all" # v \/ q2 # q
        BY <2>7, <3>6
      <4>2. cs2[p2][prio2]["all"].child[q2] = cs[p2][prio2]["all"].child[q2]
        BY <1>1, <1>6, <2>4, <4>1 DEF Views
      <4> QED
        BY <3>3, <3>6, <4>2 DEF CursorOf
    <3> HIDE DEF Goal
    <3>7. ASSUME NEW l \in Lists, r = <<"slots", l>> PROVE Goal
      BY <3>7
    <3>8. Goal
      BY <3>4, <3>5, <3>6, <3>7, RingKinds
    <3> QED
      BY <1>2, <1>4, <3>8 DEF Goal
  <2> QED
    BY <2>5, <2>6, <2>7
<1> QED
  BY <1>7, <1>8

------------------------------------------------------------------------------
(* The invariant and the steps.                                             *)

\* The rings as the views hold them are those their entries and levels call for;
\* a round began at one of the places of its ring.
IInv ==
  /\ strategy \in {"roundRobin", "fillFirst"}
  /\ entry \in Entered
  /\ CursorsIn(entry, cursors)
  /\ mixed \in [Lists -> 0..Cardinality(Auths)]
  /\ rebuilt \in {0, 1}
  /\ order = Orders(entry, level)
  /\ start \in [Rings -> 0..Cardinality(Auths)]
  /\ \A r \in Rings : Len(order[r]) # 0 => start[r] \in 0..Len(order[r])-1
  /\ level \in [Lists -> Priorities]

\* The order of one ring.
LEMMA OrdersAt ==
  ASSUME NEW en, NEW lv, NEW r \in Rings
  PROVE  Orders(en, lv)[r] = Order(en, lv, r)
  BY DEF Orders

\* The invariant implies the types.
LEMMA InvType == IInv => TypeOK
<1> SUFFICES ASSUME IInv PROVE TypeOK
  OBVIOUS
<1>1. \A p \in Providers, prio \in Priorities, v \in Views : CursorOK(cursors[p][prio][v], p, prio, v)
  BY DEF IInv, CursorsIn, Inside, CursorOK
<1>2. \A r \in Rings : Len(order[r]) <= Cardinality(Auths)
  <2>1. \A r \in Rings : order[r] = Order(entry, level, r)
    BY OrdersAt DEF IInv
  <2>2. \A r \in Rings : Len(Order(entry, level, r)) \in 0..Cardinality(Auths)
    BY RingListed DEF IInv
  <2> QED
    BY <2>1, <2>2, Constants
<1>3. entry \in [Auths -> [state: States, prio: Priorities, parent: Parents \cup {0}, ws: BOOLEAN]]
  BY DEF IInv, Entered, Entry
<1> QED
  BY <1>1, <1>2, <1>3 DEF IInv, TypeOK

\* A cursor of a ring that is not empty is a number.
LEMMA CursorNat ==
  ASSUME NEW en \in Entered, NEW lv, NEW cs, CursorsIn(en, cs),
         NEW mx \in [Lists -> 0..Cardinality(Auths)], NEW r \in Rings, Len(Order(en, lv, r)) # 0
  PROVE  CursorOf(cs, mx, r) \in Nat
<1>1. \A p \in Providers, prio \in Priorities, v \in Views : cs[p][prio][v] \in Cursor
  BY DEF CursorsIn, Shards
<1>2. ASSUME NEW p, NEW prio, NEW v, Asked(p, prio, v), r = <<"flat", p, prio, v>> PROVE CursorOf(cs, mx, r) \in Nat
  <2>1. p \in Providers
    BY <1>2, AskedEmpty
  <2>2. prio \in Priorities /\ v \in Views
    BY <1>2, AskedView
  <2>3. cs[p][prio][v].flat \in Nat
    BY <1>1, <2>1, <2>2 DEF Cursor
  <2> QED
    BY <1>2, <2>3 DEF CursorOf
<1>3. ASSUME NEW p \in Providers, NEW prio \in Priorities, r = <<"parents", p, prio, "all">>
      PROVE  CursorOf(cs, mx, r) \in Nat
  <2>1. cs[p][prio]["all"].parent \in Nat
    BY <1>1 DEF Views, Cursor
  <2> QED
    BY <1>3, <2>1 DEF CursorOf
<1>4. ASSUME NEW p \in Providers, NEW prio \in Priorities, NEW q \in Parents, r = <<"child", p, prio, "all", q>>
      PROVE  CursorOf(cs, mx, r) \in Nat
  <2>1. cs[p][prio]["all"].child[q] \in Nat
    BY <1>1 DEF Views, Cursor
  <2> QED
    BY <1>4, <2>1 DEF CursorOf
<1>5. ASSUME NEW l \in Lists, r = <<"slots", l>> PROVE CursorOf(cs, mx, r) \in Nat
  <2>1. mx[l] \in 0..Cardinality(Auths)
    OBVIOUS
  <2>2. mx[l] \in Nat
    BY <2>1, Constants
  <2> QED
    BY <1>5, <2>2 DEF CursorOf
<1> QED
  BY <1>2, <1>3, <1>4, <1>5, RingKinds

\* A cursor stands at a place of its ring.
LEMMA PlaceIn ==
  ASSUME NEW en \in Entered, NEW lv, NEW cs, CursorsIn(en, cs),
         NEW mx \in [Lists -> 0..Cardinality(Auths)], NEW r \in Rings
  PROVE  /\ NormalizeCursor(CursorOf(cs, mx, r), Len(Order(en, lv, r))) \in 0..Cardinality(Auths)
         /\ Len(Order(en, lv, r)) # 0 =>
              NormalizeCursor(CursorOf(cs, mx, r), Len(Order(en, lv, r))) \in 0..Len(Order(en, lv, r))-1
<1>1. PICK n \in 0..Cardinality(Auths) : n = Len(Order(en, lv, r))
  BY RingListed
<1>2. CASE n = 0
  BY <1>1, <1>2, Constants DEF NormalizeCursor
<1>3. CASE n # 0
  <2>1. PICK c \in Nat : c = CursorOf(cs, mx, r)
    BY <1>1, <1>3, CursorNat
  <2>2. n \in Nat
    BY Constants
  <2>3. NormalizeCursor(c, n) \in 0..n-1
    BY <1>3, <2>2, Normal
  <2> QED
    BY <1>1, <2>1, <2>3, Constants
<1> QED
  BY <1>2, <1>3

\* The rings depend on the views only.
LEMMA OrdersKept ==
  ASSUME NEW en, NEW en2, \A p : SameViews(en, en2, p), NEW lv
  PROVE  Orders(en2, lv) = Orders(en, lv)
<1>1. \A p, prio, v : /\ Ready(en2, p, prio, v) = Ready(en, p, prio, v)
                      /\ ParentsOf(en2, p, prio, v) = ParentsOf(en, p, prio, v)
                      /\ \A q : ChildrenOf(en2, p, prio, v, q) = ChildrenOf(en, p, prio, v, q)
  BY DEF SameViews
<1>2. \A l, prio, i : SegmentEnd(en2, l, prio, i) = SegmentEnd(en, l, prio, i)
  <2>1. ASSUME NEW l, NEW prio, NEW i PROVE SegmentEnd(en2, l, prio, i) = SegmentEnd(en, l, prio, i)
    BY <1>1 DEF SegmentEnd
  <2> QED
    BY <2>1
<1>3. \A l, prio : SlotsOf(en2, l, prio) = SlotsOf(en, l, prio)
  BY <1>2 DEF SlotsOf
<1>4. \A r \in Rings : Order(en2, lv, r) = Order(en, lv, r)
  <2>1. ASSUME NEW r \in Rings PROVE Order(en2, lv, r) = Order(en, lv, r)
    <3>1. ASSUME NEW p, NEW prio, NEW v, r = <<"flat", p, prio, v>> PROVE Order(en2, lv, r) = Order(en, lv, r)
      BY <1>1, <3>1, OrderFlat
    <3>2. ASSUME NEW p, NEW prio, NEW v, r = <<"parents", p, prio, v>> PROVE Order(en2, lv, r) = Order(en, lv, r)
      BY <1>1, <3>2, OrderParents
    <3>3. ASSUME NEW p, NEW prio, NEW v, NEW q, r = <<"child", p, prio, v, q>> PROVE Order(en2, lv, r) = Order(en, lv, r)
      BY <1>1, <3>3, OrderChild
    <3>4. ASSUME NEW l, r = <<"slots", l>> PROVE Order(en2, lv, r) = Order(en, lv, r)
      BY <1>3, <3>4, OrderSlots
    <3> QED
      BY <3>1, <3>2, <3>3, <3>4, RingKinds
  <2> QED
    BY <2>1
<1> QED
  BY <1>4 DEF Orders

\* What every step is made of: the entries become en and the levels lv; with
\* cursors cs and mx the rings are as they are listed now, anew or not; then
\* some rings are served and the others stand.
Steps(en, lv, cs, mx, anew) ==
  /\ en \in Entered /\ lv \in [Lists -> Priorities]
  /\ CursorsIn(en, cs) /\ mx \in [Lists -> 0..Cardinality(Auths)]
  /\ entry' = en /\ level' = lv /\ strategy' \in {"roundRobin", "fillFirst"}
  /\ Reordered(Orders(en, lv), cs, mx, anew)
  /\ rebuilt' \in {0, 1}
  /\ \/ anew /\ rebuilt' # rebuilt
     \/ ~anew /\ rebuilt' = rebuilt /\ \A r \in Rings : Order(en, lv, r) = Order(entry, level, r) =>
          Stands(Order(en, lv, r), CursorOf(cursors, mixed, r), CursorOf(cs, mx, r))
  /\ CursorsIn(en, cursors') /\ mixed' \in [Lists -> 0..Cardinality(Auths)]
  /\ \A r \in Rings : RingStep(Order(en, lv, r), CursorOf(cs, mx, r), CursorOf(cursors', mixed', r),
                               answer'.turns, r)

\* Steps of this kind keep the invariant.
LEMMA StepInv ==
  ASSUME IInv, NEW en, NEW lv, NEW cs, NEW mx, NEW anew, Steps(en, lv, cs, mx, anew)
  PROVE  IInv'
<1>0. /\ en \in Entered /\ lv \in [Lists -> Priorities]
      /\ CursorsIn(en, cs) /\ mx \in [Lists -> 0..Cardinality(Auths)]
      /\ entry' = en /\ level' = lv /\ strategy' \in {"roundRobin", "fillFirst"}
      /\ rebuilt' \in {0, 1}
      /\ CursorsIn(en, cursors') /\ mixed' \in [Lists -> 0..Cardinality(Auths)]
      /\ Reordered(Orders(en, lv), cs, mx, anew)
  BY DEF Steps
<1>1. order' = Orders(en, lv)
  BY <1>0 DEF Reordered
<1>2. start' = [r \in Rings |-> IF anew \/ Orders(en, lv)[r] # order[r]
                               THEN Position(Orders(en, lv), cs, mx, r) ELSE start[r]]
  BY <1>0 DEF Reordered
<1>3. ASSUME NEW r \in Rings
      PROVE  /\ start'[r] \in 0..Cardinality(Auths)
             /\ Len(order'[r]) # 0 => start'[r] \in 0..Len(order'[r])-1
  <2>1. order'[r] = Order(en, lv, r) /\ Orders(en, lv)[r] = Order(en, lv, r)
    BY <1>1, OrdersAt
  <2>2. CASE start'[r] = start[r] /\ Orders(en, lv)[r] = order[r]
    BY <1>1, <2>2 DEF IInv
  <2>3. CASE start'[r] = Position(Orders(en, lv), cs, mx, r)
    <3>1. start'[r] = NormalizeCursor(CursorOf(cs, mx, r), Len(Order(en, lv, r)))
      BY <2>1, <2>3 DEF Position
    <3> QED
      BY <1>0, <2>1, <3>1, PlaceIn
  <2> QED
    BY <1>2, <2>2, <2>3
<1>4. start' \in [Rings -> 0..Cardinality(Auths)]
  <2>1. start' = [r \in Rings |-> start'[r]]
    BY <1>2
  <2> QED
    BY <1>3, <2>1
<1>5. (CursorsIn(entry, cursors))'
  <2>1. CursorsIn(entry', cursors')
    BY <1>0
  <2> QED
    BY <2>1
<1>6. (order = Orders(entry, level))'
  <2>1. Orders(en, lv) = Orders(entry', level')
    BY <1>0
  <2> QED
    BY <1>0, <1>1
<1> QED
  BY <1>0, <1>3, <1>4, <1>5, <1>6 DEF IInv


------------------------------------------------------------------------------
(* The initial states, and the steps that pick nobody.                      *)

\* Only the empty sequence lists nobody.
LEMMA EmptyListed ==
  ASSUME NEW q, Enumerates(q, {})
  PROVE  q = <<>>
<1>1. q \in Seq({})
  BY DEF Enumerates
<1> QED
  BY <1>1

\* While nobody is ready all rings are empty.
LEMMA NoneReady ==
  ASSUME NEW en \in Entered, \A a \in Auths : en[a].state # "ready", NEW lv, NEW r \in Rings
  PROVE  Order(en, lv, r) = <<>>
<1>1. \A p, prio, v : Ready(en, p, prio, v) = {}
  BY DEF Ready
<1>2. ASSUME NEW p, NEW prio, NEW v, r = <<"flat", p, prio, v>> PROVE Order(en, lv, r) = <<>>
  <2>1. Flat(en, p, prio, v) = {}
    BY <1>1 DEF Flat
  <2>2. Enumerates(Order(en, lv, r), {})
    BY <1>2, <2>1, FlatListed
  <2> QED
    BY <2>2, EmptyListed
<1>3. ASSUME NEW p, NEW prio, NEW v, r = <<"parents", p, prio, v>> PROVE Order(en, lv, r) = <<>>
  <2>1. ParentsOf(en, p, prio, v) = {}
    BY <1>1, NoParents
  <2>2. Enumerates(Order(en, lv, r), {})
    BY <1>3, <2>1, ParentsListed
  <2> QED
    BY <2>2, EmptyListed
<1>4. ASSUME NEW p, NEW prio, NEW v, NEW q, r = <<"child", p, prio, v, q>> PROVE Order(en, lv, r) = <<>>
  <2>1. ParentsOf(en, p, prio, v) = {}
    BY <1>1, NoParents
  <2> QED
    BY <1>4, <2>1, OrderChild
<1>5. ASSUME NEW l \in Lists, r = <<"slots", l>> PROVE Order(en, lv, r) = <<>>
  <2>1. \A i : Weight(en, l, lv[l], i) = 0
    BY <1>1, FS_EmptySet DEF Weight
  <2>2. SlotSet(en, l, lv[l]) = {}
    <3>1. \A i : 1..Weight(en, l, lv[l], i) = {}
      BY <2>1
    <3> QED
      BY <3>1 DEF SlotSet
  <2>3. Enumerates(Order(en, lv, r), {})
    BY <1>5, <2>2, SlotRingListed
  <2> QED
    BY <2>3, EmptyListed
<1> QED
  BY <1>2, <1>3, <1>4, <1>5, RingKinds

\* What stands for no entry is one.
LEMMA AbsentIn == Absent \in Entry /\ Absent.state = "none"
<1>1. (CHOOSE p \in Priorities : TRUE) \in Priorities
  BY Constants
<1> QED
  BY <1>1 DEF Absent, Entry, States

\* The scheduler begins without entries, and every round at place 0.
LEMMA InitInv == Init => IInv
<1> SUFFICES ASSUME Init PROVE IInv
  OBVIOUS
<1>1. entry \in Entered /\ \A a \in Auths : entry[a].state # "ready"
  BY AbsentIn DEF Init, Entered
<1>2. order = Orders(entry, level)
  <2>1. \A r \in Rings : Order(entry, level, r) = <<>>
    BY <1>1, NoneReady
  <2> QED
    BY <2>1 DEF Init, Orders
<1>3. CursorsIn(entry, cursors)
  BY <1>1, FreshIn DEF Init
<1>4. mixed \in [Lists -> 0..Cardinality(Auths)] /\ start \in [Rings -> 0..Cardinality(Auths)]
  <2>1. 0 \in 0..Cardinality(Auths)
    BY Constants
  <2> QED
    BY <2>1 DEF Init
<1>5. level \in [Lists -> Priorities]
  <2>1. (CHOOSE p \in Priorities : TRUE) \in Priorities
    BY Constants
  <2> QED
    BY <2>1 DEF Init
<1>6. \A r \in Rings : Len(order[r]) = 0
  BY DEF Init
<1> QED
  BY <1>1, <1>2, <1>3, <1>4, <1>5, <1>6 DEF Init, IInv

\* A step in which nobody is served.
LEMMA Quiet ==
  ASSUME NEW en \in Entered, NEW lv \in [Lists -> Priorities], NEW cs, CursorsIn(en, cs),
         NEW mx \in [Lists -> 0..Cardinality(Auths)], NEW anew,
         entry' = en, level' = lv, strategy' \in {"roundRobin", "fillFirst"},
         Reordered(Orders(en, lv), cs, mx, anew), rebuilt' \in {0, 1},
         \/ anew /\ rebuilt' # rebuilt
         \/ ~anew /\ rebuilt' = rebuilt /\ \A r \in Rings : Order(en, lv, r) = Order(entry, level, r) =>
              Stands(Order(en, lv, r), CursorOf(cursors, mixed, r), CursorOf(cs, mx, r)),
         cursors' = cs, mixed' = mx, answer'.turns = {}
  PROVE  Steps(en, lv, cs, mx, anew)
<1>1. CursorsIn(en, cursors') /\ mixed' \in [Lists -> 0..Cardinality(Auths)]
  OBVIOUS
<1>2. \A r \in Rings : RingStep(Order(en, lv, r), CursorOf(cs, mx, r), CursorOf(cursors', mixed', r),
                                answer'.turns, r)
  BY DEF RingStep, Stands
<1> QED
  BY <1>1, <1>2, Zenon DEF Steps

\* Indexes rebuilt for the providers whose views change: cursors within them, the
\* other rings where they stood.
LEMMA Reindexed ==
  ASSUME IInv, NEW en \in Entered, NEW ps, \A p \in Providers \ ps : SameViews(entry, en, p)
  PROVE  /\ CursorsIn(en, Rebuilt(cursors, ps, entry, en))
         /\ \A lv : \A r \in Rings : Order(en, lv, r) = Order(entry, level, r) =>
              Stands(Order(en, lv, r), CursorOf(cursors, mixed, r),
                     CursorOf(Rebuilt(cursors, ps, entry, en), mixed, r))
<1>1. entry \in Entered /\ CursorsIn(entry, cursors)
  BY DEF IInv
<1>2. CursorsIn(en, Rebuilt(cursors, ps, entry, en))
  BY <1>1, RebuiltIn
<1>3. ASSUME NEW lv, NEW r \in Rings, Order(en, lv, r) = Order(entry, level, r)
      PROVE  Stands(Order(en, lv, r), CursorOf(cursors, mixed, r),
                    CursorOf(Rebuilt(cursors, ps, entry, en), mixed, r))
  <2>1. NormalizeCursor(CursorOf(Rebuilt(cursors, ps, entry, en), mixed, r), Len(Order(entry, level, r))) =
          NormalizeCursor(CursorOf(cursors, mixed, r), Len(Order(entry, level, r)))
    BY <1>1, <1>3, PlaceKept
  <2> QED
    BY <1>3, <2>1 DEF Stands
<1> QED
  BY <1>2, <1>3

\* The step is of that kind.
Moves ==
  \E en, lv, cs, mx, anew : Steps(en, lv, cs, mx, anew)

\* An upsert is such a step: one shard is rebuilt, nobody is served.
LEMMA UpsertMoves ==
  ASSUME IInv, NEW a \in Auths, NEW e \in Entries \cup {Absent}, Upsert(a, e)
  PROVE  Moves
<1> DEFINE en == [entry EXCEPT ![a] = e]
           cs == IF e = entry[a] THEN cursors ELSE Rebuilt(cursors, {ProviderOf[a]}, entry, en)
<1>1. entry \in Entered /\ CursorsIn(entry, cursors) /\ order = Orders(entry, level)
      /\ level \in [Lists -> Priorities] /\ mixed \in [Lists -> 0..Cardinality(Auths)]
      /\ rebuilt \in {0, 1} /\ strategy \in {"roundRobin", "fillFirst"}
  BY DEF IInv
<1>2. e \in Entry
  BY AbsentIn DEF Entries, Entry, States
<1>3. en \in Entered
  BY <1>1, <1>2 DEF Entered
<1>4. /\ entry' = en /\ cursors' = cs /\ strategy' = strategy /\ mixed' = mixed
      /\ rebuilt' = rebuilt /\ level' = level
      /\ Reordered(IF e = entry[a] THEN order ELSE Orders(en, level), cs, mixed, FALSE)
      /\ answer' = Silence
  BY DEF Upsert
<1>5. e = entry[a] => en = entry
  BY <1>1 DEF Entered
<1>6. (IF e = entry[a] THEN order ELSE Orders(en, level)) = Orders(en, level)
  BY <1>1, <1>5
<1>7. Reordered(Orders(en, level), cs, mixed, FALSE)
  BY <1>4, <1>6
<1>8. /\ CursorsIn(en, cs)
      /\ \A r \in Rings : Order(en, level, r) = Order(entry, level, r) =>
           Stands(Order(en, level, r), CursorOf(cursors, mixed, r), CursorOf(cs, mixed, r))
  <2>1. CASE e = entry[a]
    BY <1>1, <1>5, <2>1 DEF Stands
  <2>2. CASE e # entry[a]
    <3>1. \A p \in Providers \ {ProviderOf[a]} : SameViews(entry, en, p)
      <4>1. ASSUME NEW p \in Providers \ {ProviderOf[a]} PROVE SameViews(entry, en, p)
        <5>1. \A b \in Auths : ProviderOf[b] = p => en[b] = entry[b]
          BY <1>1 DEF Entered
        <5> HIDE DEF en
        <5> QED
          BY <5>1, ViewsKept
      <4> HIDE DEF en
      <4> QED
        BY <4>1
    <3>2. cs = Rebuilt(cursors, {ProviderOf[a]}, entry, en)
      BY <2>2
    <3> HIDE DEF en, cs
    <3> QED
      BY <1>3, <3>1, <3>2, Reindexed
  <2> QED
    BY <2>1, <2>2
<1>9. answer'.turns = {}
  BY <1>4 DEF Silence
<1> HIDE DEF en, cs
<1>10. Steps(en, level, cs, mixed, FALSE)
  BY <1>1, <1>3, <1>4, <1>7, <1>8, <1>9, Quiet
<1> QED
  BY <1>10 DEF Moves

\* So is the end of a cooldown, which moves nothing until a pick looks.
LEMMA LapseMoves ==
  ASSUME IInv, NEW a \in Auths, Lapse(a)
  PROVE  Moves
<1> DEFINE en == [entry EXCEPT ![a].state = "due"]
<1>1. entry \in Entered /\ CursorsIn(entry, cursors) /\ order = Orders(entry, level)
      /\ level \in [Lists -> Priorities] /\ mixed \in [Lists -> 0..Cardinality(Auths)]
      /\ rebuilt \in {0, 1} /\ strategy \in {"roundRobin", "fillFirst"}
  BY DEF IInv
<1>2. /\ entry[a].state = "cooling"
      /\ entry' = en /\ answer' = Silence
      /\ UNCHANGED <<strategy, cursors, mixed, rebuilt, order, start, level>>
  BY DEF Lapse
<1>3. en \in Entered /\ en[a].state = "due" /\ \A b \in Auths : b # a => en[b] = entry[b]
  BY <1>1 DEF Entered, Entry, States
<1>4. \A p : SameViews(entry, en, p)
  <2>1. \A b \in Auths : en[b] = entry[b] \/ (entry[b].state # "ready" /\ en[b].state # "ready")
    BY <1>2, <1>3
  <2> HIDE DEF en
  <2> QED
    BY <2>1, ViewsKept
<1> HIDE DEF en
<1>5. \A lv : Orders(en, lv) = Orders(entry, lv)
  BY <1>4, OrdersKept
<1>6. CursorsIn(en, cursors)
  <2>1. \A p \in Providers, prio \in Priorities, v \in Views : Inside(en, cursors[p][prio][v], p, prio, v)
    BY <1>1, <1>4 DEF SameViews, CursorsIn, Inside
  <2> QED
    BY <1>1, <2>1 DEF CursorsIn
<1>7. start' = [r \in Rings |-> IF FALSE \/ order[r] # order[r] THEN Position(order, cursors, mixed, r) ELSE start[r]]
  BY <1>2 DEF IInv
<1>8. Reordered(Orders(en, level), cursors, mixed, FALSE)
  BY <1>1, <1>2, <1>5, <1>7 DEF Reordered
<1>9. \A r \in Rings : Order(en, level, r) = Order(entry, level, r) =>
        Stands(Order(en, level, r), CursorOf(cursors, mixed, r), CursorOf(cursors, mixed, r))
  BY DEF Stands
<1>10. answer'.turns = {}
  BY <1>2 DEF Silence
<1>11. Steps(en, level, cursors, mixed, FALSE)
  BY <1>1, <1>2, <1>3, <1>6, <1>8, <1>9, <1>10, Quiet
<1> QED
  BY <1>11 DEF Moves

\* Expired cooldowns promoted: of some providers, and of others nothing changes.
LEMMA PromotedFacts ==
  ASSUME IInv, NEW ps, NEW again
  PROVE  /\ Promoted(ps, again) \in Entered
         /\ Due(ps) = {} => Promoted(ps, again) = entry
         /\ \A p \in Providers \ {ProviderOf[a] : a \in Due(ps)} : SameViews(entry, Promoted(ps, again), p)
         /\ \A a \in Auths : ProviderOf[a] \in ps => Promoted(ps, again)[a].state # "due"
<1> DEFINE en == Promoted(ps, again)
<1>1. entry \in Entered
  BY DEF IInv
<1>2. \A a \in Auths : en[a] = IF a \in Due(ps)
                              THEN [entry[a] EXCEPT !.state = IF a \in again THEN "blocked" ELSE "ready"]
                              ELSE entry[a]
  BY DEF Promoted, Due
<1>3. en = [a \in Auths |-> en[a]]
  BY DEF Promoted
<1> HIDE DEF en
<1>4. \A a \in Auths : entry[a] \in Entry
  BY <1>1 DEF Entered
<1>5. \A a \in Auths : a \in Due(ps) => en[a].state \in {"blocked", "ready"}
  BY <1>2, <1>4 DEF Entry
<1>6. ASSUME NEW a \in Auths PROVE en[a] \in Entry
  <2>1. CASE a \in Due(ps)
    <3>1. PICK st \in States : en[a] = [entry[a] EXCEPT !.state = st]
      BY <1>2, <2>1 DEF States
    <3> QED
      BY <1>4, <3>1 DEF Entry
  <2>2. CASE a \notin Due(ps)
    BY <1>2, <1>4, <2>2
  <2> QED
    BY <2>1, <2>2
<1>7. en \in Entered
  BY <1>3, <1>6 DEF Entered
<1>8. Due(ps) = {} => en = entry
  BY <1>1, <1>2, <1>3 DEF Entered
<1>9. ASSUME NEW p \in Providers \ {ProviderOf[a] : a \in Due(ps)} PROVE SameViews(entry, en, p)
  <2>1. \A a \in Auths : ProviderOf[a] = p => en[a] = entry[a]
    BY <1>2
  <2> QED
    BY <2>1, ViewsKept
<1>10. \A a \in Auths : ProviderOf[a] \in ps => en[a].state # "due"
  <2>1. \A a \in Auths : ProviderOf[a] \in ps /\ a \notin Due(ps) => entry[a].state # "due"
    BY DEF Due
  <2> QED
    BY <1>2, <1>5, <2>1
<1> QED
  BY <1>7, <1>8, <1>9, <1>10 DEF en

\* So is a rebuild, after which every round begins afresh.
LEMMA RebuildMoves ==
  ASSUME IInv, NEW again, Rebuild(again)
  PROVE  Moves
<1>1. order = Orders(entry, level) /\ level \in [Lists -> Priorities]
      /\ rebuilt \in {0, 1} /\ strategy \in {"roundRobin", "fillFirst"}
  BY DEF IInv
<1>2. PICK en, cs, mx : /\ en = Promoted(Providers, again) /\ cs = [p \in Providers |-> NewShard]
                        /\ mx = [l \in Lists |-> 0]
  OBVIOUS
<1>3. /\ entry' = en /\ cursors' = cs /\ mixed' = mx /\ rebuilt' = 1 - rebuilt
      /\ Reordered(Orders(en, level), cs, mx, TRUE) /\ answer' = Silence
      /\ strategy' = strategy /\ level' = level
  BY <1>2 DEF Rebuild
<1>4. en \in Entered
  BY <1>2, PromotedFacts
<1>5. CursorsIn(en, cs)
  BY <1>2, <1>4, FreshIn
<1>6. mx \in [Lists -> 0..Cardinality(Auths)]
  <2>1. 0 \in 0..Cardinality(Auths)
    BY Constants
  <2> QED
    BY <1>2, <2>1
<1>7. rebuilt' \in {0, 1} /\ rebuilt' # rebuilt
  BY <1>1, <1>3
<1>8. answer'.turns = {}
  BY <1>3 DEF Silence
<1>9. Steps(en, level, cs, mx, TRUE)
  BY <1>1, <1>3, <1>4, <1>5, <1>6, <1>7, <1>8, Quiet
<1> QED
  BY <1>9 DEF Moves

\* So is a change of the strategy.
LEMMA SelectorMoves ==
  ASSUME IInv, SetSelector
  PROVE  Moves
<1>1. entry \in Entered /\ CursorsIn(entry, cursors) /\ order = Orders(entry, level)
      /\ level \in [Lists -> Priorities] /\ rebuilt \in {0, 1}
  BY DEF IInv
<1>2. PICK mx : mx = [l \in Lists |-> 0]
  OBVIOUS
<1>3. /\ strategy' \in {"roundRobin", "fillFirst"} /\ mixed' = mx /\ rebuilt' = 1 - rebuilt
      /\ answer' = Silence /\ entry' = entry /\ cursors' = cursors /\ level' = level
  BY <1>2 DEF SetSelector
<1>4. Reordered(order, cursors, mx, TRUE)
  BY <1>2 DEF SetSelector
<1>5. Reordered(Orders(entry, level), cursors, mx, TRUE)
  BY <1>1, <1>4
<1>6. mx \in [Lists -> 0..Cardinality(Auths)]
  <2>1. 0 \in 0..Cardinality(Auths)
    BY Constants
  <2> QED
    BY <1>2, <2>1
<1>7. rebuilt' \in {0, 1} /\ rebuilt' # rebuilt
  BY <1>1, <1>3
<1>8. answer'.turns = {}
  BY <1>3 DEF Silence
<1>9. Steps(entry, level, cursors, mx, TRUE)
  BY <1>1, <1>3, <1>5, <1>6, <1>7, <1>8, Quiet
<1> QED
  BY <1>9 DEF Moves

------------------------------------------------------------------------------
(* The steps that pick.                                                     *)

\* The cursors of the providers a pick visits, their expired cooldowns promoted.
Visited(ps, again) ==
  IF Due(ps) = {} THEN cursors
  ELSE Rebuilt(cursors, {ProviderOf[a] : a \in Due(ps)}, entry, Promoted(ps, again))

\* Promotion leaves every ring whose order it keeps at its place.
LEMMA VisitFacts ==
  ASSUME IInv, NEW ps, NEW again
  PROVE  /\ CursorsIn(Promoted(ps, again), Visited(ps, again))
         /\ \A lv : \A r \in Rings : Order(Promoted(ps, again), lv, r) = Order(entry, level, r) =>
              Stands(Order(Promoted(ps, again), lv, r), CursorOf(cursors, mixed, r),
                     CursorOf(Visited(ps, again), mixed, r))
<1>1. PICK en : en = Promoted(ps, again)
  OBVIOUS
<1>2. CASE Due(ps) = {}
  <2>1. Visited(ps, again) = cursors /\ en = entry
    BY <1>1, <1>2, PromotedFacts DEF Visited
  <2> QED
    BY <1>1, <2>1 DEF IInv, Stands
<1>3. CASE Due(ps) # {}
  <2>1. Visited(ps, again) = Rebuilt(cursors, {ProviderOf[a] : a \in Due(ps)}, entry, en)
    BY <1>1, <1>3 DEF Visited
  <2>2. en \in Entered /\ \A p \in Providers \ {ProviderOf[a] : a \in Due(ps)} : SameViews(entry, en, p)
    BY <1>1, PromotedFacts
  <2> QED
    BY <1>1, <2>1, <2>2, Reindexed
<1> QED
  BY <1>2, <1>3

\* The highest tier, and the view asked there, hold a credential to pick.
LEMMA TierFacts ==
  ASSUME NEW en, NEW p, NEW ws, NEW able, Tiers(en, p, ws, able) # {}
  PROVE  /\ Max(Tiers(en, p, ws, able)) \in Priorities
         /\ Max(Tiers(en, p, ws, able)) \in Tiers(en, p, ws, able)
         /\ \A y \in Tiers(en, p, ws, able) : y <= Max(Tiers(en, p, ws, able))
         /\ ViewAt(en, p, Max(Tiers(en, p, ws, able)), ws, able) \in Views
         /\ Ready(en, p, Max(Tiers(en, p, ws, able)), ViewAt(en, p, Max(Tiers(en, p, ws, able)), ws, able))
              \cap able # {}
<1>1. PICK T : T = Tiers(en, p, ws, able)
  OBVIOUS
<1>2. \A prio \in T : prio \in Priorities /\ \E v \in Views : Ready(en, p, prio, v) \cap able # {}
  BY <1>1 DEF Tiers, Views
<1>3. T \subseteq Priorities
  BY <1>2
<1>4. T \subseteq Int /\ IsFiniteSet(T)
  BY <1>3, Constants, FS_Subset
<1>5. Max(T) \in T /\ \A y \in T : y <= Max(T)
  BY <1>1, <1>4, Greatest
<1>6. PICK prio \in Priorities : prio = Max(T) /\ prio \in T
  BY <1>3, <1>5
<1>7. ViewAt(en, p, prio, ws, able) \in Views /\ Ready(en, p, prio, ViewAt(en, p, prio, ws, able)) \cap able # {}
  <2>1. CASE ws /\ Ready(en, p, prio, "ws") \cap able # {}
    BY <2>1 DEF ViewAt, Views
  <2>2. CASE ~(ws /\ Ready(en, p, prio, "ws") \cap able # {})
    <3>1. ViewAt(en, p, prio, ws, able) = "all"
      BY <2>2 DEF ViewAt
    <3>2. Ready(en, p, prio, "all") \cap able # {}
      <4>1. CASE prio \in {k \in Priorities : Ready(en, p, k, "all") \cap able # {}}
        BY <4>1
      <4>2. CASE ws /\ prio \in {k \in Priorities : Ready(en, p, k, "ws") \cap able # {}}
        BY <2>2, <4>2
      <4> QED
        BY <1>1, <1>6, <4>1, <4>2 DEF Tiers
    <3> QED
      BY <3>1, <3>2 DEF Views
  <2> QED
    BY <2>1, <2>2
<1> QED
  BY <1>1, <1>5, <1>6, <1>7

\* No turn of a pick from a view is one of slots.
LEMMA PickTurns ==
  ASSUME NEW en \in Entered, NEW cs, CursorsIn(en, cs),
         NEW p \in Providers, NEW prio \in Priorities, NEW v \in Views, NEW able,
         Ready(en, p, prio, v) \cap able # {}
  PROVE  \A t \in Pick(en, cs, p, prio, v, able).turns : t[1][1] # "slots"
<1>1. PICK c \in Cursor : c = cs[p][prio][v]
  BY DEF CursorsIn, Shards
<1>2. PICK pick : pick = PickRoundRobin(en, c, p, prio, v, able) /\ pick = Pick(en, cs, p, prio, v, able)
  BY <1>1 DEF Pick
<1>3. CASE ParentsOf(en, p, prio, v) = {}
  <2>1. FlatPicked(en, c, p, prio, v, able, pick)
    BY <1>2, <1>3, PickedFlat
  <2>2. PICK x \in Ready(en, p, prio, v) \cap able :
          pick.turns = {<<<<"flat", p, prio, v>>, x, able \cap Ready(en, p, prio, v)>>}
    BY <2>1 DEF FlatPicked
  <2> QED
    BY <1>2, <2>2
<1>4. CASE ParentsOf(en, p, prio, v) # {}
  <2>1. GroupPicked(en, c, p, prio, v, able, pick)
    BY <1>2, <1>4, PickedGroup
  <2>2. PICK q \in ParentsOf(en, p, prio, v), x \in Ready(en, p, prio, v) \cap able :
          \E ableParents :
            pick.turns = {<<<<"parents", p, prio, v>>, q, ableParents>>,
                          <<<<"child", p, prio, v, q>>, x, able \cap ChildrenOf(en, p, prio, v, q)>>}
    BY <2>1 DEF GroupPicked
  <2> QED
    BY <1>2, <2>2
<1> QED
  BY <1>3, <1>4

\* Who is picked from a view, and what becomes of its cursors, by either strategy.
LEMMA PickedAt ==
  ASSUME NEW en \in Entered, NEW cs, CursorsIn(en, cs),
         NEW p \in Providers, NEW prio \in Priorities, NEW v \in Views, NEW able,
         Ready(en, p, prio, v) \cap able # {}
  PROVE  /\ strategy = "fillFirst" =>
              /\ PickAt(en, cs[p][prio][v], p, prio, v, able).got \in Ready(en, p, prio, v) \cap able
              /\ PickAt(en, cs[p][prio][v], p, prio, v, able).turns = {}
              /\ [cs EXCEPT ![p][prio][v] = PickAt(en, cs[p][prio][v], p, prio, v, able).cur] = cs
         /\ strategy # "fillFirst" =>
              PickAt(en, cs[p][prio][v], p, prio, v, able) = Pick(en, cs, p, prio, v, able)
<1>1. CASE strategy = "fillFirst"
  <2>1. PickAt(en, cs[p][prio][v], p, prio, v, able) =
          [got |-> Min(Ready(en, p, prio, v) \cap able), cur |-> cs[p][prio][v], turns |-> {}]
    BY <1>1 DEF PickAt, PickFirst
  <2>2. Min(Ready(en, p, prio, v) \cap able) \in Ready(en, p, prio, v) \cap able
    <3>1. Ready(en, p, prio, v) \cap able \subseteq Nat
      BY ReadyFinite
    <3> QED
      BY <3>1, Least
  <2>3. [cs EXCEPT ![p][prio][v] = cs[p][prio][v]] = cs
    BY DEF CursorsIn, Shards
  <2> QED
    BY <1>1, <2>1, <2>2, <2>3
<1>2. CASE strategy # "fillFirst"
  BY <1>2 DEF PickAt, Pick
<1> QED
  BY <1>1, <1>2

\* A pick tells who, the cursors, and whose turns it was.
LEMMA PickRecord ==
  ASSUME NEW en, NEW cs, NEW p, NEW prio, NEW v, NEW able
  PROVE  \E x, c, T : Pick(en, cs, p, prio, v, able) = [got |-> x, cur |-> c, turns |-> T]
<1>1. CASE ParentsOf(en, p, prio, v) = {}
  BY <1>1 DEF Pick, PickRoundRobin
<1>2. CASE ParentsOf(en, p, prio, v) # {}
  BY <1>2 DEF Pick, PickRoundRobin
<1> QED
  BY <1>1, <1>2

\* The priority of a mixed request, and the providers that have a credential there.
LEMMA BestFacts ==
  ASSUME NEW en, NEW ps, NEW able, ~ \A p \in ps : Tiers(en, p, FALSE, able) = {}
  PROVE  /\ BestPriority(en, ps, able) \in Priorities
         /\ \E p \in ps : Ready(en, p, BestPriority(en, ps, able), "all") \cap able # {}
         /\ \A p \in ps, prio \in Priorities : Ready(en, p, prio, "all") \cap able # {} =>
              prio <= BestPriority(en, ps, able)
<1> DEFINE T == UNION {Tiers(en, p, FALSE, able) : p \in ps}
<1>1. \A p, prio : prio \in Tiers(en, p, FALSE, able) <=>
                    prio \in Priorities /\ Ready(en, p, prio, "all") \cap able # {}
  BY DEF Tiers
<1>2. T \subseteq Priorities /\ T # {}
  BY <1>1
<1>3. BestPriority(en, ps, able) = Max(T)
  BY DEF BestPriority
<1>4. T \subseteq Int /\ IsFiniteSet(T)
  <2> HIDE DEF T
  <2> QED
    BY <1>2, Constants, FS_Subset
<1>5. Max(T) \in T /\ \A y \in T : y <= Max(T)
  <2> HIDE DEF T
  <2> QED
    BY <1>2, <1>4, Greatest
<1>6. PICK best \in T : best = BestPriority(en, ps, able) /\ \A y \in T : y <= best
  BY <1>3, <1>5
<1>7. \E p \in ps : Ready(en, p, best, "all") \cap able # {}
  BY <1>1
<1>8. \A p \in ps, prio \in Priorities : Ready(en, p, prio, "all") \cap able # {} => prio <= best
  BY <1>1, <1>6
<1> QED
  BY <1>2, <1>6, <1>7, <1>8

\* The slot a mixed request is given: the first from the cursor on whose provider
\* has a credential to pick.
LEMMA SlotServes ==
  ASSUME NEW en, NEW l \in Lists, NEW prio, NEW c \in Nat, NEW ablePs,
         \A p \in ablePs : p \in Range(l) /\ Ready(en, p, prio, "all") # {}, ablePs # {}
  PROVE  /\ SlotFor(SlotsOf(en, l, prio), c, ablePs) \in 1..Len(SlotsOf(en, l, prio))
         /\ SlotsOf(en, l, prio)[SlotFor(SlotsOf(en, l, prio), c, ablePs)][1] \in ablePs
         /\ Serves(SlotsOf(en, l, prio), c, SlotFor(SlotsOf(en, l, prio), c, ablePs),
                   SlotsOf(en, l, prio)[SlotFor(SlotsOf(en, l, prio), c, ablePs)],
                   {s \in Range(SlotsOf(en, l, prio)) : s[1] \in ablePs})
<1>1. PICK slots : slots = SlotsOf(en, l, prio)
  OBVIOUS
<1>2. Enumerates(slots, SlotSet(en, l, prio)) /\ Len(slots) \in Nat
  BY <1>1, SlotsListed DEF Enumerates
<1>3. PICK n \in Nat : n = Len(slots)
  BY <1>2
<1>4. PICK k \in 1..n : slots[k][1] \in ablePs
  <2>1. PICK p \in ablePs : p \in Range(l) /\ Ready(en, p, prio, "all") # {}
    OBVIOUS
  <2>2. PICK j \in 1..Len(l) : l[j] = p
    BY <2>1, ListFacts
  <2>3. Weight(en, l, prio, j) # 0 /\ Weight(en, l, prio, j) \in Nat
    BY <2>1, <2>2, ReadyFinite, FS_EmptySet DEF Weight
  <2>4. 1 \in 1..Weight(en, l, prio, j)
    BY <2>3
  <2>5. <<l[j], prio, 1>> \in SlotSet(en, l, prio)
    BY <2>4 DEF SlotSet
  <2>6. \A m \in SlotSet(en, l, prio) : \E x \in 0..n-1 : slots[x + 1] = m
    BY <1>2, <1>3, Places
  <2>7. PICK x \in 0..n-1 : slots[x + 1] = <<l[j], prio, 1>>
    BY <2>5, <2>6
  <2>8. x + 1 \in 1..n /\ slots[x + 1][1] = p
    BY <2>2, <2>7
  <2> QED
    BY <2>8
<1> DEFINE of == [m \in 1..Len(slots) |-> slots[m][1]]
           i == NextIndex(of, c, ablePs)
           A == {s \in Range(slots) : s[1] \in ablePs}
<1>5. n \in Nat \ {0} /\ Len(of) = n /\ \A m \in 1..n : of[m] = slots[m][1]
  BY <1>3, <1>4
<1> HIDE DEF of
<1>6. First(of, c % n, i, ablePs)
  <2>1. \E m \in 1..n : of[m] \in ablePs
    BY <1>4, <1>5
  <2> QED
    BY <1>5, <2>1, NextFound
<1>7. /\ i \in 0..n-1 /\ of[i + 1] \in ablePs
      /\ \A x \in 0..n-1 : Ahead(n, c % n, x) < Ahead(n, c % n, i) => of[x + 1] \notin ablePs
  <2> HIDE DEF i
  <2> QED
    BY <1>5, <1>6 DEF First
<1>8. \A x \in 0..n-1 : x + 1 \in 1..n
  BY <1>5
<1>9. \A x \in 0..n-1 : slots[x + 1] \in A <=> of[x + 1] \in ablePs
  <2>1. \A x \in 0..n-1 : slots[x + 1] \in SlotSet(en, l, prio)
    BY <1>2, <1>3, Places
  <2>2. Range(slots) = SlotSet(en, l, prio)
    BY <1>2, ListedIsRange
  <2> QED
    BY <1>5, <1>8, <2>1, <2>2
<1>10. SlotFor(slots, c, ablePs) = i + 1
  BY DEF SlotFor, of
<1> HIDE DEF i, A
<1>11. First(slots, c % Len(slots), i, A)
  BY <1>3, <1>7, <1>9 DEF First
<1>12. A \subseteq Range(slots)
  BY DEF A
<1>13. Serves(slots, c, i + 1, slots[i + 1], A)
  BY <1>3, <1>5, <1>7, <1>11, <1>12 DEF Serves
<1>14. i + 1 \in 1..n /\ slots[i + 1][1] \in ablePs
  BY <1>5, <1>7, <1>8
<1> QED
  BY <1>1, <1>3, <1>10, <1>13, <1>14 DEF A

------------------------------------------------------------------------------
(* The best is picked.                                                      *)

\* What BestPicked says of a step.
BestStep ==
  answer'.of # {} =>
    LET ready == Allowed(entry', answer'.of, answer'.tried)
    IN /\ \A a \in Auths : ProviderOf[a] \in answer'.of => entry'[a].state # "due"
       /\ IF ready = {} THEN answer'.got = {}
          ELSE \E x \in ready : answer'.got = {x} /\ \A y \in ready : ~Before(entry'[y], entry'[x], answer'.ws)

\* A credential that is ready is in its bucket's views.
LEMMA InItsView ==
  ASSUME NEW en \in Entered, NEW a \in Auths, en[a].state = "ready"
  PROVE  /\ en[a].prio \in Priorities /\ en[a].prio \in Int /\ en[a].ws \in BOOLEAN
         /\ a \in Ready(en, ProviderOf[a], en[a].prio, "all")
         /\ en[a].ws => a \in Ready(en, ProviderOf[a], en[a].prio, "ws")
<1>1. en[a].prio \in Priorities /\ en[a].ws \in BOOLEAN
  BY DEF Entered, Entry
<1> QED
  BY <1>1, Constants DEF Ready

\* No priority is found only if nobody that may be picked is ready.
LEMMA TiersNone ==
  ASSUME NEW en \in Entered, NEW p, NEW ws, NEW able
  PROVE  Tiers(en, p, ws, able) = {} <=>
           \A a \in Auths : a \in able /\ ProviderOf[a] = p => en[a].state # "ready"
<1> DEFINE of(v) == {prio \in Priorities : Ready(en, p, prio, v) \cap able # {}}
<1>1. Tiers(en, p, ws, able) = {} <=> of("all") = {}
  <2>1. of("ws") # {} => of("all") # {}
    BY DEF Ready
  <2>2. Tiers(en, p, ws, able) = IF ws /\ of("ws") # {} THEN of("ws") ELSE of("all")
    BY DEF Tiers
  <2> HIDE DEF of
  <2> QED
    BY <2>1, <2>2
<1>2. ASSUME NEW a \in Auths, a \in able, ProviderOf[a] = p, en[a].state = "ready" PROVE of("all") # {}
  <2>1. en[a].prio \in Priorities /\ a \in Ready(en, p, en[a].prio, "all")
    BY <1>2, InItsView
  <2> QED
    BY <1>2, <2>1
<1>3. ASSUME of("all") # {} PROVE \E a \in Auths : a \in able /\ ProviderOf[a] = p /\ en[a].state = "ready"
  <2>1. PICK prio \in Priorities : Ready(en, p, prio, "all") \cap able # {}
    BY <1>3
  <2>2. PICK a \in Ready(en, p, prio, "all") : a \in able
    BY <2>1
  <2> QED
    BY <2>2 DEF Ready
<1> HIDE DEF of
<1> QED
  BY <1>1, <1>2, <1>3

\* Nothing a provider has ready comes before what its highest tier's view holds.
LEMMA TierBest ==
  ASSUME NEW en \in Entered, NEW p, NEW ws \in BOOLEAN, NEW able, Tiers(en, p, ws, able) # {},
         NEW x \in Auths, x \in Ready(en, p, Max(Tiers(en, p, ws, able)),
                                      ViewAt(en, p, Max(Tiers(en, p, ws, able)), ws, able)),
         x \in able,
         NEW y \in Auths, y \in able, ProviderOf[y] = p, en[y].state = "ready"
  PROVE  ~Before(en[y], en[x], ws)
<1> DEFINE of(v) == {prio \in Priorities : Ready(en, p, prio, v) \cap able # {}}
<1>1. PICK T, best : /\ T = Tiers(en, p, ws, able) /\ best = Max(T)
                     /\ best \in T /\ best \in Priorities /\ \A k \in T : k <= best
  BY TierFacts
<1>2. T = IF ws /\ of("ws") # {} THEN of("ws") ELSE of("all")
  BY <1>1 DEF Tiers
<1>3. /\ en[y].prio \in Int /\ en[y].ws \in BOOLEAN /\ en[y].prio \in of("all")
      /\ en[y].ws => en[y].prio \in of("ws")
  <2>1. /\ en[y].prio \in Priorities /\ en[y].prio \in Int /\ en[y].ws \in BOOLEAN
        /\ y \in Ready(en, p, en[y].prio, "all")
        /\ en[y].ws => y \in Ready(en, p, en[y].prio, "ws")
    BY InItsView
  <2> QED
    BY <2>1
<1>4. PICK v : v = ViewAt(en, p, best, ws, able) /\ x \in Ready(en, p, best, v)
  BY <1>1
<1>5. en[x].prio = best /\ best \in Int /\ en[x].ws \in BOOLEAN /\ (v = "ws" => en[x].ws)
  <2>1. en[x].prio = best /\ (v = "ws" => en[x].ws)
    BY <1>4 DEF Ready
  <2>2. en[x].ws \in BOOLEAN
    BY DEF Entered, Entry
  <2> QED
    BY <1>1, <2>1, <2>2, Constants
<1>6. en[x].ws => best \in of("ws")
  <2>1. x \in Ready(en, p, best, v) /\ x \in Auths
    BY <1>4
  <2>2. en[x].ws => x \in Ready(en, p, best, "ws")
    BY <2>1 DEF Ready
  <2> QED
    BY <1>1, <2>2
<1>7. CASE ws /\ of("ws") # {}
  <2>1. best \in of("ws")
    BY <1>1, <1>2, <1>7
  <2>2. v = "ws"
    BY <1>4, <1>7, <2>1 DEF ViewAt
  <2>3. en[y].ws => en[y].prio <= best
    <3> HIDE DEF of
    <3> QED
      BY <1>1, <1>2, <1>3, <1>7
  <2>4. en[y].ws => ~(en[y].prio > best)
    BY <1>3, <1>5, <2>3
  <2> QED
    BY <1>3, <1>5, <1>7, <2>2, <2>4 DEF Before
<1>8. CASE ~(ws /\ of("ws") # {})
  <2> HIDE DEF of
  <2>1. T = of("all")
    BY <1>2, <1>8
  <2>2. en[y].prio <= best
    BY <1>1, <1>3, <2>1
  <2>3. ~(en[y].prio > best)
    BY <1>3, <1>5, <2>2
  <2>4. ws => ~en[y].ws /\ ~en[x].ws
    BY <1>3, <1>6, <1>8
  <2>5. ws => en[y].ws = en[x].ws
    BY <1>3, <1>5, <2>4
  <2> QED
    BY <1>5, <2>3, <2>5 DEF Before
<1> QED
  BY <1>7, <1>8

\* The best among all providers of a mixed request.
LEMMA MixedBest ==
  ASSUME NEW en \in Entered, NEW ps, NEW able, ~ \A p \in ps : Tiers(en, p, FALSE, able) = {},
         NEW p, NEW x \in Auths, x \in Ready(en, p, BestPriority(en, ps, able), "all"),
         NEW y \in Auths, y \in able, ProviderOf[y] \in ps, en[y].state = "ready"
  PROVE  ~Before(en[y], en[x], FALSE)
<1>1. PICK best : best = BestPriority(en, ps, able)
  OBVIOUS
<1>2. /\ en[y].prio \in Priorities /\ en[y].prio \in Int
      /\ y \in Ready(en, ProviderOf[y], en[y].prio, "all")
  BY InItsView
<1>3. en[x].prio = best
  BY <1>1 DEF Ready
<1>4. best \in Priorities /\ en[y].prio <= best
  <2>1. best \in Priorities
    BY <1>1, BestFacts
  <2>2. \A q \in ps, prio \in Priorities : Ready(en, q, prio, "all") \cap able # {} =>
          prio <= BestPriority(en, ps, able)
    BY BestFacts
  <2> QED
    BY <1>1, <1>2, <2>1, <2>2
<1>5. ~(en[y].prio > best)
  BY <1>2, <1>4, Constants
<1> QED
  BY <1>3, <1>5 DEF Before

\* A pick for one provider.
LEMMA SingleMoves ==
  ASSUME IInv, NEW p \in Providers, NEW ws \in BOOLEAN, NEW tried, NEW again, PickSingle(p, ws, tried, again)
  PROVE  Moves /\ BestStep
<1>1. order = Orders(entry, level) /\ level \in [Lists -> Priorities]
      /\ mixed \in [Lists -> 0..Cardinality(Auths)]
      /\ rebuilt \in {0, 1} /\ strategy \in {"roundRobin", "fillFirst"}
  BY DEF IInv
<1>2. PICK en, cs, able, tiers :
        /\ en = Promoted({p}, again) /\ able = Auths \ tried /\ tiers = Tiers(en, p, ws, able)
        /\ cs = IF Due({p}) = {} THEN cursors ELSE Rebuilt(cursors, {p}, entry, en)
  OBVIOUS
<1>3. /\ entry' = en
      /\ Reordered(IF Due({p}) = {} THEN order ELSE Orders(en, level), cs, mixed, FALSE)
      /\ strategy' = strategy /\ rebuilt' = rebuilt
      /\ IF tiers = {} THEN Refused({p}, ws, tried) /\ cursors' = cs
         ELSE LET prio == Max(tiers)
                  v == ViewAt(en, p, prio, ws, able)
                  pick == PickAt(en, cs[p][prio][v], p, prio, v, able)
              IN /\ cursors' = [cs EXCEPT ![p][prio][v] = pick.cur]
                 /\ Answered({p}, ws, tried, pick)
                 /\ UNCHANGED <<mixed, level>>
  BY <1>2 DEF PickSingle
<1>4. cs = Visited({p}, again)
  <2>1. CASE Due({p}) = {}
    BY <1>2, <2>1 DEF Visited
  <2>2. CASE Due({p}) # {}
    <3>1. {ProviderOf[a] : a \in Due({p})} = {p}
      BY <2>2 DEF Due
    <3> QED
      BY <1>2, <2>2, <3>1 DEF Visited
  <2> QED
    BY <2>1, <2>2
<1>5. /\ en \in Entered /\ CursorsIn(en, cs) /\ (Due({p}) = {} => en = entry)
      /\ \A r \in Rings : Order(en, level, r) = Order(entry, level, r) =>
           Stands(Order(en, level, r), CursorOf(cursors, mixed, r), CursorOf(cs, mixed, r))
  BY <1>2, <1>4, PromotedFacts, VisitFacts
<1>6. Reordered(Orders(en, level), cs, mixed, FALSE)
  <2>1. (IF Due({p}) = {} THEN order ELSE Orders(en, level)) = Orders(en, level)
    BY <1>1, <1>5
  <2> QED
    BY <1>3, <2>1
<1>7. \A a \in Auths : ProviderOf[a] \in {p} => en[a].state # "due"
  BY <1>2, PromotedFacts
<1>8. CASE tiers = {}
  <2>1. cursors' = cs /\ mixed' = mixed /\ level' = level /\ answer'.turns = {}
    BY <1>3, <1>8 DEF Refused, Silence
  <2>2. Steps(en, level, cs, mixed, FALSE)
    BY <1>1, <1>3, <1>5, <1>6, <2>1, Quiet
  <2>3. answer'.of = {p} /\ answer'.tried = tried /\ answer'.got = {}
    BY <1>3, <1>8 DEF Refused, Silence
  <2>4. Allowed(en, {p}, tried) = {}
    <3>1. \A a \in Auths : a \in able /\ ProviderOf[a] = p => en[a].state # "ready"
      <4>1. Tiers(en, p, ws, able) = {}
        BY <1>2, <1>8
      <4> QED
        BY <1>5, <4>1, TiersNone
    <3> QED
      BY <1>2, <3>1 DEF Allowed
  <2>5. BestStep
    BY <1>3, <1>7, <2>3, <2>4 DEF BestStep
  <2> QED
    BY <2>2, <2>5 DEF Moves
<1>9. CASE tiers # {}
  <2>1. PICK prio, v, pick : /\ prio = Max(tiers) /\ v = ViewAt(en, p, prio, ws, able)
                             /\ pick = PickAt(en, cs[p][prio][v], p, prio, v, able)
    OBVIOUS
  <2>2. /\ cursors' = [cs EXCEPT ![p][prio][v] = pick.cur]
        /\ Answered({p}, ws, tried, pick)
        /\ mixed' = mixed /\ level' = level
    BY <1>3, <1>9, <2>1
  <2>3. answer'.turns = pick.turns
    BY <2>2 DEF Answered
  <2>4. prio \in Priorities /\ v \in Views /\ Ready(en, p, prio, v) \cap able # {}
    BY <1>2, <1>9, <2>1, TierFacts
  <2>5. ASSUME strategy = "fillFirst" PROVE Moves
    <3>1. pick.turns = {} /\ [cs EXCEPT ![p][prio][v] = pick.cur] = cs
      BY <1>5, <2>1, <2>4, <2>5, PickedAt
    <3>2. cursors' = cs /\ answer'.turns = {}
      BY <2>2, <2>3, <3>1
    <3>3. Steps(en, level, cs, mixed, FALSE)
      BY <1>1, <1>3, <1>5, <1>6, <2>2, <3>2, Quiet
    <3> QED
      BY <3>3 DEF Moves
  <2>6. ASSUME strategy # "fillFirst" PROVE Moves
    <3>1. pick = Pick(en, cs, p, prio, v, able)
      BY <1>5, <2>1, <2>4, <2>6, PickedAt
    <3>2. cursors' = After(en, cs, p, prio, v, able)
      BY <2>2, <3>1 DEF After
    <3>3. CursorsIn(en, cursors')
      BY <1>5, <2>4, <3>2, PickIn
    <3>4. \A r \in Rings : RingStep(Order(en, level, r), CursorOf(cs, mixed, r), CursorOf(cursors', mixed', r),
                                    answer'.turns, r)
      <4>1. ASSUME NEW r \in Rings
            PROVE  RingStep(Order(en, level, r), CursorOf(cs, mixed, r), CursorOf(cursors', mixed', r),
                            answer'.turns, r)
        <5>1. CASE r[1] # "slots"
          <6>1. /\ en \in Entered /\ CursorsIn(en, cs) /\ p \in Providers
                /\ prio \in Priorities /\ v \in Views /\ Ready(en, p, prio, v) \cap able # {}
            BY <1>5, <2>4
          <6>2. RingStep(Order(en, level, r), CursorOf(cs, mixed, r),
                         CursorOf(After(en, cs, p, prio, v, able), mixed', r), Pick(en, cs, p, prio, v, able).turns, r)
            BY <5>1, <6>1, PickRings, Zenon
          <6> QED
            BY <2>3, <3>1, <3>2, <6>2, Zenon
        <5>2. CASE r[1] = "slots"
          <6>1. \A t \in answer'.turns : t[1] # r
            BY <1>5, <2>3, <2>4, <3>1, <5>2, PickTurns
          <6>2. CursorOf(cursors', mixed', r) = CursorOf(cs, mixed, r)
            BY <2>2, <5>2 DEF CursorOf
          <6> QED
            BY <6>1, <6>2 DEF RingStep, Stands
        <5> QED
          BY <5>1, <5>2
      <4> QED
        BY <4>1
    <3>5. Steps(en, level, cs, mixed, FALSE)
      BY <1>1, <1>3, <1>5, <1>6, <2>2, <3>3, <3>4 DEF Steps
    <3> QED
      BY <3>5 DEF Moves
  <2>7. PICK x : x = pick.got /\ x \in Ready(en, p, prio, v) /\ x \in able
    <3>1. CASE strategy = "fillFirst"
      BY <1>5, <2>1, <2>4, <3>1, PickedAt
    <3>2. CASE strategy # "fillFirst"
      <4>1. pick = Pick(en, cs, p, prio, v, able)
        BY <1>5, <2>1, <2>4, <3>2, PickedAt
      <4> QED
        BY <1>5, <2>4, <4>1, PickIn
    <3> QED
      BY <3>1, <3>2
  <2>8. answer'.of = {p} /\ answer'.tried = tried /\ answer'.ws = ws /\ answer'.got = {x}
    BY <2>2, <2>7 DEF Answered
  <2>9. x \in Allowed(en, {p}, tried)
    BY <1>2, <2>7 DEF Allowed, Ready
  <2>10. ASSUME NEW y \in Allowed(en, {p}, tried) PROVE ~Before(en[y], en[x], ws)
    <3>1. y \in Auths /\ y \in able /\ ProviderOf[y] = p /\ en[y].state = "ready"
      BY <1>2 DEF Allowed
    <3>2. x \in Auths /\ x \in able
      BY <2>7 DEF Ready
    <3> QED
      <4>1. Tiers(en, p, ws, able) # {}
        BY <1>2, <1>9
      <4>2. x \in Ready(en, p, Max(Tiers(en, p, ws, able)), ViewAt(en, p, Max(Tiers(en, p, ws, able)), ws, able))
        BY <1>2, <2>1, <2>7
      <4> QED
        BY <1>5, <3>1, <3>2, <4>1, <4>2, TierBest
  <2>11. BestStep
    BY <1>3, <1>7, <2>8, <2>9, <2>10 DEF BestStep
  <2> QED
    BY <2>5, <2>6, <2>11
<1> QED
  BY <1>8, <1>9

\* A pick among several providers.
LEMMA MixedMoves ==
  ASSUME IInv, NEW l \in Lists, NEW tried, NEW again, PickMixed(l, tried, again)
  PROVE  Moves /\ BestStep
<1>1. order = Orders(entry, level) /\ level \in [Lists -> Priorities]
      /\ mixed \in [Lists -> 0..Cardinality(Auths)]
      /\ rebuilt \in {0, 1} /\ strategy \in {"roundRobin", "fillFirst"}
  BY DEF IInv
<1> DEFINE ps == Range(l)
           en == Promoted(ps, again)
           cs == IF Due(ps) = {} THEN cursors
                 ELSE Rebuilt(cursors, {ProviderOf[a] : a \in Due(ps)}, entry, en)
           able == Auths \ tried
           none == \A p \in ps : Tiers(en, p, FALSE, able) = {}
           prio == BestPriority(en, ps, able)
           lv == IF none \/ strategy = "fillFirst" THEN level ELSE [level EXCEPT ![l] = prio]
           ablePs == {p \in ps : Ready(en, p, prio, "all") \cap able # {}}
           slots == SlotsOf(en, l, prio)
           i == SlotFor(slots, mixed[l], ablePs)
           p == IF strategy = "fillFirst" THEN l[Min({k \in 1..Len(l) : l[k] \in ablePs})] ELSE slots[i][1]
           pick == PickAt(en, cs[p][prio]["all"], p, prio, "all", able)
           slot == <<<<"slots", l>>, slots[i], {s \in Range(slots) : s[1] \in ablePs}>>
<1>2. /\ ps = Range(l) /\ en = Promoted(ps, again) /\ able = Auths \ tried
      /\ none = (\A x \in ps : Tiers(en, x, FALSE, able) = {})
      /\ prio = BestPriority(en, ps, able)
  OBVIOUS
<1>3. /\ cs = Visited(ps, again)
      /\ lv = IF none \/ strategy = "fillFirst" THEN level ELSE [level EXCEPT ![l] = prio]
      /\ ablePs = {x \in ps : Ready(en, x, prio, "all") \cap able # {}}
  BY DEF Visited
<1>4. /\ slots = SlotsOf(en, l, prio)
      /\ i = SlotFor(slots, mixed[l], ablePs)
      /\ p = IF strategy = "fillFirst" THEN l[Min({k \in 1..Len(l) : l[k] \in ablePs})] ELSE slots[i][1]
  OBVIOUS
<1>5. /\ pick = PickAt(en, cs[p][prio]["all"], p, prio, "all", able)
      /\ slot = <<<<"slots", l>>, slots[i], {s \in Range(slots) : s[1] \in ablePs}>>
  OBVIOUS
<1>6. /\ entry' = en
      /\ Reordered(IF Due(ps) = {} /\ lv = level THEN order ELSE Orders(en, lv), cs, mixed, FALSE)
      /\ strategy' = strategy /\ rebuilt' = rebuilt
      /\ IF none THEN Refused(ps, FALSE, tried) /\ cursors' = cs
         ELSE /\ cursors' = [cs EXCEPT ![p][prio]["all"] = pick.cur]
              /\ level' = lv
              /\ IF strategy = "fillFirst" THEN Answered(ps, FALSE, tried, pick) /\ mixed' = mixed
                 ELSE /\ Answered(ps, FALSE, tried, [pick EXCEPT !.turns = @ \cup {slot}])
                      /\ mixed' = [mixed EXCEPT ![l] = i]
  BY Zenon DEF PickMixed
<1> HIDE DEF ps, en, cs, able, none, prio, lv, ablePs, slots, i, p, pick, slot
<1>7. /\ en \in Entered /\ CursorsIn(en, cs) /\ (Due(ps) = {} => en = entry)
      /\ \A r \in Rings : Order(en, lv, r) = Order(entry, level, r) =>
           Stands(Order(en, lv, r), CursorOf(cursors, mixed, r), CursorOf(cs, mixed, r))
  BY <1>2, <1>3, PromotedFacts, VisitFacts
<1>8. Reordered(Orders(en, lv), cs, mixed, FALSE)
  <2>1. (IF Due(ps) = {} /\ lv = level THEN order ELSE Orders(en, lv)) = Orders(en, lv)
    BY <1>1, <1>7
  <2> QED
    BY <1>6, <2>1
<1>9. \A a \in Auths : ProviderOf[a] \in ps => en[a].state # "due"
  BY <1>2, PromotedFacts
<1>10. CASE none
  <2>1. cursors' = cs /\ mixed' = mixed /\ level' = level /\ answer'.turns = {} /\ lv = level
    BY <1>3, <1>6, <1>10 DEF Refused, Silence
  <2>2. Steps(en, level, cs, mixed, FALSE)
    BY <1>1, <1>6, <1>7, <1>8, <2>1, Quiet
  <2>3. answer'.of = ps /\ answer'.tried = tried /\ answer'.got = {}
    BY <1>6, <1>10 DEF Refused, Silence
  <2>4. Allowed(en, ps, tried) = {}
    <3>1. ASSUME NEW a \in Auths, a \in able, ProviderOf[a] \in ps PROVE en[a].state # "ready"
      <4>1. PICK q : q = ProviderOf[a] /\ Tiers(en, q, FALSE, able) = {}
        BY <1>2, <1>10, <3>1
      <4> QED
        <5>1. \A b \in Auths : b \in able /\ ProviderOf[b] = q => en[b].state # "ready"
          <6>1. \A w : Tiers(en, q, w, able) = {} <=>
                  \A b \in Auths : b \in able /\ ProviderOf[b] = q => en[b].state # "ready"
            BY <1>7, TiersNone
          <6>2. PICK w : Tiers(en, q, w, able) = {}
            BY <4>1, Zenon
          <6> QED
            BY <6>1, <6>2
        <5> QED
          BY <3>1, <4>1, <5>1
    <3> QED
      BY <1>2, <3>1 DEF Allowed
  <2>5. BestStep
    BY <1>6, <1>9, <2>3, <2>4 DEF BestStep
  <2> QED
    BY <2>2, <2>5 DEF Moves
<1>11. CASE ~none
  <2>1. prio \in Priorities /\ ablePs # {}
    <3>1. ~ \A x \in ps : Tiers(en, x, FALSE, able) = {}
      BY <1>2, <1>11
    <3>2. BestPriority(en, ps, able) \in Priorities
      BY <3>1, BestFacts
    <3>3. \E x \in ps : Ready(en, x, BestPriority(en, ps, able), "all") \cap able # {}
      BY <3>1, BestFacts
    <3> QED
      BY <1>2, <1>3, <3>2, <3>3
  <2>2. lv \in [Lists -> Priorities]
    BY <1>1, <1>3, <2>1
  <2>3. \A x \in ablePs : x \in Range(l) /\ Ready(en, x, prio, "all") \cap able # {}
    BY <1>2, <1>3
  <2>4. PICK c \in Nat : c = mixed[l]
    <3>1. mixed[l] \in 0..Cardinality(Auths)
      BY <1>1
    <3> QED
      BY <3>1, Constants
  <2>5. /\ i \in 1..Len(slots) /\ slots[i][1] \in ablePs
        /\ Serves(slots, c, i, slots[i], {s \in Range(slots) : s[1] \in ablePs})
    <3>1. \A x \in ablePs : x \in Range(l) /\ Ready(en, x, prio, "all") # {}
      BY <2>3
    <3>2. /\ SlotFor(SlotsOf(en, l, prio), c, ablePs) \in 1..Len(SlotsOf(en, l, prio))
          /\ SlotsOf(en, l, prio)[SlotFor(SlotsOf(en, l, prio), c, ablePs)][1] \in ablePs
      BY <2>1, <3>1, SlotServes
    <3>3. Serves(SlotsOf(en, l, prio), c, SlotFor(SlotsOf(en, l, prio), c, ablePs),
                 SlotsOf(en, l, prio)[SlotFor(SlotsOf(en, l, prio), c, ablePs)],
                 {s \in Range(SlotsOf(en, l, prio)) : s[1] \in ablePs})
      BY <2>1, <3>1, SlotServes
    <3> QED
      BY <1>4, <2>4, <3>2, <3>3
  <2>6. p \in ablePs
    <3>1. CASE strategy = "fillFirst"
      <4> DEFINE K == {k \in 1..Len(l) : l[k] \in ablePs}
      <4>1. K \subseteq Nat /\ K # {}
        BY <2>1, <2>3, ListFacts
      <4>2. Min(K) \in K
        <5> HIDE DEF K
        <5> QED
          BY <4>1, Least
      <4>3. p = l[Min(K)]
        BY <1>4, <3>1
      <4> QED
        BY <4>2, <4>3
    <3>2. CASE strategy # "fillFirst"
      BY <1>4, <2>5, <3>2
    <3> QED
      BY <3>1, <3>2
  <2>7. p \in Providers /\ "all" \in Views /\ Ready(en, p, prio, "all") \cap able # {}
    BY <2>3, <2>6, ReadyThere DEF Views
  <2>8. cursors' = [cs EXCEPT ![p][prio]["all"] = pick.cur] /\ level' = lv
    BY <1>6, <1>11
  <2>9. ASSUME strategy = "fillFirst" PROVE Moves
    <3>1. pick.turns = {} /\ [cs EXCEPT ![p][prio]["all"] = pick.cur] = cs
      BY <1>5, <1>7, <2>1, <2>7, <2>9, PickedAt
    <3>2. cursors' = cs /\ answer'.turns = {} /\ mixed' = mixed
      BY <1>6, <1>11, <2>9, <3>1 DEF Answered
    <3>3. Steps(en, lv, cs, mixed, FALSE)
      BY <1>1, <1>6, <1>7, <1>8, <2>2, <2>8, <3>2, Quiet
    <3> QED
      BY <3>3 DEF Moves
  <2>10. ASSUME strategy # "fillFirst" PROVE Moves
    <3>1. pick = Pick(en, cs, p, prio, "all", able)
      BY <1>5, <1>7, <2>1, <2>7, <2>10, PickedAt
    <3>2. cursors' = After(en, cs, p, prio, "all", able)
      BY <2>8, <3>1 DEF After
    <3>3. CursorsIn(en, cursors')
      BY <1>7, <2>1, <2>7, <3>2, PickIn
    <3>4. mixed' = [mixed EXCEPT ![l] = i] /\ answer'.turns = pick.turns \cup {slot}
      <4>1. PICK x, y, T : pick = [got |-> x, cur |-> y, turns |-> T]
        BY <3>1, PickRecord
      <4>2. [pick EXCEPT !.turns = @ \cup {slot}].turns = pick.turns \cup {slot}
        BY <4>1
      <4> QED
        BY <1>6, <1>11, <2>10, <4>2 DEF Answered
    <3>5. lv[l] = prio /\ \A l2 \in Lists : l2 # l => lv[l2] = level[l2]
      BY <1>1, <1>3, <1>11, <2>10
    <3>6. Order(en, lv, <<"slots", l>>) = slots
      BY <1>4, <3>5, OrderSlots
    <3>7. Len(slots) \in 0..Cardinality(Auths)
      BY <3>6, SlotRingListed
    <3>8. mixed' \in [Lists -> 0..Cardinality(Auths)]
      <4>1. i \in 0..Cardinality(Auths)
        BY <2>5, <3>7, Constants
      <4> QED
        BY <1>1, <3>4, <4>1
    <3>9. \A t \in pick.turns : t[1][1] # "slots"
      BY <1>7, <2>1, <2>7, <3>1, PickTurns
    <3>10. slot[1] = <<"slots", l>>
      BY <1>5
    <3>11. ASSUME NEW r \in Rings
           PROVE  RingStep(Order(en, lv, r), CursorOf(cs, mixed, r), CursorOf(cursors', mixed', r),
                           answer'.turns, r)
      <4>1. CASE r[1] # "slots"
        <5>1. RingStep(Order(en, lv, r), CursorOf(cs, mixed, r), CursorOf(cursors', mixed', r), pick.turns, r)
          BY <1>7, <2>1, <2>7, <3>1, <3>2, <4>1, PickRings
        <5>2. slot[1] # r
          BY <3>10, <4>1
        <5>3. {t \in answer'.turns : t[1] = r} = {t \in pick.turns : t[1] = r}
          BY <3>4, <5>2
        <5>4. (\A t \in pick.turns : t[1] # r) => (\A t \in answer'.turns : t[1] # r)
          BY <3>4, <5>2
        <5> QED
          BY <5>1, <5>3, <5>4 DEF RingStep
      <4>2. CASE r = <<"slots", l>>
        <5>1. {t \in answer'.turns : t[1] = r} = {slot}
          BY <3>4, <3>9, <3>10, <4>2
        <5>2. CursorOf(cs, mixed, r) = c /\ CursorOf(cursors', mixed', r) = i
          BY <1>1, <2>4, <3>4, <4>2 DEF CursorOf
        <5>3. Serves(Order(en, lv, r), CursorOf(cs, mixed, r), CursorOf(cursors', mixed', r),
                     slots[i], {s \in Range(slots) : s[1] \in ablePs})
          BY <2>5, <3>6, <4>2, <5>2
        <5>4. slot = <<r, slots[i], {s \in Range(slots) : s[1] \in ablePs}>>
          BY <1>5, <4>2
        <5> QED
          BY <5>1, <5>3, <5>4 DEF RingStep
      <4>3. CASE r[1] = "slots" /\ r # <<"slots", l>>
        <5>1. PICK l2 \in Lists : r = <<"slots", l2>>
          BY <4>3, RingKinds
        <5>2. l2 # l
          BY <4>3, <5>1
        <5>3. CursorOf(cursors', mixed', r) = CursorOf(cs, mixed, r)
          BY <1>1, <3>4, <5>1, <5>2 DEF CursorOf
        <5>4. \A t \in answer'.turns : t[1] # r
          BY <3>4, <3>9, <3>10, <4>3
        <5> QED
          BY <5>3, <5>4 DEF RingStep, Stands
      <4> QED
        BY <4>1, <4>2, <4>3
    <3>12. Steps(en, lv, cs, mixed, FALSE)
      BY <1>1, <1>6, <1>7, <1>8, <2>2, <2>8, <3>3, <3>8, <3>11 DEF Steps
    <3> QED
      BY <3>12 DEF Moves
  <2>11. PICK x : x = pick.got /\ x \in Ready(en, p, prio, "all") /\ x \in able
    <3>1. CASE strategy = "fillFirst"
      BY <1>5, <1>7, <2>1, <2>7, <3>1, PickedAt
    <3>2. CASE strategy # "fillFirst"
      <4>1. pick = Pick(en, cs, p, prio, "all", able)
        BY <1>5, <1>7, <2>1, <2>7, <3>2, PickedAt
      <4> QED
        BY <1>7, <2>1, <2>7, <4>1, PickIn
    <3> QED
      BY <3>1, <3>2
  <2>12. answer'.of = ps /\ answer'.tried = tried /\ answer'.ws = FALSE /\ answer'.got = {x}
    <3>1. CASE strategy = "fillFirst"
      BY <1>6, <1>11, <2>11, <3>1 DEF Answered
    <3>2. CASE strategy # "fillFirst"
      <4>1. PICK y, z, T : pick = [got |-> y, cur |-> z, turns |-> T]
        <5>1. pick = Pick(en, cs, p, prio, "all", able)
          BY <1>5, <1>7, <2>1, <2>7, <3>2, PickedAt
        <5> QED
          BY <5>1, PickRecord
      <4>2. [pick EXCEPT !.turns = @ \cup {slot}].got = x
        BY <2>11, <4>1
      <4> QED
        BY <1>6, <1>11, <3>2, <4>2 DEF Answered
    <3> QED
      BY <3>1, <3>2
  <2>13. x \in Allowed(en, ps, tried)
    <3>1. p \in ps
      BY <1>3, <2>6
    <3> QED
      BY <1>2, <2>11, <3>1 DEF Allowed, Ready
  <2>14. ASSUME NEW y \in Allowed(en, ps, tried) PROVE ~Before(en[y], en[x], FALSE)
    <3>1. y \in Auths /\ y \in able /\ ProviderOf[y] \in ps /\ en[y].state = "ready"
      BY <1>2 DEF Allowed
    <3>2. x \in Auths
      BY <2>11 DEF Ready
    <3>3. ~ \A z \in ps : Tiers(en, z, FALSE, able) = {}
      BY <1>2, <1>11
    <3>4. x \in Ready(en, p, BestPriority(en, ps, able), "all")
      BY <1>2, <2>11
    <3> QED
      BY <1>7, <3>1, <3>2, <3>3, <3>4, MixedBest
  <2>15. BestStep
    BY <1>6, <1>9, <2>12, <2>13, <2>14 DEF BestStep
  <2> QED
    BY <2>9, <2>10, <2>15
<1> QED
  BY <1>10, <1>11

\* So is every step, and a pick gets the best.
LEMMA NextMoves == IInv /\ Next => Moves /\ BestStep
<1> SUFFICES ASSUME IInv, Next PROVE Moves /\ BestStep
  OBVIOUS
<1>1. ASSUME answer' = Silence PROVE BestStep
  BY <1>1 DEF BestStep, Silence
<1>2. ASSUME NEW a \in Auths, Lapse(a) PROVE Moves /\ BestStep
  BY <1>1, <1>2, LapseMoves DEF Lapse
<1>3. ASSUME NEW a \in Auths, NEW e \in Entries \cup {Absent}, Upsert(a, e) PROVE Moves /\ BestStep
  BY <1>1, <1>3, UpsertMoves DEF Upsert
<1>4. ASSUME NEW again \in SUBSET Due(Providers), Rebuild(again) PROVE Moves /\ BestStep
  BY <1>1, <1>4, RebuildMoves DEF Rebuild
<1>5. ASSUME SetSelector PROVE Moves /\ BestStep
  BY <1>1, <1>5, SelectorMoves DEF SetSelector
<1>6. ASSUME NEW p \in Providers, NEW ws \in BOOLEAN, NEW tried, NEW again, PickSingle(p, ws, tried, again)
      PROVE  Moves /\ BestStep
  BY <1>6, SingleMoves
<1>7. ASSUME NEW l \in Lists, NEW tried, NEW again, PickMixed(l, tried, again) PROVE Moves /\ BestStep
  BY <1>7, MixedMoves
<1> HIDE DEF Moves, BestStep
<1> QED
  BY <1>2, <1>3, <1>4, <1>5, <1>6, <1>7 DEF Next, Picks

\* The invariant of every step.
LEMMA InvKept == IInv /\ [Next]_vars => IInv'
<1> SUFFICES ASSUME IInv, [Next]_vars PROVE IInv'
  OBVIOUS
<1>1. CASE Next
  <2>1. Moves
    BY <1>1, NextMoves
  <2>2. PICK en, lv, cs, mx, anew : Steps(en, lv, cs, mx, anew)
    BY <2>1 DEF Moves
  <2> QED
    BY <2>2, StepInv
<1>2. CASE UNCHANGED vars
  <2>1. UNCHANGED <<strategy, entry, cursors, mixed, rebuilt, order, start, level>>
    BY <1>2 DEF vars, held
  <2> QED
    BY <2>1 DEF IInv, CursorsIn, Inside
<1> QED
  BY <1>1, <1>2

\* The scheduler's state keeps its types, and no cursor points beyond the view it
\* turns through, however views shrink and grow between picks.
THEOREM TypeCorrect == Spec => []TypeOK
<1>1. Spec => []IInv
  BY InitInv, InvKept, PTL DEF Spec
<1> QED
  BY <1>1, InvType, PTL

\* A pick is refused only when no credential that may be picked is ready, and
\* never passes over a better one, whichever providers, views and cursors it
\* goes through, and whichever cooldowns ended just before.
THEOREM BestIsPicked == Spec => BestPicked
<1>1. Spec => []IInv
  BY InitInv, InvKept, PTL DEF Spec
<1>2. IInv /\ [Next]_vars => [BestStep]_vars
  BY NextMoves
<1>3. Spec => [][BestStep]_vars
  BY <1>1, <1>2, PTL DEF Spec
<1> QED
  BY <1>3 DEF BestPicked, BestStep

------------------------------------------------------------------------------
(* The cursors take turns.                                                  *)

\* In an empty ring nobody has had a turn.
LEMMA HadOfNone ==
  ASSUME NEW q, Len(q) = 0, NEW s, NEW t
  PROVE  HadOf(q, s, t) = {}
<1>1. 0..(0 - 1) = {}
  OBVIOUS
<1> QED
  BY <1>1 DEF HadOf

\* No round has begun where the cursor stands at its start.
LEMMA ArcNone ==
  ASSUME NEW q, NEW n \in Nat \ {0}, n = Len(q), NEW s \in 0..n-1
  PROVE  Arc(q, s, s) = {}
<1>1. \A z \in 0..n-1 : ~(Ahead(n, s, z) < Ahead(n, s, s))
  BY DEF Ahead
<1> QED
  BY <1>1 DEF Arc

\* Rotation's variables, by the scheduler's, before and after a step.
LEMMA HadThen ==
  ASSUME NEW r \in Rings
  PROVE  /\ Had[r] = HadOf(order[r], start[r], NormalizeCursor(CursorOf(cursors, mixed, r), Len(order[r])))
         /\ Had'[r] = HadOf(order'[r], start'[r], NormalizeCursor(CursorOf(cursors', mixed', r), Len(order'[r])))
         /\ Ring[r] = Range(order[r]) /\ Ring'[r] = Range(order'[r])
  BY DEF Had, HadOf, Position, Ring

\* A ring without a turn in the step served nobody.
LEMMA ServedNobody ==
  ASSUME NEW r \in Rings, \A t \in answer'.turns : t[1] # r
  PROVE  Served'[r].who = {}
  BY DEF Served

\* One with a turn served one.
LEMMA ServedOne ==
  ASSUME NEW r \in Rings, NEW x, NEW able, {t \in answer'.turns : t[1] = r} = {<<r, x, able>>}
  PROVE  Served'[r].who = {x} /\ Served'[r].able = able
<1>1. <<r, x, able>> \in answer'.turns /\ <<r, x, able>>[1] = r
  OBVIOUS
<1>2. \A t \in answer'.turns : t[1] = r => t = <<r, x, able>>
  OBVIOUS
<1>3. (CHOOSE t \in answer'.turns : t[1] = r) = <<r, x, able>>
  BY <1>1, <1>2
<1> QED
  BY <1>1, <1>3 DEF Served

\* Those who had their turn before a step, in the order the ring has after it:
\* from where its round began to where the cursor stood before anybody was served.
LEMMA KeptIs ==
  ASSUME IInv, NEW en, NEW lv, NEW cs, NEW mx, NEW anew, Steps(en, lv, cs, mx, anew),
         NEW r \in Rings, NEW q, q = Order(en, lv, r), NEW P, P = NormalizeCursor(CursorOf(cs, mx, r), Len(q))
  PROVE  Turns!Kept(r) = IF Len(q) = 0 THEN {} ELSE Arc(q, start'[r], P)
<1>1. /\ en \in Entered /\ CursorsIn(en, cs) /\ mx \in [Lists -> 0..Cardinality(Auths)]
      /\ Reordered(Orders(en, lv), cs, mx, anew)
      /\ \/ anew /\ rebuilt' # rebuilt
         \/ ~anew /\ rebuilt' = rebuilt /\ \A s \in Rings : Order(en, lv, s) = Order(entry, level, s) =>
              Stands(Order(en, lv, s), CursorOf(cursors, mixed, s), CursorOf(cs, mx, s))
  BY DEF Steps
<1>2. entry \in Entered /\ CursorsIn(entry, cursors) /\ mixed \in [Lists -> 0..Cardinality(Auths)]
      /\ order[r] = Order(entry, level, r) /\ (Len(order[r]) # 0 => start[r] \in 0..Len(order[r])-1)
  BY OrdersAt DEF IInv
<1>3. order'[r] = q
  BY <1>1, OrdersAt DEF Reordered
<1>4. start'[r] = IF anew \/ q # order[r] THEN P ELSE start[r]
  <2>1. Orders(en, lv)[r] = q
    BY OrdersAt
  <2>2. start'[r] = IF anew \/ Orders(en, lv)[r] # order[r] THEN Position(Orders(en, lv), cs, mx, r) ELSE start[r]
    BY <1>1 DEF Reordered
  <2>3. Position(Orders(en, lv), cs, mx, r) = P
    BY <2>1 DEF Position
  <2> QED
    BY <2>1, <2>2, <2>3
<1>5. Range(q) = Range(order[r]) <=> q = order[r]
  BY <1>1, <1>2, OrderSame
<1>6. Turns!Same(r) <=> q = order[r] /\ ~anew
  <2>1. Turns!Same(r) <=> Ring'[r] = Ring[r] /\ rebuilt' = rebuilt
    BY DEF Turns!Same
  <2>2. Ring'[r] = Range(q) /\ Ring[r] = Range(order[r])
    BY <1>3, HadThen
  <2> QED
    BY <1>1, <1>5, <2>1, <2>2
<1>7. Turns!Kept(r) = IF Turns!Same(r) THEN Had[r] ELSE {}
  BY DEF Turns!Kept
<1>8. PICK n \in Nat : n = Len(q)
  <2>1. Len(q) \in 0..Cardinality(Auths)
    BY <1>1, RingListed
  <2> QED
    BY <2>1, Constants
<1>9. CASE n = 0
  <2>1. q = order[r] => Had[r] = {}
    <3>1. Had[r] = HadOf(order[r], start[r], NormalizeCursor(CursorOf(cursors, mixed, r), Len(order[r])))
      BY HadThen
    <3> QED
      BY <1>8, <1>9, <3>1, HadOfNone
  <2> QED
    BY <1>6, <1>7, <1>8, <1>9, <2>1
<1>10. CASE n # 0
  <2>1. n \in Nat \ {0} /\ P \in 0..n-1
    BY <1>1, <1>8, <1>10, PlaceIn
  <2>2. CASE q = order[r] /\ ~anew
    <3>1. P = NormalizeCursor(CursorOf(cursors, mixed, r), Len(q))
      BY <1>1, <1>2, <2>2 DEF Stands
    <3>2. start'[r] = start[r] /\ start[r] \in 0..n-1
      BY <1>2, <1>4, <1>8, <1>10, <2>2
    <3>3. Had[r] = HadOf(q, start[r], P)
      BY <2>2, <3>1, HadThen
    <3>4. Had[r] = Arc(q, start[r], P)
      BY <1>8, <2>1, <3>2, <3>3, HadOfArc
    <3> QED
      BY <1>6, <1>7, <1>8, <1>10, <2>2, <3>2, <3>4
  <2>3. CASE ~(q = order[r] /\ ~anew)
    <3>1. start'[r] = P
      BY <1>4, <2>3
    <3>2. Arc(q, P, P) = {}
      BY <1>8, <2>1, ArcNone
    <3> QED
      BY <1>6, <1>7, <1>8, <1>10, <2>3, <3>1, <3>2
  <2> QED
    BY <2>2, <2>3
<1> QED
  BY <1>9, <1>10

\* A step gives every ring a turn of Rotation.
LEMMA RingTurns ==
  ASSUME IInv, IInv', NEW en, NEW lv, NEW cs, NEW mx, NEW anew, Steps(en, lv, cs, mx, anew), NEW r \in Rings
  PROVE  Turns!Turn(r)
<1>1. PICK q, c1, c2 : /\ q = Order(en, lv, r) /\ c1 = CursorOf(cs, mx, r)
                       /\ c2 = CursorOf(cursors', mixed', r)
  OBVIOUS
<1>2. /\ en \in Entered /\ CursorsIn(en, cs) /\ mx \in [Lists -> 0..Cardinality(Auths)]
      /\ Reordered(Orders(en, lv), cs, mx, anew)
      /\ RingStep(q, c1, c2, answer'.turns, r)
  BY <1>1 DEF Steps
<1>3. order'[r] = q
  BY <1>1, <1>2, OrdersAt DEF Reordered
<1>4. PICK n \in Nat : n = Len(q)
  <2>1. Len(q) \in 0..Cardinality(Auths)
    BY <1>1, <1>2, RingListed
  <2> QED
    BY <2>1, Constants
<1>5. PICK P : P = NormalizeCursor(c1, n)
  OBVIOUS
<1>6. Turns!Kept(r) = IF n = 0 THEN {} ELSE Arc(q, start'[r], P)
  BY <1>1, <1>4, <1>5, KeptIs
<1>7. Had'[r] = HadOf(q, start'[r], NormalizeCursor(c2, n)) /\ Ring'[r] = Range(q)
  BY <1>1, <1>3, <1>4, HadThen
<1>8. n # 0 => start'[r] \in 0..n-1
  BY <1>3, <1>4 DEF IInv
<1>9. n # 0 => c1 \in Nat
  BY <1>1, <1>2, <1>4, CursorNat
<1>10. CASE (\A t \in answer'.turns : t[1] # r) /\ Stands(q, c1, c2)
  <2>1. Served'[r].who = {}
    BY <1>10, ServedNobody
  <2>2. NormalizeCursor(c2, n) = P
    BY <1>4, <1>5, <1>10 DEF Stands
  <2>3. Had'[r] = Turns!Kept(r)
    <3>1. CASE n = 0
      BY <1>4, <1>6, <1>7, <3>1, HadOfNone
    <3>2. CASE n # 0
      <4>1. P \in 0..n-1 /\ n \in Nat \ {0}
        BY <1>5, <1>9, <3>2, Normal
      <4> QED
        BY <1>4, <1>6, <1>7, <1>8, <2>2, <3>2, <4>1, HadOfArc
    <3> QED
      BY <3>1, <3>2
  <2> QED
    BY <2>1, <2>3 DEF Turns!Turn
<1>11. CASE \E x, able : {t \in answer'.turns : t[1] = r} = {<<r, x, able>>} /\ Serves(q, c1, c2, x, able)
  <2>1. PICK x, able : {t \in answer'.turns : t[1] = r} = {<<r, x, able>>} /\ Serves(q, c1, c2, x, able)
    BY <1>11
  <2>2. Served'[r].who = {x} /\ Served'[r].able = able
    BY <2>1, ServedOne
  <2>3. n # 0 /\ able \subseteq Range(q)
    BY <1>4, <2>1 DEF Serves
  <2>4. PICK i \in 0..n-1 : First(q, c1 % n, i, able) /\ x = q[i + 1] /\ c2 = i + 1
    BY <1>4, <2>1 DEF Serves
  <2>5. PICK s \in 0..n-1 : s = start'[r]
    BY <1>8, <2>3
  <2>6. P = c1 % n /\ P \in 0..n-1 /\ n \in Nat \ {0}
    BY <1>5, <1>9, <2>3, Normal
  <2>7. Enumerates(q, Range(q))
    BY <1>1, <1>2, RingListed
  <2>8. TurnGiven(Range(q), Arc(q, s, P), able, q[i + 1], Arc(q, s, (i + 1) % n))
    BY <1>4, <2>3, <2>4, <2>6, <2>7, RingTurn, Zenon
  <2>9. Had'[r] = Arc(q, s, (i + 1) % n)
    <3>1. i + 1 \in Nat /\ i + 1 \in Int
      BY <2>4
    <3>2. NormalizeCursor(i + 1, n) = (i + 1) % n /\ NormalizeCursor(i + 1, n) \in 0..n-1
      BY <2>6, <3>1, Normal
    <3> QED
      BY <1>4, <1>7, <2>4, <2>5, <2>6, <3>2, HadOfArc
  <2>10. Turns!Kept(r) = Arc(q, s, P)
    BY <1>6, <2>3, <2>5
  <2>11. PICK lost \in SUBSET (Range(q) \ able) : Turns!Serve(r, x, lost)
    <3>1. TurnGiven(Ring'[r], Turns!Kept(r), Served'[r].able, x, Had'[r])
      BY <1>7, <2>2, <2>4, <2>8, <2>9, <2>10
    <3>2. PICK lost \in SUBSET (Ring'[r] \ Served'[r].able) :
            LET round == IF Served'[r].able \subseteq Turns!Kept(r) THEN {} ELSE Turns!Kept(r)
                now == round \cup lost \cup {x}
            IN /\ x \in Served'[r].able \ round
               /\ Had'[r] = IF now = Ring'[r] THEN {} ELSE now
      BY <3>1 DEF TurnGiven
    <3>3. Turns!Serve(r, x, lost)
      BY <3>2 DEF Turns!Serve
    <3> QED
      BY <1>7, <2>2, <3>3
  <2>12. x \in able
    BY <2>4 DEF First
  <2> QED
    BY <1>7, <2>2, <2>3, <2>11, <2>12 DEF Turns!Turn
<1> QED
  BY <1>2, <1>10, <1>11 DEF RingStep

\* The scheduler begins where Rotation does.
LEMMA TurnsBegin == Init => Turns!Init
<1> SUFFICES ASSUME Init PROVE Turns!Init
  OBVIOUS
<1>1. \A r \in Rings : Had[r] = {}
  <2>1. ASSUME NEW r \in Rings PROVE Had[r] = {}
    <3>1. Len(order[r]) = 0
      BY DEF Init
    <3>2. Had[r] = HadOf(order[r], start[r], NormalizeCursor(CursorOf(cursors, mixed, r), Len(order[r])))
      BY HadThen
    <3> QED
      BY <3>1, <3>2, HadOfNone
  <2> QED
    BY <2>1
<1>2. Had = [r \in Rings |-> {}]
  <2>1. Had = [r \in Rings |-> Had[r]]
    BY DEF Had
  <2> QED
    BY <1>1, <2>1
<1>3. Served = [r \in Rings |-> [who |-> {}, able |-> {}]]
  BY DEF Init, Silence, Served
<1> QED
  BY <1>2, <1>3 DEF Turns!Init

\* Every step of the scheduler is one of Rotation, in all rings at once.
LEMMA TurnsNext ==
  IInv /\ IInv' /\ [Next]_vars => [Turns!Next]_<<Ring, Had, Served, rebuilt>>
<1> SUFFICES ASSUME IInv, IInv', [Next]_vars PROVE [Turns!Next]_<<Ring, Had, Served, rebuilt>>
  OBVIOUS
<1>1. CASE Next
  <2>1. Moves
    BY <1>1, NextMoves
  <2>2. PICK en, lv, cs, mx, anew : Steps(en, lv, cs, mx, anew)
    BY <2>1 DEF Moves
  <2>3. \A r \in Rings : Turns!Turn(r)
    BY <2>2, RingTurns
  <2> QED
    BY <2>3 DEF Turns!Next
<1>2. CASE UNCHANGED vars
  <2>1. UNCHANGED <<cursors, mixed, rebuilt, order, start, answer>>
    BY <1>2 DEF vars, held
  <2>2. UNCHANGED <<Ring, Had, Served, rebuilt>>
    BY <2>1 DEF Ring, Had, Served, Position
  <2> QED
    BY <2>2
<1> QED
  BY <1>1, <1>2

\* The scheduler implements Rotation: its cursors, positions kept, normalised and
\* restored as indexes are rebuilt around them, give every ring its turns, so
\* that nobody is served twice in a round while another might be.
THEOREM TurnsTaken == Spec => TakesTurns
<1>1. Spec => []IInv
  BY InitInv, InvKept, PTL DEF Spec
<1>2. Spec => [][Turns!Next]_<<Ring, Had, Served, rebuilt>>
  BY <1>1, TurnsNext, PTL DEF Spec
<1>3. Spec => Turns!Init
  BY TurnsBegin, PTL DEF Spec
<1> QED
  BY <1>2, <1>3, PTL DEF TakesTurns, Turns!Spec
==============================================================================
