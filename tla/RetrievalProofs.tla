-------------------------- MODULE RetrievalProofs --------------------------
(***************************************************************************)
(* What Retrieval establishes for every set of chunks, every limit and     *)
(* every interleaving of a request with changes to the items.  First the   *)
(* operators: an order laid out in places, a subsequence, fusion, the hits *)
(* of the reranker and compression.  Then the invariant of the request,    *)
(* from which its three properties follow.                                 *)
(***************************************************************************)
EXTENDS Retrieval, FiniteSetTheorems, NaturalsInduction, WellFoundedInduction, TLAPS

---------------------------------------------------------------------------
(* Induction and recursion along a sequence.                               *)

\* The order of the natural numbers.
Less == {p \in Nat \X Nat : p[1] < p[2]}

LEMMA LeastNatural ==
    ASSUME NEW S \in SUBSET Nat, S # {}
    PROVE  \E v \in S : \A w \in S : v <= w
<1>1. IsWellFoundedOn(Less, Nat)
  BY NatLessThanWellFounded DEF OpToRel, Less
<1>2. PICK v \in S : \A w \in S : <<w, v>> \notin Less
  BY <1>1, WFMin
<1>3. \A w \in S : ~ (w < v)
  BY <1>2 DEF Less
<1> QED
  BY <1>3

\* The least place of a set is its minimum.
LEMMA MinIsLeast ==
    ASSUME NEW S \in SUBSET Nat, S # {}
    PROVE  Min(S) \in S /\ \A w \in S : Min(S) <= w
BY LeastNatural DEF Min

\* What holds of 0, and of every i when it holds of i - 1, holds up to n.
LEMMA UpTo ==
    ASSUME NEW n \in Nat, NEW P, 0 \in P, \A i \in 1..n : i - 1 \in P => i \in P
    PROVE  \A i \in 0..n : i \in P
<1> DEFINE bad == {i \in 0..n : i \notin P}
<1>1. CASE bad = {}
  BY <1>1
<1>2. CASE bad # {}
  <2>1. PICK v \in bad : \A w \in bad : v <= w
    <3>1. bad \in SUBSET Nat
      OBVIOUS
    <3> HIDE DEF bad
    <3> QED
      BY <1>2, <3>1, LeastNatural
  <2>2. v \in 1..n /\ v \notin P
    BY <2>1
  <2>3. v - 1 \in P
    <3>1. v - 1 \notin bad
      BY <2>1, <2>2
    <3> QED
      BY <2>2, <3>1
  <2> QED
    BY <2>2, <2>3
<1> QED
  BY <1>1, <1>2

\* f runs from base through one step for each of 1..n, within S.
Runs(f, n, S, base, step) ==
    /\ f \in [0..n -> S]
    /\ f[0] = base
    /\ \A i \in 1..n : f[i] = step[i][f[i - 1]]

\* A recursion along 1..n has a solution.
LEMMA Recursion ==
    ASSUME NEW n \in Nat, NEW S, NEW base \in S, NEW step \in [1..n -> [S -> S]]
    PROVE  \E f : Runs(f, n, S, base, step)
<1> DEFINE Solves(f, m) == /\ f \in [0..m -> S]
                           /\ f[0] = base
                           /\ \A i \in 1..m : f[i] = step[i][f[i - 1]]
           P == {m \in 0..n : \E f : Solves(f, m)}
<1>1. 0 \in P
  <2> DEFINE f == [i \in 0..0 |-> base]
  <2>1. f \in [0..0 -> S] /\ f[0] = base /\ 1..0 = {}
    OBVIOUS
  <2> HIDE DEF f
  <2>2. Solves(f, 0)
    BY <2>1
  <2> QED
    BY <2>2
<1>2. ASSUME NEW m \in 1..n, m - 1 \in P PROVE m \in P
  <2>1. PICK f : Solves(f, m - 1)
    BY <1>2
  <2> DEFINE x == step[m][f[m - 1]]
             g == [i \in 0..m |-> IF i = m THEN x ELSE f[i]]
  <2>2. x \in S
    BY <2>1
  <2> HIDE DEF x
  <2>3. g \in [0..m -> S]
    BY <2>1, <2>2
  <2>4. g[0] = base
    BY <2>1
  <2>5. \A i \in 0..m : i # m => g[i] = f[i]
    OBVIOUS
  <2>6. g[m] = x /\ g[m - 1] = f[m - 1]
    BY <2>5
  <2> HIDE DEF g
  <2>7. ASSUME NEW i \in 1..m PROVE g[i] = step[i][g[i - 1]]
    <3>1. CASE i = m
      BY <2>6, <3>1 DEF x
    <3>2. CASE i # m
      <4>1. g[i] = f[i] /\ g[i - 1] = f[i - 1] /\ i \in 1..(m - 1)
        BY <2>5, <3>2
      <4> QED
        BY <2>1, <4>1
    <3> QED
      BY <3>1, <3>2
  <2>8. Solves(g, m) /\ m \in 0..n
    BY <2>3, <2>4, <2>7
  <2> HIDE DEF Solves
  <2> QED
    BY <2>8
<1> HIDE DEF P
<1>3. \A m \in 1..n : m - 1 \in P => m \in P
  BY <1>2
<1>4. \A m \in 0..n : m \in P
  BY <1>1, <1>3, UpTo
<1>5. n \in P
  BY <1>4
<1> QED
  BY <1>5 DEF P, Runs

---------------------------------------------------------------------------
(* An order laid out in places, and subsequences.                          *)

\* When no two elements share one of as many places, every place has its element.
LEMMA InPlaceLists ==
    ASSUME NEW S, IsFiniteSet(S), NEW place \in [S -> 1..Cardinality(S)],
           \A c, d \in S : place[c] = place[d] => c = d
    PROVE  /\ Cardinality(S) \in Nat
           /\ InPlace(place) \in [1..Cardinality(S) -> S]
           /\ \A i \in 1..Cardinality(S) : place[InPlace(place)[i]] = i
           /\ \A c \in S : InPlace(place)[place[c]] = c
<1> DEFINE n == Cardinality(S)
<1>1. n \in Nat
  BY FS_CardinalityType
<1>2. IsFiniteSet(1..n) /\ Cardinality(1..n) = n
  BY <1>1, FS_Interval
<1>3. place \in Injection(S, 1..n)
  BY DEF Injection, IsInjective
<1>4. place \in Surjection(S, 1..n)
  BY <1>2, <1>3, FS_Injection
<1>5. \A i \in 1..n : \E c \in S : place[c] = i
  BY <1>4 DEF Surjection
<1>6. DOMAIN place = S
  OBVIOUS
<1>7. InPlace(place) = [i \in 1..n |-> CHOOSE c \in S : place[c] = i]
  BY <1>6 DEF InPlace
<1>8. \A i \in 1..n : InPlace(place)[i] \in S /\ place[InPlace(place)[i]] = i
  BY <1>5, <1>7
<1>9. InPlace(place) \in [1..n -> S]
  BY <1>7, <1>8
<1>10. ASSUME NEW c \in S PROVE InPlace(place)[place[c]] = c
  BY <1>8
<1> QED
  BY <1>1, <1>8, <1>9, <1>10

\* The place of an element of a strict total order, counting those ahead of it.
Place(S, R) == [c \in S |-> 1 + Cardinality({d \in S : <<d, c>> \in R})]

LEMMA PlacesFollowOrder ==
    ASSUME NEW S, IsFiniteSet(S), NEW R,
           \A c \in S : <<c, c>> \notin R,
           \A c, d, e \in S : <<c, d>> \in R /\ <<d, e>> \in R => <<c, e>> \in R,
           \A c, d \in S : c = d \/ <<c, d>> \in R \/ <<d, c>> \in R
    PROVE  /\ Place(S, R) \in [S -> 1..Cardinality(S)]
           /\ \A c, d \in S : <<c, d>> \in R => Place(S, R)[c] < Place(S, R)[d]
           /\ \A c, d \in S : Place(S, R)[c] = Place(S, R)[d] => c = d
<1> DEFINE before(c) == {d \in S : <<d, c>> \in R}
<1>1. Cardinality(S) \in Nat
  BY FS_CardinalityType
<1>2. ASSUME NEW c \in S
      PROVE  /\ IsFiniteSet(before(c)) /\ Cardinality(before(c)) \in Nat
             /\ Cardinality(before(c)) + 1 <= Cardinality(S)
             /\ Place(S, R)[c] = 1 + Cardinality(before(c))
  <2>1. IsFiniteSet(S \ {c}) /\ Cardinality(S \ {c}) = Cardinality(S) - 1
    BY FS_RemoveElement
  <2>2. before(c) \in SUBSET (S \ {c})
    OBVIOUS
  <2>3. IsFiniteSet(before(c)) /\ Cardinality(before(c)) <= Cardinality(S \ {c})
    BY <2>1, <2>2, FS_Subset
  <2>4. Cardinality(before(c)) \in Nat
    BY <2>3, FS_CardinalityType
  <2>5. Place(S, R)[c] = 1 + Cardinality(before(c))
    BY DEF Place
  <2> HIDE DEF before
  <2> QED
    BY <1>1, <2>1, <2>3, <2>4, <2>5
<1>3. ASSUME NEW c \in S, NEW d \in S, <<c, d>> \in R
      PROVE  Cardinality(before(c)) < Cardinality(before(d))
  <2>1. before(c) \cup {c} \in SUBSET before(d)
    BY <1>3
  <2>2. c \notin before(c)
    OBVIOUS
  <2> HIDE DEF before
  <2>3. Cardinality(before(c) \cup {c}) = Cardinality(before(c)) + 1
    BY <1>2, <2>2, FS_AddElement
  <2>4. Cardinality(before(c) \cup {c}) <= Cardinality(before(d))
    BY <1>2, <2>1, FS_Subset
  <2> QED
    BY <1>2, <2>3, <2>4
<1>4. Place(S, R) = [c \in S |-> Place(S, R)[c]]
  BY DEF Place
<1> HIDE DEF before
<1>5. \A c \in S : Place(S, R)[c] \in 1..Cardinality(S)
  BY <1>1, <1>2
<1>6. Place(S, R) \in [S -> 1..Cardinality(S)]
  BY <1>4, <1>5
<1>7. ASSUME NEW c \in S, NEW d \in S, <<c, d>> \in R PROVE Place(S, R)[c] < Place(S, R)[d]
  BY <1>2, <1>3, <1>7
<1>8. ASSUME NEW c \in S, NEW d \in S, Place(S, R)[c] = Place(S, R)[d] PROVE c = d
  <2>1. Place(S, R)[c] \in Nat /\ Place(S, R)[d] \in Nat
    BY <1>1, <1>5
  <2>2. <<c, d>> \notin R /\ <<d, c>> \notin R
    BY <1>7, <1>8, <2>1
  <2> QED
    BY <2>2
<1> QED
  BY <1>6, <1>7, <1>8

\* A function on 1..n is a sequence.
LEMMA Listed ==
    ASSUME NEW S, NEW n \in Nat, NEW f \in [1..n -> S]
    PROVE  f \in Seq(S) /\ Len(f) = n
OBVIOUS

\* The first elements of a sequence.
LEMMA TopOf ==
    ASSUME NEW S, NEW s \in Seq(S), NEW n \in Nat
    PROVE  /\ Top(s, n) \in Seq(S)
           /\ Len(Top(s, n)) = Least(n, Len(s))
           /\ \A i \in 1..Len(Top(s, n)) : i \in 1..Len(s) /\ Top(s, n)[i] = s[i]
<1>1. Least(n, Len(s)) \in 0..Len(s) /\ Least(n, Len(s)) <= n
  BY DEF Least
<1> DEFINE m == Least(n, Len(s))
<1> HIDE DEF m
<1>2. m \in 0..Len(s)
  BY <1>1 DEF m
<1>3. /\ SubSeq(s, 1, m) \in Seq(S) /\ Len(SubSeq(s, 1, m)) = m
      /\ \A i \in 1..m : i \in 1..Len(s) /\ SubSeq(s, 1, m)[i] = s[i]
  BY <1>2
<1> QED
  BY <1>3 DEF Top, m

\* Through order, q lists the elements of s at the places I, each place once.
Lists(q, s, I, order) ==
    /\ order \in [1..Len(q) -> I]
    /\ \A i \in 1..Len(q) : q[i] = s[order[i]]
    /\ \A i, j \in 1..Len(q) : order[i] = order[j] => i = j
    /\ \A n \in I : \E i \in 1..Len(q) : order[i] = n

LEMMA AtPlaces ==
    ASSUME NEW S, NEW s \in Seq(S), NEW I \in SUBSET (1..Len(s))
    PROVE  /\ At(s, I) \in Seq(S)
           /\ IsFiniteSet(I) /\ Len(At(s, I)) = Cardinality(I)
           /\ \E order : Lists(At(s, I), s, I, order)
<1>1. IsFiniteSet(I)
  <2>1. IsFiniteSet(1..Len(s))
    BY FS_Interval
  <2> QED
    BY <2>1, FS_Subset
<1>2. ASSUME NEW n \in I
      PROVE  Cardinality(I \cap 1..n) = 1 + Cardinality({d \in I : <<d, n>> \in Less})
  <2> DEFINE b == {d \in I : <<d, n>> \in Less}
  <2>1. I \cap 1..n = b \cup {n} /\ n \notin b /\ b \in SUBSET I
    BY DEF Less
  <2>2. IsFiniteSet(b) /\ Cardinality(b) \in Nat
    BY <1>1, <2>1, FS_Subset, FS_CardinalityType
  <2> HIDE DEF b
  <2>3. Cardinality(b \cup {n}) = Cardinality(b) + 1
    BY <2>1, <2>2, FS_AddElement
  <2>4. Cardinality(I \cap 1..n) = Cardinality(b \cup {n})
    BY <2>1
  <2>5. Cardinality(I \cap 1..n) = 1 + Cardinality(b)
    BY <2>2, <2>3, <2>4
  <2> QED
    BY <2>5 DEF b
<1>3. [n \in I |-> Cardinality(I \cap 1..n)] = Place(I, Less)
  BY <1>2 DEF Place
<1> DEFINE q == InPlace(Place(I, Less))
           k == Cardinality(I)
<1>4. /\ Place(I, Less) \in [I -> 1..k]
      /\ \A c, d \in I : Place(I, Less)[c] = Place(I, Less)[d] => c = d
  <2>1. \A c \in I : <<c, c>> \notin Less
    BY DEF Less
  <2>2. \A c, d, e \in I : <<c, d>> \in Less /\ <<d, e>> \in Less => <<c, e>> \in Less
    BY DEF Less
  <2>3. \A c, d \in I : c = d \/ <<c, d>> \in Less \/ <<d, c>> \in Less
    BY DEF Less
  <2> QED
    BY <1>1, <2>1, <2>2, <2>3, PlacesFollowOrder
<1>5. /\ k \in Nat /\ q \in [1..k -> I]
      /\ \A i \in 1..k : Place(I, Less)[q[i]] = i
      /\ \A c \in I : q[Place(I, Less)[c]] = c
  BY <1>1, <1>4, InPlaceLists
<1>6. At(s, I) = [i \in DOMAIN q |-> s[q[i]]]
  BY <1>3 DEF At
<1> HIDE DEF q, k
<1>7. \A i \in 1..k : s[q[i]] \in S
  <2>1. \A i \in 1..k : q[i] \in 1..Len(s)
    BY <1>5
  <2> QED
    BY <2>1
<1>8. At(s, I) \in [1..k -> S] /\ \A i \in 1..k : At(s, I)[i] = s[q[i]]
  BY <1>5, <1>6, <1>7
<1>9. At(s, I) \in Seq(S) /\ Len(At(s, I)) = k
  BY <1>5, <1>8
<1>10. \A i, j \in 1..k : q[i] = q[j] => i = j
  BY <1>5
<1>11. \A n \in I : \E i \in 1..k : q[i] = n
  BY <1>4, <1>5
<1>12. Lists(At(s, I), s, I, q)
  <2>1. Len(At(s, I)) = k
    BY <1>9
  <2> QED
    BY <1>5, <1>8, <1>10, <1>11, <2>1 DEF Lists
<1> QED
  BY <1>1, <1>9, <1>12 DEF k

---------------------------------------------------------------------------
(* Fusion.                                                                 *)

\* The common denominator is a multiple of what each place divides it by.
LEMMA WholeIsShared ==
    /\ Whole \in Nat \ {0}
    /\ \A i \in 1..Cap : \E q \in Nat \ {0} : Whole = (RrfK + i) * q
<1> DEFINE Eq(g) == g = [n \in 0..Cap |-> IF n = 0 THEN 1 ELSE (RrfK + n) * g[n - 1]]
           product == CHOOSE g : Eq(g)
           times == [i \in 1..Cap |-> [x \in Nat |-> (RrfK + i) * x]]
           Divides(g, m) == /\ g[m] \in Nat \ {0}
                            /\ \A i \in 1..m : \E q \in Nat \ {0} : g[m] = (RrfK + i) * q
<1>1. Cap \in Nat /\ RrfK \in Nat \ {0}
  BY RetrievalConstants
<1>2. times \in [1..Cap -> [Nat -> Nat]]
  BY <1>1
<1>3. PICK f : /\ f \in [0..Cap -> Nat] /\ f[0] = 1
               /\ \A i \in 1..Cap : f[i] = times[i][f[i - 1]]
  <2> HIDE DEF times
  <2>1. PICK m, T, b, g : m = Cap /\ T = Nat /\ b = 1 /\ g = times
    OBVIOUS
  <2>2. m \in Nat /\ b \in T /\ g \in [1..m -> [T -> T]]
    BY <1>1, <1>2, <2>1
  <2>3. \E f : Runs(f, m, T, b, g)
    BY <2>2, Recursion
  <2> QED
    BY <2>1, <2>3 DEF Runs
<1>4. Eq(f)
  <2>1. ASSUME NEW i \in 1..Cap PROVE times[i][f[i - 1]] = (RrfK + i) * f[i - 1]
    <3>1. f[i - 1] \in Nat
      BY <1>1, <1>3
    <3> QED
      BY <3>1
  <2> HIDE DEF times
  <2> DEFINE h == [i \in 0..Cap |-> IF i = 0 THEN 1 ELSE (RrfK + i) * f[i - 1]]
  <2>2. ASSUME NEW i \in 0..Cap PROVE f[i] = h[i]
    <3>1. CASE i = 0
      BY <1>3, <3>1
    <3>2. CASE i \in 1..Cap
      BY <1>3, <2>1, <3>2
    <3> QED
      BY <1>1, <3>1, <3>2
  <2>3. f = h
    BY <1>3, <2>2
  <2> QED
    BY <2>3
<1>5. Eq(product)
  BY <1>4
<1>6. Whole = product[Cap]
  BY DEF Whole
<1> HIDE DEF product, times
<1>7. product[0] = 1 /\ \A i \in 1..Cap : product[i] = (RrfK + i) * product[i - 1]
  BY <1>1, <1>5
<1> DEFINE P == {m \in 0..Cap : Divides(product, m)}
<1>8. 0 \in P
  BY <1>1, <1>7
<1>9. ASSUME NEW m \in 1..Cap, m - 1 \in P PROVE m \in P
  <2>1. product[m - 1] \in Nat \ {0}
    BY <1>9
  <2>2. PICK x \in Nat \ {0} : x = product[m - 1]
    BY <2>1
  <2>3. product[m] = (RrfK + m) * x
    BY <1>7, <2>2
  <2>4. (RrfK + m) * x \in Nat \ {0}
    BY <1>1
  <2>5. ASSUME NEW i \in 1..m PROVE \E q \in Nat \ {0} : product[m] = (RrfK + i) * q
    <3>1. CASE i = m
      BY <2>3, <3>1
    <3>2. CASE i # m
      <4>1. i \in 1..(m - 1)
        BY <3>2
      <4>2. PICK q \in Nat \ {0} : x = (RrfK + i) * q
        BY <1>9, <2>2, <4>1
      <4>3. (RrfK + m) * q \in Nat \ {0}
        BY <1>1
      <4>4. (RrfK + m) * ((RrfK + i) * q) = (RrfK + i) * ((RrfK + m) * q)
        BY <1>1
      <4> QED
        BY <2>3, <4>2, <4>3, <4>4
    <3> QED
      BY <3>1, <3>2
  <2> QED
    BY <2>3, <2>4, <2>5
<1> HIDE DEF P
<1>10. Cap \in P
  <2>1. \A m \in 1..Cap : m - 1 \in P => m \in P
    BY <1>9
  <2>2. \A m \in 0..Cap : m \in P
    BY <1>1, <1>8, <2>1, UpTo
  <2> QED
    BY <1>1, <2>2
<1> QED
  BY <1>6, <1>10 DEF P

LEMMA Quotient ==
    ASSUME NEW w \in Nat, NEW d \in Nat \ {0}
    PROVE  /\ w \div d \in Nat
           /\ d * (w \div d) <= w /\ w < d * (w \div d) + d
OBVIOUS

\* A later place counts for less.
LEMMA ShareFalls ==
    ASSUME NEW i \in 1..Cap, NEW j \in Nat, i < j
    PROVE  Whole \div (RrfK + j) < Whole \div (RrfK + i)
<1>1. RrfK \in Nat \ {0} /\ Whole \in Nat
  BY WholeIsShared, RetrievalConstants
<1>2. PICK q \in Nat \ {0} : Whole = (RrfK + i) * q
  BY WholeIsShared
<1> DEFINE a == RrfK + i
           b == RrfK + j
           x == Whole \div a
           y == Whole \div b
<1>3. a \in Nat \ {0} /\ b \in Nat \ {0} /\ a + 1 <= b
  BY <1>1, RetrievalConstants
<1>4. x \in Nat /\ Whole < a * x + a
  BY <1>1, <1>3, Quotient
<1>5. y \in Nat /\ b * y <= Whole
  BY <1>1, <1>3, Quotient
<1>6. Whole = a * q
  BY <1>2
<1> HIDE DEF a, b, x, y
<1>7. q <= x
  <2>1. a * q < a * (x + 1)
    BY <1>3, <1>4, <1>6
  <2> QED
    BY <1>3, <1>4, <2>1
<1>8. y < q
  <2>1. a * q < b * q
    BY <1>3
  <2>2. b * y < b * q
    BY <1>1, <1>3, <1>5, <1>6, <2>1
  <2> QED
    BY <1>3, <1>5, <2>2
<1> QED
  BY <1>4, <1>5, <1>7, <1>8 DEF a, b, x, y

\* What a search returns: chunks, each once.
Ranking == {s \in Seq(Chunk) : \A i, j \in 1..Len(s) : s[i] = s[j] => i = j}

LEMMA ShareOf ==
    ASSUME NEW s \in Ranking, NEW c \in Chunk
    PROVE  /\ Share(s, c) \in Nat
           /\ \A i \in 1..Len(s) : s[i] = c => Share(s, c) = Whole \div (RrfK + i)
           /\ c \notin ToSet(s) => Share(s, c) = 0
<1>1. s \in Seq(Chunk) /\ \A i, j \in 1..Len(s) : s[i] = s[j] => i = j
  BY DEF Ranking
<1>2. ASSUME NEW i \in 1..Len(s), s[i] = c
      PROVE  Share(s, c) = Whole \div (RrfK + i) /\ Share(s, c) \in Nat
  <2>1. c \in ToSet(s)
    BY <1>1, <1>2 DEF ToSet
  <2>2. {k \in DOMAIN s : s[k] = c} = {i}
    BY <1>1, <1>2
  <2>3. Min({i}) = i
    BY DEF Min
  <2>4. Share(s, c) = Whole \div (RrfK + i)
    BY <2>1, <2>2, <2>3 DEF Share
  <2>5. Whole \in Nat /\ RrfK + i \in Nat \ {0}
    BY WholeIsShared, RetrievalConstants
  <2> QED
    BY <2>4, <2>5, Quotient
<1>3. ASSUME c \notin ToSet(s) PROVE Share(s, c) = 0
  BY <1>3 DEF Share
<1>4. c \in ToSet(s) => \E i \in 1..Len(s) : s[i] = c
  BY <1>1 DEF ToSet
<1> QED
  BY <1>2, <1>3, <1>4

\* The chunks that either search found.
Found(lex, sem) == ToSet(lex) \cup ToSet(sem)

LEMMA RankingSet ==
    ASSUME NEW s \in Ranking
    PROVE  /\ ToSet(s) \in SUBSET Chunk /\ IsFiniteSet(ToSet(s))
           /\ \A c : c \in ToSet(s) <=> \E i \in 1..Len(s) : s[i] = c
           /\ Cardinality(ToSet(s)) = Len(s)
<1>1. s \in Seq(Chunk) /\ \A i, j \in 1..Len(s) : s[i] = s[j] => i = j
  BY DEF Ranking
<1>2. Len(s) \in Nat /\ s \in [1..Len(s) -> Chunk] /\ ToSet(s) = {s[i] : i \in 1..Len(s)}
  BY <1>1 DEF ToSet
<1>3. s \in Bijection(1..Len(s), ToSet(s))
  BY <1>1, <1>2 DEF Bijection, Injection, Surjection, IsInjective
<1>4. IsFiniteSet(1..Len(s)) /\ Cardinality(1..Len(s)) = Len(s)
  BY <1>2, FS_Interval
<1>5. IsFiniteSet(ToSet(s)) /\ Cardinality(ToSet(s)) = Len(s)
  BY <1>3, <1>4, FS_Bijection DEF ExistsBijection
<1> QED
  BY <1>2, <1>5

LEMMA FoundSet ==
    ASSUME NEW lex \in Ranking, NEW sem \in Ranking
    PROVE  /\ Found(lex, sem) \in SUBSET Chunk /\ IsFiniteSet(Found(lex, sem))
           /\ DOMAIN Scores(lex, sem) = Found(lex, sem)
           /\ \A c \in Found(lex, sem) :
                /\ Scores(lex, sem)[c] = Share(lex, c) + Share(sem, c)
                /\ Scores(lex, sem)[c] \in Nat
<1>1. Found(lex, sem) \in SUBSET Chunk /\ IsFiniteSet(Found(lex, sem))
  BY RankingSet, FS_Union DEF Found
<1>2. Scores(lex, sem) = [c \in Found(lex, sem) |-> Share(lex, c) + Share(sem, c)]
  BY DEF Scores, Found
<1> QED
  BY <1>1, <1>2, ShareOf

\* Fusion keeps the best n of what was found, each once.
LEMMA FuseKeepsTheBest ==
    ASSUME NEW lex \in Ranking, NEW sem \in Ranking, NEW n \in Nat
    PROVE  /\ Fuse(lex, sem, n) \in Ranking
           /\ ToSet(Fuse(lex, sem, n)) \in SUBSET Found(lex, sem)
           /\ Len(Fuse(lex, sem, n)) = Least(n, Cardinality(Found(lex, sem)))
           /\ \A c \in Found(lex, sem), d \in ToSet(Fuse(lex, sem, n)) :
                c \in ToSet(Fuse(lex, sem, n)) \/ Ahead(Scores(lex, sem), d, c)
<1> DEFINE F == Found(lex, sem)
           scores == Scores(lex, sem)
           ahead == {p \in F \X F : Ahead(scores, p[1], p[2])}
           q == InPlace(Place(F, ahead))
           m == Cardinality(F)
<1>1. /\ F \in SUBSET Chunk /\ F \in SUBSET Nat /\ IsFiniteSet(F) /\ DOMAIN scores = F
      /\ \A c \in F : scores[c] \in Nat
  BY FoundSet, RetrievalConstants
<1> HIDE DEF F, scores
<1>2. \A c, d \in F : <<c, d>> \in ahead <=> Ahead(scores, c, d)
  OBVIOUS
<1>3. [c \in F |-> 1 + Cardinality({d \in F : Ahead(scores, d, c)})] = Place(F, ahead)
  <2>1. ASSUME NEW c \in F
        PROVE  {d \in F : Ahead(scores, d, c)} = {d \in F : <<d, c>> \in ahead}
    BY <1>2
  <2> QED
    BY <2>1 DEF Place
<1>4. /\ Place(F, ahead) \in [F -> 1..m]
      /\ \A c, d \in F : <<c, d>> \in ahead => Place(F, ahead)[c] < Place(F, ahead)[d]
      /\ \A c, d \in F : Place(F, ahead)[c] = Place(F, ahead)[d] => c = d
  <2>1. \A c \in F : <<c, c>> \notin ahead
    BY <1>1, <1>2 DEF Ahead
  <2>2. \A c, d, e \in F : <<c, d>> \in ahead /\ <<d, e>> \in ahead => <<c, e>> \in ahead
    BY <1>1, <1>2 DEF Ahead
  <2> HIDE DEF ahead
  <2>3. ASSUME NEW c \in F, NEW d \in F
        PROVE  c = d \/ <<c, d>> \in ahead \/ <<d, c>> \in ahead
    <3>1. scores[c] \in Nat /\ scores[d] \in Nat /\ c \in Nat /\ d \in Nat
      BY <1>1
    <3>2. c = d \/ Ahead(scores, c, d) \/ Ahead(scores, d, c)
      BY <3>1 DEF Ahead
    <3> QED
      BY <1>2, <3>2
  <2> QED
    BY <1>1, <2>1, <2>2, <2>3, PlacesFollowOrder
<1> HIDE DEF ahead
<1>5. /\ m \in Nat /\ q \in [1..m -> F]
      /\ \A i \in 1..m : Place(F, ahead)[q[i]] = i
      /\ \A c \in F : q[Place(F, ahead)[c]] = c
  BY <1>1, <1>4, InPlaceLists
<1>6. Fuse(lex, sem, n) = Top(q, n)
  BY <1>1, <1>3 DEF Fuse, scores
<1> DEFINE f == Fuse(lex, sem, n)
<1> HIDE DEF q, m
<1>7. q \in Seq(F) /\ Len(q) = m
  BY <1>5
<1>8. /\ f \in Seq(F) /\ Len(f) = Least(n, m)
      /\ \A i \in 1..Len(f) : i \in 1..m /\ f[i] = q[i]
  BY <1>6, <1>7, TopOf
<1> HIDE DEF f
<1>9. f \in Ranking
  <2>1. f \in Seq(Chunk)
    BY <1>1, <1>8
  <2>2. \A i, j \in 1..Len(f) : f[i] = f[j] => i = j
    BY <1>5, <1>8
  <2> QED
    BY <2>1, <2>2 DEF Ranking
<1>10. ToSet(f) \in SUBSET F
  BY <1>8 DEF ToSet
<1>11. ASSUME NEW c \in F, NEW d \in ToSet(f)
       PROVE  c \in ToSet(f) \/ Ahead(scores, d, c)
  <2>1. PICK i \in 1..Len(f) : f[i] = d
    BY <1>9, RankingSet
  <2>2. Place(F, ahead)[d] = i /\ d \in F
    BY <1>5, <1>8, <2>1
  <2>3. Place(F, ahead)[c] \in 1..m /\ q[Place(F, ahead)[c]] = c
    BY <1>4, <1>5
  <2>4. CASE Place(F, ahead)[c] \in 1..Len(f)
    <3>1. f[Place(F, ahead)[c]] = c
      BY <1>8, <2>3, <2>4
    <3> QED
      BY <1>9, <2>4, <3>1, RankingSet
  <2>5. CASE Place(F, ahead)[c] \notin 1..Len(f)
    <3>1. Len(f) \in Nat /\ i \in Nat
      BY <1>8
    <3>2. i < Place(F, ahead)[c]
      <4>1. Place(F, ahead)[c] \in Nat /\ Place(F, ahead)[c] >= 1
        BY <1>5, <2>3
      <4> QED
        BY <2>1, <2>5, <3>1, <4>1
    <3>3. c # d /\ <<c, d>> \notin ahead
      BY <1>4, <1>5, <2>2, <2>3, <3>1, <3>2
    <3>4. Ahead(scores, c, d) \/ Ahead(scores, d, c)
      BY <1>1, <2>2, <3>3 DEF Ahead
    <3> QED
      BY <1>2, <2>2, <3>3, <3>4
  <2> QED
    BY <2>4, <2>5
<1> QED
  BY <1>8, <1>9, <1>10, <1>11 DEF f, m, F, scores

---------------------------------------------------------------------------
(* The items of an answer.                                                 *)

ItemSet == [chunk : Chunk, status : Status]

\* Items of different chunks, in an order.
Listing == {items \in Seq(ItemSet) :
              \A i, j \in 1..Len(items) : items[i].chunk = items[j].chunk => i = j}

\* What hydration keeps is entitled, and it keeps all that is.
LEMMA HydratedItems ==
    ASSUME status \in [Chunk -> Status], NEW s \in Ranking, NEW a
    PROVE  /\ Hydrated(a, s) \in Listing
           /\ \A i \in 1..Len(Hydrated(a, s)) :
                \E c \in ToSet(s) : Entitled(a, c) /\ Hydrated(a, s)[i] = Item(c)
           /\ \A c \in ToSet(s) : Entitled(a, c) =>
                \E i \in 1..Len(Hydrated(a, s)) : Hydrated(a, s)[i].chunk = c
<1> DEFINE I == {n \in DOMAIN s : Entitled(a, s[n])}
           p == Passing(a, s)
<1>1. s \in Seq(Chunk) /\ \A i, j \in 1..Len(s) : s[i] = s[j] => i = j
  BY DEF Ranking
<1>2. p = At(s, I) /\ I \in SUBSET (1..Len(s))
  BY <1>1 DEF Passing
<1> HIDE DEF p, I
<1>3. p \in Seq(Chunk)
  BY <1>1, <1>2, AtPlaces
<1>4. PICK order :
        /\ order \in [1..Len(p) -> I]
        /\ \A i \in 1..Len(p) : p[i] = s[order[i]]
        /\ \A i, j \in 1..Len(p) : order[i] = order[j] => i = j
        /\ \A n \in I : \E i \in 1..Len(p) : order[i] = n
  <2>1. \E order : Lists(p, s, I, order)
    BY <1>1, <1>2, AtPlaces
  <2> QED
    BY <2>1 DEF Lists
<1> DEFINE h == Hydrated(a, s)
<1>5. h = [i \in 1..Len(p) |-> Item(p[i])]
  BY <1>3 DEF Hydrated, p
<1> HIDE DEF h
<1>6. \A i \in 1..Len(p) : p[i] \in Chunk /\ Item(p[i]) \in ItemSet /\ Item(p[i]).chunk = p[i]
  BY <1>3 DEF Item, ItemSet
<1>7. h \in Seq(ItemSet) /\ Len(h) = Len(p) /\ \A i \in 1..Len(p) : h[i] = Item(p[i])
  BY <1>3, <1>5, <1>6
<1>8. h \in Listing
  <2>1. ASSUME NEW i \in 1..Len(p), NEW j \in 1..Len(p), p[i] = p[j] PROVE i = j
    <3>1. order[i] \in 1..Len(s) /\ order[j] \in 1..Len(s)
      BY <1>2, <1>4
    <3>2. order[i] = order[j]
      BY <1>1, <1>4, <2>1, <3>1
    <3> QED
      BY <1>4, <3>2
  <2> QED
    BY <1>6, <1>7, <2>1 DEF Listing
<1>9. ASSUME NEW i \in 1..Len(h)
      PROVE  \E c \in ToSet(s) : Entitled(a, c) /\ h[i] = Item(c)
  <2>1. order[i] \in I /\ p[i] = s[order[i]]
    BY <1>4, <1>7
  <2>2. Entitled(a, p[i]) /\ p[i] \in ToSet(s)
    BY <1>1, <1>2, <2>1 DEF I, ToSet
  <2> QED
    BY <1>7, <2>2
<1>10. ASSUME NEW c \in ToSet(s), Entitled(a, c)
       PROVE  \E i \in 1..Len(h) : h[i].chunk = c
  <2>1. PICK n \in 1..Len(s) : s[n] = c
    BY RankingSet
  <2>2. n \in I
    BY <1>10, <2>1 DEF I
  <2>3. PICK i \in 1..Len(p) : order[i] = n
    BY <1>4, <2>2
  <2>4. p[i] = c
    BY <1>4, <2>1, <2>3
  <2> QED
    BY <1>6, <1>7, <2>4
<1> QED
  BY <1>8, <1>9, <1>10 DEF h

\* Taking the first items, or those the reranker chose, adds none and repeats none.
LEMMA TopItems ==
    ASSUME NEW items \in Listing, NEW k \in Nat
    PROVE  Top(items, k) \in Listing /\ ToSet(Top(items, k)) \in SUBSET ToSet(items)
<1>1. items \in Seq(ItemSet)
  BY DEF Listing
<1>2. /\ Top(items, k) \in Seq(ItemSet)
      /\ \A i \in 1..Len(Top(items, k)) : i \in 1..Len(items) /\ Top(items, k)[i] = items[i]
  BY <1>1, TopOf
<1>3. Top(items, k) \in Listing
  BY <1>2 DEF Listing
<1>4. ToSet(Top(items, k)) \in SUBSET ToSet(items)
  BY <1>1, <1>2 DEF ToSet
<1> QED
  BY <1>3, <1>4

LEMMA HitItems ==
    ASSUME NEW items \in Listing, NEW hits \in Seq(Nat), NEW k \in Nat
    PROVE  /\ ApplyHits(items, hits, k) \in Listing
           /\ ToSet(ApplyHits(items, hits, k)) \in SUBSET ToSet(items)
<1> DEFINE fresh == {n \in DOMAIN hits : /\ hits[n] \in DOMAIN items
                                          /\ \A m \in 1..n - 1 : hits[m] # hits[n]}
           all == At(hits, fresh)
           chosen == Top(all, k)
           out == ApplyHits(items, hits, k)
<1>1. items \in Seq(ItemSet) /\ \A i, j \in 1..Len(items) : items[i].chunk = items[j].chunk => i = j
  BY DEF Listing
<1>2. out = [i \in DOMAIN chosen |-> items[chosen[i]]]
  BY <1>1 DEF ApplyHits
<1>3. fresh \in SUBSET (1..Len(hits))
  OBVIOUS
<1>4. /\ \A n \in fresh : hits[n] \in 1..Len(items)
      /\ \A m, n \in fresh : hits[m] = hits[n] => m = n
  <2>1. ASSUME NEW m \in fresh, NEW n \in fresh, hits[m] = hits[n] PROVE m = n
    <3>1. m \notin 1..n - 1 /\ n \notin 1..m - 1
      BY <2>1
    <3>2. m \in 1..Len(hits) /\ n \in 1..Len(hits) /\ Len(hits) \in Nat
      OBVIOUS
    <3> HIDE DEF fresh
    <3> QED
      BY <3>1, <3>2
  <2>2. \A n \in fresh : hits[n] \in 1..Len(items)
    OBVIOUS
  <2> HIDE DEF fresh
  <2> QED
    BY <2>1, <2>2
<1> HIDE DEF fresh
<1>5. all \in Seq(Nat)
  BY <1>3, AtPlaces
<1>6. PICK order :
        /\ order \in [1..Len(all) -> fresh]
        /\ \A i \in 1..Len(all) : all[i] = hits[order[i]]
        /\ \A i, j \in 1..Len(all) : order[i] = order[j] => i = j
  <2>1. \E order : Lists(all, hits, fresh, order)
    BY <1>3, AtPlaces
  <2> QED
    BY <2>1 DEF Lists
<1> HIDE DEF all
<1>7. /\ \A i \in 1..Len(all) : all[i] \in 1..Len(items)
      /\ \A i, j \in 1..Len(all) : all[i] = all[j] => i = j
  <2>1. \A i \in 1..Len(all) : order[i] \in fresh
    BY <1>6
  <2>2. \A i \in 1..Len(all) : all[i] \in 1..Len(items)
    BY <1>4, <1>6, <2>1
  <2>3. ASSUME NEW i \in 1..Len(all), NEW j \in 1..Len(all), all[i] = all[j] PROVE i = j
    <3>1. hits[order[i]] = hits[order[j]] /\ order[i] \in fresh /\ order[j] \in fresh
      BY <1>6, <2>1, <2>3
    <3>2. order[i] = order[j]
      BY <1>4, <3>1
    <3> QED
      BY <1>6, <3>2
  <2> QED
    BY <2>2, <2>3
<1>8. /\ chosen \in Seq(Nat)
      /\ \A i \in 1..Len(chosen) : i \in 1..Len(all) /\ chosen[i] = all[i]
  BY <1>5, TopOf
<1> HIDE DEF chosen, out
<1>9. /\ out \in Seq(ItemSet) /\ Len(out) = Len(chosen)
      /\ \A i \in 1..Len(out) : chosen[i] \in 1..Len(items) /\ out[i] = items[chosen[i]]
  <2> DEFINE m == Len(chosen)
  <2>1. m \in Nat /\ DOMAIN chosen = 1..m
    BY <1>8
  <2>2. \A i \in 1..m : chosen[i] \in 1..Len(items)
    BY <1>7, <1>8
  <2>3. \A i \in 1..m : items[chosen[i]] \in ItemSet
    BY <1>1, <2>2
  <2> HIDE DEF m
  <2>4. out \in [1..m -> ItemSet] /\ \A i \in 1..m : out[i] = items[chosen[i]]
    BY <1>2, <2>1, <2>3
  <2>5. out \in Seq(ItemSet) /\ Len(out) = m
    BY <2>1, <2>4, Listed
  <2> QED
    BY <2>2, <2>4, <2>5 DEF m
<1>10. out \in Listing
  <2>1. ASSUME NEW i \in 1..Len(out), NEW j \in 1..Len(out), out[i].chunk = out[j].chunk
        PROVE  i = j
    <3>1. items[chosen[i]].chunk = items[chosen[j]].chunk
      BY <1>9, <2>1
    <3>2. chosen[i] = chosen[j]
      BY <1>1, <1>9, <3>1
    <3> QED
      BY <1>7, <1>8, <1>9, <3>2
  <2> QED
    BY <1>9, <2>1 DEF Listing
<1>11. ToSet(out) \in SUBSET ToSet(items)
  <2>1. DOMAIN out = 1..Len(out) /\ DOMAIN items = 1..Len(items)
    BY <1>1, <1>9
  <2> QED
    BY <1>9, <2>1 DEF ToSet
<1> QED
  BY <1>10, <1>11 DEF out

---------------------------------------------------------------------------
(* Compression.                                                            *)

\* The same content: one item, or one body that is not blank.
Alike(x, y) ==
    x = y \/ (Doc[x.chunk].body # Blank /\ Doc[x.chunk].body = Doc[y.chunk].body)

LEMMA PreferenceIsNat == \A s \in Status : Preference(s) \in Nat
<1>1. Preference("scratch") = 1
  BY DEF Preference
<1>2. Preference("needs_review") = 2
  BY DEF Preference
<1>3. \A s : s # "scratch" /\ s # "needs_review" => Preference(s) = 0
  BY DEF Preference
<1> QED
  BY <1>1, <1>2, <1>3

\* What the survivors o of the first n items have kept of them.
Kept(items, n, o) ==
    /\ o \in Seq(ItemSet)
    /\ \A k \in 1..Len(o) : \E i \in 1..n : o[k] = items[i]
    /\ \A i \in 1..n : \E k \in 1..Len(o) :
         Alike(o[k], items[i]) /\ Preference(o[k].status) <= Preference(items[i].status)
    /\ \A k, l \in 1..Len(o) : k < l =>
         \E i \in 1..n : /\ Alike(items[i], o[k])
                         /\ \A j \in 1..Len(items) : Alike(items[j], o[l]) => i < j

\* A body that is new comes last; a copy takes the place of a less trusted one.
LEMMA AppendKeeps ==
    ASSUME NEW items \in Listing, NEW n \in 1..Len(items), NEW o,
           Kept(items, n - 1, o), Copies(o, items[n]) = {}
    PROVE  Kept(items, n, Append(o, items[n]))
<1> DEFINE it == items[n]
           new == Append(o, it)
<1>1. items \in Seq(ItemSet) /\ \A i, j \in 1..Len(items) : items[i].chunk = items[j].chunk => i = j
  BY DEF Listing
<1>2. it \in ItemSet /\ n \in Nat /\ n >= 1
  BY <1>1
<1>3. o \in Seq(ItemSet) /\ Len(o) \in Nat
  BY DEF Kept
<1>4. \A k \in 1..Len(o) : \E i \in 1..n - 1 : o[k] = items[i]
  BY DEF Kept
<1>5. \A i \in 1..n - 1 : \E k \in 1..Len(o) :
        Alike(o[k], items[i]) /\ Preference(o[k].status) <= Preference(items[i].status)
  BY DEF Kept
<1>6. \A k, l \in 1..Len(o) : k < l =>
        \E i \in 1..n - 1 : /\ Alike(items[i], o[k])
                            /\ \A j \in 1..Len(items) : Alike(items[j], o[l]) => i < j
  BY DEF Kept
<1>7. ASSUME NEW j \in 1..Len(items), Alike(items[j], it) PROVE n <= j
  <2>1. SUFFICES ASSUME j \in 1..n - 1 PROVE FALSE
    BY <1>2
  <2>2. items[j] # it
    BY <1>1, <2>1
  <2>3. Doc[items[j].chunk].body # Blank /\ Doc[items[j].chunk].body = Doc[it.chunk].body
    BY <1>7, <2>2 DEF Alike
  <2>4. PICK k \in 1..Len(o) : Alike(o[k], items[j])
    BY <1>5, <2>1
  <2>5. Doc[o[k].chunk].body = Doc[it.chunk].body
    BY <2>3, <2>4 DEF Alike
  <2>6. k \in DOMAIN o
    BY <1>3
  <2>7. k \in Copies(o, it)
    BY <2>3, <2>5, <2>6 DEF Copies
  <2> QED
    BY <2>7
<1> HIDE DEF it
<1>8. /\ new \in Seq(ItemSet) /\ Len(new) = Len(o) + 1
      /\ new[Len(o) + 1] = it /\ \A k \in 1..Len(o) : new[k] = o[k]
  BY <1>2, <1>3
<1> HIDE DEF new
<1>9. ASSUME NEW k \in 1..Len(new) PROVE \E i \in 1..n : new[k] = items[i]
  <2>1. CASE k = Len(o) + 1
    BY <1>2, <1>8, <2>1 DEF it
  <2>2. CASE k \in 1..Len(o)
    <3>1. PICK i \in 1..n - 1 : o[k] = items[i]
      BY <1>4, <2>2
    <3> QED
      BY <1>2, <1>8, <2>2, <3>1
  <2> QED
    BY <1>3, <1>8, <2>1, <2>2
<1>10. ASSUME NEW i \in 1..n
       PROVE  \E k \in 1..Len(new) : /\ Alike(new[k], items[i])
                                     /\ Preference(new[k].status) <= Preference(items[i].status)
  <2>1. CASE i = n
    <3>1. Len(o) + 1 \in 1..Len(new) /\ new[Len(o) + 1] = items[i]
      BY <1>3, <1>8, <2>1 DEF it
    <3>2. Preference(items[i].status) \in Nat
      <4>1. items[i] \in ItemSet
        BY <1>1
      <4>2. items[i].status \in Status
        BY <4>1 DEF ItemSet
      <4> QED
        BY <4>2, PreferenceIsNat
    <3>3. Alike(new[Len(o) + 1], items[i])
      BY <3>1 DEF Alike
    <3> QED
      BY <3>1, <3>2, <3>3
  <2>2. CASE i \in 1..n - 1
    <3>1. PICK k \in 1..Len(o) : Alike(o[k], items[i]) /\ Preference(o[k].status) <= Preference(items[i].status)
      BY <1>5, <2>2
    <3> QED
      BY <1>3, <1>8, <3>1
  <2> QED
    BY <1>2, <2>1, <2>2
<1>11. ASSUME NEW k \in 1..Len(new), NEW l \in 1..Len(new), k < l
       PROVE  \E i \in 1..n : /\ Alike(items[i], new[k])
                              /\ \A j \in 1..Len(items) : Alike(items[j], new[l]) => i < j
  <2>1. k \in 1..Len(o)
    BY <1>3, <1>8, <1>11
  <2>2. CASE l = Len(o) + 1
    <3>1. PICK i \in 1..n - 1 : o[k] = items[i]
      BY <1>4, <2>1
    <3>2. Alike(items[i], new[k]) /\ i \in 1..n
      BY <1>2, <1>8, <2>1, <3>1 DEF Alike
    <3>3. \A j \in 1..Len(items) : Alike(items[j], new[l]) => i < j
      BY <1>2, <1>7, <1>8, <2>2
    <3> QED
      BY <3>2, <3>3
  <2>3. CASE l \in 1..Len(o)
    <3>1. PICK i \in 1..n - 1 : /\ Alike(items[i], o[k])
                                /\ \A j \in 1..Len(items) : Alike(items[j], o[l]) => i < j
      BY <1>6, <1>11, <2>1, <2>3
    <3>2. i \in 1..n
      BY <1>2
    <3> QED
      BY <1>8, <2>1, <2>3, <3>1, <3>2
  <2> QED
    BY <1>3, <1>8, <2>2, <2>3
<1> QED
  BY <1>8, <1>9, <1>10, <1>11 DEF Kept, new, it

LEMMA ReplaceKeeps ==
    ASSUME NEW items \in Listing, NEW n \in 1..Len(items), NEW o,
           Kept(items, n - 1, o), Copies(o, items[n]) # {}
    PROVE  Kept(items, n, Merged(o, items[n]))
<1> DEFINE it == items[n]
           new == Merged(o, it)
           copies == Copies(o, it)
<1>1. items \in Seq(ItemSet)
  BY DEF Listing
<1>2. it \in ItemSet /\ n \in Nat /\ n >= 1 /\ \A i \in 1..n - 1 : i \in 1..n
  BY <1>1
<1>3. o \in Seq(ItemSet) /\ Len(o) \in Nat /\ DOMAIN o = 1..Len(o)
  BY DEF Kept
<1>4. \A k \in 1..Len(o) : \E i \in 1..n - 1 : o[k] = items[i]
  BY DEF Kept
<1>5. \A i \in 1..n - 1 : \E k \in 1..Len(o) :
        Alike(o[k], items[i]) /\ Preference(o[k].status) <= Preference(items[i].status)
  BY DEF Kept
<1>6. \A k, l \in 1..Len(o) : k < l =>
        \E i \in 1..n - 1 : /\ Alike(items[i], o[k])
                            /\ \A j \in 1..Len(items) : Alike(items[j], o[l]) => i < j
  BY DEF Kept
<1>7. /\ copies \in SUBSET (1..Len(o)) /\ copies # {}
      /\ \A k \in copies : Doc[it.chunk].body # Blank /\ Doc[o[k].chunk].body = Doc[it.chunk].body
  BY <1>3 DEF Copies
<1>8. new = [k \in 1..Len(o) |->
               IF k \in copies /\ Preference(it.status) < Preference(o[k].status)
               THEN it ELSE o[k]]
  BY <1>3, <1>7 DEF Merged
<1> HIDE DEF it, new, copies
<1>9. /\ new \in Seq(ItemSet) /\ Len(new) = Len(o)
      /\ \A k \in 1..Len(o) :
           new[k] = IF k \in copies /\ Preference(it.status) < Preference(o[k].status)
                    THEN it ELSE o[k]
  <2>1. \A k \in 1..Len(o) : o[k] \in ItemSet
    BY <1>3
  <2> DEFINE m == Len(o)
  <2>2. m \in Nat
    BY <1>3
  <2> HIDE DEF m
  <2>3. /\ new \in [1..m -> ItemSet]
        /\ \A k \in 1..m :
             new[k] = IF k \in copies /\ Preference(it.status) < Preference(o[k].status)
                      THEN it ELSE o[k]
    BY <1>2, <1>8, <2>1 DEF m
  <2>4. new \in Seq(ItemSet) /\ Len(new) = m
    BY <2>2, <2>3, Listed
  <2> QED
    BY <2>3, <2>4 DEF m
<1>10. \A x \in ItemSet : Preference(x.status) \in Nat
  BY PreferenceIsNat DEF ItemSet
<1>11. ASSUME NEW k \in 1..Len(o)
       PROVE  /\ \A y : Alike(y, new[k]) <=> Alike(y, o[k])
              /\ \A y : Alike(new[k], y) <=> Alike(o[k], y)
              /\ Preference(new[k].status) <= Preference(o[k].status)
              /\ k \in copies => Preference(new[k].status) <= Preference(it.status)
              /\ k \in copies => Alike(new[k], it)
  <2>1. /\ Preference(it.status) \in Nat
        /\ Preference(o[k].status) \in Nat
    BY <1>2, <1>3, <1>10
  <2>2. CASE k \in copies /\ Preference(it.status) < Preference(o[k].status)
    <3>1. new[k] = it /\ Doc[it.chunk].body # Blank /\ Doc[o[k].chunk].body = Doc[it.chunk].body
      BY <1>7, <1>9, <2>2
    <3>2. \A y : Alike(y, it) <=> Alike(y, o[k])
      BY <3>1 DEF Alike
    <3>3. \A y : Alike(it, y) <=> Alike(o[k], y)
      BY <3>1 DEF Alike
    <3>4. Alike(it, it)
      BY DEF Alike
    <3> QED
      BY <2>1, <2>2, <3>1, <3>2, <3>3, <3>4
  <2>3. CASE ~(k \in copies /\ Preference(it.status) < Preference(o[k].status))
    <3>1. new[k] = o[k]
      BY <1>9, <2>3
    <3>2. k \in copies => Alike(o[k], it)
      BY <1>7 DEF Alike
    <3>3. k \in copies => Preference(o[k].status) <= Preference(it.status)
      BY <2>1, <2>3
    <3> QED
      BY <2>1, <3>1, <3>2, <3>3
  <2> QED
    BY <2>2, <2>3
<1>12. ASSUME NEW k \in 1..Len(new) PROVE \E i \in 1..n : new[k] = items[i]
  <2>1. new[k] = it \/ new[k] = o[k]
    BY <1>9
  <2>2. PICK i \in 1..n - 1 : o[k] = items[i]
    BY <1>4, <1>9
  <2>3. n \in 1..n
    BY <1>2
  <2> QED
    BY <1>2, <2>1, <2>2, <2>3 DEF it
<1>13. ASSUME NEW i \in 1..n
       PROVE  \E k \in 1..Len(new) : /\ Alike(new[k], items[i])
                                     /\ Preference(new[k].status) <= Preference(items[i].status)
  <2>1. CASE i = n
    <3>1. PICK k \in copies : TRUE
      BY <1>7
    <3>2. k \in 1..Len(o)
      BY <1>7
    <3> QED
      BY <1>9, <1>11, <2>1, <3>2 DEF it
  <2>2. CASE i \in 1..n - 1
    <3>1. PICK k \in 1..Len(o) : Alike(o[k], items[i]) /\ Preference(o[k].status) <= Preference(items[i].status)
      BY <1>5, <2>2
    <3>2. Alike(new[k], items[i]) /\ Preference(new[k].status) <= Preference(o[k].status)
      BY <1>11, <3>1
    <3>3. /\ o[k] \in ItemSet /\ new[k] \in ItemSet /\ items[i] \in ItemSet
      BY <1>1, <1>3, <1>9
    <3>4. /\ Preference(o[k].status) \in Nat /\ Preference(new[k].status) \in Nat
          /\ Preference(items[i].status) \in Nat
      BY <1>10, <3>3
    <3>5. Preference(new[k].status) <= Preference(items[i].status)
      BY <3>1, <3>2, <3>4
    <3> QED
      BY <1>9, <3>2, <3>5
  <2> QED
    BY <1>2, <2>1, <2>2
<1>14. ASSUME NEW k \in 1..Len(new), NEW l \in 1..Len(new), k < l
       PROVE  \E i \in 1..n : /\ Alike(items[i], new[k])
                              /\ \A j \in 1..Len(items) : Alike(items[j], new[l]) => i < j
  <2>1. k \in 1..Len(o) /\ l \in 1..Len(o)
    BY <1>9
  <2>2. PICK i \in 1..n - 1 : /\ Alike(items[i], o[k])
                              /\ \A j \in 1..Len(items) : Alike(items[j], o[l]) => i < j
    BY <1>6, <1>14, <2>1
  <2>3. Alike(items[i], new[k]) /\ \A j \in 1..Len(items) : Alike(items[j], new[l]) => i < j
    BY <1>11, <2>1, <2>2
  <2> QED
    BY <1>2, <2>3
<1> QED
  BY <1>9, <1>12, <1>13, <1>14 DEF Kept, new, it

\* Compression is a run through the items, one after the other.
LEMMA CompressRuns ==
    ASSUME NEW items \in Seq(ItemSet)
    PROVE  \E f : /\ f[0] = << >> /\ f[Len(items)] = Compress(items)
                  /\ \A i \in 1..Len(items) : f[i] = Merged(f[i - 1], items[i])
<1> DEFINE L == Len(items)
           All == Seq(ItemSet)
           Eq(g) == g = [n \in 0..L |-> IF n = 0 THEN << >> ELSE Merged(g[n - 1], items[n])]
           out == CHOOSE g : Eq(g)
           merge == [i \in 1..L |-> [o \in All |-> Merged(o, items[i])]]
<1>1. L \in Nat /\ \A i \in 1..L : items[i] \in ItemSet
  OBVIOUS
<1>2. ASSUME NEW o \in All, NEW it \in ItemSet PROVE Merged(o, it) \in All
  <2>1. CASE Copies(o, it) = {}
    BY <2>1 DEF Merged
  <2>2. CASE Copies(o, it) # {}
    <3> DEFINE h == [k \in DOMAIN o |->
                       IF k \in Copies(o, it) /\ Preference(it.status) < Preference(o[k].status)
                       THEN it ELSE o[k]]
               m == Len(o)
    <3>1. m \in Nat /\ DOMAIN o = 1..m /\ \A k \in 1..m : o[k] \in ItemSet
      OBVIOUS
    <3> HIDE DEF m
    <3>2. h \in [1..m -> ItemSet]
      BY <3>1
    <3> HIDE DEF h
    <3>3. h \in Seq(ItemSet)
      BY <3>1, <3>2, Listed
    <3> QED
      BY <2>2, <3>3 DEF Merged, h
  <2> QED
    BY <2>1, <2>2
<1> HIDE DEF L, All
<1>3. merge \in [1..L -> [All -> All]]
  BY <1>1, <1>2
<1>4. << >> \in All
  BY DEF All
<1>5. PICK f : /\ f \in [0..L -> All] /\ f[0] = << >>
               /\ \A i \in 1..L : f[i] = merge[i][f[i - 1]]
  <2> HIDE DEF merge
  <2>1. PICK m, T, b, g : m = L /\ T = All /\ b = << >> /\ g = merge
    OBVIOUS
  <2>2. m \in Nat /\ b \in T /\ g \in [1..m -> [T -> T]]
    BY <1>1, <1>3, <1>4, <2>1
  <2>3. \E f : Runs(f, m, T, b, g)
    BY <2>2, Recursion
  <2> QED
    BY <2>1, <2>3 DEF Runs
<1>6. Eq(f)
  <2>1. ASSUME NEW i \in 1..L PROVE merge[i][f[i - 1]] = Merged(f[i - 1], items[i])
    <3>1. f[i - 1] \in All
      BY <1>1, <1>5
    <3> QED
      BY <3>1
  <2> HIDE DEF merge
  <2> DEFINE h == [i \in 0..L |-> IF i = 0 THEN << >> ELSE Merged(f[i - 1], items[i])]
  <2>2. ASSUME NEW i \in 0..L PROVE f[i] = h[i]
    <3>1. CASE i = 0
      BY <1>5, <3>1
    <3>2. CASE i \in 1..L
      BY <1>5, <2>1, <3>2
    <3> QED
      BY <1>1, <3>1, <3>2
  <2>3. f = h
    BY <1>5, <2>2
  <2> QED
    BY <2>3
<1>7. Eq(out)
  BY <1>6
<1>8. Compress(items) = out[L]
  BY DEF Compress, L
<1> HIDE DEF out, merge
<1>9. out[0] = << >> /\ \A i \in 1..L : out[i] = Merged(out[i - 1], items[i])
  BY <1>1, <1>7
<1> QED
  BY <1>8, <1>9 DEF L

LEMMA CompressKeeps ==
    ASSUME NEW items \in Listing
    PROVE  Kept(items, Len(items), Compress(items))
<1> DEFINE L == Len(items)
<1>1. items \in Seq(ItemSet) /\ L \in Nat
  BY DEF Listing
<1>2. PICK f : /\ f[0] = << >> /\ f[L] = Compress(items)
               /\ \A i \in 1..L : f[i] = Merged(f[i - 1], items[i])
  BY <1>1, CompressRuns
<1> DEFINE P == {m \in 0..L : Kept(items, m, f[m])}
<1>3. 0 \in P
  <2>1. << >> \in Seq(ItemSet) /\ Len(<< >>) = 0 /\ 1..0 = {}
    OBVIOUS
  <2>2. Kept(items, 0, << >>)
    BY <2>1 DEF Kept
  <2> QED
    BY <1>1, <1>2, <2>2
<1>4. ASSUME NEW m \in 1..L, m - 1 \in P PROVE m \in P
  <2>1. Kept(items, m - 1, f[m - 1])
    BY <1>4
  <2>2. PICK o : o = f[m - 1]
    OBVIOUS
  <2>3. Kept(items, m - 1, o) /\ f[m] = Merged(o, items[m]) /\ m \in 0..L
    BY <1>1, <1>2, <2>1, <2>2
  <2>4. CASE Copies(o, items[m]) = {}
    <3>1. Merged(o, items[m]) = Append(o, items[m])
      BY <2>4 DEF Merged
    <3>2. m \in 1..Len(items) /\ Kept(items, m - 1, o)
      BY <2>3
    <3>3. Kept(items, m, Append(o, items[m]))
      BY <2>4, <3>2, AppendKeeps
    <3> QED
      BY <2>3, <3>1, <3>3
  <2>5. CASE Copies(o, items[m]) # {}
    BY <2>3, <2>5, ReplaceKeeps
  <2> QED
    BY <2>4, <2>5
<1> HIDE DEF P
<1>5. \A m \in 1..L : m - 1 \in P => m \in P
  BY <1>4
<1>6. \A m \in 0..L : m \in P
  <2> HIDE DEF L
  <2> QED
    BY <1>1, <1>3, <1>5, UpTo
<1>7. L \in P
  BY <1>1, <1>6
<1> QED
  BY <1>2, <1>7 DEF P

\* What compression promises of its result.
LEMMA Compressed ==
    ASSUME NEW items \in Listing
    PROVE  /\ Compress(items) \in Seq(ItemSet)
           /\ ToSet(Compress(items)) \in SUBSET ToSet(items)
           /\ \A it \in ToSet(items) : \E kept \in ToSet(Compress(items)) :
                Alike(kept, it) /\ Preference(kept.status) <= Preference(it.status)
           /\ \A k, l \in DOMAIN Compress(items) : k < l =>
                Min({i \in DOMAIN items : Alike(items[i], Compress(items)[k])})
                  < Min({i \in DOMAIN items : Alike(items[i], Compress(items)[l])})
<1> DEFINE o == Compress(items)
           L == Len(items)
<1>1. items \in Seq(ItemSet) /\ L \in Nat /\ DOMAIN items = 1..L
  BY DEF Listing
<1>2. /\ o \in Seq(ItemSet)
      /\ \A k \in 1..Len(o) : \E i \in 1..L : o[k] = items[i]
      /\ \A i \in 1..L : \E k \in 1..Len(o) :
           Alike(o[k], items[i]) /\ Preference(o[k].status) <= Preference(items[i].status)
      /\ \A k, l \in 1..Len(o) : k < l =>
           \E i \in 1..L : /\ Alike(items[i], o[k])
                           /\ \A j \in 1..L : Alike(items[j], o[l]) => i < j
  BY CompressKeeps DEF Kept
<1> HIDE DEF o, L
<1>3. DOMAIN o = 1..Len(o)
  BY <1>2
<1>4. ToSet(o) \in SUBSET ToSet(items)
  BY <1>1, <1>2, <1>3 DEF ToSet
<1>5. ASSUME NEW it \in ToSet(items)
      PROVE  \E kept \in ToSet(o) :
               Alike(kept, it) /\ Preference(kept.status) <= Preference(it.status)
  <2>1. PICK i \in 1..L : items[i] = it
    BY <1>1 DEF ToSet
  <2>2. PICK k \in 1..Len(o) : Alike(o[k], it) /\ Preference(o[k].status) <= Preference(it.status)
    BY <1>2, <2>1
  <2>3. o[k] \in ToSet(o)
    BY <1>3 DEF ToSet
  <2> QED
    BY <2>2, <2>3
<1>6. ASSUME NEW k \in DOMAIN o, NEW l \in DOMAIN o, k < l
      PROVE  Min({i \in DOMAIN items : Alike(items[i], o[k])})
               < Min({i \in DOMAIN items : Alike(items[i], o[l])})
  <2> DEFINE A(x) == {i \in DOMAIN items : Alike(items[i], x)}
  <2>1. PICK i \in 1..L : /\ Alike(items[i], o[k])
                          /\ \A j \in 1..L : Alike(items[j], o[l]) => i < j
    BY <1>2, <1>3, <1>6
  <2>2. i \in A(o[k]) /\ A(o[k]) \in SUBSET Nat /\ A(o[l]) \in SUBSET Nat
    BY <1>1, <2>1
  <2>3. A(o[l]) # {}
    <3>1. PICK j \in 1..L : o[l] = items[j]
      BY <1>2, <1>3
    <3>2. j \in A(o[l])
      BY <1>1, <3>1 DEF Alike
    <3> QED
      BY <3>2
  <2>4. \A j \in A(o[l]) : i < j
    BY <1>1, <2>1
  <2> HIDE DEF A
  <2>5. Min(A(o[k])) \in Nat /\ Min(A(o[k])) <= i
    <3>1. PICK B : B = A(o[k])
      OBVIOUS
    <3>2. Min(B) \in B /\ \A w \in B : Min(B) <= w
      BY <2>2, <3>1, MinIsLeast
    <3> QED
      BY <2>2, <3>1, <3>2
  <2>6. Min(A(o[l])) \in Nat /\ i < Min(A(o[l]))
    <3>1. PICK B : B = A(o[l])
      OBVIOUS
    <3>2. Min(B) \in B
      BY <2>2, <2>3, <3>1, MinIsLeast
    <3> QED
      BY <2>2, <2>4, <3>1, <3>2
  <2>7. Min(A(o[k])) < Min(A(o[l]))
    BY <2>1, <2>5, <2>6
  <2> QED
    BY <2>7 DEF A
<1> QED
  BY <1>2, <1>4, <1>5, <1>6 DEF o

---------------------------------------------------------------------------
(* The words are not starved.                                              *)

\* A permutation of chunks, and the first of a ranking, are rankings.
LEMMA PermutedRanking ==
    ASSUME NEW H \in SUBSET Chunk, NEW s \in SetToAllKPermutations(H)
    PROVE  s \in Ranking /\ ToSet(s) \in SUBSET H
<1>1. PICK G \in SUBSET H : s \in SetToSeqs(G)
  BY DEF SetToAllKPermutations
<1> DEFINE m == Cardinality(G)
<1>2. IsFiniteSet(G) /\ m \in Nat
  BY <1>1, FS_Subset, FS_CardinalityType, RetrievalConstants
<1>3. s \in [1..m -> G] /\ \A i, j \in 1..m : i # j => s[i] # s[j]
  BY <1>1 DEF SetToSeqs
<1> HIDE DEF m
<1>4. s \in Seq(G) /\ Len(s) = m
  BY <1>2, <1>3, Listed
<1>5. s \in Seq(Chunk)
  <2>1. s \in [1..m -> Chunk]
    BY <1>1, <1>3
  <2> QED
    BY <1>2, <2>1, Listed
<1>6. s \in Ranking
  BY <1>3, <1>4, <1>5 DEF Ranking
<1>7. ToSet(s) \in SUBSET H
  BY <1>1, <1>3 DEF ToSet
<1> QED
  BY <1>6, <1>7

LEMMA TopRanking ==
    ASSUME NEW s \in Ranking, NEW n \in Nat
    PROVE  /\ Top(s, n) \in Ranking
           /\ ToSet(Top(s, n)) \in SUBSET ToSet(s)
           /\ Len(Top(s, n)) = Least(n, Len(s))
           /\ \A i \in 1..Len(Top(s, n)) : i \in 1..Len(s) /\ Top(s, n)[i] = s[i]
<1> DEFINE t == Top(s, n)
<1>1. s \in Seq(Chunk) /\ \A i, j \in 1..Len(s) : s[i] = s[j] => i = j
  BY DEF Ranking
<1>2. /\ t \in Seq(Chunk) /\ Len(t) = Least(n, Len(s))
      /\ \A i \in 1..Len(t) : i \in 1..Len(s) /\ t[i] = s[i]
  BY <1>1, TopOf
<1> HIDE DEF t
<1>3. t \in Ranking
  BY <1>1, <1>2 DEF Ranking
<1>4. ToSet(t) \in SUBSET ToSet(s)
  BY <1>1, <1>2 DEF ToSet
<1> QED
  BY <1>2, <1>3, <1>4 DEF t

\* A chunk that only the vectors found, and that outranks the i-th of the words,
\* is among the first i of the vectors.
LEMMA Outranking ==
    ASSUME NEW lex \in Ranking, NEW sem \in Ranking, Len(lex) <= Cap,
           NEW i \in 1..Len(lex), NEW d \in ToSet(sem), d \notin ToSet(lex),
           Ahead(Scores(lex, sem), d, lex[i])
    PROVE  \E j \in 1..i : j \in 1..Len(sem) /\ sem[j] = d
<1> DEFINE c == lex[i]
           scores == Scores(lex, sem)
<1>1. Len(lex) \in Nat /\ Len(sem) \in Nat /\ i \in 1..Cap /\ Cap \in Nat
  BY RetrievalConstants DEF Ranking
<1>2. c \in ToSet(lex) /\ c \in Chunk /\ d \in Chunk
  BY RankingSet
<1>3. PICK j \in 1..Len(sem) : sem[j] = d
  BY RankingSet
<1>4. c \in Found(lex, sem) /\ d \in Found(lex, sem)
  BY <1>2 DEF Found
<1>5. /\ scores[c] = Share(lex, c) + Share(sem, c)
      /\ scores[d] = Share(lex, d) + Share(sem, d)
  BY <1>4, FoundSet
<1>6. /\ Share(lex, c) = Whole \div (RrfK + i) /\ Share(lex, c) \in Nat
      /\ Share(lex, d) = 0
      /\ Share(sem, d) = Whole \div (RrfK + j) /\ Share(sem, d) \in Nat
      /\ Share(sem, c) \in Nat
  BY <1>2, <1>3, ShareOf
<1> HIDE DEF scores, c
<1>7. ~ (scores[d] < scores[c])
  <2>1. scores[d] \in Nat /\ scores[c] \in Nat
    BY <1>5, <1>6
  <2>2. scores[d] > scores[c] \/ scores[d] = scores[c]
    BY DEF Ahead, c, scores
  <2> QED
    BY <2>1, <2>2
<1>8. ~ (i < j)
  <2>1. SUFFICES ASSUME i < j PROVE FALSE
    OBVIOUS
  <2>2. j \in Nat
    BY <1>1
  <2>3. Whole \div (RrfK + j) < Whole \div (RrfK + i)
    BY <1>1, <2>1, <2>2, ShareFalls
  <2>4. Share(sem, d) < Share(lex, c)
    BY <1>6, <2>3
  <2>5. scores[d] < scores[c]
    BY <1>5, <1>6, <2>4
  <2> QED
    BY <1>7, <2>5
<1>9. j \in 1..i
  BY <1>1, <1>8
<1> QED
  BY <1>3, <1>9

\* Of a pool of twice the limit, the words keep their first ones, or a half.
LEMMA WordsAreNotStarved ==
    ASSUME NEW lex \in Ranking, NEW sem \in Ranking, Len(lex) <= Cap,
           NEW n \in Nat, NEW P \in Nat, 2 * n <= P
    PROVE  /\ IsFiniteSet(ToSet(lex) \cap ToSet(Fuse(lex, sem, P)))
           /\ Least(n, Len(lex)) <= Cardinality(ToSet(lex) \cap ToSet(Fuse(lex, sem, P)))
<1> DEFINE fused == ToSet(Fuse(lex, sem, P))
           words == ToSet(lex)
           found == Found(lex, sem)
           L == Least(n, Len(lex))
<1>1. /\ Fuse(lex, sem, P) \in Ranking
      /\ fused \in SUBSET found
      /\ Len(Fuse(lex, sem, P)) = Least(P, Cardinality(found))
      /\ \A c \in found, d \in fused : c \in fused \/ Ahead(Scores(lex, sem), d, c)
  BY FuseKeepsTheBest
<1>2. /\ IsFiniteSet(fused) /\ Cardinality(fused) = Least(P, Cardinality(found))
      /\ Cardinality(fused) \in Nat
  BY <1>1, RankingSet, FS_CardinalityType
<1>3. IsFiniteSet(words) /\ words \in SUBSET found
  BY RankingSet DEF Found
<1>4. IsFiniteSet(found) /\ Cardinality(found) \in Nat
  BY FoundSet, FS_CardinalityType
<1>5. Len(lex) \in Nat /\ L \in Nat /\ L <= n /\ L <= Len(lex)
  BY DEF Ranking, Least
<1>6. Top(lex, n) \in Ranking /\ Len(Top(lex, n)) = L
      /\ \A i \in 1..Len(Top(lex, n)) : i \in 1..Len(lex) /\ Top(lex, n)[i] = lex[i]
  BY TopRanking
<1> HIDE DEF fused, words, found, L
<1>7. IsFiniteSet(words \cap fused) /\ Cardinality(words \cap fused) \in Nat
  <2>1. words \cap fused \in SUBSET fused
    OBVIOUS
  <2> QED
    BY <1>2, <2>1, FS_Subset, FS_CardinalityType
<1>8. CASE \A i \in 1..L : lex[i] \in fused
  <2>1. ToSet(Top(lex, n)) \in SUBSET (words \cap fused)
    <3>1. ToSet(Top(lex, n)) \in SUBSET words
      BY TopRanking DEF words
    <3>2. ASSUME NEW c \in ToSet(Top(lex, n)) PROVE c \in fused
      <4>1. PICK i \in 1..Len(Top(lex, n)) : Top(lex, n)[i] = c
        BY <1>6, RankingSet
      <4> QED
        BY <1>6, <1>8, <4>1
    <3> QED
      BY <3>1, <3>2
  <2>2. Cardinality(ToSet(Top(lex, n))) = L
    BY <1>6, RankingSet
  <2>3. PICK T : T = ToSet(Top(lex, n))
    OBVIOUS
  <2>4. Cardinality(T) <= Cardinality(words \cap fused)
    BY <1>7, <2>1, <2>3, FS_Subset
  <2> QED
    BY <1>7, <2>2, <2>3, <2>4 DEF L, words, fused
<1>9. CASE \E i \in 1..L : lex[i] \notin fused
  <2>1. PICK i \in 1..L : lex[i] \notin fused
    BY <1>9
  <2>2. i \in 1..Len(lex) /\ i \in Nat /\ i <= n
    BY <1>5
  <2>3. lex[i] \in words /\ lex[i] \in found
    BY <1>3, <2>2, RankingSet DEF words
  <2>4. Cardinality(fused) = P
    <3>1. lex[i] \notin fused /\ fused \cup {lex[i]} \in SUBSET found
      BY <1>1, <2>1, <2>3
    <3>2. Cardinality(fused \cup {lex[i]}) = Cardinality(fused) + 1
      BY <1>2, <3>1, FS_AddElement
    <3>3. Cardinality(fused \cup {lex[i]}) <= Cardinality(found)
      BY <1>4, <3>1, FS_Subset
    <3>4. Cardinality(fused) + 1 <= Cardinality(found)
      BY <3>2, <3>3
    <3> QED
      BY <1>2, <1>4, <3>4 DEF Least
  <2> DEFINE others == fused \ words
  <2>5. others \in SUBSET ToSet(Top(sem, n))
    <3>1. SUFFICES ASSUME NEW d \in others PROVE d \in ToSet(Top(sem, n))
      OBVIOUS
    <3>2. d \in fused /\ d \notin ToSet(lex) /\ d \in ToSet(sem)
      BY <1>1 DEF found, words, Found
    <3>3. Ahead(Scores(lex, sem), d, lex[i])
      BY <1>1, <2>1, <2>3, <3>2
    <3>4. PICK j \in 1..i : j \in 1..Len(sem) /\ sem[j] = d
      BY <2>2, <3>2, <3>3, Outranking
    <3>5. Len(sem) \in Nat /\ j \in Nat /\ j <= n
      BY <2>2 DEF Ranking
    <3>6. j \in 1..Len(Top(sem, n))
      BY <3>4, <3>5, TopRanking DEF Least
    <3>7. Top(sem, n) \in Ranking /\ Top(sem, n)[j] = d
      BY <3>4, <3>6, TopRanking
    <3> QED
      BY <3>6, <3>7, RankingSet
  <2>6. /\ IsFiniteSet(ToSet(Top(sem, n))) /\ Cardinality(ToSet(Top(sem, n))) \in Nat
        /\ Cardinality(ToSet(Top(sem, n))) <= n
    <3>1. Top(sem, n) \in Ranking /\ Len(Top(sem, n)) = Least(n, Len(sem)) /\ Len(sem) \in Nat
      BY TopRanking DEF Ranking
    <3>2. Least(n, Len(sem)) \in Nat /\ Least(n, Len(sem)) <= n
      BY <3>1 DEF Least
    <3> QED
      BY <3>1, <3>2, RankingSet
  <2> HIDE DEF others
  <2>7. Cardinality(others) <= n /\ Cardinality(others) \in Nat
    <3>1. PICK T : T = ToSet(Top(sem, n))
      OBVIOUS
    <3>2. IsFiniteSet(others) /\ Cardinality(others) <= Cardinality(T)
      BY <2>5, <2>6, <3>1, FS_Subset
    <3>3. Cardinality(others) \in Nat
      BY <3>2, FS_CardinalityType
    <3> QED
      BY <2>6, <3>1, <3>2, <3>3
  <2>8. Cardinality(others) = P - Cardinality(words \cap fused)
    <3>1. Cardinality(fused \ words) = Cardinality(fused) - Cardinality(fused \cap words)
      BY <1>2, FS_Difference
    <3>2. fused \cap words = words \cap fused
      OBVIOUS
    <3> QED
      BY <2>4, <3>1, <3>2 DEF others
  <2>9. L <= Cardinality(words \cap fused)
    BY <1>5, <1>7, <2>7, <2>8
  <2> QED
    BY <1>7, <2>9 DEF L, words, fused
<1> QED
  BY <1>8, <1>9

\* A listing of the chunks of a set is as long as the set at least.
LEMMA ListingCovers ==
    ASSUME NEW items \in Listing, NEW W,
           \A c \in W : \E i \in 1..Len(items) : items[i].chunk = c
    PROVE  Len(items) \in Nat /\ Cardinality(W) <= Len(items)
<1> DEFINE m == Len(items)
           s == [i \in 1..m |-> items[i].chunk]
<1>1. items \in Seq(ItemSet) /\ m \in Nat
      /\ \A i, j \in 1..m : items[i].chunk = items[j].chunk => i = j
  BY DEF Listing
<1>2. \A i \in 1..m : items[i].chunk \in Chunk
  <2>1. \A i \in 1..m : items[i] \in ItemSet
    BY <1>1
  <2> QED
    BY <2>1 DEF ItemSet
<1> HIDE DEF m
<1>3. s \in [1..m -> Chunk] /\ \A i \in 1..m : s[i] = items[i].chunk
  BY <1>2
<1> HIDE DEF s
<1>4. s \in Seq(Chunk) /\ Len(s) = m
  BY <1>1, <1>3, Listed
<1>5. s \in Ranking
  BY <1>1, <1>3, <1>4 DEF Ranking
<1>6. W \in SUBSET ToSet(s)
  <2>1. ASSUME NEW c \in W PROVE c \in ToSet(s)
    <3>1. PICK i \in 1..m : items[i].chunk = c
      BY DEF m
    <3> QED
      BY <1>3, <1>4, <1>5, <3>1, RankingSet
  <2> QED
    BY <2>1
<1>7. IsFiniteSet(ToSet(s)) /\ Cardinality(ToSet(s)) = m
  BY <1>4, <1>5, RankingSet
<1>8. PICK T : T = ToSet(s)
  OBVIOUS
<1>9. Cardinality(W) <= Cardinality(T)
  BY <1>6, <1>7, <1>8, FS_Subset
<1> QED
  BY <1>1, <1>7, <1>8, <1>9 DEF m

---------------------------------------------------------------------------
(* The invariant of a request.                                             *)

\* What never becomes entitled again.
Gone(c) == ~active[c] \/ status[c] = "rejected"

Typed ==
    /\ status \in [Chunk -> Status]
    /\ active \in [Chunk -> BOOLEAN]
    /\ held \in [Chunk -> SUBSET Status]
    /\ stage \in {"idle", "asked", "matched", "searched", "hydrated", "answered"}
    /\ stage # "idle" => ask.limit \in 1..MaxLimit

\* The history knows the present.
HeldNow ==
    stage # "idle" => \A c \in Chunk : active[c] => status[c] \in held[c]

\* What the words found is still entitled, or gone for good.
WordsFound ==
    stage \in {"matched", "searched", "hydrated", "answered"} =>
        /\ lexical \in Ranking /\ Len(lexical) <= Cap
        /\ \A c \in ToSet(lexical) : Entitled(ask, c) \/ Gone(c)

VectorsFound == stage = "searched" => semantic \in Ranking

\* An item that the request may be shown.
Shown(it) ==
    /\ it.status \in held[it.chunk]
    /\ it.status \in {"approved"}
         \cup (IF ask.scratch THEN {"scratch"} ELSE {})
         \cup (IF ask.review THEN {"needs_review"} ELSE {})
    /\ Doc[it.chunk].org = ask.org
    /\ Doc[it.chunk].project # ask.project =>
         ask.global /\ Doc[it.chunk].scope = "global" /\ it.status = "approved"

ItemsShown ==
    stage \in {"hydrated", "answered"} =>
        ranked \in Listing /\ \A it \in ToSet(ranked) : Shown(it)

ItemsNotStarved ==
    (/\ stage = "hydrated" \/ (stage = "answered" /\ ~reply.applied)
     /\ Multiplier >= 2 /\ Cap >= 2 * ask.limit
     /\ \A c \in ToSet(lexical) : ~Gone(c)) =>
        Len(ranked) >= Least(ask.limit, Len(lexical))

Answered ==
    stage = "answered" =>
        /\ reply.items = IF reply.compressed THEN Compress(ranked) ELSE ranked
        /\ reply.dropped = Len(ranked) - Len(reply.items)

RequestInv ==
    /\ Typed /\ HeldNow /\ WordsFound /\ VectorsFound /\ ItemsShown
    /\ ItemsNotStarved /\ Answered

LEMMA InitRequest == Init => RequestInv
<1> SUFFICES ASSUME Init PROVE RequestInv
  OBVIOUS
<1>1. stage = "idle" /\ status \in [Chunk -> Status]
  BY DEF Init
<1>2. active \in [Chunk -> BOOLEAN] /\ held \in [Chunk -> SUBSET Status]
  BY DEF Init
<1> QED
  BY <1>1, <1>2 DEF RequestInv, Typed, HeldNow, WordsFound, VectorsFound, ItemsShown,
                    ItemsNotStarved, Answered

\* Steps that leave the request, the items and the history alone.
LEMMA Aside ==
    RequestInv /\ UNCHANGED <<status, active, stage, request, held>> => RequestInv'
<1> SUFFICES ASSUME RequestInv, UNCHANGED <<status, active, stage, request, held>>
             PROVE  RequestInv'
  OBVIOUS
<1> USE DEF request, RequestInv
<1>1. Typed' /\ HeldNow' /\ VectorsFound'
  BY DEF Typed, HeldNow, VectorsFound
<1>2. WordsFound'
  BY DEF WordsFound, Entitled, Gone
<1>3. ItemsShown' /\ ItemsNotStarved'
  BY DEF ItemsShown, ItemsNotStarved, Shown, Gone
<1>4. Answered'
  BY DEF Answered
<1> QED
  BY <1>1, <1>2, <1>3, <1>4

\* Changes to the items entitle no chunk anew, and forget nothing that was seen.
LEMMA ChangeKeeps ==
    ASSUME RequestInv, Typed', HeldNow', UNCHANGED <<stage, request>>,
           \A d \in Chunk : /\ Gone(d) => Gone(d)'
                            /\ Entitled(ask, d) => Entitled(ask, d)' \/ Gone(d)'
                            /\ held[d] \in SUBSET held'[d]
    PROVE  RequestInv'
<1> USE DEF request, RequestInv
<1>1. VectorsFound' /\ Answered'
  BY DEF VectorsFound, Answered
<1>2. ASSUME stage \in {"matched", "searched", "hydrated", "answered"}
      PROVE  /\ ToSet(lexical) \in SUBSET Chunk
             /\ \A d \in ToSet(lexical) : Entitled(ask, d) \/ Gone(d)
  BY <1>2, RankingSet DEF WordsFound
<1>3. WordsFound'
  BY <1>2 DEF WordsFound
<1>4. ItemsNotStarved'
  <2>1. SUFFICES ASSUME stage \in {"hydrated", "answered"}, \A d \in ToSet(lexical) : ~Gone(d)'
                 PROVE  \A d \in ToSet(lexical) : ~Gone(d)
    BY DEF ItemsNotStarved
  <2> QED
    BY <1>2, <2>1
<1>5. ItemsShown'
  <2>1. SUFFICES ASSUME stage \in {"hydrated", "answered"}, NEW it \in ToSet(ranked)
                 PROVE  Shown(it)'
    BY DEF ItemsShown
  <2>2. Shown(it) /\ it.chunk \in Chunk
    <3>1. ranked \in Seq(ItemSet) /\ Shown(it)
      BY <2>1 DEF ItemsShown, Listing
    <3>2. it \in ItemSet
      BY <3>1 DEF ToSet
    <3> QED
      BY <3>1, <3>2 DEF ItemSet
  <2> QED
    BY <2>2 DEF Shown
<1> QED
  BY <1>1, <1>3, <1>4, <1>5

LEMMA DecideRequest ==
    ASSUME RequestInv, NEW c \in Chunk, Decide(c)
    PROVE  RequestInv'
<1>1. /\ status \in [Chunk -> Status] /\ active \in [Chunk -> BOOLEAN]
      /\ held \in [Chunk -> SUBSET Status]
  BY DEF RequestInv, Typed
<1>2. PICK s \in {"approved", "rejected"} :
        /\ status' = [status EXCEPT ![c] = s]
        /\ held' = IF stage # "idle" /\ active[c]
                   THEN [held EXCEPT ![c] = @ \cup {s}] ELSE held
  BY DEF Decide
<1>3. /\ status[c] \in {"scratch", "needs_review"}
      /\ UNCHANGED <<active, stage, request>>
  BY DEF Decide
<1>4. s \in Status
  BY DEF Status
<1>5. status'[c] = s /\ \A d \in Chunk : d # c => status'[d] = status[d]
  BY <1>1, <1>2
<1>6. /\ \A d \in Chunk : held[d] \in SUBSET held'[d]
      /\ stage # "idle" /\ active[c] => s \in held'[c]
  BY <1>1, <1>2
<1>7. Typed'
  <2>1. status' \in [Chunk -> Status]
    BY <1>1, <1>2, <1>4
  <2>2. held' \in [Chunk -> SUBSET Status]
    BY <1>1, <1>2, <1>4
  <2> QED
    BY <1>3, <2>1, <2>2 DEF RequestInv, Typed, request
<1>8. HeldNow'
  <2>1. SUFFICES ASSUME stage # "idle", NEW d \in Chunk, active[d]
                 PROVE  status'[d] \in held'[d]
    BY <1>3 DEF HeldNow
  <2>2. CASE d = c
    BY <1>5, <1>6, <2>1, <2>2
  <2>3. CASE d # c
    BY <1>5, <1>6, <2>1, <2>3 DEF RequestInv, HeldNow
  <2> QED
    BY <2>2, <2>3
<1>9. ASSUME NEW d \in Chunk
      PROVE  /\ Gone(d) => Gone(d)'
             /\ Entitled(ask, d) => Entitled(ask, d)' \/ Gone(d)'
  <2>1. CASE d # c
    BY <1>3, <1>5, <2>1 DEF Gone, Entitled, request
  <2>2. CASE d = c
    BY <1>3, <1>5, <2>2 DEF Gone, Entitled, request
  <2> QED
    BY <2>1, <2>2
<1> QED
  BY <1>3, <1>6, <1>7, <1>8, <1>9, ChangeKeeps

LEMMA RetireRequest ==
    ASSUME RequestInv, NEW c \in Chunk, Retire(c)
    PROVE  RequestInv'
<1>1. /\ status \in [Chunk -> Status] /\ active \in [Chunk -> BOOLEAN]
      /\ held \in [Chunk -> SUBSET Status]
  BY DEF RequestInv, Typed
<1>2. /\ active' = [active EXCEPT ![c] = FALSE]
      /\ UNCHANGED <<status, stage, request, held>>
  BY DEF Retire
<1>3. ~active'[c] /\ \A d \in Chunk : d # c => active'[d] = active[d]
  BY <1>1, <1>2
<1>4. Typed'
  BY <1>1, <1>2 DEF RequestInv, Typed, request
<1>5. HeldNow'
  BY <1>1, <1>2, <1>3 DEF RequestInv, HeldNow
<1>6. ASSUME NEW d \in Chunk
      PROVE  /\ Gone(d) => Gone(d)'
             /\ Entitled(ask, d) => Entitled(ask, d)' \/ Gone(d)'
             /\ held[d] \in SUBSET held'[d]
  <2>1. CASE d # c
    BY <1>2, <1>3, <2>1 DEF Gone, Entitled, request
  <2>2. CASE d = c
    BY <1>2, <1>3, <2>2 DEF Gone, Entitled, request
  <2> QED
    BY <2>1, <2>2
<1> QED
  BY <1>2, <1>4, <1>5, <1>6, ChangeKeeps

\* A request begins; its history is what the items are now.
LEMMA BeginRequest ==
    ASSUME RequestInv, NEW r, Begin(r)
    PROVE  RequestInv'
<1>1. /\ status \in [Chunk -> Status] /\ active \in [Chunk -> BOOLEAN]
  BY DEF RequestInv, Typed
<1>2. /\ ask' = r /\ r.limit \in 1..MaxLimit /\ stage' = "asked"
      /\ held' = [c \in Chunk |-> IF active[c] THEN {status[c]} ELSE {}]
      /\ UNCHANGED <<status, active>>
  BY DEF Begin
<1>3. Typed'
  BY <1>1, <1>2 DEF Typed
<1>4. HeldNow'
  BY <1>1, <1>2 DEF HeldNow
<1> QED
  BY <1>2, <1>3, <1>4 DEF RequestInv, WordsFound, VectorsFound, ItemsShown,
                          ItemsNotStarved, Answered

LEMMA ClearRequest ==
    ASSUME RequestInv, Clear
    PROVE  RequestInv'
<1>1. /\ stage' = "idle" /\ held' = [c \in Chunk |-> {}]
      /\ UNCHANGED <<status, active>>
  BY DEF Clear
<1>2. Typed'
  BY <1>1 DEF RequestInv, Typed
<1> QED
  BY <1>1, <1>2 DEF RequestInv, HeldNow, WordsFound, VectorsFound, ItemsShown,
                    ItemsNotStarved, Answered

\* The pool is a number, within the cap.
LEMMA PoolOf ==
    ASSUME NEW a, a.limit \in 1..MaxLimit
    PROVE  /\ a.limit \in Nat /\ Pool(a) \in Nat /\ Pool(a) <= Cap
           /\ Multiplier >= 2 /\ Cap >= 2 * a.limit => 2 * a.limit <= Pool(a)
<1>1. PICK l \in Nat : l = a.limit
  BY RetrievalConstants
<1>2. PICK m \in Nat \ {0} : m = Multiplier
  BY RetrievalConstants
<1>3. l * m \in Nat
  OBVIOUS
<1>4. m >= 2 => 2 * l <= l * m
  OBVIOUS
<1>5. Cap \in Nat
  BY RetrievalConstants
<1> QED
  BY <1>1, <1>2, <1>3, <1>4, <1>5 DEF Pool, Least

LEMMA SearchWords ==
    ASSUME RequestInv, LexicalSearch
    PROVE  RequestInv'
<1> DEFINE hits == {c \in Chunk : Doc[c].words /\ Entitled(ask, c)}
<1>1. PICK s \in Orders(hits) : lexical' = Top(s, Pool(ask))
  BY DEF LexicalSearch
<1>2. /\ stage = "asked" /\ stage' = "matched"
      /\ UNCHANGED <<status, active, ask, held>>
  BY DEF LexicalSearch
<1>3. s \in Ranking /\ ToSet(s) \in SUBSET hits
  <2>1. hits \in SUBSET Chunk /\ s \in SetToAllKPermutations(hits)
    BY DEF Orders
  <2> HIDE DEF hits
  <2> QED
    BY <2>1, PermutedRanking
<1>4. PICK n \in Nat : n = Pool(ask) /\ n <= Cap
  BY <1>2, PoolOf DEF RequestInv, Typed
<1>5. lexical' = Top(s, n)
  BY <1>1, <1>4
<1>6. /\ Top(s, n) \in Ranking /\ ToSet(Top(s, n)) \in SUBSET ToSet(s)
      /\ Len(Top(s, n)) = Least(n, Len(s))
  BY <1>3, TopRanking
<1>7. Len(lexical') <= Cap
  <2>1. Len(s) \in Nat /\ Cap \in Nat
    BY <1>3, RetrievalConstants DEF Ranking
  <2> QED
    BY <1>4, <1>5, <1>6, <2>1 DEF Least
<1>8. WordsFound'
  <2>1. \A c \in ToSet(lexical') : Entitled(ask, c)
    BY <1>3, <1>5, <1>6
  <2> QED
    BY <1>2, <1>5, <1>6, <1>7, <2>1 DEF WordsFound, Entitled
<1>9. Typed' /\ HeldNow'
  BY <1>2 DEF RequestInv, Typed, HeldNow
<1> QED
  BY <1>2, <1>8, <1>9 DEF RequestInv, VectorsFound, ItemsShown, ItemsNotStarved, Answered

LEMMA SearchVectors ==
    ASSUME RequestInv, VectorSearch
    PROVE  RequestInv'
<1>1. /\ stage = "matched" /\ stage' = "searched"
      /\ UNCHANGED <<status, active, ask, lexical, held>>
  BY DEF VectorSearch
<1>2. semantic' \in Ranking
  <2>1. CASE semantic' = << >>
    BY <2>1 DEF Ranking
  <2>2. CASE semantic' \in SetToAllKPermutations(Near(ask))
    <3>1. Near(ask) \in SUBSET Chunk
      BY DEF Near
    <3> QED
      BY <2>2, <3>1, PermutedRanking
  <2> QED
    BY <2>1, <2>2 DEF VectorSearch
<1>3. Typed' /\ HeldNow'
  BY <1>1 DEF RequestInv, Typed, HeldNow
<1>4. WordsFound'
  BY <1>1 DEF RequestInv, WordsFound, Entitled, Gone
<1> QED
  BY <1>1, <1>2, <1>3, <1>4 DEF RequestInv, VectorsFound, ItemsShown, ItemsNotStarved, Answered

\* What hydration shows was gated just now; of the words it shows enough.
LEMMA HydrateRequest ==
    ASSUME RequestInv, Hydrate
    PROVE  RequestInv'
<1> DEFINE F == Fuse(lexical, semantic, Pool(ask))
           h == Hydrated(ask, F)
<1>1. /\ stage = "searched" /\ stage' = "hydrated" /\ ranked' = h
      /\ UNCHANGED <<status, active, ask, lexical, reply, held>>
  BY DEF Hydrate
<1>2. /\ status \in [Chunk -> Status]
      /\ \A c \in Chunk : active[c] => status[c] \in held[c]
      /\ lexical \in Ranking /\ Len(lexical) <= Cap /\ semantic \in Ranking
      /\ \A c \in ToSet(lexical) : Entitled(ask, c) \/ Gone(c)
      /\ ask.limit \in 1..MaxLimit
  BY <1>1 DEF RequestInv, Typed, HeldNow, WordsFound, VectorsFound
<1>3. /\ ask.limit \in Nat /\ Pool(ask) \in Nat
      /\ Multiplier >= 2 /\ Cap >= 2 * ask.limit => 2 * ask.limit <= Pool(ask)
  BY <1>2, PoolOf
<1>4. F \in Ranking
  <2>1. PICK P \in Nat : P = Pool(ask)
    BY <1>3
  <2>2. Fuse(lexical, semantic, P) \in Ranking
    BY <1>2, FuseKeepsTheBest
  <2> QED
    BY <2>1, <2>2
<1>5. ToSet(F) \in SUBSET Chunk
  BY <1>4, RankingSet
<1> HIDE DEF F
<1>6. /\ h \in Listing
      /\ \A i \in 1..Len(h) : \E c \in ToSet(F) : Entitled(ask, c) /\ h[i] = Item(c)
      /\ \A c \in ToSet(F) : Entitled(ask, c) => \E i \in 1..Len(h) : h[i].chunk = c
  BY <1>2, <1>4, HydratedItems
<1> HIDE DEF h
<1>7. ASSUME NEW it \in ToSet(h) PROVE Shown(it)
  <2>1. PICK i \in 1..Len(h) : h[i] = it
    BY <1>6 DEF Listing, ToSet
  <2>2. PICK c \in ToSet(F) : Entitled(ask, c) /\ it = Item(c)
    BY <1>6, <2>1
  <2>3. it.chunk = c /\ it.status = status[c] /\ c \in Chunk
    BY <1>5, <2>2 DEF Item
  <2>4. it.status \in held[it.chunk]
    BY <1>2, <2>2, <2>3 DEF Entitled
  <2> QED
    BY <2>2, <2>3, <2>4 DEF Shown, Entitled
<1>8. ItemsShown'
  <2>1. \A it \in ToSet(h) : Shown(it)'
    BY <1>1, <1>7 DEF Shown
  <2> QED
    BY <1>1, <1>6, <2>1 DEF ItemsShown
<1>9. ASSUME Multiplier >= 2, Cap >= 2 * ask.limit, \A c \in ToSet(lexical) : ~Gone(c)
      PROVE  Len(h) >= Least(ask.limit, Len(lexical))
  <2>1. PICK P \in Nat, n \in Nat, s \in {lexical}, t \in {semantic} :
          P = Pool(ask) /\ n = ask.limit /\ s = lexical /\ t = semantic
    BY <1>3
  <2> DEFINE W == ToSet(s) \cap ToSet(Fuse(s, t, P))
  <2>2. s \in Ranking /\ t \in Ranking /\ Len(s) <= Cap /\ 2 * n <= P
    BY <1>2, <1>3, <1>9, <2>1
  <2>3. IsFiniteSet(W) /\ Least(n, Len(s)) <= Cardinality(W)
    BY <2>2, WordsAreNotStarved
  <2>4. \A c \in W : \E i \in 1..Len(h) : h[i].chunk = c
    BY <1>2, <1>6, <1>9, <2>1 DEF F
  <2> HIDE DEF W
  <2>5. Len(h) \in Nat /\ Cardinality(W) <= Len(h)
    BY <1>6, <2>4, ListingCovers
  <2>6. Cardinality(W) \in Nat /\ Least(n, Len(s)) \in Nat
    BY <2>2, <2>3, FS_CardinalityType DEF Least, Ranking
  <2>7. Least(n, Len(s)) <= Len(h)
    BY <2>3, <2>5, <2>6
  <2> QED
    BY <2>1, <2>5, <2>6, <2>7
<1>10. ItemsNotStarved'
  <2>1. (\A c \in ToSet(lexical) : ~Gone(c)') => \A c \in ToSet(lexical) : ~Gone(c)
    BY <1>1 DEF Gone
  <2> QED
    BY <1>1, <1>9, <2>1 DEF ItemsNotStarved
<1>11. Typed' /\ HeldNow'
  BY <1>1 DEF RequestInv, Typed, HeldNow
<1>12. WordsFound'
  BY <1>1 DEF RequestInv, WordsFound, Entitled, Gone
<1> QED
  BY <1>1, <1>8, <1>10, <1>11, <1>12 DEF RequestInv, VectorsFound, Answered

\* The answer is drawn from what was shown.
LEMMA AnswerRequest ==
    ASSUME RequestInv, stage = "hydrated", stage' = "answered",
           UNCHANGED <<status, active, ask, lexical, held>>,
           NEW items \in Listing, NEW applied, Answer(items, applied),
           ToSet(items) \in SUBSET ToSet(ranked),
           ~applied => items = Top(ranked, ask.limit)
    PROVE  RequestInv'
<1>1. PICK compress \in BOOLEAN :
        /\ ranked' = items
        /\ reply' = [items |-> IF compress THEN Compress(items) ELSE items,
                     dropped |-> Len(items)
                                   - Len(IF compress THEN Compress(items) ELSE items),
                     applied |-> applied, compressed |-> compress]
  BY DEF Answer
<1>2. Answered'
  BY <1>1 DEF Answered
<1>3. ItemsShown'
  <2>1. \A it \in ToSet(items) : Shown(it)
    BY DEF RequestInv, ItemsShown
  <2>2. \A it \in ToSet(items) : Shown(it)'
    BY <2>1 DEF Shown
  <2> QED
    BY <1>1, <2>2 DEF ItemsShown
<1>4. ItemsNotStarved'
  <2>1. SUFFICES ASSUME ~reply'.applied, Multiplier >= 2, Cap >= 2 * ask.limit,
                        \A c \in ToSet(lexical) : ~Gone(c)'
                 PROVE  Len(items) >= Least(ask.limit, Len(lexical))
    BY <1>1 DEF ItemsNotStarved
  <2>2. \A c \in ToSet(lexical) : ~Gone(c)
    BY <2>1 DEF Gone
  <2>3. Len(ranked) >= Least(ask.limit, Len(lexical))
    BY <2>1, <2>2 DEF RequestInv, ItemsNotStarved
  <2>4. items = Top(ranked, ask.limit)
    BY <1>1, <2>1
  <2>5. ranked \in Seq(ItemSet) /\ lexical \in Seq(Chunk) /\ ask.limit \in 1..MaxLimit
    BY DEF RequestInv, ItemsShown, WordsFound, Typed, Listing, Ranking
  <2>6. PICK n \in Nat : n = ask.limit
    BY <2>5, PoolOf
  <2>7. Len(items) = Least(n, Len(ranked))
    BY <2>4, <2>5, <2>6, TopOf
  <2> QED
    BY <2>3, <2>5, <2>6, <2>7 DEF Least
<1>5. Typed' /\ HeldNow'
  BY DEF RequestInv, Typed, HeldNow
<1>6. WordsFound'
  BY DEF RequestInv, WordsFound, Entitled, Gone
<1> QED
  BY <1>2, <1>3, <1>4, <1>5, <1>6 DEF RequestInv, VectorsFound

LEMMA RerankRequest ==
    ASSUME RequestInv, RerankAndAnswer
    PROVE  RequestInv'
<1>1. /\ stage = "hydrated" /\ stage' = "answered"
      /\ UNCHANGED <<status, active, ask, lexical, held>>
  BY DEF RerankAndAnswer
<1>2. ranked \in Listing /\ ask.limit \in 1..MaxLimit
  BY <1>1 DEF RequestInv, ItemsShown, Typed
<1>3. PICK n \in Nat : n = ask.limit
  BY <1>2, PoolOf
<1>4. CASE Answer(Top(ranked, ask.limit), FALSE)
  <2>1. Top(ranked, n) \in Listing /\ ToSet(Top(ranked, n)) \in SUBSET ToSet(ranked)
    BY <1>2, TopItems
  <2> QED
    BY <1>1, <1>3, <1>4, <2>1, AnswerRequest
<1>5. ASSUME NEW hits \in BoundedSeq(1..Len(ranked) + 1, ask.limit + 1),
             Answer(ApplyHits(ranked, hits, ask.limit), TRUE)
      PROVE  RequestInv'
  <2>1. hits \in Seq(Nat)
    <3>1. Len(ranked) \in Nat
      BY <1>2 DEF Listing
    <3>2. PICK m \in 0..n + 1 : hits \in [1..m -> 1..Len(ranked) + 1]
      BY <1>3 DEF BoundedSeq, SeqOf
    <3>3. m \in Nat /\ hits \in [1..m -> Nat]
      BY <3>1, <3>2
    <3> QED
      BY <3>3
  <2>2. /\ ApplyHits(ranked, hits, n) \in Listing
        /\ ToSet(ApplyHits(ranked, hits, n)) \in SUBSET ToSet(ranked)
    BY <1>2, <2>1, HitItems
  <2> QED
    BY <1>1, <1>3, <1>5, <2>2, AnswerRequest
<1> QED
  BY <1>4, <1>5 DEF RerankAndAnswer

LEMMA NextRequest == RequestInv /\ [Next]_vars => RequestInv'
<1> SUFFICES ASSUME RequestInv, [Next]_vars PROVE RequestInv'
  OBVIOUS
<1>1. CASE \E c \in Chunk : Decide(c) \/ Retire(c)
  BY <1>1, DecideRequest, RetireRequest
<1>2. CASE \E who \in User, p \in Project : AskAsUser(who, p)
  BY <1>2, BeginRequest DEF AskAsUser
<1>3. CASE \E who \in Agent, p \in Project : AskAsAgent(who, p)
  BY <1>3, BeginRequest DEF AskAsAgent
<1>4. CASE LexicalSearch
  BY <1>4, SearchWords
<1>5. CASE VectorSearch
  BY <1>5, SearchVectors
<1>6. CASE Hydrate
  BY <1>6, HydrateRequest
<1>7. CASE RerankAndAnswer
  BY <1>7, RerankRequest
<1>8. CASE Deliver \/ TakeAnswer \/ StatementError
  BY <1>8, ClearRequest DEF Deliver, TakeAnswer, StatementError
<1>9. CASE AskQuestion
  BY <1>9, BeginRequest DEF AskQuestion
<1>10. CASE (\E who \in User : StartEvaluation(who)) \/ QuestionRefused \/ Report
  BY <1>10, Aside DEF StartEvaluation, QuestionRefused, Report
<1>11. CASE UNCHANGED vars
  BY <1>11, Aside DEF vars
<1> QED
  BY <1>1, <1>2, <1>3, <1>4, <1>5, <1>6, <1>7, <1>8, <1>9, <1>10, <1>11 DEF Next

\* The invariant of a request: its history knows the present, what the words
\* found is entitled or gone for good, what was hydrated may be shown and is
\* not starved of words, and the answer is what compression makes of it.
THEOREM RequestHolds == Spec => []RequestInv
<1>1. Init => RequestInv
  BY InitRequest
<1>2. RequestInv /\ [Next]_vars => RequestInv'
  BY NextRequest
<1> QED
  BY <1>1, <1>2, PTL DEF Spec

---------------------------------------------------------------------------
(* What follows for the answer.                                            *)

\* However promotions, rejections and retirements fall between the stages, an
\* answer shows only items the request may see, with a status they had after
\* it began (HYDRATE_SQL gates what the searches returned).
THEOREM AnswersEntitled == Spec => []AnswersAreEntitled
<1>1. RequestInv => AnswersAreEntitled
  <2>1. SUFFICES ASSUME RequestInv, stage = "answered", NEW it \in Delivered
                 PROVE  Shown(it)
    BY DEF AnswersAreEntitled, Shown
  <2>2. ranked \in Listing /\ \A x \in ToSet(ranked) : Shown(x)
    BY <2>1 DEF RequestInv, ItemsShown
  <2>3. reply.items = Compress(ranked) \/ reply.items = ranked
    BY <2>1 DEF RequestInv, Answered
  <2>4. ToSet(reply.items) \in SUBSET ToSet(ranked)
    BY <2>2, <2>3, Compressed
  <2> QED
    BY <2>1, <2>2, <2>4 DEF Delivered
<1> QED
  BY <1>1, RequestHolds, PTL

\* For every list of items, compression keeps of each body the most trusted
\* version, at the place of the first, and counts the rest (compress_items).
THEOREM CompressionKeepsTrust == Spec => []CompressKeepsTrust
<1>1. RequestInv => CompressKeepsTrust
  <2> SUFFICES ASSUME RequestInv, stage = "answered", reply.compressed
               PROVE  CompressKeepsTrust
    BY DEF CompressKeepsTrust
  <2>1. ranked \in Listing
    BY DEF RequestInv, ItemsShown
  <2>2. reply.items = Compress(ranked) /\ reply.dropped = Len(ranked) - Len(reply.items)
    BY DEF RequestInv, Answered
  <2>3. \A it \in ToSet(ranked) : \E kept \in Delivered :
          Alike(kept, it) /\ Preference(kept.status) <= Preference(it.status)
    BY <2>1, <2>2, Compressed DEF Delivered
  <2>4. \A i, j \in DOMAIN reply.items : i < j =>
          Min({m \in DOMAIN ranked : Alike(ranked[m], reply.items[i])})
            < Min({m \in DOMAIN ranked : Alike(ranked[m], reply.items[j])})
    BY <2>1, <2>2, Compressed
  <2> QED
    BY <2>2, <2>3, <2>4 DEF CompressKeepsTrust, Alike
<1> QED
  BY <1>1, RequestHolds, PTL

\* For every limit and every ranking, as long as nothing the words found has
\* changed and the reranker did not choose, the answer is drawn from as many
\* items as they found, up to the limit: a vector hit that outranks the i-th
\* of the words is among the first i of the vectors, so a pool of twice the
\* limit keeps enough words (retrieve_context).
THEOREM WordsNotStarved == Spec => []LexicalIsNotStarved
<1>1. RequestInv => LexicalIsNotStarved
  <2> SUFFICES ASSUME RequestInv, stage = "answered", ~reply.applied,
                      Multiplier >= 2, Cap >= 2 * ask.limit,
                      \A c \in ToSet(lexical) : Entitled(ask, c)
               PROVE  Len(ranked) >= Least(ask.limit, Len(lexical))
    BY DEF LexicalIsNotStarved
  <2>1. \A c \in ToSet(lexical) : ~Gone(c)
    BY DEF Entitled, Gone
  <2> QED
    BY <2>1 DEF RequestInv, ItemsNotStarved
<1> QED
  BY <1>1, RequestHolds, PTL
=============================================================================
