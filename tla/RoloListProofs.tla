--------------------------- MODULE RoloListProofs ----------------------------
(***************************************************************************)
(* Theorems about module RoloList, for lists of any length, scans nested   *)
(* to any depth, any entries and any file, and a user who deletes nothing  *)
(* that an outer scan shows and asks for no match number 0.                *)
(*                                                                         *)
(* A list links up a sequence of links: from there on pointers are places  *)
(* in a sequence, and what follows pointers from link to link is a fact    *)
(* about places, proved by induction over the number of pointers followed. *)
(***************************************************************************)
EXTENDS RoloList, FiniteSetTheorems, TLAPS

-----------------------------------------------------------------------------
(* Induction, over a set of numbers.  The library's theorems take the      *)
(* predicate as an operator; this one follows from the pigeonhole          *)
(* principle: if m were the exception, adding 1 would map the members up   *)
(* to m into those without 0.                                              *)

LEMMA SetInduction ==
  ASSUME NEW S, 0 \in S, \A n \in Nat : n \in S => n + 1 \in S
  PROVE  Nat \subseteq S
  <1> SUFFICES ASSUME NEW m \in Nat, m \notin S PROVE FALSE
    OBVIOUS
  <1> DEFINE T == {n \in 0..m : n \in S}
             U == T \ {0}
             f == [n \in T |-> n + 1]
  <1>1. 0 \in T
    OBVIOUS
  <1>2. IsFiniteSet(T) /\ Cardinality(T) \in Nat
    <2>1. IsFiniteSet(0..m) /\ T \in SUBSET (0..m)
      BY FS_Interval
    <2> HIDE DEF T
    <2> QED
      BY <2>1, FS_Subset, FS_CardinalityType
  <1>3. IsFiniteSet(U) /\ Cardinality(U) = Cardinality(T) - 1
    <2> HIDE DEF T
    <2> QED
      BY <1>1, <1>2, FS_RemoveElement
  <1>4. f \in [T -> U]
    OBVIOUS
  <1>5. PICK x, y \in T : x # y /\ f[x] = f[y]
    <2> HIDE DEF f, T, U
    <2> QED
      BY <1>2, <1>3, <1>4, FS_PigeonHole
  <1> QED
    BY <1>5

LEMMA BoundedInduction ==
  ASSUME NEW N \in Nat, NEW S, 0 \in S, \A n \in 0..N - 1 : n \in S => n + 1 \in S
  PROVE  0..N \subseteq S
  <1> DEFINE T == {n \in Nat : n <= N => n \in S}
  <1>1. 0 \in T /\ \A n \in Nat : n \in T => n + 1 \in T
    OBVIOUS
  <1>2. Nat \subseteq T
    <2> HIDE DEF T
    <2> QED
      BY <1>1, SetInduction
  <1> QED
    BY <1>2

LEMMA MinIsLeast ==
  ASSUME NEW S \in SUBSET Nat, S # {}
  PROVE  Min(S) \in S /\ \A n \in S : Min(S) <= n
  <1>1. \E m \in S : \A n \in S : m <= n
    <2> SUFFICES ASSUME \A m \in S : \E n \in S : ~(m <= n) PROVE FALSE
      OBVIOUS
    <2> DEFINE T == {k \in Nat : \A m \in 0..k : m \notin S}
    <2>1. 0 \in T
      OBVIOUS
    <2>2. \A k \in Nat : k \in T => k + 1 \in T
      OBVIOUS
    <2>3. Nat \subseteq T
      <3> HIDE DEF T
      <3> QED
        BY <2>1, <2>2, SetInduction
    <2>4. PICK m \in S : m \in T
      BY <2>3
    <2> QED
      BY <2>4
  <1> DEFINE Least(m) == m \in S /\ \A n \in S : m <= n
  <1>2. \E m : Least(m)
    BY <1>1
  <1>3. Least(CHOOSE m : Least(m))
    <2> HIDE DEF Least
    <2> QED
      BY <1>2
  <1>4. Min(S) = CHOOSE m : Least(m)
    BY DEF Min
  <1> QED
    BY <1>3, <1>4

\* what takes the number of a place and the value before to a value
Steps(N, V) == [(1..N) \X V -> V]

\* There is a function that is defined by what it is before.
LEMMA Iteration ==
  ASSUME NEW N \in Nat, NEW V, NEW x \in V, NEW g \in Steps(N, V)
  PROVE  \E f \in [0..N -> V] : f[0] = x /\ \A n \in 1..N : f[n] = g[<<n, f[n - 1]>>]
  <1> DEFINE Upto(k, f) ==
               /\ f \in [0..k -> V]
               /\ f[0] = x
               /\ \A n \in 1..k : f[n] = g[<<n, f[n - 1]>>]
             T == {k \in 0..N : \E f : Upto(k, f)}
  <1>1. 0 \in T
    <2> DEFINE f == [n \in 0..0 |-> x]
    <2>1. f \in [0..0 -> V] /\ f[0] = x
      OBVIOUS
    <2>2. Upto(0, f)
      BY <2>1
    <2> HIDE DEF f, Upto
    <2> QED
      BY <2>2
  <1>2. \A k \in 0..N - 1 : k \in T => k + 1 \in T
    <2> SUFFICES ASSUME NEW k \in 0..N - 1, \E f : Upto(k, f)
                 PROVE  \E h : Upto(k + 1, h)
      <3> HIDE DEF Upto
      <3> QED
        OBVIOUS
    <2> PICK f : Upto(k, f)
      OBVIOUS
    <2> DEFINE h == [n \in 0..k + 1 |-> IF n = k + 1 THEN g[<<n, f[n - 1]>>] ELSE f[n]]
    <2>1. h \in [0..k + 1 -> V]
      BY DEF Steps
    <2>2. h[0] = x
      OBVIOUS
    <2>3. \A n \in 1..k + 1 : h[n] = g[<<n, h[n - 1]>>]
      OBVIOUS
    <2>4. Upto(k + 1, h)
      BY <2>1, <2>2, <2>3
    <2> HIDE DEF h, Upto
    <2> QED
      BY <2>4
  <1>3. N \in T
    <2> HIDE DEF T
    <2> QED
      BY <1>1, <1>2, BoundedInduction
  <1>4. PICK f : Upto(N, f)
    <2> HIDE DEF Upto
    <2> QED
      BY <1>3
  <1> QED
    BY <1>4

-----------------------------------------------------------------------------
(* A list as a sequence of links.                                          *)

ListType == [next : [Pointers -> Pointers], prev : [Pointers -> Pointers]]

\* The link at place i of q; before the first and behind the last is no link.
Nth(q, i) == IF i \in 1..Len(q) THEN q[i] ELSE 0

\* q has each of its links once.
Line(q) == q \in Seq(Links) /\ \A i, j \in 1..Len(q) : q[i] = q[j] => i = j

\* The pointers of L lead from each place of q to the ones beside it.
Linked(L, q) ==
  /\ L \in ListType /\ Line(q)
  /\ \A i \in 0..Len(q) : L.next[Nth(q, i)] = Nth(q, i + 1)
  /\ \A i \in 1..Len(q) + 1 : L.prev[Nth(q, i)] = Nth(q, i - 1)

LEMMA LinksFacts ==
  /\ MaxLinks \in Nat /\ 0 \in Pointers /\ 0 \notin Links
  /\ \A x : x \in Pointers <=> x \in Links \/ x = 0
  BY ListAssumption DEF Links, Pointers

LEMMA NthFacts ==
  ASSUME NEW q, Line(q)
  PROVE  /\ Len(q) \in Nat
         /\ \A i \in Int : Nth(q, i) \in Pointers
         /\ \A i \in 1..Len(q) : Nth(q, i) = q[i] /\ q[i] \in Links /\ q[i] # 0
         /\ \A i, j \in 0..Len(q) : Nth(q, i) = Nth(q, j) => i = j
         /\ \A i, j \in 1..Len(q) + 1 : Nth(q, i) = Nth(q, j) => i = j
  BY LinksFacts DEF Line, Nth

\* A line has no more links than there are.
LEMMA LineIsShort ==
  ASSUME NEW q, Line(q)
  PROVE  /\ Len(q) <= MaxLinks
         /\ IsFiniteSet(Range(q)) /\ Cardinality(Range(q)) = Len(q)
  <1> DEFINE N == 1..Len(q)
  <1>0. Len(q) \in Nat /\ q \in [N -> Links] /\ DOMAIN q = N
    BY DEF Line
  <1>1. IsFiniteSet(N) /\ Cardinality(N) = Len(q)
    BY <1>0, FS_Interval
  <1>2. q \in Injection(N, Range(q)) /\ q \in Surjection(N, Range(q))
    BY <1>0 DEF Line, Injection, Surjection, IsInjective, Range
  <1>3. IsFiniteSet(Range(q)) /\ Cardinality(Range(q)) = Cardinality(N)
    <2> HIDE DEF N
    <2> QED
      BY <1>1, <1>2, FS_Surjection
  <1>4. IsFiniteSet(Links) /\ Cardinality(Links) = MaxLinks
    BY FS_Interval, LinksFacts DEF Links
  <1>5. Range(q) \in SUBSET Links
    BY <1>0 DEF Range
  <1>6. Cardinality(Range(q)) <= MaxLinks
    BY <1>4, <1>5, FS_Subset
  <1> QED
    BY <1>1, <1>3, <1>6

-----------------------------------------------------------------------------
(* Following pointers.                                                     *)

LEMMA FollowIs ==
  ASSUME NEW step \in [Pointers -> Pointers], NEW x \in Pointers
  PROVE  /\ Follow(step, x) \in [0..MaxLinks -> Pointers]
         /\ Follow(step, x)[0] = x
         /\ \A n \in 1..MaxLinks :
              Follow(step, x)[n] = IF Follow(step, x)[n - 1] = 0 THEN 0
                                   ELSE step[Follow(step, x)[n - 1]]
  <1> DEFINE at == Follow(step, x)
             g == [p \in (1..MaxLinks) \X Pointers |-> IF p[2] = 0 THEN 0 ELSE step[p[2]]]
             P(f) == f = [n \in 0..MaxLinks |-> IF n = 0 THEN x
                             ELSE IF f[n - 1] = 0 THEN 0 ELSE step[f[n - 1]]]
  <1>1. at = CHOOSE f : P(f)
    BY DEF Follow
  <1>2. \A n \in 1..MaxLinks, v \in Pointers :
          g[<<n, v>>] = IF v = 0 THEN 0 ELSE step[v]
    BY LinksFacts
  <1>3. PICK f \in [0..MaxLinks -> Pointers] :
          f[0] = x /\ \A n \in 1..MaxLinks : f[n] = g[<<n, f[n - 1]>>]
    <2>1. g \in Steps(MaxLinks, Pointers)
      BY LinksFacts DEF Steps
    <2>2. MaxLinks \in Nat
      BY LinksFacts
    <2> HIDE DEF g
    <2> QED
      BY <2>1, <2>2, Iteration
  <1>4. \A n \in 1..MaxLinks : f[n - 1] \in Pointers
    BY <1>3, LinksFacts
  <1>5. \A n \in 1..MaxLinks : f[n] = IF f[n - 1] = 0 THEN 0 ELSE step[f[n - 1]]
    <2> HIDE DEF g
    <2> QED
      BY <1>2, <1>3, <1>4
  <1>6. P(f)
    BY <1>3, <1>5, LinksFacts
  <1>7. P(at)
    <2> HIDE DEF P
    <2> QED
      BY <1>1, <1>6
  <1>8. /\ DOMAIN at = 0..MaxLinks /\ at[0] = x
        /\ \A n \in 1..MaxLinks : at[n] = IF at[n - 1] = 0 THEN 0 ELSE step[at[n - 1]]
    <2> HIDE DEF at
    <2> QED
      BY <1>7, LinksFacts
  <1>9. \A n \in 0..MaxLinks : at[n] \in Pointers
    <2> DEFINE T == {n \in 0..MaxLinks : at[n] \in Pointers}
    <2> HIDE DEF at
    <2>1. 0 \in T
      BY <1>8, LinksFacts
    <2>2. \A n \in 0..MaxLinks - 1 : n \in T => n + 1 \in T
      BY <1>8, LinksFacts
    <2>3. 0..MaxLinks \subseteq T
      <3> HIDE DEF T
      <3> QED
        BY <2>1, <2>2, LinksFacts, BoundedInduction
    <2> QED
      BY <2>3
  <1>10. at = [n \in 0..MaxLinks |-> at[n]]
    <2> HIDE DEF at
    <2> QED
      BY <1>7
  <1> HIDE DEF at
  <1>11. at \in [0..MaxLinks -> Pointers]
    BY <1>9, <1>10
  <1> QED
    BY <1>8, <1>11 DEF at

\* From place i on, the pointers lead to the places behind it.
LEMMA FollowNext ==
  ASSUME NEW L, NEW q, Linked(L, q), NEW i \in 1..Len(q) + 1
  PROVE  /\ Nth(q, i) \in Pointers
         /\ \A n \in 0..MaxLinks : Follow(L.next, Nth(q, i))[n] = Nth(q, i + n)
  <1>1. /\ L.next \in [Pointers -> Pointers] /\ Line(q) /\ Len(q) \in Nat
        /\ Nth(q, i) \in Pointers
    BY NthFacts DEF Linked, ListType
  <1> DEFINE at == Follow(L.next, Nth(q, i))
             T == {n \in 0..MaxLinks : at[n] = Nth(q, i + n)}
  <1>2. at[0] = Nth(q, i) /\ \A n \in 1..MaxLinks : at[n] = IF at[n - 1] = 0 THEN 0 ELSE L.next[at[n - 1]]
    BY <1>1, FollowIs
  <1> HIDE DEF at
  <1>3. 0 \in T
    BY <1>2, LinksFacts
  <1>4. \A n \in 0..MaxLinks - 1 : n \in T => n + 1 \in T
    <2> SUFFICES ASSUME NEW n \in 0..MaxLinks - 1, at[n] = Nth(q, i + n)
                 PROVE  at[n + 1] = Nth(q, i + (n + 1))
      BY LinksFacts
    <2>1. at[n + 1] = IF Nth(q, i + n) = 0 THEN 0 ELSE L.next[Nth(q, i + n)]
      BY <1>2, LinksFacts
    <2>2. CASE i + n \in 1..Len(q)
      BY <2>1, <2>2, <1>1, NthFacts DEF Linked
    <2>3. CASE i + n \notin 1..Len(q)
      BY <2>1, <2>3, <1>1 DEF Nth
    <2> QED
      BY <2>2, <2>3
  <1>5. 0..MaxLinks \subseteq T
    <2> HIDE DEF T
    <2> QED
      BY <1>3, <1>4, LinksFacts, BoundedInduction
  <1> QED
    BY <1>1, <1>5 DEF at

\* A list read from its end is a list.
Mirror(L) == [next |-> L.prev, prev |-> L.next]

LEMMA Mirrored ==
  ASSUME NEW L, NEW q, Linked(L, q)
  PROVE  Linked(Mirror(L), Reverse(q)) /\ Range(Reverse(q)) = Range(q)
  <1> DEFINE r == Reverse(q)
  <1>1. L \in ListType /\ Line(q) /\ Len(q) \in Nat /\ q \in Seq(Links) /\ q \in [1..Len(q) -> Links]
    BY NthFacts DEF Linked, Line
  <1>2. r \in Seq(Links) /\ Len(r) = Len(q) /\ \A i \in 1..Len(q) : r[i] = q[Len(q) - i + 1]
    BY <1>1 DEF Reverse
  <1>3. \A i \in 0..Len(q) + 1 : Nth(r, i) = Nth(q, Len(q) + 1 - i)
    BY <1>1, <1>2 DEF Nth
  <1>4. Line(r)
    BY <1>1, <1>2 DEF Line
  <1>5. Mirror(L) \in ListType
    BY <1>1 DEF Mirror, ListType
  <1>6. \A i \in 0..Len(r) : Mirror(L).next[Nth(r, i)] = Nth(r, i + 1)
    <2> SUFFICES ASSUME NEW i \in 0..Len(q) PROVE L.prev[Nth(r, i)] = Nth(r, i + 1)
      BY <1>2 DEF Mirror
    <2> DEFINE k == Len(q) + 1 - i
    <2>1. k \in 1..Len(q) + 1 /\ k - 1 = Len(q) + 1 - (i + 1) /\ i + 1 \in 0..Len(q) + 1
      BY <1>1
    <2>2. L.prev[Nth(q, k)] = Nth(q, k - 1)
      BY <2>1 DEF Linked
    <2> QED
      BY <2>1, <2>2, <1>3
  <1>7. \A i \in 1..Len(r) + 1 : Mirror(L).prev[Nth(r, i)] = Nth(r, i - 1)
    BY <1>1, <1>2, <1>3 DEF Mirror, Linked
  <1>8. Range(r) = Range(q)
    <2>1. DOMAIN q = 1..Len(q) /\ DOMAIN r = 1..Len(q)
      BY <1>1, <1>2
    <2>2. \A i \in 1..Len(q) : Len(q) - i + 1 \in 1..Len(q) /\ Len(q) - (Len(q) - i + 1) + 1 = i
      BY <1>1
    <2> QED
      BY <2>1, <2>2, <1>2 DEF Range
  <1> QED
    BY <1>4, <1>5, <1>6, <1>7, <1>8 DEF Linked

LEMMA ChainIs ==
  ASSUME NEW L, NEW q, Linked(L, q)
  PROVE  Chain(L.next) = q
  <1> DEFINE at == Follow(L.next, L.next[0])
             full == {n \in DOMAIN at : at[n] # 0}
  <1>1. /\ Line(q) /\ Len(q) \in Nat /\ q \in [1..Len(q) -> Links] /\ Len(q) <= MaxLinks
        /\ L.next \in [Pointers -> Pointers] /\ L.next[0] = Nth(q, 1)
    BY NthFacts, LineIsShort DEF Linked, Line, ListType, Nth
  <1>2. DOMAIN at = 0..MaxLinks /\ \A n \in 0..MaxLinks : at[n] = Nth(q, 1 + n)
    BY <1>1, FollowNext, FollowIs
  <1>3. full = 0..Len(q) - 1
    <2> HIDE DEF at
    <2> QED
      BY <1>1, <1>2, LinksFacts, NthFacts DEF Nth
  <1>4. Cardinality(full) = Len(q)
    <2>1. 0 \in Int /\ Len(q) - 1 \in Int
      BY <1>1
    <2>2. Cardinality(0..Len(q) - 1) = IF 0 > Len(q) - 1 THEN 0 ELSE Len(q) - 1 - 0 + 1
      BY <2>1, FS_Interval
    <2>3. (IF 0 > Len(q) - 1 THEN 0 ELSE Len(q) - 1 - 0 + 1) = Len(q)
      BY <1>1
    <2> HIDE DEF full
    <2> QED
      BY <1>3, <2>2, <2>3
  <1>5. \A n \in 1..Len(q) : at[n - 1] = q[n]
    <2> HIDE DEF at
    <2> QED
      BY <1>1, <1>2, LinksFacts DEF Nth
  <1>6. Chain(L.next) = [n \in 1..Cardinality(full) |-> at[n - 1]]
    BY DEF Chain
  <1> QED
    BY <1>1, <1>4, <1>5, <1>6

\* A search from a place on finds the first of S, or comes to the end.
LEMMA SeekIs ==
  ASSUME NEW L, NEW q, Linked(L, q), NEW i \in 1..Len(q) + 1, NEW S \in SUBSET Links
  PROVE  \E j \in i..Len(q) + 1 :
           /\ Seek(L.next, Nth(q, i), S) = Nth(q, j)
           /\ j <= Len(q) => q[j] \in S
           /\ \A k \in i..j - 1 : q[k] \notin S
  <1> DEFINE at == Follow(L.next, Nth(q, i))
             met == {n \in DOMAIN at : at[n] \in S}
  <1>1. /\ Line(q) /\ Len(q) \in Nat /\ Len(q) <= MaxLinks /\ MaxLinks \in Nat
        /\ L.next \in [Pointers -> Pointers] /\ 0 \notin S
    BY NthFacts, LineIsShort, LinksFacts DEF Linked, ListType
  <1>2. DOMAIN at = 0..MaxLinks /\ \A n \in 0..MaxLinks : at[n] = Nth(q, i + n)
    BY <1>1, FollowNext, FollowIs
  <1>3. Seek(L.next, Nth(q, i), S) = IF met = {} THEN 0 ELSE at[Min(met)]
    BY DEF Seek
  <1> HIDE DEF at
  <1>4. \A k \in i..Len(q) : q[k] \in S <=> k - i \in met
    BY <1>1, <1>2 DEF Nth
  <1>5. CASE met = {}
    <2>1. Nth(q, Len(q) + 1) = 0
      BY <1>1 DEF Nth
    <2> QED
      BY <1>1, <1>3, <1>4, <1>5, <2>1
  <1>6. CASE met # {}
    <2> DEFINE m == Min(met)
    <2>1. m \in met /\ \A n \in met : m <= n
      <3>1. met \in SUBSET Nat
        BY <1>2
      <3> HIDE DEF met
      <3> QED
        BY <3>1, <1>6, MinIsLeast
    <2> HIDE DEF m
    <2>2. m \in 0..MaxLinks /\ Nth(q, i + m) \in S
      BY <1>2, <2>1
    <2>3. i + m \in i..Len(q)
      BY <1>1, <2>2 DEF Nth
    <2>4. q[i + m] \in S
      BY <1>1, <2>2, <2>3 DEF Nth
    <2>5. \A k \in i..(i + m) - 1 : q[k] \notin S
      <3> HIDE DEF met
      <3> QED
        BY <1>1, <1>4, <2>1, <2>2, <2>3
    <2>6. Seek(L.next, Nth(q, i), S) = Nth(q, i + m)
      BY <1>2, <1>3, <1>6, <2>2 DEF m
    <2> QED
      BY <2>3, <2>4, <2>5, <2>6, <1>1
  <1> QED
    BY <1>5, <1>6

-----------------------------------------------------------------------------
(* A link more, or one less.                                               *)

Placed(q, j, x) ==
  [n \in 1..Len(q) + 1 |-> IF n < j THEN q[n] ELSE IF n = j THEN x ELSE q[n - 1]]

Removed(q, j) == [n \in 1..Len(q) - 1 |-> IF n < j THEN q[n] ELSE q[n + 1]]

LEMMA PlacedIs ==
  ASSUME NEW q, Line(q), NEW j \in 1..Len(q) + 1, NEW x \in Links, x \notin Range(q)
  PROVE  /\ Line(Placed(q, j, x)) /\ Len(Placed(q, j, x)) = Len(q) + 1
         /\ \A i \in Int : Nth(Placed(q, j, x), i) = IF i < j THEN Nth(q, i)
                                                     ELSE IF i = j THEN x ELSE Nth(q, i - 1)
         /\ Range(Placed(q, j, x)) = Range(q) \cup {x}
  <1> DEFINE r == Placed(q, j, x)
  <1>1. /\ Len(q) \in Nat /\ q \in [1..Len(q) -> Links] /\ DOMAIN q = 1..Len(q)
        /\ \A n \in 1..Len(q) : q[n] \in Links /\ q[n] # x
    BY NthFacts DEF Line, Range
  <1>2. r \in [1..Len(q) + 1 -> Links]
    BY <1>1 DEF Placed
  <1>3. r \in Seq(Links) /\ Len(r) = Len(q) + 1
    BY <1>1, <1>2
  <1>4. \A n \in 1..Len(q) + 1 : r[n] = IF n < j THEN q[n] ELSE IF n = j THEN x ELSE q[n - 1]
    BY DEF Placed
  <1> HIDE DEF r
  <1>5. Line(r)
    BY <1>1, <1>3, <1>4, SMTT(30) DEF Line
  <1>6. \A i \in Int : Nth(r, i) = IF i < j THEN Nth(q, i) ELSE IF i = j THEN x ELSE Nth(q, i - 1)
    BY <1>1, <1>3, <1>4 DEF Nth
  <1>7. Range(r) \subseteq Range(q) \cup {x}
    BY <1>1, <1>2, <1>4 DEF Range
  <1>8. Range(q) \cup {x} \subseteq Range(r)
    <2>1. r[j] = x /\ \A n \in 1..Len(q) : r[IF n < j THEN n ELSE n + 1] = q[n]
      BY <1>1, <1>4
    <2>2. DOMAIN r = 1..Len(q) + 1 /\ \A n \in 1..Len(q) : (IF n < j THEN n ELSE n + 1) \in 1..Len(q) + 1
      BY <1>1, <1>2
    <2> QED
      BY <1>1, <2>1, <2>2 DEF Range
  <1> QED
    BY <1>3, <1>5, <1>6, <1>7, <1>8 DEF r

LEMMA RemovedIs ==
  ASSUME NEW q, Line(q), NEW j \in 1..Len(q)
  PROVE  /\ Line(Removed(q, j)) /\ Len(Removed(q, j)) = Len(q) - 1
         /\ \A i \in 0..Len(q) : Nth(Removed(q, j), i) = IF i < j THEN Nth(q, i) ELSE Nth(q, i + 1)
         /\ Range(Removed(q, j)) = Range(q) \ {q[j]}
  <1> DEFINE r == Removed(q, j)
  <1>1. /\ Len(q) \in Nat /\ q \in [1..Len(q) -> Links] /\ DOMAIN q = 1..Len(q)
        /\ \A m, n \in 1..Len(q) : q[m] = q[n] => m = n
    BY NthFacts DEF Line
  <1>2. r \in [1..Len(q) - 1 -> Links]
    BY <1>1 DEF Removed
  <1>3. r \in Seq(Links) /\ Len(r) = Len(q) - 1
    <2>1. Len(q) - 1 \in Nat
      BY <1>1
    <2> HIDE DEF r
    <2> QED
      BY <1>2, <2>1
  <1>4. \A n \in 1..Len(q) - 1 : r[n] = IF n < j THEN q[n] ELSE q[n + 1]
    BY DEF Removed
  <1> HIDE DEF r
  <1>5. Line(r)
    <2> SUFFICES ASSUME NEW m \in 1..Len(q) - 1, NEW n \in 1..Len(q) - 1, r[m] = r[n]
                 PROVE  m = n
      BY <1>3 DEF Line
    <2>1. (IF m < j THEN m ELSE m + 1) = (IF n < j THEN n ELSE n + 1)
      BY <1>1, <1>4
    <2> QED
      BY <2>1
  <1>6. \A i \in 0..Len(q) : Nth(r, i) = IF i < j THEN Nth(q, i) ELSE Nth(q, i + 1)
    BY <1>1, <1>3, <1>4 DEF Nth
  <1>7. Range(r) \subseteq Range(q) \ {q[j]}
    <2>1. \A n \in 1..Len(q) - 1 : \E m \in 1..Len(q) : m # j /\ r[n] = q[m]
      BY <1>1, <1>4
    <2> QED
      BY <1>1, <1>2, <2>1 DEF Range
  <1>8. Range(q) \ {q[j]} \subseteq Range(r)
    <2>1. \A m \in 1..Len(q) : m # j => r[IF m < j THEN m ELSE m - 1] = q[m]
      BY <1>1, <1>4
    <2>2. DOMAIN r = 1..Len(q) - 1
          /\ \A m \in 1..Len(q) : m # j => (IF m < j THEN m ELSE m - 1) \in 1..Len(q) - 1
      BY <1>1, <1>2
    <2> QED
      BY <1>1, <2>1, <2>2 DEF Range
  <1> QED
    BY <1>3, <1>5, <1>6, <1>7, <1>8 DEF r

LEMMA SpliceIs ==
  ASSUME NEW L, NEW q, Linked(L, q), NEW j \in 1..Len(q) + 1,
         NEW x \in Links, x \notin Range(q)
  PROVE  Linked(Splice(L, x, Nth(q, j)), Placed(q, j, x))
  <1> DEFINE r == Placed(q, j, x)
             p == Nth(q, j)
             b == Nth(q, j - 1)
             R == Splice(L, x, p)
  <1>1. /\ L \in ListType /\ Line(q) /\ Len(q) \in Nat /\ p \in Pointers /\ b \in Pointers
        /\ x \in Pointers /\ L.prev[p] = b
    BY NthFacts, LinksFacts DEF Linked
  <1>2. /\ Line(r) /\ Len(r) = Len(q) + 1
        /\ \A i \in Int : Nth(r, i) = IF i < j THEN Nth(q, i)
                                      ELSE IF i = j THEN x ELSE Nth(q, i - 1)
    BY <1>1, PlacedIs
  <1>3. \A i \in Int : Nth(q, i) \in Pointers /\ Nth(q, i) # x
    BY <1>1, NthFacts, LinksFacts DEF Nth, Line, Range
  <1>4. /\ \A y \in Pointers : R.next[y] = IF y = b THEN x ELSE IF y = x THEN p ELSE L.next[y]
        /\ \A y \in Pointers : R.prev[y] = IF y = p THEN x ELSE IF y = x THEN b ELSE L.prev[y]
        /\ R \in ListType
    BY <1>1 DEF Splice, ListType
  <1>5. \A i \in 0..Len(q) + 1 : R.next[Nth(r, i)] = Nth(r, i + 1)
    <2> SUFFICES ASSUME NEW i \in 0..Len(q) + 1 PROVE R.next[Nth(r, i)] = Nth(r, i + 1)
      OBVIOUS
    <2> HIDE DEF r, R
    <2>1. CASE i < j - 1
      <3>1. Nth(r, i) = Nth(q, i) /\ Nth(r, i + 1) = Nth(q, i + 1) /\ i \in 0..Len(q) /\ j - 1 \in 0..Len(q)
        BY <1>1, <1>2, <2>1
      <3>2. Nth(q, i) # b
        BY <1>1, <2>1, <3>1, NthFacts
      <3>3. L.next[Nth(q, i)] = Nth(q, i + 1)
        BY <3>1 DEF Linked
      <3> QED
        BY <1>3, <1>4, <3>1, <3>2, <3>3
    <2>2. CASE i = j - 1
      <3>1. Nth(r, i) = b /\ Nth(r, i + 1) = x
        BY <1>1, <1>2, <2>2
      <3> QED
        BY <1>1, <1>4, <3>1
    <2>3. CASE i = j
      <3>1. Nth(r, i) = x /\ Nth(r, i + 1) = p
        BY <1>1, <1>2, <2>3
      <3> QED
        BY <1>1, <1>3, <1>4, <3>1
    <2>4. CASE i > j
      <3>1. Nth(r, i) = Nth(q, i - 1) /\ Nth(r, i + 1) = Nth(q, i) /\ i - 1 \in 0..Len(q) /\ j - 1 \in 0..Len(q)
        BY <1>1, <1>2, <2>4
      <3>2. Nth(q, i - 1) # b
        BY <1>1, <2>4, <3>1, NthFacts
      <3>3. L.next[Nth(q, i - 1)] = Nth(q, i)
        BY <3>1 DEF Linked
      <3> QED
        BY <1>3, <1>4, <3>1, <3>2, <3>3
    <2> QED
      BY <1>1, <2>1, <2>2, <2>3, <2>4
  <1>6. \A i \in 1..Len(q) + 2 : R.prev[Nth(r, i)] = Nth(r, i - 1)
    <2> SUFFICES ASSUME NEW i \in 1..Len(q) + 2 PROVE R.prev[Nth(r, i)] = Nth(r, i - 1)
      OBVIOUS
    <2> HIDE DEF r, R
    <2>1. CASE i < j
      <3>1. Nth(r, i) = Nth(q, i) /\ Nth(r, i - 1) = Nth(q, i - 1) /\ i \in 1..Len(q) + 1
        BY <1>1, <1>2, <2>1
      <3>2. Nth(q, i) # p
        BY <1>1, <2>1, <3>1, NthFacts
      <3>3. L.prev[Nth(q, i)] = Nth(q, i - 1)
        BY <3>1 DEF Linked
      <3> QED
        BY <1>3, <1>4, <3>1, <3>2, <3>3
    <2>2. CASE i = j
      <3>1. Nth(r, i) = x /\ Nth(r, i - 1) = b
        BY <1>1, <1>2, <2>2
      <3> QED
        BY <1>1, <1>3, <1>4, <3>1
    <2>3. CASE i = j + 1
      <3>1. Nth(r, i) = p /\ Nth(r, i - 1) = x
        BY <1>1, <1>2, <2>3
      <3> QED
        BY <1>1, <1>4, <3>1
    <2>4. CASE i > j + 1
      <3>1. Nth(r, i) = Nth(q, i - 1) /\ Nth(r, i - 1) = Nth(q, i - 2) /\ i - 1 \in 1..Len(q) + 1
        BY <1>1, <1>2, <2>4
      <3>2. Nth(q, i - 1) # p
        BY <1>1, <2>4, <3>1, NthFacts
      <3>3. L.prev[Nth(q, i - 1)] = Nth(q, i - 2)
        BY <3>1 DEF Linked
      <3> QED
        BY <1>3, <1>4, <3>1, <3>2, <3>3
    <2> QED
      BY <1>1, <2>1, <2>2, <2>3, <2>4
  <1>7. Len(r) + 1 = Len(q) + 2
    BY <1>1, <1>2
  <1> HIDE DEF r, R
  <1>8. Linked(R, r)
    BY <1>2, <1>4, <1>5, <1>6, <1>7 DEF Linked
  <1> QED
    BY <1>8 DEF R, r

LEMMA UnlinkIs ==
  ASSUME NEW L, NEW q, Linked(L, q), NEW j \in 1..Len(q)
  PROVE  /\ Linked(Unlink(L, q[j]), Removed(q, j))
         /\ Unlink(L, q[j]).next[q[j]] = Nth(Removed(q, j), j)
  <1> DEFINE r == Removed(q, j)
             p == Nth(q, j + 1)
             b == Nth(q, j - 1)
             R == Unlink(L, q[j])
  <1>1. /\ L \in ListType /\ Line(q) /\ Len(q) \in Nat /\ p \in Pointers /\ b \in Pointers
        /\ q[j] \in Pointers /\ q[j] = Nth(q, j) /\ q[j] # b
        /\ L.prev[q[j]] = b /\ L.next[q[j]] = p
    BY NthFacts, LinksFacts DEF Linked
  <1>2. /\ Line(r) /\ Len(r) = Len(q) - 1
        /\ \A i \in 0..Len(q) : Nth(r, i) = IF i < j THEN Nth(q, i) ELSE Nth(q, i + 1)
    BY <1>1, RemovedIs
  <1>3. \A i \in Int : Nth(q, i) \in Pointers
    BY <1>1, NthFacts
  <1>4. /\ \A y \in Pointers : R.next[y] = IF y = b THEN p ELSE L.next[y]
        /\ \A y \in Pointers : R.prev[y] = IF y = p THEN b ELSE L.prev[y]
        /\ R \in ListType
    BY <1>1 DEF Unlink, ListType
  <1>5. \A i \in 0..Len(q) - 1 : R.next[Nth(r, i)] = Nth(r, i + 1)
    <2> SUFFICES ASSUME NEW i \in 0..Len(q) - 1 PROVE R.next[Nth(r, i)] = Nth(r, i + 1)
      OBVIOUS
    <2> HIDE DEF r, R
    <2>1. CASE i < j - 1
      <3>1. Nth(r, i) = Nth(q, i) /\ Nth(r, i + 1) = Nth(q, i + 1) /\ i \in 0..Len(q) /\ j - 1 \in 0..Len(q)
        BY <1>1, <1>2, <2>1
      <3>2. Nth(q, i) # b
        BY <1>1, <2>1, <3>1, NthFacts
      <3>3. L.next[Nth(q, i)] = Nth(q, i + 1)
        BY <3>1 DEF Linked
      <3> QED
        BY <1>3, <1>4, <3>1, <3>2, <3>3
    <2>2. CASE i = j - 1
      <3>1. Nth(r, i) = b /\ Nth(r, i + 1) = p
        BY <1>1, <1>2, <2>2
      <3> QED
        BY <1>1, <1>4, <3>1
    <2>3. CASE i >= j
      <3>1. Nth(r, i) = Nth(q, i + 1) /\ Nth(r, i + 1) = Nth(q, i + 2) /\ i + 1 \in 0..Len(q) /\ j - 1 \in 0..Len(q)
        BY <1>1, <1>2, <2>3
      <3>2. Nth(q, i + 1) # b
        BY <1>1, <2>3, <3>1, NthFacts
      <3>3. L.next[Nth(q, i + 1)] = Nth(q, i + 2)
        BY <3>1 DEF Linked
      <3> QED
        BY <1>3, <1>4, <3>1, <3>2, <3>3
    <2> QED
      BY <1>1, <2>1, <2>2, <2>3
  <1>6. \A i \in 1..Len(q) : R.prev[Nth(r, i)] = Nth(r, i - 1)
    <2> SUFFICES ASSUME NEW i \in 1..Len(q) PROVE R.prev[Nth(r, i)] = Nth(r, i - 1)
      OBVIOUS
    <2> HIDE DEF r, R
    <2>1. CASE i < j
      <3>1. Nth(r, i) = Nth(q, i) /\ Nth(r, i - 1) = Nth(q, i - 1) /\ i \in 1..Len(q) + 1 /\ j + 1 \in 1..Len(q) + 1
        BY <1>1, <1>2, <2>1
      <3>2. Nth(q, i) # p
        BY <1>1, <2>1, <3>1, NthFacts
      <3>3. L.prev[Nth(q, i)] = Nth(q, i - 1)
        BY <3>1 DEF Linked
      <3> QED
        BY <1>3, <1>4, <3>1, <3>2, <3>3
    <2>2. CASE i = j
      <3>1. Nth(r, i) = p /\ Nth(r, i - 1) = b
        BY <1>1, <1>2, <2>2
      <3> QED
        BY <1>1, <1>4, <3>1
    <2>3. CASE i > j
      <3>1. /\ Nth(r, i) = Nth(q, i + 1) /\ Nth(r, i - 1) = Nth(q, i)
            /\ i + 1 \in 1..Len(q) + 1 /\ j + 1 \in 1..Len(q) + 1
        BY <1>1, <1>2, <2>3
      <3>2. Nth(q, i + 1) # p
        BY <1>1, <2>3, <3>1, NthFacts
      <3>3. L.prev[Nth(q, i + 1)] = Nth(q, i)
        BY <3>1 DEF Linked
      <3> QED
        BY <1>3, <1>4, <3>1, <3>2, <3>3
    <2> QED
      BY <1>1, <2>1, <2>2, <2>3
  <1>7. Len(r) + 1 = Len(q)
    BY <1>1, <1>2
  <1> HIDE DEF r, R
  <1>8. Linked(R, r)
    BY <1>2, <1>4, <1>5, <1>6, <1>7 DEF Linked
  <1>9. R.next[q[j]] = Nth(r, j)
    BY <1>1, <1>2, <1>4
  <1> QED
    BY <1>8, <1>9 DEF R, r

-----------------------------------------------------------------------------
(* A list that holds a set of links, in order when it has to be.           *)

Filed(q, contents) ==
  \A n \in 1..Len(q) - 1 : Rank(contents[q[n]]) <= Rank(contents[q[n + 1]])

Holds(L, S, contents, ordered) ==
  \E q : Linked(L, q) /\ Range(q) = S /\ (ordered => Filed(q, contents))

LEMMA RankFacts == \A e \in Entries : Rank(e) \in Nat
  BY ListAssumption DEF Rank

\* what a list shows of itself
LEMMA HoldsFacts ==
  ASSUME NEW L, NEW S, NEW c, NEW o, Holds(L, S, c, o)
  PROVE  /\ L \in ListType /\ S \subseteq Links
         /\ Range(Chain(L.next)) = S /\ Len(Chain(L.next)) = Cardinality(S)
         /\ Chain(L.prev) = Reverse(Chain(L.next))
         /\ Len(Chain(L.next)) \in Nat /\ Len(Chain(L.next)) <= MaxLinks
         /\ Line(Chain(L.next)) /\ (o => Filed(Chain(L.next), c))
  <1> PICK q : Linked(L, q) /\ Range(q) = S /\ (o => Filed(q, c))
    BY DEF Holds
  <1>1. L \in ListType /\ Line(q) /\ Len(q) \in Nat /\ Range(q) \subseteq Links
    BY NthFacts DEF Linked, Line, Range
  <1>2. Chain(L.next) = q
    BY ChainIs
  <1>3. Chain(L.prev) = Reverse(q)
    <2>1. Linked(Mirror(L), Reverse(q)) /\ Mirror(L).next = L.prev
      BY Mirrored DEF Mirror
    <2> QED
      BY <2>1, ChainIs
  <1>4. Len(q) = Cardinality(S) /\ Len(q) <= MaxLinks
    BY <1>1, LineIsShort
  <1> QED
    BY <1>1, <1>2, <1>3, <1>4

\* a link of the list, or none, is at a place of its line
LEMMA PlaceOf ==
  ASSUME NEW q, Line(q), NEW x \in Range(q) \cup {0}
  PROVE  \E i \in 1..Len(q) + 1 : x = Nth(q, i) /\ (x # 0 => i \in 1..Len(q) /\ x = q[i])
  <1>1. Len(q) \in Nat /\ DOMAIN q = 1..Len(q)
    BY NthFacts DEF Line
  <1>2. CASE x = 0
    <2>1. Len(q) + 1 \in 1..Len(q) + 1 /\ Nth(q, Len(q) + 1) = 0
      BY <1>1 DEF Nth
    <2> QED
      BY <1>2, <2>1
  <1>3. CASE x \in Range(q)
    <2> PICK i \in 1..Len(q) : x = q[i]
      BY <1>1, <1>3 DEF Range
    <2> QED
      BY <1>1 DEF Nth
  <1> QED
    BY <1>2, <1>3

LEMMA PlaceIn ==
  ASSUME NEW q, Line(q), NEW i \in Int
  PROVE  Nth(q, i) \in Range(q) \cup {0}
  BY NthFacts DEF Line, Nth, Range

LEMMA NextHolds ==
  ASSUME NEW L, NEW S, NEW c, NEW o, Holds(L, S, c, o), NEW x \in S \cup {0}
  PROVE  L.next[x] \in S \cup {0} /\ L.prev[x] \in S \cup {0}
  <1> PICK q : Linked(L, q) /\ Range(q) = S
    BY DEF Holds
  <1>1. Line(q) /\ Len(q) \in Nat
    BY NthFacts DEF Linked
  <1>2. CASE x = 0
    <2>1. Nth(q, 0) = 0 /\ Nth(q, Len(q) + 1) = 0 /\ 0 \in 0..Len(q) /\ Len(q) + 1 \in 1..Len(q) + 1
      BY <1>1 DEF Nth
    <2>2. L.next[0] = Nth(q, 0 + 1) /\ L.prev[0] = Nth(q, Len(q) + 1 - 1)
      BY <2>1 DEF Linked
    <2>3. 0 + 1 \in Int /\ Len(q) + 1 - 1 \in Int
      BY <1>1
    <2> QED
      BY <1>1, <1>2, <2>2, <2>3, PlaceIn
  <1>3. CASE x # 0
    <2> PICK i \in 1..Len(q) : x = Nth(q, i)
      BY <1>1, <1>3, PlaceOf
    <2>1. L.next[x] = Nth(q, i + 1) /\ L.prev[x] = Nth(q, i - 1) /\ i + 1 \in Int /\ i - 1 \in Int
      BY <1>1 DEF Linked
    <2> QED
      BY <1>1, <2>1, PlaceIn
  <1> QED
    BY <1>2, <1>3

LEMMA SeekHolds ==
  ASSUME NEW L, NEW S, NEW c, NEW o, Holds(L, S, c, o), NEW x \in S \cup {0},
         NEW M \in SUBSET Links
  PROVE  Seek(L.next, x, M) \in S \cup {0} /\ Seek(L.prev, x, M) \in S \cup {0}
  <1> SUFFICES ASSUME NEW K, NEW q, Linked(K, q), Range(q) = S
               PROVE  Seek(K.next, x, M) \in S \cup {0}
    <2> PICK q : Linked(L, q) /\ Range(q) = S
      BY DEF Holds
    <2>1. Linked(Mirror(L), Reverse(q)) /\ Range(Reverse(q)) = S /\ Mirror(L).next = L.prev
      BY Mirrored DEF Mirror
    <2> QED
      BY <2>1
  <1>1. Line(q)
    BY DEF Linked
  <1> PICK i \in 1..Len(q) + 1 : x = Nth(q, i)
    BY <1>1, PlaceOf
  <1>2. PICK j \in i..Len(q) + 1 : Seek(K.next, x, M) = Nth(q, j)
    BY SeekIs
  <1>3. j \in Int
    BY <1>1, NthFacts
  <1> QED
    BY <1>1, <1>2, <1>3, PlaceIn

\* a search from the beginning for links some of which are in the list
LEMMA SeekFinds ==
  ASSUME NEW L, NEW S, NEW c, NEW o, Holds(L, S, c, o), NEW M \in SUBSET S, M # {}
  PROVE  Seek(L.next, L.next[0], M) \in M
  <1> PICK q : Linked(L, q) /\ Range(q) = S
    BY DEF Holds
  <1>1. Line(q) /\ Len(q) \in Nat /\ DOMAIN q = 1..Len(q) /\ S \subseteq Links
    BY NthFacts, HoldsFacts DEF Linked, Line
  <1>2. L.next[0] = Nth(q, 1)
    <2>1. L.next[Nth(q, 0)] = Nth(q, 0 + 1) /\ Nth(q, 0) = 0
      BY <1>1 DEF Linked, Nth
    <2> QED
      BY <2>1
  <1>3. PICK j \in 1..Len(q) + 1 :
          /\ Seek(L.next, L.next[0], M) = Nth(q, j)
          /\ j <= Len(q) => q[j] \in M
          /\ \A k \in 1..j - 1 : q[k] \notin M
    <2>1. 1 \in 1..Len(q) + 1 /\ M \in SUBSET Links
      BY <1>1
    <2> QED
      BY <1>2, <2>1, SeekIs
  <1>4. PICK k \in 1..Len(q) : q[k] \in M
    BY <1>1 DEF Range
  <1> QED
    BY <1>1, <1>3, <1>4 DEF Nth

LEMMA ReachHolds ==
  ASSUME NEW L, NEW S, NEW c, NEW o, Holds(L, S, c, o)
  PROVE  Reach(L.next, L.next[0]) = S
  <1> PICK q : Linked(L, q) /\ Range(q) = S
    BY DEF Holds
  <1> DEFINE at == Follow(L.next, L.next[0])
  <1>1. /\ Line(q) /\ Len(q) \in Nat /\ DOMAIN q = 1..Len(q) /\ Len(q) <= MaxLinks
        /\ L.next \in [Pointers -> Pointers] /\ MaxLinks \in Nat /\ 0 \notin S
    BY NthFacts, LineIsShort, LinksFacts, HoldsFacts DEF Linked, Line, ListType
  <1>2. L.next[0] = Nth(q, 1)
    <2>1. L.next[Nth(q, 0)] = Nth(q, 0 + 1) /\ Nth(q, 0) = 0
      BY <1>1 DEF Linked, Nth
    <2> QED
      BY <2>1
  <1>3. DOMAIN at = 0..MaxLinks /\ \A n \in 0..MaxLinks : at[n] = Nth(q, 1 + n)
    <2>1. 1 \in 1..Len(q) + 1
      BY <1>1
    <2>2. \A n \in 0..MaxLinks : Follow(L.next, Nth(q, 1))[n] = Nth(q, 1 + n)
      BY <2>1, FollowNext
    <2>3. DOMAIN at = 0..MaxLinks
      BY <1>1, LinksFacts, FollowIs
    <2> QED
      BY <1>2, <2>2, <2>3
  <1>4. Range(at) = {at[n] : n \in 0..MaxLinks}
    BY <1>3 DEF Range
  <1> HIDE DEF at
  <1>5. Range(at) \subseteq S \cup {0}
    <2>1. \A n \in 0..MaxLinks : 1 + n \in Int
      BY <1>1
    <2> QED
      BY <1>1, <1>3, <1>4, <2>1, PlaceIn
  <1>6. S \subseteq Range(at)
    <2> SUFFICES ASSUME NEW k \in 1..Len(q) PROVE q[k] \in Range(at)
      BY <1>1 DEF Range
    <2>1. k - 1 \in 0..MaxLinks /\ at[k - 1] = q[k]
      BY <1>1, <1>3 DEF Nth
    <2> QED
      BY <1>4, <2>1
  <1> QED
    BY <1>1, <1>5, <1>6 DEF Reach, at

\* putting a link in, behind all that do not come after it by name
LEMMA InsertHolds ==
  ASSUME NEW L, NEW S, NEW c \in [Links -> Entries], NEW o, Holds(L, S, c, o),
         NEW x \in Links, x \notin S
  PROVE  Holds(Insert(L, x, c), S \cup {x}, c, o)
  <1> PICK q : Linked(L, q) /\ Range(q) = S /\ (o => Filed(q, c))
    BY DEF Holds
  <1> DEFINE M == {y \in Links : Rank(c[y]) > Rank(c[x])}
  <1>1. Line(q) /\ Len(q) \in Nat /\ \A n \in 1..Len(q) : q[n] \in Links
    BY NthFacts DEF Linked
  <1>2. L.next[0] = Nth(q, 1)
    <2>1. L.next[Nth(q, 0)] = Nth(q, 0 + 1) /\ Nth(q, 0) = 0
      BY <1>1 DEF Linked, Nth
    <2> QED
      BY <2>1
  <1>3. PICK j \in 1..Len(q) + 1 :
          /\ Seek(L.next, L.next[0], M) = Nth(q, j)
          /\ j <= Len(q) => q[j] \in M
          /\ \A k \in 1..j - 1 : q[k] \notin M
    <2>1. 1 \in 1..Len(q) + 1 /\ M \in SUBSET Links
      BY <1>1
    <2> HIDE DEF M
    <2>2. \E j \in 1..Len(q) + 1 :
            /\ Seek(L.next, Nth(q, 1), M) = Nth(q, j)
            /\ j <= Len(q) => q[j] \in M
            /\ \A k \in 1..j - 1 : q[k] \notin M
      BY <2>1, SeekIs
    <2> QED
      BY <1>2, <2>2
  <1> DEFINE r == Placed(q, j, x)
  <1>4. Insert(L, x, c) = Splice(L, x, Nth(q, j))
    BY <1>3 DEF Insert
  <1>5. Linked(Insert(L, x, c), r)
    <2> HIDE DEF M
    <2> QED
      BY <1>4, SpliceIs
  <1>6. Range(r) = S \cup {x} /\ Len(r) = Len(q) + 1
    BY <1>1, PlacedIs
  <1>7. ASSUME o PROVE Filed(r, c)
    <2> SUFFICES ASSUME NEW n \in 1..Len(q)
                 PROVE  Rank(c[r[n]]) <= Rank(c[r[n + 1]])
      BY <1>1, <1>6 DEF Filed
    <2>1. /\ r[n] = IF n < j THEN q[n] ELSE IF n = j THEN x ELSE q[n - 1]
          /\ r[n + 1] = IF n + 1 < j THEN q[n + 1] ELSE IF n + 1 = j THEN x ELSE q[n]
      BY <1>1 DEF Placed
    <2>2. \A y \in Links : Rank(c[y]) \in Nat
      BY RankFacts
    <2>3. \A k \in 1..Len(q) - 1 : Rank(c[q[k]]) <= Rank(c[q[k + 1]])
      BY <1>7 DEF Filed
    <2> HIDE DEF r
    <2>4. CASE n + 1 < j
      <3>1. n \in 1..Len(q) - 1 /\ r[n] = q[n] /\ r[n + 1] = q[n + 1]
        BY <1>1, <2>1, <2>4
      <3> QED
        BY <2>3, <3>1
    <2>5. CASE n + 1 = j
      <3>1. q[n] \notin M /\ q[n] \in Links /\ r[n] = q[n] /\ r[n + 1] = x
        BY <1>1, <1>3, <2>1, <2>5
      <3> QED
        BY <2>2, <3>1
    <2>6. CASE n = j
      <3>1. q[j] \in M /\ q[j] \in Links /\ r[n] = x /\ r[n + 1] = q[j]
        BY <1>1, <1>3, <2>1, <2>6
      <3> QED
        BY <2>2, <3>1
    <2>7. CASE n > j
      <3>1. n - 1 \in 1..Len(q) - 1 /\ r[n] = q[n - 1] /\ r[n + 1] = q[(n - 1) + 1]
        BY <1>1, <2>1, <2>7
      <3> QED
        BY <2>3, <3>1
    <2> QED
      BY <1>1, <2>4, <2>5, <2>6, <2>7
  <1> HIDE DEF r
  <1> QED
    BY <1>5, <1>6, <1>7 DEF Holds

LEMMA UnlinkHolds ==
  ASSUME NEW L, NEW S, NEW c \in [Links -> Entries], NEW o, Holds(L, S, c, o),
         NEW x \in S
  PROVE  /\ Holds(Unlink(L, x), S \ {x}, c, o)
         /\ Unlink(L, x).next[x] \in (S \ {x}) \cup {0}
  <1> PICK q : Linked(L, q) /\ Range(q) = S /\ (o => Filed(q, c))
    BY DEF Holds
  <1>1. /\ Line(q) /\ Len(q) \in Nat /\ \A n \in 1..Len(q) : q[n] \in Links
        /\ DOMAIN q = 1..Len(q)
    BY NthFacts DEF Linked, Line
  <1> PICK j \in 1..Len(q) : x = q[j]
    BY <1>1 DEF Range
  <1> DEFINE r == Removed(q, j)
  <1>2. Linked(Unlink(L, x), r) /\ Unlink(L, x).next[x] = Nth(r, j)
    BY UnlinkIs
  <1>3. Range(r) = S \ {x} /\ Len(r) = Len(q) - 1 /\ Line(r)
    BY <1>1, RemovedIs
  <1>4. ASSUME o PROVE Filed(r, c)
    <2> SUFFICES ASSUME NEW n \in 1..Len(q) - 2
                 PROVE  Rank(c[r[n]]) <= Rank(c[r[n + 1]])
      BY <1>1, <1>3 DEF Filed
    <2>1. /\ r[n] = IF n < j THEN q[n] ELSE q[n + 1]
          /\ r[n + 1] = IF n + 1 < j THEN q[n + 1] ELSE q[n + 2]
      BY <1>1 DEF Removed
    <2>2. \A y \in Links : Rank(c[y]) \in Nat
      BY RankFacts
    <2>3. \A k \in 1..Len(q) - 1 : Rank(c[q[k]]) <= Rank(c[q[k + 1]])
      BY <1>4 DEF Filed
    <2>4. /\ n \in 1..Len(q) - 1 /\ n + 1 \in 1..Len(q) - 1 /\ (n + 1) + 1 = n + 2
          /\ q[n] \in Links /\ q[n + 1] \in Links /\ q[n + 2] \in Links
      BY <1>1
    <2>5. Rank(c[q[n]]) <= Rank(c[q[n + 1]]) /\ Rank(c[q[n + 1]]) <= Rank(c[q[n + 2]])
      BY <2>3, <2>4
    <2>6. Rank(c[q[n]]) <= Rank(c[q[n + 2]])
      BY <2>2, <2>4, <2>5
    <2> HIDE DEF r
    <2> QED
      BY <2>1, <2>5, <2>6
  <1>5. Nth(r, j) \in Range(r) \cup {0}
    BY <1>3, PlaceIn
  <1> HIDE DEF r
  <1> QED
    BY <1>2, <1>3, <1>4, <1>5 DEF Holds

\* what the links hold only matters for the links of the list, and for an order
LEMMA HoldsAlso ==
  ASSUME NEW L, NEW S, NEW c, NEW o, Holds(L, S, c, o), NEW d, NEW p,
         p => o, p => \A x \in S : Rank(d[x]) = Rank(c[x])
  PROVE  Holds(L, S, d, p)
  <1> PICK q : Linked(L, q) /\ Range(q) = S /\ (o => Filed(q, c))
    BY DEF Holds
  <1>1. Len(q) \in Nat /\ DOMAIN q = 1..Len(q)
    BY NthFacts DEF Linked, Line
  <1>2. \A n \in 1..Len(q) : q[n] \in S
    BY <1>1 DEF Range
  <1>3. ASSUME p PROVE Filed(q, d)
    <2>1. \A n \in 1..Len(q) - 1 : n \in 1..Len(q) /\ n + 1 \in 1..Len(q)
      BY <1>1
    <2> QED
      BY <1>2, <1>3, <2>1 DEF Filed
  <1> QED
    BY <1>3 DEF Holds

LEMMA EmptyHolds ==
  ASSUME NEW c, NEW o
  PROVE  Holds(Empty, {}, c, o)
  <1> DEFINE q == <<>>
  <1>1. q \in Seq(Links) /\ Len(q) = 0 /\ DOMAIN q = {}
    OBVIOUS
  <1>2. Linked(Empty, q)
    <2>1. \A i \in 0..1 : Nth(q, i) = 0
      BY <1>1 DEF Nth
    <2> QED
      BY <1>1, <2>1, LinksFacts DEF Linked, Line, ListType, Empty, Nth
  <1>3. Filed(q, c) /\ Range(q) = {}
    BY <1>1 DEF Filed, Range
  <1> HIDE DEF q
  <1> QED
    BY <1>2, <1>3 DEF Holds

-----------------------------------------------------------------------------
(* The list that is made from the file.                                    *)

LEMMA SpliceType ==
  ASSUME NEW L \in ListType, NEW x \in Links, NEW p \in Pointers
  PROVE  Splice(L, x, p) \in ListType
  BY LinksFacts DEF ListType, Splice

LEMMA InsertType ==
  ASSUME NEW L \in ListType, NEW x \in Links, NEW c
  PROVE  Insert(L, x, c) \in ListType
  <1> DEFINE M == {y \in Links : Rank(c[y]) > Rank(c[x])}
             at == Follow(L.next, L.next[0])
             met == {n \in DOMAIN at : at[n] \in M}
  <1>1. at \in [0..MaxLinks -> Pointers]
    BY LinksFacts, FollowIs DEF ListType
  <1>2. met # {} => Min(met) \in met
    <2>1. met \in SUBSET Nat
      BY <1>1, LinksFacts
    <2> HIDE DEF met
    <2> QED
      BY <2>1, MinIsLeast
  <1>3. Seek(L.next, L.next[0], M) \in Pointers
    <2>1. Seek(L.next, L.next[0], M) = IF met = {} THEN 0 ELSE at[Min(met)]
      BY DEF Seek
    <2> HIDE DEF at
    <2> QED
      BY <1>1, <1>2, <2>1, LinksFacts
  <1>4. Insert(L, x, c) = Splice(L, x, Seek(L.next, L.next[0], M))
    BY DEF Insert
  <1> HIDE DEF M
  <1> QED
    BY <1>3, <1>4, SpliceType

LEMMA AppendedIs ==
  ASSUME NEW n \in Pointers
  PROVE  Linked(Appended(n), [k \in 1..n |-> k])
  <1> DEFINE g == [p \in (1..n) \X ListType |-> Splice(p[2], p[1], 0)]
             P(f) == f = [k \in 0..n |-> IF k = 0 THEN Empty ELSE Splice(f[k - 1], k, 0)]
             upto == CHOOSE f : P(f)
             Id(k) == [i \in 1..k |-> i]
  <1>1. n \in Nat /\ 1..n \subseteq Links /\ Empty \in ListType
    BY LinksFacts DEF Pointers, Links, Empty, ListType
  <1>2. \A k \in 1..n, L \in ListType : g[<<k, L>>] = Splice(L, k, 0) /\ g[<<k, L>>] \in ListType
    BY <1>1, LinksFacts, SpliceType
  <1>3. PICK f \in [0..n -> ListType] :
          f[0] = Empty /\ \A k \in 1..n : f[k] = g[<<k, f[k - 1]>>]
    <2>1. g \in Steps(n, ListType)
      BY <1>2 DEF Steps
    <2> HIDE DEF g
    <2> QED
      BY <1>1, <2>1, Iteration
  <1>4. \A k \in 1..n : f[k - 1] \in ListType
    BY <1>1, <1>3
  <1>5. \A k \in 1..n : f[k] = Splice(f[k - 1], k, 0)
    <2> HIDE DEF g
    <2> QED
      BY <1>2, <1>3, <1>4
  <1>6. P(f)
    BY <1>3, <1>5, <1>1
  <1>7. P(upto)
    <2> HIDE DEF P
    <2> QED
      BY <1>6
  <1>8. Appended(n) = upto[n]
    BY DEF Appended
  <1>9. upto[0] = Empty /\ \A k \in 1..n : upto[k] = Splice(upto[k - 1], k, 0)
    <2> HIDE DEF upto
    <2> QED
      BY <1>1, <1>7
  <1> HIDE DEF upto
  <1> DEFINE T == {k \in 0..n : Linked(upto[k], Id(k))}
  <1>10. 0 \in T
    <2>1. /\ Id(0) \in Seq(Links) /\ Len(Id(0)) = 0
          /\ \A i \in 0..1 : Nth(Id(0), i) = 0
      BY DEF Nth
    <2>2. Linked(Empty, Id(0))
      <3> HIDE DEF Id
      <3> QED
        BY <2>1, LinksFacts DEF Linked, Line, ListType, Empty, Nth
    <2> QED
      BY <1>1, <1>9, <2>2
  <1>11. \A k \in 0..n - 1 : k \in T => k + 1 \in T
    <2> SUFFICES ASSUME NEW k \in 0..n - 1, Linked(upto[k], Id(k))
                 PROVE  Linked(upto[k + 1], Id(k + 1))
      BY <1>1
    <2>1. /\ k \in Nat /\ k + 1 \in Links /\ Len(Id(k)) = k /\ k + 1 \notin Range(Id(k))
          /\ k + 1 \in 1..Len(Id(k)) + 1 /\ k + 1 \in 1..n /\ (k + 1) - 1 = k
      BY <1>1 DEF Range
    <2>2. Nth(Id(k), k + 1) = 0
      BY <2>1 DEF Nth
    <2>3. Linked(Splice(upto[k], k + 1, Nth(Id(k), k + 1)), Placed(Id(k), k + 1, k + 1))
      <3> HIDE DEF Id
      <3> QED
        BY <2>1, SpliceIs
    <2>4. upto[k + 1] = Splice(upto[k], k + 1, 0)
      BY <1>9, <2>1
    <2>5. Placed(Id(k), k + 1, k + 1) = Id(k + 1)
      BY <2>1 DEF Placed
    <2> HIDE DEF Id
    <2> QED
      BY <2>2, <2>3, <2>4, <2>5
  <1>12. n \in T
    <2> HIDE DEF T
    <2>1. 0..n \subseteq T
      BY <1>1, <1>10, <1>11, BoundedInduction
    <2> QED
      BY <1>1, <2>1
  <1> QED
    BY <1>8, <1>12

LEMMA ReorderHolds ==
  ASSUME NEW L, NEW S, NEW c \in [Links -> Entries], NEW o, Holds(L, S, c, o)
  PROVE  Holds(Reorder(L, c), S, c, TRUE)
  <1> DEFINE q == Chain(L.next)
             n == Len(q)
             g == [p \in (1..n) \X ListType |-> Insert(p[2], q[p[1]], c)]
             P(f) == f = [k \in 0..n |-> IF k = 0 THEN Empty ELSE Insert(f[k - 1], q[k], c)]
             upto == CHOOSE f : P(f)
             First(k) == {q[i] : i \in 1..k}
  <1>1. /\ n \in Nat /\ Line(q) /\ DOMAIN q = 1..n /\ Range(q) = S /\ Empty \in ListType
        /\ \A k \in 1..n : q[k] \in Links
    BY HoldsFacts, LinksFacts, NthFacts DEF Line, Empty, ListType
  <1>2. Reorder(L, c) = upto[n]
    BY DEF Reorder
  <1> HIDE DEF q, n
  <1>3. \A k \in 1..n, K \in ListType : g[<<k, K>>] = Insert(K, q[k], c) /\ g[<<k, K>>] \in ListType
    BY <1>1, InsertType
  <1>4. PICK f \in [0..n -> ListType] :
          f[0] = Empty /\ \A k \in 1..n : f[k] = g[<<k, f[k - 1]>>]
    <2>1. g \in Steps(n, ListType)
      BY <1>3 DEF Steps
    <2> HIDE DEF g
    <2> QED
      BY <1>1, <2>1, Iteration
  <1>5. \A k \in 1..n : f[k - 1] \in ListType
    BY <1>1, <1>4
  <1>6. \A k \in 1..n : f[k] = Insert(f[k - 1], q[k], c)
    <2> HIDE DEF g
    <2> QED
      BY <1>3, <1>4, <1>5
  <1>7. P(f)
    BY <1>4, <1>6, <1>1
  <1>8. P(upto)
    <2> HIDE DEF P
    <2> QED
      BY <1>7
  <1>9. upto[0] = Empty /\ \A k \in 1..n : upto[k] = Insert(upto[k - 1], q[k], c)
    <2> HIDE DEF upto
    <2> QED
      BY <1>1, <1>8
  <1> HIDE DEF upto
  <1> DEFINE Done(k) == Holds(upto[k], First(k), c, TRUE)
             T == {k \in 0..n : Done(k)}
  <1>10. 0 \in T
    <2>1. First(0) = {} /\ 0 \in 0..n
      BY <1>1
    <2>2. Holds(Empty, {}, c, TRUE)
      BY EmptyHolds
    <2> HIDE DEF First
    <2> QED
      BY <1>9, <2>1, <2>2
  <1>11. \A k \in 0..n - 1 : k \in T => k + 1 \in T
    <2> SUFFICES ASSUME NEW k \in 0..n - 1, Done(k)
                 PROVE  Done(k + 1)
      <3> HIDE DEF Done
      <3> QED
        BY <1>1
    <2>1. /\ k + 1 \in 1..n /\ (k + 1) - 1 = k /\ q[k + 1] \in Links
          /\ 1..k + 1 = (1..k) \cup {k + 1}
      BY <1>1
    <2>2. First(k + 1) = First(k) \cup {q[k + 1]}
      BY <2>1
    <2>3. q[k + 1] \notin First(k)
      BY <1>1, <2>1 DEF Line, n
    <2> HIDE DEF First
    <2>4. Holds(Insert(upto[k], q[k + 1], c), First(k) \cup {q[k + 1]}, c, TRUE)
      BY <2>1, <2>3, InsertHolds
    <2> QED
      BY <1>9, <2>1, <2>2, <2>4
  <1>12. n \in T
    <2> HIDE DEF T
    <2>1. 0..n \subseteq T
      BY <1>1, <1>10, <1>11, BoundedInduction
    <2> QED
      BY <1>1, <2>1
  <1>13. First(n) = S
    BY <1>1 DEF Range
  <1> QED
    BY <1>2, <1>12, <1>13

-----------------------------------------------------------------------------
(* The frames.                                                             *)

\* The frames s, in phase p, when the links of S are live: what an outer frame shows
\* is live, and so is what the user is asked about.
Framed(s, S, p) ==
  /\ s \in Seq(Frame) /\ Len(s) <= Depth
  /\ p \in {"start", "off", "menu", "ask", "pick", "back"}
  /\ s = <<>> <=> p \in {"start", "off", "menu"}
  /\ \A n \in 1..Len(s) - 1 : s[n].at \in S
  /\ p = "ask" => Last(s).at \in S

LEMMA LastFacts ==
  ASSUME NEW s \in Seq(Frame), s # <<>>
  PROVE  /\ Len(s) \in Nat /\ Len(s) >= 1 /\ Len(s) \in 1..Len(s)
         /\ Last(s) = s[Len(s)] /\ Last(s) \in Frame
  <1>1. Len(s) \in Nat /\ Len(s) >= 1
    OBVIOUS
  <1> QED
    BY <1>1 DEF Last

LEMMA SetTopFramed ==
  ASSUME NEW s \in Seq(Frame), s # <<>>, Len(s) <= Depth, NEW S,
         \A n \in 1..Len(s) - 1 : s[n].at \in S,
         NEW f \in Frame, NEW p \in {"ask", "pick", "back"}, p = "ask" => f.at \in S
  PROVE  Framed([s EXCEPT ![Len(s)] = f], S, p)
  <1> DEFINE t == [s EXCEPT ![Len(s)] = f]
  <1>1. Len(s) \in Nat /\ Len(s) >= 1 /\ Len(s) \in 1..Len(s)
    BY LastFacts
  <1>2. /\ t \in Seq(Frame) /\ Len(t) = Len(s) /\ t[Len(s)] = f
        /\ \A n \in 1..Len(s) - 1 : t[n] = s[n]
    BY <1>1
  <1>3. Last(t) = f
    BY <1>2 DEF Last
  <1> HIDE DEF t
  <1>4. t # <<>> /\ p \notin {"start", "off", "menu"}
    BY <1>1, <1>2
  <1>5. p = "ask" => Last(t).at \in S
    BY <1>3
  <1>6. Len(t) <= Depth /\ \A n \in 1..Len(t) - 1 : t[n].at \in S
    BY <1>2
  <1>7. Framed(t, S, p)
    BY <1>2, <1>4, <1>5, <1>6 DEF Framed
  <1> QED
    BY <1>7 DEF t

LEMMA PushFramed ==
  ASSUME NEW s \in Seq(Frame), Len(s) < Depth, NEW S,
         \A n \in 1..Len(s) : s[n].at \in S,
         NEW f \in Frame, NEW p \in {"ask", "pick", "back"}, p = "ask" => f.at \in S
  PROVE  Framed(Append(s, f), S, p)
  <1> DEFINE t == Append(s, f)
  <1>1. Len(s) \in Nat /\ Depth \in Nat
    BY ListAssumption
  <1>2. /\ t \in Seq(Frame) /\ Len(t) = Len(s) + 1 /\ t[Len(s) + 1] = f
        /\ \A n \in 1..Len(s) : t[n] = s[n]
    BY <1>1
  <1>3. Last(t) = f
    BY <1>2 DEF Last
  <1> HIDE DEF t
  <1>4. t # <<>> /\ p \notin {"start", "off", "menu"}
    BY <1>1, <1>2
  <1>5. p = "ask" => Last(t).at \in S
    BY <1>3
  <1>6. Len(t) <= Depth /\ \A n \in 1..Len(t) - 1 : t[n].at \in S
    BY <1>1, <1>2
  <1>7. Framed(t, S, p)
    BY <1>2, <1>4, <1>5, <1>6 DEF Framed
  <1> QED
    BY <1>7 DEF t

\* the frames without the innermost
LEMMA FrontFacts ==
  ASSUME NEW s \in Seq(Frame), s # <<>>
  PROVE  /\ Front(s) \in Seq(Frame) /\ Len(Front(s)) = Len(s) - 1
         /\ \A n \in 1..Len(s) - 1 : Front(s)[n] = s[n]
  <1> DEFINE t == [n \in 1..Len(s) - 1 |-> s[n]]
  <1>1. Len(s) \in Nat /\ Len(s) >= 1 /\ Len(s) - 1 \in Nat
    BY LastFacts
  <1>2. t \in [1..Len(s) - 1 -> Frame]
    BY <1>1
  <1>3. Front(s) = t
    BY <1>1 DEF Front
  <1>4. t \in Seq(Frame) /\ Len(t) = Len(s) - 1
    <2> HIDE DEF t
    <2> QED
      BY <1>1, <1>2
  <1> QED
    BY <1>3, <1>4

-----------------------------------------------------------------------------
(* The invariant.                                                          *)

Typed ==
  /\ entry \in [Links -> Entries] /\ matched \subseteq Links
  /\ changed \in BOOLEAN /\ misfiled \in BOOLEAN
  /\ disk \in Seq(Entries) /\ Len(disk) <= MaxLinks
  /\ made \in Pointers /\ edits \in 0..MaxEdits

ListInv ==
  /\ Typed
  /\ Framed(stack, live, phase)
  /\ live \subseteq 1..made
  /\ Holds(list, live, entry, ~misfiled)

LEMMA ReachType ==
  ASSUME NEW step \in [Pointers -> Pointers], NEW x \in Pointers
  PROVE  Reach(step, x) \subseteq Links
  <1>1. Follow(step, x) \in [0..MaxLinks -> Pointers]
    BY FollowIs
  <1> HIDE DEF Follow
  <1> QED
    BY <1>1, LinksFacts DEF Reach, Range

\* Showing the next entry keeps the frames right, when it starts from a link of
\* the list.
LEMMA ShowFramed ==
  ASSUME NEW s \in Seq(Frame), s # <<>>, Len(s) <= Depth, NEW S, S \subseteq Links,
         \A n \in 1..Len(s) - 1 : s[n].at \in S,
         NEW y \in S \cup {0}
  PROVE  Framed([s EXCEPT ![Len(s)] = [Last(s) EXCEPT !.at = y]], S,
                IF y = 0 THEN "back" ELSE "ask")
  <1> DEFINE f == [Last(s) EXCEPT !.at = y]
             p == IF y = 0 THEN "back" ELSE "ask"
  <1>1. Last(s) \in Frame /\ y \in Pointers
    BY LastFacts, LinksFacts
  <1>2. f \in Frame /\ f.at = y
    BY <1>1 DEF Frame
  <1>3. p \in {"ask", "pick", "back"} /\ (p = "ask" => f.at \in S)
    BY <1>2, LinksFacts
  <1> HIDE DEF f, p
  <1>4. Framed([s EXCEPT ![Len(s)] = f], S, p)
    BY <1>2, <1>3, SetTopFramed
  <1> QED
    BY <1>4 DEF f, p

LEMMA GoesOnFramed ==
  ASSUME stack \in Seq(Frame), stack # <<>>, Len(stack) <= Depth, NEW S,
         \A n \in 1..Len(stack) - 1 : stack[n].at \in S,
         NEW K, NEW c, NEW o, Holds(K, S, c, o), K.next[Top.at] \in S \cup {0},
         NEW M \in SUBSET Links, GoesOn(K.next, M)
  PROVE  Framed(stack', S, phase')
  <1>1. S \subseteq Links
    BY HoldsFacts
  <1>2. CASE ShowFrom(K.next[Top.at], K.next, M)
    <2> DEFINE y == Seek(K.next, K.next[Top.at], M)
    <2>1. y \in S \cup {0}
      BY SeekHolds
    <2>2. /\ stack' = [stack EXCEPT ![Len(stack)] = [Last(stack) EXCEPT !.at = y]]
          /\ phase' = IF y = 0 THEN "back" ELSE "ask"
      BY <1>2 DEF ShowFrom, SetTop, Top
    <2> HIDE DEF y
    <2> QED
      BY <1>1, <2>1, <2>2, ShowFramed
  <1>3. CASE Back
    BY <1>3 DEF Back, Framed
  <1> QED
    BY <1>2, <1>3 DEF GoesOn

LEMMA StartScanFramed ==
  ASSUME NEW kind \in {"peruse", "scan"}, stack \in Seq(Frame), Len(stack) < Depth,
         \A n \in 1..Len(stack) : stack[n].at \in live,
         NEW c, NEW o, Holds(list, live, c, o), NEW x \in live \cup {0},
         NEW M \in SUBSET Links, StartScan(kind, x, M)
  PROVE  Framed(stack', live, phase')
  <1> DEFINE y == Seek(list.next, x, M)
             f == [kind |-> kind, at |-> y, first |-> x]
             p == IF y = 0 THEN "back" ELSE "ask"
  <1>1. y \in live \cup {0} /\ live \subseteq Links
    BY SeekHolds, HoldsFacts
  <1>2. stack' = Append(stack, f) /\ phase' = p
    BY DEF StartScan, Push
  <1> HIDE DEF y
  <1>3. f \in Frame /\ f.at = y
    BY <1>1, LinksFacts DEF Frame
  <1>4. p \in {"ask", "pick", "back"} /\ (p = "ask" => f.at \in live)
    BY <1>1, <1>3
  <1> HIDE DEF f, p
  <1> QED
    BY <1>2, <1>3, <1>4, PushFramed

LEMMA SavedType ==
  ASSUME NEW L, NEW S, NEW c \in [Links -> Entries], NEW o, Holds(L, S, c, o)
  PROVE  Contents(L, c) \in Seq(Entries) /\ Len(Contents(L, c)) <= MaxLinks
  <1> DEFINE q == Chain(L.next)
             es == [n \in DOMAIN q |-> c[q[n]]]
  <1>1. /\ Len(q) \in Nat /\ Len(q) <= MaxLinks /\ DOMAIN q = 1..Len(q)
        /\ \A n \in 1..Len(q) : q[n] \in Links
    BY HoldsFacts, NthFacts DEF Line
  <1>2. Contents(L, c) = es
    BY DEF Contents
  <1> HIDE DEF q
  <1>3. es \in [1..Len(q) -> Entries]
    BY <1>1
  <1>4. es \in Seq(Entries) /\ Len(es) = Len(q)
    <2> HIDE DEF es
    <2> QED
      BY <1>1, <1>3
  <1> QED
    BY <1>1, <1>2, <1>4

LEMMA SomeEntry == Min(Entries) \in Entries
  BY MinIsLeast, ListAssumption

LEMMA InvGives ==
  ASSUME ListInv
  PROVE  /\ TypeOK /\ live \subseteq Links /\ made \in Nat
         /\ list.next[0] \in live \cup {0} /\ list \in ListType
         /\ Reach(list.next, list.next[0]) = live
  <1>1. live \subseteq Links /\ list \in ListType
    BY HoldsFacts DEF ListInv
  <1>2. list.next[0] \in live \cup {0}
    BY NextHolds DEF ListInv
  <1>3. Reach(list.next, list.next[0]) = live
    BY ReachHolds DEF ListInv
  <1>4. TypeOK
    BY <1>1 DEF ListInv, Typed, TypeOK, Framed, ListType
  <1> QED
    BY <1>1, <1>2, <1>3, <1>4, LinksFacts DEF ListInv, Typed, Pointers

\* what holds while frames are open
LEMMA OpenGives ==
  ASSUME ListInv, phase \in {"ask", "pick", "back"}
  PROVE  /\ stack \in Seq(Frame) /\ stack # <<>> /\ Len(stack) <= Depth
         /\ \A n \in 1..Len(stack) - 1 : stack[n].at \in live
         /\ Top \in Frame /\ Len(stack) \in Nat
         /\ phase = "ask" => /\ Top.at \in live
                             /\ list.next[Top.at] \in live \cup {0}
                             /\ list.prev[Top.at] \in live \cup {0}
                             /\ \A n \in 1..Len(stack) : stack[n].at \in live
  <1>1. /\ stack \in Seq(Frame) /\ stack # <<>> /\ Len(stack) <= Depth
        /\ \A n \in 1..Len(stack) - 1 : stack[n].at \in live
        /\ phase = "ask" => Top.at \in live
    BY DEF ListInv, Framed, Top
  <1>2. Top = stack[Len(stack)] /\ Top \in Frame /\ Len(stack) \in Nat
    BY <1>1, LastFacts DEF Top
  <1>3. ASSUME phase = "ask"
        PROVE  list.next[Top.at] \in live \cup {0} /\ list.prev[Top.at] \in live \cup {0}
    BY <1>1, <1>3, NextHolds DEF ListInv
  <1>4. ASSUME phase = "ask" PROVE \A n \in 1..Len(stack) : stack[n].at \in live
    BY <1>1, <1>2, <1>4
  <1> QED
    BY <1>1, <1>2, <1>3, <1>4

LEMMA MenuGives ==
  ASSUME ListInv, phase \in {"start", "off", "menu"}
  PROVE  stack = <<>> /\ Len(stack) < Depth /\ stack \in Seq(Frame)
         /\ \A n \in 1..Len(stack) : stack[n].at \in live
  BY ListAssumption DEF ListInv, Framed

\* a step that only moves between frames
LEMMA ShownInv ==
  ASSUME ListInv, UNCHANGED <<list, entry, changed, disk, made, edits, live, misfiled>>,
         matched' \subseteq Links, Framed(stack', live, phase')
  PROVE  ListInv'
  BY DEF ListInv, Typed

LEMMA NoEdits == 0 \in 0..MaxEdits
  BY ListAssumption

LEMMA MenuFramed ==
  ASSUME NEW S, NEW p \in {"start", "off", "menu"}
  PROVE  Framed(<<>>, S, p)
  BY ListAssumption DEF Framed

-----------------------------------------------------------------------------
(* The steps keep the invariant.                                           *)

LEMMA InitInv == Init => ListInv
  <1> SUFFICES ASSUME Init PROVE ListInv
    OBVIOUS
  <1>1. entry \in [Links -> Entries]
    BY SomeEntry DEF Init
  <1>2. disk \in Seq(Entries) /\ Len(disk) <= MaxLinks
    BY ListAssumption DEF Init
  <1>3. Typed
    BY <1>1, <1>2, NoEdits, LinksFacts DEF Init, Typed
  <1>4. Framed(stack, live, phase)
    BY MenuFramed DEF Init
  <1>5. Holds(list, live, entry, ~misfiled)
    BY EmptyHolds DEF Init
  <1> QED
    BY <1>3, <1>4, <1>5 DEF ListInv, Init

LEMMA EndsInv ==
  ASSUME Ends, disk' \in Seq(Entries), Len(disk') <= MaxLinks
  PROVE  ListInv'
  <1>1. entry' \in [Links -> Entries]
    BY SomeEntry DEF Ends
  <1>2. Typed'
    BY <1>1, NoEdits, LinksFacts DEF Ends, Typed
  <1>3. Framed(stack', live', phase')
    BY MenuFramed DEF Ends
  <1>4. Holds(list', live', entry', ~misfiled')
    BY EmptyHolds DEF Ends
  <1> QED
    BY <1>2, <1>3, <1>4 DEF ListInv, Ends

LEMMA ReadInv ==
  ASSUME ListInv, Read
  PROVE  ListInv'
  <1> DEFINE n == Len(disk)
             read == Appended(n)
             held == [x \in Links |-> IF x <= n THEN disk[x] ELSE entry[x]]
             Id == [k \in 1..n |-> k]
  <1>1. /\ n \in Nat /\ n \in Pointers /\ disk \in Seq(Entries) /\ \A k \in 1..n : disk[k] \in Entries
        /\ entry \in [Links -> Entries]
    BY DEF ListInv, Typed, Pointers
  <1>2. held \in [Links -> Entries] /\ \A k \in 1..n : k \in Links /\ held[k] = disk[k]
    BY <1>1, LinksFacts DEF Links, Pointers
  <1>3. entry' = held /\ list' = IF InOrder(disk) THEN read ELSE Reorder(read, held)
    BY DEF Read
  <1>4. Holds(read, 1..n, held, InOrder(disk))
    <2>1. Linked(read, Id)
      BY <1>1, AppendedIs
    <2>2. Range(Id) = 1..n
      BY DEF Range
    <2>3. InOrder(disk) => Filed(Id, held)
      <3>1. Len(Id) = n /\ \A k \in 1..n - 1 : k \in 1..n /\ k + 1 \in 1..n
        BY <1>1
      <3>2. \A k \in 1..n : Id[k] = k
        OBVIOUS
      <3> HIDE DEF Id, held
      <3> QED
        BY <1>2, <3>1, <3>2 DEF InOrder, Filed
    <2> HIDE DEF Id, held, read
    <2> QED
      BY <2>1, <2>2, <2>3 DEF Holds
  <1> HIDE DEF held, read, n
  <1>5. Holds(list', 1..n, held, ~misfiled')
    <2>1. CASE InOrder(disk)
      <3>1. list' = read
        BY <1>3, <2>1
      <3>2. Holds(list', 1..n, held, InOrder(disk))
        BY <1>4, <3>1
      <3> QED
        BY <3>2, <2>1, HoldsAlso
    <2>2. CASE ~InOrder(disk)
      <3>1. list' = Reorder(read, held)
        BY <1>3, <2>2
      <3>2. Holds(list', 1..n, held, TRUE)
        BY <1>2, <1>4, <3>1, ReorderHolds
      <3> QED
        BY <3>2, HoldsAlso
    <2> QED
      BY <2>1, <2>2
  <1>6. made' = n /\ live' = 1..n /\ entry' = held
    BY <1>3 DEF Read, n
  <1>7. disk' = Contents(list', held)
    BY <1>3 DEF Read, held, n
  <1>8. disk' \in Seq(Entries) /\ Len(disk') <= MaxLinks
    BY <1>2, <1>5, <1>7, SavedType
  <1>9. Typed'
    BY <1>1, <1>2, <1>6, <1>8 DEF Read, ListInv, Typed
  <1>10. Framed(stack', live', phase')
    BY MenuGives, MenuFramed DEF Read
  <1>11. Holds(list', live', entry', ~misfiled')
    BY <1>5, <1>6
  <1> QED
    BY <1>6, <1>9, <1>10, <1>11 DEF ListInv

LEMMA SaveInv ==
  ASSUME ListInv, Save
  PROVE  ListInv'
  <1>1. Saved \in Seq(Entries) /\ Len(Saved) <= MaxLinks
    BY SavedType DEF ListInv, Typed, Saved
  <1> QED
    BY <1>1 DEF Save, ListInv, Typed

LEMMA LeaveInv ==
  ASSUME ListInv, SaveAndExit \/ Dies
  PROVE  ListInv'
  <1>1. Saved \in Seq(Entries) /\ Len(Saved) <= MaxLinks
    BY SavedType DEF ListInv, Typed, Saved
  <1>2. disk' \in Seq(Entries) /\ Len(disk') <= MaxLinks /\ Ends
    BY <1>1 DEF SaveAndExit, Dies, ListInv, Typed
  <1> QED
    BY <1>2, EndsInv

LEMMA AddInv ==
  ASSUME ListInv, NEW e \in Entries, Add(e)
  PROVE  ListInv'
  <1>1. /\ made' = made + 1 /\ made < MaxLinks /\ made \in Nat /\ entry \in [Links -> Entries]
        /\ edits' = edits + 1 /\ edits < MaxEdits /\ edits \in Nat /\ MaxEdits \in Nat
    BY InvGives, ListAssumption DEF Add, Edited, ListInv, Typed
  <1>2. made' \in Links /\ made' \notin live /\ made' \in Pointers /\ edits' \in 0..MaxEdits
    <2>1. made' \in Links /\ made' \in Pointers
      BY <1>1, LinksFacts DEF Links, Pointers
    <2>2. made' \notin live
      BY <1>1 DEF ListInv
    <2>3. edits' \in 0..MaxEdits
      BY <1>1
    <2> QED
      BY <2>1, <2>2, <2>3
  <1>3. /\ entry' = [entry EXCEPT ![made'] = e] /\ entry' \in [Links -> Entries]
        /\ list' = Insert(list, made', entry') /\ live' = live \cup {made'}
    BY <1>1, <1>2 DEF Add
  <1>4. Holds(list, live, entry', ~misfiled)
    <2>1. \A x \in live : Rank(entry'[x]) = Rank(entry[x])
      BY <1>1, <1>2, <1>3, InvGives
    <2> QED
      BY <2>1, HoldsAlso DEF ListInv
  <1>5. Holds(list', live', entry', ~misfiled)
    BY <1>2, <1>3, <1>4, InsertHolds
  <1>6. phase' = "menu" /\ stack' = <<>> /\ misfiled' = misfiled
    BY MenuGives DEF Add
  <1>7. Framed(stack', live', phase')
    BY <1>6, MenuFramed
  <1>8. live' \subseteq 1..made'
    BY <1>1, <1>3 DEF ListInv
  <1>9. Typed'
    BY <1>2, <1>3 DEF Add, ListInv, Typed
  <1> QED
    BY <1>5, <1>6, <1>7, <1>8, <1>9 DEF ListInv

LEMMA ReturnInv ==
  ASSUME ListInv, Return
  PROVE  ListInv'
  <1> DEFINE outer == Front(stack)
             x == list.next[Last(outer).at]
             y == Seek(list.next, x, matched')
  <1>1. phase \in {"ask", "pick", "back"} /\ matched' = Left(Top) /\ matched \subseteq Links
    BY DEF Return, ListInv, Typed
  <1>2. matched' \subseteq Links
    BY <1>1 DEF Left
  <1>3. /\ outer \in Seq(Frame) /\ Len(outer) = Len(stack) - 1 /\ Len(outer) <= Depth
        /\ \A n \in 1..Len(outer) : outer[n].at \in live
        /\ Len(outer) \in Nat
    <2>1. /\ stack \in Seq(Frame) /\ stack # <<>> /\ Len(stack) <= Depth
          /\ \A n \in 1..Len(stack) - 1 : stack[n].at \in live
      BY <1>1, OpenGives
    <2>2. Len(stack) \in Nat /\ Len(stack) >= 1 /\ Depth \in Nat
      BY <2>1, LastFacts, ListAssumption
    <2>3. /\ outer \in Seq(Frame) /\ Len(outer) = Len(stack) - 1
          /\ \A n \in 1..Len(stack) - 1 : outer[n] = stack[n]
      BY <2>1, FrontFacts
    <2> HIDE DEF outer
    <2> QED
      BY <2>1, <2>2, <2>3
  <1>4. \A n \in 1..Len(outer) - 1 : outer[n].at \in live
    BY <1>3
  <1>5. Framed(stack', live, phase')
    <2>1. CASE outer = <<>> /\ stack' = <<>> /\ phase' = "menu"
      BY <2>1, MenuFramed
    <2>2. CASE outer # <<>> /\ stack' = outer /\ phase' = "back"
      <3> HIDE DEF outer
      <3> QED
        BY <1>3, <1>4, <2>2 DEF Framed
    <2>3. CASE /\ outer # <<>> /\ stack' = [outer EXCEPT ![Len(outer)].at = y]
               /\ phase' = IF y = 0 THEN "back" ELSE "ask"
      <3>1. stack' = [outer EXCEPT ![Len(outer)] = [outer[Len(outer)] EXCEPT !.at = y]]
        BY <2>3
      <3>2. Last(outer) = outer[Len(outer)] /\ Last(outer).at \in live
        BY <1>3, <2>3, LastFacts
      <3>3. x \in live \cup {0}
        BY <3>2, NextHolds DEF ListInv
      <3>4. y \in live \cup {0}
        BY <1>2, <3>3, SeekHolds DEF ListInv
      <3> HIDE DEF outer, y, x
      <3>5. Framed([outer EXCEPT ![Len(outer)] = [Last(outer) EXCEPT !.at = y]], live,
                   IF y = 0 THEN "back" ELSE "ask")
        BY <1>3, <1>4, <2>3, <3>4, InvGives, ShowFramed
      <3> QED
        BY <2>3, <3>1, <3>2, <3>5
    <2>4. \/ outer = <<>> /\ stack' = <<>> /\ phase' = "menu"
          \/ outer # <<>> /\ stack' = outer /\ phase' = "back"
          \/ /\ outer # <<>> /\ stack' = [outer EXCEPT ![Len(outer)].at = y]
             /\ phase' = IF y = 0 THEN "back" ELSE "ask"
      BY DEF Return
    <2> HIDE DEF outer, y
    <2> QED
      BY <2>1, <2>2, <2>3, <2>4
  <1>6. UNCHANGED <<list, entry, changed, disk, made, edits, live, misfiled>>
    BY DEF Return
  <1> QED
    BY <1>2, <1>5, <1>6, ShownInv

LEMMA StartPeruseInv ==
  ASSUME ListInv, Len(stack) < Depth, stack \in Seq(Frame),
         \A n \in 1..Len(stack) : stack[n].at \in live,
         NEW x \in live \cup {0}, StartPeruse(x)
  PROVE  matched' \subseteq Links /\ Framed(stack', live, phase')
  <1>1. matched' \subseteq Links
    <2>1. x \in Pointers /\ list.next \in [Pointers -> Pointers]
      BY InvGives, LinksFacts DEF ListType
    <2>2. Reach(list.next, x) \subseteq Links
      BY <2>1, ReachType
    <2> QED
      BY <2>2 DEF StartPeruse, ListInv, Typed
  <1>2. StartScan("peruse", x, matched')
    BY DEF StartPeruse
  <1>3. Holds(list, live, entry, ~misfiled)
    BY DEF ListInv
  <1>4. Framed(stack', live, phase')
    BY <1>1, <1>2, <1>3, StartScanFramed
  <1> QED
    BY <1>1, <1>4

LEMMA PeruseInv ==
  ASSUME ListInv, Peruse
  PROVE  ListInv'
  <1>1. matched' \subseteq Links /\ Framed(stack', live, phase')
    BY MenuGives, InvGives, StartPeruseInv DEF Peruse
  <1> QED
    BY <1>1, ShownInv DEF Peruse

LEMMA SearchInv ==
  ASSUME ListInv, NEW E, Search(E)
  PROVE  ListInv'
  <1> DEFINE found == {x \in Reach(list.next, list.next[0]) : entry[x] \in E}
             n == Cardinality(found)
  <1>1. found \subseteq live /\ live \subseteq Links /\ matched \subseteq Links
    BY InvGives DEF ListInv, Typed
  <1>2. /\ phase = "menu" /\ stack \in Seq(Frame) /\ Len(stack) < Depth /\ stack = <<>>
        /\ \A k \in 1..Len(stack) : stack[k].at \in live
    BY MenuGives DEF Search
  <1>3. matched' \subseteq Links
    <2>1. matched' = (matched \ All) \cup found
      BY DEF Search
    <2> HIDE DEF found
    <2> QED
      BY <1>1, <2>1
  <1>4. \/ UNCHANGED <<stack, phase>>
        \/ /\ n = 1 /\ phase' = "ask"
           /\ Push("one", Seek(list.next, list.next[0], found), 0)
        \/ StartScan("scan", list.next[0], found)
        \/ Push("pick", 0, 0) /\ phase' = "pick"
    BY DEF Search
  <1>5. UNCHANGED <<list, entry, changed, disk, made, edits, live, misfiled>>
    BY DEF Search
  <1> HIDE DEF found
  <1>6. Framed(stack', live, phase')
    <2>1. CASE UNCHANGED <<stack, phase>>
      BY <2>1 DEF ListInv
    <2>2. CASE /\ n = 1 /\ phase' = "ask"
               /\ Push("one", Seek(list.next, list.next[0], found), 0)
      <3> DEFINE y == Seek(list.next, list.next[0], found)
                 f == [kind |-> "one", at |-> y, first |-> 0]
      <3>1. found # {}
        <4>1. Cardinality({}) = 0
          BY FS_EmptySet
        <4> QED
          BY <2>2, <4>1
      <3>2. y \in found
        BY <1>1, <3>1, SeekFinds DEF ListInv
      <3>3. stack' = Append(stack, f)
        BY <2>2 DEF Push
      <3> HIDE DEF y
      <3>4. f \in Frame /\ f.at \in live
        BY <1>1, <3>2, LinksFacts DEF Frame
      <3> HIDE DEF f
      <3>5. phase' = "ask" /\ "ask" \in {"ask", "pick", "back"}
        BY <2>2
      <3> QED
        BY <1>2, <3>3, <3>4, <3>5, PushFramed
    <2>3. CASE StartScan("scan", list.next[0], found)
      <3>1. list.next[0] \in live \cup {0} /\ found \in SUBSET Links /\ "scan" \in {"peruse", "scan"}
        BY <1>1, InvGives
      <3>2. Holds(list, live, entry, ~misfiled)
        BY DEF ListInv
      <3> QED
        BY <1>2, <2>3, <3>1, <3>2, StartScanFramed
    <2>4. CASE Push("pick", 0, 0) /\ phase' = "pick"
      <3> DEFINE f == [kind |-> "pick", at |-> 0, first |-> 0]
      <3>1. stack' = Append(stack, f) /\ phase' = "pick" /\ "pick" \in {"ask", "pick", "back"}
        BY <2>4 DEF Push
      <3>2. f \in Frame
        BY LinksFacts DEF Frame
      <3> HIDE DEF f
      <3> QED
        BY <1>2, <3>1, <3>2, PushFramed
    <2> QED
      BY <1>4, <2>1, <2>2, <2>3, <2>4
  <1> QED
    BY <1>3, <1>5, <1>6, ShownInv

\* a frame shows a link of the list
LEMMA TopShows ==
  ASSUME ListInv, phase \in {"ask", "pick", "back"}, NEW f \in Frame,
         NEW p \in {"ask", "pick", "back"}, p = "ask" => f.at \in live,
         stack' = [stack EXCEPT ![Len(stack)] = f], phase' = p,
         UNCHANGED <<list, entry, matched, changed, disk, made, edits, live, misfiled>>
  PROVE  ListInv'
  <1>1. Framed(stack', live, phase')
    BY OpenGives, SetTopFramed
  <1>2. matched' \subseteq Links
    BY DEF ListInv, Typed
  <1> QED
    BY <1>1, <1>2, ShownInv

\* What a search by the user's fields overwrites is no name.
LEMMA OverwrittenFacts ==
  ASSUME NEW e \in Entries
  PROVE  /\ Overwritten(e) \in Entries
         /\ Rank(Overwritten(e)) = Rank(e)
         /\ Undamaged(Overwritten(e)) = Undamaged(e)
  <1>1. e \in Nat /\ (e % 3 = 1 => e + 1 \in Entries)
    BY ListAssumption
  <1>2. CASE e % 3 = 1
    <2>1. (e + 1) % 3 = 2 /\ (e + 1) \div 3 = e \div 3
      BY <1>1, <1>2
    <2> QED
      BY <1>1, <1>2, <2>1 DEF Overwritten, Rank, Undamaged
  <1>3. CASE e % 3 # 1
    BY <1>1, <1>3 DEF Overwritten, Rank, Undamaged
  <1> QED
    BY <1>2, <1>3

LEMMA SearchByOtherInv ==
  ASSUME ListInv, SearchByOther
  PROVE  ListInv'
  <1>1. /\ entry \in [Links -> Entries] /\ live \subseteq Links /\ matched \subseteq Links
        /\ entry' = [x \in Links |-> IF x \in All THEN Overwritten(entry[x]) ELSE entry[x]]
        /\ matched' \subseteq matched
        /\ UNCHANGED <<list, stack, phase, changed, disk, made, edits, live, misfiled>>
    BY InvGives DEF SearchByOther, ListInv, Typed
  <1>2. ASSUME NEW x \in Links
        PROVE  entry'[x] \in Entries /\ Rank(entry'[x]) = Rank(entry[x])
    BY <1>1, OverwrittenFacts
  <1>3. Holds(list, live, entry', ~misfiled)
    BY <1>1, <1>2, HoldsAlso DEF ListInv
  <1>4. entry' \in [Links -> Entries]
    BY <1>1, <1>2
  <1> QED
    BY <1>1, <1>3, <1>4 DEF ListInv, Typed

LEMMA PickInv ==
  ASSUME Habits = {}, ListInv, NEW x \in Links, Pick(x)
  PROVE  ListInv'
  <1> DEFINE f == [Top EXCEPT !.at = x]
  <1>1. phase \in {"ask", "pick", "back"} /\ x \in live
    BY InvGives DEF Pick, All
  <1>2. Top \in Frame /\ x \in Pointers
    BY <1>1, OpenGives, LinksFacts
  <1>3. f \in Frame /\ f.at \in live
    BY <1>1, <1>2 DEF Frame
  <1>4. stack' = [stack EXCEPT ![Len(stack)] = f] /\ phase' = "ask"
    BY DEF Pick, SetTop
  <1>5. UNCHANGED <<list, entry, matched, changed, disk, made, edits, live, misfiled>>
    BY DEF Pick
  <1> HIDE DEF f
  <1> QED
    BY <1>1, <1>3, <1>4, <1>5, TopShows

LEMMA PickAllInv ==
  ASSUME ListInv, PickAll
  PROVE  ListInv'
  <1> DEFINE y == Seek(list.next, list.next[0], matched)
             f == [kind |-> "scan", at |-> y, first |-> 0]
             p == IF y = 0 THEN "back" ELSE "ask"
  <1>1. phase \in {"ask", "pick", "back"} /\ live \subseteq Links /\ matched \subseteq Links
    BY InvGives DEF PickAll, ListInv, Typed
  <1>2. y \in live \cup {0}
    BY <1>1, InvGives, SeekHolds DEF ListInv
  <1>3. stack' = [stack EXCEPT ![Len(stack)] = f] /\ phase' = p
    BY DEF PickAll, SetTop
  <1>4. UNCHANGED <<list, entry, matched, changed, disk, made, edits, live, misfiled>>
    BY DEF PickAll
  <1> HIDE DEF y
  <1>5. f \in Frame /\ f.at = y
    BY <1>1, <1>2, LinksFacts DEF Frame
  <1>6. p \in {"ask", "pick", "back"} /\ (p = "ask" => f.at \in live)
    BY <1>2, <1>5
  <1> HIDE DEF f, p
  <1> QED
    BY <1>1, <1>3, <1>4, <1>5, <1>6, TopShows

\* a step back to the frame below
LEMMA BackInv ==
  ASSUME ListInv, phase \in {"ask", "pick", "back"}, Back,
         UNCHANGED <<list, entry, matched, changed, disk, made, edits, live, misfiled>>
  PROVE  ListInv'
  <1>1. Framed(stack', live, phase')
    BY DEF Back, ListInv, Framed
  <1>2. matched' \subseteq Links
    BY DEF ListInv, Typed
  <1> QED
    BY <1>1, <1>2, ShownInv

LEMMA RepickInv ==
  ASSUME ListInv, phase = "ask", phase' = "pick", UNCHANGED stack,
         UNCHANGED <<list, entry, matched, changed, disk, made, edits, live, misfiled>>
  PROVE  ListInv'
  <1>1. Framed(stack', live, phase')
    BY DEF ListInv, Framed
  <1>2. matched' \subseteq Links
    BY DEF ListInv, Typed
  <1> QED
    BY <1>1, <1>2, ShownInv

LEMMA ContinueInv ==
  ASSUME ListInv, Continue
  PROVE  ListInv'
  <1>1. phase = "ask"
    BY DEF Continue, Asked
  <1>2. UNCHANGED <<list, entry, matched, changed, disk, made, edits, live, misfiled>>
    BY DEF Continue
  <1>3. CASE IsScan(Top) /\ ShowFrom(list.next[Top.at], list.next, matched)
    <2>1. GoesOn(list.next, matched)
      BY <1>3 DEF GoesOn
    <2>2. matched \in SUBSET Links /\ Holds(list, live, entry, ~misfiled)
      BY DEF ListInv, Typed
    <2>3. Framed(stack', live, phase')
      BY <1>1, <2>1, <2>2, OpenGives, GoesOnFramed
    <2> QED
      BY <1>2, <2>2, <2>3, ShownInv
  <1>4. CASE Back
    BY <1>1, <1>2, <1>4, BackInv
  <1>5. CASE phase' = "pick" /\ UNCHANGED stack
    BY <1>1, <1>2, <1>5, RepickInv
  <1> QED
    BY <1>3, <1>4, <1>5 DEF Continue

LEMMA PreviousInv ==
  ASSUME ListInv, Previous
  PROVE  ListInv'
  <1>1. phase = "ask"
    BY DEF Previous, Asked
  <1>2. UNCHANGED <<list, entry, matched, changed, disk, made, edits, live, misfiled>>
    BY DEF Previous
  <1> DEFINE y == Seek(list.prev, list.prev[Top.at], matched)
             f == [Top EXCEPT !.at = IF y = 0 THEN @ ELSE y]
  <1>3. CASE SetTop(f) /\ UNCHANGED phase
    <2>1. y \in live \cup {0}
      BY <1>1, OpenGives, SeekHolds DEF ListInv, Typed
    <2>2. Top \in Frame /\ Top.at \in live /\ live \subseteq Links
      BY <1>1, OpenGives, InvGives
    <2>3. stack' = [stack EXCEPT ![Len(stack)] = f] /\ phase' = "ask"
      BY <1>1, <1>3 DEF SetTop
    <2> HIDE DEF y
    <2>4. f \in Frame /\ f.at \in live
      <3>1. (IF y = 0 THEN Top.at ELSE y) \in live
        BY <2>1, <2>2
      <3>2. f = [Top EXCEPT !.at = IF y = 0 THEN Top.at ELSE y]
        BY <2>2 DEF Frame
      <3> QED
        BY <2>2, <3>1, <3>2, LinksFacts DEF Frame
    <2> HIDE DEF f
    <2> QED
      BY <1>1, <1>2, <2>3, <2>4, TopShows
  <1>4. CASE Back
    BY <1>1, <1>2, <1>4, BackInv
  <1>5. CASE phase' = "pick" /\ UNCHANGED stack
    BY <1>1, <1>2, <1>5, RepickInv
  <1> QED
    BY <1>3, <1>4, <1>5 DEF Previous

LEMMA DeleteInv ==
  ASSUME Habits = {}, ListInv, Delete
  PROVE  ListInv'
  <1> DEFINE x == Top.at
             S == live \ {x}
  <1>1. /\ phase = "ask" /\ edits' = edits + 1 /\ edits < MaxEdits
        /\ \A n \in 1..Len(stack) - 1 : stack[n].at # x
        /\ list' = Unlink(list, x) /\ live' = S /\ GoesOn(list'.next, matched)
        /\ UNCHANGED <<entry, matched, disk, made, misfiled>> /\ changed' = TRUE
    BY DEF Delete, Asked, Edited, ShownOutside
  <1>2. /\ stack \in Seq(Frame) /\ stack # <<>> /\ Len(stack) <= Depth /\ x \in live
        /\ \A n \in 1..Len(stack) - 1 : stack[n].at \in S
    BY <1>1, OpenGives
  <1>3. entry \in [Links -> Entries] /\ matched \in SUBSET Links /\ edits \in Nat /\ MaxEdits \in Nat
    BY ListAssumption DEF ListInv, Typed
  <1>4. Holds(list, live, entry, ~misfiled)
    BY DEF ListInv
  <1>5. Holds(list', S, entry, ~misfiled) /\ list'.next[x] \in S \cup {0}
    <2>1. Holds(Unlink(list, x), S, entry, ~misfiled) /\ Unlink(list, x).next[x] \in S \cup {0}
      BY <1>2, <1>3, <1>4, UnlinkHolds
    <2> HIDE DEF S
    <2> QED
      BY <1>1, <2>1
  <1>6. Framed(stack', S, phase')
    <2> HIDE DEF S
    <2> QED
      BY <1>1, <1>2, <1>3, <1>5, GoesOnFramed
  <1>7. edits' \in 0..MaxEdits
    BY <1>1, <1>3
  <1>8. Typed'
    BY <1>1, <1>7 DEF ListInv, Typed
  <1>9. live' \subseteq 1..made'
    BY <1>1 DEF ListInv
  <1> QED
    BY <1>1, <1>5, <1>6, <1>8, <1>9 DEF ListInv

LEMMA UpdateInv ==
  ASSUME ListInv, NEW e \in Entries, NEW name_changed \in BOOLEAN, Update(e, name_changed)
  PROVE  ListInv'
  <1> DEFINE x == Top.at
             S == live \ {x}
  <1>1. /\ phase = "ask" /\ edits' = edits + 1 /\ edits < MaxEdits
        /\ entry' = [entry EXCEPT ![x] = e]
        /\ list' = IF name_changed THEN Insert(Unlink(list, x), x, entry') ELSE list
        /\ misfiled' = (misfiled \/ (~name_changed /\ Rank(e) # Rank(entry[x])))
        /\ changed' = TRUE /\ GoesOn(list'.next, matched)
        /\ UNCHANGED <<matched, disk, made, live>>
    BY DEF Update, Asked, Edited
  <1>2. /\ stack \in Seq(Frame) /\ stack # <<>> /\ Len(stack) <= Depth /\ x \in live
        /\ \A n \in 1..Len(stack) - 1 : stack[n].at \in live
    BY <1>1, OpenGives
  <1>3. /\ entry \in [Links -> Entries] /\ matched \in SUBSET Links
        /\ edits \in Nat /\ MaxEdits \in Nat /\ misfiled \in BOOLEAN
    BY ListAssumption DEF ListInv, Typed
  <1>4. x \in Links /\ entry' \in [Links -> Entries] /\ entry'[x] = e
        /\ \A y \in live : y # x => entry'[y] = entry[y]
    BY <1>1, <1>2, <1>3, InvGives
  <1>5. Holds(list', live, entry', ~misfiled')
    <2>1. CASE name_changed
      <3>1. Holds(list, live, entry, ~misfiled)
        BY DEF ListInv
      <3>2. Holds(Unlink(list, x), S, entry, ~misfiled)
        BY <1>2, <1>3, <3>1, UnlinkHolds
      <3>3. Holds(Unlink(list, x), S, entry', ~misfiled)
        <4>1. \A y \in S : Rank(entry'[y]) = Rank(entry[y])
          BY <1>4
        <4> HIDE DEF S
        <4> QED
          BY <3>2, <4>1, HoldsAlso
      <3>4. Holds(Insert(Unlink(list, x), x, entry'), S \cup {x}, entry', ~misfiled)
        <4>1. x \notin S
          OBVIOUS
        <4> HIDE DEF S
        <4> QED
          BY <1>4, <3>3, <4>1, InsertHolds
      <3>5. S \cup {x} = live /\ list' = Insert(Unlink(list, x), x, entry') /\ misfiled' = misfiled
        BY <1>1, <1>2, <1>3, <2>1
      <3> HIDE DEF S
      <3> QED
        BY <3>4, <3>5
    <2>2. CASE ~name_changed
      <3>1. Holds(list, live, entry, ~misfiled) /\ list' = list
        BY <1>1, <2>2 DEF ListInv
      <3>2. ~misfiled' => ~misfiled /\ Rank(e) = Rank(entry[x])
        BY <1>1, <2>2
      <3>3. ~misfiled' => \A y \in live : Rank(entry'[y]) = Rank(entry[y])
        BY <1>4, <3>2
      <3> QED
        BY <3>1, <3>2, <3>3, HoldsAlso
    <2> QED
      BY <2>1, <2>2
  <1>6. list'.next[x] \in live \cup {0}
    BY <1>2, <1>5, NextHolds
  <1>7. Framed(stack', live, phase')
    BY <1>1, <1>2, <1>3, <1>5, <1>6, GoesOnFramed
  <1>8. edits' \in 0..MaxEdits /\ misfiled' \in BOOLEAN
    BY <1>1, <1>3
  <1>9. Typed'
    BY <1>1, <1>4, <1>8 DEF ListInv, Typed
  <1> QED
    BY <1>1, <1>5, <1>7, <1>9 DEF ListInv

LEMMA NoUpdateInv ==
  ASSUME ListInv, phase = "ask", GoesOn(list.next, matched),
         UNCHANGED <<list, entry, matched, changed, disk, made, edits, live, misfiled>>
  PROVE  ListInv'
  <1>1. matched \in SUBSET Links /\ Holds(list, live, entry, ~misfiled)
    BY DEF ListInv, Typed
  <1>2. Framed(stack', live, phase')
    BY <1>1, OpenGives, GoesOnFramed
  <1> QED
    BY <1>1, <1>2, ShownInv

LEMMA ScanFromHereInv ==
  ASSUME ListInv, ScanFromHere
  PROVE  ListInv'
  <1>1. /\ phase = "ask" /\ Len(stack) < Depth
        /\ UNCHANGED <<list, entry, changed, disk, made, edits, live, misfiled>>
    BY DEF ScanFromHere, Asked
  <1>2. CASE StartPeruse(list.next[Top.at])
    <2>1. matched' \subseteq Links /\ Framed(stack', live, phase')
      BY <1>1, <1>2, OpenGives, StartPeruseInv
    <2> QED
      BY <1>1, <2>1, ShownInv
  <1>3. CASE GoesOn(list.next, matched) /\ UNCHANGED matched
    BY <1>1, <1>3, NoUpdateInv
  <1> QED
    BY <1>2, <1>3 DEF ScanFromHere

LEMMA NextInv ==
  ASSUME Habits = {}, ListInv, [Next]_vars
  PROVE  ListInv'
  <1>1. CASE Read
    BY <1>1, ReadInv
  <1>2. CASE Save
    BY <1>2, SaveInv
  <1>3. CASE SaveAndExit \/ Dies
    BY <1>3, LeaveInv
  <1>4. CASE Return
    BY <1>4, ReturnInv
  <1>5. CASE \E e \in Entries : Add(e)
    BY <1>5, AddInv
  <1>6. CASE Peruse
    BY <1>6, PeruseInv
  <1>7. CASE \E E \in SUBSET {entry[x] : x \in All} : Search(E)
    BY <1>7, SearchInv
  <1>19. CASE SearchByOther
    BY <1>19, SearchByOtherInv
  <1>8. CASE \E x \in Links : Pick(x)
    BY <1>8, PickInv
  <1>9. CASE PickAll
    BY <1>9, PickAllInv
  <1>10. CASE PickNone
    BY <1>10, BackInv DEF PickNone
  <1>11. CASE Continue
    BY <1>11, ContinueInv
  <1>12. CASE Abort
    BY <1>12, BackInv DEF Abort, Asked
  <1>13. CASE Previous
    BY <1>13, PreviousInv
  <1>14. CASE Delete
    BY <1>14, DeleteInv
  <1>15. CASE \E e \in Entries, name_changed \in BOOLEAN : Update(e, name_changed)
    BY <1>15, UpdateInv
  <1>16. CASE NoUpdate
    BY <1>16, NoUpdateInv DEF NoUpdate, Asked
  <1>17. CASE ScanFromHere
    BY <1>17, ScanFromHereInv
  <1>18. CASE UNCHANGED vars
    BY <1>18 DEF vars, ListInv, Typed, Framed, Holds, Linked
  <1> QED
    BY <1>1, <1>2, <1>3, <1>4, <1>5, <1>6, <1>7, <1>8, <1>9, <1>10, <1>11, <1>12,
       <1>13, <1>14, <1>15, <1>16, <1>17, <1>18, <1>19 DEF Next

LEMMA ListAlways ==
  ASSUME Habits = {}
  PROVE  Spec => []ListInv
  <1>1. Init => ListInv
    BY InitInv
  <1>2. ListInv /\ [Next]_vars => ListInv'
    BY NextInv
  <1> QED
    BY <1>1, <1>2, PTL DEF Spec

-----------------------------------------------------------------------------
(* The theorems.                                                           *)

\* Whatever is added, deleted and filed again, in scans within scans, the list holds
\* the entries that were added and not deleted, each once, and reads the same from
\* either end.
THEOREM ListSound ==
  ASSUME Habits = {}
  PROVE  Spec => []Sound
  <1>1. ListInv => Sound
    BY HoldsFacts DEF ListInv, Sound
  <1> QED
    BY <1>1, ListAlways, PTL

\* The entries are in order by name through every insertion, deletion and change,
\* until a changed name is left in its old place.
THEOREM ListSorted ==
  ASSUME Habits = {}
  PROVE  Spec => []Sorted
  <1>1. ListInv => Sorted
    <2> SUFFICES ASSUME ListInv, ~misfiled PROVE InOrder(Saved)
      BY DEF Sorted
    <2> DEFINE q == Chain(list.next)
    <2>1. Filed(q, entry) /\ Line(q) /\ Len(q) \in Nat /\ DOMAIN q = 1..Len(q)
      <3>1. Line(q) /\ (~misfiled => Filed(q, entry))
        BY HoldsFacts DEF ListInv
      <3> HIDE DEF q
      <3> QED
        BY <3>1, NthFacts DEF Line
    <2>2. Saved = [n \in DOMAIN q |-> entry[q[n]]]
      BY DEF Saved, Contents
    <2> HIDE DEF q
    <2>3. Len(Saved) = Len(q) /\ \A n \in 1..Len(q) : Saved[n] = entry[q[n]]
      BY <2>1, <2>2
    <2>4. \A n \in 1..Len(q) - 1 : n \in 1..Len(q) /\ n + 1 \in 1..Len(q)
      BY <2>1
    <2> QED
      BY <2>1, <2>3, <2>4 DEF InOrder, Filed
  <1> QED
    BY <1>1, ListAlways, PTL

\* The links, the marks, the frames and the file have their types.
THEOREM ListTyped ==
  ASSUME Habits = {}
  PROVE  Spec => []TypeOK
  <1>1. ListInv => TypeOK
    BY InvGives
  <1> QED
    BY <1>1, ListAlways, PTL

\* While nothing is marked as changed, the file holds the list in memory, entry for
\* entry, but for what searches by the user's fields overwrite.
THEOREM ListChangedTells ==
  ASSUME Habits = {}
  PROVE  Spec => []ChangedTells
  <1>1. Init => ChangedTells
    BY DEF Init, ChangedTells
  <1>2. ListInv /\ ChangedTells /\ [Next]_vars => ChangedTells'
    <2> SUFFICES ASSUME ListInv, ChangedTells, [Next]_vars PROVE ChangedTells'
      OBVIOUS
    <2>1. CASE disk' = Saved'
      BY <2>1 DEF ChangedTells, Alike
    <2>2. CASE Read
      <3>1. /\ entry' = [x \in Links |-> IF x <= Len(disk) THEN disk[x] ELSE entry[x]]
            /\ disk' = Contents(list', [x \in Links |-> IF x <= Len(disk) THEN disk[x]
                                                       ELSE entry[x]])
        BY <2>2 DEF Read
      <3> QED
        BY <2>1, <3>1 DEF Saved
    <2>3. CASE Save
      BY <2>1, <2>3 DEF Save, Saved
    <2>4. CASE SaveAndExit \/ Dies
      BY <2>4 DEF SaveAndExit, Dies, Ends, ChangedTells
    <2>5. CASE \/ changed' = TRUE
               \/ phase \notin {"start", "off"} /\ UNCHANGED <<list, entry, changed, disk>>
      BY <2>5 DEF ChangedTells, Saved
    <2>6. ASSUME \/ (\E e \in Entries : Add(e)) \/ Delete
                 \/ \E e \in Entries, name_changed \in BOOLEAN : Update(e, name_changed)
          PROVE  changed' = TRUE
      BY <2>6 DEF Add, Delete, Update
    <2>7. ASSUME \/ Return \/ Peruse \/ (\E E \in SUBSET {entry[x] : x \in All} : Search(E))
                 \/ (\E x \in Links : Pick(x)) \/ PickAll \/ PickNone
                 \/ Continue \/ Abort \/ Previous \/ NoUpdate \/ ScanFromHere
          PROVE  phase \notin {"start", "off"} /\ UNCHANGED <<list, entry, changed, disk>>
      BY <2>7 DEF Return, Peruse, Search, Pick, PickAll, PickNone, Continue, Abort, Previous,
                  NoUpdate, ScanFromHere, Asked
    <2>8. CASE SearchByOther
      <3> DEFINE q == Chain(list.next)
      <3>1. /\ entry' = [x \in Links |-> IF x \in All THEN Overwritten(entry[x])
                                        ELSE entry[x]]
            /\ phase = "menu" /\ UNCHANGED <<list, changed, disk>>
            /\ entry \in [Links -> Entries] /\ live \subseteq Links
        BY <2>8, InvGives DEF SearchByOther, ListInv, Typed
      <3>2. Line(q) /\ Range(q) = live
        BY HoldsFacts DEF ListInv
      <3>3. /\ Saved = [n \in DOMAIN q |-> entry[q[n]]]
            /\ Saved' = [n \in DOMAIN q |-> entry'[q[n]]]
        BY <3>1 DEF Saved, Contents
      <3> HIDE DEF q
      <3>4. \A n \in DOMAIN q : q[n] \in Links
        BY <3>1, <3>2 DEF Range
      <3>5. Len(q) \in Nat /\ DOMAIN q = 1..Len(q)
        BY <3>2, NthFacts DEF Line
      <3>6. \A n \in DOMAIN q : Undamaged(Saved[n]) = Undamaged(Saved'[n])
        BY <3>1, <3>3, <3>4, OverwrittenFacts
      <3>7. Len(Saved) = Len(q) /\ Len(Saved') = Len(q)
        BY <3>3, <3>5
      <3>8. disk \in Seq(Entries) /\ DOMAIN disk = 1..Len(disk)
        BY DEF ListInv, Typed
      <3> QED
        BY <3>1, <3>5, <3>6, <3>7, <3>8 DEF ChangedTells, Alike
    <2>9. CASE UNCHANGED vars
      BY <2>9 DEF vars, ChangedTells, Saved
    <2> QED
      BY <2>2, <2>3, <2>4, <2>5, <2>6, <2>7, <2>8, <2>9 DEF Next
  <1> QED
    BY <1>1, <1>2, ListAlways, PTL DEF Spec

=============================================================================
