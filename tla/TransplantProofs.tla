-------------------------- MODULE TransplantProofs ---------------------------
(***************************************************************************)
(* Theorems about module Transplant, for trees of any size and depth, any  *)
(* names and data, and any order in which directories are read.            *)
(***************************************************************************)
EXTENDS Transplant, FiniteSetTheorems, TLAPS

-----------------------------------------------------------------------------
(* Nothing is overwritten.                                                 *)

\* Without -c no step changes a file or a directory that there is, wherever the
\* reader may have lost its way.
THEOREM TransplantNothingOverwritten == Spec => NothingOverwritten
  <1> DEFINE Keeps == \A p \in DOMAIN target :
                        p \in DOMAIN target' /\ target'[p] = target[p]
  <1>1. ASSUME NEW p, ~Exists(p), NEW x, target' = Put(target, p, x) PROVE Keeps
    BY <1>1 DEF Put, Exists
  <1>2. ASSUME target' = target PROVE Keeps
    BY <1>2
  <1>3. ASSUME NEW p, target' = Mkdir(p) PROVE Keeps
    BY <1>1, <1>2, <1>3 DEF Mkdir
  <1> HIDE DEF Keeps
  <1>4. [Next]_vars => (~clobber => Keeps)
    <2> SUFFICES ASSUME [Next]_vars, ~clobber PROVE Keeps
      OBVIOUS
    <2>1. CASE Begin
      BY <2>1, <1>2, <1>3 DEF Begin, Stops
    <2>2. CASE ReadEntry \/ ReadStart \/ ReadEnd
      BY <2>2, <1>2 DEF ReadEntry, ReadStart, ReadEnd
    <2>3. CASE ReadOther
      BY <2>3, <1>2 DEF ReadOther, Stops
    <2>4. CASE FileExists \/ ReadNoFile
      BY <2>4, <1>3 DEF FileExists, ReadNoFile, NotAFile
    <2>5. CASE ReadFile
      BY <2>5, <1>1 DEF ReadFile, Kept
    <2>6. CASE UNCHANGED target
      BY <2>6, <1>2
    <2> QED
      BY <2>1, <2>2, <2>3, <2>4, <2>5, <2>6 DEF Next, ReadNext, vars
  <1>5. [Next]_vars => [~clobber => Keeps]_vars
    BY <1>4
  <1> QED
    BY <1>5, PTL DEF Spec, NothingOverwritten, Keeps

-----------------------------------------------------------------------------
(* Induction, over a set of numbers, from the pigeonhole principle.        *)

LEMMA SetInduction ==
  ASSUME NEW S, 0 \in S, \A n \in Nat : n \in S => n + 1 \in S
  PROVE  Nat \subseteq S
  <1> SUFFICES ASSUME NEW m \in Nat, m \notin S PROVE FALSE
    OBVIOUS
  <1> DEFINE T == {n \in 0..m : n \in S}
             U == T \ {0}
             f == [n \in T |-> n + 1]
  <1>1. 0 \in T
    OBVIOUS
  <1>2. IsFiniteSet(T) /\ Cardinality(T) \in Nat
    <2>1. IsFiniteSet(0..m) /\ T \in SUBSET (0..m)
      BY FS_Interval
    <2> HIDE DEF T
    <2> QED
      BY <2>1, FS_Subset, FS_CardinalityType
  <1>3. IsFiniteSet(U) /\ Cardinality(U) = Cardinality(T) - 1
    <2> HIDE DEF T
    <2> QED
      BY <1>1, <1>2, FS_RemoveElement
  <1>4. f \in [T -> U]
    OBVIOUS
  <1>5. PICK x, y \in T : x # y /\ f[x] = f[y]
    <2> HIDE DEF f, T, U
    <2> QED
      BY <1>2, <1>3, <1>4, FS_PigeonHole
  <1> QED
    BY <1>5

LEMMA BoundedInduction ==
  ASSUME NEW N \in Nat, NEW S, 0 \in S, \A n \in 0..N - 1 : n \in S => n + 1 \in S
  PROVE  0..N \subseteq S
  <1> DEFINE T == {n \in Nat : n <= N => n \in S}
  <1>1. 0 \in T /\ \A n \in Nat : n \in T => n + 1 \in T
    OBVIOUS
  <1>2. Nat \subseteq T
    <2> HIDE DEF T
    <2> QED
      BY <1>1, SetInduction
  <1> QED
    BY <1>2

-----------------------------------------------------------------------------
(* What a stream stands for, unit by unit.                                 *)

State(at, entry, tree) == [at |-> at, entry |-> entry, tree |-> tree, fits |-> TRUE]

LEMMA DecodeUnits ==
  ASSUME NEW a, NEW e, NEW t
  PROVE  /\ Decode(State(a, e, t), Header("DIRECTORY_ENTRY", Len(a) + 1)) = State(a, e, t)
         /\ Decode(State(a, e, t), Header("FILE_DATA", Len(a) + 1)) = State(a, e, t)
         /\ Decode(State(a, e, t), Header("START_OF_DIRECTORY", Len(e) + 1)) = State(e, e, t)
         /\ Decode(State(a, e, t), Header("END_OF_DIRECTORY", Len(a) + 1))
              = State(IF a = <<>> THEN a ELSE Front(a), e, t)
         /\ Decode(State(a, e, t), Header("START_OF_TRANSMISSION", 0)) = State(a, e, t)
         /\ Decode(State(a, e, t), Header("END_OF_TRANSMISSION", 0)) = State(a, e, t)
         /\ \A n, x : n # NoName => Decode(State(a, e, t), Bytes(n, x))
                        = State(a, Append(a, n), Put(t, Append(a, n), x))
         /\ \A x : Decode(State(a, e, t), Bytes(NoName, x)) = State(a, e, Put(t, e, x))
  <1> DEFINE D == State(a, e, t)
  <1>0. D.at = a /\ D.entry = e /\ D.tree = t /\ D.fits = TRUE
    BY DEF State
  <1>1. Decode(D, Header("DIRECTORY_ENTRY", Len(a) + 1)) = State(a, e, t)
    BY DEF Decode, State, Header
  <1>2. Decode(D, Header("FILE_DATA", Len(a) + 1)) = State(a, e, t)
    BY DEF Decode, State, Header
  <1>3. Decode(D, Header("START_OF_DIRECTORY", Len(e) + 1)) = State(e, e, t)
    BY DEF Decode, State, Header
  <1>4. Decode(D, Header("END_OF_DIRECTORY", Len(a) + 1))
          = State(IF a = <<>> THEN a ELSE Front(a), e, t)
    BY DEF Decode, State, Header
  <1>5. Decode(D, Header("START_OF_TRANSMISSION", 0)) = State(a, e, t)
    BY DEF Decode, State, Header
  <1>6. Decode(D, Header("END_OF_TRANSMISSION", 0)) = State(a, e, t)
    BY DEF Decode, State, Header
  <1>7. ASSUME NEW n, NEW x, n # NoName
        PROVE  Decode(D, Bytes(n, x)) = State(a, Append(a, n), Put(t, Append(a, n), x))
    BY <1>7 DEF Decode, State, Bytes
  <1>8. ASSUME NEW x PROVE Decode(D, Bytes(NoName, x)) = State(a, e, Put(t, e, x))
    BY DEF Decode, State, Bytes
  <1> QED
    BY <1>1, <1>2, <1>3, <1>4, <1>5, <1>6, <1>7, <1>8

LEMMA DecodedIs ==
  ASSUME NEW s, Len(s) \in Nat
  PROVE  /\ Decoded(s)[0] = Nothing
         /\ \A n \in 1..Len(s) : Decoded(s)[n] = Decode(Decoded(s)[n - 1], s[n])
  <1> DEFINE Upto(k, f) ==
               /\ f = [n \in 0..k |-> f[n]]
               /\ f[0] = Nothing
               /\ \A n \in 1..k : f[n] = Decode(f[n - 1], s[n])
             P(f) == f = [n \in 0..Len(s) |->
                            IF n = 0 THEN Nothing ELSE Decode(f[n - 1], s[n])]
             T == {k \in 0..Len(s) : \E f : Upto(k, f)}
  <1>1. 0 \in T
    <2> DEFINE f == [n \in 0..0 |-> Nothing]
    <2>1. f[0] = Nothing
      OBVIOUS
    <2>2. Upto(0, f)
      BY <2>1
    <2> HIDE DEF f, Upto
    <2> QED
      BY <2>2
  <1>2. \A k \in 0..Len(s) - 1 : k \in T => k + 1 \in T
    <2> SUFFICES ASSUME NEW k \in 0..Len(s) - 1, \E f : Upto(k, f)
                 PROVE  \E h : Upto(k + 1, h)
      <3> HIDE DEF Upto
      <3> QED
        OBVIOUS
    <2> PICK f : Upto(k, f)
      OBVIOUS
    <2> DEFINE h == [n \in 0..k + 1 |-> IF n = k + 1 THEN Decode(f[n - 1], s[n]) ELSE f[n]]
    <2>1. h = [n \in 0..k + 1 |-> h[n]] /\ h[0] = Nothing
      OBVIOUS
    <2>2. \A n \in 1..k + 1 : h[n] = Decode(h[n - 1], s[n])
      BY SMTT(30)
    <2>3. Upto(k + 1, h)
      BY <2>1, <2>2
    <2> HIDE DEF h, Upto
    <2> QED
      BY <2>3
  <1>3. 0..Len(s) \subseteq T
    <2> HIDE DEF T
    <2> QED
      BY <1>1, <1>2, BoundedInduction
  <1>4. PICK f : Upto(Len(s), f)
    <2> HIDE DEF Upto
    <2> QED
      BY <1>3
  <1>5. P(f)
    BY <1>4
  <1>6. Decoded(s) = CHOOSE g : P(g)
    BY DEF Decoded
  <1>7. P(Decoded(s))
    <2> HIDE DEF P
    <2> QED
      BY <1>5, <1>6
  <1> QED
    BY <1>7

\* what has been sent keeps its meaning
LEMMA DecodedExtends ==
  ASSUME NEW s, NEW t, Len(s) \in Nat, Len(t) \in Nat, Len(s) <= Len(t),
         \A i \in 1..Len(s) : t[i] = s[i]
  PROVE  \A n \in 0..Len(s) : Decoded(t)[n] = Decoded(s)[n]
  <1> DEFINE T == {n \in 0..Len(s) : Decoded(t)[n] = Decoded(s)[n]}
  <1>1. 0 \in T
    BY DecodedIs
  <1>2. \A n \in 0..Len(s) - 1 : n \in T => n + 1 \in T
    <2> SUFFICES ASSUME NEW n \in 0..Len(s) - 1, Decoded(t)[n] = Decoded(s)[n]
                 PROVE  Decoded(t)[n + 1] = Decoded(s)[n + 1]
      OBVIOUS
    <2>1. n + 1 \in 1..Len(s) /\ n + 1 \in 1..Len(t) /\ (n + 1) - 1 = n
      OBVIOUS
    <2> QED
      BY <2>1, DecodedIs
  <1>3. 0..Len(s) \subseteq T
    <2> HIDE DEF T
    <2> QED
      BY <1>1, <1>2, BoundedInduction
  <1> QED
    BY <1>3

Meaning(s) == Decoded(s)[Len(s)]

LEMMA MeaningAppend ==
  ASSUME NEW U, NEW s \in Seq(U), NEW u \in U
  PROVE  Append(s, u) \in Seq(U) /\ Meaning(Append(s, u)) = Decode(Meaning(s), u)
  <1> DEFINE t == Append(s, u)
  <1>1. /\ Len(s) \in Nat /\ t \in Seq(U) /\ Len(t) = Len(s) + 1 /\ t[Len(s) + 1] = u
        /\ \A i \in 1..Len(s) : t[i] = s[i]
    OBVIOUS
  <1> HIDE DEF t
  <1>2. Len(t) \in Nat /\ Len(s) <= Len(t) /\ Len(s) \in 0..Len(s) /\ Len(t) \in 1..Len(t)
        /\ Len(t) - 1 = Len(s)
    BY <1>1
  <1>3. Decoded(t)[Len(s)] = Decoded(s)[Len(s)]
    BY <1>1, <1>2, DecodedExtends
  <1>4. Decoded(t)[Len(t)] = Decode(Decoded(t)[Len(t) - 1], t[Len(t)])
    BY <1>2, DecodedIs
  <1>5. Meaning(t) = Decode(Meaning(s), u)
    BY <1>1, <1>2, <1>3, <1>4 DEF Meaning
  <1> QED
    BY <1>1, <1>5 DEF t

-----------------------------------------------------------------------------
(* Paths and trees.                                                        *)

LEMMA PathFacts ==
  ASSUME NEW p \in Seq(Names), NEW n \in Names
  PROVE  /\ Append(p, n) \in Seq(Names) /\ Append(p, n) # <<>>
         /\ Len(Append(p, n)) = Len(p) + 1 /\ Len(p) \in Nat
         /\ Front(Append(p, n)) = p /\ Last(Append(p, n)) = n
  <1> DEFINE q == Append(p, n)
  <1>1. /\ q \in Seq(Names) /\ Len(q) = Len(p) + 1 /\ q[Len(p) + 1] = n /\ Len(p) \in Nat
        /\ \A i \in 1..Len(p) : q[i] = p[i]
    OBVIOUS
  <1> HIDE DEF q
  <1>2. q # <<>>
    BY <1>1
  <1>3. Last(q) = n
    BY <1>1 DEF Last
  <1>4. Front(q) = p
    <2>1. Len(q) - 1 = Len(p) /\ p = [i \in 1..Len(p) |-> p[i]]
      BY <1>1
    <2>2. Front(q) = [i \in 1..Len(p) |-> q[i]]
      BY <2>1 DEF Front
    <2> QED
      BY <1>1, <2>1, <2>2
  <1> QED
    BY <1>1, <1>2, <1>3, <1>4 DEF q

LEMMA PathParts ==
  ASSUME NEW p \in Seq(Names), p # <<>>
  PROVE  /\ Front(p) \in Seq(Names) /\ Last(p) \in Names /\ p = Append(Front(p), Last(p))
         /\ Len(Front(p)) = Len(p) - 1 /\ Len(p) \in Nat /\ Len(p) >= 1
  <1> DEFINE f == [i \in 1..Len(p) - 1 |-> p[i]]
  <1>1. Len(p) \in Nat /\ Len(p) >= 1 /\ Len(p) - 1 \in Nat
    OBVIOUS
  <1>2. f \in [1..Len(p) - 1 -> Names] /\ Last(p) = p[Len(p)] /\ Last(p) \in Names
    BY <1>1 DEF Last
  <1>3. Front(p) = f
    BY <1>1 DEF Front
  <1>4. f \in Seq(Names) /\ Len(f) = Len(p) - 1
    <2> HIDE DEF f
    <2> QED
      BY <1>1, <1>2
  <1>5. p = Append(f, Last(p))
    <2>1. \A i \in 1..Len(p) - 1 : f[i] = p[i]
      OBVIOUS
    <2> HIDE DEF f
    <2>2. /\ Len(Append(f, Last(p))) = Len(p) /\ Append(f, Last(p)) \in Seq(Names)
          /\ \A i \in 1..Len(p) : Append(f, Last(p))[i] = p[i]
      BY <1>1, <1>2, <1>4, <2>1
    <2> QED
      BY <2>2
  <1> QED
    BY <1>1, <1>2, <1>3, <1>4, <1>5

LEMMA InsideIs ==
  ASSUME NEW tree, IsTree(tree), NEW p \in Seq(Names), NEW n
  PROVE  n \in Inside(tree, p) <=> n \in Names /\ Append(p, n) \in DOMAIN tree
  <1>1. ASSUME n \in Inside(tree, p) PROVE n \in Names /\ Append(p, n) \in DOMAIN tree
    <2> PICK r \in DOMAIN tree : r # <<>> /\ Front(r) = p /\ n = Last(r)
      BY <1>1 DEF Inside
    <2> QED
      BY PathParts DEF IsTree
  <1>2. ASSUME n \in Names, Append(p, n) \in DOMAIN tree PROVE n \in Inside(tree, p)
    BY <1>2, PathFacts DEF Inside
  <1> QED
    BY <1>1, <1>2

-----------------------------------------------------------------------------
(* The writer.                                                             *)

Types ==
  {"START_OF_TRANSMISSION", "END_OF_TRANSMISSION", "START_OF_DIRECTORY",
   "END_OF_DIRECTORY", "DIRECTORY_ENTRY", "FILE_DATA", "bytes"}
Contents == {Dir, 0} \cup {source[p] : p \in DOMAIN source}
Units == [type : Types, depth : Nat, name : Names \cup {NoName}, data : Contents]
OpenFrame == [at : Seq(Names), todo : SUBSET Names]

\* the part of the tree that has been written
Part(V) == [p \in V |-> source[p]]

\* The open directories lie one in another, and what is to be done in each is there
\* to be written.
OpenOK(o, V) ==
  /\ o \in Seq(OpenFrame)
  /\ \A k \in 1..Len(o) :
       /\ Len(o[k].at) = k - 1 /\ o[k].at \in V
       /\ \A n \in o[k].todo : Append(o[k].at, n) \in DOMAIN source \ V
  /\ \A k \in 2..Len(o) : Front(o[k].at) = o[k - 1].at

ToDo(o, p) == \E k \in 1..Len(o) : o[k].at = Front(p) /\ Last(p) \in o[k].todo

\* What is in a directory that has been written has been written too, or is still to
\* be done.
Reached(o, V) ==
  /\ V \subseteq DOMAIN source /\ <<>> \in V
  /\ \A p \in V \ {<<>>} : Front(p) \in V
  /\ \A p \in DOMAIN source \ {<<>>} : Front(p) \in V /\ p \notin V => ToDo(o, p)

\* the same, but for what is in p
ReachedBut(o, V, p) ==
  /\ V \subseteq DOMAIN source /\ <<>> \in V
  /\ \A q \in V \ {<<>>} : Front(q) \in V
  /\ \A q \in DOMAIN source \ {<<>>} :
       Front(q) \in V /\ q \notin V => Front(q) = p \/ ToDo(o, q)

At == IF open = <<>> THEN <<>> ELSE Here.at

Progress(V, e) ==
  OpenOK(open, V) /\ Reached(open, V) /\ Meaning(sent) = State(At, e, Part(V))

WriterInv ==
  /\ source \in Sources
  /\ sent \in Seq(Units)
  /\ sent = <<>> => open = <<>>
  /\ sent # <<>> => \E V, e : Progress(V, e)

LEMMA HeaderUnit ==
  ASSUME NEW type \in Types, NEW d \in Nat
  PROVE  Header(type, d) \in Units
  BY DEF Header, Units, Contents

LEMMA BytesUnit ==
  ASSUME NEW n \in Names \cup {NoName}, NEW x \in Contents
  PROVE  Bytes(n, x) \in Units
  BY DEF Bytes, Units, Types

LEMMA PutPart ==
  ASSUME NEW V, NEW p
  PROVE  /\ Put(Part(V), p, source[p]) = Part(V \cup {p})
         /\ \A x : Put(Put(Part(V), p, x), p, source[p]) = Part(V \cup {p})
  BY DEF Put, Part

LEMMA SourceFacts ==
  ASSUME source \in Sources
  PROVE  /\ IsTree(source) /\ DOMAIN source \subseteq Seq(Names) /\ <<>> \in DOMAIN source
         /\ source[<<>>] = Dir /\ source = Part(DOMAIN source)
         /\ \A p \in DOMAIN source \ {<<>>} : Front(p) \in DOMAIN source /\ source[Front(p)] = Dir
  BY TreesAssumption DEF IsTree, Part

LEMMA MeaningEmpty == source \in Sources => Meaning(<<>>) = State(<<>>, <<>>, Part({<<>>}))
  <1>1. Len(<<>>) = 0 /\ Decoded(<<>>)[0] = Nothing
    BY DecodedIs
  <1> QED
    BY <1>1, SourceFacts DEF Meaning, Nothing, State, Part

\* what is known of the innermost open directory
LEMMA HereFacts ==
  ASSUME NEW V, OpenOK(open, V), open # <<>>
  PROVE  /\ Len(open) \in Nat /\ Len(open) >= 1 /\ Here = open[Len(open)]
         /\ Here.at \in Seq(Names) /\ Here.at \in V /\ Here.todo \subseteq Names
         /\ Len(Here.at) = Len(open) - 1 /\ At = Here.at
         /\ \A n \in Here.todo : Append(Here.at, n) \in DOMAIN source \ V
  <1>1. Len(open) \in Nat /\ Len(open) >= 1 /\ Len(open) \in 1..Len(open)
    BY DEF OpenOK
  <1>2. Here = open[Len(open)] /\ Here \in OpenFrame
    BY <1>1 DEF Here, Last, OpenOK
  <1> QED
    BY <1>1, <1>2 DEF OpenOK, OpenFrame, At

\* the transmission starts in the directory given with -p
LEMMA StartOpens ==
  ASSUME source \in Sources, NEW o, o = <<Opened(<<>>)>>
  PROVE  /\ OpenOK(o, {<<>>}) /\ Reached(o, {<<>>}) /\ o # <<>> /\ Last(o).at = <<>>
  <1> DEFINE f == [at |-> <<>>, todo |-> Inside(source, <<>>)]
             V == {<<>>}
  <1>1. f \in OpenFrame /\ \A n \in f.todo : Append(<<>>, n) \in DOMAIN source \ {<<>>}
    BY SourceFacts, InsideIs, PathFacts DEF OpenFrame
  <1>2. o = <<f>> /\ f.at = <<>>
    BY DEF Opened
  <1>3. o \in Seq(OpenFrame) /\ Len(o) = 1 /\ o[1] = f /\ Len(<<>>) = 0 /\ o # <<>>
    <2> HIDE DEF f
    <2> QED
      BY <1>1, <1>2
  <1>4. \A k \in 1..Len(o) :
          /\ Len(o[k].at) = k - 1 /\ o[k].at \in V
          /\ \A n \in o[k].todo : Append(o[k].at, n) \in DOMAIN source \ V
    <2>1. /\ Len(f.at) = 0 /\ f.at \in V
          /\ \A n \in f.todo : Append(f.at, n) \in DOMAIN source \ V
      BY <1>1, <1>2, <1>3
    <2>2. \A k \in 1..Len(o) : k = 1
      BY <1>3
    <2> HIDE DEF V, f
    <2> QED
      BY <1>3, <2>1, <2>2
  <1>5. \A k \in 2..Len(o) : Front(o[k].at) = o[k - 1].at
    BY <1>3
  <1>6. OpenOK(o, V)
    <2> HIDE DEF V, f
    <2> QED
      BY <1>3, <1>4, <1>5 DEF OpenOK
  <1>7. Reached(o, V)
    <2>1. ASSUME NEW p \in DOMAIN source \ {<<>>}, Front(p) \in V
          PROVE  Last(p) \in f.todo /\ f.at = Front(p)
      <3>1. p \in Seq(Names) /\ IsTree(source) /\ Front(p) = <<>>
        BY <2>1, SourceFacts
      <3> QED
        BY <3>1, PathParts, InsideIs
    <2> HIDE DEF f
    <2> QED
      BY <1>3, <2>1, SourceFacts DEF Reached, ToDo
  <1>8. Last(o).at = <<>>
    <2> HIDE DEF f
    <2> QED
      BY <1>2, <1>3 DEF Last
  <1> QED
    BY <1>3, <1>6, <1>7, <1>8

LEMMA StartInv ==
  ASSUME WriterInv, StartTransmission
  PROVE  WriterInv'
  <1> DEFINE u == Header("START_OF_TRANSMISSION", 0)
             v == Header("START_OF_DIRECTORY", 1)
             V == {<<>>}
  <1>1. /\ source \in Sources /\ sent = <<>> /\ sent' = <<u, v>> /\ open' = <<Opened(<<>>)>>
        /\ source' = source
    BY DEF WriterInv, StartTransmission
  <1>2. u \in Units /\ v \in Units
    BY HeaderUnit DEF Types
  <1>3. sent' = Append(Append(<<>>, u), v)
    BY <1>1
  <1>4. sent' \in Seq(Units) /\ Meaning(sent') = State(<<>>, <<>>, Part(V))
    <2>1. <<>> \in Seq(Units)
      OBVIOUS
    <2>2. Append(<<>>, u) \in Seq(Units) /\ Meaning(Append(<<>>, u)) = State(<<>>, <<>>, Part(V))
      <3>1. Meaning(<<>>) = State(<<>>, <<>>, Part(V))
        BY <1>1, MeaningEmpty
      <3>2. Decode(State(<<>>, <<>>, Part(V)), u) = State(<<>>, <<>>, Part(V))
        BY DecodeUnits
      <3> HIDE DEF u, V
      <3> QED
        BY <1>2, <2>1, <3>1, <3>2, MeaningAppend
    <2>3. Len(<<>>) + 1 = 1
      OBVIOUS
    <2>4. Decode(State(<<>>, <<>>, Part(V)), v) = State(<<>>, <<>>, Part(V))
      BY <2>3, DecodeUnits
    <2> HIDE DEF u, v, V
    <2> QED
      BY <1>2, <1>3, <2>2, <2>4, MeaningAppend
  <1>5. OpenOK(open', V) /\ Reached(open', V) /\ open' # <<>> /\ Last(open').at = <<>>
    BY <1>1, StartOpens
  <1>6. OpenOK(open, V)' /\ Reached(open, V)'
    BY <1>1, <1>5 DEF OpenOK, Reached, ToDo
  <1>7. At' = <<>>
    BY <1>5 DEF At, Here
  <1>8. Part(V)' = Part(V)
    BY <1>1 DEF Part
  <1>9. Progress(V, <<>>)'
    <2> HIDE DEF V, u, v
    <2> QED
      BY <1>4, <1>6, <1>7, <1>8 DEF Progress
  <1>10. Units' = Units /\ sent' # <<>>
    BY <1>1 DEF Units, Contents
  <1> HIDE DEF V, u, v
  <1> QED
    BY <1>1, <1>4, <1>9, <1>10 DEF WriterInv

\* what is left of the open directories when the innermost one has one entry less to do
Rest(o, name) == [o EXCEPT ![Len(o)].todo = @ \ {name}]

\* an entry of the innermost directory has been written
LEMMA RestOK ==
  ASSUME NEW V, OpenOK(open, V), Reached(open, V), open # <<>>, source \in Sources,
         NEW name \in Here.todo, NEW p, p = Append(Here.at, name),
         NEW rest, rest = Rest(open, name)
  PROVE  /\ OpenOK(rest, V \cup {p}) /\ ReachedBut(rest, V \cup {p}, p)
         /\ Len(rest) = Len(open) /\ Last(rest).at = Here.at
  <1> DEFINE d == Len(open)
             W == V \cup {p}
  <1>1. /\ d \in Nat /\ d >= 1 /\ Here = open[d] /\ Here.at \in Seq(Names) /\ Here.at \in V
        /\ Here.todo \subseteq Names /\ Len(Here.at) = d - 1
        /\ \A n \in Here.todo : Append(Here.at, n) \in DOMAIN source \ V
    BY HereFacts
  <1>2. /\ p \in DOMAIN source /\ p \notin V /\ p # <<>> /\ Front(p) = Here.at
        /\ Last(p) = name /\ Len(p) = d /\ p \in Seq(Names)
    BY <1>1, PathFacts
  <1>3. open \in Seq(OpenFrame) /\ \A k \in 1..d : open[k] \in OpenFrame
    BY DEF OpenOK
  <1>4. /\ rest \in Seq(OpenFrame) /\ Len(rest) = d
        /\ \A k \in 1..d : rest[k].at = open[k].at
        /\ \A k \in 1..d : k # d => rest[k].todo = open[k].todo
        /\ rest[d].todo = Here.todo \ {name}
    BY <1>1, <1>3 DEF OpenFrame, Rest
  <1>5. OpenOK(rest, W)
    <2>1. ASSUME NEW k \in 1..Len(rest)
          PROVE  Len(rest[k].at) = k - 1 /\ rest[k].at \in W
      BY <1>4, <2>1 DEF OpenOK
    <2>2. ASSUME NEW k \in 1..Len(rest), NEW n \in rest[k].todo
          PROVE  Append(rest[k].at, n) \in DOMAIN source \ W
      <3>1. k \in 1..d /\ n \in open[k].todo /\ rest[k].at = open[k].at
        BY <1>1, <1>4, <2>2
      <3>2. Append(open[k].at, n) \in DOMAIN source \ V
        BY <3>1 DEF OpenOK
      <3>3. /\ n \in Names /\ open[k].at \in Seq(Names) /\ Len(open[k].at) = k - 1
        BY <3>1, <1>3 DEF OpenFrame, OpenOK
      <3>4. Append(open[k].at, n) # p
        <4>1. CASE k = d
          <5>1. n # name
            BY <1>4, <2>2, <4>1
          <5> QED
            BY <1>2, <3>3, <5>1, PathFacts
        <4>2. CASE k # d
          <5>1. Len(Append(open[k].at, n)) = k
            BY <3>1, <3>3, PathFacts
          <5> QED
            BY <1>2, <4>2, <5>1
        <4> QED
          BY <4>1, <4>2
      <3> QED
        BY <3>1, <3>2, <3>4
    <2>3. ASSUME NEW k \in 2..Len(rest) PROVE Front(rest[k].at) = rest[k - 1].at
      <3>1. k \in 2..d
        BY <1>4
      <3>2. k \in 1..d /\ k - 1 \in 1..d
        <4> HIDE DEF d
        <4> QED
          BY <1>1, <3>1
      <3>3. Front(open[k].at) = open[k - 1].at
        BY <3>1 DEF OpenOK
      <3> QED
        BY <1>4, <3>2, <3>3
    <2> HIDE DEF W
    <2> QED
      BY <1>4, <2>1, <2>2, <2>3 DEF OpenOK
  <1>6. Last(rest).at = Here.at
    <2>0. Len(rest) = d /\ Last(rest) = rest[Len(rest)]
      BY <1>4 DEF Last
    <2>1. Last(rest) = rest[d]
      BY <2>0, Zenon
    <2>2. d \in 1..d
      BY <1>1
    <2>3. rest[d].at = open[d].at
      BY <1>4, <2>2
    <2> QED
      BY <1>1, <2>1, <2>3
  <1>7. W \subseteq DOMAIN source /\ <<>> \in W /\ \A q \in W \ {<<>>} : Front(q) \in W
    BY <1>1, <1>2 DEF Reached
  <1>8. ASSUME NEW q \in DOMAIN source \ {<<>>}, Front(q) \in W, q \notin W, Front(q) # p
        PROVE  ToDo(rest, q)
    <2>1. PICK k \in 1..d : open[k].at = Front(q) /\ Last(q) \in open[k].todo
      BY <1>8 DEF Reached, ToDo
    <2>2. q \in Seq(Names) /\ q # <<>>
      BY <1>8, SourceFacts
    <2>3. CASE k = d
      <3>1. Last(q) # name
        BY <1>1, <1>2, <1>8, <2>1, <2>2, <2>3, PathParts
      <3> QED
        BY <1>1, <1>4, <2>1, <2>3, <3>1 DEF ToDo
    <2>4. CASE k # d
      BY <1>4, <2>1, <2>4 DEF ToDo
    <2> QED
      BY <2>3, <2>4
  <1> HIDE DEF W
  <1>9. /\ OpenOK(rest, W) /\ Len(rest) = d /\ Last(rest).at = Here.at
        /\ ReachedBut(rest, W, p)
    BY <1>4, <1>5, <1>6, <1>7, <1>8 DEF ReachedBut
  <1> QED
    BY <1>9 DEF W

\* a directory is opened in the innermost one
LEMMA PushOK ==
  ASSUME source \in Sources, NEW W, NEW o, OpenOK(o, W), NEW p \in DOMAIN source,
         p # <<>>, p \in W, Len(p) = Len(o), o # <<>>, Front(p) = Last(o).at,
         ReachedBut(o, W, p), \A q \in W \ {<<>>} : Front(q) # p
  PROVE  /\ OpenOK(Append(o, Opened(p)), W) /\ Reached(Append(o, Opened(p)), W)
         /\ Last(Append(o, Opened(p))).at = p
  <1> DEFINE t == Append(o, Opened(p))
             f == [at |-> p, todo |-> Inside(source, p)]
             d == Len(o)
  <1>1. IsTree(source) /\ p \in Seq(Names) /\ t = Append(o, f)
    BY SourceFacts DEF Opened
  <1>2. /\ \A n \in f.todo : n \in Names /\ Append(p, n) \in DOMAIN source
        /\ \A n \in f.todo : Append(p, n) \notin W
    <2>1. \A n \in f.todo : n \in Names /\ Append(p, n) \in DOMAIN source
      BY <1>1, InsideIs
    <2>2. \A n \in f.todo : Append(p, n) # <<>> /\ Front(Append(p, n)) = p
      BY <1>1, <2>1, PathFacts
    <2> QED
      BY <2>1, <2>2
  <1>3. f \in OpenFrame /\ f.at = p
    BY <1>1, <1>2 DEF OpenFrame
  <1>4. o \in Seq(OpenFrame) /\ d \in Nat /\ d >= 1 /\ Last(o) = o[d]
    BY DEF OpenOK, Last
  <1> HIDE DEF f, t
  <1>5. /\ t \in Seq(OpenFrame) /\ Len(t) = d + 1 /\ t[d + 1] = f
        /\ \A k \in 1..d : t[k] = o[k]
    BY <1>1, <1>3, <1>4
  <1>6. OpenOK(t, W)
    <2>1. ASSUME NEW k \in 1..Len(t)
          PROVE  /\ Len(t[k].at) = k - 1 /\ t[k].at \in W
                 /\ \A n \in t[k].todo : Append(t[k].at, n) \in DOMAIN source \ W
      <3>1. CASE k \in 1..d
        BY <1>5, <3>1 DEF OpenOK
      <3>2. CASE k = d + 1
        BY <1>2, <1>3, <1>4, <1>5, <3>2
      <3> QED
        BY <1>4, <1>5, <3>1, <3>2
    <2>2. ASSUME NEW k \in 2..Len(t) PROVE Front(t[k].at) = t[k - 1].at
      <3>1. CASE k \in 2..d
        <4>1. k \in 1..d /\ k - 1 \in 1..d
          BY <1>4, <3>1
        <4> QED
          BY <1>5, <3>1, <4>1 DEF OpenOK
      <3>2. CASE k = d + 1
        BY <1>3, <1>4, <1>5, <3>2
      <3> QED
        BY <1>4, <1>5, <3>1, <3>2
    <2> QED
      BY <1>5, <2>1, <2>2 DEF OpenOK
  <1>7. ASSUME NEW q \in DOMAIN source \ {<<>>}, Front(q) \in W, q \notin W
        PROVE  ToDo(t, q)
    <2>1. CASE Front(q) = p
      <3>1. q \in Seq(Names)
        BY SourceFacts
      <3>2. Last(q) \in f.todo
        BY <1>1, <1>7, <2>1, <3>1, PathParts, InsideIs DEF f
      <3>3. d + 1 \in 1..Len(t)
        BY <1>4, <1>5
      <3> QED
        BY <1>3, <1>5, <2>1, <3>2, <3>3 DEF ToDo
    <2>2. CASE ToDo(o, q)
      <3> PICK k \in 1..d : o[k].at = Front(q) /\ Last(q) \in o[k].todo
        BY <2>2 DEF ToDo
      <3>1. k \in 1..Len(t) /\ t[k] = o[k]
        BY <1>4, <1>5
      <3> QED
        BY <3>1 DEF ToDo
    <2> QED
      BY <1>7, <2>1, <2>2 DEF ReachedBut
  <1>8. Reached(t, W)
    BY <1>7 DEF Reached, ReachedBut
  <1>9. Last(t).at = p
    BY <1>3, <1>4, <1>5 DEF Last
  <1> QED
    BY <1>6, <1>8, <1>9 DEF t

\* the name of an entry has been written
LEMMA EntrySent ==
  ASSUME NEW s \in Seq(Units), NEW a \in Seq(Names), NEW e, NEW t,
         Meaning(s) = State(a, e, t), NEW n \in Names, NEW x \in Contents,
         NEW d \in Nat, Len(a) = d - 1
  PROVE  /\ Append(Append(s, Header("DIRECTORY_ENTRY", d)), Bytes(n, x)) \in Seq(Units)
         /\ Meaning(Append(Append(s, Header("DIRECTORY_ENTRY", d)), Bytes(n, x)))
              = State(a, Append(a, n), Put(t, Append(a, n), x))
  <1> DEFINE h == Header("DIRECTORY_ENTRY", d)
             b == Bytes(n, x)
             u == Append(Append(s, h), b)
  <1>1. h \in Units /\ b \in Units
    BY HeaderUnit, BytesUnit DEF Types
  <1>2. Decode(State(a, e, t), h) = State(a, e, t)
    <2>1. d = Len(a) + 1
      OBVIOUS
    <2> QED
      BY <2>1, DecodeUnits
  <1>3. Decode(State(a, e, t), b) = State(a, Append(a, n), Put(t, Append(a, n), x))
    BY DecodeUnits, TreesAssumption
  <1>4. u = Append(Append(s, h), b)
    OBVIOUS
  <1> HIDE DEF h, b, u
  <1>5. Append(s, h) \in Seq(Units) /\ Meaning(Append(s, h)) = State(a, e, t)
    BY <1>1, <1>2, MeaningAppend
  <1>6. u \in Seq(Units) /\ Meaning(u) = State(a, Append(a, n), Put(t, Append(a, n), x))
    BY <1>1, <1>3, <1>4, <1>5, MeaningAppend
  <1> QED
    BY <1>6 DEF u, h, b

LEMMA Appends ==
  ASSUME NEW U, NEW s \in Seq(U), NEW u \in U, NEW v \in U
  PROVE  /\ s \o <<u>> = Append(s, u) /\ s \o <<u, v>> = Append(Append(s, u), v)
         /\ s \o <<>> = s
         /\ \A w \in U : (s \o <<u, v>>) \o <<w>> = Append(Append(Append(s, u), v), w)
         /\ \A w, x \in U : (s \o <<u, v>>) \o <<w, x>>
                              = Append(Append(Append(Append(s, u), v), w), x)
  <1>1. ASSUME NEW r \in Seq(U), NEW y \in U PROVE r \o <<y>> = Append(r, y)
    BY <1>1
  <1>2. ASSUME NEW r \in Seq(U), NEW y \in U, NEW z \in U
        PROVE  r \o <<y, z>> = Append(Append(r, y), z)
    BY <1>2
  <1>3. Append(s, u) \in Seq(U) /\ Append(Append(s, u), v) \in Seq(U)
    OBVIOUS
  <1>4. s \o <<>> = s
    OBVIOUS
  <1>5. s \o <<u, v>> = Append(Append(s, u), v)
    BY <1>2
  <1>6. ASSUME NEW w \in U
        PROVE  (s \o <<u, v>>) \o <<w>> = Append(Append(Append(s, u), v), w)
    BY <1>1, <1>3, <1>5
  <1>7. ASSUME NEW w \in U, NEW x \in U
        PROVE  (s \o <<u, v>>) \o <<w, x>> = Append(Append(Append(Append(s, u), v), w), x)
    BY <1>2, <1>3, <1>5
  <1> QED
    BY <1>1, <1>4, <1>5, <1>6, <1>7

LEMMA AppendSome ==
  ASSUME NEW U, NEW s \in Seq(U), NEW u
  PROVE  Append(s, u) # <<>>
  <1>1. s \in Seq(U \cup {u}) /\ u \in U \cup {u}
    OBVIOUS
  <1>2. Len(Append(s, u)) = Len(s) + 1 /\ Len(s) \in Nat /\ Len(<<>>) = 0
    BY <1>1
  <1> QED
    BY <1>2

\* an entry is a directory, which is opened, or a file
LEMMA PushOrNot ==
  ASSUME source \in Sources, NEW V, Reached(open, V), NEW p \in DOMAIN source, p # <<>>, p \notin V,
         p \in Seq(Names),
         NEW W, W \subseteq V \cup {p}, p \in W, NEW rest, rest # <<>>, OpenOK(rest, W),
         Len(rest) = Len(p), Last(rest).at = Front(p), ReachedBut(rest, W, p),
         \/ source[p] = Dir /\ open' = Append(rest, Opened(p))
         \/ source[p] # Dir /\ open' = rest
  PROVE  /\ OpenOK(open', W) /\ Reached(open', W) /\ open' # <<>>
         /\ Last(open').at = IF source[p] = Dir THEN p ELSE Front(p)
  <1>1. CASE source[p] = Dir
    <2>1. open' = Append(rest, Opened(p))
      BY <1>1
    <2>2. \A q \in W \ {<<>>} : Front(q) # p
      <3> SUFFICES ASSUME NEW q \in W \ {<<>>}, Front(q) = p PROVE FALSE
        OBVIOUS
      <3>1. CASE q = p
        BY <3>1, PathParts
      <3>2. CASE q \in V
        BY <3>2 DEF Reached
      <3> QED
        BY <3>1, <3>2
    <2>3. /\ OpenOK(Append(rest, Opened(p)), W) /\ Reached(Append(rest, Opened(p)), W)
          /\ Last(Append(rest, Opened(p))).at = p
      BY <2>2, PushOK
    <2>4. Append(rest, Opened(p)) # <<>>
      BY AppendSome DEF OpenOK
    <2> QED
      BY <1>1, <2>1, <2>3, <2>4
  <1>2. CASE source[p] # Dir
    <2>1. Reached(rest, W)
      <3> SUFFICES ASSUME NEW q \in DOMAIN source \ {<<>>}, Front(q) = p PROVE FALSE
        BY DEF Reached, ReachedBut
      <3> QED
        BY <1>2, SourceFacts
    <2> QED
      BY <1>2, <2>1
  <1> QED
    BY <1>1, <1>2

\* an entry has been taken up: which directories are open
LEMMA EntryOpens ==
  ASSUME source \in Sources, NEW V, OpenOK(open, V), Reached(open, V), open # <<>>,
         NEW name \in Here.todo, Entry(name), NEW p, p = Append(Here.at, name)
  PROVE  /\ name \in Names /\ p \in DOMAIN source /\ p \notin V /\ p \in Seq(Names) /\ p # <<>>
         /\ Len(p) = Len(open) /\ Len(Here.at) = Len(open) - 1 /\ Front(p) = Here.at
         /\ Here.at \in Seq(Names) /\ Here.at \in V
         /\ OpenOK(open', V \cup {p}) /\ Reached(open', V \cup {p}) /\ open' # <<>>
         /\ Last(open').at = IF source[p] = Dir THEN p ELSE Here.at
  <1>3. PICK a, d : a = Here.at /\ d = Len(open)
    OBVIOUS
  <1>4. PICK W : W = V \cup {p}
    OBVIOUS
  <1>5. PICK rest : rest = Rest(open, name)
    OBVIOUS
  <1>7. /\ d \in Nat /\ d >= 1 /\ a \in Seq(Names) /\ a \in V /\ name \in Names
        /\ Len(a) = d - 1 /\ p \in DOMAIN source /\ p \notin V
    BY <1>3, HereFacts
  <1>8. p \in Seq(Names) /\ p # <<>> /\ Len(p) = d /\ Front(p) = a /\ Len(a) + 1 = d
    BY <1>3, <1>7, PathFacts
  <1>9. /\ OpenOK(rest, W) /\ Len(rest) = d /\ Last(rest).at = a
        /\ ReachedBut(rest, W, p)
    <2>2. /\ OpenOK(rest, V \cup {p}) /\ ReachedBut(rest, V \cup {p}, p)
          /\ Len(rest) = Len(open) /\ Last(rest).at = Here.at
      BY <1>5, RestOK
    <2> QED
      BY <1>3, <1>4, <2>2
  <1>11. rest # <<>>
    BY <1>7, <1>9
  <1>12. \/ source[p] = Dir /\ open' = Append(rest, Opened(p))
         \/ source[p] # Dir /\ open' = rest
    BY <1>3, <1>5 DEF Entry, Rest
  <1>13. /\ OpenOK(open', W) /\ Reached(open', W) /\ open' # <<>>
         /\ Last(open').at = IF source[p] = Dir THEN p ELSE a
    <2>1. /\ W \subseteq V \cup {p} /\ p \in W /\ Len(rest) = Len(p) /\ Last(rest).at = Front(p)
          /\ p \notin V /\ p # <<>>
      BY <1>4, <1>7, <1>8, <1>9
    <2> QED
      BY <1>8, <1>7, <1>9, <1>11, <1>12, <2>1, PushOrNot
  <1> QED
    BY <1>3, <1>4, <1>7, <1>8, <1>13

\* an entry has been taken up: which units are sent
LEMMA EntrySends ==
  ASSUME source \in Sources, sent \in Seq(Units), NEW name \in Names, Entry(name),
         NEW p \in DOMAIN source, p = Append(Here.at, name), NEW d \in Nat, d = Len(open)
  PROVE  /\ Header("DIRECTORY_ENTRY", d) \in Units /\ Header("START_OF_DIRECTORY", d + 1) \in Units
         /\ Header("FILE_DATA", d) \in Units /\ Bytes(NoName, source[p]) \in Units
         /\ Bytes(name, Dir) \in Units /\ Bytes(name, 0) \in Units
         /\ Dir \in Contents /\ 0 \in Contents
         /\ source[p] = Dir =>
              sent' = Append(Append(Append(sent, Header("DIRECTORY_ENTRY", d)), Bytes(name, Dir)),
                             Header("START_OF_DIRECTORY", d + 1))
         /\ source[p] # Dir /\ source[p] = 0 =>
              sent' = Append(Append(sent, Header("DIRECTORY_ENTRY", d)), Bytes(name, 0))
         /\ source[p] # Dir /\ source[p] # 0 =>
              sent' = Append(Append(Append(Append(sent, Header("DIRECTORY_ENTRY", d)),
                                           Bytes(name, 0)),
                                    Header("FILE_DATA", d)),
                             Bytes(NoName, source[p]))
  <1> DEFINE h == Header("DIRECTORY_ENTRY", d)
             entry(x) == <<h, Bytes(name, x)>>
             start == Header("START_OF_DIRECTORY", d + 1)
             fd == Header("FILE_DATA", d)
             fb == Bytes(NoName, source[p])
  <1>1. /\ h \in Units /\ start \in Units /\ fd \in Units /\ fb \in Units
        /\ Dir \in Contents /\ 0 \in Contents
        /\ Bytes(name, Dir) \in Units /\ Bytes(name, 0) \in Units
    <2>1. d + 1 \in Nat /\ source[p] \in Contents /\ Dir \in Contents /\ 0 \in Contents
      BY DEF Contents
    <2> QED
      BY <2>1, HeaderUnit, BytesUnit DEF Types
  <1>2. \/ source[p] = Dir /\ sent' = sent \o entry(Dir) \o <<start>>
        \/ source[p] # Dir /\ sent' = sent \o entry(0) \o FileData(d, source[p])
    BY DEF Entry, Directory
  <1>3. FileData(d, source[p]) = IF source[p] = 0 THEN <<>> ELSE <<fd, fb>>
    BY DEF FileData
  <1> HIDE DEF h, start, fd, fb
  <1>4. source[p] = Dir => sent' = Append(Append(Append(sent, h), Bytes(name, Dir)), start)
    BY <1>1, <1>2, Appends
  <1>5. source[p] # Dir /\ source[p] = 0 =>
          sent' = Append(Append(sent, h), Bytes(name, 0))
    <2> SUFFICES ASSUME source[p] # Dir, source[p] = 0
                 PROVE  sent' = Append(Append(sent, h), Bytes(name, 0))
      OBVIOUS
    <2>1. sent' = sent \o <<h, Bytes(name, 0)>> \o <<>>
      BY <1>2, <1>3
    <2> QED
      BY <1>1, <2>1, Appends
  <1>6. source[p] # Dir /\ source[p] # 0 =>
          sent' = Append(Append(Append(Append(sent, h), Bytes(name, 0)), fd), fb)
    <2> SUFFICES ASSUME source[p] # Dir, source[p] # 0
                 PROVE  sent' = Append(Append(Append(Append(sent, h), Bytes(name, 0)), fd), fb)
      OBVIOUS
    <2>1. sent' = sent \o <<h, Bytes(name, 0)>> \o <<fd, fb>>
      BY <1>2, <1>3
    <2> QED
      BY <1>1, <2>1, Appends
  <1> QED
    BY <1>1, <1>4, <1>5, <1>6 DEF h, start, fd, fb

\* one turn of the writer's loop
LEMMA EntryInv ==
  ASSUME WriterInv, open # <<>>, NEW name \in Here.todo, Entry(name)
  PROVE  WriterInv'
  <1>1. /\ source \in Sources /\ sent \in Seq(Units) /\ sent # <<>> /\ source' = source
        /\ Len(sent) \in Nat
    BY DEF WriterInv, Entry
  <1>2. PICK V, e : Progress(V, e)
    BY <1>1 DEF WriterInv
  <1>3. PICK a, d, p : a = Here.at /\ d = Len(open) /\ p = Append(Here.at, name)
    OBVIOUS
  <1>4. PICK W : W = V \cup {p}
    OBVIOUS
  <1>5. /\ OpenOK(open, V) /\ Reached(open, V) /\ Meaning(sent) = State(a, e, Part(V))
    BY <1>2, <1>3, HereFacts DEF Progress
  <1>6. /\ name \in Names /\ p \in DOMAIN source /\ p \notin V /\ p \in Seq(Names) /\ p # <<>>
        /\ Len(p) = d /\ Len(a) = d - 1 /\ Front(p) = a /\ a \in Seq(Names) /\ p = Append(a, name)
        /\ OpenOK(open', W) /\ Reached(open', W) /\ open' # <<>>
        /\ Last(open').at = IF source[p] = Dir THEN p ELSE a
    <2>1. /\ name \in Names /\ p \in DOMAIN source /\ p \notin V /\ p \in Seq(Names) /\ p # <<>>
          /\ Len(p) = Len(open) /\ Len(Here.at) = Len(open) - 1 /\ Front(p) = Here.at
          /\ Here.at \in Seq(Names)
          /\ OpenOK(open', V \cup {p}) /\ Reached(open', V \cup {p}) /\ open' # <<>>
          /\ Last(open').at = IF source[p] = Dir THEN p ELSE Here.at
      BY <1>1, <1>3, <1>5, EntryOpens
    <2> QED
      BY <1>3, <1>4, <2>1
  <1>7. d \in Nat /\ Len(a) + 1 = d /\ Len(p) + 1 = d + 1
    BY <1>6
  <1> DEFINE h == Header("DIRECTORY_ENTRY", d)
             start == Header("START_OF_DIRECTORY", d + 1)
             fd == Header("FILE_DATA", d)
             fb == Bytes(NoName, source[p])
             t == Put(Part(V), p, 0)
  <1>8. /\ h \in Units /\ start \in Units /\ fd \in Units /\ fb \in Units
        /\ Dir \in Contents /\ 0 \in Contents
        /\ source[p] = Dir => sent' = Append(Append(Append(sent, h), Bytes(name, Dir)), start)
        /\ source[p] # Dir /\ source[p] = 0 => sent' = Append(Append(sent, h), Bytes(name, 0))
        /\ source[p] # Dir /\ source[p] # 0 =>
             sent' = Append(Append(Append(Append(sent, h), Bytes(name, 0)), fd), fb)
    BY <1>1, <1>3, <1>6, <1>7, EntrySends
  <1>9. \A x \in Contents :
          /\ Append(Append(sent, h), Bytes(name, x)) \in Seq(Units)
          /\ Meaning(Append(Append(sent, h), Bytes(name, x))) = State(a, p, Put(Part(V), p, x))
    <2> SUFFICES ASSUME NEW x \in Contents
                 PROVE  /\ Append(Append(sent, h), Bytes(name, x)) \in Seq(Units)
                        /\ Meaning(Append(Append(sent, h), Bytes(name, x)))
                             = State(a, p, Put(Part(V), p, x))
      OBVIOUS
    <2>1. /\ Append(Append(sent, h), Bytes(name, x)) \in Seq(Units)
          /\ Meaning(Append(Append(sent, h), Bytes(name, x)))
               = State(a, Append(a, name), Put(Part(V), Append(a, name), x))
      BY <1>1, <1>5, <1>6, <1>7, EntrySent
    <2> QED
      BY <1>6, <2>1
  <1>10. Put(Part(V), p, source[p]) = Part(W) /\ Put(t, p, source[p]) = Part(W)
    BY <1>4, PutPart
  <1>11. /\ Decode(State(a, p, Part(W)), start) = State(p, p, Part(W))
         /\ Decode(State(a, p, t), fd) = State(a, p, t)
         /\ Decode(State(a, p, t), fb) = State(a, p, Part(W))
    <2>1. Decode(State(a, p, Part(W)), Header("START_OF_DIRECTORY", Len(p) + 1))
            = State(p, p, Part(W))
      BY DecodeUnits
    <2>2. Decode(State(a, p, t), fb) = State(a, p, Put(t, p, source[p]))
      BY DecodeUnits
    <2> HIDE DEF t
    <2>3. Decode(State(a, p, t), Header("FILE_DATA", Len(a) + 1)) = State(a, p, t)
      BY DecodeUnits
    <2> QED
      BY <1>7, <1>10, <2>1, <2>2, <2>3
  <1> HIDE DEF h, start, fd, fb
  <1>12. sent' \in Seq(Units) /\ Meaning(sent') = State(IF source[p] = Dir THEN p ELSE a, p, Part(W))
    <2>1. CASE source[p] = Dir
      <3>1. sent' \in Seq(Units) /\ Meaning(sent') = State(p, p, Part(W))
        BY <1>8, <1>9, <1>10, <1>11, <2>1, MeaningAppend, ZenonT(40)
      <3> QED
        BY <2>1, <3>1
    <2>2. CASE source[p] # Dir /\ source[p] = 0
      <3>1. sent' \in Seq(Units) /\ Meaning(sent') = State(a, p, Part(W))
        BY <1>8, <1>9, <1>10, <2>2
      <3> QED
        BY <2>2, <3>1
    <2>3. CASE source[p] # Dir /\ source[p] # 0
      <3> DEFINE s == Append(Append(sent, h), Bytes(name, 0))
      <3>1. s \in Seq(Units) /\ Meaning(s) = State(a, p, t)
        BY <1>8, <1>9
      <3>2. sent' = Append(Append(s, fd), fb)
        BY <1>8, <2>3
      <3> HIDE DEF s, t
      <3>3. Append(s, fd) \in Seq(Units) /\ Meaning(Append(s, fd)) = State(a, p, t)
        BY <1>8, <1>11, <3>1, MeaningAppend
      <3>4. sent' \in Seq(Units) /\ Meaning(sent') = State(a, p, Part(W))
        BY <1>8, <1>11, <3>2, <3>3, MeaningAppend
      <3> QED
        BY <2>3, <3>4
    <2> QED
      BY <2>1, <2>2, <2>3
  <1>13. sent' # <<>>
    <2>1. \A s \in Seq(Units), u \in Units : Append(s, u) # <<>> /\ Append(s, u) \in Seq(Units)
      BY AppendSome
    <2>2. Append(sent, h) \in Seq(Units)
      BY <1>1, <1>8, <2>1
    <2>3. \A x \in Contents : Append(Append(sent, h), Bytes(name, x)) # <<>>
      BY <1>6, <2>1, <2>2, BytesUnit
    <2>4. \A x \in Contents, u \in Units :
            Append(Append(Append(sent, h), Bytes(name, x)), u) # <<>>
      BY <1>9, <2>1
    <2>5. \A x \in Contents, u, v \in Units :
            Append(Append(Append(Append(sent, h), Bytes(name, x)), u), v) # <<>>
      BY <1>9, <2>1
    <2> QED
      BY <1>8, <2>3, <2>4, <2>5
  <1>14. Part(W)' = Part(W) /\ Units' = Units
    BY <1>1 DEF Part, Units, Contents
  <1>15. OpenOK(open, W)' /\ Reached(open, W)'
    BY <1>1, <1>6 DEF OpenOK, Reached, ToDo
  <1>16. At' = IF source[p] = Dir THEN p ELSE a
    BY <1>6 DEF At, Here
  <1>17. Progress(W, p)'
    BY <1>12, <1>14, <1>15, <1>16 DEF Progress
  <1> QED
    BY <1>1, <1>12, <1>13, <1>14, <1>17 DEF WriterInv

LEMMA FrontOf ==
  ASSUME NEW U, NEW s \in Seq(U), s # <<>>
  PROVE  /\ Front(s) \in Seq(U) /\ Len(Front(s)) = Len(s) - 1 /\ Len(s) \in Nat /\ Len(s) >= 1
         /\ \A i \in 1..Len(s) - 1 : Front(s)[i] = s[i]
  <1> DEFINE f == [i \in 1..Len(s) - 1 |-> s[i]]
  <1>1. Len(s) \in Nat /\ Len(s) >= 1 /\ Len(s) - 1 \in Nat
    OBVIOUS
  <1>2. f \in [1..Len(s) - 1 -> U] /\ \A i \in 1..Len(s) - 1 : f[i] = s[i]
    BY <1>1
  <1>3. Front(s) = f
    BY <1>1 DEF Front
  <1>4. f \in Seq(U) /\ Len(f) = Len(s) - 1
    <2> HIDE DEF f
    <2> QED
      BY <1>1, <1>2
  <1> HIDE DEF f
  <1> QED
    BY <1>1, <1>2, <1>3, <1>4

\* a directory is at its end: which directories are open
LEMMA EndOpens ==
  ASSUME source \in Sources, NEW V, OpenOK(open, V), Reached(open, V), EndDirectory
  PROVE  /\ Len(open) \in Nat /\ Len(Here.at) = Len(open) - 1
         /\ Here.at \in Seq(Names) /\ Here.at \in V
         /\ OpenOK(open', V) /\ Reached(open', V)
         /\ open' = <<>> <=> Here.at = <<>>
         /\ open' # <<>> => Last(open').at = Front(Here.at)
         /\ Len(open) = 1 <=> Here.at = <<>>
  <1>1. open # <<>> /\ Here.todo = {} /\ open' = Front(open)
    BY DEF EndDirectory
  <1>3. PICK a, d, rest : a = Here.at /\ d = Len(open) /\ rest = Front(open)
    OBVIOUS
  <1>5. /\ d \in Nat /\ d >= 1 /\ a \in Seq(Names) /\ a \in V /\ Len(a) = d - 1
        /\ open[d].at = a /\ open[d].todo = {}
    BY <1>1, <1>3, HereFacts
  <1>6. /\ rest \in Seq(OpenFrame) /\ Len(rest) = d - 1
        /\ \A k \in 1..d - 1 : rest[k] = open[k]
    BY <1>1, <1>3, FrontOf DEF OpenOK
  <1>7. OpenOK(rest, V)
    <2>1. ASSUME NEW k \in 1..Len(rest)
          PROVE  /\ Len(rest[k].at) = k - 1 /\ rest[k].at \in V
                 /\ \A n \in rest[k].todo : Append(rest[k].at, n) \in DOMAIN source \ V
      <3>1. k \in 1..Len(open) /\ rest[k] = open[k]
        BY <1>3, <1>5, <1>6
      <3> QED
        BY <3>1 DEF OpenOK
    <2>2. ASSUME NEW k \in 2..Len(rest) PROVE Front(rest[k].at) = rest[k - 1].at
      <3>1. k \in 2..Len(open) /\ rest[k] = open[k]
        BY <1>3, <1>5, <1>6
      <3>2. k - 1 \in 1..d - 1
        BY <1>5, <1>6
      <3>3. rest[k - 1] = open[k - 1]
        BY <1>6, <3>2
      <3> QED
        BY <3>1, <3>3 DEF OpenOK
    <2> QED
      BY <1>6, <2>1, <2>2 DEF OpenOK
  <1>8. Reached(rest, V)
    <2> SUFFICES ASSUME NEW q, ToDo(open, q) PROVE ToDo(rest, q)
      BY DEF Reached
    <2> PICK k \in 1..Len(open) : open[k].at = Front(q) /\ Last(q) \in open[k].todo
      BY DEF ToDo
    <2>1. k # d
      BY <1>5
    <2>2. k \in 1..d - 1 /\ k \in 1..Len(rest)
      BY <1>3, <1>5, <1>6, <2>1
    <2>3. rest[k] = open[k]
      BY <1>6, <2>2
    <2> QED
      BY <2>2, <2>3 DEF ToDo
  <1>9. /\ rest = <<>> <=> a = <<>>
        /\ rest # <<>> => Last(rest).at = Front(a)
        /\ d = 1 <=> a = <<>>
    <2>1. CASE d = 1
      <3>1. a = <<>> /\ rest = <<>>
        BY <1>5, <1>6, <2>1
      <3> QED
        BY <2>1, <3>1
    <2>2. CASE d # 1
      <3>1. a # <<>> /\ rest # <<>>
        BY <1>5, <1>6, <2>2
      <3>2. d \in 2..Len(open) /\ d - 1 \in 1..d - 1
        BY <1>3, <1>5, <2>2
      <3>3. Last(rest) = rest[d - 1] /\ rest[d - 1] = open[d - 1]
        BY <1>6, <3>2 DEF Last
      <3>4. Front(open[d].at) = open[d - 1].at
        BY <3>2 DEF OpenOK
      <3> QED
        BY <1>5, <2>2, <3>1, <3>3, <3>4
    <2> QED
      BY <2>1, <2>2
  <1>10. open' = rest
    BY <1>1, <1>3
  <1> QED
    BY <1>3, <1>5, <1>7, <1>8, <1>9, <1>10

\* a directory is at its end: which units are sent
LEMMA EndSends ==
  ASSUME sent \in Seq(Units), EndDirectory, Len(open) \in Nat
  PROVE  /\ Header("END_OF_DIRECTORY", Len(open)) \in Units
         /\ Header("END_OF_TRANSMISSION", 0) \in Units
         /\ Len(open) # 1 => sent' = Append(sent, Header("END_OF_DIRECTORY", Len(open)))
         /\ Len(open) = 1 => sent' = Append(Append(sent, Header("END_OF_DIRECTORY", Len(open))),
                                            Header("END_OF_TRANSMISSION", 0))
  <1> DEFINE h == Header("END_OF_DIRECTORY", Len(open))
             x == Header("END_OF_TRANSMISSION", 0)
             s == Append(sent, h)
  <1>1. h \in Units /\ x \in Units
    BY HeaderUnit DEF Types
  <1>2. sent' = s \o IF Len(open) = 1 THEN <<x>> ELSE <<>>
    BY DEF EndDirectory
  <1> HIDE DEF h, x
  <1>3. s \in Seq(Units)
    BY <1>1
  <1> HIDE DEF s
  <1>4. s \o <<x>> = Append(s, x) /\ s \o <<>> = s
    BY <1>1, <1>3, Appends
  <1>5. IF Len(open) = 1 THEN sent' = Append(s, x) ELSE sent' = s
    BY <1>2, <1>4
  <1> QED
    BY <1>1, <1>5 DEF s, h, x

\* the innermost directory is at its end
LEMMA EndInv ==
  ASSUME WriterInv, EndDirectory
  PROVE  WriterInv'
  <1>1. /\ source \in Sources /\ sent \in Seq(Units) /\ sent # <<>> /\ source' = source
        /\ open # <<>>
    BY DEF WriterInv, EndDirectory
  <1>2. PICK V, e : Progress(V, e)
    BY <1>1 DEF WriterInv
  <1>3. PICK a, d : a = Here.at /\ d = Len(open)
    OBVIOUS
  <1> DEFINE h == Header("END_OF_DIRECTORY", d)
             x == Header("END_OF_TRANSMISSION", 0)
             up == IF a = <<>> THEN a ELSE Front(a)
  <1>4. /\ OpenOK(open, V) /\ Reached(open, V) /\ Meaning(sent) = State(a, e, Part(V))
    BY <1>1, <1>2, <1>3, HereFacts DEF Progress
  <1>5. /\ d \in Nat /\ a \in Seq(Names) /\ Len(a) = d - 1
        /\ OpenOK(open', V) /\ Reached(open', V)
        /\ open' = <<>> <=> a = <<>>
        /\ open' # <<>> => Last(open').at = Front(a)
    BY <1>1, <1>3, <1>4, EndOpens
  <1>6. At' = up
    BY <1>5 DEF At, Here
  <1>7. /\ h \in Units /\ x \in Units
        /\ d # 1 => sent' = Append(sent, h)
        /\ d = 1 => sent' = Append(Append(sent, h), x)
    BY <1>1, <1>3, <1>5, EndSends
  <1>8. Append(sent, h) \in Seq(Units) /\ Meaning(Append(sent, h)) = State(up, e, Part(V))
    <2>1. Decode(State(a, e, Part(V)), Header("END_OF_DIRECTORY", Len(a) + 1)) = State(up, e, Part(V))
      BY DecodeUnits
    <2>2. Len(a) + 1 = d
      BY <1>5
    <2>3. Decode(State(a, e, Part(V)), h) = State(up, e, Part(V))
      BY <2>1, <2>2
    <2> HIDE DEF h, up
    <2> QED
      BY <1>1, <1>4, <1>7, <2>3, MeaningAppend
  <1>9. sent' \in Seq(Units) /\ sent' # <<>> /\ Meaning(sent') = State(up, e, Part(V))
    <2>1. Decode(State(up, e, Part(V)), x) = State(up, e, Part(V))
      BY DecodeUnits
    <2> HIDE DEF h, x, up
    <2>2. /\ Append(Append(sent, h), x) \in Seq(Units)
          /\ Meaning(Append(Append(sent, h), x)) = State(up, e, Part(V))
      BY <1>7, <1>8, <2>1, MeaningAppend
    <2>3. Append(sent, h) # <<>> /\ Append(Append(sent, h), x) # <<>>
      BY <1>1, <1>8, AppendSome
    <2> QED
      BY <1>7, <1>8, <2>2, <2>3
  <1> HIDE DEF h, x, up
  <1>10. Part(V)' = Part(V) /\ Units' = Units
    BY <1>1 DEF Part, Units, Contents
  <1>11. OpenOK(open, V)' /\ Reached(open, V)'
    BY <1>1, <1>5 DEF OpenOK, Reached, ToDo
  <1>12. Progress(V, e)'
    BY <1>6, <1>9, <1>10, <1>11 DEF Progress
  <1> QED
    BY <1>1, <1>9, <1>10, <1>12 DEF WriterInv

\* the reader writes nothing
LEMMA WriterAlone ==
  ASSUME WriterInv, UNCHANGED writer
  PROVE  WriterInv'
  <1>1. source' = source /\ sent' = sent /\ open' = open
    BY DEF writer
  <1>2. ASSUME NEW V, NEW e, Progress(V, e) PROVE Progress(V, e)'
    <2>1. At' = At /\ Part(V)' = Part(V)
      BY <1>1 DEF At, Here, Part
    <2>2. OpenOK(open, V)' /\ Reached(open, V)'
      BY <1>1, <1>2 DEF Progress, OpenOK, Reached, ToDo
    <2> QED
      BY <1>1, <1>2, <2>1, <2>2 DEF Progress
  <1>3. Units' = Units
    BY <1>1 DEF Units, Contents
  <1>4. sent # <<>> => \E V, e : Progress(V, e)'
    BY <1>2 DEF WriterInv
  <1> QED
    BY <1>1, <1>3, <1>4 DEF WriterInv

THEOREM TransplantWriter == Spec => []WriterInv
  <1>1. Init => WriterInv
    BY DEF Init, WriterInv
  <1>2. WriterInv /\ [Next]_vars => WriterInv'
    <2> SUFFICES ASSUME WriterInv, [Next]_vars PROVE WriterInv'
      OBVIOUS
    <2>1. CASE StartTransmission
      BY <2>1, StartInv
    <2>2. CASE EndDirectory
      BY <2>2, EndInv
    <2>3. ASSUME NEW name \in Here.todo, open # <<>>, Entry(name) PROVE WriterInv'
      BY <2>3, EntryInv
    <2>4. CASE UNCHANGED writer
      BY <2>4, WriterAlone
    <2> QED
      BY <2>1, <2>2, <2>3, <2>4 DEF Next, vars
  <1> QED
    BY <1>1, <1>2, PTL DEF Spec

\* When no directory is open the whole tree has been written.
LEMMA AllWritten ==
  ASSUME source \in Sources, NEW V, Reached(<<>>, V)
  PROVE  V = DOMAIN source
  <1> DEFINE P(n) == \A p \in DOMAIN source : Len(p) = n => p \in V
             T == {n \in Nat : P(n)}
  <1>1. DOMAIN source \subseteq Seq(Names) /\ V \subseteq DOMAIN source
    BY SourceFacts DEF Reached
  <1>2. 0 \in T
    <2> SUFFICES ASSUME NEW p \in DOMAIN source, Len(p) = 0 PROVE p \in V
      OBVIOUS
    <2>1. p = <<>>
      BY <1>1
    <2> QED
      BY <2>1 DEF Reached
  <1>3. \A n \in Nat : n \in T => n + 1 \in T
    <2> SUFFICES ASSUME NEW n \in Nat, P(n), NEW p \in DOMAIN source, Len(p) = n + 1 PROVE p \in V
      OBVIOUS
    <2>1. p \in Seq(Names) /\ p # <<>>
      BY <1>1
    <2>2. Front(p) \in DOMAIN source /\ Len(Front(p)) = n
      BY <2>1, SourceFacts, PathParts
    <2>3. Front(p) \in V
      BY <2>2
    <2>4. ~ToDo(<<>>, p)
      BY DEF ToDo
    <2> QED
      BY <2>1, <2>3, <2>4 DEF Reached
  <1>4. Nat \subseteq T
    <2> HIDE DEF T
    <2> QED
      BY <1>2, <1>3, SetInduction
  <1>5. ASSUME NEW p \in DOMAIN source PROVE p \in V
    <2>1. Len(p) \in T
      <3> HIDE DEF T
      <3> QED
        BY <1>1, <1>4
    <2> QED
      BY <2>1
  <1> QED
    BY <1>1, <1>5

\* Whatever the order of readdir, the stream describes the tree that was given,
\* each file under its path and with its data, and the depths of its records are
\* those include/transplant.h asks for.
THEOREM TransplantStreamDescribes == Spec => []StreamDescribes
  <1>1. WriterInv => StreamDescribes
    <2> SUFFICES ASSUME WriterInv, Written
                 PROVE  Meaning(sent).fits /\ Meaning(sent).tree = source
      BY DEF StreamDescribes, Meaning
    <2>1. open = <<>> /\ source \in Sources
      BY DEF Written, WriterInv
    <2>2. PICK V, e : Progress(V, e)
      BY DEF Written, WriterInv
    <2>3. V = DOMAIN source
      BY <2>1, <2>2, AllWritten DEF Progress
    <2>4. Meaning(sent) = State(At, e, source)
      BY <2>1, <2>2, <2>3, SourceFacts DEF Progress
    <2> QED
      BY <2>4 DEF State
  <1> QED
    BY <1>1, TransplantWriter, PTL

-----------------------------------------------------------------------------
(* The stream as the reader meets it.                                      *)

\* Between two records that deserialize_directory reads: the directory the writer was
\* in, and what it had written.
Place(at, made) == [at |-> at, made |-> made]
Sound(c) ==
  c.at \in Seq(Names) /\ c.at \in c.made /\ c.made \subseteq DOMAIN source /\ source[c.at] = Dir

\* S says which numbers of units of the stream s are such places.  After a place comes
\* one of these.
Named(s, S, n, name) ==
  /\ name \in Names
  /\ s[n + 1] = Header("DIRECTORY_ENTRY", Len(Append(S[n].at, name))) /\ s[n + 2].name = name
  /\ Append(S[n].at, name) \in DOMAIN source /\ Append(S[n].at, name) \notin S[n].made

DirEntry(s, S, n, name) ==
  /\ Named(s, S, n, name) /\ source[Append(S[n].at, name)] = Dir
  /\ n + 3 \in DOMAIN S /\ n + 3 <= Len(s)
  /\ s[n + 3] = Header("START_OF_DIRECTORY", Len(Append(S[n].at, name)) + 1)
  /\ S[n + 3] = Place(Append(S[n].at, name), S[n].made \cup {Append(S[n].at, name)})

FileEntry(s, S, n, name) ==
  /\ Named(s, S, n, name) /\ source[Append(S[n].at, name)] # Dir
  /\ n + 4 \in DOMAIN S /\ n + 4 <= Len(s)
  /\ s[n + 3] = Header("FILE_DATA", Len(Append(S[n].at, name)))
  /\ s[n + 4].data = source[Append(S[n].at, name)]
  /\ S[n + 4] = Place(S[n].at, S[n].made \cup {Append(S[n].at, name)})

EndOf(s, S, n) ==
  /\ S[n].at # <<>> /\ n + 1 \in DOMAIN S /\ n + 1 <= Len(s)
  /\ s[n + 1] = Header("END_OF_DIRECTORY", Len(S[n].at) + 1)
  /\ S[n + 1] = Place(Front(S[n].at), S[n].made)

LastEnd(s, S, n) ==
  /\ S[n].at = <<>> /\ n + 2 = Len(s)
  /\ s[n + 1] = Header("END_OF_DIRECTORY", 1) /\ s[n + 2] = Header("END_OF_TRANSMISSION", 0)
  /\ S[n].made = DOMAIN source

Group(s, S, n) ==
  \/ \E name : DirEntry(s, S, n, name) \/ FileEntry(s, S, n, name)
  \/ EndOf(s, S, n)

\* what the writer, with the directories o open and the paths V written, has sent
Script(s, o, S, V) ==
  /\ DOMAIN S \subseteq 2..Len(s) /\ 2 \in DOMAIN S /\ S[2] = Place(<<>>, {<<>>})
  /\ s[1] = Header("START_OF_TRANSMISSION", 0) /\ s[2] = Header("START_OF_DIRECTORY", 1)
  /\ \A n \in DOMAIN S : Sound(S[n])
  /\ o = <<>> => Len(s) \notin DOMAIN S
  /\ o # <<>> => Len(s) \in DOMAIN S /\ S[Len(s)] = Place(Last(o).at, V)
  /\ \A n \in DOMAIN S : n < Len(s) => Group(s, S, n) \/ (o = <<>> /\ LastEnd(s, S, n))

More(s, t) == Len(s) <= Len(t) /\ \A i \in 1..Len(s) : t[i] = s[i]
Larger(S, T) == DOMAIN S \subseteq DOMAIN T /\ \A n \in DOMAIN S : T[n] = S[n]
With(S, m, c) == [n \in DOMAIN S \cup {m} |-> IF n = m THEN c ELSE S[n]]

LEMMA GroupStays ==
  ASSUME NEW s, NEW t, NEW S, NEW T, Len(s) \in Nat, Len(t) \in Nat, NEW n \in DOMAIN S, n \in Nat,
         More(s, t), Larger(S, T)
  PROVE  /\ \A name : DirEntry(s, S, n, name) => DirEntry(t, T, n, name)
         /\ \A name : FileEntry(s, S, n, name) => FileEntry(t, T, n, name)
         /\ Group(s, S, n) => Group(t, T, n)
  <1>1. T[n] = S[n] /\ \A m \in DOMAIN S : m \in DOMAIN T /\ T[m] = S[m]
    BY DEF Larger
  <1>2. \A i \in 1..Len(s) : t[i] = s[i]
    BY DEF More
  <1>3. \A m \in Nat : m <= Len(s) => m <= Len(t)
    BY DEF More
  <1>4. ASSUME NEW name, Named(s, S, n, name), n + 2 <= Len(s) PROVE Named(t, T, n, name)
    <2>1. n + 1 \in 1..Len(s) /\ n + 2 \in 1..Len(s)
      BY <1>4
    <2>2. t[n + 1] = s[n + 1] /\ t[n + 2] = s[n + 2]
      BY <1>2, <2>1
    <2> QED
      BY <1>1, <1>4, <2>2 DEF Named
  <1>5. ASSUME NEW name, DirEntry(s, S, n, name) PROVE DirEntry(t, T, n, name)
    <2>1. n + 2 <= Len(s) /\ n + 3 \in 1..Len(s) /\ n + 3 <= Len(t)
      BY <1>3, <1>5 DEF DirEntry
    <2>2. t[n + 3] = s[n + 3] /\ Named(t, T, n, name)
      BY <1>2, <1>4, <1>5, <2>1 DEF DirEntry
    <2>3. T[n + 3] = S[n + 3] /\ n + 3 \in DOMAIN T
      BY <1>1, <1>5 DEF DirEntry
    <2> QED
      BY <1>1, <1>5, <2>1, <2>2, <2>3 DEF DirEntry
  <1>6. ASSUME NEW name, FileEntry(s, S, n, name) PROVE FileEntry(t, T, n, name)
    <2>1. n + 2 <= Len(s) /\ n + 3 \in 1..Len(s) /\ n + 4 \in 1..Len(s) /\ n + 4 <= Len(t)
      BY <1>3, <1>6 DEF FileEntry
    <2>2. t[n + 3] = s[n + 3] /\ t[n + 4] = s[n + 4] /\ Named(t, T, n, name)
      BY <1>2, <1>4, <1>6, <2>1 DEF FileEntry
    <2>3. T[n + 4] = S[n + 4] /\ n + 4 \in DOMAIN T
      BY <1>1, <1>6 DEF FileEntry
    <2> QED
      BY <1>1, <1>6, <2>1, <2>2, <2>3 DEF FileEntry
  <1>7. EndOf(s, S, n) => EndOf(t, T, n)
    <2> SUFFICES ASSUME EndOf(s, S, n) PROVE EndOf(t, T, n)
      OBVIOUS
    <2>1. n + 1 \in 1..Len(s) /\ n + 1 <= Len(t)
      BY <1>3 DEF EndOf
    <2>2. t[n + 1] = s[n + 1]
      BY <1>2, <2>1
    <2>3. T[n + 1] = S[n + 1] /\ n + 1 \in DOMAIN T
      BY <1>1 DEF EndOf
    <2> QED
      BY <1>1, <2>1, <2>2, <2>3 DEF EndOf
  <1> QED
    BY <1>5, <1>6, <1>7 DEF Group

LEMMA WithIs ==
  ASSUME NEW S, NEW m, NEW c, m \notin DOMAIN S
  PROVE  /\ DOMAIN With(S, m, c) = DOMAIN S \cup {m} /\ With(S, m, c)[m] = c
         /\ Larger(S, With(S, m, c))
  BY DEF With, Larger

\* a record is written
LEMMA ScriptGrows ==
  ASSUME NEW s, NEW t, Len(s) \in Nat, Len(t) \in Nat, Len(s) < Len(t), More(s, t),
         NEW o, o # <<>>, NEW S, NEW V, Script(s, o, S, V),
         NEW r, r # <<>>, NEW W, Sound(Place(Last(r).at, W)),
         Group(t, With(S, Len(t), Place(Last(r).at, W)), Len(s))
  PROVE  /\ Script(t, r, With(S, Len(t), Place(Last(r).at, W)), W)
         /\ Larger(S, With(S, Len(t), Place(Last(r).at, W)))
  <1> DEFINE c == Place(Last(r).at, W)
             T == With(S, Len(t), c)
  <1>1. /\ DOMAIN S \subseteq 2..Len(s) /\ 2 \in DOMAIN S /\ Len(t) \notin DOMAIN S
        /\ Len(s) \in DOMAIN S
    BY DEF Script
  <1>2. DOMAIN T = DOMAIN S \cup {Len(t)} /\ T[Len(t)] = c /\ Larger(S, T)
    BY <1>1, WithIs
  <1>10. Sound(c) /\ Group(t, T, Len(s)) /\ c = Place(Last(r).at, W)
    OBVIOUS
  <1> HIDE DEF T, c
  <1>3. \A n \in DOMAIN S : T[n] = S[n]
    BY <1>2 DEF Larger
  <1>4. DOMAIN T \subseteq 2..Len(t) /\ 2 \in DOMAIN T /\ T[2] = Place(<<>>, {<<>>})
    BY <1>1, <1>2, <1>3 DEF Script
  <1>5. t[1] = Header("START_OF_TRANSMISSION", 0) /\ t[2] = Header("START_OF_DIRECTORY", 1)
    <2>1. 1 \in 1..Len(s) /\ 2 \in 1..Len(s)
      BY <1>1
    <2> QED
      BY <2>1 DEF Script, More
  <1>6. \A n \in DOMAIN T : Sound(T[n])
    BY <1>2, <1>3, <1>10 DEF Script
  <1>7. ASSUME NEW n \in DOMAIN T, n < Len(t) PROVE Group(t, T, n)
    <2>1. n \in DOMAIN S /\ n \in Nat /\ n <= Len(s)
      BY <1>1, <1>2, <1>7
    <2>2. CASE n = Len(s)
      BY <1>10, <2>2
    <2>3. CASE n < Len(s)
      <3>1. Group(s, S, n)
        BY <2>1, <2>3 DEF Script
      <3> QED
        BY <1>2, <2>1, <3>1, GroupStays
    <2> QED
      BY <2>1, <2>2, <2>3
  <1>8. T[Len(t)] = Place(Last(r).at, W) /\ Len(t) \in DOMAIN T
    BY <1>2, <1>10
  <1>9. Script(t, r, T, W)
    BY <1>4, <1>5, <1>6, <1>7, <1>8 DEF Script
  <1> QED
    BY <1>2, <1>9 DEF T, c

LEMMA Chains ==
  ASSUME NEW U, NEW s \in Seq(U), NEW u \in U, NEW v \in U
  PROVE  /\ Append(s, u) \in Seq(U) /\ Len(Append(s, u)) = Len(s) + 1 /\ Len(s) \in Nat
         /\ Append(s, u)[Len(s) + 1] = u /\ More(s, Append(s, u))
         /\ Append(Append(s, u), v) \in Seq(U) /\ Len(Append(Append(s, u), v)) = Len(s) + 2
         /\ Append(Append(s, u), v)[Len(s) + 1] = u /\ Append(Append(s, u), v)[Len(s) + 2] = v
         /\ More(s, Append(Append(s, u), v))
  <1>1. ASSUME NEW r \in Seq(U), NEW x \in U
        PROVE  /\ Append(r, x) \in Seq(U) /\ Len(Append(r, x)) = Len(r) + 1 /\ Len(r) \in Nat
               /\ Append(r, x)[Len(r) + 1] = x /\ \A i \in 1..Len(r) : Append(r, x)[i] = r[i]
    OBVIOUS
  <1> DEFINE r == Append(s, u)
             t == Append(r, v)
  <1>2. /\ r \in Seq(U) /\ Len(r) = Len(s) + 1 /\ Len(s) \in Nat
        /\ r[Len(s) + 1] = u /\ \A i \in 1..Len(s) : r[i] = s[i]
    BY <1>1
  <1>3. /\ t \in Seq(U) /\ Len(t) = Len(r) + 1
        /\ t[Len(r) + 1] = v /\ \A i \in 1..Len(r) : t[i] = r[i]
    BY <1>1, <1>2
  <1> HIDE DEF r, t
  <1>4. /\ Len(t) = Len(s) + 2 /\ t[Len(s) + 2] = v /\ t[Len(s) + 1] = u
        /\ \A i \in 1..Len(s) : t[i] = s[i]
    <2>1. Len(r) + 1 = Len(s) + 2 /\ Len(s) + 1 \in 1..Len(r)
      BY <1>2
    <2>2. \A i \in 1..Len(s) : i \in 1..Len(r)
      BY <1>2
    <2> QED
      BY <1>2, <1>3, <2>1, <2>2
  <1>5. More(s, r) /\ More(s, t)
    BY <1>2, <1>3, <1>4 DEF More
  <1> QED
    BY <1>2, <1>3, <1>4, <1>5 DEF r, t

LEMMA MoreMore ==
  ASSUME NEW s, NEW r, NEW t, Len(s) \in Nat, Len(r) \in Nat, Len(t) \in Nat, More(s, r), More(r, t)
  PROVE  More(s, t)
  <1>1. \A i \in 1..Len(s) : i \in 1..Len(r)
    BY DEF More
  <1> QED
    BY <1>1 DEF More

LEMMA ScriptStart ==
  ASSUME source \in Sources, StartTransmission
  PROVE  \E V, S : OpenOK(open', V) /\ Reached(open', V) /\ Script(sent', open', S, V)
  <1> DEFINE V == {<<>>}
             c == Place(<<>>, V)
             S == [n \in {2} |-> c]
             u == Header("START_OF_TRANSMISSION", 0)
             v == Header("START_OF_DIRECTORY", 1)
  <1>1. sent' = <<u, v>> /\ open' = <<Opened(<<>>)>>
    BY DEF StartTransmission
  <1>2. OpenOK(open', V) /\ Reached(open', V) /\ open' # <<>> /\ Last(open').at = <<>>
    BY <1>1, StartOpens
  <1>3. Sound(c)
    BY SourceFacts DEF Sound, Place
  <1>4. DOMAIN S = {2} /\ S[2] = c
    OBVIOUS
  <1>5. Len(sent') = 2 /\ sent'[1] = u /\ sent'[2] = v
    BY <1>1
  <1>6. c = Place(<<>>, {<<>>}) /\ c = Place(Last(open').at, V)
    BY <1>2
  <1>7. u = Header("START_OF_TRANSMISSION", 0) /\ v = Header("START_OF_DIRECTORY", 1)
    OBVIOUS
  <1> HIDE DEF V, c, S, u, v
  <1>8. DOMAIN S \subseteq 2..Len(sent') /\ \A n \in DOMAIN S : ~(n < Len(sent'))
    BY <1>4, <1>5
  <1>9. Script(sent', open', S, V)
    BY <1>2, <1>3, <1>4, <1>5, <1>6, <1>7, <1>8 DEF Script
  <1> QED
    BY <1>2, <1>9

LEMMA ScriptEntry ==
  ASSUME source \in Sources, sent \in Seq(Units), ~HasEmptyFile,
         open # <<>>, NEW name \in Here.todo, Entry(name),
         NEW V, NEW S, OpenOK(open, V), Reached(open, V), Script(sent, open, S, V)
  PROVE  \E W, T : /\ OpenOK(open', W) /\ Reached(open', W) /\ Script(sent', open', T, W)
                   /\ Larger(S, T) /\ More(sent, sent')
  <1>1. PICK d, p : d = Len(open) /\ p = Append(Here.at, name)
    OBVIOUS
  <1>2. PICK W, a : W = V \cup {p} /\ a = Here.at
    OBVIOUS
  <1>3. /\ name \in Names /\ p \in DOMAIN source /\ p \notin V /\ p \in Seq(Names) /\ p # <<>>
        /\ Len(p) = d /\ Len(a) = d - 1 /\ Front(p) = a /\ a \in Seq(Names) /\ a \in V
        /\ p = Append(a, name)
        /\ OpenOK(open', W) /\ Reached(open', W) /\ open' # <<>>
        /\ Last(open').at = IF source[p] = Dir THEN p ELSE a
    <2>1. /\ name \in Names /\ p \in DOMAIN source /\ p \notin V /\ p \in Seq(Names) /\ p # <<>>
          /\ Len(p) = Len(open) /\ Len(Here.at) = Len(open) - 1 /\ Front(p) = Here.at
          /\ Here.at \in Seq(Names) /\ Here.at \in V
          /\ OpenOK(open', V \cup {p}) /\ Reached(open', V \cup {p}) /\ open' # <<>>
          /\ Last(open').at = IF source[p] = Dir THEN p ELSE Here.at
      BY <1>1, EntryOpens
    <2> QED
      BY <1>1, <1>2, <2>1
  <1>4. d \in Nat
    BY <1>3
  <1>5. source[p] # 0 /\ source[a] = Dir /\ W \subseteq DOMAIN source
    <2>1. source[p] # 0
      BY <1>3 DEF HasEmptyFile
    <2>2. source[a] = Dir
      BY <1>3, SourceFacts
    <2>3. V \subseteq DOMAIN source
      BY DEF Reached
    <2> QED
      BY <1>2, <1>3, <2>1, <2>2, <2>3
  <1> DEFINE h == Header("DIRECTORY_ENTRY", d)
             start == Header("START_OF_DIRECTORY", d + 1)
             fd == Header("FILE_DATA", d)
             fb == Bytes(NoName, source[p])
             L == Len(sent)
             t == sent'
             c == Place(Last(open').at, W)
             T == With(S, Len(t), c)
  <1>6. /\ h \in Units /\ start \in Units /\ fd \in Units /\ fb \in Units
        /\ Bytes(name, Dir) \in Units /\ Bytes(name, 0) \in Units
        /\ source[p] = Dir => t = Append(Append(Append(sent, h), Bytes(name, Dir)), start)
        /\ source[p] # Dir =>
             t = Append(Append(Append(Append(sent, h), Bytes(name, 0)), fd), fb)
    BY <1>1, <1>3, <1>4, <1>5, EntrySends
  <1>7. /\ L \in Nat /\ DOMAIN S \subseteq 2..L /\ L \in DOMAIN S
        /\ S[L].at = a /\ S[L].made = V
    <2>1. S[L] = Place(a, V) /\ L \in DOMAIN S
      BY <1>2 DEF Script, Here
    <2> QED
      BY <2>1 DEF Script, Place
  <1>8. /\ c.made = W /\ c.at = IF source[p] = Dir THEN p ELSE a
        /\ c = Place(IF source[p] = Dir THEN p ELSE a, W)
    BY <1>3 DEF Place
  <1>9. Sound(c)
    BY <1>2, <1>3, <1>5, <1>8 DEF Sound
  <1>10. /\ Len(p) = d /\ h = Header("DIRECTORY_ENTRY", d) /\ fd = Header("FILE_DATA", d)
         /\ start = Header("START_OF_DIRECTORY", d + 1)
    BY <1>3
  <1>11. \A x : Bytes(name, x).name = name
    BY DEF Bytes
  <1>12. fb.data = source[p]
    BY DEF Bytes
  <1> HIDE DEF h, start, fd, fb, c
  <1>13. /\ t \in Seq(Units) /\ L < Len(t) /\ More(sent, t)
         /\ t[L + 1] = h /\ t[L + 2].name = name
         /\ source[p] = Dir => Len(t) = L + 3 /\ t[L + 3] = start
         /\ source[p] # Dir => Len(t) = L + 4 /\ t[L + 3] = fd /\ t[L + 4] = fb
    <2>1. ASSUME NEW x, Bytes(name, x) \in Units, NEW r, r = Append(Append(sent, h), Bytes(name, x))
          PROVE  /\ r \in Seq(Units) /\ Len(r) = L + 2 /\ More(sent, r)
                 /\ r[L + 1] = h /\ r[L + 2].name = name
      <3> DEFINE b == Bytes(name, x)
      <3>1. b.name = name /\ b \in Units
        BY <1>11, <2>1
      <3> HIDE DEF b
      <3>2. /\ Append(Append(sent, h), b) \in Seq(Units) /\ Len(Append(Append(sent, h), b)) = L + 2
            /\ More(sent, Append(Append(sent, h), b))
            /\ Append(Append(sent, h), b)[L + 1] = h /\ Append(Append(sent, h), b)[L + 2] = b
        BY <1>6, <3>1, Chains
      <3>3. r = Append(Append(sent, h), b)
        BY <2>1 DEF b
      <3> QED
        BY <3>1, <3>2, <3>3
    <2>2. CASE source[p] = Dir
      <3> DEFINE r == Append(Append(sent, h), Bytes(name, Dir))
      <3>1. /\ r \in Seq(Units) /\ Len(r) = L + 2 /\ More(sent, r)
            /\ r[L + 1] = h /\ r[L + 2].name = name
        BY <1>6, <2>1
      <3>2. t = Append(r, start)
        BY <1>6, <2>2
      <3> HIDE DEF r, t
      <3>3. /\ t \in Seq(Units) /\ Len(t) = Len(r) + 1 /\ t[Len(r) + 1] = start /\ More(r, t)
        BY <1>6, <3>1, <3>2, Chains
      <3>4. Len(r) + 1 = L + 3 /\ L + 1 \in 1..Len(r) /\ L + 2 \in 1..Len(r) /\ L < L + 3
        BY <1>7, <3>1
      <3>5. t[L + 1] = r[L + 1] /\ t[L + 2] = r[L + 2]
        BY <3>3, <3>4 DEF More
      <3>6. More(sent, t)
        BY <1>7, <3>1, <3>3, <3>4, MoreMore
      <3> QED
        BY <2>2, <3>1, <3>3, <3>4, <3>5, <3>6 DEF t
    <2>3. CASE source[p] # Dir
      <3> DEFINE r == Append(Append(sent, h), Bytes(name, 0))
      <3>1. /\ r \in Seq(Units) /\ Len(r) = L + 2 /\ More(sent, r)
            /\ r[L + 1] = h /\ r[L + 2].name = name
        BY <1>6, <2>1
      <3>2. t = Append(Append(r, fd), fb)
        BY <1>6, <2>3
      <3> HIDE DEF r, t
      <3>3. /\ t \in Seq(Units) /\ Len(t) = Len(r) + 2 /\ t[Len(r) + 1] = fd
            /\ t[Len(r) + 2] = fb /\ More(r, t)
        BY <1>6, <3>1, <3>2, Chains
      <3>4. /\ Len(r) + 1 = L + 3 /\ Len(r) + 2 = L + 4
            /\ L + 1 \in 1..Len(r) /\ L + 2 \in 1..Len(r) /\ L < L + 4
        BY <1>7, <3>1
      <3>5. t[L + 1] = r[L + 1] /\ t[L + 2] = r[L + 2]
        BY <3>3, <3>4 DEF More
      <3>6. More(sent, t)
        BY <1>7, <3>1, <3>3, <3>4, MoreMore
      <3> QED
        BY <2>3, <3>1, <3>3, <3>4, <3>5, <3>6 DEF t
    <2> QED
      BY <2>2, <2>3
  <1>14. Len(t) \in Nat /\ Len(t) \notin DOMAIN S
    BY <1>7, <1>13
  <1>15. DOMAIN T = DOMAIN S \cup {Len(t)} /\ T[Len(t)] = c /\ Larger(S, T)
    <2> HIDE DEF t
    <2> QED
      BY <1>14, WithIs
  <1>16. T[L].at = a /\ T[L].made = V
    BY <1>7, <1>15 DEF Larger
  <1> HIDE DEF T, t
  <1>17. Group(t, T, L)
    <2>1. Named(t, T, L, name)
      BY <1>3, <1>10, <1>13, <1>16 DEF Named
    <2>2. CASE source[p] = Dir
      <3>2. Append(T[L].at, name) = p /\ T[L].made \cup {p} = W
        BY <1>2, <1>3, <1>16
      <3>3. Len(t) = L + 3 /\ t[L + 3] = start /\ Len(t) <= Len(t) /\ Len(t) \in DOMAIN T
        BY <1>13, <1>14, <1>15, <2>2
      <3>4. T[L + 3] = Place(p, W)
        BY <1>8, <1>15, <2>2, <3>3
      <3>1. DirEntry(t, T, L, name)
        BY <1>10, <2>1, <2>2, <3>2, <3>3, <3>4 DEF DirEntry
      <3> QED
        BY <3>1 DEF Group
    <2>3. CASE source[p] # Dir
      <3>2. Append(T[L].at, name) = p /\ T[L].made \cup {p} = W
        BY <1>2, <1>3, <1>16
      <3>3. /\ Len(t) = L + 4 /\ t[L + 3] = fd /\ t[L + 4].data = source[p]
            /\ Len(t) <= Len(t) /\ Len(t) \in DOMAIN T
        BY <1>12, <1>13, <1>14, <1>15, <2>3
      <3>4. T[L + 4] = Place(T[L].at, W)
        BY <1>8, <1>15, <1>16, <2>3, <3>3
      <3>1. FileEntry(t, T, L, name)
        BY <1>10, <2>1, <2>3, <3>2, <3>3, <3>4 DEF FileEntry
      <3> QED
        BY <3>1 DEF Group
    <2> QED
      BY <2>2, <2>3
  <1>18. Script(t, open', T, W)
    <2>1. Sound(Place(Last(open').at, W)) /\ Group(t, With(S, Len(t), Place(Last(open').at, W)), L)
      BY <1>9, <1>17 DEF T, c
    <2>2. Script(t, open', With(S, Len(t), Place(Last(open').at, W)), W)
      BY <1>3, <1>7, <1>13, <1>14, <2>1, ScriptGrows
    <2> QED
      BY <2>2 DEF T, c
  <1> QED
    BY <1>3, <1>13, <1>15, <1>18 DEF t

LEMMA ScriptEnd ==
  ASSUME source \in Sources, sent \in Seq(Units), EndDirectory,
         NEW V, NEW S, OpenOK(open, V), Reached(open, V), Script(sent, open, S, V)
  PROVE  \E T : /\ OpenOK(open', V) /\ Reached(open', V) /\ Script(sent', open', T, V)
                /\ Larger(S, T) /\ More(sent, sent')
  <1>1. PICK a, d : a = Here.at /\ d = Len(open)
    OBVIOUS
  <1>2. /\ d \in Nat /\ Len(a) = d - 1 /\ a \in Seq(Names) /\ a \in V
        /\ OpenOK(open', V) /\ Reached(open', V)
        /\ open' = <<>> <=> a = <<>>
        /\ open' # <<>> => Last(open').at = Front(a)
        /\ d = 1 <=> a = <<>>
        /\ open # <<>>
    <2>1. open # <<>>
      BY DEF EndDirectory
    <2> QED
      BY <1>1, <2>1, EndOpens
  <1> DEFINE h == Header("END_OF_DIRECTORY", d)
             x == Header("END_OF_TRANSMISSION", 0)
             L == Len(sent)
             t == sent'
  <1>3. /\ h \in Units /\ x \in Units
        /\ d # 1 => t = Append(sent, h)
        /\ d = 1 => t = Append(Append(sent, h), x)
    BY <1>1, <1>2, EndSends
  <1>4. /\ L \in Nat /\ DOMAIN S \subseteq 2..L /\ L \in DOMAIN S
        /\ S[L].at = a /\ S[L].made = V
    <2>1. S[L] = Place(a, V) /\ L \in DOMAIN S
      BY <1>1, <1>2 DEF Script, Here
    <2> QED
      BY <2>1 DEF Script, Place
  <1>5. h = Header("END_OF_DIRECTORY", d) /\ x = Header("END_OF_TRANSMISSION", 0)
    OBVIOUS
  <1> HIDE DEF h, x, t
  <1>6. /\ t \in Seq(Units) /\ More(sent, t) /\ t[L + 1] = h /\ Len(t) \in Nat
        /\ d # 1 => Len(t) = L + 1
        /\ d = 1 => Len(t) = L + 2 /\ t[L + 2] = x
    <2>1. /\ Append(sent, h) \in Seq(Units) /\ Len(Append(sent, h)) = L + 1
          /\ Append(sent, h)[L + 1] = h /\ More(sent, Append(sent, h))
          /\ Append(Append(sent, h), x) \in Seq(Units)
          /\ Len(Append(Append(sent, h), x)) = L + 2
          /\ Append(Append(sent, h), x)[L + 1] = h /\ Append(Append(sent, h), x)[L + 2] = x
          /\ More(sent, Append(Append(sent, h), x))
      BY <1>3, Chains
    <2>2. CASE d = 1
      <3>1. t = Append(Append(sent, h), x)
        BY <1>3, <2>2
      <3>2. L + 2 \in Nat
        BY <1>4
      <3> QED
        BY <2>1, <2>2, <3>1, <3>2
    <2>3. CASE d # 1
      <3>1. t = Append(sent, h)
        BY <1>3, <2>3
      <3>2. L + 1 \in Nat
        BY <1>4
      <3> QED
        BY <2>1, <2>3, <3>1, <3>2
    <2> QED
      BY <2>2, <2>3
  <1>7. CASE d # 1
    <2> DEFINE c == Place(Last(open').at, V)
               T == With(S, Len(t), c)
    <2>1. c = Place(Front(a), V) /\ a # <<>> /\ open' # <<>> /\ c.made = V /\ c.at = Front(a)
      BY <1>2, <1>7 DEF Place
    <2>2. Sound(c)
      <3>1. V \subseteq DOMAIN source /\ Front(a) \in V
        BY <1>2, <2>1 DEF Reached
      <3>2. Front(a) \in Seq(Names) /\ source[Front(a)] = Dir
        BY <1>2, <2>1, <3>1, SourceFacts
      <3> QED
        BY <2>1, <3>1, <3>2 DEF Sound
    <2>3. Len(t) \notin DOMAIN S /\ L < Len(t) /\ Len(t) = L + 1 /\ Len(a) + 1 = d
      <3>1. Len(t) = L + 1
        BY <1>6, <1>7
      <3>2. L + 1 \notin DOMAIN S /\ L < L + 1
        BY <1>4
      <3>3. Len(a) + 1 = d
        BY <1>2
      <3> QED
        BY <3>1, <3>2, <3>3
    <2> HIDE DEF c
    <2>4. DOMAIN T = DOMAIN S \cup {Len(t)} /\ T[Len(t)] = c /\ Larger(S, T)
      BY <2>3, WithIs
    <2>5. T[L].at = a /\ T[L].made = V
      BY <1>4, <2>4 DEF Larger
    <2> HIDE DEF T
    <2>6. Group(t, T, L)
      <3>1. L + 1 \in DOMAIN T /\ L + 1 <= Len(t) /\ T[L + 1] = Place(Front(a), V)
        BY <1>4, <1>6, <2>1, <2>3, <2>4
      <3>2. t[L + 1] = Header("END_OF_DIRECTORY", Len(a) + 1)
        BY <1>5, <1>6, <2>3
      <3>3. EndOf(t, T, L)
        BY <2>1, <2>5, <3>1, <3>2 DEF EndOf
      <3> QED
        BY <3>3 DEF Group
    <2>7. Script(t, open', T, V)
      <3>1. Sound(Place(Last(open').at, V)) /\ Group(t, With(S, Len(t), Place(Last(open').at, V)), L)
        BY <2>2, <2>6 DEF T, c
      <3>2. Script(t, open', With(S, Len(t), Place(Last(open').at, V)), V)
        BY <1>2, <1>4, <1>6, <2>1, <2>3, <3>1, ScriptGrows
      <3> QED
        BY <3>2 DEF T, c
    <2> QED
      BY <1>2, <1>6, <2>4, <2>7 DEF t
  <1>8. CASE d = 1
    <2>1. /\ a = <<>> /\ open' = <<>> /\ Len(t) = L + 2 /\ t[L + 2] = x
      BY <1>2, <1>6, <1>8
    <2>2. V = DOMAIN source
      BY <1>2, <2>1, AllWritten
    <2>3. LastEnd(t, S, L)
      BY <1>4, <1>5, <1>6, <1>8, <2>1, <2>2 DEF LastEnd
    <2>4. ASSUME NEW n \in DOMAIN S PROVE Group(t, S, n) \/ LastEnd(t, S, n)
      <3>1. n \in Nat /\ n <= L
        BY <1>4
      <3>2. CASE n < L
        <4>1. Group(sent, S, n)
          BY <1>2, <3>2 DEF Script
        <4>2. Larger(S, S)
          BY DEF Larger
        <4> QED
          BY <1>4, <1>6, <3>1, <4>1, <4>2, GroupStays
      <3>3. CASE n = L
        BY <2>3, <3>3
      <3> QED
        BY <1>4, <3>1, <3>2, <3>3
    <2>5. /\ DOMAIN S \subseteq 2..Len(t) /\ Len(t) \notin DOMAIN S
          /\ 1 \in 1..L /\ 2 \in 1..L
      <3>1. 2 \in DOMAIN S
        BY DEF Script
      <3> QED
        BY <1>4, <2>1, <3>1
    <2>6. t[1] = sent[1] /\ t[2] = sent[2]
      BY <1>6, <2>5 DEF More
    <2>7. Script(t, open', S, V)
      BY <2>1, <2>4, <2>5, <2>6 DEF Script
    <2>8. Larger(S, S)
      BY DEF Larger
    <2> QED
      BY <1>2, <1>6, <2>7, <2>8 DEF t
  <1> QED
    BY <1>7, <1>8

\* the script of a stream says the same in the next state
LEMMA ScriptPrimed ==
  ASSUME source' = source, NEW V, NEW S, Script(sent', open', S, V)
  PROVE  Script(sent, open, S, V)'
  <1>1. \A n \in DOMAIN S : Sound(S[n])'
    BY DEF Script, Sound
  <1>2. ASSUME NEW n, NEW name, DirEntry(sent', S, n, name) PROVE DirEntry(sent, S, n, name)'
    BY <1>2 DEF DirEntry, Named
  <1>3. ASSUME NEW n, NEW name, FileEntry(sent', S, n, name) PROVE FileEntry(sent, S, n, name)'
    BY <1>3 DEF FileEntry, Named
  <1>4. ASSUME NEW n, Group(sent', S, n) PROVE Group(sent, S, n)'
    <2>1. CASE EndOf(sent', S, n)
      BY <2>1 DEF Group, EndOf
    <2>2. ASSUME NEW name, DirEntry(sent', S, n, name) PROVE Group(sent, S, n)'
      <3>1. DirEntry(sent, S, n, name)'
        BY <2>2, <1>2
      <3> QED
        BY <3>1 DEF Group
    <2>3. ASSUME NEW name, FileEntry(sent', S, n, name) PROVE Group(sent, S, n)'
      <3>1. FileEntry(sent, S, n, name)'
        BY <2>3, <1>3
      <3> QED
        BY <3>1 DEF Group
    <2> QED
      BY <1>4, <2>1, <2>2, <2>3 DEF Group
  <1>5. ASSUME NEW n, LastEnd(sent', S, n) PROVE LastEnd(sent, S, n)'
    BY <1>5 DEF LastEnd
  <1>6. \A n \in DOMAIN S : n < Len(sent') => Group(sent, S, n)' \/ (open' = <<>> /\ LastEnd(sent, S, n)')
    BY <1>4, <1>5 DEF Script
  <1> QED
    BY <1>1, <1>6 DEF Script

-----------------------------------------------------------------------------
(* The reader.                                                             *)

\* The paths M have been made anew, and what else is there was there before.
MadeIs(M) ==
  /\ \A p \in M : p \in DOMAIN target /\ target[p] = source[p]
  /\ \A p \in DOMAIN target : p \in M \/ (p \in DOMAIN before /\ target[p] = before[p])

NotBegun == reader = "begin" /\ taken = 0 /\ path = <<>> /\ depth = 1 /\ target = before

\* between two records; path_buf is stale after the end of a directory
Between(S) ==
  /\ reader = "records" /\ taken \in DOMAIN S /\ depth = Len(S[taken].at) + 1
  /\ path = S[taken].at \/ sent[taken].type = "END_OF_DIRECTORY"
  /\ MadeIs(S[taken].made)

\* after the end of the directory given with -p
Over ==
  /\ reader = "records" /\ open = <<>> /\ taken + 1 = Len(sent)
  /\ sent[taken + 1].type = "END_OF_TRANSMISSION" /\ MadeIs(DOMAIN source)

\* in deserialize_file
InFile(S, m, name) ==
  /\ reader = "file" /\ m \in DOMAIN S /\ taken = m + 2
  /\ DirEntry(sent, S, m, name) \/ FileEntry(sent, S, m, name)
  /\ path = Append(S[m].at, name) /\ depth = Len(path) /\ MadeIs(S[m].made)

\* a directory is there already, and the header of its start comes next
Starting(S, m, name) ==
  /\ reader = "records" /\ m \in DOMAIN S /\ taken = m + 2 /\ DirEntry(sent, S, m, name)
  /\ path = Append(S[m].at, name) /\ depth = Len(path) + 1
  /\ MadeIs(S[m].made \cup {path})

Done == reader = "done" /\ open = <<>> /\ taken = Len(sent) /\ MadeIs(DOMAIN source)

Reading(S) ==
  \/ NotBegun \/ Between(S) \/ Over \/ Done
  \/ \E m, name : InFile(S, m, name) \/ Starting(S, m, name)

\* The reader is where the script says, unless one of the things has happened that
\* make it lose its way.
Copying(V, S) ==
  /\ OpenOK(open, V) /\ Reached(open, V) /\ Script(sent, open, S, V)
  /\ ~ComesBack(taken) => Reading(S)

CopyInv ==
  /\ taken \in 0..Len(sent)
  /\ sent = <<>> \/ reader = "begin" => NotBegun
  /\ sent # <<>> /\ ~HasEmptyFile /\ ~Conflict => \E V, S : Copying(V, S)

\* what the reader does not see of a step of the writer
Unread == <<clobber, taken, reader, depth, path, target, before>>

LEMMA ComesBackStays ==
  ASSUME Len(sent) \in Nat, Len(sent') \in Nat, More(sent, sent'), taken \in 0..Len(sent),
         taken' \in Nat, taken <= taken', ComesBack(taken)
  PROVE  ComesBack(taken)'
  <1> PICK k \in 1..taken - 1 :
             sent[k].type = "END_OF_DIRECTORY" /\ sent[k + 1].type = "DIRECTORY_ENTRY"
    BY DEF ComesBack
  <1>1. k \in 1..Len(sent) /\ k + 1 \in 1..Len(sent) /\ k \in 1..taken' - 1
    <2> ASSUME NEW l \in Nat, NEW n \in Nat, NEW m \in Nat, n <= l, n <= m, NEW i \in 1..n - 1
        PROVE  i \in 1..l /\ i + 1 \in 1..l /\ i \in 1..m - 1
      OBVIOUS
    <2>1. taken \in Nat /\ taken <= Len(sent)
      OBVIOUS
    <2> QED
      BY <2>1
  <1>2. sent'[k] = sent[k] /\ sent'[k + 1] = sent[k + 1]
    BY <1>1 DEF More
  <1> QED
    BY <1>1, <1>2 DEF ComesBack

LEMMA ReadingStays ==
  ASSUME source' = source, UNCHANGED Unread, open # <<>>, Len(sent) \in Nat, Len(sent') \in Nat,
         More(sent, sent'), NEW S, NEW T, Larger(S, T), DOMAIN S \subseteq 2..Len(sent),
         Reading(S)
  PROVE  Reading(T)'
  <1>1. /\ taken' = taken /\ reader' = reader /\ depth' = depth /\ path' = path
        /\ target' = target /\ before' = before
    BY DEF Unread
  <1>2. \A M : MadeIs(M) => MadeIs(M)'
    BY <1>1 DEF MadeIs
  <1>3. \A n \in DOMAIN S : n \in Nat /\ n \in DOMAIN T /\ T[n] = S[n] /\ sent'[n] = sent[n]
    BY DEF Larger, More
  <1>4. ASSUME NEW m \in DOMAIN S, NEW name
        PROVE  /\ DirEntry(sent, S, m, name) => DirEntry(sent, T, m, name)'
               /\ FileEntry(sent, S, m, name) => FileEntry(sent, T, m, name)'
    <2>1. DirEntry(sent, S, m, name) => DirEntry(sent', T, m, name)
      BY <1>3, GroupStays
    <2>2. FileEntry(sent, S, m, name) => FileEntry(sent', T, m, name)
      BY <1>3, GroupStays
    <2>3. ASSUME DirEntry(sent, S, m, name) PROVE DirEntry(sent, T, m, name)'
      <3>1. DirEntry(sent', T, m, name)
        BY <2>1, <2>3
      <3> QED
        BY <3>1 DEF DirEntry, Named
    <2>4. ASSUME FileEntry(sent, S, m, name) PROVE FileEntry(sent, T, m, name)'
      <3>1. FileEntry(sent', T, m, name)
        BY <2>2, <2>4
      <3> QED
        BY <3>1 DEF FileEntry, Named
    <2> QED
      BY <2>3, <2>4
  <1>5. CASE NotBegun
    BY <1>1, <1>5 DEF NotBegun, Reading
  <1>6. CASE Between(S)
    <2>1. taken' \in DOMAIN T /\ T[taken'] = S[taken] /\ sent'[taken'] = sent[taken]
      BY <1>1, <1>3, <1>6 DEF Between
    <2>2. MadeIs(T[taken].made)'
      BY <1>1, <1>2, <1>6, <2>1 DEF Between, MadeIs
    <2>3. Between(T)'
      BY <1>1, <1>6, <2>1, <2>2 DEF Between
    <2> QED
      BY <2>3 DEF Reading
  <1>7. CASE Over \/ Done
    BY <1>7 DEF Over, Done
  <1>8. ASSUME NEW m, NEW name, InFile(S, m, name) PROVE Reading(T)'
    <2>1. m \in DOMAIN T /\ T[m] = S[m]
      BY <1>3, <1>8 DEF InFile
    <2>2. MadeIs(S[m].made)' /\ (DirEntry(sent, T, m, name)' \/ FileEntry(sent, T, m, name)')
      BY <1>2, <1>4, <1>8 DEF InFile
    <2>3. InFile(T, m, name)'
      BY <1>1, <1>8, <2>1, <2>2 DEF InFile
    <2> QED
      BY <2>3 DEF Reading
  <1>9. ASSUME NEW m, NEW name, Starting(S, m, name) PROVE Reading(T)'
    <2>1. m \in DOMAIN T /\ T[m] = S[m]
      BY <1>3, <1>9 DEF Starting
    <2>2. DirEntry(sent, T, m, name)'
      BY <1>4, <1>9 DEF Starting
    <2>3. MadeIs(S[m].made \cup {path})'
      BY <1>1, <1>9 DEF Starting, MadeIs
    <2>4. Starting(T, m, name)'
      BY <1>1, <1>9, <2>1, <2>2, <2>3 DEF Starting
    <2> QED
      BY <2>4 DEF Reading
  <1> QED
    BY <1>5, <1>6, <1>7, <1>8, <1>9 DEF Reading

LEMMA Wider ==
  ASSUME NEW S, NEW U, S \subseteq U, NEW s \in Seq(S)
  PROVE  s \in Seq(U)
  OBVIOUS

\* what has been sent stays
LEMMA WritesMore ==
  ASSUME sent \in Seq(Units), EndDirectory \/ \E name : Entry(name)
  PROVE  More(sent, sent')
  <1>1. ASSUME NEW U, NEW s \in Seq(U), NEW r \in Seq(U) PROVE s \o r \in Seq(U) /\ More(s, s \o r)
    BY DEF More
  <1>2. ASSUME NEW h, NEW r, r = <<>> \/ \E x : r = <<x>>, sent' = Append(sent, h) \o r
        PROVE  More(sent, sent')
    <2> PICK x : r = <<>> \/ r = <<x>>
      BY <1>2
    <2> DEFINE U == Units \cup {h, x}
               s == Append(sent, h)
    <2>0. Units \subseteq U /\ h \in U /\ x \in U
      OBVIOUS
    <2>4. s = sent \o <<h>>
      OBVIOUS
    <2>1. sent \in Seq(U) /\ <<h>> \in Seq(U) /\ r \in Seq(U) /\ s = sent \o <<h>>
      <3> HIDE DEF U, s
      <3>1. sent \in Seq(U)
        BY <2>0, Wider
      <3>2. <<h>> \in Seq(U) /\ <<x>> \in Seq(U) /\ <<>> \in Seq(U)
        BY <2>0
      <3> QED
        BY <2>4, <3>1, <3>2
    <2> HIDE DEF U, s
    <2>2. s \in Seq(U) /\ More(sent, s) /\ More(s, s \o r) /\ s \o r \in Seq(U)
      BY <1>1, <2>1
    <2>3. More(sent, s \o r)
      BY <2>1, <2>2, MoreMore
    <2> QED
      BY <1>2, <2>3 DEF s
  <1>3. ASSUME NEW h, NEW b, NEW r, r = <<>> \/ (\E x : r = <<x>>) \/ (\E x, y : r = <<x, y>>),
               sent' = sent \o <<h, b>> \o r
        PROVE  More(sent, sent')
    <2> PICK x, y : r = <<>> \/ r = <<x>> \/ r = <<x, y>>
      BY <1>3
    <2> DEFINE U == Units \cup {h, b, x, y}
               s == sent \o <<h, b>>
    <2>0. Units \subseteq U /\ h \in U /\ b \in U /\ x \in U /\ y \in U
      OBVIOUS
    <2>1. sent \in Seq(U) /\ <<h, b>> \in Seq(U) /\ r \in Seq(U)
      <3> HIDE DEF U, s
      <3>1. sent \in Seq(U)
        BY <2>0, Wider
      <3>2. <<h, b>> \in Seq(U) /\ <<x>> \in Seq(U) /\ <<x, y>> \in Seq(U) /\ <<>> \in Seq(U)
        BY <2>0
      <3> QED
        BY <3>1, <3>2
    <2> HIDE DEF U
    <2>2. s \in Seq(U) /\ More(sent, s)
      BY <1>1, <2>1
    <2>3. sent' = s \o r
      BY <1>3
    <2> HIDE DEF s
    <2>4. More(s, s \o r) /\ s \o r \in Seq(U)
      BY <1>1, <2>1, <2>2
    <2>5. More(sent, s \o r)
      BY <2>1, <2>2, <2>4, MoreMore
    <2> QED
      BY <2>3, <2>5
  <1>4. CASE EndDirectory
    <2> DEFINE h == Header("END_OF_DIRECTORY", Len(open))
               r == IF Len(open) = 1 THEN <<Header("END_OF_TRANSMISSION", 0)>> ELSE <<>>
    <2>1. sent' = Append(sent, h) \o r
      BY <1>4 DEF EndDirectory
    <2>2. r = <<>> \/ \E x : r = <<x>>
      OBVIOUS
    <2> HIDE DEF h, r
    <2> QED
      BY <1>2, <2>1, <2>2
  <1>5. ASSUME NEW name, Entry(name) PROVE More(sent, sent')
    <2> DEFINE p == Append(Here.at, name)
               h == Header("DIRECTORY_ENTRY", Len(open))
               b(z) == Bytes(name, z)
               f == FileData(Len(open), source[p])
               g == Directory(Len(open))
    <2>1. sent' = sent \o <<h, b(Dir)>> \o g \/ sent' = sent \o <<h, b(0)>> \o f
      BY <1>5 DEF Entry
    <2>2. \E x : g = <<x>>
      BY DEF Directory
    <2>3. f = <<>> \/ \E x, y : f = <<x, y>>
      BY DEF FileData
    <2> HIDE DEF h, b, f, g
    <2> QED
      BY <1>3, <2>1, <2>2, <2>3
  <1> QED
    BY <1>4, <1>5

\* a step of the writer
LEMMA CopyInvWriter ==
  ASSUME WriterInv, WriterInv', CopyInv, UNCHANGED Unread,
         \/ StartTransmission \/ EndDirectory
         \/ open # <<>> /\ \E name \in Here.todo : Entry(name)
  PROVE  CopyInv'
  <1>1. /\ source \in Sources /\ sent \in Seq(Units) /\ source' = source /\ Len(sent) \in Nat
        /\ taken' = taken /\ taken \in 0..Len(sent) /\ before' = before /\ clobber' = clobber
    <2>1. source \in Sources /\ sent \in Seq(Units) /\ taken \in 0..Len(sent)
      BY DEF WriterInv, CopyInv
    <2>2. source' = source
      BY DEF StartTransmission, EndDirectory, Entry
    <2>3. taken' = taken /\ before' = before /\ clobber' = clobber
      BY DEF Unread
    <2> QED
      BY <2>1, <2>2, <2>3
  <1>2. Len(sent') \in Nat /\ Units' = Units
    <2>1. Units' = Units
      BY <1>1 DEF Units, Contents
    <2>2. sent' \in Seq(Units)
      BY <2>1 DEF WriterInv
    <2> QED
      BY <2>1, <2>2
  <1>3. /\ (HasEmptyFile' <=> HasEmptyFile) /\ (Conflict' <=> Conflict)
        /\ reader' = "begin" => NotBegun'
    BY <1>1 DEF HasEmptyFile, Conflict, CopyInv, NotBegun, Unread
  <1>4. CASE StartTransmission
    <2>1. NotBegun /\ sent = <<>> /\ sent' # <<>>
      <3>1. sent' = <<Header("START_OF_TRANSMISSION", 0), Header("START_OF_DIRECTORY", 1)>>
        BY <1>4 DEF StartTransmission
      <3>2. Len(sent') = 2
        BY <3>1
      <3> QED
        BY <1>4, <3>2 DEF StartTransmission, CopyInv
    <2>2. PICK V, S : OpenOK(open', V) /\ Reached(open', V) /\ Script(sent', open', S, V)
      BY <1>1, <1>4, ScriptStart
    <2>3. OpenOK(open, V)' /\ Reached(open, V)'
      BY <1>1, <2>2 DEF OpenOK, Reached, ToDo
    <2>4. Script(sent, open, S, V)'
      BY <1>1, <2>2, ScriptPrimed
    <2>5. NotBegun'
      BY <2>1 DEF NotBegun, Unread
    <2>6. Copying(V, S)'
      BY <2>3, <2>4, <2>5 DEF Copying, Reading
    <2>7. taken' \in 0..Len(sent')
      BY <1>1, <1>2, <2>1 DEF NotBegun
    <2> QED
      BY <1>3, <2>1, <2>6, <2>7 DEF CopyInv
  <1>5. ASSUME open # <<>>, More(sent, sent'),
               \A V, S : ~HasEmptyFile /\ OpenOK(open, V) /\ Reached(open, V) /\ Script(sent, open, S, V)
                  => \E W, T : /\ OpenOK(open', W) /\ Reached(open', W) /\ Script(sent', open', T, W)
                               /\ Larger(S, T)
        PROVE  CopyInv'
    <2>1. taken' \in 0..Len(sent')
      BY <1>1, <1>2, <1>5 DEF More
    <2>2. sent # <<>> /\ sent' # <<>>
      <3>1. sent # <<>>
        BY <1>5 DEF WriterInv
      <3>2. Len(sent) >= 1
        BY <1>1, <3>1
      <3>3. Len(sent') # 0
        BY <1>1, <1>2, <1>5, <3>2 DEF More
      <3> QED
        BY <3>1, <3>3
    <2>3. ASSUME ~HasEmptyFile, ~Conflict PROVE \E V, S : Copying(V, S)'
      <3> PICK V, S : Copying(V, S)
        BY <2>2, <2>3 DEF CopyInv
      <3>1. OpenOK(open, V) /\ Reached(open, V) /\ Script(sent, open, S, V)
        BY DEF Copying
      <3>2. PICK W, T : /\ OpenOK(open', W) /\ Reached(open', W) /\ Script(sent', open', T, W)
                        /\ Larger(S, T)
        BY <1>5, <2>3, <3>1
      <3>3. OpenOK(open, W)' /\ Reached(open, W)'
        BY <1>1, <3>2 DEF OpenOK, Reached, ToDo
      <3>4. Script(sent, open, T, W)'
        BY <1>1, <3>2, ScriptPrimed
      <3>5. ~ComesBack(taken)' => Reading(T)'
        <4> SUFFICES ASSUME ~ComesBack(taken)' PROVE Reading(T)'
          OBVIOUS
        <4>1. ~ComesBack(taken)
          BY <1>1, <1>2, <1>5, ComesBackStays
        <4>2. Reading(S) /\ DOMAIN S \subseteq 2..Len(sent)
          BY <3>1, <4>1 DEF Copying, Script
        <4> QED
          BY <1>1, <1>2, <1>5, <3>2, <4>2, ReadingStays
      <3>6. Copying(W, T)'
        BY <3>3, <3>4, <3>5 DEF Copying
      <3> QED
        BY <3>6
    <2> QED
      BY <1>3, <2>1, <2>2, <2>3 DEF CopyInv
  <1>6. CASE EndDirectory
    <2>1. open # <<>> /\ More(sent, sent')
      BY <1>1, <1>6, WritesMore DEF EndDirectory
    <2>2. ASSUME NEW V, NEW S, OpenOK(open, V), Reached(open, V), Script(sent, open, S, V)
          PROVE  \E W, T : /\ OpenOK(open', W) /\ Reached(open', W) /\ Script(sent', open', T, W)
                           /\ Larger(S, T)
      BY <1>1, <1>6, <2>2, ScriptEnd
    <2> QED
      BY <1>5, <2>1, <2>2
  <1>7. ASSUME NEW name \in Here.todo, open # <<>>, Entry(name) PROVE CopyInv'
    <2>1. More(sent, sent')
      BY <1>1, <1>7, WritesMore
    <2>2. ASSUME NEW V, NEW S, ~HasEmptyFile, OpenOK(open, V), Reached(open, V),
                 Script(sent, open, S, V)
          PROVE  \E W, T : /\ OpenOK(open', W) /\ Reached(open', W) /\ Script(sent', open', T, W)
                           /\ Larger(S, T)
      BY <1>1, <1>7, <2>2, ScriptEntry
    <2> QED
      BY <1>5, <1>7, <2>1, <2>2
  <1> QED
    BY <1>4, <1>6, <1>7

LEMMA PutMade ==
  ASSUME NEW M, MadeIs(M), NEW p, target' = Put(target, p, source[p]),
         source' = source, before' = before
  PROVE  MadeIs(M \cup {p})'
  <1>1. /\ DOMAIN target' = DOMAIN target \cup {p} /\ target'[p] = source[p]
        /\ \A q \in DOMAIN target : q # p => target'[q] = target[q]
    BY DEF Put
  <1> QED
    BY <1>1 DEF MadeIs

\* mkdir(2) where nothing is in the way
LEMMA MkdirMade ==
  ASSUME NEW M, MadeIs(M), NEW p \in DOMAIN source, source[p] = Dir, ~Conflict, CanMake(p),
         target' = Mkdir(p), source' = source, before' = before
  PROVE  MadeIs(M \cup {p})'
  <1>1. CASE Exists(p)
    <2>1. target' = target
      BY <1>1 DEF Mkdir
    <2>2. p \in DOMAIN target /\ target[p] = Dir
      BY <1>1 DEF Exists, MadeIs, Conflict
    <2> QED
      BY <2>1, <2>2 DEF MadeIs
  <1>2. CASE ~Exists(p)
    <2>1. target' = Put(target, p, source[p])
      BY <1>2 DEF Mkdir
    <2> QED
      BY <2>1, PutMade
  <1> QED
    BY <1>1, <1>2

\* what the headers say
LEMMA HeaderIs ==
  ASSUME NEW type, NEW d
  PROVE  Header(type, d).type = type /\ Header(type, d).depth = d
  BY DEF Header

LEMMA EntriesPrimed ==
  ASSUME source' = source, sent' = sent, NEW S, NEW m, NEW name
  PROVE  /\ DirEntry(sent, S, m, name) => DirEntry(sent, S, m, name)'
         /\ FileEntry(sent, S, m, name) => FileEntry(sent, S, m, name)'
  BY DEF DirEntry, FileEntry, Named

\* the header of the transmission
LEMMA ReadBegin ==
  ASSUME source \in Sources, NEW V, NEW S, Script(sent, open, S, V), ~Conflict,
         NotBegun, ReadNext, UNCHANGED <<writer, clobber, before>>
  PROVE  Reading(S)'
  <1>1. Begin /\ source' = source /\ before' = before /\ sent' = sent
    BY DEF NotBegun, ReadNext, ReadEntry, ReadStart, ReadEnd, ReadOther, FileExists, ReadFile,
           ReadNoFile, writer
  <1>2. sent[1] = Header("START_OF_TRANSMISSION", 0) /\ sent[2] = Header("START_OF_DIRECTORY", 1)
    BY DEF Script
  <1>3. /\ taken' = 2 /\ target' = Mkdir(<<>>) /\ reader' = "records" /\ depth' = 1 /\ path' = <<>>
    BY <1>1, <1>2 DEF Begin, NotBegun
  <1>4. 2 \in DOMAIN S /\ S[2].at = <<>> /\ S[2].made = {<<>>}
    BY DEF Script, Place
  <1>5. MadeIs({})
    BY DEF MadeIs, NotBegun
  <1>6. MadeIs({} \cup {<<>>})'
    BY <1>1, <1>3, <1>5, SourceFacts, MkdirMade DEF CanMake
  <1>7. MadeIs(S[2].made)' /\ Len(<<>>) + 1 = 1
    BY <1>4, <1>6
  <1>8. Between(S)'
    BY <1>3, <1>4, <1>7 DEF Between
  <1> QED
    BY <1>8 DEF Reading

\* a record of deserialize_directory
LEMMA ReadBetween ==
  ASSUME sent \in Seq(Units), NEW V, NEW S, Script(sent, open, S, V), Between(S),
         ReadNext, UNCHANGED <<writer, clobber, before>>, ~ComesBack(taken')
  PROVE  Reading(S)'
  <1>1. PICK n : n = taken
    OBVIOUS
  <1>2. /\ reader = "records" /\ n \in DOMAIN S /\ n \in Nat /\ n >= 2
        /\ n <= Len(sent) /\ Len(sent) \in Nat /\ depth = Len(S[n].at) + 1
        /\ S[n].at \in Seq(Names) /\ Len(S[n].at) \in Nat
        /\ MadeIs(S[n].made)
        /\ path = S[n].at \/ sent[n].type = "END_OF_DIRECTORY"
    BY <1>1 DEF Between, Script, Sound
  <1>3. ReadEntry \/ ReadStart \/ ReadEnd \/ ReadOther
    BY <1>2 DEF ReadNext, Begin, FileExists, ReadFile, ReadNoFile
  <1>4. source' = source /\ sent' = sent /\ open' = open /\ before' = before
    BY DEF writer
  <1>5. n < Len(sent)
    <2> SUFFICES ASSUME ~(taken < Len(sent)) PROVE FALSE
      BY <1>1, <1>2
    <2>1. taken = Len(sent) /\ taken \in Nat
      BY <1>1, <1>2
    <2>2. open # <<>>
      BY <1>1, <1>2, <2>1 DEF Script
    <2>3. ~ReadEntry
      BY <1>2, <2>1 DEF ReadEntry
    <2>4. ~ReadStart /\ ~ReadEnd
      BY <2>1 DEF ReadStart, ReadEnd, Comes, AtEnd
    <2>5. ~ReadOther
      BY <2>2 DEF ReadOther, Ready, Written
    <2> QED
      BY <1>3, <2>3, <2>4, <2>5
  <1>6. Group(sent, S, n) \/ (open = <<>> /\ LastEnd(sent, S, n))
    BY <1>2, <1>5 DEF Script
  <1>7. ~AtEnd /\ Unit = sent[n + 1]
    BY <1>1, <1>5 DEF AtEnd, Unit
  <1>8. target' = target => MadeIs(S[n].made)'
    BY <1>2, <1>4 DEF MadeIs
  <1>9. ASSUME NEW name, DirEntry(sent, S, n, name) \/ FileEntry(sent, S, n, name)
        PROVE  Reading(S)'
    <2>1. Named(sent, S, n, name)
      BY <1>9 DEF DirEntry, FileEntry
    <2>2. name \in Names /\ Len(Append(S[n].at, name)) = depth
      BY <1>2, <2>1, PathFacts DEF Named
    <2>3. sent[n + 1] = Header("DIRECTORY_ENTRY", depth) /\ sent[n + 2].name = name
      BY <2>1, <2>2 DEF Named
    <2>4. Unit.type = "DIRECTORY_ENTRY" /\ Unit.depth = depth
      BY <1>7, <2>3, HeaderIs
    <2>5. ReadEntry
      BY <1>3, <1>7, <2>4 DEF ReadStart, ReadEnd, ReadOther, Comes
    <2>6. /\ taken' = n + 2 /\ path' = Append(path, name) /\ reader' = "file"
          /\ depth' = depth /\ target' = target
      BY <1>1, <2>3, <2>5 DEF ReadEntry
    <2>7. path = S[n].at
      <3> SUFFICES ASSUME sent[n].type = "END_OF_DIRECTORY" PROVE FALSE
        BY <1>2
      <3>1. n \in 1..taken' - 1
        BY <1>2, <2>6
      <3>2. sent[n + 1].type = "DIRECTORY_ENTRY"
        BY <1>7, <2>4
      <3> QED
        BY <3>1, <3>2 DEF ComesBack
    <2>8. DirEntry(sent, S, n, name)' \/ FileEntry(sent, S, n, name)'
      BY <1>4, <1>9, EntriesPrimed
    <2>9. InFile(S, n, name)'
      BY <1>2, <1>8, <2>2, <2>6, <2>7, <2>8 DEF InFile
    <2> QED
      BY <2>9 DEF Reading
  <1>10. CASE EndOf(sent, S, n)
    <2>1. /\ n + 1 \in DOMAIN S /\ sent[n + 1] = Header("END_OF_DIRECTORY", depth)
          /\ S[n].at # <<>> /\ S[n + 1].at = Front(S[n].at) /\ S[n + 1].made = S[n].made
      BY <1>2, <1>10 DEF EndOf, Place
    <2>2. Unit.type = "END_OF_DIRECTORY" /\ Unit.depth = depth
      BY <1>7, <2>1, HeaderIs
    <2>3. ReadEnd
      BY <1>3, <1>7, <2>2 DEF ReadStart, ReadEntry, ReadOther, Comes
    <2>4. /\ taken' = n + 1 /\ depth' = depth - 1 /\ reader' = "records" /\ target' = target
      BY <1>1, <1>2, <2>3 DEF ReadEnd
    <2>5. depth' = Len(S[n + 1].at) + 1
      <3>1. Len(Front(S[n].at)) = Len(S[n].at) - 1
        BY <1>2, <2>1, PathParts
      <3> QED
        BY <1>2, <2>1, <2>4, <3>1
    <2>6. sent'[n + 1].type = "END_OF_DIRECTORY"
      BY <1>4, <1>7, <2>2
    <2>7. MadeIs(S[n + 1].made)'
      BY <1>8, <2>1, <2>4
    <2>8. Between(S)'
      BY <2>1, <2>4, <2>5, <2>6, <2>7 DEF Between
    <2> QED
      BY <2>8 DEF Reading
  <1>11. CASE open = <<>> /\ LastEnd(sent, S, n)
    <2>1. /\ n + 2 = Len(sent) /\ depth = 1 /\ S[n].made = DOMAIN source
          /\ sent[n + 1] = Header("END_OF_DIRECTORY", 1)
          /\ sent[n + 2] = Header("END_OF_TRANSMISSION", 0)
      <3>1. Len(<<>>) + 1 = 1
        OBVIOUS
      <3> QED
        BY <1>2, <1>11, <3>1 DEF LastEnd
    <2>2. Unit.type = "END_OF_DIRECTORY" /\ Unit.depth = depth
      BY <1>7, <2>1, HeaderIs
    <2>3. ReadEnd
      BY <1>3, <1>7, <2>2 DEF ReadStart, ReadEntry, ReadOther, Comes
    <2>4. /\ taken' = n + 1 /\ reader' = "records" /\ target' = target
      BY <1>1, <1>2, <2>3 DEF ReadEnd
    <2>5. taken' + 1 = Len(sent') /\ sent'[taken' + 1].type = "END_OF_TRANSMISSION"
      <3>1. taken' + 1 = n + 2
        BY <1>2, <2>4
      <3> QED
        BY <1>4, <2>1, <3>1, HeaderIs
    <2>6. MadeIs(DOMAIN source)'
      BY <1>4, <1>8, <2>1, <2>4 DEF MadeIs
    <2>7. Over'
      BY <1>4, <1>11, <2>4, <2>5, <2>6 DEF Over
    <2> QED
      BY <2>7 DEF Reading
  <1> QED
    BY <1>6, <1>9, <1>10, <1>11 DEF Group

\* the end of the transmission
LEMMA ReadOver ==
  ASSUME sent \in Seq(Units), taken \in 0..Len(sent), Over, ReadNext,
         UNCHANGED <<writer, clobber, before>>
  PROVE  Done'
  <1>1. source' = source /\ sent' = sent /\ open' = open /\ before' = before
    BY DEF writer
  <1>2. taken \in Nat /\ Len(sent) \in Nat /\ ~AtEnd /\ Unit.type = "END_OF_TRANSMISSION"
    BY DEF Over, AtEnd, Unit
  <1>3. ReadOther
    BY <1>2 DEF Over, ReadNext, Begin, ReadEntry, ReadStart, ReadEnd, FileExists, ReadFile,
                ReadNoFile, Comes
  <1>4. taken' = Len(sent) /\ reader' = "done" /\ target' = target
    BY <1>2, <1>3 DEF ReadOther, Stops, Over
  <1> QED
    BY <1>1, <1>4 DEF Over, Done, MadeIs

\* the start of a directory that is there
LEMMA ReadStarting ==
  ASSUME sent \in Seq(Units), NEW V, NEW S, Script(sent, open, S, V), NEW m, NEW name,
         Starting(S, m, name), ReadNext, UNCHANGED <<writer, clobber, before>>
  PROVE  Reading(S)'
  <1>1. source' = source /\ sent' = sent /\ open' = open /\ before' = before
    BY DEF writer
  <1>2. PICK p : p = Append(S[m].at, name)
    OBVIOUS
  <1>3. /\ reader = "records" /\ taken = m + 2 /\ m \in Nat /\ path = p /\ depth = Len(p) + 1
        /\ m + 3 \in DOMAIN S /\ m + 3 <= Len(sent) /\ Len(sent) \in Nat
        /\ sent[m + 3] = Header("START_OF_DIRECTORY", Len(p) + 1)
        /\ S[m + 3].at = p /\ S[m + 3].made = S[m].made \cup {p}
        /\ MadeIs(S[m].made \cup {p})
    BY <1>2 DEF Starting, DirEntry, Script, Place
  <1>4. ~AtEnd /\ Unit = sent[m + 3] /\ taken + 1 = m + 3
    BY <1>3 DEF AtEnd, Unit
  <1>5. Unit.type = "START_OF_DIRECTORY" /\ Unit.depth = depth
    BY <1>3, <1>4, HeaderIs
  <1>6. ReadStart
    BY <1>3, <1>4, <1>5 DEF ReadNext, Begin, ReadEntry, ReadEnd, ReadOther, FileExists, ReadFile,
                            ReadNoFile, Comes
  <1>7. /\ taken' = m + 3 /\ reader' = "records" /\ depth' = depth /\ path' = path
        /\ target' = target
    BY <1>3, <1>4, <1>6 DEF ReadStart
  <1>8. MadeIs(S[m + 3].made)'
    BY <1>1, <1>3, <1>7 DEF MadeIs
  <1>9. Between(S)'
    BY <1>3, <1>7, <1>8 DEF Between
  <1> QED
    BY <1>9 DEF Reading

\* an entry, which is a file or taken for a directory
LEMMA ReadInFile ==
  ASSUME source \in Sources, sent \in Seq(Units), ~Conflict,
         NEW V, NEW S, Script(sent, open, S, V), NEW m, NEW name,
         InFile(S, m, name), ReadNext, UNCHANGED <<writer, clobber, before>>
  PROVE  Reading(S)'
  <1>1. source' = source /\ sent' = sent /\ open' = open /\ before' = before
    BY DEF writer
  <1>2. PICK p, made : p = Append(S[m].at, name) /\ made = S[m].made
    OBVIOUS
  <1>3. /\ reader = "file" /\ taken = m + 2 /\ m \in DOMAIN S /\ m \in Nat /\ Len(sent) \in Nat
        /\ path = p /\ depth = Len(p) /\ MadeIs(made) /\ Sound(S[m])
        /\ DirEntry(sent, S, m, name) \/ FileEntry(sent, S, m, name)
    BY <1>2 DEF InFile, Script
  <1>4. /\ p \in DOMAIN source /\ p \notin made /\ p \in Seq(Names) /\ p # <<>>
        /\ Front(p) = S[m].at /\ S[m].at \in made /\ Len(p) = Len(S[m].at) + 1
        /\ source[S[m].at] = Dir
    <2>1. name \in Names /\ S[m].at \in Seq(Names) /\ p \in DOMAIN source /\ p \notin made
      BY <1>2, <1>3 DEF DirEntry, FileEntry, Named, Sound
    <2> QED
      BY <1>2, <1>3, <2>1, PathFacts DEF Sound
  <1>5. CanMake(p)
    BY <1>3, <1>4 DEF CanMake, IsDir, Exists, MadeIs
  <1>6. Exists(p) => p \in DOMAIN before /\ target[p] = before[p]
    BY <1>3, <1>4 DEF Exists, MadeIs
  <1>7. FileExists \/ ReadFile \/ ReadNoFile
    BY <1>3 DEF ReadNext, Begin, ReadEntry, ReadStart, ReadEnd, ReadOther
  <1>8. CASE DirEntry(sent, S, m, name)
    <2>1. /\ source[p] = Dir /\ m + 3 \in DOMAIN S /\ m + 3 <= Len(sent)
          /\ sent[m + 3] = Header("START_OF_DIRECTORY", Len(p) + 1)
          /\ S[m + 3].at = p /\ S[m + 3].made = made \cup {p}
      BY <1>2, <1>8 DEF DirEntry, Place
    <2>2. ~AtEnd /\ Unit = sent[m + 3] /\ taken + 1 = m + 3
      BY <1>3, <2>1 DEF AtEnd, Unit
    <2>3. Unit.type = "START_OF_DIRECTORY"
      BY <2>1, <2>2, HeaderIs
    <2>4. FileExists \/ ReadNoFile
      BY <1>7, <2>3 DEF ReadFile, Comes
    <2>5. /\ target' = Mkdir(p) /\ depth' = Len(p) + 1 /\ reader' = "records" /\ path' = p
      BY <1>3, <2>4 DEF FileExists, ReadNoFile, NotAFile
    <2>6. MadeIs(made \cup {p})'
      BY <1>1, <1>3, <1>4, <1>5, <2>1, <2>5, MkdirMade
    <2>7. CASE FileExists
      <3>1. taken' = m + 2
        BY <1>3, <2>7 DEF FileExists
      <3>2. DirEntry(sent, S, m, name)'
        BY <1>1, <1>8, EntriesPrimed
      <3>3. MadeIs(S[m].made \cup {path})'
        BY <1>2, <2>5, <2>6 DEF MadeIs
      <3>4. Starting(S, m, name)'
        BY <1>2, <1>3, <2>5, <3>1, <3>2, <3>3 DEF Starting
      <3> QED
        BY <3>4 DEF Reading
    <2>8. CASE ReadNoFile
      <3>1. taken' = m + 3
        BY <2>2, <2>8 DEF ReadNoFile
      <3>2. MadeIs(S[m + 3].made)'
        BY <2>1, <2>6
      <3>3. Between(S)'
        BY <2>1, <2>5, <3>1, <3>2 DEF Between
      <3> QED
        BY <3>3 DEF Reading
    <2> QED
      BY <2>4, <2>7, <2>8
  <1>9. CASE FileEntry(sent, S, m, name)
    <2>1. /\ source[p] # Dir /\ m + 4 \in DOMAIN S /\ m + 4 <= Len(sent)
          /\ sent[m + 3] = Header("FILE_DATA", Len(p)) /\ sent[m + 4].data = source[p]
          /\ S[m + 4].at = S[m].at /\ S[m + 4].made = made \cup {p}
      BY <1>2, <1>9 DEF FileEntry, Place
    <2>2. ~AtEnd /\ Unit = sent[m + 3] /\ taken + 2 = m + 4
      BY <1>3, <2>1 DEF AtEnd, Unit
    <2>3. Unit.type = "FILE_DATA" /\ Unit.depth = depth
      BY <1>3, <2>1, <2>2, HeaderIs
    <2>4. ~Kept
      <3> SUFFICES ASSUME Exists(p), ~clobber PROVE FALSE
        BY <1>3 DEF Kept
      <3> QED
        BY <1>4, <1>6, <2>1 DEF Conflict
    <2>5. CanWrite
      <3>1. ~IsDir(p)
        BY <1>4, <1>6, <2>1 DEF IsDir, Conflict
      <3> QED
        BY <1>3, <1>5, <3>1 DEF CanWrite
    <2>6. ReadFile
      BY <1>7, <2>2, <2>3, <2>4, <2>5 DEF FileExists, ReadNoFile, Comes
    <2>7. /\ taken' = m + 4 /\ target' = Put(target, p, source[p]) /\ path' = Front(p)
          /\ reader' = "records" /\ depth' = Len(p)
      BY <1>3, <2>1, <2>2, <2>6 DEF ReadFile, Popped
    <2>8. MadeIs(made \cup {p})'
      BY <1>1, <1>3, <2>7, PutMade
    <2>9. MadeIs(S[m + 4].made)'
      BY <2>1, <2>8
    <2>10. Between(S)'
      BY <1>4, <2>1, <2>7, <2>9 DEF Between
    <2> QED
      BY <2>10 DEF Reading
  <1> QED
    BY <1>3, <1>8, <1>9

\* a step of the reader
LEMMA CopyInvReader ==
  ASSUME WriterInv, CopyInv, ReadNext, UNCHANGED <<writer, clobber, before>>
  PROVE  CopyInv'
  <1>1. /\ source' = source /\ sent' = sent /\ open' = open /\ before' = before
        /\ clobber' = clobber
    BY DEF writer
  <1>2. /\ source \in Sources /\ sent \in Seq(Units) /\ Len(sent) \in Nat
        /\ taken \in Nat /\ taken <= Len(sent)
    BY DEF WriterInv, CopyInv
  <1>3. taken' \in Nat /\ taken <= taken' /\ taken' <= Len(sent) /\ reader' # "begin"
    <2>1. CASE Begin
      <3>1. taken' = 2 /\ 2 <= Len(sent) /\ reader' # "begin" /\ taken = 0
        BY <2>1 DEF Begin, Stops, CopyInv, NotBegun
      <3> QED
        BY <3>1
    <2>2. CASE ReadEntry \/ ReadFile
      BY <1>2, <2>2 DEF ReadEntry, ReadFile
    <2>3. CASE ReadStart \/ ReadEnd
      BY <1>2, <2>3 DEF ReadStart, ReadEnd, Comes, AtEnd
    <2>4. CASE ReadOther \/ ReadNoFile
      BY <1>2, <2>4 DEF ReadOther, ReadNoFile, AtEnd, Stops, NotAFile
    <2>5. CASE FileExists
      BY <1>2, <2>5 DEF FileExists, NotAFile
    <2> QED
      BY <2>1, <2>2, <2>3, <2>4, <2>5 DEF ReadNext
  <1>4. sent # <<>>
    <2> SUFFICES ASSUME sent = <<>> PROVE FALSE
      OBVIOUS
    <2>1. NotBegun /\ Len(sent) = 0
      BY DEF CopyInv
    <2> QED
      BY <2>1 DEF NotBegun, ReadNext, Begin, ReadEntry, ReadStart, ReadEnd, ReadOther, FileExists,
                  ReadFile, ReadNoFile
  <1>5. (HasEmptyFile' <=> HasEmptyFile) /\ (Conflict' <=> Conflict)
    BY <1>1 DEF HasEmptyFile, Conflict
  <1>6. ASSUME ~HasEmptyFile, ~Conflict PROVE \E V, S : Copying(V, S)'
    <2> PICK V, S : Copying(V, S)
      BY <1>4, <1>6 DEF CopyInv
    <2>1. OpenOK(open, V)' /\ Reached(open, V)'
      BY <1>1 DEF Copying, OpenOK, Reached, ToDo
    <2>2. Script(sent, open, S, V)
      BY DEF Copying
    <2>3. Script(sent, open, S, V)'
      <3>1. Script(sent', open', S, V)
        BY <1>1, <2>2
      <3> QED
        BY <1>1, <3>1, ScriptPrimed
    <2>4. ~ComesBack(taken)' => Reading(S)'
      <3> SUFFICES ASSUME ~ComesBack(taken)' PROVE Reading(S)'
        OBVIOUS
      <3>1. More(sent, sent')
        BY <1>1, <1>2 DEF More
      <3>2. ~ComesBack(taken)
        BY <1>1, <1>2, <1>3, <3>1, ComesBackStays
      <3>3. ~ComesBack(taken')
        BY <1>1 DEF ComesBack
      <3>4. Reading(S)
        BY <3>2 DEF Copying
      <3>5. CASE NotBegun
        BY <1>2, <1>6, <2>2, <3>5, ReadBegin
      <3>6. CASE Between(S)
        BY <1>2, <2>2, <3>3, <3>6, ReadBetween
      <3>7. CASE Over
        <4>1. Done'
          BY <1>2, <3>7, ReadOver
        <4> QED
          BY <4>1 DEF Reading
      <3>8. CASE Done
        BY <3>8 DEF Done, ReadNext, Begin, ReadEntry, ReadStart, ReadEnd, ReadOther, FileExists,
                    ReadFile, ReadNoFile
      <3>9. ASSUME NEW m, NEW name, InFile(S, m, name) PROVE Reading(S)'
        BY <1>2, <1>6, <2>2, <3>9, ReadInFile
      <3>10. ASSUME NEW m, NEW name, Starting(S, m, name) PROVE Reading(S)'
        BY <1>2, <2>2, <3>10, ReadStarting
      <3> QED
        BY <3>4, <3>5, <3>6, <3>7, <3>8, <3>9, <3>10 DEF Reading
    <2>5. Copying(V, S)'
      BY <2>1, <2>3, <2>4 DEF Copying
    <2> QED
      BY <2>5
  <1>7. taken' \in 0..Len(sent') /\ sent' # <<>>
    BY <1>1, <1>2, <1>3, <1>4
  <1> QED
    BY <1>3, <1>5, <1>6, <1>7 DEF CopyInv

\* nothing happens
LEMMA CopyInvIdle ==
  ASSUME CopyInv, UNCHANGED vars
  PROVE  CopyInv'
  <1>1. /\ source' = source /\ sent' = sent /\ open' = open /\ before' = before
        /\ clobber' = clobber /\ taken' = taken /\ reader' = reader /\ depth' = depth
        /\ path' = path /\ target' = target
    BY DEF vars, writer
  <1>2. NotBegun => NotBegun'
    BY <1>1 DEF NotBegun
  <1>3. (HasEmptyFile' <=> HasEmptyFile) /\ (Conflict' <=> Conflict)
    BY <1>1 DEF HasEmptyFile, Conflict
  <1>4. ASSUME NEW V, NEW S, Copying(V, S) PROVE Copying(V, S)'
    <2>1. OpenOK(open, V)' /\ Reached(open, V)'
      BY <1>1, <1>4 DEF Copying, OpenOK, Reached, ToDo
    <2>2. Script(sent, open, S, V)'
      <3>1. Script(sent', open', S, V)
        BY <1>1, <1>4 DEF Copying
      <3> QED
        BY <1>1, <3>1, ScriptPrimed
    <2>3. \A M : MadeIs(M) => MadeIs(M)'
      BY <1>1 DEF MadeIs
    <2>4. Reading(S) => Reading(S)'
      <3>1. CASE NotBegun
        BY <1>2, <3>1 DEF Reading
      <3>2. Between(S) => Between(S)'
        <4> SUFFICES ASSUME Between(S) PROVE Between(S)'
          OBVIOUS
        <4>1. MadeIs(S[taken].made)'
          BY <1>1 DEF Between, MadeIs
        <4> QED
          BY <1>1, <4>1 DEF Between
      <3>3. Over \/ Done => (Over \/ Done)'
        BY <1>1 DEF Over, Done, MadeIs
      <3>4. ASSUME NEW m, NEW name, InFile(S, m, name) PROVE InFile(S, m, name)'
        <4>1. DirEntry(sent, S, m, name)' \/ FileEntry(sent, S, m, name)'
          BY <1>1, <3>4, EntriesPrimed DEF InFile
        <4>2. MadeIs(S[m].made)'
          BY <2>3, <3>4 DEF InFile
        <4> QED
          BY <1>1, <3>4, <4>1, <4>2 DEF InFile
      <3>5. ASSUME NEW m, NEW name, Starting(S, m, name) PROVE Starting(S, m, name)'
        <4>1. DirEntry(sent, S, m, name)'
          BY <1>1, <3>5, EntriesPrimed DEF Starting
        <4>2. MadeIs(S[m].made \cup {path})'
          BY <1>1, <3>5 DEF Starting, MadeIs
        <4> QED
          BY <1>1, <3>5, <4>1, <4>2 DEF Starting
      <3> QED
        BY <3>1, <3>2, <3>3, <3>4, <3>5 DEF Reading
    <2>5. ComesBack(taken)' <=> ComesBack(taken)
      BY <1>1 DEF ComesBack
    <2> QED
      BY <1>4, <2>1, <2>2, <2>4, <2>5 DEF Copying
  <1>5. sent' # <<>> /\ ~HasEmptyFile' /\ ~Conflict' => \E V, S : Copying(V, S)'
    <2> SUFFICES ASSUME sent # <<>>, ~HasEmptyFile, ~Conflict PROVE \E V, S : Copying(V, S)'
      BY <1>1, <1>3
    <2> PICK V, S : Copying(V, S)
      BY DEF CopyInv
    <2>1. Copying(V, S)'
      BY <1>4
    <2> QED
      BY <2>1
  <1> QED
    BY <1>1, <1>2, <1>5 DEF CopyInv

THEOREM TransplantReader == Spec => []CopyInv
  <1>1. Init => CopyInv
    <2> SUFFICES ASSUME Init PROVE CopyInv
      OBVIOUS
    <2>1. sent = <<>> /\ taken = 0 /\ NotBegun
      BY DEF Init, NotBegun
    <2>2. Len(sent) = 0
      BY <2>1
    <2> QED
      BY <2>1, <2>2 DEF CopyInv
  <1>2. WriterInv /\ WriterInv' /\ CopyInv /\ [Next]_vars => CopyInv'
    <2> SUFFICES ASSUME WriterInv, WriterInv', CopyInv, [Next]_vars PROVE CopyInv'
      OBVIOUS
    <2>1. CASE UNCHANGED Unread /\ \/ StartTransmission \/ EndDirectory
                                   \/ open # <<>> /\ \E name \in Here.todo : Entry(name)
      BY <2>1, CopyInvWriter
    <2>2. CASE ReadNext /\ UNCHANGED <<writer, clobber, before>>
      BY <2>2, CopyInvReader
    <2>3. CASE UNCHANGED vars
      BY <2>3, CopyInvIdle
    <2> QED
      BY <2>1, <2>2, <2>3 DEF Next, Unread
  <1> QED
    BY <1>1, <1>2, TransplantWriter, PTL DEF Spec

\* A tree without empty files, of which no directory is followed by another entry,
\* is copied: all that is made is in the source, under its path, and when the
\* reader is done nothing is missing.
THEOREM TransplantCopied == Spec => []Copied
  <1>1. CopyInv => Copied
    <2> SUFFICES ASSUME CopyInv, ~Conflict, ~HasEmptyFile, ~ComesBack(taken)
                 PROVE  /\ \A p \in DOMAIN target :
                             \/ p \in DOMAIN source /\ target[p] = source[p]
                             \/ p \in DOMAIN before /\ target[p] = before[p]
                        /\ reader = "done" => AllCopied
      BY DEF Copied
    <2>1. ASSUME NEW M, MadeIs(M), M \subseteq DOMAIN source
          PROVE  \A p \in DOMAIN target : \/ p \in DOMAIN source /\ target[p] = source[p]
                                          \/ p \in DOMAIN before /\ target[p] = before[p]
      BY <2>1 DEF MadeIs
    <2>2. CASE NotBegun
      BY <2>2 DEF NotBegun
    <2>3. CASE ~NotBegun
      <3> PICK V, S : Copying(V, S)
        BY <2>3 DEF CopyInv
      <3>1. Reading(S) /\ \A n \in DOMAIN S : Sound(S[n])
        BY DEF Copying, Script
      <3>2. CASE Between(S)
        <4>1. MadeIs(S[taken].made) /\ S[taken].made \subseteq DOMAIN source /\ reader # "done"
          BY <3>1, <3>2 DEF Between, Sound
        <4> QED
          BY <2>1, <4>1
      <3>3. CASE Over
        BY <2>1, <3>3 DEF Over
      <3>4. CASE Done
        <4>1. MadeIs(DOMAIN source)
          BY <3>4 DEF Done
        <4>2. AllCopied
          BY <4>1 DEF AllCopied, MadeIs, Exists
        <4> QED
          BY <2>1, <4>1, <4>2
      <3>5. ASSUME NEW m, NEW name, InFile(S, m, name)
            PROVE  MadeIs(S[m].made) /\ S[m].made \subseteq DOMAIN source /\ reader # "done"
        BY <3>1, <3>5 DEF InFile, Sound
      <3>6. ASSUME NEW m, NEW name, Starting(S, m, name)
            PROVE  /\ MadeIs(S[m].made \cup {path}) /\ S[m].made \cup {path} \subseteq DOMAIN source
                   /\ reader # "done"
        BY <3>1, <3>6 DEF Starting, Sound, DirEntry, Named
      <3>7. CASE \E m, name : InFile(S, m, name)
        BY <2>1, <3>5, <3>7
      <3>8. CASE \E m, name : Starting(S, m, name)
        BY <2>1, <3>6, <3>8
      <3> QED
        BY <2>3, <3>1, <3>2, <3>3, <3>4, <3>7, <3>8 DEF Reading
    <2> QED
      BY <2>2, <2>3
  <1> QED
    BY <1>1, TransplantReader, PTL

=============================================================================
