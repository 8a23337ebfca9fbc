------------------------- MODULE CommandLineProofs --------------------------
(***************************************************************************)
(* Theorems about module CommandLine, for every session, every first size  *)
(* of the buffer, and whether or not realloc may fail.                     *)
(*                                                                         *)
(* While a line is read the buffer holds what was typed since the line was *)
(* begun.  A line begins behind a newline, or where the input ends, and    *)
(* from there no line is carried out any more.                             *)
(*                                                                         *)
(* A task is said to be laid out in a text when there are positions in it  *)
(* where each of its words, paths and signs is, with nothing but spaces    *)
(* between them.  What the parser reads of a text in which a task is laid  *)
(* out is that task, by induction from the end of every list of it; what   *)
(* the printer joins is a text in which the task is laid out.              *)
(*                                                                         *)
(* A parsing function gives, of the words that remain from where it begins,*)
(* those it returns, and leaves the others to where it leaves off.  So the *)
(* words of a task are those of the line that was typed.                   *)
(***************************************************************************)
EXTENDS CommandLine, SequenceTheorems, FiniteSetTheorems, TLAPS

Line == SubSeq(session, from + 1, typed)

BufferTyped ==
  /\ session \in Seq(STRING) /\ buf \in Seq(STRING)
  /\ typed \in 0 .. Len(session) /\ from \in 0 .. typed
  /\ size \in Nat /\ size > 1 /\ room \in Nat

\* Room for the terminator in what is allocated, which is what the reader takes it for
\* while it reads; and no newline in the line.
Roomy ==
  /\ Len(buf) < room /\ (pc = "read" => room = size)
  /\ \A i \in DOMAIN buf : buf[i] # Newline

\* While no piece was lost.
BeingRead ==
  pc = "read" => buf = Line /\ (from > 0 => session[from] = Newline \/ from = Len(session))

ReadyToRun ==
  pc = "dispatch" =>
    /\ (Line = buf /\ AtEnd) \/ Line = Append(buf, Newline)
    /\ from > 0 => session[from] = Newline

LInv == BufferTyped /\ Roomy /\ (~refused => BeingRead /\ ReadyToRun)

LEMMA LInvInit == Init => LInv
  <1> SUFFICES ASSUME Init PROVE LInv
    OBVIOUS
  <1>1. BufferTyped
    BY CommandLineAssumption DEF Init, BufferTyped
  <1>2. Line = <<>>
    BY SubSeqEmpty DEF Init, Line
  <1> QED
    BY <1>1, <1>2, CommandLineAssumption DEF Init, LInv, Roomy, BeingRead, ReadyToRun

\* The next piece lengthens the line by one.
LEMMA LineGrows ==
  ASSUME BufferTyped, ~AtEnd, typed' = typed + 1, UNCHANGED <<session, from>>
  PROVE  Line' = Append(Line, Piece) /\ Piece \in STRING /\ Line \in Seq(STRING)
  <1> USE DEF BufferTyped, Line, AtEnd, Piece
  <1>1. typed + 1 \in 1 .. Len(session) /\ from + 1 \in 1 .. Len(session)
        /\ typed + 1 \in from + 1 .. Len(session)
    OBVIOUS
  <1>2. session[typed + 1] \in STRING
    BY <1>1, ElementOfSeq
  <1>3. SubSeq(session, from + 1, typed) \in Seq(STRING)
    <2>1. \A i \in from + 1 .. typed : session[i] \in STRING
      BY ElementOfSeq
    <2> QED
      BY <2>1, SubSeqProperties
  <1>4. SubSeq(session, from + 1, typed + 1)
          = SubSeq(session, from + 1, typed + 1 - 1) \o <<session[typed + 1]>>
    BY <1>1, SubSeqRecursiveSecond
  <1>5. typed + 1 - 1 = typed
    OBVIOUS
  <1> QED
    BY <1>2, <1>3, <1>4, <1>5, AppendIsConcat

\* Nothing has been typed of the line that begins at the end of the input.
LEMMA BegunBeforeTheEnd ==
  ASSUME BufferTyped, buf = Line, from = Len(session)
  PROVE  AtEnd /\ buf = <<>>
  BY SubSeqEmpty DEF BufferTyped, Line, AtEnd

LEMMA LInvNext ==
  ASSUME LInv, [Next]_vars
  PROVE  LInv'
  <1> USE DEF LInv
  <1>1. CASE ReadEof
    <2>1. BufferTyped' /\ Roomy' /\ Line' = Line /\ refused' = refused
      BY <1>1 DEF ReadEof, Carry, BufferTyped, Roomy, Line
    <2>2. ASSUME ~refused PROVE BeingRead' /\ ReadyToRun'
      <3>1. pc = "read" /\ AtEnd /\ BeingRead
        BY <1>1, <2>2 DEF ReadEof
      <3>2. from = Len(session) => buf = <<>>
        BY <3>1, BegunBeforeTheEnd DEF BeingRead
      <3> QED
        BY <1>1, <2>1, <3>1, <3>2
        DEF ReadEof, Carry, AtEnd, BeingRead, ReadyToRun
    <2> QED
      BY <2>1, <2>2
  <1>2. CASE ReadNewline
    <2>1. /\ ~AtEnd /\ typed' = typed + 1 /\ Piece = Newline /\ pc' = "dispatch"
          /\ UNCHANGED <<session, from, buf, room, size, refused>> /\ pc = "read"
      BY <1>2 DEF ReadNewline, Carry
    <2>2. BufferTyped' /\ Roomy'
      BY <2>1 DEF BufferTyped, Roomy, AtEnd
    <2>3. ASSUME ~refused PROVE BeingRead' /\ ReadyToRun'
      <3>1. Line' = Append(buf, Newline)
        BY <2>1, <2>3, LineGrows DEF BeingRead
      <3>2. from # Len(session)
        BY <2>1, <2>3, BegunBeforeTheEnd DEF BeingRead
      <3> QED
        BY <2>1, <2>3, <3>1, <3>2 DEF BeingRead, ReadyToRun
    <2> QED
      BY <2>1, <2>2, <2>3
  <1>3. CASE ReadPiece
    <2>1. /\ ~AtEnd /\ typed' = typed + 1 /\ Piece # Newline
          /\ buf' = Append(buf, Piece)
          /\ size' = IF Len(buf) >= size - 1 THEN 2 * size ELSE size
          /\ room' = IF Len(buf) >= size - 1 THEN 2 * size ELSE room
          /\ UNCHANGED <<session, pc, from, refused>> /\ pc = "read"
      BY <1>3 DEF ReadPiece, Doubles, Stays
    <2>2. Line' = Append(Line, Piece) /\ Piece \in STRING
      BY <2>1, LineGrows
    <2>3. /\ buf' \in Seq(STRING) /\ Len(buf') = Len(buf) + 1
          /\ \A i \in 1 .. Len(buf) : buf'[i] = buf[i]
          /\ buf'[Len(buf) + 1] = Piece
      BY <2>1, <2>2, AppendProperties DEF BufferTyped
    <2>4. BufferTyped'
      BY <2>1, <2>3 DEF BufferTyped, AtEnd, Roomy
    <2>5. Len(buf') < room' /\ room' = size'
      BY <2>1, <2>3 DEF BufferTyped, Roomy
    <2>6. \A i \in 1 .. Len(buf) + 1 : buf'[i] # Newline
      <3>1. \A i \in 1 .. Len(buf) : buf'[i] # Newline
        BY <2>3 DEF Roomy, BufferTyped
      <3>2. \A i \in 1 .. Len(buf) + 1 : i \in 1 .. Len(buf) \/ i = Len(buf) + 1
        BY DEF BufferTyped
      <3> QED
        BY <2>1, <2>3, <3>1, <3>2
    <2>7. Roomy'
      BY <2>3, <2>5, <2>6 DEF Roomy
    <2> QED
      BY <2>1, <2>2, <2>4, <2>7 DEF BeingRead, ReadyToRun
  <1>4. CASE ReallocFails
    <2>1. /\ ~AtEnd /\ typed' = typed + 1 /\ size' = 2 * size /\ refused'
          /\ pc' = "dispatch" /\ UNCHANGED <<session, buf, room, from>>
      BY <1>4 DEF ReallocFails
    <2> QED
      BY <2>1 DEF BufferTyped, Roomy, AtEnd
  <1>5. CASE Dispatch
    <2>1. /\ pc = "dispatch" /\ pc' # "dispatch"
          /\ buf' = <<>> /\ room' = BUFSIZE /\ size' = BUFSIZE /\ from' = typed
          /\ UNCHANGED <<session, typed, refused>>
      BY <1>5 DEF Dispatch
    <2>2. BufferTyped' /\ Roomy'
      BY <2>1, CommandLineAssumption DEF BufferTyped, Roomy
    <2>3. Line' = <<>>
      BY <2>1, SubSeqEmpty DEF BufferTyped, Line
    <2>4. ASSUME ~refused, typed > 0
          PROVE  session[typed] = Newline \/ typed = Len(session)
      <3>1. CASE AtEnd
        BY <3>1 DEF AtEnd
      <3>2. CASE Line = Append(buf, Newline)
        <4>1. Len(Line) = Len(buf) + 1 /\ Line[Len(buf) + 1] = Newline
          BY <3>2, AppendProperties DEF BufferTyped, Newline
        <4>2. \A i \in from + 1 .. typed : session[i] \in STRING
          BY ElementOfSeq DEF BufferTyped
        <4>3. /\ Len(Line) = IF from + 1 <= typed THEN typed - (from + 1) + 1 ELSE 0
              /\ \A i \in 1 .. typed - (from + 1) + 1 : Line[i] = session[from + 1 + i - 1]
          <5>1. from + 1 \in Int /\ typed \in Int
            BY DEF BufferTyped
          <5> QED
            BY <4>2, <5>1, SubSeqProperties DEF Line
        <4>4. Len(buf) + 1 = typed - from /\ Len(buf) \in Nat
          BY <4>1, <4>3 DEF BufferTyped
        <4> QED
          BY <4>1, <4>3, <4>4 DEF BufferTyped
      <3> QED
        BY <2>1, <2>4, <3>1, <3>2 DEF ReadyToRun
    <2> QED
      BY <2>1, <2>2, <2>3, <2>4 DEF BeingRead, ReadyToRun
  <1>6. CASE UNCHANGED vars
    BY <1>6 DEF vars, BufferTyped, Roomy, BeingRead, ReadyToRun, Line, AtEnd
  <1> QED
    BY <1>1, <1>2, <1>3, <1>4, <1>5, <1>6 DEF Next

\* A line is carried out as it was typed, however long it is and however often the
\* buffer grows; where the buffer could not grow the terminator still has its place in what is allocated.
THEOREM CommandLineIntact == Spec => []LineIntact
  <1>1. LInv => LineIntact
    BY DEF LInv, Roomy, ReadyToRun, Line, LineIntact
  <1> QED
    BY <1>1, LInvInit, LInvNext, PTL DEF Spec

-----------------------------------------------------------------------------
(* Induction, over a set of numbers.  The library's theorems take the      *)
(* predicate as an operator; this one follows from the pigeonhole          *)
(* principle: if m were the exception, adding 1 would map the members up   *)
(* to m into those without 0.                                              *)

LEMMA SetInduction ==
  ASSUME NEW S, 0 \in S, \A n \in Nat : n \in S => n + 1 \in S
  PROVE  Nat \subseteq S
  <1> SUFFICES ASSUME NEW m \in Nat, m \notin S PROVE FALSE
    OBVIOUS
  <1> DEFINE T == {n \in 0..m : n \in S}
             U == T \ {0}
             f == [n \in T |-> n + 1]
  <1>1. 0 \in T
    OBVIOUS
  <1>2. IsFiniteSet(T) /\ Cardinality(T) \in Nat
    <2>1. IsFiniteSet(0..m) /\ T \in SUBSET (0..m)
      BY FS_Interval
    <2> HIDE DEF T
    <2> QED
      BY <2>1, FS_Subset, FS_CardinalityType
  <1>3. IsFiniteSet(U) /\ Cardinality(U) = Cardinality(T) - 1
    <2> HIDE DEF T
    <2> QED
      BY <1>1, <1>2, FS_RemoveElement
  <1>4. f \in [T -> U]
    OBVIOUS
  <1>5. PICK x, y \in T : x # y /\ f[x] = f[y]
    <2> HIDE DEF f, T, U
    <2> QED
      BY <1>2, <1>3, <1>4, FS_PigeonHole
  <1> QED
    BY <1>5

LEMMA BoundedInduction ==
  ASSUME NEW N \in Nat, NEW S, 0 \in S, \A n \in 0..N - 1 : n \in S => n + 1 \in S
  PROVE  0..N \subseteq S
  <1> DEFINE T == {n \in Nat : n <= N => n \in S}
  <1>1. 0 \in T /\ \A n \in Nat : n \in T => n + 1 \in T
    OBVIOUS
  <1>2. Nat \subseteq T
    <2> HIDE DEF T
    <2> QED
      BY <1>1, SetInduction
  <1> QED
    BY <1>2

\* what takes the number of a place and the value before to a value
Steps(N, V) == [(1..N) \X V -> V]

\* There is a function that is defined by what it is before.
LEMMA Iteration ==
  ASSUME NEW N \in Nat, NEW V, NEW x \in V, NEW g \in Steps(N, V)
  PROVE  \E f \in [0..N -> V] : f[0] = x /\ \A n \in 1..N : f[n] = g[<<n, f[n - 1]>>]
  <1> DEFINE Upto(k, f) ==
               /\ f \in [0..k -> V]
               /\ f[0] = x
               /\ \A n \in 1..k : f[n] = g[<<n, f[n - 1]>>]
             T == {k \in 0..N : \E f : Upto(k, f)}
  <1>1. 0 \in T
    <2> DEFINE f == [n \in 0..0 |-> x]
    <2>1. f \in [0..0 -> V] /\ f[0] = x
      OBVIOUS
    <2>2. Upto(0, f)
      BY <2>1
    <2> HIDE DEF f, Upto
    <2> QED
      BY <2>2
  <1>2. \A k \in 0..N - 1 : k \in T => k + 1 \in T
    <2> SUFFICES ASSUME NEW k \in 0..N - 1, \E f : Upto(k, f)
                 PROVE  \E h : Upto(k + 1, h)
      <3> HIDE DEF Upto
      <3> QED
        OBVIOUS
    <2> PICK f : Upto(k, f)
      OBVIOUS
    <2> DEFINE h == [n \in 0..k + 1 |-> IF n = k + 1 THEN g[<<n, f[n - 1]>>] ELSE f[n]]
    <2>1. h \in [0..k + 1 -> V]
      BY DEF Steps
    <2>2. h[0] = x
      OBVIOUS
    <2>3. \A n \in 1..k + 1 : h[n] = g[<<n, h[n - 1]>>]
      BY SMTT(30)
    <2>4. Upto(k + 1, h)
      BY <2>1, <2>2, <2>3
    <2> HIDE DEF h, Upto
    <2> QED
      BY <2>4
  <1>3. N \in T
    <2> HIDE DEF T
    <2> QED
      BY <1>1, <1>2, BoundedInduction
  <1>4. PICK f : Upto(N, f)
    <2> HIDE DEF Upto
    <2> QED
      BY <1>3
  <1> QED
    BY <1>4

\* downwards
LEMMA DownInduction ==
  ASSUME NEW N \in Nat, NEW S, \A i \in 1..N : (\A j \in 1..N : j > i => j \in S) => i \in S
  PROVE  1..N \subseteq S
  <1> DEFINE T == {k \in 0..N : \A j \in 1..N : j > N - k => j \in S}
  <1>1. 0 \in T
    OBVIOUS
  <1>2. \A k \in 0..N - 1 : k \in T => k + 1 \in T
    <2> SUFFICES ASSUME NEW k \in 0..N - 1, \A j \in 1..N : j > N - k => j \in S
                 PROVE  \A j \in 1..N : j > N - (k + 1) => j \in S
      OBVIOUS
    <2>1. N - k \in 1..N /\ N - k \in S
      OBVIOUS
    <2> QED
      BY <2>1
  <1>3. N \in T
    <2> HIDE DEF T
    <2> QED
      BY <1>1, <1>2, BoundedInduction
  <1> QED
    BY <1>3

\* There is a function that is defined by what it is further on.
Descends(N, V, next, base, g) ==
  /\ N \in Nat /\ next \in [1..N -> 0..N] /\ \A i \in 1..N : next[i] = 0 \/ next[i] > i
  /\ base \in [1..N -> V] /\ g \in Steps(N, V)

LEMMA Descent ==
  ASSUME NEW N, NEW V, NEW next, NEW base, NEW g, Descends(N, V, next, base, g)
  PROVE  \E f \in [1..N -> V] :
           \A i \in 1..N : /\ next[i] = 0 => f[i] = base[i]
                           /\ next[i] # 0 => f[i] = g[<<i, f[next[i]]>>]
  <1>0. /\ N \in Nat /\ next \in [1..N -> 0..N] /\ \A i \in 1..N : next[i] = 0 \/ next[i] > i
        /\ base \in [1..N -> V] /\ g \in Steps(N, V)
    BY DEF Descends
  <1> DEFINE From(k, f) ==
               /\ f \in [k + 1..N -> V]
               /\ \A i \in k + 1..N :
                    f[i] = IF next[i] = 0 THEN base[i] ELSE g[<<i, f[next[i]]>>]
             T == {k \in 0..N : \E f : From(N - k, f)}
  <1>1. 0 \in T
    <2>1. N - 0 = N /\ N + 1..N = {}
      BY <1>0
    <2>2. From(N - 0, [i \in {} |-> 0])
      <3>1. [i \in {} |-> 0] \in [N + 1..N -> V] /\ \A i \in N + 1..N : FALSE
        BY <2>1
      <3> QED
        BY <2>1, <3>1
    <2> HIDE DEF From
    <2> QED
      BY <1>0, <2>2
  <1>2. \A k \in 0..N - 1 : k \in T => k + 1 \in T
    <2> SUFFICES ASSUME NEW k \in 0..N - 1, \E f : From(N - k, f)
                 PROVE  \E h : From(N - (k + 1), h)
      <3>1. ASSUME NEW k \in 0..N - 1, k \in T PROVE k \in 0..N /\ \E f : From(N - k, f)
        BY <3>1
      <3>2. ASSUME NEW k \in 0..N - 1, \E h : From(N - (k + 1), h) PROVE k + 1 \in T
        <4>1. k + 1 \in 0..N
          BY <1>0
        <4> HIDE DEF From
        <4> QED
          BY <3>2, <4>1
      <3> HIDE DEF From, T
      <3> QED
        BY <3>1, <3>2
    <2> PICK f : From(N - k, f)
      OBVIOUS
    <2> PICK m \in 1..N : m = N - k
      BY <1>0
    <2>1. /\ N - (k + 1) = m - 1 /\ m - 1 + 1 = m
          /\ \A i : i \in m..N <=> i = m \/ i \in m + 1..N
      BY <1>0
    <2>2. f \in [m + 1..N -> V]
          /\ \A i \in m + 1..N :
               f[i] = IF next[i] = 0 THEN base[i] ELSE g[<<i, f[next[i]]>>]
      OBVIOUS
    <2> DEFINE top == IF next[m] = 0 THEN base[m] ELSE g[<<m, f[next[m]]>>]
               h == [i \in m..N |-> IF i = m THEN top ELSE f[i]]
    <2>3. \A i \in m..N : next[i] = 0 \/ (next[i] \in m + 1..N /\ next[i] > i)
      BY <1>0
    <2>4. top \in V
      BY <1>0, <2>2, <2>3 DEF Steps
    <2>5. h[m] = top /\ \A i \in m + 1..N : h[i] = f[i]
      BY <2>1
    <2>6. h \in [m..N -> V]
      <3> HIDE DEF top
      <3> QED
        BY <2>1, <2>2, <2>4
    <2>7. ASSUME NEW i \in m..N
          PROVE  h[i] = IF next[i] = 0 THEN base[i] ELSE g[<<i, h[next[i]]>>]
      <3>1. next[i] # 0 => h[next[i]] = f[next[i]]
        BY <2>3, <2>5
      <3>2. CASE i = m
        BY <2>5, <3>1, <3>2
      <3>3. CASE i # m
        BY <2>1, <2>2, <2>5, <3>1, <3>3
      <3> QED
        BY <3>2, <3>3
    <2> HIDE DEF h
    <2>8. From(m - 1, h)
      BY <2>1, <2>6, <2>7
    <2> HIDE DEF From
    <2> QED
      BY <2>1, <2>8
  <1>3. N \in T
    <2> HIDE DEF T
    <2>1. 0..N \subseteq T
      BY <1>0, <1>1, <1>2, BoundedInduction
    <2> QED
      BY <1>0, <2>1
  <1>4. PICK f : From(N - N, f)
    <2> HIDE DEF From
    <2> QED
      BY <1>3
  <1>5. N - N + 1..N = 1..N
    BY <1>0
  <1> QED
    BY <1>4, <1>5

-----------------------------------------------------------------------------
(* Skipping.                                                               *)

\* The strings, with those that are named in the code: the provers do not know that
\* a literal is a string.
Pieces == STRING \cup {Space} \cup Delimiters

Spaces(s, a, b) == \A k \in a..b - 1 : s[k] = Space
Wordy(s, a, b) == \A k \in a..b - 1 : IsWordPiece(s[k])

\* Some position is the first that is outside a set.
LEMMA FirstOutside ==
  ASSUME NEW n \in Nat, NEW i \in 1..n + 1, NEW B
  PROVE  \E j \in i..n + 1 : (j = n + 1 \/ j \notin B) /\ \A k \in i..j - 1 : k \in B
  <1> SUFFICES ASSUME \A j \in i..n + 1 : (\A k \in i..j - 1 : k \in B) => j # n + 1 /\ j \in B
               PROVE  FALSE
    OBVIOUS
  <1> DEFINE T == {d \in 0..n + 1 - i : \A k \in i..i + d : k \in B}
  <1>1. 0 \in T
    <2>1. i \in B
      OBVIOUS
    <2> QED
      BY <2>1
  <1>2. \A d \in 0..n + 1 - i - 1 : d \in T => d + 1 \in T
    <2> SUFFICES ASSUME NEW d \in 0..n + 1 - i - 1, d \in T PROVE d + 1 \in T
      OBVIOUS
    <2>1. i + d + 1 \in i..n + 1 /\ \A k \in i..i + d + 1 - 1 : k \in B
      OBVIOUS
    <2>2. i + d + 1 \in B
      BY <2>1
    <2> QED
      BY <2>1, <2>2
  <1>3. n + 1 - i \in T
    <2> HIDE DEF T
    <2>1. n + 1 - i \in Nat
      OBVIOUS
    <2>2. 0..n + 1 - i \subseteq T
      BY <1>1, <1>2, <2>1, BoundedInduction
    <2> QED
      BY <2>1, <2>2
  <1> QED
    BY <1>3

LEMMA SkipSpacesIs ==
  ASSUME NEW s, Len(s) \in Nat, NEW i \in 1..Len(s) + 1
  PROVE  /\ SkipSpaces(s, i) \in i..Len(s) + 1
         /\ SkipSpaces(s, i) = Len(s) + 1 \/ s[SkipSpaces(s, i)] # Space
         /\ Spaces(s, i, SkipSpaces(s, i))
  <1> DEFINE Good(j) == /\ j \in i..Len(s) + 1
                        /\ j = Len(s) + 1 \/ ~(s[j] = Space)
                        /\ \A k \in i..j - 1 : s[k] = Space
             B == {k \in 1..Len(s) : s[k] = Space}
  <1>1. \E j : Good(j)
    <2>1. PICK j \in i..Len(s) + 1 : (j = Len(s) + 1 \/ j \notin B) /\ \A k \in i..j - 1 : k \in B
      <3> HIDE DEF B
      <3> QED
        BY FirstOutside
    <2> QED
      BY <2>1
  <1>2. SkipSpaces(s, i) = CHOOSE j : Good(j)
    BY DEF SkipSpaces, SkipWhile
  <1>3. Good(SkipSpaces(s, i))
    <2> HIDE DEF Good
    <2> QED
      BY <1>1, <1>2
  <1> QED
    BY <1>3 DEF Spaces

LEMMA SkipSpacesTo ==
  ASSUME NEW s, Len(s) \in Nat, NEW i \in 1..Len(s) + 1, NEW j \in i..Len(s) + 1,
         Spaces(s, i, j), j = Len(s) + 1 \/ s[j] # Space
  PROVE  SkipSpaces(s, i) = j
  <1> PICK q : q = SkipSpaces(s, i)
    OBVIOUS
  <1>1. q \in i..Len(s) + 1 /\ (q = Len(s) + 1 \/ s[q] # Space) /\ Spaces(s, i, q)
    BY SkipSpacesIs
  <1>2. q = j
    BY <1>1 DEF Spaces
  <1> QED
    BY <1>2

LEMMA WordEndIs ==
  ASSUME NEW s, Len(s) \in Nat, NEW i \in 1..Len(s) + 1
  PROVE  /\ WordEnd(s, i) \in i..Len(s) + 1
         /\ WordEnd(s, i) = Len(s) + 1 \/ ~IsWordPiece(s[WordEnd(s, i)])
         /\ Wordy(s, i, WordEnd(s, i))
  <1> DEFINE Good(j) == /\ j \in i..Len(s) + 1
                        /\ j = Len(s) + 1 \/ ~IsWordPiece(s[j])
                        /\ \A k \in i..j - 1 : IsWordPiece(s[k])
             B == {k \in 1..Len(s) : IsWordPiece(s[k])}
  <1>1. \E j : Good(j)
    <2>1. PICK j \in i..Len(s) + 1 : (j = Len(s) + 1 \/ j \notin B) /\ \A k \in i..j - 1 : k \in B
      <3> HIDE DEF B
      <3> QED
        BY FirstOutside
    <2> QED
      BY <2>1
  <1>2. WordEnd(s, i) = CHOOSE j : Good(j)
    BY DEF WordEnd, SkipWhile
  <1>3. Good(WordEnd(s, i))
    <2> HIDE DEF Good
    <2> QED
      BY <1>1, <1>2
  <1> QED
    BY <1>3 DEF Wordy

LEMMA WordEndTo ==
  ASSUME NEW s, Len(s) \in Nat, NEW i \in 1..Len(s) + 1, NEW j \in i..Len(s) + 1,
         Wordy(s, i, j), j = Len(s) + 1 \/ ~IsWordPiece(s[j])
  PROVE  WordEnd(s, i) = j
  <1> PICK q : q = WordEnd(s, i)
    OBVIOUS
  <1>1. q \in i..Len(s) + 1 /\ (q = Len(s) + 1 \/ ~IsWordPiece(s[q])) /\ Wordy(s, i, q)
    BY WordEndIs
  <1>2. q = j
    BY <1>1 DEF Wordy
  <1> QED
    BY <1>2

-----------------------------------------------------------------------------
(* What the parsing functions return, from every position.                 *)

Words == {w \in Seq(Pieces) : w # <<>> /\ Wordy(w, 1, Len(w) + 1)}
CommandLists == Seq(Seq(Words) \ {<<>>})
Paths == {NoPath} \cup {Path(w) : w \in {w \in Seq(Pieces) : Wordy(w, 1, Len(w) + 1)}}
PipelineSet ==
  {p \in [commands : CommandLists \ {<<>>}, input : Paths, output : Paths] :
     NoPath \in {p.input, p.output}}

WordResults(s) == [words : Seq(Words), at : 1..Len(s) + 1]
CommandResults(s) == [commands : CommandLists, at : 1..Len(s) + 1]
PipelineResults(s) == [pipelines : Seq(PipelineSet), at : 1..Len(s) + 1]

\* the word after the spaces at i
FirstWord(s, i) == SubSeq(s, SkipSpaces(s, i), WordEnd(s, SkipSpaces(s, i)) - 1)
NoWord(s, i) == SkipSpaces(s, i) = WordEnd(s, SkipSpaces(s, i))
AfterWord(s, i) == SkipOneSpace(s, WordEnd(s, SkipSpaces(s, i)))
LastWord(s, i) == AfterWord(s, i) \notin DOMAIN s \/ s[AfterWord(s, i)] \in Delimiters

LEMMA WordsFromCases ==
  ASSUME NEW s, NEW f, NEW i
  PROVE  /\ NoWord(s, i) => WordsFrom(s, f, SkipSpaces(s, i))
                              = [words |-> <<>>, at |-> SkipSpaces(s, i)]
         /\ ~NoWord(s, i) /\ LastWord(s, i) =>
              WordsFrom(s, f, SkipSpaces(s, i))
                = [words |-> <<FirstWord(s, i)>>, at |-> AfterWord(s, i)]
         /\ ~NoWord(s, i) /\ ~LastWord(s, i) =>
              WordsFrom(s, f, SkipSpaces(s, i))
                = [words |-> <<FirstWord(s, i)>> \o f[AfterWord(s, i)].words,
                   at |-> f[AfterWord(s, i)].at]
  BY DEF WordsFrom, NoWord, FirstWord, AfterWord, LastWord

LEMMA SubWord ==
  ASSUME NEW s \in Seq(Pieces), NEW a \in 1..Len(s) + 1, NEW b \in a..Len(s) + 1, Wordy(s, a, b)
  PROVE  /\ SubSeq(s, a, b - 1) \in Seq(Pieces) /\ Len(SubSeq(s, a, b - 1)) = b - a
         /\ \A k \in 1..b - a : SubSeq(s, a, b - 1)[k] = s[a + k - 1]
         /\ Wordy(SubSeq(s, a, b - 1), 1, Len(SubSeq(s, a, b - 1)) + 1)
  <1> DEFINE w == SubSeq(s, a, b - 1)
  <1>1. /\ a \in Nat /\ b \in Nat /\ a <= b /\ b - 1 <= Len(s) /\ Len(s) \in Nat
        /\ \A k \in a..b - 1 : k \in 1..Len(s) /\ s[k] \in Pieces
    OBVIOUS
  <1>2. w \in Seq(Pieces) /\ Len(w) = b - a /\ \A k \in 1..b - a : w[k] = s[a + k - 1]
    <2>1. /\ SubSeq(s, a, b - 1) \in Seq(Pieces)
          /\ Len(SubSeq(s, a, b - 1)) = IF a <= b - 1 THEN b - 1 - a + 1 ELSE 0
          /\ \A k \in 1..b - 1 - a + 1 : SubSeq(s, a, b - 1)[k] = s[a + k - 1]
      BY <1>1, SubSeqProperties
    <2>2. (IF a <= b - 1 THEN b - 1 - a + 1 ELSE 0) = b - a /\ b - 1 - a + 1 = b - a
      BY <1>1
    <2> QED
      BY <2>1, <2>2
  <1> HIDE DEF w
  <1>3. ASSUME NEW k \in 1..Len(w) + 1 - 1 PROVE IsWordPiece(w[k])
    <2>1. k \in 1..b - a /\ a + k - 1 \in a..b - 1
      BY <1>1, <1>2
    <2> QED
      BY <1>2, <2>1 DEF Wordy
  <1>4. Wordy(w, 1, Len(w) + 1)
    BY <1>3 DEF Wordy
  <1> QED
    BY <1>2, <1>4 DEF w

LEMMA FirstWordIs ==
  ASSUME NEW s \in Seq(Pieces), NEW i \in 1..Len(s) + 1
  PROVE  /\ SkipSpaces(s, i) \in i..Len(s) + 1
         /\ ~NoWord(s, i) => FirstWord(s, i) \in Words /\ AfterWord(s, i) \in i + 1..Len(s) + 1
  <1> PICK b : b = SkipSpaces(s, i)
    OBVIOUS
  <1> PICK e : e = WordEnd(s, b)
    OBVIOUS
  <1>1. Len(s) \in Nat /\ b \in i..Len(s) + 1
    BY SkipSpacesIs
  <1>2. b \in 1..Len(s) + 1 /\ e \in b..Len(s) + 1 /\ Wordy(s, b, e)
    BY <1>1, WordEndIs
  <1>3. ASSUME ~NoWord(s, i)
        PROVE  FirstWord(s, i) \in Words /\ AfterWord(s, i) \in i + 1..Len(s) + 1
    <2>1. b # e
      BY <1>3 DEF NoWord
    <2>2. FirstWord(s, i) = SubSeq(s, b, e - 1)
      BY DEF FirstWord
    <2>3. FirstWord(s, i) \in Seq(Pieces) /\ Len(FirstWord(s, i)) = e - b
          /\ Wordy(FirstWord(s, i), 1, Len(FirstWord(s, i)) + 1)
      BY <1>2, <2>2, SubWord
    <2>4. FirstWord(s, i) # <<>>
      BY <1>1, <1>2, <2>1, <2>3
    <2>5. AfterWord(s, i) = IF Is(s, e, Space) THEN e + 1 ELSE e
      BY DEF AfterWord, SkipOneSpace
    <2>6. Is(s, e, Space) => e \in 1..Len(s)
      BY DEF Is
    <2>7. AfterWord(s, i) \in i + 1..Len(s) + 1
      BY <1>1, <1>2, <2>1, <2>5, <2>6
    <2> QED
      BY <2>3, <2>4, <2>7 DEF Words
  <1> QED
    BY <1>1, <1>3

LEMMA ParseWordListIs ==
  ASSUME NEW s \in Seq(Pieces)
  PROVE  /\ ParseWordList(s) \in [1..Len(s) + 1 -> WordResults(s)]
         /\ \A i \in 1..Len(s) + 1 :
              ParseWordList(s)[i] = WordsFrom(s, ParseWordList(s), SkipSpaces(s, i))
  <1> DEFINE N == Len(s) + 1
             V == WordResults(s)
             Ends(i) == NoWord(s, i) \/ LastWord(s, i)
             next == [i \in 1..N |-> IF Ends(i) THEN 0 ELSE AfterWord(s, i)]
             base == [i \in 1..N |-> IF NoWord(s, i) THEN [words |-> <<>>, at |-> SkipSpaces(s, i)]
                                     ELSE IF LastWord(s, i)
                                       THEN [words |-> <<FirstWord(s, i)>>, at |-> AfterWord(s, i)]
                                     ELSE [words |-> <<>>, at |-> 1]]
             g == [p \in (1..N) \X V |->
                     IF NoWord(s, p[1]) THEN p[2]
                     ELSE [words |-> <<FirstWord(s, p[1])>> \o p[2].words, at |-> p[2].at]]
             P(f) == f = [i \in 1..N |-> WordsFrom(s, f, SkipSpaces(s, i))]
  <1>1. N \in Nat /\ Len(s) \in Nat /\ 1 \in 1..N
    OBVIOUS
  <1>2. \A i \in 1..N : /\ SkipSpaces(s, i) \in 1..N
                        /\ ~NoWord(s, i) => FirstWord(s, i) \in Words /\ AfterWord(s, i) \in 1..N
                                             /\ AfterWord(s, i) > i
    BY <1>1, FirstWordIs
  <1>3. next \in [1..N -> 0..N] /\ \A i \in 1..N : next[i] = 0 \/ next[i] > i
    BY <1>1, <1>2
  <1>4. base \in [1..N -> V]
    <2>1. ASSUME NEW i \in 1..N PROVE base[i] \in V
      BY <1>1, <1>2 DEF WordResults
    <2> QED
      BY <2>1
  <1>5. g \in Steps(N, V)
    <2>1. ASSUME NEW p \in (1..N) \X V
          PROVE  g[p] \in V
      <3>1. p[1] \in 1..N /\ p[2] \in V /\ p[2].words \in Seq(Words) /\ p[2].at \in 1..N
        BY DEF WordResults
      <3>2. CASE NoWord(s, p[1])
        BY <3>1, <3>2
      <3>3. CASE ~NoWord(s, p[1])
        <4>1. <<FirstWord(s, p[1])>> \o p[2].words \in Seq(Words)
          BY <1>2, <3>1, <3>3
        <4> QED
          BY <3>1, <3>3, <4>1 DEF WordResults
      <3> QED
        BY <3>2, <3>3
    <2> QED
      BY <2>1 DEF Steps
  <1>6. \A i \in 1..N : next[i] = IF Ends(i) THEN 0 ELSE AfterWord(s, i)
    OBVIOUS
  <1>7. \A i \in 1..N : /\ NoWord(s, i) => base[i] = [words |-> <<>>, at |-> SkipSpaces(s, i)]
                        /\ ~NoWord(s, i) /\ LastWord(s, i) =>
                             base[i] = [words |-> <<FirstWord(s, i)>>, at |-> AfterWord(s, i)]
    OBVIOUS
  <1>8. \A i \in 1..N, v \in V :
          ~NoWord(s, i) => g[<<i, v>>] = [words |-> <<FirstWord(s, i)>> \o v.words, at |-> v.at]
    OBVIOUS
  <1> HIDE DEF next, base, g
  <1>9. PICK f \in [1..N -> V] :
          \A i \in 1..N : /\ next[i] = 0 => f[i] = base[i]
                          /\ next[i] # 0 => f[i] = g[<<i, f[next[i]]>>]
    <2> HIDE DEF N, V
    <2>1. Descends(N, V, next, base, g)
      BY <1>1, <1>3, <1>4, <1>5 DEF Descends
    <2> QED
      BY <2>1, Descent
  <1>10. ASSUME NEW i \in 1..N PROVE f[i] = WordsFrom(s, f, SkipSpaces(s, i))
    <2> HIDE DEF N, V
    <2>1. CASE NoWord(s, i)
      <3>1. next[i] = 0
        BY <1>6, <2>1
      <3>2. f[i] = [words |-> <<>>, at |-> SkipSpaces(s, i)]
        BY <1>7, <1>9, <2>1, <3>1
      <3> QED
        BY <2>1, <3>2, WordsFromCases
    <2>2. CASE ~NoWord(s, i) /\ LastWord(s, i)
      <3>1. next[i] = 0
        BY <1>6, <2>2
      <3>2. f[i] = [words |-> <<FirstWord(s, i)>>, at |-> AfterWord(s, i)]
        BY <1>7, <1>9, <2>2, <3>1
      <3> QED
        BY <2>2, <3>2, WordsFromCases
    <2>3. CASE ~NoWord(s, i) /\ ~LastWord(s, i)
      <3>1. next[i] = AfterWord(s, i) /\ AfterWord(s, i) \in 1..N /\ next[i] # 0
        BY <1>1, <1>2, <1>6, <2>3, SMTT(30)
      <3>2. f[AfterWord(s, i)] \in V
        BY <3>1
      <3>3. f[i] = g[<<i, f[AfterWord(s, i)]>>]
        BY <1>9, <3>1
      <3>4. f[i] = [words |-> <<FirstWord(s, i)>> \o f[AfterWord(s, i)].words,
                    at |-> f[AfterWord(s, i)].at]
        BY <1>8, <2>3, <3>2, <3>3
      <3> QED
        BY <2>3, <3>4, WordsFromCases
    <2> QED
      BY <2>1, <2>2, <2>3
  <1>11. P(f)
    BY <1>9, <1>10
  <1>12. PICK h : h = ParseWordList(s)
    OBVIOUS
  <1>13. P(h)
    <2>1. ParseWordList(s) = CHOOSE x : P(x)
      BY DEF ParseWordList
    <2> HIDE DEF P
    <2> QED
      BY <1>11, <1>12, <2>1
  <1>14. \A i \in 1..N : h[i] = f[i]
    <2> DEFINE S == {i \in 1..N : h[i] = f[i]}
    <2>1. ASSUME NEW i \in 1..N, \A j \in 1..N : j > i => j \in S PROVE i \in S
      <3>1. h[i] = WordsFrom(s, h, SkipSpaces(s, i))
        BY <1>13
      <3>2. ~NoWord(s, i) => h[AfterWord(s, i)] = f[AfterWord(s, i)]
        BY <1>2, <2>1
      <3>3. WordsFrom(s, h, SkipSpaces(s, i)) = WordsFrom(s, f, SkipSpaces(s, i))
        <4>1. CASE NoWord(s, i)
          BY <4>1, WordsFromCases
        <4>2. CASE ~NoWord(s, i) /\ LastWord(s, i)
          BY <4>2, WordsFromCases
        <4>3. CASE ~NoWord(s, i) /\ ~LastWord(s, i)
          BY <3>2, <4>3, WordsFromCases, ZenonT(30)
        <4> QED
          BY <4>1, <4>2, <4>3
      <3> QED
        BY <1>10, <3>1, <3>3
    <2>2. 1..N \subseteq S
      <3> HIDE DEF S, N
      <3> QED
        BY <1>1, <2>1, DownInduction
    <2> QED
      BY <2>2
  <1>15. h = f
    BY <1>9, <1>13, <1>14
  <1> QED
    BY <1>9, <1>10, <1>12, <1>15

LEMMA WordListAdvances ==
  ASSUME NEW s \in Seq(Pieces), NEW i \in 1..Len(s) + 1
  PROVE  ParseWordList(s)[i] \in WordResults(s) /\ ParseWordList(s)[i].at >= i
  <1> DEFINE N == Len(s) + 1
             f == ParseWordList(s)
             S == {k \in 1..N : f[k].at >= k}
  <1>1. N \in Nat /\ \A k \in 1..N : f[k] \in WordResults(s) /\ f[k].at \in 1..N
    BY ParseWordListIs DEF WordResults
  <1>2. ASSUME NEW k \in 1..N, \A j \in 1..N : j > k => j \in S PROVE k \in S
    <2>1. f[k] = WordsFrom(s, f, SkipSpaces(s, k))
      BY ParseWordListIs
    <2> HIDE DEF f
    <2>2. /\ SkipSpaces(s, k) \in k..N
          /\ ~NoWord(s, k) => AfterWord(s, k) \in k + 1..N
      BY FirstWordIs
    <2>3. CASE NoWord(s, k)
      <3>1. f[k].at = SkipSpaces(s, k)
        <4>1. f[k] = [words |-> <<>>, at |-> SkipSpaces(s, k)]
          BY <2>1, <2>3, WordsFromCases
        <4> QED
          BY <4>1
      <3> QED
        BY <1>1, <2>2, <3>1
    <2>4. CASE ~NoWord(s, k) /\ LastWord(s, k)
      <3>1. f[k].at = AfterWord(s, k)
        <4>1. f[k] = [words |-> <<FirstWord(s, k)>>, at |-> AfterWord(s, k)]
          BY <2>1, <2>4, WordsFromCases
        <4> QED
          BY <4>1
      <3> QED
        BY <1>1, <2>2, <2>4, <3>1
    <2>5. CASE ~NoWord(s, k) /\ ~LastWord(s, k)
      <3>1. f[k].at = f[AfterWord(s, k)].at
        <4>1. f[k] = [words |-> <<FirstWord(s, k)>> \o f[AfterWord(s, k)].words,
                    at |-> f[AfterWord(s, k)].at]
          BY <2>1, <2>5, WordsFromCases
        <4> QED
          BY <4>1
      <3>2. AfterWord(s, k) \in 1..N /\ AfterWord(s, k) > k
        BY <1>1, <2>2, <2>5
      <3>3. f[AfterWord(s, k)].at >= AfterWord(s, k)
        BY <1>2, <3>2
      <3> QED
        BY <1>1, <3>1, <3>2, <3>3
    <2> QED
      BY <2>3, <2>4, <2>5
  <1>3. 1..N \subseteq S
    <2> HIDE DEF S, N
    <2> QED
      BY <1>1, <1>2, DownInduction
  <1> QED
    BY <1>1, <1>3

\* the command at i, and where the parser is after it
FirstCommand(s, i) == ParseWordList(s)[SkipSpaces(s, i)]
AfterCommand(s, i) == SkipSpaces(s, FirstCommand(s, i).at)
NoCommand(s, i) == FirstCommand(s, i).words = <<>>
LastCommand(s, i) == ~Is(s, AfterCommand(s, i), "|")

LEMMA CommandsFromCases ==
  ASSUME NEW s, NEW f, NEW i
  PROVE  /\ NoCommand(s, i) => CommandsFrom(s, f, FirstCommand(s, i))
                                 = [commands |-> <<>>, at |-> FirstCommand(s, i).at]
         /\ ~NoCommand(s, i) /\ LastCommand(s, i) =>
              CommandsFrom(s, f, FirstCommand(s, i))
                = [commands |-> <<FirstCommand(s, i).words>>, at |-> AfterCommand(s, i)]
         /\ ~NoCommand(s, i) /\ ~LastCommand(s, i) =>
              CommandsFrom(s, f, FirstCommand(s, i))
                = [commands |-> <<FirstCommand(s, i).words>> \o f[AfterCommand(s, i) + 1].commands,
                   at |-> f[AfterCommand(s, i) + 1].at]
  BY DEF CommandsFrom, NoCommand, AfterCommand, LastCommand

LEMMA FirstCommandIs ==
  ASSUME NEW s \in Seq(Pieces), NEW i \in 1..Len(s) + 1
  PROVE  /\ FirstCommand(s, i) \in WordResults(s) /\ FirstCommand(s, i).at \in i..Len(s) + 1
         /\ AfterCommand(s, i) \in i..Len(s) + 1
         /\ ~LastCommand(s, i) => AfterCommand(s, i) + 1 \in i + 1..Len(s) + 1
  <1> PICK b : b = SkipSpaces(s, i)
    OBVIOUS
  <1>1. Len(s) \in Nat /\ b \in i..Len(s) + 1
    BY SkipSpacesIs
  <1>2. b \in 1..Len(s) + 1
    BY <1>1
  <1>3. ParseWordList(s)[b] \in WordResults(s) /\ ParseWordList(s)[b].at >= b
    BY <1>2, WordListAdvances
  <1>4. FirstCommand(s, i) = ParseWordList(s)[b]
    BY DEF FirstCommand
  <1>5. FirstCommand(s, i).at \in b..Len(s) + 1
    BY <1>2, <1>3, <1>4 DEF WordResults
  <1> PICK a : a = FirstCommand(s, i).at
    OBVIOUS
  <1>6. a \in i..Len(s) + 1 /\ a \in 1..Len(s) + 1
    BY <1>1, <1>5
  <1>7. AfterCommand(s, i) \in a..Len(s) + 1
    BY <1>1, <1>6, SkipSpacesIs DEF AfterCommand
  <1>8. ~LastCommand(s, i) => AfterCommand(s, i) \in 1..Len(s)
    BY DEF LastCommand, Is
  <1> QED
    BY <1>1, <1>3, <1>4, <1>6, <1>7, <1>8

LEMMA ParseCommandListIs ==
  ASSUME NEW s \in Seq(Pieces)
  PROVE  /\ ParseCommandList(s) \in [1..Len(s) + 1 -> CommandResults(s)]
         /\ \A i \in 1..Len(s) + 1 :
              ParseCommandList(s)[i] = CommandsFrom(s, ParseCommandList(s), FirstCommand(s, i))
  <1> DEFINE N == Len(s) + 1
             V == CommandResults(s)
             After(i) == AfterCommand(s, i) + 1
             Ends(i) == NoCommand(s, i) \/ LastCommand(s, i)
             next == [i \in 1..N |-> IF Ends(i) THEN 0 ELSE After(i)]
             base == [i \in 1..N |-> IF NoCommand(s, i)
                                       THEN [commands |-> <<>>, at |-> FirstCommand(s, i).at]
                                     ELSE [commands |-> <<FirstCommand(s, i).words>>,
                                           at |-> AfterCommand(s, i)]]
             g == [p \in (1..N) \X V |->
                     IF NoCommand(s, p[1]) THEN p[2]
                     ELSE [commands |-> <<FirstCommand(s, p[1]).words>> \o p[2].commands,
                           at |-> p[2].at]]
             P(f) == f = [i \in 1..N |-> CommandsFrom(s, f, FirstCommand(s, i))]
  <1>1. N \in Nat /\ Len(s) \in Nat /\ 1 \in 1..N
    OBVIOUS
  <1>2. \A i \in 1..N : /\ FirstCommand(s, i).at \in 1..N /\ AfterCommand(s, i) \in 1..N
                        /\ FirstCommand(s, i).words \in Seq(Words)
                        /\ ~LastCommand(s, i) => After(i) \in 1..N /\ After(i) > i /\ After(i) # 0
    <2> TAKE i \in 1..N
    <2>1. /\ FirstCommand(s, i) \in WordResults(s) /\ FirstCommand(s, i).at \in i..Len(s) + 1
          /\ AfterCommand(s, i) \in i..Len(s) + 1
          /\ ~LastCommand(s, i) => After(i) \in i + 1..Len(s) + 1
      BY FirstCommandIs
    <2>2. FirstCommand(s, i).words \in Seq(Words)
      BY <2>1 DEF WordResults
    <2> HIDE DEF After
    <2> QED
      BY <1>1, <2>1, <2>2
  <1> HIDE DEF After
  <1>3. next \in [1..N -> 0..N] /\ \A i \in 1..N : next[i] = 0 \/ next[i] > i
    BY <1>1, <1>2, SMTT(30)
  <1>4. base \in [1..N -> V]
    <2>1. ASSUME NEW i \in 1..N PROVE base[i] \in V
      <3>1. CASE NoCommand(s, i)
        BY <1>1, <1>2, <3>1 DEF CommandResults, CommandLists
      <3>2. CASE ~NoCommand(s, i)
        <4>1. FirstCommand(s, i).words \in Seq(Words) \ {<<>>}
          BY <1>2, <3>2 DEF NoCommand
        <4>2. <<FirstCommand(s, i).words>> \in CommandLists
          BY <4>1 DEF CommandLists
        <4> QED
          BY <1>2, <3>2, <4>2 DEF CommandResults
      <3> QED
        BY <3>1, <3>2
    <2> QED
      BY <2>1
  <1>5. g \in Steps(N, V)
    <2>1. ASSUME NEW p \in (1..N) \X V
          PROVE  g[p] \in V
      <3>1. p[1] \in 1..N /\ p[2] \in V /\ p[2].commands \in CommandLists /\ p[2].at \in 1..N
        BY DEF CommandResults
      <3>2. CASE NoCommand(s, p[1])
        BY <3>1, <3>2
      <3>3. CASE ~NoCommand(s, p[1])
        <4>1. FirstCommand(s, p[1]).words \in Seq(Words) \ {<<>>}
          BY <1>2, <3>1, <3>3 DEF NoCommand
        <4>2. <<FirstCommand(s, p[1]).words>> \o p[2].commands \in CommandLists
          BY <3>1, <4>1 DEF CommandLists
        <4> QED
          BY <3>1, <3>3, <4>2 DEF CommandResults
      <3> QED
        BY <3>2, <3>3
    <2> QED
      BY <2>1 DEF Steps
  <1>6. \A i \in 1..N : next[i] = IF Ends(i) THEN 0 ELSE After(i)
    OBVIOUS
  <1>7. \A i \in 1..N : /\ NoCommand(s, i) => base[i] = [commands |-> <<>>, at |-> FirstCommand(s, i).at]
                        /\ ~NoCommand(s, i) =>
                             base[i] = [commands |-> <<FirstCommand(s, i).words>>, at |-> AfterCommand(s, i)]
    OBVIOUS
  <1>8. \A i \in 1..N, v \in V :
          ~NoCommand(s, i) => g[<<i, v>>] = [commands |-> <<FirstCommand(s, i).words>> \o v.commands,
                                             at |-> v.at]
    OBVIOUS
  <1> HIDE DEF next, base, g
  <1>9. PICK f \in [1..N -> V] :
          \A i \in 1..N : /\ next[i] = 0 => f[i] = base[i]
                          /\ next[i] # 0 => f[i] = g[<<i, f[next[i]]>>]
    <2> HIDE DEF N, V
    <2>1. Descends(N, V, next, base, g)
      BY <1>1, <1>3, <1>4, <1>5 DEF Descends
    <2> QED
      BY <2>1, Descent
  <1>10. ASSUME NEW i \in 1..N PROVE f[i] = CommandsFrom(s, f, FirstCommand(s, i))
    <2> HIDE DEF N, V
    <2>1. CASE NoCommand(s, i)
      <3>1. next[i] = 0
        BY <1>6, <2>1
      <3>2. f[i] = [commands |-> <<>>, at |-> FirstCommand(s, i).at]
        BY <1>7, <1>9, <2>1, <3>1
      <3> QED
        BY <2>1, <3>2, CommandsFromCases
    <2>2. CASE ~NoCommand(s, i) /\ LastCommand(s, i)
      <3>1. next[i] = 0
        BY <1>6, <2>2
      <3>2. f[i] = [commands |-> <<FirstCommand(s, i).words>>, at |-> AfterCommand(s, i)]
        BY <1>7, <1>9, <2>2, <3>1
      <3> QED
        BY <2>2, <3>2, CommandsFromCases
    <2>3. CASE ~NoCommand(s, i) /\ ~LastCommand(s, i)
      <3>1. next[i] = After(i) /\ After(i) \in 1..N /\ next[i] # 0
        BY <1>2, <1>6, <2>3
      <3>2. f[After(i)] \in V
        BY <3>1
      <3>3. f[i] = g[<<i, f[After(i)]>>]
        BY <1>9, <3>1
      <3>4. f[i] = [commands |-> <<FirstCommand(s, i).words>> \o f[After(i)].commands,
                    at |-> f[After(i)].at]
        BY <1>8, <2>3, <3>2, <3>3
      <3> QED
        BY <2>3, <3>4, CommandsFromCases DEF After
    <2> QED
      BY <2>1, <2>2, <2>3
  <1>11. P(f)
    BY <1>9, <1>10
  <1>12. PICK h : h = ParseCommandList(s)
    OBVIOUS
  <1>13. P(h)
    <2>1. ParseCommandList(s) = CHOOSE x : P(x)
      BY DEF ParseCommandList, FirstCommand
    <2> HIDE DEF P
    <2> QED
      BY <1>11, <1>12, <2>1
  <1>14. \A i \in 1..N : h[i] = f[i]
    <2> DEFINE S == {i \in 1..N : h[i] = f[i]}
    <2>1. ASSUME NEW i \in 1..N, \A j \in 1..N : j > i => j \in S PROVE i \in S
      <3>1. h[i] = CommandsFrom(s, h, FirstCommand(s, i))
        BY <1>13
      <3>2. ~NoCommand(s, i) /\ ~LastCommand(s, i) => h[After(i)] = f[After(i)]
        BY <1>2, <2>1
      <3>3. CommandsFrom(s, h, FirstCommand(s, i)) = CommandsFrom(s, f, FirstCommand(s, i))
        <4>1. CASE NoCommand(s, i)
          BY <4>1, CommandsFromCases
        <4>2. CASE ~NoCommand(s, i) /\ LastCommand(s, i)
          BY <4>2, CommandsFromCases
        <4>3. CASE ~NoCommand(s, i) /\ ~LastCommand(s, i)
          BY <3>2, <4>3, CommandsFromCases, ZenonT(40) DEF After
        <4> QED
          BY <4>1, <4>2, <4>3
      <3> QED
        BY <1>10, <3>1, <3>3
    <2>2. 1..N \subseteq S
      <3> HIDE DEF S, N
      <3> QED
        BY <1>1, <2>1, DownInduction
    <2> QED
      BY <2>2
  <1>15. h = f
    BY <1>9, <1>13, <1>14
  <1> QED
    BY <1>9, <1>10, <1>12, <1>15

LEMMA CommandListAdvances ==
  ASSUME NEW s \in Seq(Pieces), NEW i \in 1..Len(s) + 1
  PROVE  ParseCommandList(s)[i] \in CommandResults(s) /\ ParseCommandList(s)[i].at >= i
  <1> DEFINE N == Len(s) + 1
             f == ParseCommandList(s)
             S == {k \in 1..N : f[k].at >= k}
             After(k) == AfterCommand(s, k) + 1
  <1>1. N \in Nat /\ \A k \in 1..N : f[k] \in CommandResults(s) /\ f[k].at \in 1..N
    BY ParseCommandListIs, SMTT(30) DEF CommandResults
  <1>2. ASSUME NEW k \in 1..N, \A j \in 1..N : j > k => j \in S PROVE k \in S
    <2>1. f[k] = CommandsFrom(s, f, FirstCommand(s, k))
      BY ParseCommandListIs
    <2> HIDE DEF f
    <2>2. /\ FirstCommand(s, k).at \in k..N /\ AfterCommand(s, k) \in k..N
          /\ ~LastCommand(s, k) => After(k) \in k + 1..N
      BY FirstCommandIs
    <2>3. CASE NoCommand(s, k)
      <3>1. f[k].at = FirstCommand(s, k).at
        <4>1. f[k] = [commands |-> <<>>, at |-> FirstCommand(s, k).at]
          BY <2>1, <2>3, CommandsFromCases
        <4> QED
          BY <4>1
      <3> QED
        BY <1>1, <2>2, <3>1
    <2>4. CASE ~NoCommand(s, k) /\ LastCommand(s, k)
      <3>1. f[k].at = AfterCommand(s, k)
        <4>1. f[k] = [commands |-> <<FirstCommand(s, k).words>>, at |-> AfterCommand(s, k)]
          BY <2>1, <2>4, CommandsFromCases
        <4> QED
          BY <4>1
      <3> QED
        BY <1>1, <2>2, <3>1
    <2>5. CASE ~NoCommand(s, k) /\ ~LastCommand(s, k)
      <3>1. f[k].at = f[After(k)].at
        <4>1. f[k] = [commands |-> <<FirstCommand(s, k).words>> \o f[After(k)].commands,
                      at |-> f[After(k)].at]
          BY <2>1, <2>5, CommandsFromCases
        <4> QED
          BY <4>1
      <3> HIDE DEF After
      <3>2. After(k) \in 1..N /\ After(k) > k
        BY <1>1, <2>2, <2>5
      <3>3. f[After(k)].at >= After(k)
        BY <1>2, <3>2
      <3> QED
        BY <1>1, <3>1, <3>2, <3>3
    <2> QED
      BY <2>3, <2>4, <2>5
  <1>3. 1..N \subseteq S
    <2> HIDE DEF S, N
    <2> QED
      BY <1>1, <1>2, DownInduction
  <1> QED
    BY <1>1, <1>3

\* the commands of the pipeline at i, and where the parser is after them
FirstCommands(s, i) == ParseCommandList(s)[SkipSpaces(s, i)]
AfterCommands(s, i) == SkipSpaces(s, FirstCommands(s, i).at)
NoCommands(s, i) == FirstCommands(s, i).commands = <<>>
NextPath(s, i) == ParsePath(s, AfterCommands(s, i) + 1)

Pipeline(commands, input, output) == [commands |-> commands, input |-> input, output |-> output]

\* the pipeline at i, and where the parser is after it
FirstPipeline(s, i) == ParsePipeline(s, SkipSpaces(s, i))
AfterPipeline(s, i) == SkipSpaces(s, FirstPipeline(s, i).at)
NoPipeline(s, i) == FirstPipeline(s, i).pipeline = <<>>
LastPipeline(s, i) == ~Is(s, AfterPipeline(s, i), ";")

LEMMA FirstPipelineCases ==
  ASSUME NEW s, NEW i
  PROVE  /\ NoCommands(s, i) =>
              FirstPipeline(s, i) = [pipeline |-> <<>>, at |-> FirstCommands(s, i).at]
         /\ ~NoCommands(s, i) /\ Is(s, AfterCommands(s, i), "<") =>
              FirstPipeline(s, i)
                = [pipeline |-> <<Pipeline(FirstCommands(s, i).commands, NextPath(s, i).path, NoPath)>>,
                   at |-> NextPath(s, i).at]
         /\ ~NoCommands(s, i) /\ Is(s, AfterCommands(s, i), ">") =>
              FirstPipeline(s, i)
                = [pipeline |-> <<Pipeline(FirstCommands(s, i).commands, NoPath, NextPath(s, i).path)>>,
                   at |-> NextPath(s, i).at]
         /\ /\ ~NoCommands(s, i)
            /\ ~Is(s, AfterCommands(s, i), "<") /\ ~Is(s, AfterCommands(s, i), ">")
            => FirstPipeline(s, i)
                 = [pipeline |-> <<Pipeline(FirstCommands(s, i).commands, NoPath, NoPath)>>,
                    at |-> AfterCommands(s, i)]
  BY DEF FirstPipeline, ParsePipeline, PipelineFrom, NoCommands, AfterCommands, FirstCommands,
         NextPath, Pipeline, Is

LEMMA FirstCommandsIs ==
  ASSUME NEW s \in Seq(Pieces), NEW i \in 1..Len(s) + 1
  PROVE  /\ FirstCommands(s, i) \in CommandResults(s) /\ FirstCommands(s, i).at \in i..Len(s) + 1
         /\ AfterCommands(s, i) \in i..Len(s) + 1
  <1> PICK b : b = SkipSpaces(s, i)
    OBVIOUS
  <1>1. Len(s) \in Nat /\ b \in i..Len(s) + 1
    BY SkipSpacesIs
  <1>2. b \in 1..Len(s) + 1
    BY <1>1
  <1>3. ParseCommandList(s)[b] \in CommandResults(s) /\ ParseCommandList(s)[b].at >= b
    BY <1>2, CommandListAdvances
  <1>4. FirstCommands(s, i) = ParseCommandList(s)[b]
    BY DEF FirstCommands
  <1>5. FirstCommands(s, i).at \in b..Len(s) + 1
    BY <1>2, <1>3, <1>4 DEF CommandResults
  <1> PICK a : a = FirstCommands(s, i).at
    OBVIOUS
  <1>6. a \in i..Len(s) + 1 /\ a \in 1..Len(s) + 1
    BY <1>1, <1>5
  <1>7. AfterCommands(s, i) \in a..Len(s) + 1
    BY <1>1, <1>6, SkipSpacesIs DEF AfterCommands
  <1> QED
    BY <1>1, <1>3, <1>4, <1>6, <1>7

LEMMA ParsePathIs ==
  ASSUME NEW s \in Seq(Pieces), NEW i \in 1..Len(s) + 1
  PROVE  ParsePath(s, i).path \in Paths /\ ParsePath(s, i).at \in i..Len(s) + 1
  <1> PICK b : b = SkipSpaces(s, i)
    OBVIOUS
  <1> PICK e : e = WordEnd(s, b)
    OBVIOUS
  <1>1. Len(s) \in Nat /\ b \in i..Len(s) + 1
    BY SkipSpacesIs
  <1>2. b \in 1..Len(s) + 1 /\ e \in b..Len(s) + 1 /\ Wordy(s, b, e)
    BY <1>1, WordEndIs
  <1>3. ParsePath(s, i) = [path |-> Path(SubSeq(s, b, e - 1)), at |-> e]
    BY DEF ParsePath, PathFrom
  <1>4. /\ SubSeq(s, b, e - 1) \in Seq(Pieces)
        /\ Wordy(SubSeq(s, b, e - 1), 1, Len(SubSeq(s, b, e - 1)) + 1)
    BY <1>2, SubWord
  <1>5. Path(SubSeq(s, b, e - 1)) \in Paths
    BY <1>4 DEF Paths
  <1> QED
    BY <1>1, <1>2, <1>3, <1>5

LEMMA FirstPipelineIs ==
  ASSUME NEW s \in Seq(Pieces), NEW i \in 1..Len(s) + 1
  PROVE  /\ ~NoPipeline(s, i) => \E p \in PipelineSet : FirstPipeline(s, i).pipeline = <<p>>
         /\ FirstPipeline(s, i).at \in i..Len(s) + 1
         /\ AfterPipeline(s, i) \in i..Len(s) + 1
         /\ ~LastPipeline(s, i) => AfterPipeline(s, i) + 1 \in i + 1..Len(s) + 1
  <1>1. /\ Len(s) \in Nat /\ FirstCommands(s, i).commands \in CommandLists
        /\ FirstCommands(s, i).at \in i..Len(s) + 1 /\ AfterCommands(s, i) \in i..Len(s) + 1
    <2>1. FirstCommands(s, i) \in CommandResults(s)
      BY FirstCommandsIs
    <2>2. FirstCommands(s, i).commands \in CommandLists
      BY <2>1 DEF CommandResults
    <2> QED
      BY <2>2, FirstCommandsIs
  <1>2. ASSUME Is(s, AfterCommands(s, i), "<") \/ Is(s, AfterCommands(s, i), ">")
        PROVE  NextPath(s, i).path \in Paths /\ NextPath(s, i).at \in i..Len(s) + 1
    <2> PICK j : j = AfterCommands(s, i) + 1
      OBVIOUS
    <2>1. j \in 1..Len(s) + 1 /\ j \in i + 1..Len(s) + 1
      BY <1>1, <1>2 DEF Is
    <2>2. ParsePath(s, j).path \in Paths /\ ParsePath(s, j).at \in j..Len(s) + 1
      BY <2>1, ParsePathIs
    <2> QED
      BY <2>1, <2>2 DEF NextPath
  <1>3. NoPath \in Paths
    BY DEF Paths
  <1>4. ASSUME NEW x, NEW y, (x \in Paths /\ y = NoPath) \/ (x = NoPath /\ y \in Paths), ~NoCommands(s, i)
        PROVE  Pipeline(FirstCommands(s, i).commands, x, y) \in PipelineSet
    BY <1>1, <1>3, <1>4 DEF Pipeline, PipelineSet, NoCommands
  <1>5. /\ ~NoPipeline(s, i) => \E p \in PipelineSet : FirstPipeline(s, i).pipeline = <<p>>
        /\ FirstPipeline(s, i).at \in i..Len(s) + 1
    <2>1. CASE NoCommands(s, i)
      <3>1. FirstPipeline(s, i) = [pipeline |-> <<>>, at |-> FirstCommands(s, i).at]
        BY <2>1, FirstPipelineCases
      <3> QED
        BY <1>1, <3>1 DEF NoPipeline
    <2>2. ASSUME NEW x, NEW y, NEW a \in i..Len(s) + 1, ~NoCommands(s, i),
                 (x \in Paths /\ y = NoPath) \/ (x = NoPath /\ y \in Paths),
                 FirstPipeline(s, i)
                   = [pipeline |-> <<Pipeline(FirstCommands(s, i).commands, x, y)>>, at |-> a]
          PROVE  /\ \E p \in PipelineSet : FirstPipeline(s, i).pipeline = <<p>>
                 /\ FirstPipeline(s, i).at \in i..Len(s) + 1
      <3>1. Pipeline(FirstCommands(s, i).commands, x, y) \in PipelineSet
        BY <1>4, <2>2
      <3> QED
        BY <2>2, <3>1
    <2>3. CASE ~NoCommands(s, i) /\ Is(s, AfterCommands(s, i), "<")
      <3>1. NextPath(s, i).path \in Paths /\ NextPath(s, i).at \in i..Len(s) + 1
        BY <1>2, <2>3
      <3>2. FirstPipeline(s, i)
              = [pipeline |-> <<Pipeline(FirstCommands(s, i).commands, NextPath(s, i).path, NoPath)>>,
                 at |-> NextPath(s, i).at]
        BY <2>3, FirstPipelineCases
      <3>3. Pipeline(FirstCommands(s, i).commands, NextPath(s, i).path, NoPath) \in PipelineSet
        BY <1>4, <2>3, <3>1
      <3> QED
        BY <3>1, <3>2, <3>3
    <2>4. CASE ~NoCommands(s, i) /\ Is(s, AfterCommands(s, i), ">")
      <3>1. NextPath(s, i).path \in Paths /\ NextPath(s, i).at \in i..Len(s) + 1
        BY <1>2, <2>4
      <3>2. FirstPipeline(s, i)
              = [pipeline |-> <<Pipeline(FirstCommands(s, i).commands, NoPath, NextPath(s, i).path)>>,
                 at |-> NextPath(s, i).at]
        BY <2>4, FirstPipelineCases
      <3> QED
        BY <2>2, <2>4, <3>1, <3>2
    <2>5. CASE ~NoCommands(s, i) /\ ~Is(s, AfterCommands(s, i), "<")
                 /\ ~Is(s, AfterCommands(s, i), ">")
      BY <1>1, <1>3, <2>2, <2>5, FirstPipelineCases
    <2> QED
      BY <2>1, <2>3, <2>4, <2>5
  <1> PICK a : a = FirstPipeline(s, i).at
    OBVIOUS
  <1>6. a \in i..Len(s) + 1 /\ a \in 1..Len(s) + 1
    BY <1>1, <1>5
  <1>7. AfterPipeline(s, i) \in a..Len(s) + 1
    BY <1>1, <1>6, SkipSpacesIs DEF AfterPipeline
  <1>8. ~LastPipeline(s, i) => AfterPipeline(s, i) \in 1..Len(s)
    <2>1. ~LastPipeline(s, i) => AfterPipeline(s, i) \in DOMAIN s
      BY DEF LastPipeline, Is
    <2> QED
      BY <2>1
  <1> QED
    BY <1>1, <1>5, <1>6, <1>7, <1>8

LEMMA PipelinesFromCases ==
  ASSUME NEW s, NEW f, NEW i
  PROVE  /\ NoPipeline(s, i) => PipelinesFrom(s, f, FirstPipeline(s, i))
                                  = [pipelines |-> <<>>, at |-> FirstPipeline(s, i).at]
         /\ ~NoPipeline(s, i) /\ LastPipeline(s, i) =>
              PipelinesFrom(s, f, FirstPipeline(s, i))
                = [pipelines |-> FirstPipeline(s, i).pipeline, at |-> AfterPipeline(s, i)]
         /\ ~NoPipeline(s, i) /\ ~LastPipeline(s, i) =>
              PipelinesFrom(s, f, FirstPipeline(s, i))
                = [pipelines |-> FirstPipeline(s, i).pipeline \o f[AfterPipeline(s, i) + 1].pipelines,
                   at |-> f[AfterPipeline(s, i) + 1].at]
  BY DEF PipelinesFrom, NoPipeline, AfterPipeline, LastPipeline

LEMMA ParsePipelineListIs ==
  ASSUME NEW s \in Seq(Pieces)
  PROVE  /\ ParsePipelineList(s) \in [1..Len(s) + 1 -> PipelineResults(s)]
         /\ \A i \in 1..Len(s) + 1 :
              ParsePipelineList(s)[i] = PipelinesFrom(s, ParsePipelineList(s), FirstPipeline(s, i))
  <1> DEFINE N == Len(s) + 1
             V == PipelineResults(s)
             After(i) == AfterPipeline(s, i) + 1
             Ends(i) == NoPipeline(s, i) \/ LastPipeline(s, i)
             next == [i \in 1..N |-> IF Ends(i) THEN 0 ELSE After(i)]
             base == [i \in 1..N |-> IF NoPipeline(s, i)
                                       THEN [pipelines |-> <<>>, at |-> FirstPipeline(s, i).at]
                                     ELSE [pipelines |-> FirstPipeline(s, i).pipeline,
                                           at |-> AfterPipeline(s, i)]]
             g == [p \in (1..N) \X V |->
                     IF NoPipeline(s, p[1]) THEN p[2]
                     ELSE [pipelines |-> FirstPipeline(s, p[1]).pipeline \o p[2].pipelines,
                           at |-> p[2].at]]
             P(f) == f = [i \in 1..N |-> PipelinesFrom(s, f, FirstPipeline(s, i))]
  <1>1. N \in Nat /\ Len(s) \in Nat /\ 1 \in 1..N
    OBVIOUS
  <1>2. \A i \in 1..N : /\ FirstPipeline(s, i).at \in 1..N /\ AfterPipeline(s, i) \in 1..N
                        /\ ~NoPipeline(s, i) => FirstPipeline(s, i).pipeline \in Seq(PipelineSet)
                        /\ ~LastPipeline(s, i) => After(i) \in 1..N /\ After(i) > i /\ After(i) # 0
    <2> TAKE i \in 1..N
    <2>1. /\ ~NoPipeline(s, i) => \E p \in PipelineSet : FirstPipeline(s, i).pipeline = <<p>>
          /\ FirstPipeline(s, i).at \in i..Len(s) + 1
          /\ AfterPipeline(s, i) \in i..Len(s) + 1
          /\ ~LastPipeline(s, i) => After(i) \in i + 1..Len(s) + 1
      BY FirstPipelineIs
    <2>2. ASSUME ~NoPipeline(s, i) PROVE FirstPipeline(s, i).pipeline \in Seq(PipelineSet)
      <3>1. PICK p \in PipelineSet : FirstPipeline(s, i).pipeline = <<p>>
        BY <2>1, <2>2
      <3>2. <<p>> \in Seq(PipelineSet)
        OBVIOUS
      <3> QED
        BY <3>1, <3>2
    <2> HIDE DEF After
    <2> QED
      BY <1>1, <2>1, <2>2
  <1> HIDE DEF After
  <1>3. next \in [1..N -> 0..N] /\ \A i \in 1..N : next[i] = 0 \/ next[i] > i
    BY <1>1, <1>2, SMTT(30)
  <1>4. base \in [1..N -> V]
    <2>1. ASSUME NEW i \in 1..N PROVE base[i] \in V
      <3>1. CASE NoPipeline(s, i)
        BY <1>1, <1>2, <3>1 DEF PipelineResults
      <3>2. CASE ~NoPipeline(s, i)
        BY <1>2, <3>2 DEF PipelineResults
      <3> QED
        BY <3>1, <3>2
    <2> QED
      BY <2>1
  <1>5. g \in Steps(N, V)
    <2>1. ASSUME NEW p \in (1..N) \X V
          PROVE  g[p] \in V
      <3>1. p[1] \in 1..N /\ p[2] \in V /\ p[2].pipelines \in Seq(PipelineSet) /\ p[2].at \in 1..N
        BY DEF PipelineResults
      <3>2. CASE NoPipeline(s, p[1])
        BY <3>1, <3>2
      <3>3. CASE ~NoPipeline(s, p[1])
        <4>1. FirstPipeline(s, p[1]).pipeline \in Seq(PipelineSet)
          BY <1>2, <3>1, <3>3
        <4>2. FirstPipeline(s, p[1]).pipeline \o p[2].pipelines \in Seq(PipelineSet)
          BY <3>1, <4>1
        <4> QED
          BY <3>1, <3>3, <4>2 DEF PipelineResults
      <3> QED
        BY <3>2, <3>3
    <2> QED
      BY <2>1 DEF Steps
  <1>6. \A i \in 1..N : next[i] = IF Ends(i) THEN 0 ELSE After(i)
    OBVIOUS
  <1>7. \A i \in 1..N : /\ NoPipeline(s, i) => base[i] = [pipelines |-> <<>>, at |-> FirstPipeline(s, i).at]
                        /\ ~NoPipeline(s, i) =>
                             base[i] = [pipelines |-> FirstPipeline(s, i).pipeline, at |-> AfterPipeline(s, i)]
    OBVIOUS
  <1>8. \A i \in 1..N, v \in V :
          ~NoPipeline(s, i) => g[<<i, v>>] = [pipelines |-> FirstPipeline(s, i).pipeline \o v.pipelines,
                                              at |-> v.at]
    OBVIOUS
  <1> HIDE DEF next, base, g
  <1>9. PICK f \in [1..N -> V] :
          \A i \in 1..N : /\ next[i] = 0 => f[i] = base[i]
                          /\ next[i] # 0 => f[i] = g[<<i, f[next[i]]>>]
    <2> HIDE DEF N, V
    <2>1. Descends(N, V, next, base, g)
      BY <1>1, <1>3, <1>4, <1>5 DEF Descends
    <2> QED
      BY <2>1, Descent
  <1>10. ASSUME NEW i \in 1..N PROVE f[i] = PipelinesFrom(s, f, FirstPipeline(s, i))
    <2> HIDE DEF N, V
    <2>1. CASE NoPipeline(s, i)
      <3>1. next[i] = 0
        BY <1>6, <2>1
      <3>2. f[i] = [pipelines |-> <<>>, at |-> FirstPipeline(s, i).at]
        BY <1>7, <1>9, <2>1, <3>1
      <3> QED
        BY <2>1, <3>2, PipelinesFromCases
    <2>2. CASE ~NoPipeline(s, i) /\ LastPipeline(s, i)
      <3>1. next[i] = 0
        BY <1>6, <2>2
      <3>2. f[i] = [pipelines |-> FirstPipeline(s, i).pipeline, at |-> AfterPipeline(s, i)]
        BY <1>7, <1>9, <2>2, <3>1
      <3> QED
        BY <2>2, <3>2, PipelinesFromCases
    <2>3. CASE ~NoPipeline(s, i) /\ ~LastPipeline(s, i)
      <3>1. next[i] = After(i) /\ After(i) \in 1..N /\ next[i] # 0
        BY <1>2, <1>6, <2>3
      <3>2. f[After(i)] \in V
        BY <3>1
      <3>3. f[i] = g[<<i, f[After(i)]>>]
        BY <1>9, <3>1
      <3>4. f[i] = [pipelines |-> FirstPipeline(s, i).pipeline \o f[After(i)].pipelines,
                    at |-> f[After(i)].at]
        BY <1>8, <2>3, <3>2, <3>3
      <3> QED
        BY <2>3, <3>4, PipelinesFromCases DEF After
    <2> QED
      BY <2>1, <2>2, <2>3
  <1>11. P(f)
    BY <1>9, <1>10
  <1>12. PICK h : h = ParsePipelineList(s)
    OBVIOUS
  <1>13. P(h)
    <2>1. ParsePipelineList(s) = CHOOSE x : P(x)
      BY DEF ParsePipelineList, FirstPipeline
    <2> HIDE DEF P
    <2> QED
      BY <1>11, <1>12, <2>1
  <1>14. \A i \in 1..N : h[i] = f[i]
    <2> DEFINE S == {i \in 1..N : h[i] = f[i]}
    <2>1. ASSUME NEW i \in 1..N, \A j \in 1..N : j > i => j \in S PROVE i \in S
      <3>1. h[i] = PipelinesFrom(s, h, FirstPipeline(s, i))
        BY <1>13
      <3>2. ~NoPipeline(s, i) /\ ~LastPipeline(s, i) => h[After(i)] = f[After(i)]
        BY <1>2, <2>1
      <3>3. PipelinesFrom(s, h, FirstPipeline(s, i)) = PipelinesFrom(s, f, FirstPipeline(s, i))
        <4>1. CASE NoPipeline(s, i)
          BY <4>1, PipelinesFromCases
        <4>2. CASE ~NoPipeline(s, i) /\ LastPipeline(s, i)
          BY <4>2, PipelinesFromCases
        <4>3. CASE ~NoPipeline(s, i) /\ ~LastPipeline(s, i)
          BY <3>2, <4>3, PipelinesFromCases, ZenonT(40) DEF After
        <4> QED
          BY <4>1, <4>2, <4>3
      <3> QED
        BY <1>10, <3>1, <3>3
    <2>2. 1..N \subseteq S
      <3> HIDE DEF S, N
      <3> QED
        BY <1>1, <2>1, DownInduction
    <2> QED
      BY <2>2
  <1>15. h = f
    BY <1>9, <1>13, <1>14
  <1> QED
    BY <1>9, <1>10, <1>12, <1>15

\* What is parsed is a task.
LEMMA ParseTaskIs ==
  ASSUME NEW s \in Seq(Pieces)
  PROVE  ParseTask(s) \in Seq(PipelineSet)
  <1>1. 1 \in 1..Len(s) + 1
    OBVIOUS
  <1>2. ParsePipelineList(s)[1] \in PipelineResults(s)
    BY <1>1, ParsePipelineListIs
  <1>3. ParsePipelineList(s)[1].pipelines \in Seq(PipelineSet)
    BY <1>2 DEF PipelineResults
  <1> QED
    BY <1>3 DEF ParseTask, Wholly

-----------------------------------------------------------------------------
(* Texts whose parts are known, and what is parsed of them.                *)

\* w is in s from b on
Spelled(s, b, w) == b + Len(w) <= Len(s) + 1 /\ \A k \in 1..Len(w) : s[b + k - 1] = w[k]

Bounds(s, d) == d = Len(s) + 1 \/ s[d] \in Delimiters

\* From i to d are the words ws with spaces between them: word k is at[k] to to[k].
WordsLaid(s, i, d, ws, at, to) ==
  /\ ws \in Seq(Words)
  /\ at \in [1..Len(ws) -> 1..Len(s) + 1] /\ to \in [0..Len(ws) -> 1..Len(s) + 1]
  /\ to[0] = i /\ to[Len(ws)] <= d /\ Spaces(s, to[Len(ws)], d)
  /\ \A k \in 1..Len(ws) :
       /\ to[k - 1] <= at[k] /\ Spaces(s, to[k - 1], at[k])
       /\ k > 1 => to[k - 1] < at[k]
       /\ to[k] = at[k] + Len(ws[k]) /\ Spelled(s, at[k], ws[k])

AreWords(s, i, d, ws) == \E at, to : WordsLaid(s, i, d, ws, at, to)

LEMMA WordPieceFacts ==
  /\ \A x : IsWordPiece(x) => x # Space /\ x \notin Delimiters
  /\ ~IsWordPiece(Space) /\ Space \notin Delimiters
  /\ \A x \in Delimiters : ~IsWordPiece(x) /\ x # Space
  BY DEF IsWordPiece, Space, Delimiters

\* spaces at the position make no difference
LEMMA SkipTwice ==
  ASSUME NEW s \in Seq(Pieces), NEW i \in 1..Len(s) + 1
  PROVE  /\ SkipSpaces(s, i) \in 1..Len(s) + 1
         /\ SkipSpaces(s, SkipSpaces(s, i)) = SkipSpaces(s, i)
         /\ ParseWordList(s)[SkipSpaces(s, i)] = ParseWordList(s)[i]
         /\ ParseCommandList(s)[SkipSpaces(s, i)] = ParseCommandList(s)[i]
  <1>1. PICK b : b = SkipSpaces(s, i)
    OBVIOUS
  <1>2. Len(s) \in Nat /\ b \in i..Len(s) + 1 /\ (b = Len(s) + 1 \/ s[b] # Space)
    BY <1>1, SkipSpacesIs
  <1>3. b \in 1..Len(s) + 1 /\ b \in b..Len(s) + 1 /\ Spaces(s, b, b)
    BY <1>2 DEF Spaces
  <1>4. SkipSpaces(s, b) = b
    BY <1>2, <1>3, SkipSpacesTo
  <1>5. ParseWordList(s)[b] = ParseWordList(s)[i]
    <2>1. ParseWordList(s)[b] = WordsFrom(s, ParseWordList(s), SkipSpaces(s, b))
      BY <1>3, ParseWordListIs
    <2>2. ParseWordList(s)[i] = WordsFrom(s, ParseWordList(s), SkipSpaces(s, i))
      BY ParseWordListIs
    <2> QED
      BY <1>1, <1>4, <2>1, <2>2
  <1>6. FirstCommand(s, b) = FirstCommand(s, i)
    BY <1>1, <1>4 DEF FirstCommand
  <1>7. ParseCommandList(s)[b] = ParseCommandList(s)[i]
    <2>1. ParseCommandList(s)[b] = CommandsFrom(s, ParseCommandList(s), FirstCommand(s, b))
      BY <1>3, ParseCommandListIs
    <2>2. ParseCommandList(s)[i] = CommandsFrom(s, ParseCommandList(s), FirstCommand(s, i))
      BY ParseCommandListIs
    <2> QED
      BY <1>6, <2>1, <2>2
  <1> QED
    BY <1>1, <1>3, <1>4, <1>5, <1>7

\* one word, and what is behind it
LEMMA ReadsWord ==
  ASSUME NEW s \in Seq(Pieces), NEW w \in Words, NEW i \in 1..Len(s) + 1, NEW b \in i..Len(s) + 1,
         NEW e \in 1..Len(s) + 1, Spaces(s, i, b), e = b + Len(w), Spelled(s, b, w),
         e = Len(s) + 1 \/ ~IsWordPiece(s[e])
  PROVE  /\ SkipSpaces(s, i) = b /\ ~NoWord(s, i) /\ FirstWord(s, i) = w
         /\ AfterWord(s, i) = IF Is(s, e, Space) THEN e + 1 ELSE e
  <1>1. /\ w \in Seq(Pieces) /\ Len(w) \in Nat /\ Len(w) >= 1 /\ Len(s) \in Nat
        /\ \A k \in 1..Len(w) : IsWordPiece(w[k]) /\ s[b + k - 1] = w[k]
    BY DEF Words, Wordy, Spelled
  <1>2. b \in 1..Len(s) /\ e \in b + 1..Len(s) + 1 /\ s[b] # Space
    <2>1. b \in 1..Len(s) /\ e \in b + 1..Len(s) + 1
      BY <1>1
    <2>2. s[b + 1 - 1] = w[1] /\ IsWordPiece(w[1]) /\ b + 1 - 1 = b
      BY <1>1
    <2> QED
      BY <2>1, <2>2, WordPieceFacts
  <1>3. SkipSpaces(s, i) = b
    BY <1>1, <1>2, SkipSpacesTo
  <1>4. Wordy(s, b, e)
    <2> SUFFICES ASSUME NEW k \in b..e - 1 PROVE IsWordPiece(s[k])
      BY DEF Wordy
    <2>1. k - b + 1 \in 1..Len(w) /\ b + (k - b + 1) - 1 = k
      <3>1. \A x, n \in Nat : \A y \in x..x + n - 1 :
              y - x + 1 \in 1..n /\ x + (y - x + 1) - 1 = y
        OBVIOUS
      <3>2. b \in Nat
        BY <1>2
      <3> QED
        BY <1>1, <3>1, <3>2
    <2> QED
      BY <1>1, <2>1
  <1>5. WordEnd(s, b) = e
    <2>1. b \in 1..Len(s) + 1 /\ e \in b..Len(s) + 1
      BY <1>2
    <2> QED
      BY <1>1, <1>4, <2>1, WordEndTo
  <1>6. SubSeq(s, b, e - 1) = w
    <2>0. \A x, y \in Nat : x + y - x = y
      OBVIOUS
    <2>1. b \in 1..Len(s) + 1 /\ e \in b..Len(s) + 1 /\ e - b = Len(w)
      BY <1>1, <1>2, <2>0
    <2>2. /\ SubSeq(s, b, e - 1) \in Seq(Pieces) /\ Len(SubSeq(s, b, e - 1)) = e - b
          /\ \A k \in 1..e - b : SubSeq(s, b, e - 1)[k] = s[b + k - 1]
      BY <1>4, <2>1, SubWord
    <2> PICK v : v = SubSeq(s, b, e - 1)
      OBVIOUS
    <2>3. v \in Seq(Pieces) /\ Len(v) = Len(w) /\ \A k \in 1..Len(w) : v[k] = w[k]
      BY <1>1, <2>1, <2>2
    <2>4. v = w
      BY <1>1, <2>3, SeqEqual
    <2> QED
      BY <2>4
  <1>7. b # e
    BY <1>2
  <1> QED
    BY <1>3, <1>5, <1>6, <1>7 DEF NoWord, FirstWord, AfterWord, SkipOneSpace

\* what is left of a list
Rest(q, k) == [m \in 1..Len(q) - k + 1 |-> q[k + m - 1]]

LEMMA RestFacts ==
  ASSUME NEW V, NEW q \in Seq(V)
  PROVE  /\ Rest(q, 1) = q /\ Rest(q, Len(q) + 1) = <<>>
         /\ \A k \in 1..Len(q) : /\ Rest(q, k) = <<q[k]>> \o Rest(q, k + 1)
                                 /\ Rest(q, k) \in Seq(V) /\ Rest(q, k) # <<>>
  <1>1. Len(q) \in Nat /\ \A m \in 1..Len(q) : q[m] \in V
    OBVIOUS
  <1>2. ASSUME NEW k \in 1..Len(q) + 1
        PROVE  Rest(q, k) \in Seq(V) /\ Len(Rest(q, k)) = Len(q) - k + 1
               /\ \A m \in 1..Len(q) - k + 1 : Rest(q, k)[m] = q[k + m - 1]
    <2>1. Len(q) - k + 1 \in Nat /\ \A m \in 1..Len(q) - k + 1 : q[k + m - 1] \in V
      BY <1>1
    <2> PICK l \in Nat : l = Len(q) - k + 1
      BY <2>1
    <2>2. [m \in 1..l |-> q[k + m - 1]] \in Seq(V) /\ Len([m \in 1..l |-> q[k + m - 1]]) = l
      BY <2>1
    <2> QED
      BY <2>1, <2>2 DEF Rest
  <1>3. Rest(q, 1) = q
    <2>1. 1 \in 1..Len(q) + 1 /\ Len(q) - 1 + 1 = Len(q) /\ \A m \in 1..Len(q) : 1 + m - 1 = m
      BY <1>1
    <2> PICK r : r = Rest(q, 1)
      OBVIOUS
    <2>2. r \in Seq(V) /\ Len(r) = Len(q) /\ \A m \in 1..Len(q) : r[m] = q[m]
      BY <1>2, <2>1
    <2>3. r = q
      BY <2>2, SeqEqual
    <2> QED
      BY <2>3
  <1>4. Rest(q, Len(q) + 1) = <<>>
    <2>1. Len(q) + 1 \in 1..Len(q) + 1 /\ Len(q) - (Len(q) + 1) + 1 = 0
      BY <1>1
    <2>2. Rest(q, Len(q) + 1) \in Seq(V) /\ Len(Rest(q, Len(q) + 1)) = 0
      BY <1>2, <2>1
    <2> QED
      BY <2>2, EmptySeq
  <1>5. ASSUME NEW k \in 1..Len(q)
        PROVE  /\ Rest(q, k) = <<q[k]>> \o Rest(q, k + 1)
               /\ Rest(q, k) \in Seq(V) /\ Rest(q, k) # <<>>
    <2>0. k \in 1..Len(q) + 1 /\ k + 1 \in 1..Len(q) + 1 /\ Len(q) - (k + 1) + 1 = Len(q) - k
          /\ Len(q) - k + 1 >= 1 /\ Len(q) - k \in Nat /\ q[k] \in V
      BY <1>1
    <2>1. /\ Rest(q, k) \in Seq(V) /\ Len(Rest(q, k)) = Len(q) - k + 1
          /\ \A m \in 1..Len(q) - k + 1 : Rest(q, k)[m] = q[k + m - 1]
      BY <1>2, <2>0
    <2>2. /\ Rest(q, k + 1) \in Seq(V) /\ Len(Rest(q, k + 1)) = Len(q) - k
          /\ \A m \in 1..Len(q) - k : Rest(q, k + 1)[m] = q[k + 1 + m - 1]
      BY <1>2, <2>0
    <2> PICK a : a = Rest(q, k)
      OBVIOUS
    <2> PICK c : c = Rest(q, k + 1)
      OBVIOUS
    <2> DEFINE r == <<q[k]>> \o c
    <2>3. /\ r \in Seq(V) /\ Len(r) = 1 + (Len(q) - k)
          /\ \A m \in 1..1 + (Len(q) - k) : r[m] = IF m = 1 THEN q[k] ELSE c[m - 1]
      <3>1. PICK x \in V : x = q[k]
        BY <2>0
      <3>2. <<x>> \in Seq(V)
        OBVIOUS
      <3>3. PICK h \in Seq(V) : h = <<x>>
        BY <3>2
      <3>4. Len(h) = 1 /\ h[1] = x
        BY <3>3
      <3>5. PICK e \in Seq(V) : e = c /\ Len(e) = Len(q) - k
        BY <2>2
      <3>6. /\ h \o e \in Seq(V) /\ Len(h \o e) = Len(h) + Len(e)
            /\ \A m \in 1..Len(h) + Len(e) :
                 (h \o e)[m] = IF m <= Len(h) THEN h[m] ELSE e[m - Len(h)]
        BY ConcatProperties
      <3>7. PICK v : v = h \o e
        OBVIOUS
      <3>8. \A n \in Nat : \A m \in 1..1 + n : (m <= 1 <=> m = 1)
        OBVIOUS
      <3>9. PICK l \in Nat : l = Len(q) - k
        BY <2>0
      <3>10. /\ v \in Seq(V) /\ Len(v) = 1 + l
            /\ \A m \in 1..1 + l : v[m] = IF m = 1 THEN x ELSE e[m - 1]
        <4>1. v \in Seq(V) /\ Len(v) = 1 + l /\ \A m \in 1..1 + l :
                v[m] = IF m <= 1 THEN h[m] ELSE e[m - 1]
          BY <3>4, <3>5, <3>6, <3>7, <3>9
        <4> QED
          BY <3>4, <3>8, <3>9, <4>1
      <3>11. v = r
        BY <3>1, <3>3, <3>5, <3>7
      <3> HIDE DEF r
      <3> QED
        BY <3>1, <3>5, <3>10, <3>11, <3>9
    <2> HIDE DEF r
    <2>4. ASSUME NEW m \in 1..Len(a) PROVE a[m] = r[m]
      <3>1. m \in 1..Len(q) - k + 1 /\ m \in 1..1 + (Len(q) - k)
        BY <2>0, <2>1
      <3>2. CASE m = 1
        <4>1. k + 1 - 1 = k
          BY <2>0
        <4> QED
          BY <2>1, <2>3, <3>1, <3>2, <4>1
      <3>3. CASE m # 1
        <4>1. m - 1 \in 1..Len(q) - k /\ k + 1 + (m - 1) - 1 = k + m - 1
          BY <2>0, <3>1, <3>3
        <4> QED
          BY <2>1, <2>2, <2>3, <3>1, <3>3, <4>1
      <3> QED
        BY <3>2, <3>3
    <2>5. Len(a) = Len(r) /\ a \in Seq(V)
      BY <2>0, <2>1, <2>3
    <2>6. a = r
      BY <2>3, <2>4, <2>5, SeqEqual
    <2>7. a # <<>>
      BY <2>0, <2>1
    <2> QED
      BY <2>1, <2>6, <2>7 DEF r
  <1> QED
    BY <1>3, <1>4, <1>5

\* Where nothing but spaces is before a delimiter, no word is read.
LEMMA ReadsNoMore ==
  ASSUME NEW s \in Seq(Pieces), NEW j \in 1..Len(s) + 1, NEW d \in j..Len(s) + 1, Bounds(s, d),
         Spaces(s, j, d)
  PROVE  ParseWordList(s)[j].words = <<>> /\ SkipSpaces(s, ParseWordList(s)[j].at) = d
         /\ SkipSpaces(s, j) = d
  <1>1. Len(s) \in Nat /\ j \in Nat /\ d \in Nat /\ d \in 1..Len(s) + 1 /\ d \in d..Len(s) + 1
    OBVIOUS
  <1>2. d = Len(s) + 1 \/ (s[d] # Space /\ ~IsWordPiece(s[d]))
    BY WordPieceFacts DEF Bounds
  <1>3. SkipSpaces(s, j) = d
    BY <1>1, <1>2, SkipSpacesTo
  <1>4. SkipSpaces(s, d) = d
    <2>1. Spaces(s, d, d)
      BY <1>1 DEF Spaces
    <2> QED
      BY <1>1, <1>2, <2>1, SkipSpacesTo
  <1>5. WordEnd(s, d) = d
    <2>1. Wordy(s, d, d)
      BY <1>1 DEF Wordy
    <2> QED
      BY <1>1, <1>2, <2>1, WordEndTo
  <1>6. NoWord(s, j)
    BY <1>3, <1>5 DEF NoWord
  <1>7. ParseWordList(s)[j] = WordsFrom(s, ParseWordList(s), SkipSpaces(s, j))
    BY ParseWordListIs
  <1>8. ParseWordList(s)[j] = [words |-> <<>>, at |-> SkipSpaces(s, j)]
    BY <1>6, <1>7, WordsFromCases
  <1>9. ParseWordList(s)[j].words = <<>> /\ ParseWordList(s)[j].at = d
    BY <1>3, <1>8
  <1> QED
    BY <1>3, <1>4, <1>9

\* The first word is read, and the next one behind the spaces that follow.
LEMMA ReadsMore ==
  ASSUME NEW s \in Seq(Pieces), NEW w \in Words, NEW j \in 1..Len(s) + 1, NEW b \in j..Len(s) + 1,
         NEW e \in 1..Len(s) + 1, Spaces(s, j, b), e = b + Len(w), Spelled(s, b, w),
         NEW c \in e + 1..Len(s), Spaces(s, e, c), IsWordPiece(s[c])
  PROVE  /\ e + 1 \in 1..Len(s) /\ Spaces(s, e + 1, c)
         /\ ParseWordList(s)[j].words = <<w>> \o ParseWordList(s)[e + 1].words
         /\ ParseWordList(s)[j].at = ParseWordList(s)[e + 1].at
  <1>1. /\ Len(s) \in Nat /\ e \in Nat /\ c \in Nat /\ e \in 1..Len(s) /\ e + 1 \in 1..Len(s)
        /\ e \in e..c - 1 /\ DOMAIN s = 1..Len(s)
    OBVIOUS
  <1>2. s[e] = Space /\ ~IsWordPiece(s[e])
    BY <1>1, WordPieceFacts DEF Spaces
  <1>3. \A k \in e + 1..c - 1 : s[k] = Space
    BY <1>1 DEF Spaces
  <1>4. s[e + 1] \notin Delimiters
    <2>1. CASE e + 1 = c
      BY <2>1, WordPieceFacts
    <2>2. CASE e + 1 # c
      <3>1. e + 1 \in e + 1..c - 1
        BY <1>1, <2>2
      <3> QED
        BY <1>3, <3>1, WordPieceFacts
    <2> QED
      BY <2>1, <2>2
  <1>5. ~NoWord(s, j) /\ FirstWord(s, j) = w /\ AfterWord(s, j) = IF Is(s, e, Space) THEN e + 1 ELSE e
    BY <1>2, ReadsWord
  <1>6. AfterWord(s, j) = e + 1
    BY <1>1, <1>2, <1>5 DEF Is
  <1>7. ~LastWord(s, j)
    BY <1>1, <1>4, <1>6 DEF LastWord
  <1>8. ParseWordList(s)[j] = WordsFrom(s, ParseWordList(s), SkipSpaces(s, j))
    BY ParseWordListIs
  <1>9. ParseWordList(s)[j]
          = [words |-> <<w>> \o ParseWordList(s)[e + 1].words, at |-> ParseWordList(s)[e + 1].at]
    BY <1>5, <1>6, <1>7, <1>8, WordsFromCases, ZenonT(30)
  <1>10. /\ ParseWordList(s)[j].words = <<w>> \o ParseWordList(s)[e + 1].words
         /\ ParseWordList(s)[j].at = ParseWordList(s)[e + 1].at
    <2>1. PICK q : q = <<w>> \o ParseWordList(s)[e + 1].words
      OBVIOUS
    <2>2. PICK r : r = ParseWordList(s)[e + 1].at
      OBVIOUS
    <2>3. ParseWordList(s)[j] = [words |-> q, at |-> r]
      BY <1>9, <2>1, <2>2
    <2>4. ParseWordList(s)[j].words = q /\ ParseWordList(s)[j].at = r
      BY <2>3
    <2> QED
      BY <2>1, <2>2, <2>4
  <1>11. Spaces(s, e + 1, c)
    BY <1>3 DEF Spaces
  <1> QED
    BY <1>1, <1>10, <1>11

\* The last word is read, and with it the spaces that follow.
LEMMA ReadsLast ==
  ASSUME NEW s \in Seq(Pieces), NEW w \in Words, NEW j \in 1..Len(s) + 1, NEW b \in j..Len(s) + 1,
         NEW e \in 1..Len(s) + 1, Spaces(s, j, b), e = b + Len(w), Spelled(s, b, w),
         NEW d \in e..Len(s) + 1, Bounds(s, d), Spaces(s, e, d)
  PROVE  ParseWordList(s)[j].words = <<w>> /\ SkipSpaces(s, ParseWordList(s)[j].at) = d
  <1>1. /\ Len(s) \in Nat /\ e \in Nat /\ d \in Nat /\ e \in 1..Len(s) + 1 /\ DOMAIN s = 1..Len(s)
        /\ d \in 1..Len(s) + 1 /\ d \in d..Len(s) + 1 /\ <<w>> \in Seq(Words)
    OBVIOUS
  <1>2. \A k \in e..d - 1 : s[k] = Space
    BY DEF Spaces
  <1>3. d = Len(s) + 1 \/ (s[d] # Space /\ s[d] \in Delimiters /\ ~IsWordPiece(s[d]))
    BY WordPieceFacts DEF Bounds
  <1>4. e = Len(s) + 1 \/ ~IsWordPiece(s[e])
    <2>1. CASE e = d
      BY <1>3, <2>1
    <2>2. CASE e # d
      <3>1. e \in e..d - 1
        BY <1>1, <2>2
      <3> QED
        BY <1>2, <3>1, WordPieceFacts
    <2> QED
      BY <2>1, <2>2
  <1>5. ~NoWord(s, j) /\ FirstWord(s, j) = w /\ AfterWord(s, j) = IF Is(s, e, Space) THEN e + 1 ELSE e
    BY <1>4, ReadsWord
  <1>6. AfterWord(s, j) \in e..d /\ (AfterWord(s, j) # d => AfterWord(s, j) = e + 1)
    <2>1. CASE e = d
      <3>1. ~Is(s, e, Space)
        BY <1>1, <1>3, <2>1 DEF Is
      <3> QED
        BY <1>1, <1>5, <2>1, <3>1
    <2>2. CASE e # d
      <3>1. e \in e..d - 1 /\ e \in 1..Len(s) /\ e + 1 \in e..d
        BY <1>1, <2>2
      <3>2. Is(s, e, Space)
        BY <1>1, <1>2, <3>1 DEF Is
      <3> QED
        BY <1>5, <3>1, <3>2
    <2> QED
      BY <2>1, <2>2
  <1>7. PICK a : a = AfterWord(s, j)
    OBVIOUS
  <1>8. a \in e..d /\ a \in Nat /\ a \in 1..Len(s) + 1 /\ d \in a..Len(s) + 1
    BY <1>1, <1>6, <1>7
  <1>9. Spaces(s, a, d)
    BY <1>1, <1>2, <1>8 DEF Spaces
  <1>10. ParseWordList(s)[a].words = <<>> /\ SkipSpaces(s, ParseWordList(s)[a].at) = d
         /\ SkipSpaces(s, a) = d
    BY <1>8, <1>9, ReadsNoMore
  <1>11. ParseWordList(s)[j] = WordsFrom(s, ParseWordList(s), SkipSpaces(s, j))
    BY ParseWordListIs
  <1>12. CASE LastWord(s, j)
    <2>1. ParseWordList(s)[j] = [words |-> <<w>>, at |-> a]
      BY <1>5, <1>7, <1>11, <1>12, WordsFromCases
    <2>2. ParseWordList(s)[j].words = <<w>> /\ ParseWordList(s)[j].at = a
      BY <2>1
    <2> QED
      BY <1>10, <2>2
  <1>13. CASE ~LastWord(s, j)
    <2>1. ParseWordList(s)[j]
            = [words |-> <<w>> \o ParseWordList(s)[a].words, at |-> ParseWordList(s)[a].at]
      BY <1>5, <1>7, <1>11, <1>13, WordsFromCases
    <2>2. /\ ParseWordList(s)[j].words = <<w>> \o ParseWordList(s)[a].words
          /\ ParseWordList(s)[j].at = ParseWordList(s)[a].at
      BY <2>1, SMTT(30)
    <2>3. <<w>> \o <<>> = <<w>>
      BY <1>1, ConcatEmptySeq
    <2> QED
      BY <1>10, <2>2, <2>3
  <1> QED
    BY <1>12, <1>13

\* The words that are laid out are parsed.
LEMMA ReadsWords ==
  ASSUME NEW s \in Seq(Pieces), NEW i \in 1..Len(s) + 1, NEW d \in i..Len(s) + 1, Bounds(s, d),
         NEW ws, AreWords(s, i, d, ws)
  PROVE  ParseWordList(s)[i].words = ws /\ SkipSpaces(s, ParseWordList(s)[i].at) = d
  <1>1. PICK at, to : WordsLaid(s, i, d, ws, at, to)
    BY DEF AreWords
  <1>2. PICK n : n = Len(ws)
    OBVIOUS
  <1>3. n \in Nat /\ ws \in Seq(Words) /\ (\A k \in 1..n : ws[k] \in Words)
        /\ Len(s) \in Nat /\ d \in Nat
    BY <1>1, <1>2 DEF WordsLaid
  <1>a. /\ at \in [1..n -> 1..Len(s) + 1] /\ to \in [0..n -> 1..Len(s) + 1]
        /\ to[0] = i /\ to[n] <= d /\ Spaces(s, to[n], d)
        /\ \A k \in 1..n : /\ to[k - 1] <= at[k] /\ Spaces(s, to[k - 1], at[k])
                           /\ k > 1 => to[k - 1] < at[k]
    BY <1>1, <1>2 DEF WordsLaid
  <1>4. \A k \in 1..n : at[k] \in 1..Len(s) + 1 /\ to[k] \in 1..Len(s) + 1
    BY <1>3, <1>a
  <1>5. to[0] = i /\ to[n] \in 1..Len(s) + 1 /\ to[n] <= d /\ Spaces(s, to[n], d)
    BY <1>3, <1>a
  <1>6. \A k \in 1..n : /\ to[k - 1] \in 1..Len(s) + 1
                        /\ to[k - 1] <= at[k] /\ Spaces(s, to[k - 1], at[k])
                        /\ k > 1 => to[k - 1] < at[k]
    BY <1>3, <1>a
  <1>7. \A k \in 1..n : to[k] = at[k] + Len(ws[k]) /\ Spelled(s, at[k], ws[k])
    BY <1>1, <1>2 DEF WordsLaid
  <1>8. ASSUME NEW k \in 1..n PROVE at[k] \in 1..Len(s) /\ IsWordPiece(s[at[k]])
    <2>1. /\ Len(ws[k]) \in Nat /\ Len(ws[k]) >= 1 /\ 1 \in 1..Len(ws[k])
          /\ IsWordPiece(ws[k][1])
      BY <1>3 DEF Words, Wordy
    <2>2. at[k] + Len(ws[k]) <= Len(s) + 1 /\ s[at[k] + 1 - 1] = ws[k][1]
      BY <1>7, <2>1 DEF Spelled
    <2>3. at[k] \in 1..Len(s) /\ at[k] + 1 - 1 = at[k]
      BY <1>3, <1>4, <2>1, <2>2
    <2> QED
      BY <2>1, <2>2, <2>3
  <1> DEFINE Read(k) == \A j \in to[k - 1]..at[k] : ParseWordList(s)[j].words = Rest(ws, k)
                                                    /\ SkipSpaces(s, ParseWordList(s)[j].at) = d
             S == {k \in 1..n : Read(k)}
  <1>9. /\ Rest(ws, 1) = ws /\ Rest(ws, n + 1) = <<>>
        /\ \A k \in 1..n : Rest(ws, k) = <<ws[k]>> \o Rest(ws, k + 1)
    BY <1>2, <1>3, RestFacts, SMTT(30)
  <1>10. ASSUME NEW k \in 1..n, NEW j \in to[k - 1]..at[k]
         PROVE  /\ j \in 1..Len(s) + 1 /\ at[k] \in j..Len(s) + 1 /\ to[k] \in 1..Len(s) + 1
                /\ Spaces(s, j, at[k])
    BY <1>3, <1>4, <1>6 DEF Spaces
  <1>11. ASSUME n >= 1 PROVE Read(n)
    <2> SUFFICES ASSUME NEW j \in to[n - 1]..at[n]
                 PROVE  ParseWordList(s)[j].words = <<ws[n]>>
                        /\ SkipSpaces(s, ParseWordList(s)[j].at) = d
      <3>1. n \in 1..n /\ <<ws[n]>> \in Seq(Words)
        BY <1>3, <1>11
      <3>2. Rest(ws, n) = <<ws[n]>>
        <4>1. Rest(ws, n) = <<ws[n]>> \o <<>>
          BY <1>9, <3>1
        <4> QED
          BY <3>1, <4>1, ConcatEmptySeq
      <3> QED
        BY <3>2
    <2>1. n \in 1..n
      BY <1>3, <1>11
    <2>2. PICK b \in j..Len(s) + 1 : b = at[n]
      BY <1>10, <2>1
    <2>3. PICK e \in 1..Len(s) + 1 : e = to[n]
      BY <1>5
    <2>4. j \in 1..Len(s) + 1 /\ Spaces(s, j, b) /\ e = b + Len(ws[n]) /\ Spelled(s, b, ws[n])
          /\ d \in e..Len(s) + 1 /\ Spaces(s, e, d) /\ ws[n] \in Words
      BY <1>3, <1>5, <1>7, <1>10, <2>1, <2>2, <2>3
    <2> QED
      BY <2>2, <2>3, <2>4, ReadsLast
  <1>12. ASSUME NEW k \in 1..n, k + 1 \in 1..n, Read(k + 1) PROVE Read(k)
    <2> SUFFICES ASSUME NEW j \in to[k - 1]..at[k]
                 PROVE  ParseWordList(s)[j].words = Rest(ws, k)
                        /\ SkipSpaces(s, ParseWordList(s)[j].at) = d
      OBVIOUS
    <2>1. k + 1 - 1 = k /\ k + 1 > 1
      OBVIOUS
    <2>2. PICK b \in j..Len(s) + 1 : b = at[k]
      BY <1>10
    <2>3. PICK e \in 1..Len(s) + 1 : e = to[k]
      BY <1>4
    <2>4. j \in 1..Len(s) + 1 /\ Spaces(s, j, b) /\ e = b + Len(ws[k]) /\ Spelled(s, b, ws[k])
          /\ ws[k] \in Words
      BY <1>3, <1>7, <1>10, <2>2, <2>3
    <2>5. to[k] < at[k + 1] /\ Spaces(s, to[k], at[k + 1])
      BY <1>6, <1>12, <2>1
    <2>6. at[k + 1] \in 1..Len(s) /\ IsWordPiece(s[at[k + 1]])
      BY <1>8, <1>12
    <2>7. PICK c \in e + 1..Len(s) : c = at[k + 1]
      BY <2>3, <2>5, <2>6
    <2>8. Spaces(s, e, c) /\ IsWordPiece(s[c])
      BY <2>3, <2>5, <2>6, <2>7
    <2>9. /\ ParseWordList(s)[j].words = <<ws[k]>> \o ParseWordList(s)[e + 1].words
          /\ ParseWordList(s)[j].at = ParseWordList(s)[e + 1].at
      BY <2>2, <2>3, <2>4, <2>7, <2>8, ReadsMore
    <2>10. e + 1 \in to[k + 1 - 1]..at[k + 1]
      BY <2>1, <2>3, <2>7
    <2>11. PICK r : r = e + 1
      OBVIOUS
    <2>12. ParseWordList(s)[r].words = Rest(ws, k + 1)
           /\ SkipSpaces(s, ParseWordList(s)[r].at) = d
      BY <1>12, <2>10, <2>11
    <2> QED
      BY <1>9, <2>9, <2>11, <2>12
  <1>13. CASE n = 0
    <2>1. ws = <<>>
      BY <1>9, <1>13
    <2>2. i <= d /\ Spaces(s, i, d)
      BY <1>5, <1>13
    <2> QED
      BY <2>1, <2>2, ReadsNoMore
  <1>14. CASE n # 0
    <2>1. n >= 1 /\ 1 \in 1..n /\ 1 - 1 = 0
      BY <1>3, <1>14
    <2>2. ASSUME NEW k \in 1..n, \A j \in 1..n : j > k => j \in S PROVE k \in S
      <3>1. CASE k = n
        <4> HIDE DEF Read
        <4> QED
          BY <1>11, <2>1, <3>1
      <3>2. CASE k # n
        <4>1. k + 1 \in 1..n /\ k + 1 > k
          BY <1>3, <3>2
        <4>2. k + 1 \in S
          BY <2>2, <4>1
        <4> HIDE DEF Read
        <4> QED
          BY <1>12, <4>1, <4>2
      <3> QED
        BY <3>1, <3>2
    <2>3. 1..n \subseteq S
      <3> HIDE DEF S
      <3> QED
        BY <1>3, <2>2, DownInduction
    <2>4. Read(1)
      <3> HIDE DEF Read
      <3> QED
        BY <2>1, <2>3
    <2>5. i \in to[1 - 1]..at[1]
      <3>1. to[1 - 1] = i /\ to[1 - 1] <= at[1] /\ at[1] \in 1..Len(s) + 1
        BY <1>4, <1>5, <1>6, <2>1
      <3> QED
        BY <3>1
    <2> QED
      BY <1>9, <2>4, <2>5
  <1> QED
    BY <1>13, <1>14

\* From i to d are the commands cs, each between its start[k] and the pipe at bar[k].
CommandsLaid(s, i, d, cs, start, bar) ==
  /\ cs \in CommandLists /\ cs # <<>>
  /\ start \in [1..Len(cs) -> 1..Len(s) + 1] /\ bar \in [1..Len(cs) -> 1..Len(s) + 1]
  /\ start[1] = i /\ bar[Len(cs)] = d /\ ~Is(s, d, "|")
  /\ \A k \in 1..Len(cs) :
       /\ start[k] <= bar[k] /\ Bounds(s, bar[k]) /\ AreWords(s, start[k], bar[k], cs[k])
       /\ k + 1 \in 1..Len(cs) => Is(s, bar[k], "|") /\ start[k + 1] = bar[k] + 1

AreCommands(s, i, d, cs) == \E start, bar : CommandsLaid(s, i, d, cs, start, bar)

\* The last command is read up to the delimiter.
LEMMA ReadsLastCommand ==
  ASSUME NEW s \in Seq(Pieces), NEW i \in 1..Len(s) + 1, NEW b \in i..Len(s) + 1, Bounds(s, b),
         NEW c, c # <<>>, AreWords(s, i, b, c), ~Is(s, b, "|")
  PROVE  ParseCommandList(s)[i].commands = <<c>> /\ ParseCommandList(s)[i].at = b
  <1>1. ParseWordList(s)[i].words = c /\ SkipSpaces(s, ParseWordList(s)[i].at) = b
    BY ReadsWords
  <1>2. FirstCommand(s, i) = ParseWordList(s)[i]
    BY SkipTwice DEF FirstCommand
  <1>3. FirstCommand(s, i).words = c /\ AfterCommand(s, i) = b
    BY <1>1, <1>2 DEF AfterCommand
  <1>4. ~NoCommand(s, i) /\ LastCommand(s, i)
    BY <1>3 DEF NoCommand, LastCommand
  <1>5. ParseCommandList(s)[i] = CommandsFrom(s, ParseCommandList(s), FirstCommand(s, i))
    BY ParseCommandListIs
  <1>6. ParseCommandList(s)[i] = [commands |-> <<c>>, at |-> b]
    BY <1>3, <1>4, <1>5, CommandsFromCases
  <1> QED
    BY <1>6

\* Another one is read up to the pipe, and the others behind it.
LEMMA ReadsMoreCommands ==
  ASSUME NEW s \in Seq(Pieces), NEW i \in 1..Len(s) + 1, NEW b \in i..Len(s) + 1, Bounds(s, b),
         NEW c, c # <<>>, AreWords(s, i, b, c), Is(s, b, "|")
  PROVE  /\ ParseCommandList(s)[i].commands = <<c>> \o ParseCommandList(s)[b + 1].commands
         /\ ParseCommandList(s)[i].at = ParseCommandList(s)[b + 1].at
  <1>1. ParseWordList(s)[i].words = c /\ SkipSpaces(s, ParseWordList(s)[i].at) = b
    BY ReadsWords
  <1>2. FirstCommand(s, i) = ParseWordList(s)[i]
    BY SkipTwice DEF FirstCommand
  <1>3. FirstCommand(s, i).words = c /\ AfterCommand(s, i) = b
    BY <1>1, <1>2 DEF AfterCommand
  <1>4. ~NoCommand(s, i) /\ ~LastCommand(s, i)
    BY <1>3 DEF NoCommand, LastCommand
  <1>5. ParseCommandList(s)[i] = CommandsFrom(s, ParseCommandList(s), FirstCommand(s, i))
    BY ParseCommandListIs
  <1>6. PICK r : r = ParseCommandList(s)[b + 1]
    OBVIOUS
  <1>7. ParseCommandList(s)[i] = [commands |-> <<c>> \o r.commands, at |-> r.at]
    BY <1>3, <1>4, <1>5, <1>6, CommandsFromCases
  <1>8. ParseCommandList(s)[i].commands = <<c>> \o r.commands /\ ParseCommandList(s)[i].at = r.at
    BY <1>7
  <1> QED
    BY <1>6, <1>8

\* The commands that are laid out are parsed.
LEMMA ReadsCommands ==
  ASSUME NEW s \in Seq(Pieces), NEW i \in 1..Len(s) + 1, NEW d \in i..Len(s) + 1,
         NEW cs, AreCommands(s, i, d, cs)
  PROVE  ParseCommandList(s)[i].commands = cs /\ ParseCommandList(s)[i].at = d
  <1>1. PICK start, bar : CommandsLaid(s, i, d, cs, start, bar)
    BY DEF AreCommands
  <1>2. PICK n : n = Len(cs)
    OBVIOUS
  <1>3. n \in Nat /\ n >= 1 /\ cs \in CommandLists /\ Len(s) \in Nat /\ d \in Nat
    BY <1>1, <1>2 DEF CommandsLaid, CommandLists
  <1>4. \A k \in 1..n : cs[k] \in Seq(Words) \ {<<>>}
    BY <1>2, <1>3 DEF CommandLists
  <1>5. /\ start \in [1..n -> 1..Len(s) + 1] /\ bar \in [1..n -> 1..Len(s) + 1]
        /\ start[1] = i /\ bar[n] = d /\ ~Is(s, d, "|")
        /\ \A k \in 1..n : /\ start[k] <= bar[k] /\ Bounds(s, bar[k])
                           /\ AreWords(s, start[k], bar[k], cs[k])
                           /\ k + 1 \in 1..n => Is(s, bar[k], "|") /\ start[k + 1] = bar[k] + 1
    BY <1>1, <1>2 DEF CommandsLaid
  <1>6. \A k \in 1..n : start[k] \in 1..Len(s) + 1 /\ bar[k] \in start[k]..Len(s) + 1
    BY <1>3, <1>5
  <1>7. /\ Rest(cs, 1) = cs /\ Rest(cs, n + 1) = <<>>
        /\ \A k \in 1..n : Rest(cs, k) = <<cs[k]>> \o Rest(cs, k + 1)
    <2>1. PICK V : V = Seq(Words) \ {<<>>}
      OBVIOUS
    <2>2. cs \in Seq(V)
      BY <1>3, <2>1 DEF CommandLists
    <2> QED
      BY <1>2, <2>2, RestFacts, SMTT(30)
  <1> DEFINE Read(k) == ParseCommandList(s)[start[k]].commands = Rest(cs, k)
                        /\ ParseCommandList(s)[start[k]].at = d
             S == {k \in 1..n : Read(k)}
  <1>8. n \in 1..n
    BY <1>3
  <1>9. Read(n)
    <2>1. Rest(cs, n) = <<cs[n]>>
      <3>1. Rest(cs, n) = <<cs[n]>> \o <<>>
        BY <1>7, <1>8
      <3>2. <<cs[n]>> \in Seq(Seq(Words) \ {<<>>})
        BY <1>4, <1>8
      <3> QED
        BY <3>1, <3>2, ConcatEmptySeq
    <2>2. PICK j \in 1..Len(s) + 1 : j = start[n]
      BY <1>6, <1>8
    <2>3. d \in j..Len(s) + 1 /\ Bounds(s, d) /\ cs[n] # <<>> /\ AreWords(s, j, d, cs[n])
      BY <1>4, <1>5, <1>6, <1>8, <2>2
    <2>4. ParseCommandList(s)[j].commands = <<cs[n]>> /\ ParseCommandList(s)[j].at = d
      BY <1>5, <2>3, ReadsLastCommand
    <2> QED
      BY <2>1, <2>2, <2>4
  <1>10. ASSUME NEW k \in 1..n, k + 1 \in 1..n, Read(k + 1) PROVE Read(k)
    <2>1. PICK j \in 1..Len(s) + 1 : j = start[k]
      BY <1>6
    <2>2. PICK b \in j..Len(s) + 1 : b = bar[k]
      BY <1>6, <2>1
    <2>3. /\ Bounds(s, b) /\ cs[k] # <<>> /\ AreWords(s, j, b, cs[k])
          /\ Is(s, b, "|") /\ start[k + 1] = b + 1
      BY <1>4, <1>5, <1>10, <2>1, <2>2
    <2>4. PICK r : r = ParseCommandList(s)[b + 1]
      OBVIOUS
    <2>5. ParseCommandList(s)[j].commands = <<cs[k]>> \o r.commands
          /\ ParseCommandList(s)[j].at = r.at
      BY <2>3, <2>4, ReadsMoreCommands
    <2>6. r.commands = Rest(cs, k + 1) /\ r.at = d
      BY <1>10, <2>3, <2>4
    <2> QED
      BY <1>7, <2>1, <2>5, <2>6
  <1>11. ASSUME NEW k \in 1..n, \A j \in 1..n : j > k => j \in S PROVE k \in S
    <2>1. CASE k = n
      <3> HIDE DEF Read
      <3> QED
        BY <1>8, <1>9, <2>1
    <2>2. CASE k # n
      <3>1. k + 1 \in 1..n /\ k + 1 > k
        BY <1>3, <2>2
      <3>2. k + 1 \in S
        BY <1>11, <3>1
      <3> HIDE DEF Read
      <3> QED
        BY <1>10, <3>1, <3>2
    <2> QED
      BY <2>1, <2>2
  <1>12. 1..n \subseteq S
    <2> HIDE DEF S
    <2> QED
      BY <1>3, <1>11, DownInduction
  <1>13. Read(1)
    <2>1. 1 \in 1..n
      BY <1>3
    <2> HIDE DEF Read
    <2> QED
      BY <1>12, <2>1
  <1> QED
    BY <1>5, <1>7, <1>13

\* no space is at a delimiter
LEMMA SkipNone ==
  ASSUME NEW s \in Seq(Pieces), NEW d \in 1..Len(s) + 1, Bounds(s, d)
  PROVE  SkipSpaces(s, d) = d
  <1>1. Len(s) \in Nat /\ d \in d..Len(s) + 1 /\ Spaces(s, d, d)
    BY DEF Spaces
  <1> QED
    BY <1>1, ReadsNoMore

\* From i to d is a path, perhaps without a name.
IsPath(s, i, d, path) ==
  \E a \in i..d : \E e \in a..d :
    /\ Spaces(s, i, a) /\ Wordy(s, a, e) /\ Spaces(s, e, d)
    /\ a = Len(s) + 1 \/ s[a] # Space
    /\ path = Path(SubSeq(s, a, e - 1))

LEMMA ReadsPath ==
  ASSUME NEW s \in Seq(Pieces), NEW i \in 1..Len(s) + 1, NEW d \in i..Len(s) + 1, Bounds(s, d),
         NEW path, IsPath(s, i, d, path)
  PROVE  ParsePath(s, i).path = path /\ SkipSpaces(s, ParsePath(s, i).at) = d
  <1>0. PICK a \in i..d : \E e \in a..d :
          /\ Spaces(s, i, a) /\ Wordy(s, a, e) /\ Spaces(s, e, d)
          /\ a = Len(s) + 1 \/ s[a] # Space
          /\ path = Path(SubSeq(s, a, e - 1))
    BY DEF IsPath
  <1>1. PICK e \in a..d :
          /\ Spaces(s, i, a) /\ Wordy(s, a, e) /\ Spaces(s, e, d)
          /\ a = Len(s) + 1 \/ s[a] # Space
          /\ path = Path(SubSeq(s, a, e - 1))
    BY <1>0
  <1>2. /\ Len(s) \in Nat /\ a \in i..Len(s) + 1 /\ a \in 1..Len(s) + 1 /\ e \in a..Len(s) + 1
        /\ e \in 1..Len(s) + 1 /\ d \in e..Len(s) + 1 /\ e \in Nat /\ d \in Nat
    OBVIOUS
  <1>3. SkipSpaces(s, i) = a
    BY <1>1, <1>2, SkipSpacesTo
  <1>4. e = Len(s) + 1 \/ ~IsWordPiece(s[e])
    <2>1. CASE e = d
      BY <2>1, WordPieceFacts DEF Bounds
    <2>2. CASE e # d
      <3>1. e \in e..d - 1
        BY <1>2, <2>2
      <3> QED
        BY <1>1, <3>1, WordPieceFacts DEF Spaces
    <2> QED
      BY <2>1, <2>2
  <1>5. WordEnd(s, a) = e
    BY <1>1, <1>2, <1>4, WordEndTo
  <1>6. ParsePath(s, i) = [path |-> Path(SubSeq(s, a, e - 1)), at |-> e]
    BY <1>3, <1>5 DEF ParsePath, PathFrom
  <1>7. ParsePath(s, i).path = Path(SubSeq(s, a, e - 1)) /\ ParsePath(s, i).at = e
    BY <1>6
  <1>8. SkipSpaces(s, e) = d
    BY <1>1, <1>2, ReadsNoMore
  <1> QED
    BY <1>1, <1>7, <1>8

EndsPipeline(s, d) == d = Len(s) + 1 \/ s[d] = ";"

Redirected(s, b, d, sign, path) == Is(s, b, sign) /\ b + 1 \in 1..d /\ IsPath(s, b + 1, d, path)

\* From i to d is the pipeline p.
IsPipe(s, i, d, p) ==
  /\ EndsPipeline(s, d) /\ p = Pipeline(p.commands, p.input, p.output)
  /\ \E b \in i..d :
       /\ AreCommands(s, i, b, p.commands)
       /\ \/ b = d /\ p.input = NoPath /\ p.output = NoPath
          \/ Redirected(s, b, d, "<", p.input) /\ p.output = NoPath
          \/ Redirected(s, b, d, ">", p.output) /\ p.input = NoPath

LEMMA SignFacts ==
  /\ "<" # ">" /\ "<" # ";" /\ ">" # ";" /\ "|" # ";" /\ "|" # "<" /\ "|" # ">"
  /\ {"<", ">", "|", ";"} = Delimiters
  BY DEF Delimiters

LEMMA ReadsPipeline ==
  ASSUME NEW s \in Seq(Pieces), NEW i \in 1..Len(s) + 1, NEW d \in i..Len(s) + 1,
         NEW p, IsPipe(s, i, d, p)
  PROVE  FirstPipeline(s, i).pipeline = <<p>> /\ AfterPipeline(s, i) = d
  <1>1. PICK b \in i..d :
          /\ AreCommands(s, i, b, p.commands)
          /\ \/ b = d /\ p.input = NoPath /\ p.output = NoPath
             \/ Redirected(s, b, d, "<", p.input) /\ p.output = NoPath
             \/ Redirected(s, b, d, ">", p.output) /\ p.input = NoPath
    BY DEF IsPipe
  <1>2. /\ Len(s) \in Nat /\ b \in i..Len(s) + 1 /\ b \in 1..Len(s) + 1 /\ d \in 1..Len(s) + 1
        /\ DOMAIN s = 1..Len(s) /\ d \in b..Len(s) + 1
    OBVIOUS
  <1>3. Bounds(s, d) /\ ~Is(s, d, "<") /\ ~Is(s, d, ">")
    <2>1. d = Len(s) + 1 \/ s[d] = ";"
      BY DEF IsPipe, EndsPipeline
    <2>2. CASE d = Len(s) + 1
      <3>1. d \notin DOMAIN s
        BY <1>2, <2>2
      <3> QED
        BY <2>2, <3>1 DEF Bounds, Is
    <2>3. CASE s[d] = ";"
      <3>1. s[d] \in Delimiters /\ s[d] # "<" /\ s[d] # ">"
        BY <2>3, SignFacts
      <3> QED
        BY <3>1 DEF Bounds, Is
    <2> QED
      BY <2>1, <2>2, <2>3
  <1>4. ParseCommandList(s)[i].commands = p.commands /\ ParseCommandList(s)[i].at = b
    BY <1>1, <1>2, ReadsCommands
  <1>5. p.commands # <<>> /\ Bounds(s, b)
    <2>1. PICK from_, bar : CommandsLaid(s, i, b, p.commands, from_, bar)
      BY <1>1 DEF AreCommands
    <2>2. p.commands \in CommandLists /\ p.commands # <<>> /\ bar[Len(p.commands)] = b
          /\ \A k \in 1..Len(p.commands) : Bounds(s, bar[k])
      BY <2>1 DEF CommandsLaid
    <2>3. Len(p.commands) \in 1..Len(p.commands)
      BY <2>2 DEF CommandLists
    <2> QED
      BY <2>2, <2>3
  <1>6. FirstCommands(s, i) = ParseCommandList(s)[i]
    BY SkipTwice DEF FirstCommands
  <1>7. FirstCommands(s, i).commands = p.commands /\ AfterCommands(s, i) = b /\ ~NoCommands(s, i)
    <2>1. SkipSpaces(s, b) = b
      BY <1>2, <1>5, SkipNone
    <2> QED
      BY <1>4, <1>5, <1>6, <2>1 DEF AfterCommands, NoCommands
  <1>8. p = Pipeline(p.commands, p.input, p.output)
    BY DEF IsPipe
  <1>9. CASE b = d /\ p.input = NoPath /\ p.output = NoPath
    <2>1. FirstPipeline(s, i)
            = [pipeline |-> <<Pipeline(p.commands, NoPath, NoPath)>>, at |-> b]
      BY <1>3, <1>7, <1>9, FirstPipelineCases
    <2>2. FirstPipeline(s, i).pipeline = <<Pipeline(p.commands, NoPath, NoPath)>>
          /\ FirstPipeline(s, i).at = b
      BY <2>1
    <2>3. SkipSpaces(s, d) = d
      BY <1>2, <1>3, SkipNone
    <2>4. Pipeline(p.commands, NoPath, NoPath) = p
      BY <1>8, <1>9
    <2> QED
      BY <1>9, <2>2, <2>3, <2>4 DEF AfterPipeline
  <1>10. ASSUME NEW sign, NEW path, Redirected(s, b, d, sign, path)
         PROVE  /\ Is(s, AfterCommands(s, i), sign)
                /\ NextPath(s, i).path = path /\ SkipSpaces(s, NextPath(s, i).at) = d
    <2>1. PICK r : r = b + 1
      OBVIOUS
    <2>2. Is(s, b, sign) /\ r \in 1..d /\ IsPath(s, r, d, path)
      BY <1>10, <2>1 DEF Redirected
    <2>3. r \in 1..Len(s) + 1 /\ d \in r..Len(s) + 1
      BY <1>2, <2>2
    <2>4. ParsePath(s, r).path = path /\ SkipSpaces(s, ParsePath(s, r).at) = d
      BY <1>3, <2>2, <2>3, ReadsPath
    <2> QED
      BY <1>7, <2>1, <2>2, <2>4 DEF NextPath
  <1>11. CASE Redirected(s, b, d, "<", p.input) /\ p.output = NoPath
    <2>1. FirstPipeline(s, i)
            = [pipeline |-> <<Pipeline(p.commands, NextPath(s, i).path, NoPath)>>,
               at |-> NextPath(s, i).at]
      BY <1>7, <1>10, <1>11, FirstPipelineCases
    <2>2. FirstPipeline(s, i).pipeline = <<Pipeline(p.commands, NextPath(s, i).path, NoPath)>>
          /\ FirstPipeline(s, i).at = NextPath(s, i).at
      BY <2>1
    <2>3. NextPath(s, i).path = p.input /\ SkipSpaces(s, NextPath(s, i).at) = d
      BY <1>10, <1>11
    <2>4. Pipeline(p.commands, NextPath(s, i).path, NoPath) = p
      BY <1>8, <1>11, <2>3
    <2> QED
      BY <2>2, <2>3, <2>4 DEF AfterPipeline
  <1>12. CASE Redirected(s, b, d, ">", p.output) /\ p.input = NoPath
    <2>1. FirstPipeline(s, i)
            = [pipeline |-> <<Pipeline(p.commands, NoPath, NextPath(s, i).path)>>,
               at |-> NextPath(s, i).at]
      BY <1>7, <1>10, <1>12, FirstPipelineCases
    <2>2. FirstPipeline(s, i).pipeline = <<Pipeline(p.commands, NoPath, NextPath(s, i).path)>>
          /\ FirstPipeline(s, i).at = NextPath(s, i).at
      BY <2>1
    <2>3. NextPath(s, i).path = p.output /\ SkipSpaces(s, NextPath(s, i).at) = d
      BY <1>10, <1>12
    <2>4. Pipeline(p.commands, NoPath, NextPath(s, i).path) = p
      BY <1>8, <1>12, <2>3
    <2> QED
      BY <2>2, <2>3, <2>4 DEF AfterPipeline
  <1> QED
    BY <1>1, <1>9, <1>11, <1>12

\* The text s is the task t: pipeline k is between start[k] and the semicolon at semi[k].
TaskLaid(s, t, start, semi) ==
  /\ t \in Seq(PipelineSet) /\ t # <<>>
  /\ start \in [1..Len(t) -> 1..Len(s) + 1] /\ semi \in [1..Len(t) -> 1..Len(s) + 1]
  /\ start[1] = 1 /\ semi[Len(t)] = Len(s) + 1
  /\ \A k \in 1..Len(t) :
       /\ start[k] <= semi[k] /\ IsPipe(s, start[k], semi[k], t[k])
       /\ k + 1 \in 1..Len(t) => Is(s, semi[k], ";") /\ start[k + 1] = semi[k] + 1

SpellsTask(s, t) == \E start, semi : TaskLaid(s, t, start, semi)

LEMMA ReadsLastPipeline ==
  ASSUME NEW s \in Seq(Pieces), NEW i \in 1..Len(s) + 1, NEW d \in i..Len(s) + 1,
         NEW p, IsPipe(s, i, d, p), ~Is(s, d, ";")
  PROVE  ParsePipelineList(s)[i].pipelines = <<p>> /\ ParsePipelineList(s)[i].at = d
  <1>1. FirstPipeline(s, i).pipeline = <<p>> /\ AfterPipeline(s, i) = d
    BY ReadsPipeline
  <1>2. <<p>> # <<>>
    OBVIOUS
  <1>3. ~NoPipeline(s, i) /\ LastPipeline(s, i)
    BY <1>1, <1>2 DEF NoPipeline, LastPipeline
  <1>4. ParsePipelineList(s)[i] = PipelinesFrom(s, ParsePipelineList(s), FirstPipeline(s, i))
    BY ParsePipelineListIs
  <1>5. ParsePipelineList(s)[i] = [pipelines |-> <<p>>, at |-> d]
    BY <1>1, <1>3, <1>4, PipelinesFromCases
  <1>6. PICK q : q = <<p>>
    OBVIOUS
  <1>7. PICK r : r = ParsePipelineList(s)[i]
    OBVIOUS
  <1>8. r = [pipelines |-> q, at |-> d]
    BY <1>5, <1>6, <1>7
  <1>9. r.pipelines = q /\ r.at = d
    BY <1>8
  <1> QED
    BY <1>6, <1>7, <1>9

LEMMA ReadsMorePipelines ==
  ASSUME NEW s \in Seq(Pieces), NEW i \in 1..Len(s) + 1, NEW d \in i..Len(s) + 1,
         NEW p, IsPipe(s, i, d, p), Is(s, d, ";")
  PROVE  /\ ParsePipelineList(s)[i].pipelines = <<p>> \o ParsePipelineList(s)[d + 1].pipelines
         /\ ParsePipelineList(s)[i].at = ParsePipelineList(s)[d + 1].at
  <1>1. FirstPipeline(s, i).pipeline = <<p>> /\ AfterPipeline(s, i) = d
    BY ReadsPipeline
  <1>2. <<p>> # <<>>
    OBVIOUS
  <1>3. ~NoPipeline(s, i) /\ ~LastPipeline(s, i)
    BY <1>1, <1>2 DEF NoPipeline, LastPipeline
  <1>4. ParsePipelineList(s)[i] = PipelinesFrom(s, ParsePipelineList(s), FirstPipeline(s, i))
    BY ParsePipelineListIs
  <1>5. PICK r : r = ParsePipelineList(s)[d + 1]
    OBVIOUS
  <1>6. ParsePipelineList(s)[i] = [pipelines |-> <<p>> \o r.pipelines, at |-> r.at]
    BY <1>1, <1>3, <1>4, <1>5, PipelinesFromCases
  <1>7. PICK q : q = <<p>> \o r.pipelines
    OBVIOUS
  <1>8. PICK v : v = ParsePipelineList(s)[i]
    OBVIOUS
  <1>9. v = [pipelines |-> q, at |-> r.at]
    BY <1>6, <1>7, <1>8
  <1>10. v.pipelines = q /\ v.at = r.at
    BY <1>9
  <1> QED
    BY <1>5, <1>7, <1>8, <1>10

\* The task that is laid out is parsed.
LEMMA ReadsTask ==
  ASSUME NEW s \in Seq(Pieces), NEW t, SpellsTask(s, t)
  PROVE  ParseTask(s) = t
  <1>1. PICK start, semi : TaskLaid(s, t, start, semi)
    BY DEF SpellsTask
  <1>2. PICK n : n = Len(t)
    OBVIOUS
  <1>3. n \in Nat /\ n >= 1 /\ t \in Seq(PipelineSet) /\ Len(s) \in Nat
        /\ \A k \in 1..n : t[k] \in PipelineSet
    <2>1. t \in Seq(PipelineSet) /\ t # <<>>
      BY <1>1 DEF TaskLaid
    <2> QED
      BY <1>2, <2>1
  <1>5. /\ start \in [1..n -> 1..Len(s) + 1] /\ semi \in [1..n -> 1..Len(s) + 1]
        /\ start[1] = 1 /\ semi[n] = Len(s) + 1
        /\ \A k \in 1..n : /\ start[k] <= semi[k] /\ IsPipe(s, start[k], semi[k], t[k])
                           /\ k + 1 \in 1..n => Is(s, semi[k], ";") /\ start[k + 1] = semi[k] + 1
    BY <1>1, <1>2 DEF TaskLaid
  <1>6. \A k \in 1..n : start[k] \in 1..Len(s) + 1 /\ semi[k] \in start[k]..Len(s) + 1
    <2> TAKE k \in 1..n
    <2>1. start[k] \in 1..Len(s) + 1 /\ semi[k] \in 1..Len(s) + 1
      BY <1>5
    <2>2. start[k] <= semi[k]
      BY <1>5
    <2> QED
      BY <1>3, <2>1, <2>2
  <1>7. /\ Rest(t, 1) = t /\ Rest(t, n + 1) = <<>>
        /\ \A k \in 1..n : Rest(t, k) = <<t[k]>> \o Rest(t, k + 1)
    <2>1. PICK V : V = PipelineSet
      OBVIOUS
    <2>2. t \in Seq(V)
      BY <1>3, <2>1
    <2> QED
      BY <1>2, <2>2, RestFacts, SMTT(30)
  <1> DEFINE Read(k) == ParsePipelineList(s)[start[k]].pipelines = Rest(t, k)
                        /\ ParsePipelineList(s)[start[k]].at = Len(s) + 1
             S == {k \in 1..n : Read(k)}
  <1>8. n \in 1..n
    BY <1>3
  <1>9. Read(n)
    <2>1. Rest(t, n) = <<t[n]>>
      <3>1. Rest(t, n) = <<t[n]>> \o <<>>
        BY <1>7, <1>8
      <3>2. <<t[n]>> \in Seq(PipelineSet)
        BY <1>3, <1>8
      <3> QED
        BY <3>1, <3>2, ConcatEmptySeq
    <2>2. PICK j \in 1..Len(s) + 1 : j = start[n]
      BY <1>6, <1>8
    <2>3. PICK d \in j..Len(s) + 1 : d = Len(s) + 1
      BY <1>3
    <2>4. IsPipe(s, j, d, t[n])
      BY <1>5, <1>8, <2>2, <2>3
    <2>5. ~Is(s, d, ";")
      <3>1. d \notin DOMAIN s
        BY <1>3, <2>3
      <3> QED
        BY <3>1 DEF Is
    <2>6. ParsePipelineList(s)[j].pipelines = <<t[n]>> /\ ParsePipelineList(s)[j].at = d
      BY <2>4, <2>5, ReadsLastPipeline
    <2> QED
      BY <2>1, <2>2, <2>3, <2>6
  <1>10. ASSUME NEW k \in 1..n, k + 1 \in 1..n, Read(k + 1) PROVE Read(k)
    <2>1. PICK j \in 1..Len(s) + 1 : j = start[k]
      BY <1>6
    <2>2. PICK b \in j..Len(s) + 1 : b = semi[k]
      BY <1>6, <2>1
    <2>3. IsPipe(s, j, b, t[k]) /\ Is(s, b, ";") /\ start[k + 1] = b + 1
      BY <1>5, <1>10, <2>1, <2>2
    <2>4. PICK r : r = ParsePipelineList(s)[b + 1]
      OBVIOUS
    <2>5. ParsePipelineList(s)[j].pipelines = <<t[k]>> \o r.pipelines
          /\ ParsePipelineList(s)[j].at = r.at
      BY <2>3, <2>4, ReadsMorePipelines
    <2>6. r.pipelines = Rest(t, k + 1) /\ r.at = Len(s) + 1
      BY <1>10, <2>3, <2>4
    <2> QED
      BY <1>7, <2>1, <2>5, <2>6
  <1>11. ASSUME NEW k \in 1..n, \A j \in 1..n : j > k => j \in S PROVE k \in S
    <2>1. CASE k = n
      <3> HIDE DEF Read
      <3> QED
        BY <1>8, <1>9, <2>1
    <2>2. CASE k # n
      <3>1. k + 1 \in 1..n /\ k + 1 > k
        BY <1>3, <2>2
      <3>2. k + 1 \in S
        BY <1>11, <3>1
      <3> HIDE DEF Read
      <3> QED
        BY <1>10, <3>1, <3>2
    <2> QED
      BY <2>1, <2>2
  <1>12. 1..n \subseteq S
    <2> HIDE DEF S
    <2> QED
      BY <1>3, <1>11, DownInduction
  <1>13. Read(1)
    <2>1. 1 \in 1..n
      BY <1>3
    <2> HIDE DEF Read
    <2> QED
      BY <1>12, <2>1
  <1>14. ParsePipelineList(s)[1].pipelines = t /\ ParsePipelineList(s)[1].at = Len(s) + 1
    BY <1>5, <1>7, <1>13
  <1>15. SkipSpaces(s, Len(s) + 1) = Len(s) + 1
    <2>1. PICK d : d = Len(s) + 1
      OBVIOUS
    <2>2. d \in 1..Len(s) + 1 /\ Bounds(s, d)
      BY <1>3, <2>1 DEF Bounds
    <2>3. SkipSpaces(s, d) = d
      BY <2>2, SkipNone
    <2> QED
      BY <2>1, <2>3
  <1>16. Len(s) + 1 \notin DOMAIN s
    BY <1>3
  <1> QED
    BY <1>14, <1>15, <1>16 DEF ParseTask, Wholly

-----------------------------------------------------------------------------
(* What is printed.                                                        *)

Texts == Seq(Pieces)

\* what is written when the first n texts are
JoinsUpTo(texts, between, f) ==
  /\ f \in [0..Len(texts) -> Texts] /\ f[0] = <<>>
  /\ \A n \in 1..Len(texts) :
       /\ n = 1 => f[n] = texts[1]
       /\ n # 1 => f[n] = (f[n - 1] \o between) \o texts[n]
  /\ Joined(texts, between) = f[Len(texts)]

LEMMA JoinedIs ==
  ASSUME NEW texts \in Seq(Texts), NEW between \in Texts
  PROVE  \E f : JoinsUpTo(texts, between, f)
  <1> DEFINE N == Len(texts)
             V == Texts
             g == [p \in (1..N) \X V |->
                     IF p[1] = 1 THEN texts[1] ELSE (p[2] \o between) \o texts[p[1]]]
             Body(h) == [n \in 0..N |-> IF n = 0 THEN <<>> ELSE IF n = 1 THEN texts[1]
                                        ELSE h[n - 1] \o between \o texts[n]]
  <1>1. N \in Nat /\ <<>> \in V /\ \A n \in 1..N : texts[n] \in V
    BY DEF Texts
  <1>2. g \in Steps(N, V)
    <2> SUFFICES ASSUME NEW p \in (1..N) \X V
                 PROVE  (IF p[1] = 1 THEN texts[1] ELSE (p[2] \o between) \o texts[p[1]]) \in V
      BY DEF Steps
    <2>1. p[1] \in 1..N /\ p[2] \in V /\ texts[p[1]] \in V
      BY <1>1
    <2>2. (p[2] \o between) \o texts[p[1]] \in V
      BY <2>1 DEF Texts
    <2>3. p[1] = 1 => texts[1] \in V
      BY <2>1
    <2> QED
      BY <2>2, <2>3
  <1>3. \E h \in [0..N -> V] : h[0] = <<>> /\ \A n \in 1..N : h[n] = g[<<n, h[n - 1]>>]
    <2> HIDE DEF g, V, N
    <2> QED
      BY <1>1, <1>2, Iteration, SMTT(30)
  <1>4. PICK h \in [0..N -> V] : h[0] = <<>> /\ \A n \in 1..N : h[n] = g[<<n, h[n - 1]>>]
    BY <1>3
  <1>5. \A n \in 1..N : h[n] = IF n = 1 THEN texts[1] ELSE (h[n - 1] \o between) \o texts[n]
    <2> TAKE n \in 1..N
    <2>1. n - 1 \in 0..N
      BY <1>1
    <2>2. h[n - 1] \in V /\ <<n, h[n - 1]>> \in (1..N) \X V
      <3> HIDE DEF V
      <3> QED
        BY <1>4, <2>1
    <2>3. h[n] = g[<<n, h[n - 1]>>]
      BY <1>4
    <2> HIDE DEF V, N
    <2>4. PICK q : q = h[n - 1]
      OBVIOUS
    <2>5. g[<<n, q>>] = IF n = 1 THEN texts[1] ELSE (q \o between) \o texts[n]
      BY <2>2, <2>4
    <2> QED
      BY <2>3, <2>4, <2>5
  <1>6. h = Body(h)
    <2> HIDE DEF V, g
    <2>1. \A n \in 0..N : h[n] = Body(h)[n]
      <3> TAKE n \in 0..N
      <3>1. Body(h)[n] = IF n = 0 THEN <<>> ELSE IF n = 1 THEN texts[1]
                         ELSE h[n - 1] \o between \o texts[n]
        OBVIOUS
      <3>2. n = 0 \/ n \in 1..N
        BY <1>1
      <3> HIDE DEF N, Body
      <3> QED
        BY <1>4, <1>5, <3>1, <3>2
    <2> QED
      BY <1>4, <2>1
  <1>7. \A f1, f2 : f1 = Body(f1) /\ f2 = Body(f2) => f1 = f2
    <2> SUFFICES ASSUME NEW f1, NEW f2, f1 = Body(f1), f2 = Body(f2) PROVE f1 = f2
      OBVIOUS
    <2> DEFINE T == {n \in 0..N : f1[n] = f2[n]}
    <2>1. 0 \in T
      BY <1>1
    <2>2. ASSUME NEW n \in 0..N - 1, n \in T PROVE n + 1 \in T
      <3>1. n + 1 \in 0..N /\ n + 1 # 0 /\ n + 1 - 1 = n /\ f1[n] = f2[n]
        BY <1>1, <2>2
      <3>2. PICK m \in 0..N : m = n + 1
        BY <3>1
      <3>3. f1[m] = Body(f1)[m] /\ f2[m] = Body(f2)[m]
        BY <2>1
      <3>4. f1[m] = (IF m = 1 THEN texts[1] ELSE f1[m - 1] \o between \o texts[m])
            /\ f2[m] = (IF m = 1 THEN texts[1] ELSE f2[m - 1] \o between \o texts[m])
        BY <3>1, <3>2, <3>3
      <3>5. m - 1 = n
        BY <3>1, <3>2
      <3>6. f1[m] = f2[m]
        BY <3>1, <3>4, <3>5
      <3> QED
        BY <3>2, <3>6
    <2>3. 0..N \subseteq T
      <3> HIDE DEF T, N
      <3> QED
        BY <1>1, <2>1, <2>2, BoundedInduction
    <2> QED
      BY <2>3
  <1>8. Joined(texts, between) = h[N]
    <2>1. h = CHOOSE f : f = Body(f)
      <3> HIDE DEF Body
      <3> QED
        BY <1>6, <1>7
    <2> QED
      BY <2>1 DEF Joined
  <1>9. JoinsUpTo(texts, between, h)
    BY <1>1, <1>4, <1>5, <1>8 DEF JoinsUpTo
  <1> QED
    BY <1>9

LEMMA SpelledParts ==
  ASSUME NEW s \in Texts, NEW b \in 1..Len(s) + 1, NEW u \in Texts, NEW w \in Texts,
         Spelled(s, b, u \o w)
  PROVE  /\ Spelled(s, b, u) /\ Spelled(s, b + Len(u), w)
         /\ b + Len(u) \in 1..Len(s) + 1 /\ Len(u \o w) = Len(u) + Len(w)
         /\ b + Len(u) + Len(w) <= Len(s) + 1
  <1>1. /\ Len(s) \in Nat /\ Len(u) \in Nat /\ Len(w) \in Nat /\ b \in Nat
        /\ Len(u \o w) = Len(u) + Len(w)
        /\ \A k \in 1..Len(u) : (u \o w)[k] = u[k]
        /\ \A k \in 1..Len(w) : (u \o w)[Len(u) + k] = w[k]
    BY DEF Texts
  <1>2. PICK v : v = u \o w
    OBVIOUS
  <1>3. b + Len(v) <= Len(s) + 1 /\ \A k \in 1..Len(v) : s[b + k - 1] = v[k]
    BY <1>2 DEF Spelled
  <1>4. PICK m \in Nat : m = Len(u)
    BY <1>1
  <1>5. PICK l \in Nat : l = Len(w)
    BY <1>1
  <1>6. /\ Len(v) = m + l /\ b + (m + l) <= Len(s) + 1 /\ b + m \in 1..Len(s) + 1
        /\ b + m + l <= Len(s) + 1
    BY <1>1, <1>2, <1>3, <1>4, <1>5
  <1>7. ASSUME NEW k \in 1..m PROVE s[b + k - 1] = u[k]
    <2>1. k \in 1..Len(v)
      BY <1>6
    <2> QED
      BY <1>1, <1>2, <1>3, <1>4, <2>1
  <1>8. ASSUME NEW k \in 1..l PROVE s[b + m + k - 1] = w[k]
    <2>1. m + k \in 1..Len(v) /\ b + (m + k) - 1 = b + m + k - 1
      BY <1>1, <1>6
    <2>2. s[b + (m + k) - 1] = v[m + k]
      BY <1>3, <2>1
    <2>3. v[m + k] = w[k]
      BY <1>1, <1>2, <1>4, <1>5
    <2> QED
      BY <2>1, <2>2, <2>3
  <1>9. Spelled(s, b, u) /\ Spelled(s, b + Len(u), w)
    <2>1. b + m <= Len(s) + 1
      BY <1>6
    <2>2. Spelled(s, b, u)
      BY <1>4, <1>7, <2>1 DEF Spelled
    <2>3. Spelled(s, b + m, w)
      BY <1>5, <1>6, <1>8 DEF Spelled
    <2> QED
      BY <1>4, <2>2, <2>3
  <1> QED
    BY <1>2, <1>4, <1>5, <1>6, <1>9

\* Text k is in s at at[k] to to[k], and between is between them.
JoinLaid(s, b, texts, between, at, to) ==
  /\ at \in [1..Len(texts) -> 1..Len(s) + 1] /\ to \in [1..Len(texts) -> 1..Len(s) + 1]
  /\ at[1] = b /\ to[Len(texts)] = b + Len(Joined(texts, between))
  /\ \A k \in 1..Len(texts) :
       /\ to[k] = at[k] + Len(texts[k]) /\ Spelled(s, at[k], texts[k])
       /\ k + 1 \in 1..Len(texts) =>
            at[k + 1] = to[k] + Len(between) /\ Spelled(s, to[k], between)

\* Each text is found in what is joined of them.
LEMMA JoinedSpells ==
  ASSUME NEW s \in Texts, NEW b \in 1..Len(s) + 1, NEW texts \in Seq(Texts), texts # <<>>,
         NEW between \in Texts, Spelled(s, b, Joined(texts, between))
  PROVE  \E at, to : JoinLaid(s, b, texts, between, at, to)
  <1>1. PICK f : JoinsUpTo(texts, between, f)
    BY JoinedIs
  <1>2. PICK n : n = Len(texts)
    OBVIOUS
  <1>3. /\ n \in Nat /\ n >= 1 /\ Len(s) \in Nat /\ Len(between) \in Nat
        /\ \A k \in 1..n : texts[k] \in Texts
    BY <1>2 DEF Texts
  <1>4. \A k \in 1..n : Len(texts[k]) \in Nat
    BY <1>3 DEF Texts
  <1>5. /\ f \in [0..n -> Texts] /\ f[0] = <<>> /\ Joined(texts, between) = f[n]
        /\ \A k \in 1..n : /\ k = 1 => f[k] = texts[1]
                           /\ k # 1 => f[k] = (f[k - 1] \o between) \o texts[k]
    BY <1>1, <1>2 DEF JoinsUpTo
  <1>6. \A k \in 0..n : f[k] \in Texts
    BY <1>5
  <1>7. \A k \in 0..n : Len(f[k]) \in Nat
    BY <1>6 DEF Texts
  <1> DEFINE Found(k) ==
               /\ Spelled(s, b, f[k])
               /\ b + Len(f[k]) \in 1..Len(s) + 1
  <1>8. ASSUME NEW k \in 1..n, k # 1, Found(k)
        PROVE  /\ Found(k - 1)
               /\ Spelled(s, b + Len(f[k - 1]), between)
               /\ Spelled(s, b + Len(f[k - 1]) + Len(between), texts[k])
               /\ b + Len(f[k - 1]) + Len(between) \in 1..Len(s) + 1
               /\ b + Len(f[k]) = b + Len(f[k - 1]) + Len(between) + Len(texts[k])
    <2>1. k - 1 \in 0..n
      BY <1>3
    <2>2. PICK u \in Texts : u = f[k - 1]
      BY <1>6, <2>1
    <2>3. PICK w \in Texts : w = texts[k]
      BY <1>3
    <2>4. f[k] = (u \o between) \o w
      BY <1>5, <1>8, <2>2, <2>3
    <2>5. Len(u) \in Nat /\ Len(w) \in Nat /\ b \in Nat
      <3>1. \A x \in Texts : Len(x) \in Nat
        BY DEF Texts
      <3>2. b \in Nat
        BY <1>3
      <3> QED
        BY <3>1, <3>2
    <2>6. PICK v \in Texts : v = u \o between
      <3>1. u \o between \in Texts
        BY DEF Texts
      <3> QED
        BY <3>1
    <2>7. Spelled(s, b, v \o w)
      BY <1>8, <2>4, <2>6
    <2>8. /\ Spelled(s, b, v) /\ Spelled(s, b + Len(v), w)
          /\ b + Len(v) \in 1..Len(s) + 1 /\ Len(v \o w) = Len(v) + Len(w)
      BY <2>7, SpelledParts
    <2>9. /\ Spelled(s, b, u) /\ Spelled(s, b + Len(u), between)
          /\ b + Len(u) \in 1..Len(s) + 1 /\ Len(v) = Len(u) + Len(between)
      BY <2>6, <2>8, SpelledParts
    <2>10. b + Len(v) = b + Len(u) + Len(between)
      BY <1>3, <2>5, <2>9
    <2>11. Len(f[k]) = Len(u) + Len(between) + Len(w)
      BY <2>4, <2>6, <2>8, <2>9
    <2>12. b + Len(f[k]) = b + Len(u) + Len(between) + Len(w)
      BY <1>3, <2>5, <2>11
    <2>13. Spelled(s, b + Len(u) + Len(between), w) /\ b + Len(u) + Len(between) \in 1..Len(s) + 1
      BY <2>8, <2>10
    <2> QED
      BY <2>2, <2>3, <2>9, <2>12, <2>13
  <1>9. \A k \in 1..n : Found(k)
    <2> DEFINE S == {k \in 1..n : Found(k)}
    <2>1. Found(n)
      <3>1. Spelled(s, b, f[n])
        BY <1>5
      <3>2. b + Len(f[n]) <= Len(s) + 1
        BY <3>1 DEF Spelled
      <3>3. Len(f[n]) \in Nat
        BY <1>3, <1>7
      <3> QED
        BY <1>3, <3>1, <3>2, <3>3
    <2>2. ASSUME NEW k \in 1..n, \A j \in 1..n : j > k => j \in S PROVE k \in S
      <3>1. CASE k = n
        <4> HIDE DEF Found
        <4> QED
          BY <2>1, <3>1
      <3>2. CASE k # n
        <4>1. PICK m : m = k + 1
          OBVIOUS
        <4>2. m \in 1..n /\ m > k /\ m # 1 /\ m - 1 = k
          BY <1>3, <3>2, <4>1
        <4>3. m \in S
          BY <2>2, <4>2
        <4> HIDE DEF Found
        <4>4. Found(m)
          BY <4>3
        <4>5. Found(m - 1)
          BY <1>8, <4>2, <4>4
        <4> QED
          BY <4>2, <4>5
      <3> QED
        BY <3>1, <3>2
    <2>3. 1..n \subseteq S
      <3> HIDE DEF S
      <3> QED
        BY <1>3, <2>2, DownInduction
    <2> HIDE DEF Found
    <2> QED
      BY <2>3
  <1> DEFINE at == [k \in 1..n |-> IF k = 1 THEN b ELSE b + Len(f[k - 1]) + Len(between)]
             to == [k \in 1..n |-> b + Len(f[k])]
  <1>10. ASSUME NEW k \in 1..n
         PROVE  /\ at[k] \in 1..Len(s) + 1 /\ to[k] \in 1..Len(s) + 1
                /\ to[k] = at[k] + Len(texts[k]) /\ Spelled(s, at[k], texts[k])
    <2>1. Found(k)
      <3> HIDE DEF Found
      <3> QED
        BY <1>9
    <2>2. CASE k = 1
      <3>1. f[k] = texts[k] /\ at[k] = b /\ to[k] = b + Len(f[k])
        BY <1>5, <2>2
      <3> HIDE DEF at, to
      <3> QED
        BY <2>1, <3>1
    <2>3. CASE k # 1
      <3>1. at[k] = b + Len(f[k - 1]) + Len(between) /\ to[k] = b + Len(f[k])
        BY <2>3
      <3>2. /\ Spelled(s, b + Len(f[k - 1]) + Len(between), texts[k])
            /\ b + Len(f[k - 1]) + Len(between) \in 1..Len(s) + 1
            /\ b + Len(f[k]) = b + Len(f[k - 1]) + Len(between) + Len(texts[k])
        BY <1>8, <2>1, <2>3
      <3> HIDE DEF at, to
      <3> QED
        BY <2>1, <3>1, <3>2
    <2> QED
      BY <2>2, <2>3
  <1>11. ASSUME NEW k \in 1..n, k + 1 \in 1..n
         PROVE  at[k + 1] = to[k] + Len(between) /\ Spelled(s, to[k], between)
    <2>1. PICK m : m = k + 1
      OBVIOUS
    <2>2. m \in 1..n /\ m # 1 /\ m - 1 = k
      BY <1>3, <1>11, <2>1
    <2>3. Found(m)
      <3> HIDE DEF Found
      <3> QED
        BY <1>9, <2>2
    <2>4. Spelled(s, b + Len(f[m - 1]), between)
      BY <1>8, <2>2, <2>3
    <2>5. at[m] = b + Len(f[m - 1]) + Len(between) /\ to[k] = b + Len(f[k])
      BY <2>2
    <2> HIDE DEF at, to
    <2> QED
      BY <2>1, <2>2, <2>4, <2>5
  <1>12. at[1] = b /\ to[n] = b + Len(Joined(texts, between))
    BY <1>3, <1>5
  <1>13. at \in [1..n -> 1..Len(s) + 1] /\ to \in [1..n -> 1..Len(s) + 1]
    <2>1. at = [k \in 1..n |-> at[k]] /\ to = [k \in 1..n |-> to[k]]
      OBVIOUS
    <2> HIDE DEF at, to
    <2> QED
      BY <1>10, <2>1
  <1>14. JoinLaid(s, b, texts, between, at, to)
    <2> HIDE DEF at, to
    <2> QED
      BY <1>2, <1>10, <1>11, <1>12, <1>13 DEF JoinLaid
  <1> QED
    BY <1>14

LEMMA OneSpace ==
  ASSUME NEW s, NEW a \in Nat, Spelled(s, a, <<Space>>)
  PROVE  Spaces(s, a, a + 1) /\ Len(<<Space>>) = 1 /\ Spaces(s, a, a)
  <1>1. Len(<<Space>>) = 1 /\ <<Space>>[1] = Space
    OBVIOUS
  <1>2. s[a + 1 - 1] = Space /\ a + 1 - 1 = a
    BY <1>1 DEF Spelled
  <1> QED
    BY <1>1, <1>2 DEF Spaces

\* The words of a command are found where it is printed.
LEMMA PrintedWords ==
  ASSUME NEW s \in Texts, NEW i \in 1..Len(s) + 1, NEW b \in i..Len(s) + 1,
         NEW ws \in Seq(Words), ws # <<>>, NEW d \in i..Len(s) + 1,
         Spaces(s, i, b), Spelled(s, b, UnparseCommand(ws)),
         b + Len(UnparseCommand(ws)) <= d, Spaces(s, b + Len(UnparseCommand(ws)), d)
  PROVE  AreWords(s, i, d, ws)
  <1>1. PICK n : n = Len(ws)
    OBVIOUS
  <1>2. /\ n \in Nat /\ n >= 1 /\ ws \in Seq(Texts) /\ <<Space>> \in Texts /\ b \in 1..Len(s) + 1
        /\ Len(s) \in Nat /\ i \in Nat /\ b \in Nat
    <2>1. Len(s) \in Nat
      BY DEF Texts
    <2>2. ws \in Seq(Texts)
      BY DEF Texts, Words
    <2>3. <<Space>> \in Texts
      <3>1. Space \in Pieces
        BY DEF Pieces
      <3> QED
        BY <3>1 DEF Texts
    <2> QED
      BY <1>1, <2>1, <2>2, <2>3
  <1>3. Spelled(s, b, Joined(ws, <<Space>>))
    BY DEF UnparseCommand
  <1>4. PICK between \in Texts : between = <<Space>>
    BY <1>2
  <1>5. \E at, to : JoinLaid(s, b, ws, between, at, to)
    BY <1>2, <1>3, <1>4, JoinedSpells
  <1>6. PICK at, to : JoinLaid(s, b, ws, between, at, to)
    BY <1>5
  <1>7. /\ at \in [1..n -> 1..Len(s) + 1] /\ to \in [1..n -> 1..Len(s) + 1]
        /\ at[1] = b /\ to[n] = b + Len(UnparseCommand(ws))
        /\ \A k \in 1..n : /\ to[k] = at[k] + Len(ws[k]) /\ Spelled(s, at[k], ws[k])
                           /\ k + 1 \in 1..n => /\ at[k + 1] = to[k] + Len(between)
                                                /\ Spelled(s, to[k], between)
    BY <1>1, <1>4, <1>6 DEF JoinLaid, UnparseCommand
  <1>8. \A k \in 1..n : at[k] \in 1..Len(s) + 1 /\ to[k] \in 1..Len(s) + 1
    BY <1>7
  <1>9. \A k \in 1..n : Len(ws[k]) \in Nat
    BY <1>1, <1>2 DEF Texts
  <1> DEFINE behind == [k \in 0..n |-> IF k = 0 THEN i ELSE to[k]]
  <1>10. behind[0] = i /\ (\A k \in 1..n : behind[k] = to[k]) /\ behind \in [0..n -> 1..Len(s) + 1]
    <2>1. \A k \in 0..n : k = 0 \/ k \in 1..n
      BY <1>2
    <2> QED
      BY <1>2, <1>8, <2>1
  <1> HIDE DEF behind
  <1>11. ASSUME NEW k \in 1..n
         PROVE  /\ behind[k - 1] <= at[k] /\ Spaces(s, behind[k - 1], at[k])
                /\ k > 1 => behind[k - 1] < at[k]
    <2>1. CASE k = 1
      <3>1. k - 1 = 0 /\ at[k] = b
        BY <1>7, <2>1
      <3> QED
        BY <1>2, <1>10, <2>1, <3>1
    <2>2. CASE k # 1
      <3>1. PICK m : m = k - 1
        OBVIOUS
      <3>2. m \in 1..n /\ m + 1 \in 1..n /\ m + 1 = k
        BY <1>2, <2>2, <3>1
      <3>3. at[k] = to[m] + Len(between) /\ Spelled(s, to[m], <<Space>>)
        BY <1>4, <1>7, <3>2
      <3>4. to[m] \in Nat /\ behind[m] = to[m]
        BY <1>8, <1>10, <3>2
      <3>5. Len(between) = 1
        BY <1>4
      <3>6. Spaces(s, to[m], to[m] + 1)
        BY <3>3, <3>4, OneSpace
      <3>7. behind[m] < at[k] /\ Spaces(s, behind[m], at[k])
        BY <3>3, <3>4, <3>5, <3>6
      <3>8. behind[m] <= at[k]
        BY <3>3, <3>4, <3>5
      <3> QED
        BY <3>1, <3>7, <3>8
    <2> QED
      BY <2>1, <2>2
  <1>12. n \in 1..n /\ n \in 0..n
    BY <1>2
  <1>13. behind[n] = b + Len(UnparseCommand(ws)) /\ behind[n] <= d /\ Spaces(s, behind[n], d)
    BY <1>7, <1>10, <1>12
  <1>14. WordsLaid(s, i, d, ws, at, behind)
    <2>1. \A k \in 1..n : behind[k] = at[k] + Len(ws[k]) /\ Spelled(s, at[k], ws[k])
      BY <1>7, <1>10
    <2> QED
      BY <1>1, <1>7, <1>10, <1>11, <1>13, <2>1 DEF WordsLaid
  <1> QED
    BY <1>14 DEF AreWords

LEMMA JoinedType ==
  ASSUME NEW texts \in Seq(Texts), NEW between \in Texts
  PROVE  Joined(texts, between) \in Texts
  <1>1. PICK f : JoinsUpTo(texts, between, f)
    BY JoinedIs
  <1>2. Len(texts) \in 0..Len(texts)
    OBVIOUS
  <1> QED
    BY <1>1, <1>2 DEF JoinsUpTo

LEMMA Separator ==
  ASSUME NEW x \in Delimiters
  PROVE  /\ <<Space, x, Space>> \in Texts /\ Len(<<Space, x, Space>>) = 3
         /\ \A s, a : a \in Nat /\ Spelled(s, a, <<Space, x, Space>>) =>
              /\ a + 3 <= Len(s) + 1 /\ s[a + 1] = x
              /\ Spaces(s, a, a + 1) /\ Spaces(s, a + 2, a + 3)
  <1>1. PICK q : q = <<Space, x, Space>>
    OBVIOUS
  <1>2. Len(q) = 3 /\ q[1] = Space /\ q[2] = x /\ q[3] = Space
    BY <1>1
  <1>3. Space \in Pieces /\ x \in Pieces
    BY DEF Pieces
  <1>4. q \in Texts
    BY <1>1, <1>3 DEF Texts
  <1>5. ASSUME NEW s, NEW a \in Nat, Spelled(s, a, q)
        PROVE  /\ a + 3 <= Len(s) + 1 /\ s[a + 1] = x
               /\ Spaces(s, a, a + 1) /\ Spaces(s, a + 2, a + 3)
    <2>1. a + 3 <= Len(s) + 1 /\ \A k \in 1..3 : s[a + k - 1] = q[k]
      BY <1>2, <1>5 DEF Spelled
    <2>2. s[a + 1 - 1] = Space /\ s[a + 2 - 1] = x /\ s[a + 3 - 1] = Space
      BY <1>2, <2>1
    <2>3. a + 1 - 1 = a /\ a + 2 - 1 = a + 1 /\ a + 3 - 1 = a + 2
      OBVIOUS
    <2>4. s[a] = Space /\ s[a + 1] = x /\ s[a + 2] = Space
      BY <2>2, <2>3
    <2> QED
      BY <2>1, <2>4 DEF Spaces
  <1> QED
    BY <1>1, <1>2, <1>4, <1>5

\* Text k is between from[k] and the x at bar[k], with spaces about it.
PartsLaid(s, i, d, x, texts, from_, bar) ==
  /\ from_ \in [1..Len(texts) -> 1..Len(s) + 1] /\ bar \in [1..Len(texts) -> 1..Len(s) + 1]
  /\ from_[1] = i /\ bar[Len(texts)] = d
  /\ \A k \in 1..Len(texts) :
       /\ \E a \in from_[k]..Len(s) + 1 :
            /\ Spaces(s, from_[k], a) /\ Spelled(s, a, texts[k])
            /\ a + Len(texts[k]) <= bar[k] /\ Spaces(s, a + Len(texts[k]), bar[k])
       /\ from_[k] <= bar[k]
       /\ k + 1 \in 1..Len(texts) => Is(s, bar[k], x) /\ from_[k + 1] = bar[k] + 1

LEMMA PartsSpelled ==
  ASSUME NEW s \in Texts, NEW i \in 1..Len(s) + 1, NEW b \in i..Len(s) + 1,
         NEW texts \in Seq(Texts), texts # <<>>, NEW d \in i..Len(s) + 1, NEW x \in Delimiters,
         Spaces(s, i, b), Spelled(s, b, Joined(texts, <<Space, x, Space>>)),
         b + Len(Joined(texts, <<Space, x, Space>>)) <= d,
         Spaces(s, b + Len(Joined(texts, <<Space, x, Space>>)), d)
  PROVE  \E from_, bar : PartsLaid(s, i, d, x, texts, from_, bar)
  <1>1. PICK n : n = Len(texts)
    OBVIOUS
  <1>2. PICK between \in Texts : between = <<Space, x, Space>>
    BY Separator
  <1>3. n \in Nat /\ n >= 1 /\ Len(s) \in Nat /\ i \in Nat /\ b \in 1..Len(s) + 1 /\ d \in Nat
        /\ DOMAIN s = 1..Len(s)
    <2>1. Len(s) \in Nat /\ DOMAIN s = 1..Len(s)
      BY DEF Texts
    <2> QED
      BY <1>1, <2>1
  <1>4. \A k \in 1..n : Len(texts[k]) \in Nat
    BY <1>1 DEF Texts
  <1>5. \E at, to : JoinLaid(s, b, texts, between, at, to)
    BY <1>2, <1>3, JoinedSpells
  <1>6. PICK at, to : JoinLaid(s, b, texts, between, at, to)
    BY <1>5
  <1>7. /\ at \in [1..n -> 1..Len(s) + 1] /\ to \in [1..n -> 1..Len(s) + 1]
        /\ at[1] = b /\ to[n] = b + Len(Joined(texts, between))
        /\ \A k \in 1..n : /\ to[k] = at[k] + Len(texts[k]) /\ Spelled(s, at[k], texts[k])
                           /\ k + 1 \in 1..n => /\ at[k + 1] = to[k] + Len(between)
                                                /\ Spelled(s, to[k], between)
    BY <1>1, <1>6 DEF JoinLaid
  <1>8. \A k \in 1..n : at[k] \in 1..Len(s) + 1 /\ to[k] \in 1..Len(s) + 1 /\ at[k] <= to[k]
    <2> TAKE k \in 1..n
    <2>1. at[k] \in 1..Len(s) + 1 /\ to[k] \in 1..Len(s) + 1 /\ to[k] = at[k] + Len(texts[k])
      BY <1>7
    <2> QED
      BY <1>3, <1>4, <2>1, SMTT(30)
  <1>9. to[n] <= d /\ Spaces(s, to[n], d)
    BY <1>2, <1>7
  <1>10. ASSUME NEW k \in 1..n, k + 1 \in 1..n
         PROVE  /\ at[k + 1] = to[k] + 3 /\ to[k] + 3 <= Len(s) + 1 /\ s[to[k] + 1] = x
                /\ Spaces(s, to[k], to[k] + 1) /\ Spaces(s, to[k] + 2, to[k] + 3)
    <2>1. at[k + 1] = to[k] + Len(between) /\ Spelled(s, to[k], between)
      BY <1>7, <1>10
    <2>2. to[k] \in Nat
      BY <1>8
    <2> QED
      BY <1>2, <2>1, <2>2, Separator
  <1> DEFINE start == [k \in 1..n |-> IF k = 1 THEN i ELSE to[k - 1] + 2]
             bar == [k \in 1..n |-> IF k = n THEN d ELSE to[k] + 1]
  <1>11. /\ start[1] = i /\ bar[n] = d
         /\ \A k \in 1..n : /\ k # 1 => start[k] = to[k - 1] + 2
                            /\ k # n => bar[k] = to[k] + 1
         /\ start = [k \in 1..n |-> start[k]] /\ bar = [k \in 1..n |-> bar[k]]
    BY <1>3
  <1> HIDE DEF start, bar
  <1>12. ASSUME NEW k \in 1..n
         PROVE  start[k] \in 1..Len(s) + 1 /\ start[k] <= at[k] /\ Spaces(s, start[k], at[k])
    <2>1. CASE k = 1
      BY <1>3, <1>7, <1>11, <2>1
    <2>2. CASE k # 1
      <3>1. PICK m : m = k - 1
        OBVIOUS
      <3>2. m \in 1..n /\ m + 1 \in 1..n /\ m + 1 = k
        BY <1>3, <2>2, <3>1
      <3>3. start[k] = to[m] + 2
        BY <1>11, <2>2, <3>1
      <3>4. at[k] = to[m] + 3 /\ Spaces(s, to[m] + 2, to[m] + 3)
        BY <1>10, <3>2
      <3>5. at[k] \in 1..Len(s) + 1 /\ to[m] \in 1..Len(s) + 1
        BY <1>8, <3>2
      <3>6. start[k] \in 1..Len(s) + 1 /\ start[k] <= at[k]
        BY <1>3, <3>3, <3>4, <3>5, SMTT(30)
      <3> QED
        BY <3>3, <3>4, <3>6
    <2> QED
      BY <2>1, <2>2
  <1>13. ASSUME NEW k \in 1..n
         PROVE  bar[k] \in 1..Len(s) + 1 /\ to[k] <= bar[k] /\ Spaces(s, to[k], bar[k])
    <2>1. CASE k = n
      <3>1. bar[k] = d /\ to[k] <= d /\ Spaces(s, to[k], d)
        BY <1>9, <1>11, <2>1
      <3>2. d \in 1..Len(s) + 1
        BY <1>3
      <3> QED
        BY <3>1, <3>2
    <2>2. CASE k # n
      <3>1. k + 1 \in 1..n
        BY <1>3, <2>2
      <3>2. bar[k] = to[k] + 1 /\ to[k] + 3 <= Len(s) + 1 /\ Spaces(s, to[k], to[k] + 1)
        BY <1>10, <1>11, <2>2, <3>1
      <3>3. to[k] \in 1..Len(s) + 1
        BY <1>8
      <3>4. bar[k] \in 1..Len(s) + 1 /\ to[k] <= bar[k]
        BY <1>3, <3>2, <3>3
      <3> QED
        BY <3>2, <3>4
    <2> QED
      BY <2>1, <2>2
  <1>14. ASSUME NEW k \in 1..n, k + 1 \in 1..n
         PROVE  Is(s, bar[k], x) /\ start[k + 1] = bar[k] + 1
    <2>1. PICK m : m = k + 1
      OBVIOUS
    <2>2. m \in 1..n /\ k # n /\ m # 1 /\ m - 1 = k
      BY <1>3, <1>14, <2>1
    <2>3. bar[k] = to[k] + 1 /\ start[m] = to[m - 1] + 2
      BY <1>11, <2>2
    <2>4. to[k] + 3 <= Len(s) + 1 /\ s[to[k] + 1] = x /\ to[k] \in 1..Len(s) + 1
      BY <1>8, <1>10, <1>14
    <2>5. to[k] + 1 \in DOMAIN s
      BY <1>3, <2>4, SMTT(30)
    <2>6. Is(s, bar[k], x)
      BY <2>3, <2>4, <2>5 DEF Is
    <2>7. start[m] = to[k] + 2 /\ to[k] + 2 = to[k] + 1 + 1
      BY <1>3, <2>2, <2>3, <2>4
    <2> QED
      BY <2>1, <2>3, <2>6, <2>7
  <1>15. start \in [1..n -> 1..Len(s) + 1] /\ bar \in [1..n -> 1..Len(s) + 1]
    BY <1>11, <1>12, <1>13
  <1>16. ASSUME NEW k \in 1..n
         PROVE  /\ \E a \in start[k]..Len(s) + 1 :
                     /\ Spaces(s, start[k], a) /\ Spelled(s, a, texts[k])
                     /\ a + Len(texts[k]) <= bar[k] /\ Spaces(s, a + Len(texts[k]), bar[k])
                /\ start[k] <= bar[k]
    <2>1. at[k] \in 1..Len(s) + 1 /\ to[k] = at[k] + Len(texts[k]) /\ Spelled(s, at[k], texts[k])
          /\ at[k] <= to[k] /\ to[k] \in 1..Len(s) + 1
      BY <1>7, <1>8
    <2>2. at[k] \in start[k]..Len(s) + 1 /\ start[k] <= bar[k]
      <3>1. start[k] \in 1..Len(s) + 1 /\ start[k] <= at[k]
        BY <1>12
      <3>2. bar[k] \in 1..Len(s) + 1 /\ to[k] <= bar[k]
        BY <1>13
      <3>3. \A n1, n2, n3, n4, n5 \in Nat :
              n1 <= n2 /\ n2 <= n3 /\ n3 <= n4 /\ n2 <= n5 => n2 \in n1..n5 /\ n1 <= n4
        OBVIOUS
      <3>4. start[k] \in Nat /\ at[k] \in Nat /\ to[k] \in Nat /\ bar[k] \in Nat
            /\ Len(s) + 1 \in Nat /\ at[k] <= Len(s) + 1
        <4>1. Len(s) + 1 \in Nat
          BY <1>3
        <4>2. \A l \in Nat : \A v \in 1..l : v \in Nat /\ v <= l
          OBVIOUS
        <4> QED
          BY <2>1, <3>1, <3>2, <4>1, <4>2
      <3> QED
        BY <2>1, <3>1, <3>2, <3>3, <3>4, SMTT(30)
    <2>3. /\ Spaces(s, start[k], at[k]) /\ Spelled(s, at[k], texts[k])
          /\ at[k] + Len(texts[k]) <= bar[k] /\ Spaces(s, at[k] + Len(texts[k]), bar[k])
      BY <1>12, <1>13, <2>1
    <2> QED
      BY <2>2, <2>3
  <1>17. PartsLaid(s, i, d, x, texts, start, bar)
    BY <1>1, <1>11, <1>14, <1>15, <1>16 DEF PartsLaid
  <1> QED
    BY <1>17

CommandsText(cs) ==
  Joined([n \in DOMAIN cs |-> UnparseCommand(cs[n])], <<Space, "|", Space>>)

LEMMA CommandTexts ==
  ASSUME NEW cs \in CommandLists
  PROVE  /\ [n \in DOMAIN cs |-> UnparseCommand(cs[n])] \in Seq(Texts)
         /\ Len([n \in DOMAIN cs |-> UnparseCommand(cs[n])]) = Len(cs)
         /\ \A k \in 1..Len(cs) :
              [n \in DOMAIN cs |-> UnparseCommand(cs[n])][k] = UnparseCommand(cs[k])
         /\ CommandsText(cs) \in Texts
  <1>1. Len(cs) \in Nat /\ DOMAIN cs = 1..Len(cs) /\ \A k \in 1..Len(cs) : cs[k] \in Seq(Words)
    BY DEF CommandLists
  <1>2. ASSUME NEW ws \in Seq(Words) PROVE UnparseCommand(ws) \in Texts
    <2>1. ws \in Seq(Texts)
      BY DEF Words, Texts
    <2>2. PICK between \in Texts : between = <<Space>>
      <3>1. Space \in Pieces
        BY DEF Pieces
      <3>2. <<Space>> \in Texts
        BY <3>1 DEF Texts
      <3> QED
        BY <3>2
    <2>3. Joined(ws, between) \in Texts
      BY <2>1, JoinedType
    <2> QED
      BY <2>2, <2>3 DEF UnparseCommand
  <1>3. PICK n : n = Len(cs)
    OBVIOUS
  <1> DEFINE q == [k \in 1..n |-> UnparseCommand(cs[k])]
  <1>4. q \in Seq(Texts) /\ Len(q) = n /\ \A k \in 1..n : q[k] = UnparseCommand(cs[k])
    BY <1>1, <1>2, <1>3
  <1>5. q = [k \in DOMAIN cs |-> UnparseCommand(cs[k])]
    BY <1>1, <1>3
  <1> HIDE DEF q
  <1>6. Joined(q, <<Space, "|", Space>>) \in Texts
    <2>1. "|" \in Delimiters
      BY DEF Delimiters
    <2>2. PICK between \in Texts : between = <<Space, "|", Space>>
      BY <2>1, Separator
    <2> QED
      BY <1>4, <2>2, JoinedType
  <1> QED
    BY <1>3, <1>4, <1>5, <1>6 DEF CommandsText

\* The commands of a pipeline are found where it is printed.
LEMMA PrintedCommands ==
  ASSUME NEW s \in Texts, NEW i \in 1..Len(s) + 1, NEW b \in i..Len(s) + 1,
         NEW cs \in CommandLists, cs # <<>>, NEW d \in i..Len(s) + 1, Bounds(s, d),
         ~Is(s, d, "|"), Spaces(s, i, b), Spelled(s, b, CommandsText(cs)),
         b + Len(CommandsText(cs)) <= d, Spaces(s, b + Len(CommandsText(cs)), d)
  PROVE  AreCommands(s, i, d, cs)
  <1>1. PICK n : n = Len(cs)
    OBVIOUS
  <1>2. PICK texts \in Seq(Texts) :
          /\ Len(texts) = n /\ \A k \in 1..n : texts[k] = UnparseCommand(cs[k])
          /\ CommandsText(cs) = Joined(texts, <<Space, "|", Space>>)
    BY <1>1, CommandTexts DEF CommandsText
  <1>3. n \in Nat /\ n >= 1 /\ texts # <<>> /\ Len(s) \in Nat /\ "|" \in Delimiters
        /\ (\A k \in 1..n : cs[k] \in Seq(Words) /\ cs[k] # <<>>) /\ DOMAIN s = 1..Len(s)
    <2>1. n \in Nat /\ n >= 1 /\ \A k \in 1..n : cs[k] \in Seq(Words) /\ cs[k] # <<>>
      BY <1>1 DEF CommandLists
    <2>2. texts # <<>>
      BY <1>2, <2>1
    <2>3. Len(s) \in Nat /\ DOMAIN s = 1..Len(s)
      BY DEF Texts
    <2> QED
      BY <2>1, <2>2, <2>3 DEF Delimiters
  <1>4. PICK x \in Delimiters : x = "|"
    BY <1>3
  <1>5. \E from_, bar : PartsLaid(s, i, d, x, texts, from_, bar)
    BY <1>2, <1>3, <1>4, PartsSpelled
  <1>6. PICK start, bar : PartsLaid(s, i, d, x, texts, start, bar)
    BY <1>5
  <1>7. /\ start \in [1..n -> 1..Len(s) + 1] /\ bar \in [1..n -> 1..Len(s) + 1]
        /\ start[1] = i /\ bar[n] = d
        /\ \A k \in 1..n :
             /\ \E a \in start[k]..Len(s) + 1 :
                  /\ Spaces(s, start[k], a) /\ Spelled(s, a, texts[k])
                  /\ a + Len(texts[k]) <= bar[k] /\ Spaces(s, a + Len(texts[k]), bar[k])
             /\ start[k] <= bar[k]
             /\ k + 1 \in 1..n => Is(s, bar[k], x) /\ start[k + 1] = bar[k] + 1
    BY <1>2, <1>6 DEF PartsLaid
  <1>8. ASSUME NEW k \in 1..n PROVE Bounds(s, bar[k]) /\ AreWords(s, start[k], bar[k], cs[k])
    <2>1. PICK a \in start[k]..Len(s) + 1 :
            /\ Spaces(s, start[k], a) /\ Spelled(s, a, texts[k])
            /\ a + Len(texts[k]) <= bar[k] /\ Spaces(s, a + Len(texts[k]), bar[k])
      BY <1>7
    <2>2. PICK j \in 1..Len(s) + 1 : j = start[k]
      BY <1>7
    <2>3. bar[k] \in 1..Len(s) + 1 /\ start[k] <= bar[k]
      BY <1>7
    <2>4. PICK e \in j..Len(s) + 1 : e = bar[k]
      BY <1>3, <2>2, <2>3
    <2>5. PICK ws \in Seq(Words) : ws = cs[k] /\ ws # <<>>
      BY <1>3
    <2>6. /\ a \in j..Len(s) + 1 /\ Spaces(s, j, a) /\ Spelled(s, a, UnparseCommand(ws))
          /\ a + Len(UnparseCommand(ws)) <= e /\ Spaces(s, a + Len(UnparseCommand(ws)), e)
      BY <1>2, <2>1, <2>2, <2>4, <2>5
    <2>7. AreWords(s, j, e, ws)
      BY <2>5, <2>6, PrintedWords
    <2>8. Bounds(s, bar[k])
      <3>1. CASE k = n
        BY <1>7, <3>1
      <3>2. CASE k # n
        <4>1. k + 1 \in 1..n
          BY <1>3, <3>2
        <4>2. Is(s, bar[k], x)
          BY <1>7, <4>1
        <4> QED
          BY <4>2 DEF Is, Bounds
      <3> QED
        BY <3>1, <3>2
    <2> QED
      BY <2>2, <2>4, <2>5, <2>7, <2>8
  <1>9. CommandsLaid(s, i, d, cs, start, bar)
    BY <1>1, <1>4, <1>7, <1>8 DEF CommandsLaid
  <1> QED
    BY <1>9 DEF AreCommands

LEMMA SpelledWord ==
  ASSUME NEW s \in Texts, NEW w \in Texts, Wordy(w, 1, Len(w) + 1),
         NEW b \in 1..Len(s) + 1, NEW e \in b..Len(s) + 1, e = b + Len(w), Spelled(s, b, w)
  PROVE  Wordy(s, b, e) /\ SubSeq(s, b, e - 1) = w
  <1>1. /\ w \in Seq(Pieces) /\ s \in Seq(Pieces) /\ Len(w) \in Nat /\ Len(s) \in Nat
        /\ \A k \in 1..Len(w) : IsWordPiece(w[k]) /\ s[b + k - 1] = w[k]
    BY DEF Texts, Wordy, Spelled
  <1>2. b \in Nat /\ e \in Nat
    BY <1>1
  <1>3. Wordy(s, b, e)
    <2> SUFFICES ASSUME NEW k \in b..e - 1 PROVE IsWordPiece(s[k])
      BY DEF Wordy
    <2>1. k - b + 1 \in 1..Len(w) /\ b + (k - b + 1) - 1 = k
      <3>1. \A x, n \in Nat : \A y \in x..x + n - 1 :
              y - x + 1 \in 1..n /\ x + (y - x + 1) - 1 = y
        OBVIOUS
      <3> QED
        BY <1>1, <1>2, <3>1
    <2> QED
      BY <1>1, <2>1
  <1>4. SubSeq(s, b, e - 1) = w
    <2>0. \A x, y \in Nat : x + y - x = y
      OBVIOUS
    <2>1. e - b = Len(w)
      BY <1>1, <1>2, <2>0
    <2>2. /\ SubSeq(s, b, e - 1) \in Seq(Pieces) /\ Len(SubSeq(s, b, e - 1)) = e - b
          /\ \A k \in 1..e - b : SubSeq(s, b, e - 1)[k] = s[b + k - 1]
      BY <1>1, <1>3, SubWord
    <2> PICK v : v = SubSeq(s, b, e - 1)
      OBVIOUS
    <2>3. v \in Seq(Pieces) /\ Len(v) = Len(w) /\ \A k \in 1..Len(w) : v[k] = w[k]
      BY <1>1, <2>1, <2>2
    <2>4. v = w
      BY <1>1, <2>3, SeqEqual
    <2> QED
      BY <2>4
  <1> QED
    BY <1>3, <1>4

Named == {w \in Texts : Wordy(w, 1, Len(w) + 1)}

LEMMA PathFacts ==
  /\ Paths = {NoPath} \cup {Path(w) : w \in Named}
  /\ \A w \in Named : Path(w) # NoPath /\ Tail(Path(w)) = w
  <1>1. ASSUME NEW w \in Named PROVE Path(w) # NoPath /\ Tail(Path(w)) = w
    <2>1. PICK V : V = Pieces \cup {"path"}
      OBVIOUS
    <2>2. w \in Seq(Pieces)
      BY DEF Named, Texts
    <2>3. w \in Seq(V) /\ <<"path">> \in Seq(V)
      BY <2>1, <2>2
    <2>4. PICK q \in Seq(V) : q = <<"path">>
      BY <2>3
    <2>5. Len(q) = 1 /\ q[1] = "path"
      BY <2>4
    <2>6. /\ q \o w \in Seq(V) /\ Len(q \o w) = 1 + Len(w) /\ (q \o w)[1] = "path"
          /\ \A k \in 1..Len(w) : (q \o w)[1 + k] = w[k]
      <3>1. /\ q \o w \in Seq(V) /\ Len(q \o w) = Len(q) + Len(w)
            /\ \A k \in 1..Len(q) + Len(w) :
                 (q \o w)[k] = IF k <= Len(q) THEN q[k] ELSE w[k - Len(q)]
        BY <2>3, ConcatProperties
      <3>2. Len(w) \in Nat
        BY <2>2
      <3>3. 1 \in 1..Len(q) + Len(w) /\ (q \o w)[1] = q[1]
        BY <2>5, <3>1, <3>2
      <3>4. ASSUME NEW k \in 1..Len(w) PROVE (q \o w)[1 + k] = w[k]
        <4>1. 1 + k \in 1..Len(q) + Len(w) /\ ~(1 + k <= Len(q)) /\ 1 + k - Len(q) = k
          BY <2>5, <3>2
        <4> QED
          BY <3>1, <4>1
      <3> QED
        BY <2>5, <3>1, <3>3, <3>4
    <2>7. PICK p \in Seq(V) : p = q \o w
      BY <2>6
    <2>8. p[1] # NoPath[1]
      BY <2>6, <2>7 DEF NoPath
    <2>9. Len(w) \in Nat /\ p # <<>>
      BY <2>2, <2>6, <2>7
    <2>10. Tail(p) \in Seq(V) /\ Len(Tail(p)) = Len(w) /\ \A k \in 1..Len(w) : Tail(p)[k] = p[k + 1]
      BY <2>6, <2>7, <2>9
    <2>11. \A k \in 1..Len(w) : Tail(p)[k] = w[k]
      BY <2>6, <2>7, <2>10
    <2>12. Tail(p) = w
      BY <2>3, <2>10, <2>11, SeqEqual
    <2> QED
      BY <2>4, <2>7, <2>8, <2>12 DEF Path
  <1>2. Paths = {NoPath} \cup {Path(w) : w \in Named}
    BY DEF Paths, Named, Texts
  <1> QED
    BY <1>1, <1>2

\* A path is found where it is printed.
LEMMA PrintedPath ==
  ASSUME NEW s \in Texts, NEW i \in 1..Len(s) + 1, NEW a \in i..Len(s) + 1, NEW w \in Named,
         NEW d \in i..Len(s) + 1, EndsPipeline(s, d),
         Spaces(s, i, a), Spelled(s, a, w), a + Len(w) <= d, Spaces(s, a + Len(w), d)
  PROVE  IsPath(s, i, d, Path(w))
  <1>1. Len(s) \in Nat /\ Len(w) \in Nat /\ w \in Texts /\ Wordy(w, 1, Len(w) + 1)
        /\ i \in Nat /\ a \in Nat /\ d \in Nat
    <2>1. Len(s) \in Nat /\ w \in Texts /\ Wordy(w, 1, Len(w) + 1)
      BY DEF Named, Texts
    <2>2. Len(w) \in Nat
      BY <2>1 DEF Texts
    <2> QED
      BY <2>1, <2>2
  <1>2. d = Len(s) + 1 \/ s[d] # Space
    BY DEF EndsPipeline, Space
  <1>3. CASE Len(w) = 0
    <2>1. w = <<>>
      BY <1>1, <1>3 DEF Texts
    <2>2. Spaces(s, i, d)
      BY <1>1, <1>3 DEF Spaces
    <2>3. Wordy(s, d, d) /\ Spaces(s, d, d)
      BY <1>1 DEF Wordy, Spaces
    <2>4. SubSeq(s, d, d - 1) = <<>>
      <3>1. SubSeq(s, d, d - 1) \in Seq(Pieces) /\ Len(SubSeq(s, d, d - 1)) = d - d
        BY <1>1, <2>3, SubWord DEF Texts
      <3>2. d - d = 0
        BY <1>1
      <3> QED
        BY <3>1, <3>2, EmptySeq
    <2>5. d \in i..d /\ d \in d..d
      BY <1>1
    <2> QED
      BY <1>2, <2>1, <2>2, <2>3, <2>4, <2>5 DEF IsPath
  <1>4. CASE Len(w) # 0
    <2>1. PICK e : e = a + Len(w)
      OBVIOUS
    <2>2. a \in 1..Len(s) + 1 /\ e \in a..Len(s) + 1 /\ a \in i..d /\ e \in a..d
      BY <1>1, <2>1
    <2>3. Wordy(s, a, e) /\ SubSeq(s, a, e - 1) = w
      BY <1>1, <2>1, <2>2, SpelledWord
    <2>4. a \in a..e - 1
      BY <1>1, <1>4, <2>1
    <2>5. s[a] # Space
      BY <2>3, <2>4, WordPieceFacts DEF Wordy
    <2>6. Spaces(s, e, d)
      BY <2>1
    <2> QED
      BY <2>2, <2>3, <2>5, <2>6 DEF IsPath
  <1> QED
    BY <1>3, <1>4

RedirectedText(cs, sign, w) == CommandsText(cs) \o (<<Space, sign, Space>> \o w)

LEMMA PrintedRedirection ==
  ASSUME NEW s \in Texts, NEW i \in 1..Len(s) + 1, NEW b \in i..Len(s) + 1,
         NEW cs \in CommandLists, cs # <<>>, NEW sign \in {"<", ">"}, NEW w \in Named,
         NEW d \in i..Len(s) + 1, EndsPipeline(s, d), Spaces(s, i, b),
         Spelled(s, b, RedirectedText(cs, sign, w)),
         b + Len(RedirectedText(cs, sign, w)) <= d,
         Spaces(s, b + Len(RedirectedText(cs, sign, w)), d)
  PROVE  \E e \in i..d : AreCommands(s, i, e, cs) /\ Redirected(s, e, d, sign, Path(w))
  <1>1. PICK c \in Texts : c = CommandsText(cs)
    BY CommandTexts
  <1>2. sign \in Delimiters /\ sign # "|"
    BY DEF Delimiters
  <1>3. PICK between \in Texts : between = <<Space, sign, Space>>
    BY <1>2, Separator
  <1>4. w \in Texts
    BY DEF Named
  <1>5. PICK r \in Texts : r = between \o w
    <2>1. between \o w \in Texts
      BY <1>4 DEF Texts
    <2> QED
      BY <2>1
  <1>6. RedirectedText(cs, sign, w) = c \o r
    BY <1>1, <1>3, <1>5 DEF RedirectedText
  <1>7. Len(s) \in Nat /\ Len(c) \in Nat /\ Len(w) \in Nat /\ Len(between) = 3
        /\ b \in 1..Len(s) + 1 /\ i \in Nat /\ b \in Nat /\ d \in Nat /\ DOMAIN s = 1..Len(s)
    <2>1. \A x \in Texts : Len(x) \in Nat /\ DOMAIN x = 1..Len(x)
      BY DEF Texts
    <2>2. Len(s) \in Nat /\ Len(c) \in Nat /\ Len(w) \in Nat /\ DOMAIN s = 1..Len(s)
      BY <1>4, <2>1
    <2> QED
      BY <1>3, <2>2
  <1>8. PICK e : e = b + Len(c)
    OBVIOUS
  <1>9. /\ Spelled(s, b, c) /\ Spelled(s, e, r) /\ e \in 1..Len(s) + 1
        /\ Len(c \o r) = Len(c) + Len(r)
    BY <1>6, <1>7, <1>8, SpelledParts
  <1>10. /\ Spelled(s, e, between) /\ Spelled(s, e + Len(between), w)
         /\ e + Len(between) \in 1..Len(s) + 1 /\ Len(r) = Len(between) + Len(w)
    BY <1>4, <1>5, <1>9, SpelledParts
  <1>11. b + Len(RedirectedText(cs, sign, w)) = e + 3 + Len(w) /\ e \in Nat
    BY <1>6, <1>7, <1>8, <1>9, <1>10
  <1>12. e + 3 + Len(w) <= d /\ Spaces(s, e + 3 + Len(w), d)
    BY <1>11
  <1>13. /\ s[e + 1] = sign /\ Spaces(s, e, e + 1) /\ Spaces(s, e + 2, e + 3)
    BY <1>2, <1>3, <1>10, <1>11, Separator, SMTT(30)
  <1>14. PICK a \in Nat : a = e + 1
    BY <1>11
  <1>15. /\ a \in i..Len(s) + 1 /\ a \in 1..Len(s) /\ a \in i..d /\ b + Len(c) <= a
         /\ a + 1 \in 1..Len(s) + 1 /\ a + 1 \in 1..d /\ e + 3 \in a + 1..Len(s) + 1
         /\ d \in a + 1..Len(s) + 1 /\ e + 2 = a + 1
    BY <1>7, <1>8, <1>11, <1>12, <1>14
  <1>16. Is(s, a, sign) /\ ~Is(s, a, "|") /\ Bounds(s, a)
    BY <1>2, <1>7, <1>13, <1>14, <1>15 DEF Is, Bounds
  <1>17. AreCommands(s, i, a, cs)
    <2>1. Spelled(s, b, CommandsText(cs)) /\ b + Len(CommandsText(cs)) <= a
          /\ Spaces(s, b + Len(CommandsText(cs)), a)
      BY <1>1, <1>8, <1>9, <1>13, <1>14, <1>15
    <2> QED
      BY <1>15, <1>16, <2>1, PrintedCommands
  <1>18. IsPath(s, a + 1, d, Path(w))
    <2>1. PICK j \in 1..Len(s) + 1 : j = a + 1
      BY <1>15
    <2>2. PICK k \in j..Len(s) + 1 : k = e + 3
      BY <1>15, <2>1
    <2>3. d \in j..Len(s) + 1 /\ Spaces(s, j, k) /\ Spelled(s, k, w) /\ k + Len(w) <= d
          /\ Spaces(s, k + Len(w), d)
      BY <1>7, <1>10, <1>12, <1>13, <1>15, <2>1, <2>2
    <2>4. IsPath(s, j, d, Path(w))
      BY <2>3, PrintedPath
    <2> QED
      BY <2>1, <2>4
  <1>19. Redirected(s, a, d, sign, Path(w))
    BY <1>15, <1>16, <1>18 DEF Redirected
  <1> QED
    BY <1>15, <1>17, <1>19

LEMMA PipelineText ==
  ASSUME NEW p \in PipelineSet
  PROVE  /\ p = Pipeline(p.commands, p.input, p.output)
         /\ p.commands \in CommandLists /\ p.commands # <<>>
         /\ \/ /\ p.input = NoPath /\ p.output = NoPath
               /\ UnparsePipeline(p) = CommandsText(p.commands)
            \/ \E w \in Named : /\ p.input = Path(w) /\ p.output = NoPath
                                /\ UnparsePipeline(p) = RedirectedText(p.commands, "<", w)
            \/ \E w \in Named : /\ p.output = Path(w) /\ p.input = NoPath
                                /\ UnparsePipeline(p) = RedirectedText(p.commands, ">", w)
         /\ UnparsePipeline(p) \in Texts
  <1>1. /\ p = Pipeline(p.commands, p.input, p.output)
        /\ p.commands \in CommandLists /\ p.commands # <<>>
        /\ p.input \in Paths /\ p.output \in Paths /\ NoPath \in {p.input, p.output}
    BY DEF PipelineSet, Pipeline
  <1>2. PICK c \in Texts : c = CommandsText(p.commands)
    BY <1>1, CommandTexts
  <1>3. UnparsePipeline(p) = c \o Redirection("<", p.input) \o Redirection(">", p.output)
    BY <1>2 DEF UnparsePipeline, CommandsText
  <1>4. \A x \in Texts : x \o <<>> = x
    BY ConcatEmptySeq DEF Texts
  <1>5. Redirection("<", NoPath) = <<>> /\ Redirection(">", NoPath) = <<>>
    BY DEF Redirection
  <1>6. ASSUME NEW w \in Named, NEW sign \in {"<", ">"}
        PROVE  /\ Redirection(sign, Path(w)) = <<Space, sign, Space>> \o w
               /\ <<Space, sign, Space>> \o w \in Texts
               /\ c \o (<<Space, sign, Space>> \o w) = RedirectedText(p.commands, sign, w)
               /\ RedirectedText(p.commands, sign, w) \in Texts
    <2>1. Redirection(sign, Path(w)) = <<Space, sign, Space>> \o w
      BY PathFacts DEF Redirection
    <2>2. sign \in Delimiters /\ w \in Texts
      BY DEF Delimiters, Named
    <2>3. PICK between \in Texts : between = <<Space, sign, Space>>
      BY <2>2, Separator
    <2>4. between \o w \in Texts
      BY <2>2 DEF Texts
    <2>5. c \o (between \o w) \in Texts
      BY <2>4 DEF Texts
    <2> QED
      BY <1>2, <2>1, <2>3, <2>4, <2>5 DEF RedirectedText
  <1>7. CASE p.input = NoPath /\ p.output = NoPath
    <2>1. UnparsePipeline(p) = (c \o <<>>) \o <<>>
      BY <1>3, <1>5, <1>7
    <2>2. UnparsePipeline(p) = c
      BY <1>4, <2>1
    <2> QED
      BY <1>1, <1>2, <1>7, <2>2
  <1>8. CASE p.input # NoPath
    <2>1. p.output = NoPath /\ \E w \in Named : p.input = Path(w)
      BY <1>1, <1>8, PathFacts
    <2>2. PICK w \in Named : p.input = Path(w)
      BY <2>1
    <2>3. PICK u \in Texts : u = c \o (<<Space, "<", Space>> \o w)
                             /\ u = RedirectedText(p.commands, "<", w)
      BY <1>6
    <2>4. UnparsePipeline(p) = (c \o (<<Space, "<", Space>> \o w)) \o <<>>
      BY <1>3, <1>5, <1>6, <2>1, <2>2
    <2>5. UnparsePipeline(p) = u
      BY <1>4, <2>3, <2>4
    <2> QED
      BY <1>1, <2>1, <2>2, <2>3, <2>5
  <1>9. CASE p.output # NoPath
    <2>1. p.input = NoPath /\ \E w \in Named : p.output = Path(w)
      BY <1>1, <1>9, PathFacts
    <2>2. PICK w \in Named : p.output = Path(w)
      BY <2>1
    <2>3. PICK u \in Texts : u = c \o (<<Space, ">", Space>> \o w)
                             /\ u = RedirectedText(p.commands, ">", w)
      BY <1>6
    <2>4. UnparsePipeline(p) = (c \o <<>>) \o (<<Space, ">", Space>> \o w)
      BY <1>3, <1>5, <1>6, <2>1, <2>2
    <2>5. UnparsePipeline(p) = u
      BY <1>4, <2>3, <2>4
    <2> QED
      BY <1>1, <2>1, <2>2, <2>3, <2>5
  <1> QED
    BY <1>7, <1>8, <1>9

\* A pipeline is found where it is printed.
LEMMA PrintedPipeline ==
  ASSUME NEW s \in Texts, NEW i \in 1..Len(s) + 1, NEW b \in i..Len(s) + 1,
         NEW p \in PipelineSet, NEW d \in i..Len(s) + 1, EndsPipeline(s, d), Spaces(s, i, b),
         Spelled(s, b, UnparsePipeline(p)), b + Len(UnparsePipeline(p)) <= d,
         Spaces(s, b + Len(UnparsePipeline(p)), d)
  PROVE  IsPipe(s, i, d, p)
  <1>1. /\ p = Pipeline(p.commands, p.input, p.output)
        /\ p.commands \in CommandLists /\ p.commands # <<>>
    BY PipelineText
  <1>2. PICK cs \in CommandLists : cs = p.commands /\ cs # <<>>
    BY <1>1
  <1>3. CASE /\ p.input = NoPath /\ p.output = NoPath
             /\ UnparsePipeline(p) = CommandsText(p.commands)
    <2>1. Spelled(s, b, CommandsText(cs)) /\ b + Len(CommandsText(cs)) <= d
          /\ Spaces(s, b + Len(CommandsText(cs)), d)
      BY <1>2, <1>3
    <2>2. Bounds(s, d) /\ ~Is(s, d, "|")
      <3>1. d = Len(s) + 1 \/ (s[d] = ";" /\ s[d] # "|" /\ s[d] \in Delimiters)
        BY SignFacts DEF EndsPipeline
      <3>2. d = Len(s) + 1 => d \notin DOMAIN s
        BY DEF Texts
      <3> QED
        BY <3>1, <3>2 DEF Bounds, Is
    <2>3. AreCommands(s, i, d, cs)
      BY <1>2, <2>1, <2>2, PrintedCommands
    <2>4. d \in i..d
      <3>1. Len(s) \in Nat
        BY DEF Texts
      <3> QED
        BY <3>1
    <2> QED
      BY <1>1, <1>2, <1>3, <2>3, <2>4 DEF IsPipe
  <1>4. CASE \E w \in Named : /\ p.input = Path(w) /\ p.output = NoPath
                              /\ UnparsePipeline(p) = RedirectedText(p.commands, "<", w)
    <2>1. PICK w \in Named : /\ p.input = Path(w) /\ p.output = NoPath
                             /\ UnparsePipeline(p) = RedirectedText(p.commands, "<", w)
      BY <1>4
    <2>2. PICK sign \in {"<", ">"} : sign = "<"
      OBVIOUS
    <2>3. /\ Spelled(s, b, RedirectedText(cs, sign, w)) /\ b + Len(RedirectedText(cs, sign, w)) <= d
          /\ Spaces(s, b + Len(RedirectedText(cs, sign, w)), d)
      BY <1>2, <2>1, <2>2
    <2>4. \E e \in i..d : AreCommands(s, i, e, cs) /\ Redirected(s, e, d, sign, Path(w))
      BY <1>2, <2>3, PrintedRedirection
    <2> QED
      BY <1>1, <1>2, <2>1, <2>2, <2>4 DEF IsPipe
  <1>5. CASE \E w \in Named : /\ p.output = Path(w) /\ p.input = NoPath
                              /\ UnparsePipeline(p) = RedirectedText(p.commands, ">", w)
    <2>1. PICK w \in Named : /\ p.output = Path(w) /\ p.input = NoPath
                             /\ UnparsePipeline(p) = RedirectedText(p.commands, ">", w)
      BY <1>5
    <2>2. PICK sign \in {"<", ">"} : sign = ">"
      OBVIOUS
    <2>3. /\ Spelled(s, b, RedirectedText(cs, sign, w)) /\ b + Len(RedirectedText(cs, sign, w)) <= d
          /\ Spaces(s, b + Len(RedirectedText(cs, sign, w)), d)
      BY <1>2, <2>1, <2>2
    <2>4. \E e \in i..d : AreCommands(s, i, e, cs) /\ Redirected(s, e, d, sign, Path(w))
      BY <1>2, <2>3, PrintedRedirection
    <2> QED
      BY <1>1, <1>2, <2>1, <2>2, <2>4 DEF IsPipe
  <1> QED
    BY <1>3, <1>4, <1>5, PipelineText

\* A task that is printed spells that task.
LEMMA PrintedTask ==
  ASSUME NEW t \in Seq(PipelineSet), t # <<>>
  PROVE  UnparseTask(t) \in Texts /\ SpellsTask(UnparseTask(t), t)
  <1>1. PICK n : n = Len(t)
    OBVIOUS
  <1>2. n \in Nat /\ n >= 1 /\ DOMAIN t = 1..n /\ \A k \in 1..n : t[k] \in PipelineSet
    BY <1>1
  <1>3. \A k \in 1..n : UnparsePipeline(t[k]) \in Texts
    BY <1>2, PipelineText
  <1> DEFINE q == [k \in 1..n |-> UnparsePipeline(t[k])]
  <1>4. q \in Seq(Texts) /\ Len(q) = n /\ (\A k \in 1..n : q[k] = UnparsePipeline(t[k])) /\ q # <<>>
    BY <1>2, <1>3
  <1>5. UnparseTask(t) = Joined(q, <<Space, ";", Space>>)
    BY <1>2 DEF UnparseTask
  <1> HIDE DEF q
  <1>6. PICK x \in Delimiters : x = ";"
    BY DEF Delimiters
  <1>7. Joined(q, <<Space, x, Space>>) \in Texts
    <2>1. PICK between \in Texts : between = <<Space, x, Space>>
      BY Separator
    <2> QED
      BY <1>4, <2>1, JoinedType
  <1>8. PICK s \in Texts : s = UnparseTask(t)
    BY <1>5, <1>6, <1>7
  <1>9. s = Joined(q, <<Space, x, Space>>)
    BY <1>5, <1>6, <1>8
  <1>10. Len(s) \in Nat /\ DOMAIN s = 1..Len(s)
    BY DEF Texts
  <1>11. PICK e : e = Len(s) + 1
    OBVIOUS
  <1>12. /\ e \in 1..Len(s) + 1 /\ 1 \in 1..Len(s) + 1 /\ e \in Nat
         /\ Spaces(s, 1, 1) /\ Spelled(s, 1, s) /\ 1 + Len(s) <= e /\ Spaces(s, 1 + Len(s), e)
    <2>1. \A k \in 1..Len(s) : 1 + k - 1 = k
      BY <1>10
    <2>2. Spelled(s, 1, s)
      BY <1>10, <2>1 DEF Spelled
    <2> QED
      BY <1>10, <1>11, <2>2 DEF Spaces
  <1>13. PICK i \in 1..Len(s) + 1 : i = 1
    BY <1>12
  <1>14. PICK b \in i..Len(s) + 1 : b = 1
    BY <1>12, <1>13
  <1>15. PICK d \in i..Len(s) + 1 : d = e
    BY <1>12, <1>13
  <1>16. /\ Spaces(s, i, b) /\ Spelled(s, b, Joined(q, <<Space, x, Space>>))
         /\ b + Len(Joined(q, <<Space, x, Space>>)) <= d
         /\ Spaces(s, b + Len(Joined(q, <<Space, x, Space>>)), d)
    <2>1. Spaces(s, i, b) /\ Spelled(s, b, s) /\ b + Len(s) <= d /\ Spaces(s, b + Len(s), d)
      BY <1>12, <1>13, <1>14, <1>15
    <2> QED
      BY <1>9, <2>1
  <1>17. \E from_, bar : PartsLaid(s, i, d, x, q, from_, bar)
    BY <1>4, <1>16, PartsSpelled
  <1>18. PICK start, bar : PartsLaid(s, i, d, x, q, start, bar)
    BY <1>17
  <1>19. /\ start \in [1..n -> 1..Len(s) + 1] /\ bar \in [1..n -> 1..Len(s) + 1]
         /\ start[1] = 1 /\ bar[n] = Len(s) + 1
         /\ \A k \in 1..n :
              /\ \E a \in start[k]..Len(s) + 1 :
                   /\ Spaces(s, start[k], a) /\ Spelled(s, a, q[k])
                   /\ a + Len(q[k]) <= bar[k] /\ Spaces(s, a + Len(q[k]), bar[k])
              /\ start[k] <= bar[k]
              /\ k + 1 \in 1..n => Is(s, bar[k], x) /\ start[k + 1] = bar[k] + 1
    BY <1>4, <1>11, <1>13, <1>15, <1>18 DEF PartsLaid
  <1>20. ASSUME NEW k \in 1..n PROVE IsPipe(s, start[k], bar[k], t[k])
    <2>1. PICK a \in start[k]..Len(s) + 1 :
            /\ Spaces(s, start[k], a) /\ Spelled(s, a, q[k])
            /\ a + Len(q[k]) <= bar[k] /\ Spaces(s, a + Len(q[k]), bar[k])
      BY <1>19
    <2>2. PICK j \in 1..Len(s) + 1 : j = start[k]
      BY <1>19
    <2>3. bar[k] \in 1..Len(s) + 1 /\ start[k] <= bar[k]
      BY <1>19
    <2>4. PICK c \in j..Len(s) + 1 : c = bar[k]
      BY <1>10, <2>2, <2>3
    <2>5. PICK p \in PipelineSet : p = t[k]
      BY <1>2
    <2>6. /\ a \in j..Len(s) + 1 /\ Spaces(s, j, a) /\ Spelled(s, a, UnparsePipeline(p))
          /\ a + Len(UnparsePipeline(p)) <= c /\ Spaces(s, a + Len(UnparsePipeline(p)), c)
      BY <1>4, <2>1, <2>2, <2>4, <2>5
    <2>7. EndsPipeline(s, c)
      <3>1. CASE k = n
        BY <1>19, <2>4, <3>1 DEF EndsPipeline
      <3>2. CASE k # n
        <4>1. k + 1 \in 1..n
          BY <1>2, <3>2
        <4>2. Is(s, bar[k], x)
          BY <1>19, <4>1
        <4> QED
          BY <1>6, <2>4, <4>2 DEF Is, EndsPipeline
      <3> QED
        BY <3>1, <3>2
    <2>8. IsPipe(s, j, c, p)
      BY <2>6, <2>7, PrintedPipeline
    <2> QED
      BY <2>2, <2>4, <2>5, <2>8
  <1>21. TaskLaid(s, t, start, bar)
    BY <1>1, <1>6, <1>19, <1>20 DEF TaskLaid
  <1>22. SpellsTask(s, t)
    BY <1>21 DEF SpellsTask
  <1> QED
    BY <1>8, <1>22

\* The parser undoes the printer.
LEMMA ParsesPrinted ==
  ASSUME NEW t \in Seq(PipelineSet), t # <<>>
  PROVE  ParseTask(UnparseTask(t)) = t
  <1>1. PICK s \in Texts : s = UnparseTask(t)
    BY PrintedTask
  <1>2. SpellsTask(s, t)
    BY <1>1, PrintedTask
  <1>3. s \in Seq(Pieces)
    BY DEF Texts
  <1>4. ParseTask(s) = t
    BY <1>2, <1>3, ReadsTask
  <1> QED
    BY <1>1, <1>4

-----------------------------------------------------------------------------
(* The grammar: texts that are split.                                      *)

\* what the first n elements are split into
SplitsUpTo(s, S, V, f) ==
  /\ f \in [0..Len(s) -> Seq(Seq(V)) \ {<<>>}] /\ f[0] = << <<>> >>
  /\ \A n \in 1..Len(s) :
       /\ s[n] \in S => f[n] = Append(f[n - 1], <<>>)
       /\ s[n] \notin S => f[n] = Append(Front(f[n - 1]), Append(Last(f[n - 1]), s[n]))
  /\ Split(s, S) = f[Len(s)]

\* what is left of the first n elements
KeepsUpTo(s, S, V, f) ==
  /\ f \in [0..Len(s) -> Seq(V)] /\ f[0] = <<>>
  /\ \A n \in 1..Len(s) : /\ s[n] \in S => f[n] = f[n - 1]
                          /\ s[n] \notin S => f[n] = Append(f[n - 1], s[n])
  /\ Without(s, S) = f[Len(s)]

LEMMA KeepsIs ==
  ASSUME NEW V, NEW s \in Seq(V), NEW S
  PROVE  \E f : KeepsUpTo(s, S, V, f)
  <1> DEFINE N == Len(s)
             T == Seq(V)
             g == [p \in (1..N) \X T |-> IF s[p[1]] \in S THEN p[2] ELSE Append(p[2], s[p[1]])]
             Body(h) == [n \in 0..N |-> IF n = 0 THEN <<>>
                                        ELSE IF s[n] \in S THEN h[n - 1]
                                        ELSE Append(h[n - 1], s[n])]
             f == CHOOSE h : h = Body(h)
  <1>1. N \in Nat /\ <<>> \in T /\ \A n \in 1..N : s[n] \in V
    OBVIOUS
  <1>2. \A n \in 1..N, q \in T : q \in T /\ Append(q, s[n]) \in T
    BY <1>1, AppendProperties
  <1>3. g \in Steps(N, T)
    <2> HIDE DEF T
    <2> QED
      BY <1>2 DEF Steps
  <1>4. \E h \in [0..N -> T] : h[0] = <<>> /\ \A n \in 1..N : h[n] = g[<<n, h[n - 1]>>]
    <2>1. N \in Nat
      BY <1>1
    <2> HIDE DEF g, T, N, f, Body
    <2> QED
      BY <2>1, <1>1, <1>3, Iteration, SMTT(30)
  <1>5. PICK h \in [0..N -> T] : h[0] = <<>> /\ \A n \in 1..N : h[n] = g[<<n, h[n - 1]>>]
    BY <1>4
  <1>6. h = Body(h)
    <2> HIDE DEF T
    <2>1. \A n \in 0..N : h[n] = Body(h)[n]
      <3> TAKE n \in 0..N
      <3>1. n = 0 \/ n \in 1..N
        BY <1>1
      <3>2. ASSUME n \in 1..N
            PROVE  h[n] = IF s[n] \in S THEN h[n - 1] ELSE Append(h[n - 1], s[n])
        <4>1. n - 1 \in 0..N
          BY <1>1, <3>2
        <4>2. PICK q \in T : q = h[n - 1]
          BY <1>5, <4>1
        <4>3. h[n] = g[<<n, q>>]
          BY <1>5, <3>2, <4>2
        <4>4. g[<<n, q>>] = IF s[n] \in S THEN q ELSE Append(q, s[n])
          BY <3>2
        <4> QED
          BY <4>2, <4>3, <4>4
      <3> QED
        BY <1>5, <3>1, <3>2
    <2> QED
      BY <1>5, <2>1
  <1>7. f = Body(f)
    <2> HIDE DEF Body
    <2> QED
      BY <1>6
  <1>8. Without(s, S) = f[N]
    BY DEF Without
  <1> HIDE DEF f, g
  <1>9. f[0] = <<>> /\ \A n \in 1..N : f[n] = IF s[n] \in S THEN f[n - 1] ELSE Append(f[n - 1], s[n])
    <2>1. 0 \in 0..N /\ \A n \in 1..N : n \in 0..N /\ n # 0
      BY <1>1
    <2>2. \A n \in 0..N : f[n] = IF n = 0 THEN <<>> ELSE IF s[n] \in S THEN f[n - 1]
                                 ELSE Append(f[n - 1], s[n])
      BY <1>7
    <2> QED
      BY <2>1, <2>2
  <1>10. f \in [0..N -> T]
    <2> DEFINE U == {n \in 0..N : f[n] \in T}
    <2>1. 0 \in U
      <3>1. 0 \in 0..N
        BY <1>1
      <3> HIDE DEF T
      <3> QED
        BY <1>1, <1>9, <3>1
    <2>2. ASSUME NEW n \in 0..N - 1, n \in U PROVE n + 1 \in U
      <3>1. PICK m \in 1..N : m = n + 1
        BY <1>1
      <3>2. m - 1 = n /\ f[n] \in T /\ m \in 0..N
        BY <2>2, <3>1
      <3>3. f[m] = IF s[m] \in S THEN f[n] ELSE Append(f[n], s[m])
        BY <1>9, <3>2
      <3>4. f[m] \in T
        <4> HIDE DEF T
        <4> QED
          BY <1>2, <3>2, <3>3
      <3> QED
        BY <3>1, <3>2, <3>4
    <2>3. 0..N \subseteq U
      <3> HIDE DEF U
      <3> QED
        BY <1>1, <2>1, <2>2, BoundedInduction
    <2>4. \A n \in 0..N : f[n] \in T
      BY <2>3
    <2> QED
      BY <1>7, <2>4
  <1> QED
    BY <1>8, <1>9, <1>10 DEF KeepsUpTo

\* A part more, or one piece more in the last part.
LEMMA SplitStep ==
  ASSUME NEW V, NEW q \in Seq(Seq(V)) \ {<<>>}, NEW x \in V
  PROVE  /\ Append(q, <<>>) \in Seq(Seq(V)) \ {<<>>}
         /\ Append(Front(q), Append(Last(q), x)) \in Seq(Seq(V)) \ {<<>>}
  <1>1. q[Len(q)] \in Seq(V) /\ Len(q) \in Nat \ {0} /\ <<>> \in Seq(V)
    BY EmptySeq
  <1>2. Front(q) \in Seq(Seq(V)) /\ Last(q) \in Seq(V)
    BY <1>1 DEF Front, Last
  <1>3. Append(Last(q), x) \in Seq(V)
    BY <1>2, AppendProperties
  <1>4. Append(q, <<>>) \in Seq(Seq(V)) /\ Append(q, <<>>) # <<>>
    BY <1>1
  <1>5. PICK a \in Seq(V) : a = Append(Last(q), x)
    BY <1>3
  <1>6. PICK p \in Seq(Seq(V)) : p = Front(q)
    BY <1>2
  <1>7. Append(p, a) \in Seq(Seq(V)) /\ Append(p, a) # <<>>
    BY AppendProperties
  <1> QED
    BY <1>4, <1>5, <1>6, <1>7

LEMMA SplitIs ==
  ASSUME NEW V, NEW s \in Seq(V), NEW S
  PROVE  \E f : SplitsUpTo(s, S, V, f)
  <1> DEFINE N == Len(s)
             T == Seq(Seq(V)) \ {<<>>}
             More(q, x) == IF x \in S THEN Append(q, <<>>) ELSE Append(Front(q), Append(Last(q), x))
             g == [p \in (1..N) \X T |-> More(p[2], s[p[1]])]
             Body(h) == [n \in 0..N |-> IF n = 0 THEN << <<>> >>
                                        ELSE IF s[n] \in S THEN Append(h[n - 1], <<>>)
                                        ELSE Append(Front(h[n - 1]), Append(Last(h[n - 1]), s[n]))]
             f == CHOOSE h : h = Body(h)
  <1>1. N \in Nat /\ << <<>> >> \in T /\ \A n \in 1..N : s[n] \in V
    <2>1. <<>> \in Seq(V)
      OBVIOUS
    <2>2. \A x \in Seq(V) : <<x>> \in T
      <3> TAKE x \in Seq(V)
      <3>1. PICK U : U = Seq(V)
        OBVIOUS
      <3>3. <<x>> \in Seq(U) /\ Len(<<x>>) = 1
        BY <3>1
      <3>2. <<x>> # <<>>
        BY <3>3
      <3> QED
        BY <3>1, <3>2, <3>3
    <2>3. N \in Nat /\ \A n \in 1..N : s[n] \in V
      OBVIOUS
    <2> HIDE DEF T, N
    <2> QED
      BY <2>1, <2>2, <2>3
  <1>2. \A n \in 1..N, q \in T : More(q, s[n]) \in T
    <2> TAKE n \in 1..N, q \in T
    <2>1. PICK x \in V : x = s[n]
      BY <1>1
    <2>2. Append(q, <<>>) \in T /\ Append(Front(q), Append(Last(q), x)) \in T
      BY SplitStep
    <2> HIDE DEF T
    <2> QED
      BY <2>1, <2>2
  <1>3. g \in Steps(N, T)
    <2> HIDE DEF T, More
    <2> QED
      BY <1>2 DEF Steps
  <1>4. \E h \in [0..N -> T] : h[0] = << <<>> >> /\ \A n \in 1..N : h[n] = g[<<n, h[n - 1]>>]
    <2>1. PICK x \in T : x = << <<>> >>
      BY <1>1
    <2>3. N \in Nat
      BY <1>1
    <2> HIDE DEF g, T, N, f, Body, More
    <2>2. \E h \in [0..N -> T] : h[0] = x /\ \A n \in 1..N : h[n] = g[<<n, h[n - 1]>>]
      BY <2>3, <1>3, Iteration
    <2> QED
      BY <2>1, <2>2
  <1>5. PICK h \in [0..N -> T] : h[0] = << <<>> >> /\ \A n \in 1..N : h[n] = g[<<n, h[n - 1]>>]
    BY <1>4
  <1>6. h = Body(h)
    <2> HIDE DEF T
    <2>1. \A n \in 0..N : h[n] = Body(h)[n]
      <3> TAKE n \in 0..N
      <3>1. n = 0 \/ n \in 1..N
        BY <1>1
      <3>2. ASSUME n \in 1..N PROVE h[n] = More(h[n - 1], s[n])
        <4>1. n - 1 \in 0..N
          BY <1>1, <3>2
        <4>2. PICK q \in T : q = h[n - 1]
          BY <1>5, <4>1
        <4>3. h[n] = g[<<n, q>>]
          BY <1>5, <3>2, <4>2
        <4>4. g[<<n, q>>] = More(q, s[n])
          <5> HIDE DEF More
          <5> QED
            BY <3>2
        <4> HIDE DEF More, g
        <4> QED
          BY <4>2, <4>3, <4>4
      <3>3. Body(h)[n] = IF n = 0 THEN << <<>> >> ELSE More(h[n - 1], s[n])
        OBVIOUS
      <3>4. n \in 1..N => n # 0
        BY <1>1
      <3> HIDE DEF More, Body, g
      <3> QED
        BY <1>5, <3>1, <3>2, <3>3, <3>4
    <2> QED
      BY <1>5, <2>1
  <1>7. f = Body(f)
    <2> HIDE DEF Body
    <2> QED
      BY <1>6
  <1>8. Split(s, S) = f[N]
    BY DEF Split
  <1> HIDE DEF f, g
  <1>9. f[0] = << <<>> >> /\ \A n \in 1..N : f[n] = More(f[n - 1], s[n])
    <2>1. 0 \in 0..N /\ \A n \in 1..N : n \in 0..N /\ n # 0
      BY <1>1
    <2>2. \A n \in 0..N : f[n] = IF n = 0 THEN << <<>> >> ELSE More(f[n - 1], s[n])
      BY <1>7
    <2> HIDE DEF More
    <2> QED
      BY <2>1, <2>2
  <1>10. f \in [0..N -> T]
    <2> DEFINE U == {n \in 0..N : f[n] \in T}
    <2>1. 0 \in U
      <3>1. 0 \in 0..N
        BY <1>1
      <3> HIDE DEF T
      <3> QED
        BY <1>1, <1>9, <3>1
    <2>2. ASSUME NEW n \in 0..N - 1, n \in U PROVE n + 1 \in U
      <3>1. PICK m \in 1..N : m = n + 1
        BY <1>1
      <3>2. m - 1 = n /\ f[n] \in T /\ m \in 0..N
        BY <2>2, <3>1
      <3>3. f[m] = More(f[n], s[m])
        BY <1>9, <3>2
      <3>4. f[m] \in T
        <4> HIDE DEF T, More
        <4> QED
          BY <1>2, <3>2, <3>3
      <3> QED
        BY <3>1, <3>2, <3>4
    <2>3. 0..N \subseteq U
      <3> HIDE DEF U
      <3> QED
        BY <1>1, <2>1, <2>2, BoundedInduction
    <2>4. \A n \in 0..N : f[n] \in T
      BY <2>3
    <2> QED
      BY <1>7, <2>4
  <1> QED
    BY <1>8, <1>9, <1>10 DEF SplitsUpTo

LEMMA SplitType ==
  ASSUME NEW V, NEW s \in Seq(V), NEW S
  PROVE  Split(s, S) \in Seq(Seq(V)) \ {<<>>} /\ Without(s, S) \in Seq(V)
  <1>1. PICK f : SplitsUpTo(s, S, V, f)
    BY SplitIs
  <1>2. PICK h : KeepsUpTo(s, S, V, h)
    BY KeepsIs
  <1>3. Len(s) \in 0..Len(s)
    OBVIOUS
  <1>4. f[Len(s)] \in Seq(Seq(V)) \ {<<>>} /\ Split(s, S) = f[Len(s)]
    BY <1>1, <1>3 DEF SplitsUpTo
  <1>5. h[Len(s)] \in Seq(V) /\ Without(s, S) = h[Len(s)]
    BY <1>2, <1>3 DEF KeepsUpTo
  <1> QED
    BY <1>4, <1>5

-----------------------------------------------------------------------------
(* What is spooled is a text, and what is parsed of it.                    *)

Obeys(call) ==
  \/ call.command # "spool" /\ call.task = NoTask
  \/ call.command = "spool" /\ call.text \in Texts /\ call.task = ParseTask(call.text)

LEMMA CallObeys ==
  ASSUME NEW s \in Texts, NEW call \in CallsFor(s)
  PROVE  Obeys(call)
  <1>1. ASSUME NEW name, name # "spool" PROVE Obeys(Call(name))
    BY <1>1 DEF Obeys, Call
  <1>2. ASSUME NEW text \in Texts PROVE Obeys(Create(text))
    <2>1. Create(text).command = "spool" /\ Create(text).text = text
      BY DEF Create, Call
    <2>2. Create(text).task = ParseTask(text)
      BY DEF Create, Call
    <2> QED
      BY <2>1, <2>2 DEF Obeys
  <1>3. ASSUME NEW r \in JobCalls(s) PROVE Obeys(r)
    <2>1. PICK name \in JobCommands :
            r \in {[Call(name) EXCEPT !.id = n] : n \in JobIds(name, s) \ {-1}}
      BY <1>3 DEF JobCalls
    <2>2. PICK n \in JobIds(name, s) : r = [Call(name) EXCEPT !.id = n]
      BY <2>1
    <2>3. name # "spool"
      BY DEF JobCommands
    <2>4. r.command = name /\ r.task = NoTask
      BY <2>2 DEF Call
    <2> QED
      BY <2>3, <2>4 DEF Obeys
  <1>4. ASSUME SecondWord("spool", s) # <<>>, NEW r \in Spool(s) PROVE Obeys(r)
    <2>1. Begins("spool", s)
      BY <1>4 DEF SecondWord
    <2>2. 2 \in 1..Len(s) + 1 /\ Len(s) \in Nat
      BY <2>1 DEF Begins, Texts
    <2>3. PICK i \in 2..Len(s) + 1 : i = SkipSpaces(s, 2)
      BY <2>2, SkipSpacesIs
    <2>4. SubSeq(s, i, Len(s)) \in Texts
      <3>1. i \in Int /\ Len(s) \in Int /\ \A k \in i..Len(s) : s[k] \in Pieces
        BY <2>2, <2>3 DEF Texts
      <3> QED
        BY <3>1, SubSeqProperties DEF Texts
    <2>5. PICK text \in Texts : text = SecondWord("spool", s)
      BY <2>1, <2>3, <2>4 DEF SecondWord
    <2>6. Split(text, {"'"}) \in Seq(Texts)
      BY SplitType DEF Texts
    <2>7. PICK tokens \in Seq(Texts) : tokens = Tokens(text)
      BY <2>6, SplitType DEF Tokens
    <2>8. r \in SpoolTokens(tokens)
      BY <1>4, <2>5, <2>7 DEF Spool
    <2>9. tokens # <<>> => tokens[1] \in Texts
      OBVIOUS
    <2> QED
      BY <1>1, <1>2, <2>8, <2>9 DEF SpoolTokens
  <1>5. ASSUME NEW name \in SimpleCommands PROVE name # "spool"
    BY DEF SimpleCommands
  <1>6. \/ call \in {Call("none")}
        \/ \E name \in SimpleCommands : call = Call(name)
        \/ SecondWord("spool", s) # <<>> /\ call \in Spool(s)
        \/ call \in JobCalls(s)
        \/ call \in {Call("unrecognized")}
    BY DEF CallsFor
  <1> QED
    BY <1>1, <1>3, <1>4, <1>5, <1>6

TaskInv == LInv /\ Obeys(did)

LEMMA TaskInvInit == Init => TaskInv
  BY LInvInit DEF Init, TaskInv, Obeys, Call

LEMMA TaskInvNext ==
  ASSUME TaskInv, [Next]_vars
  PROVE  TaskInv'
  <1>1. LInv'
    BY LInvNext DEF TaskInv
  <1>2. CASE Dispatch
    <2>1. buf \in Seq(STRING)
      BY DEF TaskInv, LInv, BufferTyped
    <2>2. buf \in Texts
      BY <2>1 DEF Texts, Pieces
    <2>3. did' \in CallsFor(buf)
      BY <1>2 DEF Dispatch
    <2>4. PICK call \in CallsFor(buf) : call = did'
      BY <2>3
    <2>5. Obeys(call)
      BY <2>2, CallObeys
    <2> QED
      BY <1>1, <2>4, <2>5 DEF TaskInv, Obeys
  <1>3. CASE UNCHANGED did
    BY <1>1, <1>3 DEF TaskInv, Obeys
  <1> QED
    BY <1>2, <1>3 DEF Next, vars, ReadEof, ReadNewline, ReadPiece, ReallocFails

\* What unparse_task prints of a task that was spooled is parsed to the same task again,
\* whatever was typed: what the status of a job shows is what will be run.
THEOREM CommandLineRoundTrip == Spec => []RoundTrip
  <1>1. TaskInv => RoundTrip
    <2> SUFFICES ASSUME TaskInv, did.task # NoTask
                 PROVE  ParseTask(UnparseTask(did.task)) = did.task
      BY DEF RoundTrip
    <2>1. did.text \in Texts /\ did.task = ParseTask(did.text)
      BY DEF TaskInv, Obeys
    <2>2. PICK text \in Seq(Pieces) : text = did.text
      BY <2>1 DEF Texts
    <2>3. PICK t \in Seq(PipelineSet) : t = did.task
      BY <2>1, <2>2, ParseTaskIs
    <2>4. t # <<>>
      BY <2>3 DEF NoTask
    <2> QED
      BY <2>3, <2>4, ParsesPrinted
  <1> QED
    BY <1>1, TaskInvInit, TaskInvNext, PTL DEF Spec

-----------------------------------------------------------------------------
(* What the grammar makes of a text is laid out in it.                     *)

\* no element of S is in s from a to e
Free(s, a, e, S) == \A k \in a..e - 1 : s[k] \notin S

\* From b to d are the parts with the signs between them: part k is start[k] to to[k].
Divided(s, b, d, S, parts, signs, start, to) ==
  /\ parts \in Seq(Texts) /\ parts # <<>>
  /\ signs \in Seq(Pieces) /\ Len(signs) = Len(parts) - 1
  /\ start \in [1..Len(parts) -> 1..Len(s) + 1] /\ to \in [1..Len(parts) -> 1..Len(s) + 1]
  /\ start[1] = b /\ to[Len(parts)] = d
  /\ \A k \in 1..Len(parts) :
       /\ b <= start[k] /\ start[k] <= to[k] /\ to[k] <= d /\ to[k] = start[k] + Len(parts[k])
       /\ Spelled(s, start[k], parts[k]) /\ Free(s, start[k], to[k], S)
       /\ k + 1 \in 1..Len(parts) =>
            to[k] < d /\ s[to[k]] \in S /\ start[k + 1] = to[k] + 1 /\ signs[k] = s[to[k]]

IsDivided(s, b, d, S, parts, signs) == \E start, to : Divided(s, b, d, S, parts, signs, start, to)

\* A sign ends the last part and begins an empty one.
LEMMA DividedAtSign ==
  ASSUME NEW s \in Texts, NEW b \in 1..Len(s) + 1, NEW d \in 1..Len(s), NEW S, NEW parts, NEW signs,
         IsDivided(s, b, d, S, parts, signs), s[d] \in S
  PROVE  IsDivided(s, b, d + 1, S, Append(parts, <<>>), Append(signs, s[d]))
  <1>1. PICK start0, to0 : Divided(s, b, d, S, parts, signs, start0, to0)
    BY DEF IsDivided
  <1>2. PICK n : n = Len(parts)
    OBVIOUS
  <1>3. /\ parts \in Seq(Texts) /\ parts # <<>> /\ signs \in Seq(Pieces) /\ Len(signs) = n - 1
        /\ start0 \in [1..n -> 1..Len(s) + 1] /\ to0 \in [1..n -> 1..Len(s) + 1]
        /\ start0[1] = b /\ to0[n] = d
        /\ \A k \in 1..n :
             /\ b <= start0[k] /\ start0[k] <= to0[k] /\ to0[k] <= d /\ to0[k] = start0[k] + Len(parts[k])
             /\ Spelled(s, start0[k], parts[k]) /\ Free(s, start0[k], to0[k], S)
             /\ k + 1 \in 1..n =>
                  to0[k] < d /\ s[to0[k]] \in S /\ start0[k + 1] = to0[k] + 1 /\ signs[k] = s[to0[k]]
    BY <1>1, <1>2 DEF Divided
  <1>4. n \in Nat /\ n >= 1 /\ Len(s) \in Nat /\ d \in Nat /\ s[d] \in Pieces /\ <<>> \in Texts
    <2>1. n \in Nat /\ n # 0
      BY <1>2, <1>3
    <2>2. Len(s) \in Nat /\ s[d] \in Pieces /\ <<>> \in Texts
      BY DEF Texts
    <2> QED
      BY <2>1, <2>2
  <1>5. PICK x \in Pieces : x = s[d]
    BY <1>4
  <1>6. PICK w \in Texts : w = <<>>
    BY <1>4
  <1>7. PICK ps : ps = Append(parts, w)
    OBVIOUS
  <1>8. PICK sg : sg = Append(signs, x)
    OBVIOUS
  <1>9. /\ ps \in Seq(Texts) /\ ps # <<>> /\ Len(ps) = n + 1 /\ ps[n + 1] = w
        /\ \A k \in 1..n : ps[k] = parts[k]
    BY <1>2, <1>3, <1>7, AppendProperties
  <1>10. /\ sg \in Seq(Pieces) /\ Len(sg) = n /\ sg[n] = x
         /\ \A k \in 1..n - 1 : sg[k] = signs[k]
    <2>1. /\ sg \in Seq(Pieces) /\ Len(sg) = Len(signs) + 1 /\ sg[Len(signs) + 1] = x
          /\ \A k \in 1..Len(signs) : sg[k] = signs[k]
      BY <1>3, <1>8, AppendProperties
    <2>2. n - 1 + 1 = n
      BY <1>4
    <2> QED
      BY <1>3, <2>1, <2>2
  <1> DEFINE start == [k \in 1..n + 1 |-> IF k = n + 1 THEN d + 1 ELSE start0[k]]
             to == [k \in 1..n + 1 |-> IF k = n + 1 THEN d + 1 ELSE to0[k]]
  <1>11. /\ start[n + 1] = d + 1 /\ to[n + 1] = d + 1 /\ DOMAIN start = 1..n + 1 /\ DOMAIN to = 1..n + 1
         /\ \A k \in 1..n : start[k] = start0[k] /\ to[k] = to0[k]
    BY <1>4
  <1>12. start \in [1..n + 1 -> 1..Len(s) + 1] /\ to \in [1..n + 1 -> 1..Len(s) + 1]
    <2>1. d + 1 \in 1..Len(s) + 1
      BY <1>4
    <2>2. \A k \in 1..n + 1 : k = n + 1 \/ k \in 1..n
      BY <1>4
    <2> QED
      BY <1>3, <2>1, <2>2
  <1> HIDE DEF start, to
  <1>13. ASSUME NEW k \in 1..n + 1
         PROVE  /\ start[k] <= to[k] /\ to[k] = start[k] + Len(ps[k])
                /\ Spelled(s, start[k], ps[k]) /\ Free(s, start[k], to[k], S)
                /\ b <= start[k] /\ to[k] <= d + 1 /\ (k + 1 \in 1..n + 1 => to[k] < d + 1)
                /\ k + 1 \in 1..n + 1 =>
                     s[to[k]] \in S /\ start[k + 1] = to[k] + 1 /\ sg[k] = s[to[k]]
    <2>1. CASE k = n + 1
      <3>1. start[k] = d + 1 /\ to[k] = d + 1 /\ Len(ps[k]) = 0 /\ k + 1 \notin 1..n + 1
        BY <1>4, <1>6, <1>9, <1>11, <2>1
      <3>2. Spelled(s, start[k], ps[k])
        BY <1>4, <3>1 DEF Spelled
      <3>3. Free(s, start[k], to[k], S)
        BY <1>4, <3>1 DEF Free
      <3>4. start[k] <= to[k] /\ to[k] = start[k] + Len(ps[k]) /\ to[k] <= d + 1
        BY <1>4, <3>1
      <3>5. b <= start[k]
        <4>1. b <= start0[n] /\ start0[n] <= d /\ start0[n] \in Nat
          BY <1>3, <1>4
        <4> QED
          BY <1>4, <3>1, <4>1
      <3> QED
        BY <3>1, <3>2, <3>3, <3>4, <3>5
    <2>2. CASE k \in 1..n
      <3>1. start[k] = start0[k] /\ to[k] = to0[k] /\ ps[k] = parts[k]
        BY <1>9, <1>11, <2>2
      <3>2. /\ start[k] <= to[k] /\ to[k] = start[k] + Len(ps[k])
            /\ Spelled(s, start[k], ps[k]) /\ Free(s, start[k], to[k], S)
        BY <1>3, <2>2, <3>1
      <3>5. b <= start[k] /\ to[k] <= d + 1 /\ to[k] < d + 1
        <4>1. b <= start0[k] /\ to0[k] <= d /\ to0[k] \in Nat
          BY <1>3, <2>2, SMTT(30)
        <4> QED
          BY <1>4, <3>1, <4>1
      <3>3. CASE k = n
        <4>1. to[k] = d /\ start[k + 1] = d + 1 /\ sg[k] = s[d]
          BY <1>3, <1>5, <1>10, <1>11, <3>1, <3>3
        <4> QED
          BY <3>2, <3>5, <4>1
      <3>4. CASE k # n
        <4>1. k + 1 \in 1..n /\ k \in 1..n - 1
          BY <1>4, <2>2, <3>4
        <4>2. start[k + 1] = start0[k + 1] /\ sg[k] = signs[k]
          BY <1>10, <1>11, <4>1
        <4> QED
          BY <1>3, <2>2, <3>1, <3>2, <3>5, <4>1, <4>2
      <3> QED
        BY <3>3, <3>4
    <2> QED
      BY <1>4, <2>1, <2>2
  <1>14. start[1] = b /\ to[n + 1] = d + 1
    BY <1>3, <1>4, <1>11
  <1>15. n = n + 1 - 1
    BY <1>4
  <1>16. PICK m : m = Len(ps)
    OBVIOUS
  <1>17. m = n + 1 /\ Len(sg) = m - 1
    BY <1>9, <1>10, <1>15, <1>16
  <1>18. /\ start \in [1..m -> 1..Len(s) + 1] /\ to \in [1..m -> 1..Len(s) + 1]
         /\ start[1] = b /\ to[m] = d + 1
    BY <1>12, <1>14, <1>17
  <1>19. \A k \in 1..m :
           /\ start[k] <= to[k] /\ to[k] = start[k] + Len(ps[k])
           /\ Spelled(s, start[k], ps[k]) /\ Free(s, start[k], to[k], S)
           /\ b <= start[k] /\ to[k] <= d + 1 /\ (k + 1 \in 1..m => to[k] < d + 1)
           /\ k + 1 \in 1..m => s[to[k]] \in S /\ start[k + 1] = to[k] + 1 /\ sg[k] = s[to[k]]
    BY <1>13, <1>17
  <1>20. Divided(s, b, d + 1, S, ps, sg, start, to)
    BY <1>9, <1>10, <1>16, <1>17, <1>18, <1>19 DEF Divided
  <1> QED
    BY <1>5, <1>6, <1>7, <1>8, <1>20 DEF IsDivided

\* What is no sign lengthens the last part.
LEMMA DividedFurther ==
  ASSUME NEW s \in Texts, NEW b \in 1..Len(s) + 1, NEW d \in 1..Len(s), NEW S, NEW parts, NEW signs,
         IsDivided(s, b, d, S, parts, signs), s[d] \notin S
  PROVE  IsDivided(s, b, d + 1, S, Append(Front(parts), Append(Last(parts), s[d])), signs)
  <1>1. PICK start, to0 : Divided(s, b, d, S, parts, signs, start, to0)
    BY DEF IsDivided
  <1>2. PICK n : n = Len(parts)
    OBVIOUS
  <1>3. /\ parts \in Seq(Texts) /\ parts # <<>> /\ signs \in Seq(Pieces) /\ Len(signs) = n - 1
        /\ start \in [1..n -> 1..Len(s) + 1] /\ to0 \in [1..n -> 1..Len(s) + 1]
        /\ start[1] = b /\ to0[n] = d
        /\ \A k \in 1..n :
             /\ b <= start[k] /\ start[k] <= to0[k] /\ to0[k] <= d /\ to0[k] = start[k] + Len(parts[k])
             /\ Spelled(s, start[k], parts[k]) /\ Free(s, start[k], to0[k], S)
             /\ k + 1 \in 1..n =>
                  to0[k] < d /\ s[to0[k]] \in S /\ start[k + 1] = to0[k] + 1 /\ signs[k] = s[to0[k]]
    BY <1>1, <1>2 DEF Divided
  <1>4. n \in Nat /\ n >= 1 /\ Len(s) \in Nat /\ d \in Nat /\ s[d] \in Pieces
    <2>1. n \in Nat /\ n # 0
      BY <1>2, <1>3
    <2>2. Len(s) \in Nat /\ s[d] \in Pieces
      BY DEF Texts
    <2> QED
      BY <2>1, <2>2
  <1>5. PICK x \in Pieces : x = s[d]
    BY <1>4
  <1>6. PICK last \in Texts : last = parts[n]
    BY <1>2, <1>3, <1>4
  <1>7. PICK w : w = Append(last, x)
    OBVIOUS
  <1>8. /\ w \in Texts /\ Len(w) = Len(last) + 1 /\ w[Len(last) + 1] = x /\ Len(last) \in Nat
        /\ \A k \in 1..Len(last) : w[k] = last[k]
    BY <1>7, AppendProperties DEF Texts
  <1>9. PICK front : front = Front(parts)
    OBVIOUS
  <1>10. front \in Seq(Texts) /\ Len(front) = n - 1 /\ \A k \in 1..n - 1 : front[k] = parts[k]
    <2>1. front = SubSeq(parts, 1, n - 1)
      BY <1>2, <1>9 DEF Front
    <2>2. 1 \in Int /\ n - 1 \in Int /\ \A k \in 1..n - 1 : parts[k] \in Texts
      BY <1>2, <1>3, <1>4
    <2>3. /\ front \in Seq(Texts) /\ Len(front) = IF 1 <= n - 1 THEN n - 1 - 1 + 1 ELSE 0
          /\ \A k \in 1..n - 1 - 1 + 1 : front[k] = parts[1 + k - 1]
      BY <2>1, <2>2, SubSeqProperties
    <2>4. (IF 1 <= n - 1 THEN n - 1 - 1 + 1 ELSE 0) = n - 1 /\ n - 1 - 1 + 1 = n - 1
      BY <1>4
    <2>5. \A k \in 1..n - 1 : 1 + k - 1 = k
      BY <1>4
    <2> QED
      BY <2>3, <2>4, <2>5
  <1>11. PICK ps : ps = Append(front, w)
    OBVIOUS
  <1>12. /\ ps \in Seq(Texts) /\ ps # <<>> /\ Len(ps) = n /\ ps[n] = w
         /\ \A k \in 1..n - 1 : ps[k] = parts[k]
    <2>1. /\ ps \in Seq(Texts) /\ ps # <<>> /\ Len(ps) = n - 1 + 1 /\ ps[n - 1 + 1] = w
          /\ \A k \in 1..n - 1 : ps[k] = front[k]
      BY <1>8, <1>10, <1>11, AppendProperties
    <2>2. n - 1 + 1 = n
      BY <1>4
    <2> QED
      BY <1>10, <2>1, <2>2
  <1> DEFINE to == [k \in 1..n |-> IF k = n THEN d + 1 ELSE to0[k]]
  <1>13. to[n] = d + 1 /\ DOMAIN to = 1..n /\ \A k \in 1..n : k # n => to[k] = to0[k]
    BY <1>4
  <1>14. to \in [1..n -> 1..Len(s) + 1]
    <2>1. d + 1 \in 1..Len(s) + 1
      BY <1>4
    <2> QED
      BY <1>3, <2>1
  <1> HIDE DEF to
  <1>15. ASSUME NEW k \in 1..n
         PROVE  /\ start[k] <= to[k] /\ to[k] = start[k] + Len(ps[k])
                /\ Spelled(s, start[k], ps[k]) /\ Free(s, start[k], to[k], S)
                /\ b <= start[k] /\ to[k] <= d + 1 /\ (k + 1 \in 1..n => to[k] < d + 1)
                /\ k + 1 \in 1..n =>
                     s[to[k]] \in S /\ start[k + 1] = to[k] + 1 /\ signs[k] = s[to[k]]
    <2>1. CASE k = n
      <3>0. PICK a \in 1..Len(s) + 1 : a = start[n]
        BY <1>3, <1>4
      <3>1. a <= d /\ d = a + Len(last) /\ Spelled(s, a, last) /\ Free(s, a, d, S)
        BY <1>3, <1>4, <1>6, <3>0
      <3>2. b <= a /\ a <= d + 1 /\ d + 1 = a + Len(w)
        <4>1. b <= a
          BY <1>3, <1>4, <3>0
        <4> QED
          BY <1>4, <1>8, <3>1, <4>1
      <3>3. Spelled(s, a, w)
        <4>1. ASSUME NEW j \in 1..Len(w) PROVE s[a + j - 1] = w[j]
          <5>1. CASE j = Len(last) + 1
            <6>1. a + j - 1 = d
              BY <1>8, <3>1, <5>1
            <6> QED
              BY <1>5, <1>8, <5>1, <6>1
          <5>2. CASE j \in 1..Len(last)
            BY <1>8, <3>1, <5>2 DEF Spelled
          <5> QED
            BY <1>8, <5>1, <5>2
        <4>2. a + Len(w) <= Len(s) + 1
          BY <1>4, <3>2
        <4> QED
          BY <4>1, <4>2 DEF Spelled
      <3>4. Free(s, a, d + 1, S)
        <4>1. \A j \in a..d + 1 - 1 : j = d \/ j \in a..d - 1
          BY <1>4
        <4> QED
          BY <3>1, <4>1 DEF Free
      <3>5. k + 1 \notin 1..n
        BY <1>4, <2>1
      <3> QED
        <4>1. start[k] = a /\ to[k] = d + 1 /\ ps[k] = w /\ d + 1 <= d + 1
          BY <1>4, <1>12, <1>13, <2>1, <3>0
        <4> QED
          BY <3>2, <3>3, <3>4, <3>5, <4>1
    <2>2. CASE k # n
      <3>1. k \in 1..n - 1
        BY <1>4, <2>2
      <3>2. to[k] = to0[k] /\ ps[k] = parts[k]
        BY <1>12, <1>13, <2>2, <3>1
      <3>3. to0[k] <= d /\ to0[k] \in Nat /\ (k + 1 \in 1..n => to0[k] < d)
        BY <1>3
      <3>4. to[k] <= d + 1 /\ (k + 1 \in 1..n => to[k] < d + 1)
        BY <1>4, <3>2, <3>3
      <3> QED
        BY <1>3, <3>2, <3>4
    <2> QED
      BY <2>1, <2>2
  <1>16. Divided(s, b, d + 1, S, ps, signs, start, to)
    BY <1>3, <1>12, <1>13, <1>14, <1>15 DEF Divided
  <1>17. ps = Append(Front(parts), Append(Last(parts), s[d]))
    BY <1>2, <1>5, <1>6, <1>7, <1>9, <1>11 DEF Last
  <1> QED
    BY <1>16, <1>17 DEF IsDivided

LEMMA NotDivided ==
  ASSUME NEW s \in Texts, NEW b \in 1..Len(s) + 1, NEW S
  PROVE  IsDivided(s, b, b, S, << <<>> >>, <<>>)
  <1>0. <<>> \in Texts
    BY DEF Texts
  <1>1. PICK w \in Texts : w = <<>>
    BY <1>0
  <1>2. Len(w) = 0 /\ Len(s) \in Nat
    BY <1>1 DEF Texts
  <1>3. PICK ps : ps = <<w>>
    OBVIOUS
  <1>4. ps \in Seq(Texts) /\ Len(ps) = 1 /\ ps[1] = w /\ ps # <<>>
    <2>1. ps \in Seq(Texts) /\ Len(ps) = 1 /\ ps[1] = w
      BY <1>3
    <2>2. <<w>> # <<>>
      OBVIOUS
    <2> QED
      BY <1>3, <2>1, <2>2
  <1>5. PICK sg : sg = <<>>
    OBVIOUS
  <1>6. sg \in Seq(Pieces) /\ Len(sg) = 1 - 1
    BY <1>5
  <1> DEFINE start == [k \in 1..1 |-> b]
  <1>7. start \in [1..1 -> 1..Len(s) + 1] /\ start[1] = b
    OBVIOUS
  <1> HIDE DEF start
  <1>8. ASSUME NEW k \in 1..1
        PROVE  /\ start[k] <= start[k] /\ start[k] = start[k] + Len(ps[k])
               /\ Spelled(s, start[k], ps[k]) /\ Free(s, start[k], start[k], S)
               /\ b <= start[k] /\ start[k] <= b
               /\ k + 1 \notin 1..1
    <2>1. k = 1 /\ start[k] = b /\ ps[k] = w
      BY <1>4, <1>7
    <2>2. Spelled(s, b, w) /\ Free(s, b, b, S)
      BY <1>2 DEF Spelled, Free
    <2> QED
      BY <1>2, <2>1, <2>2
  <1>9. PICK m : m = Len(ps)
    OBVIOUS
  <1>10. m = 1
    BY <1>4, <1>9
  <1>11. Divided(s, b, b, S, ps, sg, start, start)
    BY <1>4, <1>6, <1>7, <1>8, <1>9, <1>10 DEF Divided
  <1> QED
    BY <1>1, <1>3, <1>5, <1>11 DEF IsDivided

\* What is split is divided, and the signs between the parts are what is split at.
LEMMA Divides ==
  ASSUME NEW s \in Texts, NEW b \in 1..Len(s) + 1, NEW u \in Texts, Spelled(s, b, u), NEW S
  PROVE  IsDivided(s, b, b + Len(u), S, Split(u, S), Without(u, ToSet(u) \ S))
  <1>0. u \in Seq(Pieces)
    BY DEF Texts
  <1>1. PICK f : SplitsUpTo(u, S, Pieces, f)
    BY <1>0, SplitIs
  <1>2. PICK R : R = ToSet(u) \ S
    OBVIOUS
  <1>3. PICK h : KeepsUpTo(u, R, Pieces, h)
    BY <1>0, KeepsIs
  <1>4. PICK N : N = Len(u)
    OBVIOUS
  <1>5. /\ N \in Nat /\ Len(s) \in Nat /\ b + N <= Len(s) + 1 /\ b \in Nat
        /\ \A n \in 1..N : s[b + n - 1] = u[n] /\ u[n] \in Pieces /\ (u[n] \in R <=> u[n] \notin S)
    <2>1. N \in Nat /\ Len(s) \in Nat /\ b \in Nat
      BY <1>0, <1>4 DEF Texts
    <2>2. b + N <= Len(s) + 1 /\ \A n \in 1..N : s[b + n - 1] = u[n]
      BY <1>4 DEF Spelled
    <2>3. \A n \in 1..N : u[n] \in Pieces /\ u[n] \in ToSet(u)
      BY <1>0, <1>4 DEF ToSet
    <2> QED
      BY <1>2, <2>1, <2>2, <2>3
  <1>6. /\ f[0] = << <<>> >> /\ h[0] = <<>> /\ Split(u, S) = f[N] /\ Without(u, R) = h[N]
        /\ \A n \in 1..N :
             /\ u[n] \in S => f[n] = Append(f[n - 1], <<>>) /\ h[n] = Append(h[n - 1], u[n])
             /\ u[n] \notin S => /\ f[n] = Append(Front(f[n - 1]), Append(Last(f[n - 1]), u[n]))
                                 /\ h[n] = h[n - 1]
    <2>1. /\ f[0] = << <<>> >> /\ Split(u, S) = f[N]
          /\ \A n \in 1..N :
               /\ u[n] \in S => f[n] = Append(f[n - 1], <<>>)
               /\ u[n] \notin S => f[n] = Append(Front(f[n - 1]), Append(Last(f[n - 1]), u[n]))
      BY <1>1, <1>4 DEF SplitsUpTo
    <2>2. /\ h[0] = <<>> /\ Without(u, R) = h[N]
          /\ \A n \in 1..N : /\ u[n] \in R => h[n] = h[n - 1]
                             /\ u[n] \notin R => h[n] = Append(h[n - 1], u[n])
      BY <1>3, <1>4 DEF KeepsUpTo
    <2> QED
      BY <1>5, <2>1, <2>2
  <1> DEFINE T == {n \in 0..N : IsDivided(s, b, b + n, S, f[n], h[n])}
  <1>7. 0 \in T
    <2>1. IsDivided(s, b, b, S, f[0], h[0])
      BY <1>6, NotDivided
    <2>2. b + 0 = b /\ 0 \in 0..N
      BY <1>5
    <2> QED
      BY <2>1, <2>2
  <1>8. ASSUME NEW n \in 0..N - 1, n \in T PROVE n + 1 \in T
    <2>1. PICK m \in 1..N : m = n + 1
      BY <1>5
    <2>2. PICK d \in 1..Len(s) : d = b + n
      BY <1>5
    <2>3. m - 1 = n /\ b + m - 1 = d /\ d + 1 = b + m /\ m \in 0..N
      BY <1>5, <2>1, <2>2
    <2>4. PICK p : p = f[n]
      OBVIOUS
    <2>5. PICK q : q = h[n]
      OBVIOUS
    <2>6. IsDivided(s, b, d, S, p, q)
      BY <1>8, <2>2, <2>4, <2>5
    <2>7. u[m] = s[d]
      BY <1>5, <2>3
    <2>8. IsDivided(s, b, d + 1, S, f[m], h[m])
      <3>1. CASE s[d] \in S
        <4>1. f[m] = Append(p, <<>>) /\ h[m] = Append(q, s[d])
          BY <1>6, <2>3, <2>4, <2>5, <2>7, <3>1
        <4>2. IsDivided(s, b, d + 1, S, Append(p, <<>>), Append(q, s[d]))
          BY <2>6, <3>1, DividedAtSign
        <4> QED
          BY <4>1, <4>2
      <3>2. CASE s[d] \notin S
        <4>1. f[m] = Append(Front(p), Append(Last(p), s[d])) /\ h[m] = q
          BY <1>6, <2>3, <2>4, <2>5, <2>7, <3>2
        <4>2. IsDivided(s, b, d + 1, S, Append(Front(p), Append(Last(p), s[d])), q)
          BY <2>6, <3>2, DividedFurther
        <4> QED
          BY <4>1, <4>2
      <3> QED
        BY <3>1, <3>2
    <2> QED
      BY <2>1, <2>3, <2>8
  <1>9. 0..N \subseteq T
    <2> HIDE DEF T
    <2> QED
      BY <1>5, <1>7, <1>8, BoundedInduction
  <1>10. IsDivided(s, b, b + N, S, f[N], h[N])
    BY <1>5, <1>9
  <1> QED
    BY <1>2, <1>4, <1>6, <1>10

\* What is kept is of the sequence and not of the set, and is nothing where all is of it.
LEMMA Kept ==
  ASSUME NEW V, NEW s \in Seq(V), NEW S
  PROVE  /\ \A k \in 1..Len(Without(s, S)) :
              \E j \in 1..Len(s) : Without(s, S)[k] = s[j] /\ s[j] \notin S
         /\ (\A j \in 1..Len(s) : s[j] \in S) => Without(s, S) = <<>>
         /\ (\E j \in 1..Len(s) : s[j] \notin S) => Without(s, S) # <<>>
  <1>1. PICK h : KeepsUpTo(s, S, V, h)
    BY KeepsIs
  <1>2. PICK N : N = Len(s)
    OBVIOUS
  <1>3. /\ h \in [0..N -> Seq(V)] /\ h[0] = <<>> /\ Without(s, S) = h[N] /\ N \in Nat
        /\ \A n \in 1..N : /\ s[n] \in S => h[n] = h[n - 1]
                           /\ s[n] \notin S => h[n] = Append(h[n - 1], s[n])
        /\ \A n \in 1..N : s[n] \in V
    BY <1>1, <1>2 DEF KeepsUpTo
  <1> DEFINE Come(n) == \A k \in 1..Len(h[n]) : \E j \in 1..N : h[n][k] = s[j] /\ s[j] \notin S
             Nothing(n) == (\A j \in 1..n : s[j] \in S) => h[n] = <<>>
             Something(n) == (\E j \in 1..n : s[j] \notin S) => h[n] # <<>>
             T == {n \in 0..N : Come(n) /\ Nothing(n) /\ Something(n)}
  <1>4. 0 \in T
    BY <1>3
  <1>5. ASSUME NEW n \in 0..N - 1, n \in T PROVE n + 1 \in T
    <2>1. PICK m \in 1..N : m = n + 1
      BY <1>3
    <2>2. m - 1 = n /\ m \in 0..N /\ m \in 1..m
      BY <1>3, <2>1
    <2>3. PICK q \in Seq(V) : q = h[n]
      BY <1>3
    <2>4. Come(n) /\ Nothing(n) /\ Something(n)
      BY <1>5
    <2>5. \A j \in 1..m : j = m \/ j \in 1..n
      BY <1>3, <2>1
    <2>6. \A j \in 1..n : j \in 1..m
      BY <1>3, <2>1
    <2>7. CASE s[m] \in S
      <3>1. h[m] = h[n]
        BY <1>3, <2>2, <2>7
      <3> QED
        BY <2>1, <2>2, <2>4, <2>5, <2>6, <2>7, <3>1
    <2>8. CASE s[m] \notin S
      <3>1. PICK x \in V : x = s[m]
        BY <1>3
      <3>2. PICK r : r = Append(q, x)
        OBVIOUS
      <3>3. h[m] = r
        BY <1>3, <2>2, <2>3, <2>8, <3>1, <3>2
      <3>4. /\ r # <<>> /\ Len(r) = Len(q) + 1 /\ r[Len(q) + 1] = x /\ Len(q) \in Nat
            /\ \A k \in 1..Len(q) : r[k] = q[k]
        BY <3>2, AppendProperties
      <3>5. Come(m)
        <4> SUFFICES ASSUME NEW k \in 1..Len(r)
                     PROVE  \E j \in 1..N : r[k] = s[j] /\ s[j] \notin S
          BY <3>3
        <4>1. CASE k = Len(q) + 1
          BY <2>8, <3>1, <3>4, <4>1
        <4>2. CASE k \in 1..Len(q)
          BY <2>3, <2>4, <3>4, <4>2
        <4> QED
          BY <3>4, <4>1, <4>2
      <3>6. Nothing(m) /\ Something(m)
        BY <2>2, <2>8, <3>3, <3>4
      <3> HIDE DEF Come, Nothing, Something
      <3> QED
        BY <2>1, <2>2, <3>5, <3>6
    <2> QED
      BY <2>7, <2>8
  <1>6. 0..N \subseteq T
    <2> HIDE DEF T
    <2> QED
      BY <1>3, <1>4, <1>5, BoundedInduction
  <1>7. Come(N) /\ Nothing(N) /\ Something(N)
    <2>1. N \in 0..N
      BY <1>3
    <2> HIDE DEF Come, Nothing, Something
    <2> QED
      BY <1>6, <2>1
  <1> QED
    BY <1>2, <1>3, <1>7

LEMMA SpacesJoin ==
  ASSUME NEW s, NEW a \in Nat, NEW b \in Nat, NEW c \in Nat, a <= b, b <= c,
         Spaces(s, a, b), Spaces(s, b, c)
  PROVE  Spaces(s, a, c)
  <1>1. \A k \in a..c - 1 : k \in a..b - 1 \/ k \in b..c - 1
    OBVIOUS
  <1> QED
    BY <1>1 DEF Spaces

LEMMA WordsBeforeSpaces ==
  ASSUME NEW s \in Texts, NEW i, NEW c \in 1..Len(s) + 1, NEW d \in c..Len(s) + 1, NEW ws,
         AreWords(s, i, c, ws), Spaces(s, c, d)
  PROVE  AreWords(s, i, d, ws)
  <1>1. PICK at, to : WordsLaid(s, i, c, ws, at, to)
    BY DEF AreWords
  <1>2. ws \in Seq(Words) /\ to \in [0..Len(ws) -> 1..Len(s) + 1] /\ Len(ws) \in 0..Len(ws)
    <2>1. ws \in Seq(Words) /\ to \in [0..Len(ws) -> 1..Len(s) + 1]
      BY <1>1 DEF WordsLaid
    <2> QED
      BY <2>1
  <1>3. PICK e \in 1..Len(s) + 1 : e = to[Len(ws)]
    BY <1>2
  <1>4. e <= c /\ Spaces(s, e, c)
    BY <1>1, <1>3 DEF WordsLaid
  <1>5. Len(s) \in Nat /\ e \in Nat /\ c \in Nat /\ d \in Nat /\ c <= d /\ e <= d
    BY <1>4 DEF Texts
  <1>6. Spaces(s, e, d)
    BY <1>4, <1>5, SpacesJoin
  <1>7. WordsLaid(s, i, d, ws, at, to)
    BY <1>1, <1>3, <1>5, <1>6 DEF WordsLaid
  <1> QED
    BY <1>7 DEF AreWords

\* A word that follows, behind spaces if it is not the first.
LEMMA WordFollows ==
  ASSUME NEW s \in Texts, NEW i, NEW c \in 1..Len(s) + 1, NEW a \in c..Len(s) + 1, NEW ws,
         AreWords(s, i, c, ws), Spaces(s, c, a), ws # <<>> => c < a,
         NEW w \in Words, NEW e \in a..Len(s) + 1, e = a + Len(w), Spelled(s, a, w)
  PROVE  AreWords(s, i, e, Append(ws, w))
  <1>1. PICK at0, to0 : WordsLaid(s, i, c, ws, at0, to0)
    BY DEF AreWords
  <1>2. PICK n : n = Len(ws)
    OBVIOUS
  <1>3. /\ ws \in Seq(Words)
        /\ at0 \in [1..n -> 1..Len(s) + 1] /\ to0 \in [0..n -> 1..Len(s) + 1]
        /\ to0[0] = i /\ to0[n] <= c /\ Spaces(s, to0[n], c)
        /\ \A k \in 1..n :
             /\ to0[k - 1] <= at0[k] /\ Spaces(s, to0[k - 1], at0[k])
             /\ k > 1 => to0[k - 1] < at0[k]
             /\ to0[k] = at0[k] + Len(ws[k]) /\ Spelled(s, at0[k], ws[k])
    BY <1>1, <1>2 DEF WordsLaid
  <1>4. n \in Nat /\ Len(s) \in Nat /\ a \in Nat /\ c \in Nat /\ e \in Nat /\ (n # 0 => ws # <<>>)
    <2>1. n \in Nat /\ Len(s) \in Nat /\ (n # 0 => ws # <<>>)
      BY <1>2, <1>3 DEF Texts
    <2> QED
      BY <2>1
  <1>5. PICK vs : vs = Append(ws, w)
    OBVIOUS
  <1>6. /\ vs \in Seq(Words) /\ Len(vs) = n + 1 /\ vs[n + 1] = w
        /\ \A k \in 1..n : vs[k] = ws[k]
    BY <1>2, <1>3, <1>5, AppendProperties
  <1> DEFINE at == [k \in 1..n + 1 |-> IF k = n + 1 THEN a ELSE at0[k]]
             to == [k \in 0..n + 1 |-> IF k = n + 1 THEN e ELSE to0[k]]
  <1>7. /\ at[n + 1] = a /\ to[n + 1] = e /\ DOMAIN at = 1..n + 1 /\ DOMAIN to = 0..n + 1
        /\ \A k \in 1..n : at[k] = at0[k]
        /\ \A k \in 0..n : to[k] = to0[k]
    BY <1>4
  <1>8. at \in [1..n + 1 -> 1..Len(s) + 1] /\ to \in [0..n + 1 -> 1..Len(s) + 1]
    <2>1. a \in 1..Len(s) + 1 /\ e \in 1..Len(s) + 1
      BY <1>4
    <2>2. \A k \in 1..n + 1 : k = n + 1 \/ k \in 1..n
      BY <1>4
    <2>3. \A k \in 0..n + 1 : k = n + 1 \/ k \in 0..n
      BY <1>4
    <2> QED
      BY <1>3, <2>1, <2>2, <2>3
  <1> HIDE DEF at, to
  <1>9. PICK z \in 1..Len(s) + 1 : z = to0[n]
    BY <1>3, <1>4
  <1>10. z <= c /\ c <= a /\ Spaces(s, z, a) /\ z <= a /\ (n # 0 => z < a)
    <2>1. z \in Nat /\ z <= c /\ c <= a /\ Spaces(s, z, c)
      BY <1>3, <1>4, <1>9
    <2>2. Spaces(s, z, a)
      BY <1>4, <2>1, SpacesJoin
    <2> QED
      BY <1>4, <2>1, <2>2
  <1>11. ASSUME NEW k \in 1..n + 1
         PROVE  /\ to[k - 1] <= at[k] /\ Spaces(s, to[k - 1], at[k])
                /\ k > 1 => to[k - 1] < at[k]
                /\ to[k] = at[k] + Len(vs[k]) /\ Spelled(s, at[k], vs[k])
    <2>1. CASE k = n + 1
      <3>1. k - 1 = n /\ n \in 0..n /\ (k > 1 => n # 0)
        BY <1>4, <2>1
      <3>2. to[k - 1] = z /\ at[k] = a /\ to[k] = e /\ vs[k] = w
        BY <1>6, <1>7, <1>9, <2>1, <3>1
      <3> QED
        BY <1>10, <3>1, <3>2
    <2>2. CASE k \in 1..n
      <3>1. k - 1 \in 0..n /\ k \in 0..n
        BY <1>4, <2>2
      <3>2. to[k - 1] = to0[k - 1] /\ at[k] = at0[k] /\ to[k] = to0[k] /\ vs[k] = ws[k]
        BY <1>6, <1>7, <2>2, <3>1
      <3> QED
        BY <1>3, <2>2, <3>2
    <2> QED
      BY <1>4, <2>1, <2>2
  <1>12. to[0] = i
    BY <1>3, <1>4, <1>7
  <1>13. Spaces(s, e, e) /\ e <= e
    BY <1>4 DEF Spaces
  <1>14. PICK m : m = Len(vs)
    OBVIOUS
  <1>15. m = n + 1
    BY <1>6, <1>14
  <1>16. WordsLaid(s, i, e, vs, at, to)
    BY <1>6, <1>7, <1>8, <1>11, <1>12, <1>13, <1>14, <1>15 DEF WordsLaid
  <1> QED
    BY <1>5, <1>16 DEF AreWords

LEMMA NoWords ==
  ASSUME NEW s \in Texts, NEW b \in 1..Len(s) + 1
  PROVE  AreWords(s, b, b, <<>>)
  <1>1. PICK ws : ws = <<>>
    OBVIOUS
  <1>2. ws \in Seq(Words) /\ Len(ws) = 0 /\ b \in Nat
    BY <1>1 DEF Texts
  <1> DEFINE at == [k \in 1..0 |-> b]
             to == [k \in 0..0 |-> b]
  <1>3. at \in [1..0 -> 1..Len(s) + 1] /\ to \in [0..0 -> 1..Len(s) + 1] /\ to[0] = b
    OBVIOUS
  <1>4. Spaces(s, b, b) /\ b <= b /\ \A k \in 1..0 : FALSE
    BY <1>2 DEF Spaces
  <1> HIDE DEF at, to
  <1>5. WordsLaid(s, b, b, ws, at, to)
    BY <1>2, <1>3, <1>4 DEF WordsLaid
  <1> QED
    BY <1>1, <1>5 DEF AreWords

Boundaries == {Space} \cup Delimiters

LEMMA WordFound ==
  ASSUME NEW s \in Texts, NEW a \in 1..Len(s) + 1, NEW w \in Texts, w # <<>>,
         Spelled(s, a, w), Free(s, a, a + Len(w), Boundaries)
  PROVE  w \in Words
  <1>1. Len(w) \in Nat /\ w \in Seq(Pieces) /\ a \in Nat
    BY DEF Texts
  <1>2. ASSUME NEW k \in 1..Len(w) + 1 - 1 PROVE IsWordPiece(w[k])
    <2>1. k \in 1..Len(w) /\ a + k - 1 \in a..a + Len(w) - 1
      BY <1>1
    <2>2. w[k] \notin Boundaries
      <3>1. PICK j \in a..a + Len(w) - 1 : j = a + k - 1
        BY <2>1
      <3>2. s[j] \notin Boundaries
        BY DEF Free
      <3>3. s[j] = w[k]
        BY <2>1, <3>1 DEF Spelled
      <3> QED
        BY <3>2, <3>3
    <2> QED
      BY <2>2 DEF Boundaries, IsWordPiece
  <1> QED
    BY <1>1, <1>2 DEF Words, Wordy

\* The words between spaces are laid out.
LEMMA DividedWords ==
  ASSUME NEW s \in Texts, NEW b \in 1..Len(s) + 1, NEW d \in b..Len(s) + 1,
         NEW parts, NEW signs, NEW start, NEW to,
         Divided(s, b, d, Boundaries, parts, signs, start, to), Free(s, b, d, Delimiters)
  PROVE  AreWords(s, b, d, Without(parts, {<<>>}))
  <1>4. PICK N : N = Len(parts)
    OBVIOUS
  <1>5. /\ parts \in Seq(Texts) /\ parts # <<>>
        /\ start \in [1..N -> 1..Len(s) + 1] /\ to \in [1..N -> 1..Len(s) + 1]
        /\ start[1] = b /\ to[N] = d
        /\ \A k \in 1..N :
             /\ b <= start[k] /\ start[k] <= to[k] /\ to[k] <= d /\ to[k] = start[k] + Len(parts[k])
             /\ Spelled(s, start[k], parts[k]) /\ Free(s, start[k], to[k], Boundaries)
             /\ k + 1 \in 1..N => to[k] < d /\ s[to[k]] \in Boundaries /\ start[k + 1] = to[k] + 1
    BY <1>4 DEF Divided
  <1>6. N \in Nat /\ N >= 1 /\ Len(s) \in Nat /\ b \in Nat /\ d \in Nat
    <2>1. N \in Nat /\ N # 0
      BY <1>4, <1>5
    <2>2. Len(s) \in Nat
      BY DEF Texts
    <2> QED
      BY <2>1, <2>2
  <1>7. PICK h : KeepsUpTo(parts, {<<>>}, Texts, h)
    BY <1>5, KeepsIs
  <1>8. /\ h[0] = <<>> /\ Without(parts, {<<>>}) = h[N]
        /\ \A n \in 1..N : /\ parts[n] = <<>> => h[n] = h[n - 1]
                           /\ parts[n] # <<>> => h[n] = Append(h[n - 1], parts[n])
    <2>1. /\ h[0] = <<>> /\ Without(parts, {<<>>}) = h[N]
          /\ \A n \in 1..N :
               /\ parts[n] \in {<<>>} => h[n] = h[n - 1]
               /\ parts[n] \notin {<<>>} => h[n] = Append(h[n - 1], parts[n])
      BY <1>4, <1>7 DEF KeepsUpTo
    <2> QED
      BY <2>1
  <1> DEFINE end == [n \in 0..N |-> IF n = 0 THEN b ELSE to[n]]
             T == {n \in 0..N : AreWords(s, b, end[n], h[n])}
  <1>9. end[0] = b /\ \A n \in 1..N : end[n] = to[n]
    BY <1>6
  <1> HIDE DEF end
  <1>10. 0 \in T
    BY <1>6, <1>8, <1>9, NoWords
  <1>11. ASSUME NEW n \in 0..N - 1, n \in T PROVE n + 1 \in T
    <2>1. PICK m \in 1..N : m = n + 1
      BY <1>6
    <2>2. m - 1 = n /\ m \in 0..N /\ n \in 0..N
      BY <1>6, <2>1
    <2>3. PICK c : c = end[n]
      OBVIOUS
    <2>4. PICK ws : ws = h[n]
      OBVIOUS
    <2>5. PICK w \in Texts : w = parts[m]
      BY <1>4, <1>5
    <2>6. PICK a \in 1..Len(s) + 1 : a = start[m]
      BY <1>5
    <2>7. PICK e \in 1..Len(s) + 1 : e = to[m]
      BY <1>5
    <2>8. AreWords(s, b, c, ws)
      BY <1>11, <2>3, <2>4
    <2>9. /\ a <= e /\ e = a + Len(w) /\ Spelled(s, a, w) /\ Free(s, a, e, Boundaries)
      BY <1>5, <2>5, <2>6, <2>7
    <2>10. c \in 1..Len(s) + 1 /\ c <= a /\ Spaces(s, c, a) /\ (ws # <<>> => c < a)
      <3>1. CASE n = 0
        <4>1. c = b /\ a = b /\ ws = <<>>
          BY <1>5, <1>8, <1>9, <2>1, <2>3, <2>4, <2>6, <3>1
        <4> QED
          BY <1>6, <4>1 DEF Spaces
      <3>2. CASE n # 0
        <4>1. n \in 1..N /\ n + 1 \in 1..N
          BY <2>1, <2>2, <3>2
        <4>2. PICK z \in 1..Len(s) + 1 : z = to[n]
          BY <1>5, <4>1
        <4>3. c = z
          BY <1>9, <2>3, <4>1, <4>2
        <4>4. b <= start[n] /\ start[n] <= z /\ z < d /\ s[z] \in Boundaries /\ start[n + 1] = z + 1
              /\ start[n] \in 1..Len(s) + 1
          BY <1>5, <4>1, <4>2
        <4>5. a = z + 1 /\ z \in b..d - 1
          BY <1>6, <2>1, <2>6, <4>4
        <4>6. s[z] = Space
          BY <4>4, <4>5 DEF Free, Boundaries
        <4>7. Spaces(s, z, a)
          <5>1. \A k \in z..a - 1 : k = z
            BY <4>5
          <5> QED
            BY <4>6, <5>1 DEF Spaces
        <4> QED
          BY <4>3, <4>5, <4>7
      <3> QED
        BY <3>1, <3>2
    <2>11. AreWords(s, b, e, h[m])
      <3>1. CASE w = <<>>
        <4>1. h[m] = ws
          BY <1>8, <2>2, <2>4, <2>5, <3>1
        <4>2. e = a
          BY <2>9, <3>1
        <4>3. a \in c..Len(s) + 1
          BY <1>6, <2>10
        <4> QED
          BY <2>8, <2>10, <4>1, <4>2, <4>3, WordsBeforeSpaces
      <3>2. CASE w # <<>>
        <4>1. h[m] = Append(ws, w)
          BY <1>8, <2>2, <2>4, <2>5, <3>2
        <4>2. w \in Words
          BY <2>9, <3>2, WordFound
        <4>3. a \in c..Len(s) + 1 /\ e \in a..Len(s) + 1
          BY <1>6, <2>9, <2>10
        <4> QED
          BY <2>8, <2>9, <2>10, <4>1, <4>2, <4>3, WordFollows
      <3> QED
        BY <3>1, <3>2
    <2>12. end[m] = e
      BY <1>9, <2>7
    <2> QED
      BY <2>1, <2>2, <2>11, <2>12
  <1>12. N \in T
    <2>1. 0..N \subseteq T
      <3> HIDE DEF T
      <3> QED
        BY <1>6, <1>10, <1>11, BoundedInduction
    <2> QED
      BY <1>6, <2>1
  <1>13. end[N] = d
    BY <1>5, <1>6, <1>9
  <1> QED
    BY <1>8, <1>12, <1>13

\* The words of a text without delimiters are laid out in it.
LEMMA WordsFound ==
  ASSUME NEW s \in Texts, NEW b \in 1..Len(s) + 1, NEW u \in Texts, Spelled(s, b, u),
         NEW d \in b..Len(s) + 1, d = b + Len(u), Free(s, b, d, Delimiters)
  PROVE  AreWords(s, b, d, WordsIn(u))
  <1>1. PICK parts : parts = Split(u, Boundaries)
    OBVIOUS
  <1>2. PICK signs : IsDivided(s, b, d, Boundaries, parts, signs)
    BY <1>1, Divides
  <1>3. PICK start, to : Divided(s, b, d, Boundaries, parts, signs, start, to)
    BY <1>2 DEF IsDivided
  <1>4. WordsIn(u) = Without(parts, {<<>>})
    BY <1>1 DEF WordsIn, Boundaries
  <1> QED
    BY <1>3, <1>4, DividedWords

LEMMA PieceFree ==
  ASSUME NEW s \in Texts, NEW a \in 1..Len(s) + 1, NEW w \in Texts, Spelled(s, a, w), NEW S,
         \A k \in 1..Len(w) : w[k] \notin S
  PROVE  Free(s, a, a + Len(w), S)
  <1>1. Len(w) \in Nat /\ a \in Nat
    BY DEF Texts
  <1>2. ASSUME NEW j \in a..a + Len(w) - 1 PROVE s[j] \notin S
    <2>1. PICK k \in 1..Len(w) : k = j - a + 1
      BY <1>1
    <2>2. a + k - 1 = j
      BY <1>1, <2>1
    <2>3. s[a + k - 1] = w[k]
      BY DEF Spelled
    <2> QED
      BY <2>2, <2>3
  <1> QED
    BY <1>2 DEF Free

CommandsOf(u, cs) == cs = WordsOfEach(Split(u, {"|"})) /\ <<>> \notin ToSet(cs)
Unredirected(s, i, d) == Free(s, i, d, {"<", ">", ";"}) /\ Bounds(s, d) /\ ~Is(s, d, "|")

\* The commands of a text without redirections are laid out in it.
LEMMA CommandsFound ==
  ASSUME NEW s \in Texts, NEW i \in 1..Len(s) + 1, NEW u \in Texts, Spelled(s, i, u),
         NEW d \in i..Len(s) + 1, d = i + Len(u), Unredirected(s, i, d),
         NEW cs, CommandsOf(u, cs)
  PROVE  AreCommands(s, i, d, cs)
  <1>1. PICK parts : parts = Split(u, {"|"})
    OBVIOUS
  <1>2. PICK signs : IsDivided(s, i, d, {"|"}, parts, signs)
    BY <1>1, Divides
  <1>3. PICK start, to : Divided(s, i, d, {"|"}, parts, signs, start, to)
    BY <1>2 DEF IsDivided
  <1>4. PICK N : N = Len(parts)
    OBVIOUS
  <1>5. /\ parts \in Seq(Texts) /\ parts # <<>>
        /\ start \in [1..N -> 1..Len(s) + 1] /\ to \in [1..N -> 1..Len(s) + 1]
        /\ start[1] = i /\ to[N] = d
        /\ \A k \in 1..N :
             /\ i <= start[k] /\ start[k] <= to[k] /\ to[k] <= d /\ to[k] = start[k] + Len(parts[k])
             /\ Spelled(s, start[k], parts[k]) /\ Free(s, start[k], to[k], {"|"})
             /\ k + 1 \in 1..N => to[k] < d /\ s[to[k]] \in {"|"} /\ start[k + 1] = to[k] + 1
    BY <1>3, <1>4 DEF Divided
  <1>6. N \in Nat /\ N >= 1 /\ Len(s) \in Nat /\ i \in Nat /\ d \in Nat /\ DOMAIN s = 1..Len(s)
        /\ DOMAIN parts = 1..N
    <2>1. N \in Nat /\ N # 0 /\ DOMAIN parts = 1..N
      BY <1>4, <1>5
    <2>2. Len(s) \in Nat /\ DOMAIN s = 1..Len(s)
      BY DEF Texts
    <2> QED
      BY <2>1, <2>2
  <1>7. cs = [n \in 1..N |-> WordsIn(parts[n])]
    BY <1>1, <1>6 DEF CommandsOf, WordsOfEach
  <1>8. ASSUME NEW k \in 1..N
        PROVE  /\ start[k] <= to[k] /\ Bounds(s, to[k]) /\ AreWords(s, start[k], to[k], cs[k])
               /\ k + 1 \in 1..N => Is(s, to[k], "|") /\ start[k + 1] = to[k] + 1
    <2>1. PICK b \in 1..Len(s) + 1 : b = start[k]
      BY <1>5
    <2>2. PICK e \in 1..Len(s) + 1 : e = to[k]
      BY <1>5
    <2>3. PICK w \in Texts : w = parts[k]
      BY <1>4, <1>5
    <2>4. i <= b /\ b <= e /\ e <= d /\ e = b + Len(w) /\ Spelled(s, b, w) /\ Free(s, b, e, {"|"})
      BY <1>5, <2>1, <2>2, <2>3
    <2>5. e \in b..Len(s) + 1 /\ \A j \in b..e - 1 : j \in i..d - 1
      BY <1>6, <2>4
    <2>6. Free(s, b, e, Delimiters)
      BY <2>4, <2>5 DEF Free, Delimiters, Unredirected
    <2>7. AreWords(s, b, e, WordsIn(w))
      BY <2>4, <2>5, <2>6, WordsFound
    <2>8. cs[k] = WordsIn(w)
      BY <1>7, <2>3
    <2>9. ASSUME k + 1 \in 1..N PROVE Is(s, e, "|") /\ start[k + 1] = e + 1
      <3>1. e < d /\ s[e] = "|" /\ start[k + 1] = e + 1
        BY <1>5, <2>2, <2>9
      <3>2. e \in 1..Len(s)
        BY <1>6, <3>1
      <3> QED
        BY <1>6, <3>1, <3>2 DEF Is
    <2>10. Bounds(s, e)
      <3>1. CASE k = N
        BY <1>5, <2>2, <3>1 DEF Unredirected
      <3>2. CASE k # N
        <4>1. k + 1 \in 1..N
          BY <1>6, <3>2
        <4> QED
          BY <2>9, <4>1 DEF Is, Bounds, Delimiters
      <3> QED
        BY <3>1, <3>2
    <2> QED
      BY <2>1, <2>2, <2>4, <2>7, <2>8, <2>9, <2>10
  <1>9. cs \in CommandLists /\ Len(cs) = N /\ cs # <<>>
    <2>1. ASSUME NEW k \in 1..N PROVE cs[k] \in Seq(Words) \ {<<>>}
      <3>1. PICK c : c = cs[k]
        OBVIOUS
      <3>2. PICK b, e : AreWords(s, b, e, c)
        BY <1>8, <3>1
      <3>3. c \in Seq(Words)
        BY <3>2 DEF AreWords, WordsLaid
      <3>4. c # <<>>
        BY <1>7, <3>1 DEF ToSet, CommandsOf
      <3> QED
        BY <3>1, <3>3, <3>4
    <2>2. PICK V : V = Seq(Words) \ {<<>>}
      OBVIOUS
    <2>3. cs \in [1..N -> V]
      BY <1>7, <2>1, <2>2
    <2>4. cs \in Seq(V) /\ Len(cs) = N
      BY <1>6, <2>3
    <2>5. cs # <<>>
      BY <1>6, <2>4
    <2> QED
      BY <2>2, <2>4, <2>5 DEF CommandLists
  <1>10. CommandsLaid(s, i, d, cs, start, to)
    BY <1>5, <1>8, <1>9 DEF CommandsLaid, Unredirected
  <1> QED
    BY <1>10 DEF AreCommands

\* One word is a path.
LEMMA PathFound ==
  ASSUME NEW s \in Texts, NEW i \in 1..Len(s) + 1, NEW d \in i..Len(s) + 1, NEW ws,
         AreWords(s, i, d, ws), Len(ws) = 1
  PROVE  IsPath(s, i, d, Path(ws[1])) /\ ws[1] \in Words
  <1>1. PICK at, to : WordsLaid(s, i, d, ws, at, to)
    BY DEF AreWords
  <1>2. /\ ws \in Seq(Words) /\ at \in [1..1 -> 1..Len(s) + 1] /\ to \in [0..1 -> 1..Len(s) + 1]
        /\ to[0] = i /\ to[1] <= d /\ Spaces(s, to[1], d)
        /\ \A k \in 1..1 :
             /\ to[k - 1] <= at[k] /\ Spaces(s, to[k - 1], at[k])
             /\ to[k] = at[k] + Len(ws[k]) /\ Spelled(s, at[k], ws[k])
    <2>1. PICK n : n = Len(ws)
      OBVIOUS
    <2>2. /\ ws \in Seq(Words) /\ at \in [1..n -> 1..Len(s) + 1] /\ to \in [0..n -> 1..Len(s) + 1]
          /\ to[0] = i /\ to[n] <= d /\ Spaces(s, to[n], d)
          /\ \A k \in 1..n :
               /\ to[k - 1] <= at[k] /\ Spaces(s, to[k - 1], at[k])
               /\ to[k] = at[k] + Len(ws[k]) /\ Spelled(s, at[k], ws[k])
      BY <1>1, <2>1 DEF WordsLaid
    <2> QED
      BY <2>1, <2>2
  <1>3. PICK w \in Words : w = ws[1]
    <2>1. ws \in Seq(Words)
      BY <1>2
    <2>2. 1 \in 1..Len(ws)
      OBVIOUS
    <2>3. ws[1] \in Words
      BY <2>1, <2>2, ElementOfSeq
    <2> QED
      BY <2>3
  <1>4. 1 \in 1..1 /\ 1 - 1 = 0
    OBVIOUS
  <1>5. PICK a \in 1..Len(s) + 1 : a = at[1]
    BY <1>2, <1>4
  <1>6. PICK e \in 1..Len(s) + 1 : e = to[1]
    BY <1>2
  <1>7. /\ i <= a /\ Spaces(s, i, a) /\ e = a + Len(w) /\ Spelled(s, a, w)
        /\ e <= d /\ Spaces(s, e, d)
    BY <1>2, <1>3, <1>4, <1>5, <1>6
  <1>8. w \in Texts /\ Wordy(w, 1, Len(w) + 1) /\ Len(w) \in Nat /\ Len(w) >= 1
    <2>1. w \in Seq(Pieces) /\ w # <<>> /\ Wordy(w, 1, Len(w) + 1)
      BY DEF Words
    <2>2. Len(w) \in Nat /\ Len(w) # 0
      BY <2>1
    <2> QED
      BY <2>1, <2>2 DEF Texts
  <1>9. Len(s) \in Nat /\ i \in Nat /\ d \in Nat /\ a \in Nat /\ e \in Nat /\ d <= Len(s) + 1
    BY DEF Texts
  <1>10. e \in a..Len(s) + 1 /\ a \in i..d /\ e \in a..d /\ a \in a..e - 1
    BY <1>7, <1>8, <1>9
  <1>11. Wordy(s, a, e) /\ SubSeq(s, a, e - 1) = w
    BY <1>7, <1>8, <1>10, SpelledWord
  <1>12. s[a] # Space
    BY <1>10, <1>11 DEF Wordy, IsWordPiece
  <1>13. Path(w) = Path(SubSeq(s, a, e - 1))
    BY <1>11
  <1>14. IsPath(s, i, d, Path(w))
    BY <1>7, <1>10, <1>11, <1>12, <1>13 DEF IsPath
  <1> QED
    BY <1>3, <1>14

Chosen(all, sign) == PathNamed(Without(all, {r \in ToSet(all) : r[1] # sign}))

\* The path of the redirections with a sign is that of one of them.
LEMMA ChosenIs ==
  ASSUME NEW V, NEW all \in Seq(V), NEW sign
  PROVE  /\ (\A j \in 1..Len(all) : all[j][1] # sign) => Chosen(all, sign) = NoPath
         /\ (\E j \in 1..Len(all) : all[j][1] = sign) =>
              \E j \in 1..Len(all) : all[j][1] = sign /\ Chosen(all, sign) = Path(all[j][2][1])
  <1>1. PICK R : R = {r \in ToSet(all) : r[1] # sign}
    OBVIOUS
  <1>2. \A j \in 1..Len(all) : all[j] \in R <=> all[j][1] # sign
    BY <1>1 DEF ToSet
  <1>3. PICK z \in Seq(V) : z = Without(all, R)
    BY SplitType
  <1>4. /\ \A k \in 1..Len(z) : \E j \in 1..Len(all) : z[k] = all[j] /\ all[j] \notin R
        /\ (\A j \in 1..Len(all) : all[j] \in R) => z = <<>>
        /\ (\E j \in 1..Len(all) : all[j] \notin R) => z # <<>>
    BY <1>3, Kept
  <1>5. Chosen(all, sign) = IF z = <<>> THEN NoPath ELSE Path(z[1][2][1])
    BY <1>1, <1>3 DEF Chosen, PathNamed
  <1>6. z # <<>> => 1 \in 1..Len(z)
    OBVIOUS
  <1>7. ASSUME \E j \in 1..Len(all) : all[j][1] = sign
        PROVE  \E j \in 1..Len(all) : all[j][1] = sign /\ Chosen(all, sign) = Path(all[j][2][1])
    <2>1. z # <<>>
      BY <1>2, <1>4, <1>7
    <2>2. PICK j \in 1..Len(all) : z[1] = all[j] /\ all[j] \notin R
      BY <1>4, <1>6, <2>1
    <2>3. all[j][1] = sign
      BY <1>2, <2>2
    <2>4. Chosen(all, sign) = Path(all[j][2][1])
      BY <1>5, <2>1, <2>2
    <2> QED
      BY <2>3, <2>4
  <1>8. ASSUME \A j \in 1..Len(all) : all[j][1] # sign PROVE Chosen(all, sign) = NoPath
    BY <1>2, <1>4, <1>5, <1>8
  <1> QED
    BY <1>7, <1>8

RedirectedOnce(u) == IsPipeline(u) /\ NoPath \in {PathOf(u, "<"), PathOf(u, ">")}

\* The redirections of a text, by its parts and the signs between them.
AreBehind(all, signs, parts) ==
  /\ all \in Seq({all[j] : j \in 1..Len(all)}) /\ Len(all) = Len(signs)
  /\ \A j \in 1..Len(signs) :
       all[j][1] = signs[j] /\ all[j][2] = WordsIn(parts[j + 1]) /\ all[j][3] = parts[j + 1]

LEMMA RedirectionsAre ==
  ASSUME NEW u \in Texts,
         NEW signs \in Seq(Pieces), signs = Without(u, ToSet(u) \ {"<", ">"}),
         NEW parts, parts = Split(u, {"<", ">"})
  PROVE  AreBehind(Redirections(u), signs, parts)
  <1>1. PICK all : all = Redirections(u)
    OBVIOUS
  <1>2. PICK n \in Nat : n = Len(signs) /\ DOMAIN signs = 1..n
    OBVIOUS
  <1>3. all = [j \in DOMAIN signs |-> <<signs[j], WordsIn(parts[j + 1]), parts[j + 1]>>]
    BY <1>1 DEF Redirections
  <1>4. all = [j \in 1..n |-> <<signs[j], WordsIn(parts[j + 1]), parts[j + 1]>>]
    BY <1>2, <1>3
  <1>5. PICK V : V = {all[j] : j \in 1..n}
    OBVIOUS
  <1>6. DOMAIN all = 1..n /\ all = [j \in 1..n |-> all[j]]
    BY <1>4
  <1>7. all \in [1..n -> V]
    BY <1>5, <1>6
  <1>8. all \in Seq(V) /\ Len(all) = n
    BY <1>7
  <1>9. ASSUME NEW j \in 1..n
        PROVE  all[j][1] = signs[j] /\ all[j][2] = WordsIn(parts[j + 1]) /\ all[j][3] = parts[j + 1]
    <2>1. all[j] = <<signs[j], WordsIn(parts[j + 1]), parts[j + 1]>>
      BY <1>4
    <2> QED
      BY <2>1
  <1> QED
    BY <1>1, <1>2, <1>5, <1>8, <1>9 DEF AreBehind

\* A pipeline that is redirected once at most has one redirection at most.
LEMMA OneRedirection ==
  ASSUME NEW all, NEW signs, NEW parts, AreBehind(all, signs, parts), signs \in Seq({"<", ">"}),
         AreRedirections(all), NoPath \in {Chosen(all, "<"), Chosen(all, ">")},
         \A j \in 1..Len(signs) : all[j][2][1] \in Words
  PROVE  Len(signs) = 0 \/ Len(signs) = 1
  <1> SUFFICES ASSUME Len(signs) # 0, Len(signs) # 1 PROVE FALSE
    OBVIOUS
  <1>1. 1 \in 1..Len(signs) /\ 2 \in 1..Len(signs) /\ Len(all) = Len(signs)
    BY SMTT(30) DEF AreBehind
  <1>2. all[1][1] = signs[1] /\ all[2][1] = signs[2] /\ signs[1] \in {"<", ">"} /\ signs[2] \in {"<", ">"}
    <2>1. \A j \in 1..Len(signs) : all[j][1] = signs[j]
      BY DEF AreBehind
    <2>2. \A j \in 1..Len(signs) : signs[j] \in {"<", ">"}
      OBVIOUS
    <2> QED
      BY <1>1, <2>1, <2>2
  <1>3. DOMAIN all = 1..Len(all)
    BY DEF AreBehind
  <1>4. all[1][1] # all[2][1]
    BY <1>1, <1>3 DEF AreRedirections
  <1>5. PICK V : all \in Seq(V)
    BY DEF AreBehind
  <1>6. ASSUME NEW sign \in {"<", ">"} PROVE Chosen(all, sign) # NoPath
    <2>1. \E j \in 1..Len(all) : all[j][1] = sign
      BY <1>1, <1>2, <1>4
    <2>2. PICK j \in 1..Len(all) : Chosen(all, sign) = Path(all[j][2][1])
      BY <1>5, <2>1, ChosenIs
    <2>3. PICK w \in Words : w = all[j][2][1]
      BY <1>1
    <2>4. w \in Named
      BY DEF Words, Named, Texts
    <2> QED
      BY <2>2, <2>3, <2>4, PathFacts
  <1> QED
    BY <1>6

\* From start to to is part k, and what is behind sign j of a pipeline is a path.
Signed(s, i, d, parts, signs, start, to) ==
  /\ parts \in Seq(Texts) /\ signs \in Seq({"<", ">"})
  /\ Len(parts) \in Nat /\ Len(parts) >= 1 /\ Len(signs) = Len(parts) - 1
  /\ start \in [1..Len(parts) -> 1..Len(s) + 1] /\ to \in [1..Len(parts) -> 1..Len(s) + 1]
  /\ start[1] = i /\ to[Len(parts)] = d
  /\ \A k \in 1..Len(parts) :
       /\ i <= start[k] /\ start[k] <= to[k] /\ to[k] <= d /\ to[k] = start[k] + Len(parts[k])
       /\ Spelled(s, start[k], parts[k]) /\ Free(s, start[k], to[k], {"<", ">"})
       /\ k + 1 \in 1..Len(parts) => Is(s, to[k], signs[k]) /\ start[k + 1] = to[k] + 1

LEMMA SignedIs ==
  ASSUME NEW s \in Texts, NEW i \in 1..Len(s) + 1, NEW d \in i..Len(s) + 1, NEW parts, NEW signs,
         IsDivided(s, i, d, {"<", ">"}, parts, signs)
  PROVE  \E start, to : Signed(s, i, d, parts, signs, start, to)
  <1>1. PICK start, to : Divided(s, i, d, {"<", ">"}, parts, signs, start, to)
    BY DEF IsDivided
  <1>2. PICK n : n = Len(parts)
    OBVIOUS
  <1>3. PICK S : S = {"<", ">"}
    OBVIOUS
  <1>4. /\ parts \in Seq(Texts) /\ parts # <<>> /\ signs \in Seq(Pieces) /\ Len(signs) = n - 1
        /\ start \in [1..n -> 1..Len(s) + 1] /\ to \in [1..n -> 1..Len(s) + 1]
        /\ start[1] = i /\ to[n] = d
        /\ \A k \in 1..n :
             /\ i <= start[k] /\ start[k] <= to[k] /\ to[k] <= d /\ to[k] = start[k] + Len(parts[k])
             /\ Spelled(s, start[k], parts[k]) /\ Free(s, start[k], to[k], S)
             /\ k + 1 \in 1..n =>
                  to[k] < d /\ s[to[k]] \in S /\ start[k + 1] = to[k] + 1 /\ signs[k] = s[to[k]]
    BY <1>1, <1>2, <1>3 DEF Divided
  <1>5. n \in Nat /\ n >= 1 /\ Len(s) \in Nat /\ DOMAIN s = 1..Len(s)
    <2>1. n \in Nat /\ n # 0
      BY <1>2, <1>4
    <2>2. Len(s) \in Nat /\ DOMAIN s = 1..Len(s)
      BY DEF Texts
    <2> QED
      BY <2>1, <2>2
  <1>6. ASSUME NEW k \in 1..n, k + 1 \in 1..n
        PROVE  Is(s, to[k], signs[k]) /\ start[k + 1] = to[k] + 1
    <2>1. PICK e \in 1..Len(s) + 1 : e = to[k]
      BY <1>4
    <2>2. e < d /\ d <= Len(s) + 1 /\ s[e] = signs[k] /\ start[k + 1] = e + 1
      BY <1>4, <1>6, <2>1
    <2>3. e \in 1..Len(s)
      BY <1>5, <2>2
    <2> QED
      BY <1>5, <2>1, <2>2, <2>3 DEF Is
  <1>7. signs \in Seq(S)
    <2>1. ASSUME NEW k \in 1..n - 1 PROVE signs[k] \in S
      <3>1. k \in 1..n /\ k + 1 \in 1..n
        BY <1>5
      <3> QED
        BY <1>4, <3>1
    <2>2. DOMAIN signs = 1..n - 1 /\ signs = [k \in 1..n - 1 |-> signs[k]] /\ n - 1 \in Nat
      BY <1>4, <1>5
    <2>3. signs \in [1..n - 1 -> S]
      BY <2>1, <2>2
    <2> QED
      BY <2>2, <2>3
  <1>8. Signed(s, i, d, parts, signs, start, to)
    BY <1>2, <1>3, <1>4, <1>5, <1>6, <1>7 DEF Signed
  <1> QED
    BY <1>8

\* no pipeline ends between i and d
OnePipeline(s, i, d) == Free(s, i, d, {";"})

\* Behind a sign is one word, which is a path.
LEMMA RedirectionFound ==
  ASSUME NEW s \in Texts, NEW i \in 1..Len(s) + 1, NEW d \in i..Len(s) + 1,
         NEW parts, NEW signs, NEW start, NEW to, Signed(s, i, d, parts, signs, start, to),
         OnePipeline(s, i, d),
         NEW all, AreBehind(all, signs, parts), AreRedirections(all), NEW j \in 1..Len(signs)
  PROVE  /\ all[j][2][1] \in Words
         /\ IsPath(s, start[j + 1], to[j + 1], Path(all[j][2][1]))
  <1>1. PICK n \in Nat : n = Len(parts) /\ Len(signs) = n - 1 /\ n >= 1
    BY DEF Signed
  <1>2. PICK k \in 1..n : k = j + 1
    BY <1>1
  <1>3. PICK a \in 1..Len(s) + 1 : a = start[k]
    BY <1>1 DEF Signed
  <1>4. PICK e \in 1..Len(s) + 1 : e = to[k]
    BY <1>1 DEF Signed
  <1>5. PICK w \in Texts : w = parts[k]
    BY <1>1 DEF Signed
  <1>6. /\ i <= a /\ a <= e /\ e <= d /\ e = a + Len(w)
        /\ Spelled(s, a, w) /\ Free(s, a, e, {"<", ">"})
    BY <1>1, <1>3, <1>4, <1>5 DEF Signed
  <1>7. PICK ws : ws = all[j][2]
    OBVIOUS
  <1>8. ws = WordsIn(w) /\ all[j][3] = w
    BY <1>2, <1>5, <1>7 DEF AreBehind
  <1>9. j \in DOMAIN all
    BY DEF AreBehind
  <1>10. Len(ws) = 1 /\ ~Contains(w, "|")
    BY <1>7, <1>8, <1>9 DEF AreRedirections
  <1>11. Len(s) \in Nat /\ i \in Nat /\ d \in Nat /\ a \in Nat /\ e \in Nat
    BY DEF Texts
  <1>12. e \in a..Len(s) + 1 /\ \A x \in a..e - 1 : x \in i..d - 1
    BY <1>6, <1>11
  <1>13. Free(s, a, e, {"|"})
    <2>1. \A x \in 1..Len(w) : w[x] \notin {"|"}
      BY <1>10 DEF Contains
    <2> QED
      BY <1>6, <2>1, PieceFree
  <1>14. Free(s, a, e, Delimiters)
    BY <1>6, <1>12, <1>13 DEF Free, Delimiters, OnePipeline
  <1>15. AreWords(s, a, e, ws)
    BY <1>6, <1>8, <1>12, <1>14, WordsFound
  <1>16. IsPath(s, a, e, Path(ws[1])) /\ ws[1] \in Words
    BY <1>10, <1>12, <1>15, PathFound
  <1> QED
    BY <1>2, <1>3, <1>4, <1>7, <1>16

\* A pipeline of the grammar is laid out in the text, if it is redirected once at most.
LEMMA PipelineFound ==
  ASSUME NEW s \in Texts, NEW i \in 1..Len(s) + 1, NEW u \in Texts, Spelled(s, i, u),
         NEW d \in i..Len(s) + 1, d = i + Len(u), OnePipeline(s, i, d), EndsPipeline(s, d),
         RedirectedOnce(u)
  PROVE  IsPipe(s, i, d, PipelineOf(u)) /\ PipelineOf(u) \in PipelineSet
  <1>1. PICK S : S = {"<", ">"}
    OBVIOUS
  <1>2. PICK parts : parts = Split(u, S)
    OBVIOUS
  <1>3. PICK signs : signs = Without(u, ToSet(u) \ S)
    OBVIOUS
  <1>4. IsDivided(s, i, d, S, parts, signs)
    BY <1>2, <1>3, Divides
  <1>5. PICK start, to : Signed(s, i, d, parts, signs, start, to)
    BY <1>1, <1>4, SignedIs
  <1>6. PICK all : all = Redirections(u)
    OBVIOUS
  <1>7. AreBehind(all, signs, parts)
    <2>1. signs \in Seq(Pieces)
      BY <1>4 DEF IsDivided, Divided
    <2> QED
      BY <1>1, <1>2, <1>3, <1>6, <2>1, RedirectionsAre
  <1>8. AreRedirections(all) /\ <<>> \notin ToSet(Commands(u))
    BY <1>6 DEF RedirectedOnce, IsPipeline
  <1>9. PICK in : in = Chosen(all, "<")
    OBVIOUS
  <1>10. PICK out : out = Chosen(all, ">")
    OBVIOUS
  <1>11. PathOf(u, "<") = in /\ PathOf(u, ">") = out /\ NoPath \in {in, out}
    BY <1>6, <1>9, <1>10 DEF RedirectedOnce, PathOf, Chosen
  <1>12. PICK cs : cs = Commands(u)
    OBVIOUS
  <1>13. PICK p : p = PipelineOf(u)
    OBVIOUS
  <1>14. p = Pipeline(cs, in, out) /\ p.commands = cs /\ p.input = in /\ p.output = out
    BY <1>11, <1>12, <1>13 DEF PipelineOf, Pipeline
  <1>15. \A j \in 1..Len(signs) : all[j][2][1] \in Words
    BY <1>5, <1>7, <1>8, RedirectionFound
  <1>16. Len(signs) = 0 \/ Len(signs) = 1
    <2>1. signs \in Seq({"<", ">"})
      BY <1>5 DEF Signed
    <2> QED
      BY <1>7, <1>8, <1>9, <1>10, <1>11, <1>15, <2>1, OneRedirection
  <1>17. PICK n \in Nat : n = Len(parts) /\ n >= 1 /\ Len(signs) = n - 1
    BY <1>5 DEF Signed
  <1>18. PICK b \in 1..Len(s) + 1 : b = to[1]
    BY <1>5, <1>17 DEF Signed
  <1>19. PICK head \in Texts : head = parts[1]
    BY <1>5, <1>17 DEF Signed
  <1>20. i <= b /\ b <= d /\ b = i + Len(head) /\ Spelled(s, i, head) /\ Free(s, i, b, {"<", ">"})
    BY <1>5, <1>17, <1>18, <1>19 DEF Signed
  <1>21. Len(s) \in Nat /\ i \in Nat /\ d \in Nat /\ b \in Nat /\ b \in i..d /\ b \in i..Len(s) + 1
    <2>1. Len(s) \in Nat
      BY DEF Texts
    <2> QED
      BY <1>20, <2>1
  <1>22. \/ n = 1 /\ b = d
         \/ n = 2 /\ Is(s, b, signs[1]) /\ signs[1] \in {"<", ">"} /\ start[2] = b + 1 /\ to[2] = d
    <2>1. CASE Len(signs) = 0
      <3>1. n = 1
        <4>1. \A m \in Nat : m - 1 = 0 => m = 1
          OBVIOUS
        <4> QED
          BY <1>17, <2>1, <4>1
      <3> QED
        BY <1>5, <1>17, <1>18, <3>1 DEF Signed
    <2>2. CASE Len(signs) = 1
      <3>1. n = 2
        <4>1. \A m \in Nat : m - 1 = 1 => m = 2
          OBVIOUS
        <4> QED
          BY <1>17, <2>2, <4>1
      <3>2. signs[1] \in {"<", ">"}
        BY <1>5, <2>2 DEF Signed
      <3>3. to[2] = d /\ 1 \in 1..2 /\ 1 + 1 \in 1..2 /\ 1 + 1 = 2
        BY <1>5, <1>17, <3>1 DEF Signed
      <3>4. Is(s, to[1], signs[1]) /\ start[2] = to[1] + 1
        BY <1>5, <1>17, <3>1, <3>3 DEF Signed
      <3> QED
        BY <1>18, <3>1, <3>2, <3>3, <3>4
    <2> QED
      BY <1>16, <2>1, <2>2
  <1>23. AreCommands(s, i, b, cs)
    <2>1. cs = WordsOfEach(Split(head, {"|"}))
      BY <1>1, <1>2, <1>12, <1>19 DEF Commands
    <2>2. CommandsOf(head, cs)
      BY <1>8, <1>12, <2>1 DEF CommandsOf
    <2>3. \A x \in i..b - 1 : x \in i..d - 1
      BY <1>20, <1>21
    <2>4. Free(s, i, b, {"<", ">", ";"})
      BY <1>20, <2>3 DEF Free, OnePipeline
    <2>5. Bounds(s, b) /\ ~Is(s, b, "|")
      <3>1. CASE b = d
        <4>1. b = Len(s) + 1 \/ s[b] = ";"
          BY <3>1 DEF EndsPipeline
        <4>2. b = Len(s) + 1 => b \notin DOMAIN s
          <5>1. DOMAIN s = 1..Len(s)
            BY DEF Texts
          <5> QED
            BY <1>21, <5>1
        <4>3. Bounds(s, b)
          BY <4>1, SignFacts DEF Bounds
        <4> QED
          BY <4>1, <4>2, <4>3, SignFacts DEF Is
      <3>2. CASE Is(s, b, signs[1]) /\ signs[1] \in {"<", ">"}
        BY <3>2, SignFacts DEF Bounds, Is
      <3> QED
        BY <1>22, <3>1, <3>2
    <2>6. Unredirected(s, i, b)
      BY <2>4, <2>5 DEF Unredirected
    <2> QED
      BY <1>20, <1>21, <2>2, <2>6, CommandsFound
  <1>24. cs \in CommandLists \ {<<>>}
    BY <1>23 DEF AreCommands, CommandsLaid
  <1>25. PICK V : all \in Seq(V) /\ Len(all) = Len(signs)
    BY <1>7 DEF AreBehind
  <1>26. CASE n = 1 /\ b = d
    <2>1. Len(all) = 0
      BY <1>17, <1>25, <1>26
    <2>2. in = NoPath /\ out = NoPath
      <3>1. \A j \in 1..Len(all) : all[j][1] # "<" /\ all[j][1] # ">"
        BY <2>1
      <3> QED
        BY <1>9, <1>10, <1>25, <3>1, ChosenIs
    <2>3. IsPipe(s, i, d, p)
      BY <1>14, <1>21, <1>23, <1>26, <2>2 DEF IsPipe
    <2>4. p \in PipelineSet
      BY <1>14, <1>24, <2>2 DEF PipelineSet, Paths, Pipeline
    <2> QED
      BY <1>13, <2>3, <2>4
  <1>27. CASE n = 2 /\ Is(s, b, signs[1]) /\ signs[1] \in {"<", ">"} /\ start[2] = b + 1 /\ to[2] = d
    <2>1. Len(all) = 1 /\ 1 \in 1..Len(signs) /\ 1 + 1 = 2
      BY <1>17, <1>25, <1>27
    <2>2. PICK w \in Words : w = all[1][2][1]
      BY <1>15, <2>1
    <2>3. PICK path : path = Path(w)
      OBVIOUS
    <2>4. IsPath(s, b + 1, d, path)
      <3>1. IsPath(s, start[1 + 1], to[1 + 1], Path(all[1][2][1]))
        BY <1>5, <1>7, <1>8, <2>1, RedirectionFound
      <3> QED
        BY <1>27, <2>1, <2>2, <2>3, <3>1
    <2>5. PICK sign \in {"<", ">"} : sign = signs[1]
      BY <1>27
    <2>6. all[1][1] = sign /\ \A j \in 1..Len(all) : j = 1
      BY <1>7, <2>1, <2>5 DEF AreBehind
    <2>7. Chosen(all, sign) = path
      BY <1>25, <2>1, <2>2, <2>3, <2>6, ChosenIs
    <2>8. ASSUME NEW x, x # sign PROVE Chosen(all, x) = NoPath
      <3>1. \A j \in 1..Len(all) : all[j][1] # x
        BY <2>6, <2>8
      <3> QED
        BY <1>25, <3>1, ChosenIs
    <2>9. Redirected(s, b, d, sign, path)
      <3>1. b + 1 \in 1..d
        <4>1. start[2] <= to[2]
          BY <1>5, <1>17, <1>27 DEF Signed
        <4> QED
          BY <1>21, <1>27, <4>1
      <3> QED
        BY <1>27, <2>4, <2>5, <3>1 DEF Redirected
    <2>10. path \in Paths
      BY <2>3 DEF Paths, Words
    <2>11. CASE sign = "<"
      <3>1. in = path /\ out = NoPath
        BY <1>9, <1>10, <2>7, <2>8, <2>11, SignFacts
      <3>2. IsPipe(s, i, d, p)
        BY <1>14, <1>21, <1>23, <2>9, <2>11, <3>1 DEF IsPipe
      <3>3. p \in PipelineSet
        BY <1>14, <1>24, <2>10, <3>1 DEF PipelineSet, Paths, Pipeline
      <3> QED
        BY <1>13, <3>2, <3>3
    <2>12. CASE sign = ">"
      <3>1. out = path /\ in = NoPath
        BY <1>9, <1>10, <2>7, <2>8, <2>12, SignFacts
      <3>2. IsPipe(s, i, d, p)
        BY <1>14, <1>21, <1>23, <2>9, <2>12, <3>1 DEF IsPipe
      <3>3. p \in PipelineSet
        BY <1>14, <1>24, <2>10, <3>1 DEF PipelineSet, Paths, Pipeline
      <3> QED
        BY <1>13, <3>2, <3>3
    <2> QED
      BY <2>11, <2>12
  <1> QED
    BY <1>22, <1>26, <1>27

TaskOnce(s) ==
  /\ IsTask(s)
  /\ \A n \in DOMAIN TaskOf(s) : NoPath \in {TaskOf(s)[n].input, TaskOf(s)[n].output}

\* A task of the grammar is laid out in the text.
LEMMA TaskFound ==
  ASSUME NEW s \in Texts, TaskOnce(s)
  PROVE  SpellsTask(s, TaskOf(s))
  <1>0. PICK S : S = {";"}
    OBVIOUS
  <1>1. PICK parts : parts = Split(s, S)
    OBVIOUS
  <1>2. Len(s) \in Nat /\ 1 \in 1..Len(s) + 1 /\ Spelled(s, 1, s) /\ 1 + Len(s) = Len(s) + 1
        /\ DOMAIN s = 1..Len(s)
    <2>1. Len(s) \in Nat /\ DOMAIN s = 1..Len(s)
      BY DEF Texts
    <2>2. 1 \in 1..Len(s) + 1 /\ 1 + Len(s) = Len(s) + 1
      BY <2>1
    <2>3. \A k \in 1..Len(s) : 1 + k - 1 = k
      BY <2>1
    <2>4. Spelled(s, 1, s)
      BY <2>1, <2>3 DEF Spelled
    <2> QED
      BY <2>1, <2>2, <2>4
  <1>3. PICK l \in 1..Len(s) + 1 : l = Len(s) + 1
    BY <1>2
  <1>4. PICK signs : IsDivided(s, 1, l, S, parts, signs)
    <2>1. IsDivided(s, 1, 1 + Len(s), S, Split(s, S), Without(s, ToSet(s) \ S))
      BY <1>2, Divides
    <2> QED
      BY <1>1, <1>2, <1>3, <2>1
  <1>5. PICK start, to : Divided(s, 1, l, S, parts, signs, start, to)
    BY <1>4 DEF IsDivided
  <1>6. PICK N : N = Len(parts)
    OBVIOUS
  <1>7. /\ parts \in Seq(Texts) /\ parts # <<>>
        /\ start \in [1..N -> 1..Len(s) + 1] /\ to \in [1..N -> 1..Len(s) + 1]
        /\ start[1] = 1 /\ to[N] = l
        /\ \A k \in 1..N :
             /\ 1 <= start[k] /\ start[k] <= to[k] /\ to[k] <= l /\ to[k] = start[k] + Len(parts[k])
             /\ Spelled(s, start[k], parts[k]) /\ Free(s, start[k], to[k], S)
             /\ k + 1 \in 1..N => to[k] < l /\ s[to[k]] \in S /\ start[k + 1] = to[k] + 1
    BY <1>5, <1>6 DEF Divided
  <1>8. N \in Nat /\ N >= 1 /\ DOMAIN parts = 1..N
    <2>1. N \in Nat /\ N # 0 /\ DOMAIN parts = 1..N
      BY <1>6, <1>7
    <2> QED
      BY <2>1
  <1>9. PICK t : t = TaskOf(s)
    OBVIOUS
  <1>10. t = [n \in 1..N |-> PipelineOf(parts[n])]
    BY <1>0, <1>1, <1>8, <1>9 DEF TaskOf, PipelinesOf
  <1>11. DOMAIN t = 1..N
    BY <1>10
  <1>12. ASSUME NEW k \in 1..N PROVE RedirectedOnce(parts[k])
    <2>1. PICK w : w = parts[k]
      OBVIOUS
    <2>2. t[k] = PipelineOf(w)
      BY <1>10, <2>1
    <2>3. t[k].input = PathOf(w, "<") /\ t[k].output = PathOf(w, ">")
      BY <2>2 DEF PipelineOf
    <2>4. NoPath \in {t[k].input, t[k].output}
      BY <1>9, <1>11 DEF TaskOnce
    <2>5. w \in ToSet(parts)
      BY <1>8, <2>1 DEF ToSet
    <2>6. IsPipeline(w)
      BY <1>0, <1>1, <2>5 DEF TaskOnce, IsTask
    <2>7. RedirectedOnce(w)
      BY <2>3, <2>4, <2>6 DEF RedirectedOnce
    <2> QED
      BY <2>1, <2>7
  <1>13. ASSUME NEW k \in 1..N, k + 1 \in 1..N
         PROVE  Is(s, to[k], ";") /\ start[k + 1] = to[k] + 1
    <2>1. PICK e \in 1..Len(s) + 1 : e = to[k]
      BY <1>7
    <2>2. e < l /\ s[e] = ";" /\ start[k + 1] = e + 1
      BY <1>0, <1>7, <1>13, <2>1
    <2>3. e \in 1..Len(s)
      <3>1. \A m \in Nat : \A x \in 1..m + 1 : x < m + 1 => x \in 1..m
        OBVIOUS
      <3>2. e < Len(s) + 1
        BY <1>3, <2>2
      <3> QED
        BY <1>2, <3>1, <3>2
    <2> QED
      BY <1>2, <2>1, <2>2, <2>3 DEF Is
  <1>14. ASSUME NEW k \in 1..N
         PROVE  IsPipe(s, start[k], to[k], t[k]) /\ t[k] \in PipelineSet
    <2>1. PICK b \in 1..Len(s) + 1 : b = start[k]
      BY <1>7
    <2>2. PICK e \in 1..Len(s) + 1 : e = to[k]
      BY <1>7
    <2>3. PICK w \in Texts : w = parts[k]
      BY <1>6, <1>7
    <2>4. b <= e /\ e = b + Len(w) /\ Spelled(s, b, w) /\ OnePipeline(s, b, e)
      BY <1>0, <1>7, <2>1, <2>2, <2>3 DEF OnePipeline
    <2>5. e \in b..Len(s) + 1
      BY <1>2, <2>4
    <2>6. EndsPipeline(s, e)
      <3>1. CASE k = N
        BY <1>3, <1>7, <2>2, <3>1 DEF EndsPipeline
      <3>2. CASE k # N
        <4>1. k + 1 \in 1..N
          BY <1>8, <3>2
        <4> QED
          BY <1>13, <2>2, <4>1 DEF Is, EndsPipeline
      <3> QED
        BY <3>1, <3>2
    <2>7. RedirectedOnce(w)
      BY <1>12, <2>3
    <2>8. IsPipe(s, b, e, PipelineOf(w)) /\ PipelineOf(w) \in PipelineSet
      BY <2>4, <2>5, <2>6, <2>7, PipelineFound
    <2>9. t[k] = PipelineOf(w)
      BY <1>10, <2>3
    <2> QED
      BY <2>1, <2>2, <2>8, <2>9
  <1>15. t \in Seq(PipelineSet) /\ Len(t) = N /\ t # <<>>
    <2>1. t \in [1..N -> PipelineSet]
      BY <1>10, <1>14
    <2>2. t \in Seq(PipelineSet) /\ Len(t) = N
      BY <1>8, <2>1
    <2>3. t # <<>>
      BY <1>8, <2>2
    <2> QED
      BY <2>2, <2>3
  <1>16. TaskLaid(s, t, start, to)
    BY <1>3, <1>7, <1>13, <1>14, <1>15 DEF TaskLaid
  <1> QED
    BY <1>9, <1>16 DEF SpellsTask

\* A text that the grammar of task.h makes a task of is parsed to that task, whatever was
\* typed and however long it is, if none of its pipelines is redirected twice.
THEOREM CommandLineParsesTasks == Spec => []ParsesTasks
  <1>1. TaskInv => ParsesTasks
    <2> SUFFICES ASSUME TaskInv, did.command = "spool", TaskOnce(did.text)
                 PROVE  did.task = TaskOf(did.text)
      BY DEF ParsesTasks, TaskOnce
    <2>1. did.text \in Texts /\ did.task = ParseTask(did.text)
      BY DEF TaskInv, Obeys
    <2>2. PICK text \in Texts : text = did.text
      BY <2>1
    <2>3. SpellsTask(text, TaskOf(text))
      BY <2>2, TaskFound
    <2>4. ParseTask(text) = TaskOf(text)
      <3>1. text \in Seq(Pieces)
        BY DEF Texts
      <3> QED
        BY <2>3, <3>1, ReadsTask
    <2> QED
      BY <2>1, <2>2, <2>4
  <1> QED
    BY <1>1, TaskInvInit, TaskInvNext, PTL DEF Spec

\* what the first n sequences are when they are put behind each other
FlattensUpTo(q, V, f) ==
  /\ f \in [0..Len(q) -> Seq(V)] /\ f[0] = <<>>
  /\ \A n \in 1..Len(q) : f[n] = f[n - 1] \o q[n]
  /\ FlattenSeq(q) = f[Len(q)]

LEMMA FlattenIs ==
  ASSUME NEW V, NEW q \in Seq(Seq(V))
  PROVE  \E f : FlattensUpTo(q, V, f)
  <1> DEFINE N == Len(q)
             T == Seq(V)
             g == [p \in (1..N) \X T |-> p[2] \o q[p[1]]]
             Body(h) == [n \in 1..N |-> IF n = 1 THEN q[n] ELSE h[n - 1] \o q[n]]
             f == CHOOSE h : h = Body(h)
  <1>1. N \in Nat /\ <<>> \in T /\ \A n \in 1..N : q[n] \in T
    OBVIOUS
  <1>2. \A n \in 1..N, r \in T : r \o q[n] \in T
    BY <1>1
  <1>3. g \in Steps(N, T)
    <2> HIDE DEF T
    <2> QED
      BY <1>2 DEF Steps
  <1>4. \E h \in [0..N -> T] : h[0] = <<>> /\ \A n \in 1..N : h[n] = g[<<n, h[n - 1]>>]
    <2>1. N \in Nat /\ <<>> \in T
      BY <1>1
    <2>2. PICK x \in T : x = <<>>
      BY <2>1
    <2>4. N \in Nat
      BY <1>1
    <2> HIDE DEF g, T, N, f, Body
    <2>3. PICK K, W : K = N /\ W = T
      OBVIOUS
    <2>5. PICK G \in Steps(K, W) : G = g
      BY <1>3, <2>3
    <2>6. \E h \in [0..K -> W] : h[0] = x /\ \A n \in 1..K : h[n] = G[<<n, h[n - 1]>>]
      BY <2>3, <2>4, Iteration
    <2> QED
      BY <2>2, <2>3, <2>5, <2>6
  <1>5. PICK h \in [0..N -> T] : h[0] = <<>> /\ \A n \in 1..N : h[n] = g[<<n, h[n - 1]>>]
    BY <1>4
  <1>6. ASSUME NEW n \in 1..N PROVE h[n] = h[n - 1] \o q[n] /\ h[n - 1] \in T /\ h[n] \in T
    <2>1. n - 1 \in 0..N /\ n \in 0..N
      BY <1>1
    <2> HIDE DEF T
    <2>2. PICK r \in T : r = h[n - 1]
      BY <1>5, <2>1
    <2>3. h[n] = g[<<n, r>>] /\ h[n] \in T
      BY <1>5, <2>1, <2>2
    <2>4. g[<<n, r>>] = r \o q[n]
      OBVIOUS
    <2> HIDE DEF g
    <2> QED
      BY <2>2, <2>3, <2>4
  <1>7. 1 \in 1..N => h[1] = q[1]
    <2>1. ASSUME 1 \in 1..N PROVE h[1] = q[1]
      <3>1. PICK r \in T : r = q[1]
        BY <1>1, <2>1
      <3>2. h[1] = h[0] \o q[1]
        <4>1. \A n \in 1..N : h[n] = h[n - 1] \o q[n]
          BY <1>6
        <4>2. 1 \in 1..N
          BY <2>1
        <4> HIDE DEF g, T, N, f, Body
        <4>3. h[1] = h[1 - 1] \o q[1]
          BY <4>1, <4>2
        <4>4. 1 - 1 = 0
          OBVIOUS
        <4> QED
          BY <4>3, <4>4
      <3>3. <<>> \o r = r
        BY ConcatEmptySeq
      <3> QED
        BY <1>5, <3>1, <3>2, <3>3
    <2> QED
      BY <2>1
  <1> DEFINE k == [n \in 1..N |-> h[n]]
  <1>8. k = Body(k)
    <2>1. \A n \in 1..N : k[n] = Body(k)[n]
      <3> TAKE n \in 1..N
      <3>1. n # 1 => n - 1 \in 1..N
        BY <1>1
      <3>2. k[n] = h[n] /\ (n # 1 => k[n - 1] = h[n - 1])
        BY <3>1
      <3>3. Body(k)[n] = IF n = 1 THEN q[n] ELSE k[n - 1] \o q[n]
        OBVIOUS
      <3> HIDE DEF k, Body, T, g, N
      <3> QED
        BY <1>6, <1>7, <3>2, <3>3
    <2> QED
      BY <2>1
  <1>9. f = Body(f)
    <2> HIDE DEF Body, k
    <2> QED
      BY <1>8
  <1>10. FlattenSeq(q) = IF N = 0 THEN q ELSE f[N]
    BY DEF FlattenSeq
  <1>11. \A n \in 1..N : f[n] = IF n = 1 THEN q[n] ELSE f[n - 1] \o q[n]
    <2> HIDE DEF f
    <2> QED
      BY <1>9
  <1> HIDE DEF f, g, k, Body
  <1>12. \A n \in 1..N : f[n] = h[n]
    <2> DEFINE U == {n \in 0..N : n = 0 \/ f[n] = h[n]}
    <2>1. 0 \in U
      BY <1>1
    <2>2. ASSUME NEW n \in 0..N - 1, n \in U PROVE n + 1 \in U
      <3>1. PICK m \in 1..N : m = n + 1
        BY <1>1
      <3>2. m - 1 = n /\ m \in 0..N /\ (m # 1 => n # 0) /\ (m = 1 => n = 0)
        BY <1>1, <3>1
      <3>3. f[m] = h[m]
        <4>1. CASE m = 1
          BY <1>7, <1>11, <4>1
        <4>2. CASE m # 1
          <5>1. f[n] = h[n]
            BY <2>2, <3>2, <4>2
          <5> HIDE DEF U, T, N
          <5> QED
            BY <1>6, <1>11, <3>2, <4>2, <5>1
        <4> QED
          BY <4>1, <4>2
      <3> QED
        BY <3>1, <3>2, <3>3
    <2>3. 0..N \subseteq U
      <3> HIDE DEF U
      <3> QED
        BY <1>1, <2>1, <2>2, BoundedInduction
    <2>4. \A n \in 1..N : n \in 0..N /\ n # 0
      BY <1>1
    <2> QED
      BY <2>3, <2>4
  <1>13. FlattenSeq(q) = h[N]
    <2>1. CASE N = 0
      <3>1. q = <<>>
        BY <2>1
      <3> QED
        BY <1>5, <1>10, <2>1, <3>1
    <2>2. CASE N # 0
      <3>1. N \in 1..N
        BY <1>1, <2>2
      <3> QED
        BY <1>10, <1>12, <2>2, <3>1
    <2> QED
      BY <2>1, <2>2
  <1>14. FlattensUpTo(q, V, h)
    BY <1>5, <1>6, <1>13 DEF FlattensUpTo
  <1> QED
    BY <1>14

\* There is one such function.
LEMMA FlattenTo ==
  ASSUME NEW V, NEW q \in Seq(Seq(V)), NEW f, f[0] = <<>>, \A n \in 1..Len(q) : f[n] = f[n - 1] \o q[n]
  PROVE  FlattenSeq(q) = f[Len(q)]
  <1>1. PICK h : FlattensUpTo(q, V, h)
    BY FlattenIs
  <1>2. PICK N : N = Len(q)
    OBVIOUS
  <1>3. N \in Nat /\ h[0] = <<>> /\ FlattenSeq(q) = h[N] /\ \A n \in 1..N : h[n] = h[n - 1] \o q[n]
    <2>1. N \in Nat
      BY <1>2
    <2> QED
      BY <1>1, <1>2, <2>1 DEF FlattensUpTo
  <1> DEFINE U == {n \in 0..N : f[n] = h[n]}
  <1>4. 0 \in U
    BY <1>3
  <1>5. ASSUME NEW n \in 0..N - 1, n \in U PROVE n + 1 \in U
    <2>1. PICK m \in 1..N : m = n + 1
      BY <1>3
    <2>2. m - 1 = n /\ m \in 0..N
      BY <1>3, <2>1
    <2>3. f[m] = f[n] \o q[m] /\ h[m] = h[n] \o q[m]
      BY <1>2, <1>3, <2>2
    <2>4. f[m] = h[m]
      BY <1>5, <2>3
    <2> QED
      BY <2>1, <2>2, <2>4
  <1>6. 0..N \subseteq U
    <2> HIDE DEF U
    <2> QED
      BY <1>3, <1>4, <1>5, BoundedInduction
  <1> QED
    BY <1>2, <1>3, <1>6

LEMMA FlattenType ==
  ASSUME NEW V, NEW q \in Seq(Seq(V))
  PROVE  FlattenSeq(q) \in Seq(V)
  <1>1. PICK f : FlattensUpTo(q, V, f)
    BY FlattenIs
  <1>2. Len(q) \in 0..Len(q)
    OBVIOUS
  <1>3. f[Len(q)] \in Seq(V)
    BY <1>1, <1>2 DEF FlattensUpTo
  <1> QED
    BY <1>1, <1>3 DEF FlattensUpTo

LEMMA FlattenEmpty == FlattenSeq(<<>>) = <<>>
  BY DEF FlattenSeq

LEMMA FlattenOne ==
  ASSUME NEW V, NEW x \in Seq(V)
  PROVE  FlattenSeq(<<x>>) = x
  <1>1. PICK T : T = Seq(V)
    OBVIOUS
  <1>2. PICK q : q = <<x>>
    OBVIOUS
  <1>3. q \in Seq(T) /\ Len(q) = 1 /\ q[1] = x
    BY <1>1, <1>2
  <1>4. PICK f : FlattensUpTo(q, V, f)
    BY <1>1, <1>3, FlattenIs
  <1>5. f[0] = <<>> /\ f[1] = f[0] \o x /\ FlattenSeq(q) = f[1]
    <2>1. f[0] = <<>> /\ FlattenSeq(q) = f[1]
      BY <1>3, <1>4 DEF FlattensUpTo
    <2>2. 1 \in 1..Len(q) /\ 1 - 1 = 0
      BY <1>3
    <2>3. f[1] = f[1 - 1] \o q[1]
      BY <1>4, <2>2 DEF FlattensUpTo
    <2> QED
      BY <1>3, <2>1, <2>2, <2>3
  <1>6. <<>> \o x = x
    BY ConcatEmptySeq
  <1> QED
    BY <1>2, <1>5, <1>6

LEMMA FlattenAppend ==
  ASSUME NEW V, NEW q \in Seq(Seq(V)), NEW x \in Seq(V)
  PROVE  FlattenSeq(Append(q, x)) = FlattenSeq(q) \o x
  <1>1. PICK T : T = Seq(V)
    OBVIOUS
  <1>2. PICK r : r = Append(q, x)
    OBVIOUS
  <1>3. PICK N : N = Len(q)
    OBVIOUS
  <1>4. /\ q \in Seq(T) /\ x \in T /\ N \in Nat
        /\ r \in Seq(T) /\ Len(r) = N + 1 /\ r[N + 1] = x /\ \A n \in 1..N : r[n] = q[n]
    <2>1. q \in Seq(T) /\ x \in T
      BY <1>1
    <2> QED
      BY <1>2, <1>3, <2>1, AppendProperties
  <1>5. PICK f : FlattensUpTo(q, V, f)
    BY FlattenIs
  <1>6. f[0] = <<>> /\ FlattenSeq(q) = f[N] /\ \A n \in 1..N : f[n] = f[n - 1] \o q[n]
    BY <1>3, <1>5 DEF FlattensUpTo
  <1> DEFINE h == [n \in 0..N + 1 |-> IF n = N + 1 THEN f[N] \o x ELSE f[n]]
  <1>7. h[N + 1] = f[N] \o x /\ \A n \in 0..N : h[n] = f[n]
    BY <1>4
  <1> HIDE DEF h
  <1>8. ASSUME NEW n \in 1..N + 1 PROVE h[n] = h[n - 1] \o r[n]
    <2>1. CASE n = N + 1
      <3>1. n - 1 = N /\ N \in 0..N
        BY <1>4, <2>1, SMTT(30)
      <3> QED
        BY <1>4, <1>7, <2>1, <3>1
    <2>2. CASE n # N + 1
      <3>1. n \in 1..N /\ n \in 0..N /\ n - 1 \in 0..N
        BY <1>4, <2>2
      <3> QED
        BY <1>4, <1>6, <1>7, <3>1
    <2> QED
      BY <2>1, <2>2
  <1>9. h[0] = <<>>
    BY <1>4, <1>6, <1>7
  <1>10. r \in Seq(Seq(V)) /\ Len(r) = N + 1
    BY <1>1, <1>4
  <1>11. FlattenSeq(r) = h[Len(r)]
    BY <1>8, <1>9, <1>10, FlattenTo
  <1> QED
    BY <1>2, <1>6, <1>7, <1>10, <1>11

LEMMA FlattenMore ==
  ASSUME NEW V, NEW q \in Seq(Seq(V)), NEW x \in Seq(V)
  PROVE  FlattenSeq(<<x>> \o q) = x \o FlattenSeq(q)
  <1>1. PICK T : T = Seq(V)
    OBVIOUS
  <1>2. PICK r : r = <<x>> \o q
    OBVIOUS
  <1>3. PICK N : N = Len(q)
    OBVIOUS
  <1>4. /\ q \in Seq(T) /\ x \in T /\ N \in Nat
        /\ r \in Seq(T) /\ Len(r) = N + 1 /\ r[1] = x /\ \A n \in 1..N : r[n + 1] = q[n]
    <2>1. q \in Seq(T) /\ x \in T /\ N \in Nat
      BY <1>1, <1>3
    <2>2. PICK y : y = <<x>>
      OBVIOUS
    <2>7. y \in Seq(T) /\ Len(y) = 1 /\ y[1] = x
      BY <2>1, <2>2
    <2>3. /\ y \o q \in Seq(T) /\ Len(y \o q) = Len(y) + Len(q)
          /\ \A n \in 1..Len(y) + Len(q) : (y \o q)[n] = IF n <= Len(y) THEN y[n] ELSE q[n - Len(y)]
      BY <2>1, <2>7, ConcatProperties
    <2>4. r \in Seq(T) /\ Len(r) = N + 1 /\ \A n \in 1..N + 1 : r[n] = IF n <= 1 THEN y[n] ELSE q[n - 1]
      <3>1. Len(y) + Len(q) = N + 1
        BY <1>3, <2>1, <2>7
      <3> QED
        BY <1>2, <2>2, <2>3, <2>7, <3>1
    <2>5. r[1] = x
      BY <2>1, <2>7, <2>4
    <2>6. ASSUME NEW n \in 1..N PROVE r[n + 1] = q[n]
      <3>1. PICK m \in 1..N + 1 : m = n + 1
        BY <2>1
      <3>2. ~(m <= 1) /\ m - 1 = n
        BY <2>1, <3>1
      <3> QED
        BY <2>4, <3>1, <3>2
    <2> QED
      BY <2>1, <2>4, <2>5, <2>6
  <1>5. PICK f : FlattensUpTo(q, V, f)
    BY FlattenIs
  <1>6. /\ f \in [0..N -> T] /\ f[0] = <<>> /\ FlattenSeq(q) = f[N]
        /\ \A n \in 1..N : f[n] = f[n - 1] \o q[n]
    BY <1>1, <1>3, <1>5 DEF FlattensUpTo
  <1> DEFINE h == [n \in 0..N + 1 |-> IF n = 0 THEN <<>> ELSE x \o f[n - 1]]
  <1>7. h[0] = <<>> /\ \A n \in 0..N : h[n + 1] = x \o f[n]
    <2>1. N \in Nat
      BY <1>3
    <2>2. 0 \in 0..N + 1 /\ \A n \in 0..N : n + 1 \in 0..N + 1 /\ n + 1 # 0 /\ n + 1 - 1 = n
      BY <2>1
    <2> QED
      BY <2>2
  <1> HIDE DEF h
  <1>8. ASSUME NEW n \in 1..N + 1 PROVE h[n] = h[n - 1] \o r[n]
    <2>1. CASE n = 1
      <3>1. h[0 + 1] = x \o f[0] /\ 0 + 1 = 1 /\ 1 - 1 = 0
        BY <1>4, <1>7
      <3>2. x \o <<>> = x /\ <<>> \o x = x
        BY ConcatEmptySeq
      <3>3. h[1] = x \o <<>> /\ h[1 - 1] = <<>> /\ r[1] = x
        BY <1>4, <1>6, <1>7, <3>1
      <3> QED
        BY <2>1, <3>2, <3>3
    <2>2. CASE n # 1
      <3>1. PICK m \in 1..N : m = n - 1
        BY <1>4, <2>2
      <3>2. m + 1 = n /\ m - 1 + 1 = m /\ m \in 0..N /\ m - 1 \in 0..N
        BY <1>4, <3>1
      <3>3. h[n] = x \o f[m] /\ h[m] = x \o f[m - 1] /\ r[n] = q[m] /\ f[m] = f[m - 1] \o q[m]
        BY <1>4, <1>6, <1>7, <3>2
      <3>4. PICK y \in T : y = f[m - 1]
        BY <1>6, <3>2
      <3>5. PICK z \in T : z = q[m]
        BY <1>3, <1>4
      <3>6. (x \o y) \o z = x \o (y \o z)
        <4>1. y \in Seq(V) /\ z \in Seq(V)
          BY <1>1
        <4> QED
          BY <4>1, ConcatAssociative, SMTT(30)
      <3> QED
        BY <3>1, <3>3, <3>4, <3>5, <3>6
    <2> QED
      BY <2>1, <2>2
  <1>9. r \in Seq(Seq(V)) /\ Len(r) = N + 1
    BY <1>1, <1>4
  <1>10. FlattenSeq(r) = h[Len(r)]
    BY <1>7, <1>8, <1>9, FlattenTo
  <1>11. h[N + 1] = x \o f[N]
    <2>1. N \in 0..N
      BY <1>4
    <2> QED
      BY <1>7, <2>1
  <1> QED
    BY <1>2, <1>6, <1>9, <1>10, <1>11

LEMMA FrontAndLast ==
  ASSUME NEW S, NEW p \in Seq(S), NEW x \in S
  PROVE  Front(Append(p, x)) = p /\ Last(Append(p, x)) = x
  <1>1. PICK q : q = Append(p, x)
    OBVIOUS
  <1>2. PICK n : n = Len(p)
    OBVIOUS
  <1>3. n \in Nat /\ q \in Seq(S) /\ Len(q) = n + 1 /\ q[n + 1] = x /\ \A k \in 1..n : q[k] = p[k] /\ p[k] \in S
    BY <1>1, <1>2, AppendProperties
  <1>4. PICK r : r = SubSeq(q, 1, n)
    OBVIOUS
  <1>5. r \in Seq(S) /\ Len(r) = n /\ \A k \in 1..n : r[k] = q[k]
    <2>1. 1 \in Int /\ n \in Int /\ \A k \in 1..n : q[k] \in S
      BY <1>3
    <2>2. /\ r \in Seq(S) /\ Len(r) = IF 1 <= n THEN n - 1 + 1 ELSE 0
          /\ \A k \in 1..n - 1 + 1 : r[k] = q[1 + k - 1]
      BY <1>4, <2>1, SubSeqProperties
    <2>3. n - 1 + 1 = n /\ (IF 1 <= n THEN n - 1 + 1 ELSE 0) = n /\ \A k \in 1..n : 1 + k - 1 = k
      BY <1>3
    <2> QED
      BY <2>2, <2>3
  <1>6. r = p
    BY <1>2, <1>3, <1>5, SeqEqual
  <1>7. Len(q) - 1 = n
    BY <1>3
  <1> QED
    BY <1>1, <1>3, <1>4, <1>6, <1>7 DEF Front, Last

\* One piece more in the last part.
LEMMA FlattenLonger ==
  ASSUME NEW V, NEW q \in Seq(Seq(V)) \ {<<>>}, NEW x \in V
  PROVE  FlattenSeq(Append(Front(q), Append(Last(q), x))) = Append(FlattenSeq(q), x)
  <1>1. PICK T : T = Seq(V)
    OBVIOUS
  <1>2. PICK p \in Seq(T), l \in T : q = Append(p, l)
    BY <1>1, SequenceEmptyOrAppend
  <1>3. Front(q) = p /\ Last(q) = l
    BY <1>2, FrontAndLast
  <1>4. PICK m : m = Append(l, x)
    OBVIOUS
  <1>5. l \in Seq(V) /\ p \in Seq(Seq(V))
    BY <1>1
  <1>6. m \in Seq(V)
    BY <1>4, <1>5, AppendProperties
  <1>7. PICK f : f = FlattenSeq(p)
    OBVIOUS
  <1>8. f \in Seq(V)
    BY <1>5, <1>7, FlattenType
  <1>9. FlattenSeq(Append(p, m)) = f \o m /\ FlattenSeq(Append(p, l)) = f \o l
    BY <1>5, <1>6, <1>7, FlattenAppend
  <1>10. PICK o : o = <<x>>
    OBVIOUS
  <1>11. PICK g, k : g = f \o l /\ k = f \o m
    OBVIOUS
  <1>12. o \in Seq(V) /\ g \in Seq(V)
    <2>1. o \in Seq(V)
      BY <1>10
    <2>2. l \in Seq(V)
      BY <1>5
    <2> QED
      BY <1>8, <1>11, <2>1, <2>2, ConcatProperties
  <1>13. m = l \o o
    <2>1. l \in Seq(V)
      BY <1>5
    <2> QED
      BY <1>4, <1>10, <2>1, AppendIsConcat
  <1>14. g \o o = k
    <2>1. l \in Seq(V) /\ f \in Seq(V) /\ o \in Seq(V)
      BY <1>5, <1>8, <1>12
    <2> QED
      BY <1>11, <1>13, <2>1, SMTT(30)
  <1>15. Append(g, x) = g \o o
    BY <1>10, <1>12, AppendIsConcat
  <1>16. FlattenSeq(Append(p, m)) = k /\ FlattenSeq(q) = g
    BY <1>2, <1>9, <1>11
  <1>17. FlattenSeq(Append(p, m)) = Append(g, x)
    BY <1>14, <1>15, <1>16
  <1> QED
    BY <1>3, <1>4, <1>16, <1>17

\* The parts put together again are what is not of the set.
LEMMA FlattenSplit ==
  ASSUME NEW V, NEW s \in Seq(V), NEW S
  PROVE  FlattenSeq(Split(s, S)) = Without(s, S)
  <1>1. PICK f : SplitsUpTo(s, S, V, f)
    BY SplitIs
  <1>2. PICK h : KeepsUpTo(s, S, V, h)
    BY KeepsIs
  <1>3. PICK N : N = Len(s)
    OBVIOUS
  <1>4. PICK T : T = Seq(Seq(V)) \ {<<>>}
    OBVIOUS
  <1>5. N \in Nat /\ \A n \in 1..N : s[n] \in V
    BY <1>3
  <1>6. /\ f \in [0..N -> T] /\ f[0] = << <<>> >> /\ Split(s, S) = f[N]
        /\ \A n \in 1..N :
             /\ s[n] \in S => f[n] = Append(f[n - 1], <<>>)
             /\ s[n] \notin S => f[n] = Append(Front(f[n - 1]), Append(Last(f[n - 1]), s[n]))
    BY <1>1, <1>3, <1>4 DEF SplitsUpTo
  <1>7. /\ h \in [0..N -> Seq(V)] /\ h[0] = <<>> /\ Without(s, S) = h[N]
        /\ \A n \in 1..N : /\ s[n] \in S => h[n] = h[n - 1]
                           /\ s[n] \notin S => h[n] = Append(h[n - 1], s[n])
    BY <1>2, <1>3 DEF KeepsUpTo
  <1>8. PICK e \in Seq(V) : e = <<>>
    BY EmptySeq
  <1> DEFINE U == {n \in 0..N : FlattenSeq(f[n]) = h[n]}
  <1>9. 0 \in U
    <2>1. FlattenSeq(<<e>>) = e
      BY FlattenOne
    <2>2. 0 \in 0..N
      BY <1>5
    <2> QED
      BY <1>6, <1>7, <1>8, <2>1, <2>2
  <1>10. ASSUME NEW n \in 0..N - 1, n \in U PROVE n + 1 \in U
    <2>1. PICK m \in 1..N : m = n + 1
      BY <1>5
    <2>2. m - 1 = n /\ m \in 0..N /\ n \in 0..N
      BY <1>5, <2>1
    <2>3. PICK q \in T : q = f[n]
      BY <1>6, <2>2
    <2>4. PICK k \in Seq(V) : k = h[n]
      BY <1>7, <2>2
    <2>5. FlattenSeq(q) = k
      BY <1>10, <2>3, <2>4
    <2>6. q \in Seq(Seq(V)) \ {<<>>} /\ q \in Seq(Seq(V))
      BY <1>4
    <2>7. FlattenSeq(f[m]) = h[m]
      <3>1. CASE s[m] \in S
        <4>1. f[m] = Append(q, e) /\ h[m] = k
          BY <1>6, <1>7, <1>8, <2>2, <2>3, <2>4, <3>1
        <4>2. FlattenSeq(Append(q, e)) = FlattenSeq(q) \o e
          BY <2>6, FlattenAppend
        <4>3. k \o <<>> = k
          BY ConcatEmptySeq
        <4> QED
          BY <1>8, <2>5, <4>1, <4>2, <4>3
      <3>2. CASE s[m] \notin S
        <4>1. PICK x \in V : x = s[m]
          BY <1>5
        <4>2. f[m] = Append(Front(q), Append(Last(q), x)) /\ h[m] = Append(k, x)
          BY <1>6, <1>7, <2>2, <2>3, <2>4, <3>2, <4>1
        <4>3. FlattenSeq(Append(Front(q), Append(Last(q), x))) = Append(FlattenSeq(q), x)
          BY <2>6, FlattenLonger
        <4> QED
          BY <2>5, <4>2, <4>3
      <3> QED
        BY <3>1, <3>2
    <2> QED
      BY <2>1, <2>2, <2>7
  <1>11. 0..N \subseteq U
    <2> HIDE DEF U
    <2> QED
      BY <1>5, <1>9, <1>10, BoundedInduction
  <1>12. FlattenSeq(f[N]) = h[N]
    <2>1. N \in 0..N
      BY <1>5
    <2> QED
      BY <1>11, <2>1
  <1> QED
    BY <1>6, <1>7, <1>12

\* The empty parts make no difference.
LEMMA FlattenKept ==
  ASSUME NEW V, NEW s \in Seq(Seq(V))
  PROVE  FlattenSeq(Without(s, {<<>>})) = FlattenSeq(s)
  <1>1. PICK T : T = Seq(V)
    OBVIOUS
  <1>2. s \in Seq(T)
    BY <1>1
  <1>3. PICK h : KeepsUpTo(s, {<<>>}, T, h)
    BY <1>2, KeepsIs
  <1>4. PICK f : FlattensUpTo(s, V, f)
    BY FlattenIs
  <1>5. PICK N : N = Len(s)
    OBVIOUS
  <1>6. N \in Nat /\ \A n \in 1..N : s[n] \in T
    BY <1>2, <1>5
  <1>7. /\ h \in [0..N -> Seq(T)] /\ h[0] = <<>> /\ Without(s, {<<>>}) = h[N]
        /\ \A n \in 1..N : /\ s[n] = <<>> => h[n] = h[n - 1]
                           /\ s[n] # <<>> => h[n] = Append(h[n - 1], s[n])
    <2>1. PICK E : E = {<<>>}
      OBVIOUS
    <2>2. /\ h \in [0..N -> Seq(T)] /\ h[0] = <<>> /\ Without(s, E) = h[N]
          /\ \A n \in 1..N : /\ s[n] \in E => h[n] = h[n - 1]
                             /\ s[n] \notin E => h[n] = Append(h[n - 1], s[n])
      BY <1>3, <1>5, <2>1 DEF KeepsUpTo
    <2>3. \A x : x \in E <=> x = <<>>
      BY <2>1
    <2> QED
      BY <2>1, <2>2, <2>3
  <1>8. /\ f \in [0..N -> T] /\ f[0] = <<>> /\ FlattenSeq(s) = f[N]
        /\ \A n \in 1..N : f[n] = f[n - 1] \o s[n]
    BY <1>1, <1>4, <1>5 DEF FlattensUpTo
  <1> DEFINE U == {n \in 0..N : FlattenSeq(h[n]) = f[n]}
  <1>9. 0 \in U
    BY <1>6, <1>7, <1>8, FlattenEmpty
  <1>10. ASSUME NEW n \in 0..N - 1, n \in U PROVE n + 1 \in U
    <2>1. PICK m \in 1..N : m = n + 1
      BY <1>6
    <2>2. m - 1 = n /\ m \in 0..N /\ n \in 0..N
      BY <1>6, <2>1
    <2>3. PICK q \in Seq(T) : q = h[n]
      BY <1>7, <2>2
    <2>4. PICK k \in T : k = f[n]
      BY <1>8, <2>2
    <2>5. PICK x \in T : x = s[m]
      BY <1>6
    <2>6. FlattenSeq(q) = k /\ f[m] = k \o x
      BY <1>8, <1>10, <2>2, <2>3, <2>4, <2>5
    <2>7. k \in Seq(V) /\ x \in Seq(V) /\ q \in Seq(Seq(V))
      BY <1>1
    <2>8. FlattenSeq(h[m]) = f[m]
      <3>1. CASE x = <<>>
        <4>1. h[m] = q
          BY <1>7, <2>2, <2>3, <2>5, <3>1
        <4>2. k \o <<>> = k
          BY <2>7, ConcatEmptySeq
        <4> QED
          BY <2>6, <3>1, <4>1, <4>2
      <3>2. CASE x # <<>>
        <4>1. h[m] = Append(q, x)
          BY <1>7, <2>2, <2>3, <2>5, <3>2
        <4>2. FlattenSeq(Append(q, x)) = FlattenSeq(q) \o x
          BY <2>7, FlattenAppend
        <4> QED
          BY <2>6, <4>1, <4>2
      <3> QED
        BY <3>1, <3>2
    <2> QED
      BY <2>1, <2>2, <2>8
  <1>11. 0..N \subseteq U
    <2> HIDE DEF U
    <2> QED
      BY <1>6, <1>9, <1>10, BoundedInduction
  <1>12. FlattenSeq(h[N]) = f[N]
    <2>1. N \in 0..N
      BY <1>6
    <2> QED
      BY <1>11, <2>1
  <1> QED
    BY <1>7, <1>8, <1>12

\* The only part that is not empty is what is not of the set.
LEMMA OnePart ==
  ASSUME NEW V, NEW s \in Seq(V), NEW S, Len(Without(Split(s, S), {<<>>})) = 1
  PROVE  Without(Split(s, S), {<<>>}) = <<Without(s, S)>>
  <1>1. PICK T : T = Seq(V)
    OBVIOUS
  <1>2. PICK q : q = Split(s, S)
    OBVIOUS
  <1>3. q \in Seq(T) /\ q \in Seq(Seq(V))
    BY <1>1, <1>2, SplitType
  <1>4. PICK r : r = Without(q, {<<>>})
    OBVIOUS
  <1>5. r \in Seq(T) /\ Len(r) = 1
    BY <1>2, <1>3, <1>4, SplitType
  <1>6. PICK u \in T : u = r[1]
    <2>1. 1 \in 1..Len(r)
      BY <1>5
    <2> QED
      BY <1>5, <2>1, ElementOfSeq
  <1>7. r = <<u>>
    BY <1>5, <1>6
  <1>8. FlattenSeq(r) = FlattenSeq(q) /\ FlattenSeq(q) = Without(s, S)
    BY <1>2, <1>3, <1>4, FlattenKept, FlattenSplit
  <1>9. FlattenSeq(<<u>>) = u
    BY <1>1, FlattenOne
  <1> QED
    BY <1>2, <1>4, <1>7, <1>8, <1>9

\* Everything that is not of the set is kept, and nothing else is changed.
LEMMA AllKept ==
  ASSUME NEW V, NEW s \in Seq(V), NEW S, \A j \in 1..Len(s) : s[j] \notin S
  PROVE  Without(s, S) = s
  <1>1. PICK h : KeepsUpTo(s, S, V, h)
    BY KeepsIs
  <1>2. PICK N : N = Len(s)
    OBVIOUS
  <1>3. /\ N \in Nat /\ h \in [0..N -> Seq(V)] /\ h[0] = <<>> /\ Without(s, S) = h[N]
        /\ \A n \in 1..N : h[n] = Append(h[n - 1], s[n])
    BY <1>1, <1>2 DEF KeepsUpTo
  <1> DEFINE First(n) == Len(h[n]) = n /\ \A k \in 1..n : h[n][k] = s[k]
             U == {n \in 0..N : First(n)}
  <1>4. 0 \in U
    BY <1>3
  <1>5. ASSUME NEW n \in 0..N - 1, n \in U PROVE n + 1 \in U
    <2>1. PICK m \in 1..N : m = n + 1
      BY <1>3
    <2>2. m - 1 = n /\ m \in 0..N /\ n \in 0..N /\ n \in Nat
      BY <1>3, <2>1
    <2>3. PICK q \in Seq(V) : q = h[n]
      BY <1>3, <2>2
    <2>4. PICK x \in V : x = s[m]
      BY <1>2
    <2>5. PICK r : r = Append(q, x)
      OBVIOUS
    <2>6. h[m] = r
      BY <1>3, <2>2, <2>3, <2>4, <2>5
    <2>7. Len(q) = n /\ \A k \in 1..n : q[k] = s[k]
      BY <1>5, <2>3
    <2>8. Len(r) = m /\ r[m] = x /\ \A k \in 1..n : r[k] = q[k]
      BY <2>1, <2>5, <2>7, AppendProperties
    <2>9. \A k \in 1..m : k = m \/ k \in 1..n
      BY <2>1, <2>2
    <2>10. First(m)
      BY <2>4, <2>6, <2>7, <2>8, <2>9
    <2> HIDE DEF First
    <2> QED
      BY <2>1, <2>2, <2>10
  <1>6. 0..N \subseteq U
    <2> HIDE DEF U
    <2> QED
      BY <1>3, <1>4, <1>5, BoundedInduction
  <1>7. First(N)
    <2>1. N \in 0..N
      BY <1>3
    <2> HIDE DEF First
    <2> QED
      BY <1>6, <2>1
  <1>8. PICK r \in Seq(V) : r = h[N]
    <2>1. N \in 0..N
      BY <1>3
    <2> QED
      BY <1>3, <2>1
  <1> QED
    BY <1>2, <1>3, <1>7, <1>8, SeqEqual

\* What is not of the set stays where it is between the parts of a sequence.
LEMMA KeptInTurn ==
  ASSUME NEW V, NEW s \in Seq(V), NEW t \in Seq(V), NEW S
  PROVE  Without(s \o t, S) = Without(s, S) \o Without(t, S)
  <1>1. PICK u : u = s \o t
    OBVIOUS
  <1>2. PICK M, N : M = Len(s) /\ N = Len(t)
    OBVIOUS
  <1>3. M \in Nat /\ N \in Nat /\ u \in Seq(V) /\ Len(u) = M + N
    BY <1>1, <1>2, ConcatProperties
  <1>4. (\A n \in 1..M : u[n] = s[n]) /\ \A n \in 1..N : u[M + n] = t[n] /\ t[n] \in V
    <2>1. \A n \in 1..M + N : u[n] = IF n <= M THEN s[n] ELSE t[n - M]
      BY <1>1, <1>2, ConcatProperties
    <2>2. ASSUME NEW n \in 1..M PROVE u[n] = s[n]
      <3>1. n \in 1..M + N /\ n <= M
        BY <1>3
      <3> QED
        BY <2>1, <3>1
    <2>3. ASSUME NEW n \in 1..N PROVE u[M + n] = t[n] /\ t[n] \in V
      <3>1. M + n \in 1..M + N /\ ~(M + n <= M) /\ M + n - M = n
        BY <1>3
      <3>2. t[n] \in V
        BY <1>2
      <3>3. PICK k \in 1..M + N : k = M + n
        BY <3>1
      <3>4. u[k] = t[k - M]
        BY <2>1, <3>1, <3>3
      <3>5. k - M = n
        BY <1>3, <3>3
      <3>6. u[k] = t[n]
        BY <3>4, <3>5
      <3> QED
        BY <3>2, <3>3, <3>6
    <2> QED
      BY <2>2, <2>3
  <1>5. PICK f : KeepsUpTo(s, S, V, f)
    BY KeepsIs
  <1>6. PICK g : KeepsUpTo(t, S, V, g)
    BY KeepsIs
  <1>7. PICK h : KeepsUpTo(u, S, V, h)
    BY <1>3, KeepsIs
  <1>8. /\ f \in [0..M -> Seq(V)] /\ f[0] = <<>> /\ Without(s, S) = f[M]
        /\ \A n \in 1..M : /\ s[n] \in S => f[n] = f[n - 1]
                           /\ s[n] \notin S => f[n] = Append(f[n - 1], s[n])
    BY <1>2, <1>5 DEF KeepsUpTo
  <1>9. /\ g \in [0..N -> Seq(V)] /\ g[0] = <<>> /\ Without(t, S) = g[N]
        /\ \A n \in 1..N : /\ t[n] \in S => g[n] = g[n - 1]
                           /\ t[n] \notin S => g[n] = Append(g[n - 1], t[n])
    BY <1>2, <1>6 DEF KeepsUpTo
  <1>10. /\ h[0] = <<>> /\ Without(u, S) = h[M + N]
         /\ \A n \in 1..M + N : /\ u[n] \in S => h[n] = h[n - 1]
                                /\ u[n] \notin S => h[n] = Append(h[n - 1], u[n])
    BY <1>3, <1>7 DEF KeepsUpTo
  <1> DEFINE U == {n \in 0..M : h[n] = f[n]}
             W == {n \in 0..N : h[M + n] = f[M] \o g[n]}
  <1>11. ASSUME NEW n \in 0..M - 1, n \in U PROVE n + 1 \in U
    <2>1. PICK m \in 1..M : m = n + 1
      BY <1>3
    <2>2. m - 1 = n /\ m \in 0..M /\ m \in 1..M + N
      BY <1>3, <2>1
    <2>3. h[n] = f[n] /\ u[m] = s[m]
      BY <1>4, <1>11
    <2>4. h[m] = f[m]
      BY <1>8, <1>10, <2>2, <2>3
    <2> QED
      BY <2>1, <2>2, <2>4
  <1>12. h[M] = f[M]
    <2>1. 0 \in U
      BY <1>3, <1>8, <1>10
    <2>2. 0..M \subseteq U
      <3> HIDE DEF U
      <3> QED
        BY <1>3, <1>11, <2>1, BoundedInduction
    <2>3. M \in 0..M
      BY <1>3
    <2> QED
      BY <2>2, <2>3
  <1>13. PICK a \in Seq(V) : a = f[M]
    <2>1. M \in 0..M
      BY <1>3
    <2> QED
      BY <1>8, <2>1
  <1>14. ASSUME NEW n \in 0..N - 1, n \in W PROVE n + 1 \in W
    <2>1. PICK m \in 1..N : m = n + 1
      BY <1>3
    <2>2. m - 1 = n /\ m \in 0..N /\ n \in 0..N
      BY <1>3, <2>1
    <2>3. PICK j \in 1..M + N : j = M + m
      BY <1>3
    <2>4. j - 1 = M + n
      BY <1>3, <2>1, <2>3
    <2>5. PICK x \in V : x = t[m]
      BY <1>4
    <2>6. u[j] = x
      BY <1>4, <2>3, <2>5
    <2>7. PICK b \in Seq(V) : b = g[n]
      BY <1>9, <2>2
    <2>8. h[M + n] = a \o b
      BY <1>13, <1>14, <2>7
    <2>9. h[j] = a \o g[m]
      <3>1. CASE x \in S
        <4>1. g[m] = b /\ h[j] = h[M + n]
          BY <1>9, <1>10, <2>2, <2>4, <2>5, <2>6, <2>7, <3>1
        <4> QED
          BY <2>8, <4>1
      <3>2. CASE x \notin S
        <4>1. g[m] = Append(b, x) /\ h[j] = Append(a \o b, x)
          BY <1>9, <1>10, <2>2, <2>4, <2>5, <2>6, <2>7, <2>8, <3>2
        <4>2. PICK c, w, o : c = a \o b /\ w = Append(b, x) /\ o = <<x>>
          OBVIOUS
        <4>3. PICK v : v = a \o w
          OBVIOUS
        <4>4. o \in Seq(V) /\ c \in Seq(V)
          <5>1. o \in Seq(V)
            BY <4>2
          <5> QED
            BY <4>2, <5>1, ConcatProperties
        <4>5. w = b \o o /\ Append(c, x) = c \o o
          BY <4>2, <4>4, AppendIsConcat
        <4>6. c \o o = v
          BY <4>2, <4>3, <4>4, <4>5, SMTT(30)
        <4>7. g[m] = w /\ h[j] = Append(c, x)
          BY <4>1, <4>2
        <4> QED
          BY <4>3, <4>5, <4>6, <4>7
      <3> QED
        BY <3>1, <3>2
    <2> QED
      BY <1>13, <2>1, <2>2, <2>3, <2>9
  <1>15. h[M + N] = a \o g[N]
    <2>1. a \o <<>> = a
      BY ConcatEmptySeq
    <2>2. 0 \in 0..N /\ M + 0 = M
      BY <1>3
    <2>3. 0 \in W
      BY <1>9, <1>12, <1>13, <2>1, <2>2
    <2>4. 0..N \subseteq W
      <3> HIDE DEF W
      <3> QED
        BY <1>3, <1>14, <2>3, BoundedInduction
    <2>5. N \in 0..N
      BY <1>3
    <2> QED
      BY <1>13, <2>4, <2>5
  <1> QED
    BY <1>1, <1>8, <1>9, <1>10, <1>13, <1>15

\* Every element is kept.
LEMMA EachKept ==
  ASSUME NEW V, NEW s \in Seq(V), NEW S, NEW j \in 1..Len(s), s[j] \notin S
  PROVE  \E k \in 1..Len(Without(s, S)) : Without(s, S)[k] = s[j]
  <1>1. PICK h : KeepsUpTo(s, S, V, h)
    BY KeepsIs
  <1>2. PICK N : N = Len(s)
    OBVIOUS
  <1>3. /\ N \in Nat /\ h \in [0..N -> Seq(V)] /\ Without(s, S) = h[N]
        /\ \A n \in 1..N : /\ s[n] \in S => h[n] = h[n - 1]
                           /\ s[n] \notin S => h[n] = Append(h[n - 1], s[n])
    BY <1>1, <1>2 DEF KeepsUpTo
  <1> DEFINE Has(n) == \E k \in 1..Len(h[n]) : h[n][k] = s[j]
             U == {n \in 0..N : j <= n => Has(n)}
  <1>4. 0 \in U
    BY <1>3
  <1>5. ASSUME NEW n \in 0..N - 1, n \in U PROVE n + 1 \in U
    <2>1. PICK m \in 1..N : m = n + 1
      BY <1>3
    <2>2. m - 1 = n /\ m \in 0..N /\ n \in 0..N
      BY <1>3, <2>1
    <2>3. PICK q \in Seq(V) : q = h[n]
      BY <1>3, <2>2
    <2>4. PICK x \in V : x = s[m]
      BY <1>2
    <2>5. PICK r : r = Append(q, x)
      OBVIOUS
    <2>6. Len(r) = Len(q) + 1 /\ r[Len(q) + 1] = x /\ (\A k \in 1..Len(q) : r[k] = q[k]) /\ Len(q) \in Nat
      BY <2>5, AppendProperties
    <2>7. ASSUME j <= m PROVE Has(m)
      <3>1. CASE s[m] \in S
        <4>1. h[m] = h[n]
          BY <1>3, <2>2, <3>1
        <4>2. j # m
          BY <3>1
        <4>3. j <= n
          BY <2>1, <2>7, <4>2
        <4>4. Has(n)
          BY <1>5, <4>3
        <4> QED
          BY <4>1, <4>4
      <3>2. CASE s[m] \notin S
        <4>1. h[m] = r
          BY <1>3, <2>2, <2>3, <2>4, <2>5, <3>2
        <4>2. CASE j = m
          <5>1. Len(q) + 1 \in 1..Len(r)
            BY <2>6
          <5> QED
            BY <2>4, <2>6, <4>1, <4>2, <5>1
        <4>3. CASE j # m
          <5>1. j <= n
            BY <2>1, <2>7, <4>3
          <5>2. PICK k \in 1..Len(q) : q[k] = s[j]
            BY <1>5, <2>3, <5>1
          <5>3. k \in 1..Len(r) /\ r[k] = s[j]
            BY <2>6, <5>2
          <5> QED
            BY <4>1, <5>3
        <4> QED
          BY <4>2, <4>3
      <3> QED
        BY <3>1, <3>2
    <2> HIDE DEF Has
    <2> QED
      BY <2>1, <2>2, <2>7
  <1>6. 0..N \subseteq U
    <2> HIDE DEF U
    <2> QED
      BY <1>3, <1>4, <1>5, BoundedInduction
  <1>7. N \in 0..N /\ j <= N
    BY <1>2, <1>3
  <1>8. Has(N)
    <2> HIDE DEF Has
    <2> QED
      BY <1>6, <1>7
  <1> QED
    BY <1>3, <1>8

DigitSet == {"0", "1", "2", "3", "4", "5", "6", "7", "8", "9"}

LEMMA DigitIs ==
  ASSUME NEW x, IsDigit(x)
  PROVE  /\ x \in DigitSet /\ Value(x) \in Nat
         /\ IsWordPiece(x) /\ x # "-" /\ x # "+"
  <1>1. x \in DigitSet
    BY DEF IsDigit, Contains, Digits, DigitSet
  <1>2. PICK n \in 0..9 : Digits[n + 1] = x
    BY <1>1 DEF DigitSet, Digits
  <1>3. Value(x) \in 0..9
    BY <1>2 DEF Value
  <1>4. IsWordPiece(x) /\ x # "-" /\ x # "+"
    BY <1>1 DEF DigitSet, IsWordPiece, Space, Delimiters
  <1> QED
    BY <1>1, <1>3, <1>4

LEMMA SpaceIsNoDigit == ~IsDigit(Space)
  <1>1. Space \notin DigitSet
    BY DEF DigitSet, Space
  <1> QED
    BY <1>1, DigitIs

\* The number that digits are is a natural number.
LEMMA NumberIs ==
  ASSUME NEW V, NEW s \in Seq(V), \A k \in 1..Len(s) : IsDigit(s[k])
  PROVE  NumberOf(s) \in Nat
  <1> DEFINE N == Len(s)
             g == [p \in (1..N) \X Nat |-> 10 * p[2] + Value(s[p[1]])]
             Body(h) == [n \in 0..N |-> IF n = 0 THEN 0 ELSE 10 * h[n - 1] + Value(s[n])]
             f == CHOOSE h : h = Body(h)
  <1>1. N \in Nat /\ \A n \in 1..N : Value(s[n]) \in Nat
    BY DigitIs
  <1>2. g \in Steps(N, Nat)
    BY <1>1 DEF Steps
  <1>3. \E h \in [0..N -> Nat] : h[0] = 0 /\ \A n \in 1..N : h[n] = g[<<n, h[n - 1]>>]
    <2>1. PICK K, W : K = N /\ W = Nat
      OBVIOUS
    <2>2. PICK G \in Steps(K, W) : G = g
      BY <1>2, <2>1
    <2>3. PICK x \in W : x = 0
      BY <2>1
    <2>4. K \in Nat
      BY <1>1, <2>1
    <2> HIDE DEF g, N, f, Body
    <2>5. \E h \in [0..K -> W] : h[0] = x /\ \A n \in 1..K : h[n] = G[<<n, h[n - 1]>>]
      BY <2>4, Iteration, SMTT(60)
    <2> QED
      BY <2>1, <2>2, <2>3, <2>5
  <1>4. PICK h \in [0..N -> Nat] : h[0] = 0 /\ \A n \in 1..N : h[n] = g[<<n, h[n - 1]>>]
    BY <1>3
  <1>5. ASSUME NEW n \in 1..N PROVE h[n] = 10 * h[n - 1] + Value(s[n])
    <2>1. n - 1 \in 0..N
      BY <1>1
    <2>2. PICK q \in Nat : q = h[n - 1]
      BY <1>4, <2>1
    <2>3. h[n] = g[<<n, q>>]
      BY <1>4, <2>2
    <2>4. g[<<n, q>>] = 10 * q + Value(s[n])
      OBVIOUS
    <2> HIDE DEF g, N
    <2> QED
      BY <2>2, <2>3, <2>4
  <1>6. h = Body(h)
    <2>1. \A n \in 0..N : n = 0 \/ (n \in 1..N /\ n # 0)
      BY <1>1
    <2> HIDE DEF g
    <2>2. \A n \in 0..N : h[n] = Body(h)[n]
      BY <1>4, <1>5, <2>1
    <2> QED
      BY <1>4, <2>2
  <1>7. f = Body(f)
    <2> HIDE DEF Body
    <2> QED
      BY <1>6
  <1>8. NumberOf(s) = f[N]
    BY DEF NumberOf
  <1>9. \A n \in 0..N : f[n] = IF n = 0 THEN 0 ELSE 10 * f[n - 1] + Value(s[n])
    <2> HIDE DEF f
    <2> QED
      BY <1>7
  <1> HIDE DEF f, g, Body
  <1> DEFINE U == {n \in 0..N : f[n] \in Nat}
  <1>10. 0 \in U
    BY <1>1, <1>9
  <1>11. ASSUME NEW n \in 0..N - 1, n \in U PROVE n + 1 \in U
    <2>1. PICK m \in 1..N : m = n + 1
      BY <1>1
    <2>2. m - 1 = n /\ m \in 0..N /\ m # 0
      BY <1>1, <2>1
    <2>3. f[m] = 10 * f[n] + Value(s[m])
      BY <1>9, <2>2
    <2>4. f[m] \in Nat
      BY <1>1, <1>11, <2>3
    <2> QED
      BY <2>1, <2>2, <2>4
  <1>12. 0..N \subseteq U
    <2> HIDE DEF U
    <2> QED
      BY <1>1, <1>10, <1>11, BoundedInduction
  <1> QED
    BY <1>1, <1>8, <1>12

-----------------------------------------------------------------------------
(* The words from a position on, whatever is between them.                 *)

\* a text whose delimiters are taken for spaces
Blanked(s) == [k \in DOMAIN s |-> IF s[k] \in Delimiters THEN Space ELSE s[k]]

Remaining(s, i) == ParseWordList(Blanked(s))[i].words

LEMMA BlankedIs ==
  ASSUME NEW s \in Texts
  PROVE  /\ Blanked(s) \in Texts /\ Len(Blanked(s)) = Len(s)
         /\ \A k \in 1..Len(s) :
              /\ s[k] \in Boundaries => Blanked(s)[k] = Space
              /\ s[k] \notin Boundaries => Blanked(s)[k] = s[k]
              /\ Blanked(s)[k] \notin Delimiters
  <1>1. PICK N : N = Len(s)
    OBVIOUS
  <1>2. N \in Nat /\ DOMAIN s = 1..N /\ \A k \in 1..N : s[k] \in Pieces
    BY <1>1 DEF Texts
  <1>3. Blanked(s) = [k \in 1..N |-> IF s[k] \in Delimiters THEN Space ELSE s[k]]
    BY <1>2 DEF Blanked
  <1>4. Space \in Pieces /\ Space \notin Delimiters
    BY WordPieceFacts DEF Pieces
  <1>5. Blanked(s) \in [1..N -> Pieces]
    BY <1>2, <1>3, <1>4
  <1>6. Blanked(s) \in Seq(Pieces) /\ Len(Blanked(s)) = N
    BY <1>2, <1>5
  <1> QED
    BY <1>1, <1>3, <1>4, <1>6 DEF Texts, Boundaries

\* Spaces make no difference to what is read behind them.
LEMMA SpacesSkipped ==
  ASSUME NEW t \in Texts, NEW a \in 1..Len(t) + 1, NEW b \in a..Len(t) + 1, Spaces(t, a, b)
  PROVE  ParseWordList(t)[a] = ParseWordList(t)[b]
  <1>1. PICK j : j = SkipSpaces(t, b)
    OBVIOUS
  <1>2. Len(t) \in Nat /\ t \in Seq(Pieces) /\ b \in 1..Len(t) + 1
    BY DEF Texts
  <1>3. j \in b..Len(t) + 1 /\ (j = Len(t) + 1 \/ t[j] # Space) /\ Spaces(t, b, j)
    BY <1>1, <1>2, SkipSpacesIs
  <1>4. a \in Nat /\ b \in Nat /\ j \in Nat /\ a <= b /\ b <= j /\ j \in a..Len(t) + 1
    BY <1>2, <1>3
  <1>5. Spaces(t, a, j)
    BY <1>3, <1>4, SpacesJoin
  <1>6. SkipSpaces(t, a) = j
    BY <1>2, <1>3, <1>4, <1>5, SkipSpacesTo
  <1>7. ParseWordList(t)[a] = WordsFrom(t, ParseWordList(t), j)
        /\ ParseWordList(t)[b] = WordsFrom(t, ParseWordList(t), j)
    BY <1>1, <1>2, <1>6, ParseWordListIs
  <1> QED
    BY <1>7

LEMMA NothingAtTheEnd ==
  ASSUME NEW t \in Texts
  PROVE  ParseWordList(t)[Len(t) + 1].words = <<>>
  <1>1. PICK n : n = Len(t) + 1
    OBVIOUS
  <1>2. Len(t) \in Nat /\ t \in Seq(Pieces) /\ n \in 1..Len(t) + 1 /\ n \in n..Len(t) + 1
    BY <1>1 DEF Texts
  <1>3. Spaces(t, n, n) /\ Wordy(t, n, n)
    BY <1>2 DEF Spaces, Wordy
  <1>4. SkipSpaces(t, n) = n
    BY <1>1, <1>2, <1>3, SkipSpacesTo
  <1>5. WordEnd(t, n) = n
    BY <1>1, <1>2, <1>3, WordEndTo
  <1>6. NoWord(t, n)
    BY <1>4, <1>5 DEF NoWord
  <1>7. ParseWordList(t)[n] = WordsFrom(t, ParseWordList(t), SkipSpaces(t, n))
    BY <1>2, ParseWordListIs
  <1>8. ParseWordList(t)[n] = [words |-> <<>>, at |-> SkipSpaces(t, n)]
    BY <1>6, <1>7, WordsFromCases
  <1> QED
    BY <1>1, <1>8

\* A word is read, and then what is behind it.
LEMMA WordRead ==
  ASSUME NEW t \in Texts, \A k \in 1..Len(t) : t[k] \notin Delimiters,
         NEW b \in 1..Len(t) + 1, NEW e, e = WordEnd(t, b), b # e
  PROVE  /\ e \in b + 1..Len(t) + 1 /\ SubSeq(t, b, e - 1) \in Words
         /\ ParseWordList(t)[e].words \in Seq(Words)
         /\ ParseWordList(t)[b].words = <<SubSeq(t, b, e - 1)>> \o ParseWordList(t)[e].words
  <1>1. PICK f : f = ParseWordList(t)
    OBVIOUS
  <1>2. PICK N \in Nat : N = Len(t)
    BY DEF Texts
  <1>3. t \in Seq(Pieces) /\ DOMAIN t = 1..N /\ b \in Nat /\ Len(t) \in Nat
    BY <1>2 DEF Texts
  <1>4. e \in b..N + 1 /\ (e = N + 1 \/ ~IsWordPiece(t[e])) /\ Wordy(t, b, e)
    BY <1>2, <1>3, WordEndIs
  <1>5. e \in b + 1..N + 1 /\ b \in b..e - 1 /\ b \in 1..N
    BY <1>2, <1>3, <1>4
  <1>6. SkipSpaces(t, b) = b
    <2>1. t[b] # Space
      BY <1>4, <1>5, WordPieceFacts DEF Wordy
    <2>2. Spaces(t, b, b) /\ b \in b..Len(t) + 1
      BY <1>2, <1>3, <1>5 DEF Spaces
    <2> QED
      BY <1>2, <1>3, <2>1, <2>2, SkipSpacesTo
  <1>7. PICK w : w = SubSeq(t, b, e - 1)
    OBVIOUS
  <1>8. ~NoWord(t, b) /\ FirstWord(t, b) = w
    BY <1>6, <1>7 DEF NoWord, FirstWord
  <1>9. w \in Words
    BY <1>3, <1>8, FirstWordIs
  <1>10. e = N + 1 \/ (e \in 1..N /\ t[e] = Space)
    <2>1. ASSUME e # N + 1 PROVE e \in 1..N /\ t[e] = Space
      <3>1. e \in 1..N
        BY <1>2, <1>5, <2>1
      <3> QED
        BY <1>2, <1>4, <2>1, <3>1 DEF IsWordPiece
    <2> QED
      BY <2>1
  <1>11. PICK a : a = AfterWord(t, b)
    OBVIOUS
  <1>12. (e = N + 1 /\ a = e) \/ (e \in 1..N /\ a = e + 1 /\ Spaces(t, e, a))
    <2>1. a = IF Is(t, e, Space) THEN e + 1 ELSE e
      BY <1>6, <1>11 DEF AfterWord, SkipOneSpace
    <2>2. CASE e = N + 1
      <3>1. ~Is(t, e, Space)
        BY <1>2, <1>3, <2>2 DEF Is
      <3> QED
        BY <2>1, <2>2, <3>1
    <2>3. CASE e \in 1..N /\ t[e] = Space
      <3>1. a = e + 1
        BY <1>3, <2>1, <2>3 DEF Is
      <3>2. \A k \in e..a - 1 : k = e
        BY <2>3, <3>1
      <3> QED
        BY <2>3, <3>1, <3>2 DEF Spaces
    <2> QED
      BY <1>10, <2>2, <2>3
  <1>13. a \in 1..N + 1 /\ e \in 1..N + 1 /\ a \in e..N + 1
    BY <1>2, <1>5, <1>12
  <1>14. f[e] = f[a]
    <2>1. CASE a = e
      BY <2>1
    <2>2. CASE Spaces(t, e, a)
      BY <1>1, <1>2, <1>13, <2>2, SpacesSkipped
    <2> QED
      BY <1>12, <2>1, <2>2
  <1>15. f[b] = WordsFrom(t, f, SkipSpaces(t, b))
    BY <1>1, <1>3, ParseWordListIs
  <1>16. PICK ws : ws = f[a].words
    OBVIOUS
  <1>17. ws \in Seq(Words)
    <2>1. f[a] \in WordResults(t)
      BY <1>1, <1>2, <1>3, <1>13, ParseWordListIs
    <2> QED
      BY <1>16, <2>1 DEF WordResults
  <1>18. f[b].words = <<w>> \o ws
    <2>1. CASE a = N + 1
      <3>1. LastWord(t, b)
        BY <1>2, <1>3, <1>11, <2>1 DEF LastWord
      <3>2. f[b] = [words |-> <<w>>, at |-> a]
        BY <1>8, <1>11, <1>15, <3>1, WordsFromCases
      <3>3. ws = <<>>
        BY <1>1, <1>2, <1>16, <2>1, NothingAtTheEnd
      <3>4. PICK o : o = <<w>>
        OBVIOUS
      <3>5. o \in Seq(Words)
        BY <1>9, <3>4
      <3>6. o \o <<>> = o
        BY <3>5, ConcatEmptySeq
      <3> QED
        BY <3>2, <3>3, <3>4, <3>6
    <2>2. CASE a # N + 1
      <3>1. a \in 1..N
        BY <1>2, <1>13, <2>2
      <3>2. ~LastWord(t, b)
        BY <1>2, <1>3, <1>11, <3>1 DEF LastWord
      <3>3. f[b] = [words |-> <<w>> \o ws, at |-> f[a].at]
        BY <1>8, <1>11, <1>15, <1>16, <3>2, WordsFromCases
      <3> QED
        BY <3>3
    <2> QED
      BY <2>1, <2>2
  <1> QED
    BY <1>1, <1>2, <1>5, <1>7, <1>9, <1>14, <1>16, <1>17, <1>18

\* The same of a text with delimiters.
LEMMA RemainingIs ==
  ASSUME NEW s \in Texts
  PROVE  /\ \A i \in 1..Len(s) + 1 : Remaining(s, i) \in Seq(Words)
         /\ Remaining(s, Len(s) + 1) = <<>>
         /\ Spelled(s, 1, s)
  <1>1. PICK t \in Texts : t = Blanked(s)
    BY BlankedIs
  <1>2. Len(t) = Len(s) /\ Len(s) \in Nat /\ t \in Seq(Pieces)
    BY <1>1, BlankedIs DEF Texts
  <1>3. ASSUME NEW i \in 1..Len(s) + 1 PROVE Remaining(s, i) \in Seq(Words)
    <2>1. ParseWordList(t)[i] \in WordResults(t)
      BY <1>2, ParseWordListIs
    <2> QED
      BY <1>1, <2>1 DEF WordResults, Remaining
  <1>4. Remaining(s, Len(s) + 1) = <<>>
    BY <1>1, <1>2, NothingAtTheEnd DEF Remaining
  <1>5. Spelled(s, 1, s)
    <2>1. 1 + Len(s) <= Len(s) + 1 /\ \A k \in 1..Len(s) : 1 + k - 1 = k
      BY <1>2
    <2> QED
      BY <2>1 DEF Spelled
  <1> QED
    BY <1>3, <1>4, <1>5

LEMMA RemainingBehind ==
  ASSUME NEW s \in Texts, NEW a \in 1..Len(s) + 1, NEW b \in a..Len(s) + 1,
         \A k \in a..b - 1 : s[k] \in Boundaries
  PROVE  Remaining(s, a) = Remaining(s, b)
  <1>1. PICK t \in Texts : t = Blanked(s)
    BY BlankedIs
  <1>2. Len(t) = Len(s) /\ Len(s) \in Nat
    BY <1>1, BlankedIs DEF Texts
  <1>3. \A k \in a..b - 1 : k \in 1..Len(s)
    BY <1>2
  <1>4. Spaces(t, a, b)
    BY <1>1, <1>3, BlankedIs DEF Spaces
  <1>5. ParseWordList(t)[a] = ParseWordList(t)[b]
    BY <1>2, <1>4, SpacesSkipped
  <1> QED
    BY <1>1, <1>5 DEF Remaining

LEMMA RemainingWord ==
  ASSUME NEW s \in Texts, NEW b \in 1..Len(s) + 1, NEW e, e = WordEnd(s, b), b # e
  PROVE  /\ e \in b + 1..Len(s) + 1 /\ SubSeq(s, b, e - 1) \in Words
         /\ Remaining(s, b) = <<SubSeq(s, b, e - 1)>> \o Remaining(s, e)
  <1>1. PICK t \in Texts : t = Blanked(s)
    BY BlankedIs
  <1>2. PICK N \in Nat : N = Len(s)
    BY DEF Texts
  <1>3. Len(t) = N /\ Len(s) \in Nat /\ b \in Nat /\ \A k \in 1..Len(t) : t[k] \notin Delimiters
    BY <1>1, <1>2, BlankedIs
  <1>4. e \in b..N + 1 /\ (e = N + 1 \/ ~IsWordPiece(s[e])) /\ Wordy(s, b, e)
    BY <1>2, WordEndIs
  <1>5. \A k \in b..e - 1 : k \in 1..N
    BY <1>2, <1>4
  <1>6. \A x : IsWordPiece(x) <=> x \notin Boundaries
    BY DEF IsWordPiece, Boundaries
  <1>7. \A k \in b..e - 1 : t[k] = s[k] /\ IsWordPiece(t[k])
    <2> TAKE k \in b..e - 1
    <2>1. s[k] \notin Boundaries /\ k \in 1..Len(s)
      BY <1>2, <1>4, <1>5, <1>6 DEF Wordy
    <2>2. t[k] = s[k]
      BY <1>1, <2>1, BlankedIs
    <2> QED
      BY <1>6, <2>1, <2>2
  <1>8. e = N + 1 \/ ~IsWordPiece(t[e])
    <2>1. ASSUME e # N + 1 PROVE ~IsWordPiece(t[e])
      <3>1. e \in 1..Len(s) /\ s[e] \in Boundaries
        BY <1>2, <1>4, <1>6, <2>1
      <3>2. t[e] = Space
        BY <1>1, <3>1, BlankedIs
      <3> QED
        BY <3>2, WordPieceFacts
    <2> QED
      BY <2>1
  <1>9. WordEnd(t, b) = e
    <2>1. Wordy(t, b, e)
      BY <1>7 DEF Wordy
    <2>2. b \in 1..Len(t) + 1 /\ e \in b..Len(t) + 1 /\ (e = Len(t) + 1 \/ ~IsWordPiece(t[e])) /\ Len(t) \in Nat
      BY <1>2, <1>3, <1>4, <1>8
    <2> QED
      BY <2>1, <2>2, WordEndTo
  <1>10. PICK w : w = SubSeq(t, b, e - 1)
    OBVIOUS
  <1>11. /\ e \in b + 1..N + 1 /\ w \in Words
         /\ ParseWordList(t)[b].words = <<w>> \o ParseWordList(t)[e].words
    <2>1. b \in 1..Len(t) + 1
      BY <1>2, <1>3
    <2> QED
      BY <1>3, <1>9, <1>10, <2>1, WordRead
  <1>12. w = SubSeq(s, b, e - 1)
    <2>1. PICK v : v = SubSeq(s, b, e - 1)
      OBVIOUS
    <2>2. s \in Seq(Pieces) /\ t \in Seq(Pieces) /\ b \in 1..Len(s) + 1 /\ e \in b..Len(s) + 1
          /\ Len(t) = Len(s)
      BY <1>2, <1>3, <1>4 DEF Texts
    <2>3. Wordy(t, b, e)
      BY <1>7 DEF Wordy
    <2>4. v \in Seq(Pieces) /\ Len(v) = e - b /\ \A k \in 1..e - b : v[k] = s[b + k - 1]
      BY <1>4, <2>1, <2>2, SubWord
    <2>5. w \in Seq(Pieces) /\ Len(w) = e - b /\ \A k \in 1..e - b : w[k] = t[b + k - 1]
      BY <1>10, <2>2, <2>3, SubWord
    <2>6. \A k \in 1..e - b : b + k - 1 \in b..e - 1
      BY <1>2, <1>4
    <2>7. \A k \in 1..e - b : w[k] = v[k]
      BY <1>7, <2>4, <2>5, <2>6
    <2>8. w = v
      BY <2>4, <2>5, <2>7, SeqEqual
    <2> QED
      BY <2>1, <2>8
  <1> QED
    BY <1>1, <1>2, <1>11, <1>12 DEF Remaining

\* What is read from the first position on are the words of the text.
LEMMA RemainingAll ==
  ASSUME NEW s \in Texts
  PROVE  Remaining(s, 1) = WordsIn(s)
  <1>1. PICK t \in Texts : t = Blanked(s)
    BY BlankedIs
  <1>2. PICK N \in Nat : N = Len(s)
    BY DEF Texts
  <1>3. PICK d : d = N + 1
    OBVIOUS
  <1>4. /\ Len(t) = N /\ t \in Seq(Pieces) /\ 1 \in 1..Len(s) + 1 /\ 1 \in 1..Len(t) + 1
        /\ d \in 1..Len(t) + 1 /\ d = 1 + Len(s) /\ d = Len(t) + 1
    BY <1>1, <1>2, <1>3, BlankedIs DEF Texts
  <1>5. PICK parts : parts = Split(s, Boundaries)
    OBVIOUS
  <1>6. PICK signs : IsDivided(s, 1, d, Boundaries, parts, signs)
    <2>1. Spelled(s, 1, s)
      BY RemainingIs
    <2>2. PICK w : w = Without(s, ToSet(s) \ Boundaries)
      OBVIOUS
    <2>3. IsDivided(s, 1, 1 + Len(s), Boundaries, Split(s, Boundaries), w)
      BY <1>4, <2>1, <2>2, Divides
    <2> QED
      BY <1>4, <1>5, <2>3
  <1>7. PICK start, to : Divided(s, 1, d, Boundaries, parts, signs, start, to)
    BY <1>6 DEF IsDivided
  <1>8. PICK n : n = Len(parts)
    OBVIOUS
  <1>9. /\ parts \in Seq(Texts) /\ parts # <<>> /\ signs \in Seq(Pieces) /\ Len(signs) = n - 1
        /\ start \in [1..n -> 1..Len(s) + 1] /\ to \in [1..n -> 1..Len(s) + 1]
        /\ start[1] = 1 /\ to[n] = d
        /\ \A k \in 1..n :
             /\ 1 <= start[k] /\ start[k] <= to[k] /\ to[k] <= d /\ to[k] = start[k] + Len(parts[k])
             /\ Spelled(s, start[k], parts[k]) /\ Free(s, start[k], to[k], Boundaries)
             /\ k + 1 \in 1..n =>
                  to[k] < d /\ s[to[k]] \in Boundaries /\ start[k + 1] = to[k] + 1
    BY <1>7, <1>8 DEF Divided
  <1>10. n \in Nat /\ n - 1 \in Nat
    BY <1>8, <1>9
  <1>11. PICK z : z = [k \in 1..n - 1 |-> Space]
    OBVIOUS
  <1>12. z \in Seq(Pieces) /\ Len(z) = n - 1 /\ \A k \in 1..n - 1 : z[k] = Space
    <2>1. Space \in Pieces
      BY DEF Pieces
    <2> QED
      BY <1>10, <1>11, <2>1
  <1>13. Space \in Boundaries
    BY DEF Boundaries
  <1>14. ASSUME NEW k \in 1..n
         PROVE  /\ 1 <= start[k] /\ start[k] <= to[k] /\ to[k] <= d /\ to[k] = start[k] + Len(parts[k])
                /\ Spelled(t, start[k], parts[k]) /\ Free(t, start[k], to[k], Boundaries)
                /\ k + 1 \in 1..n =>
                     to[k] < d /\ t[to[k]] \in Boundaries /\ start[k + 1] = to[k] + 1
                     /\ z[k] = t[to[k]]
    <2>1. PICK w \in Texts : w = parts[k]
      BY <1>8, <1>9
    <2>2. PICK a \in 1..N + 1 : a = start[k]
      BY <1>2, <1>9
    <2>3. PICK e \in 1..N + 1 : e = to[k]
      BY <1>2, <1>9
    <2>4. /\ a <= e /\ e <= d /\ e = a + Len(w) /\ Spelled(s, a, w) /\ Free(s, a, e, Boundaries)
          /\ k + 1 \in 1..n => e < d /\ s[e] \in Boundaries /\ start[k + 1] = e + 1
      BY <1>9, <2>1, <2>2, <2>3
    <2>5. \A j \in a..e - 1 : j \in 1..Len(s) /\ s[j] \notin Boundaries /\ t[j] = s[j]
      <3> TAKE j \in a..e - 1
      <3>1. j \in 1..Len(s) /\ s[j] \notin Boundaries
        BY <1>2, <2>4 DEF Free
      <3> QED
        BY <1>1, <3>1, BlankedIs
    <2>6. Free(t, a, e, Boundaries)
      BY <2>5 DEF Free
    <2>7. Spelled(t, a, w)
      <3>1. a + Len(w) <= N + 1
        BY <2>4
      <3>2. ASSUME NEW m \in 1..Len(w) PROVE t[a + m - 1] = w[m]
        <4>1. PICK j \in a..e - 1 : j = a + m - 1
          <5>1. Len(w) \in Nat
            BY DEF Texts
          <5> QED
            BY <2>4, <5>1
        <4>2. s[j] = w[m]
          BY <2>4, <4>1 DEF Spelled
        <4> QED
          BY <2>5, <4>1, <4>2
      <3> QED
        BY <1>4, <3>1, <3>2 DEF Spelled
    <2>8. ASSUME k + 1 \in 1..n PROVE t[e] = Space /\ z[k] = Space
      <3>1. e \in 1..Len(s) /\ s[e] \in Boundaries /\ k \in 1..n - 1
        BY <1>2, <1>3, <1>10, <2>4, <2>8
      <3> QED
        BY <1>1, <1>12, <3>1, BlankedIs
    <2> QED
      BY <1>13, <2>1, <2>2, <2>3, <2>4, <2>6, <2>7, <2>8
  <1>15. Divided(t, 1, d, Boundaries, parts, z, start, to)
    BY <1>2, <1>4, <1>8, <1>9, <1>12, <1>14 DEF Divided
  <1>16. Free(t, 1, d, Delimiters)
    <2>1. \A k \in 1..d - 1 : k \in 1..Len(s)
      BY <1>2, <1>3
    <2> QED
      BY <1>1, <2>1, BlankedIs DEF Free
  <1>17. PICK ws : ws = Without(parts, {<<>>})
    OBVIOUS
  <1>18. AreWords(t, 1, d, ws)
    BY <1>4, <1>15, <1>16, <1>17, DividedWords
  <1>19. Bounds(t, d)
    BY <1>4 DEF Bounds
  <1>20. ParseWordList(t)[1].words = ws
    BY <1>4, <1>18, <1>19, ReadsWords
  <1>21. WordsIn(s) = ws
    BY <1>5, <1>17 DEF WordsIn, Boundaries
  <1> QED
    BY <1>1, <1>20, <1>21 DEF Remaining

-----------------------------------------------------------------------------
(* What is parsed are the words from where the parser begins to where it   *)
(* leaves off.                                                             *)

\* the words ws are those from i to a
Gives(s, i, ws, a) ==
  /\ i \in 1..Len(s) + 1 /\ a \in 1..Len(s) + 1 /\ ws \in Seq(Words)
  /\ Remaining(s, i) = ws \o Remaining(s, a)

\* only spaces and delimiters are in s from a to b
Bare(s, a, b) == \A k \in a..b - 1 : s[k] \in Boundaries

LEMMA BareSpaces ==
  ASSUME NEW s, NEW a, NEW b, Spaces(s, a, b)
  PROVE  Bare(s, a, b)
  BY DEF Spaces, Bare, Boundaries

LEMMA GivesNone ==
  ASSUME NEW s \in Texts, NEW a \in 1..Len(s) + 1, NEW b \in a..Len(s) + 1, Bare(s, a, b)
  PROVE  Gives(s, a, <<>>, b)
  <1>1. Len(s) \in Nat /\ b \in 1..Len(s) + 1
    BY DEF Texts
  <1>2. Remaining(s, a) = Remaining(s, b)
    BY RemainingBehind DEF Bare
  <1>3. Remaining(s, b) \in Seq(Words)
    BY <1>1, RemainingIs
  <1>4. <<>> \o Remaining(s, b) = Remaining(s, b)
    BY <1>3, ConcatEmptySeq
  <1>5. <<>> \in Seq(Words)
    BY EmptySeq
  <1> QED
    BY <1>1, <1>2, <1>4, <1>5 DEF Gives

LEMMA GivesBoth ==
  ASSUME NEW s \in Texts, NEW i, NEW a, NEW c, NEW u, NEW v,
         Gives(s, i, u, a), Gives(s, a, v, c)
  PROVE  Gives(s, i, u \o v, c)
  <1>1. /\ i \in 1..Len(s) + 1 /\ a \in 1..Len(s) + 1 /\ c \in 1..Len(s) + 1
        /\ u \in Seq(Words) /\ v \in Seq(Words)
        /\ Remaining(s, i) = u \o Remaining(s, a) /\ Remaining(s, a) = v \o Remaining(s, c)
    BY DEF Gives
  <1>2. PICK x \in Seq(Words) : x = Remaining(s, c)
    BY <1>1, RemainingIs
  <1>3. (u \o v) \o x = u \o (v \o x)
    <2>1. u \in Seq(Words) /\ v \in Seq(Words)
      BY <1>1
    <2> QED
      BY <2>1, ConcatAssociative, SMTT(30)
  <1>4. u \o v \in Seq(Words)
    BY <1>1, ConcatProperties
  <1>5. PICK w : w = u \o v
    OBVIOUS
  <1>6. Remaining(s, i) = w \o Remaining(s, c)
    BY <1>1, <1>2, <1>3, <1>5
  <1>7. Gives(s, i, w, c)
    BY <1>1, <1>4, <1>5, <1>6 DEF Gives
  <1> QED
    BY <1>5, <1>7

LEMMA GivesBehind ==
  ASSUME NEW s \in Texts, NEW i, NEW a, NEW ws, Gives(s, i, ws, a),
         NEW c \in a..Len(s) + 1, Bare(s, a, c)
  PROVE  Gives(s, i, ws, c)
  <1>1. a \in 1..Len(s) + 1 /\ Len(s) \in Nat
    BY DEF Gives, Texts
  <1>2. Remaining(s, a) = Remaining(s, c)
    BY <1>1, RemainingBehind DEF Bare
  <1>3. c \in 1..Len(s) + 1
    BY <1>1
  <1> QED
    BY <1>2, <1>3 DEF Gives

LEMMA GivesAfter ==
  ASSUME NEW s \in Texts, NEW i \in 1..Len(s) + 1, NEW a \in i..Len(s) + 1, Bare(s, i, a),
         NEW c, NEW ws, Gives(s, a, ws, c)
  PROVE  Gives(s, i, ws, c)
  <1>1. Remaining(s, i) = Remaining(s, a)
    BY RemainingBehind DEF Bare
  <1> QED
    BY <1>1 DEF Gives

LEMMA GivesWord ==
  ASSUME NEW s \in Texts, NEW b \in 1..Len(s) + 1, NEW e, e = WordEnd(s, b), b # e
  PROVE  Gives(s, b, <<SubSeq(s, b, e - 1)>>, e)
  <1>1. PICK w : w = SubSeq(s, b, e - 1)
    OBVIOUS
  <1>2. e \in b + 1..Len(s) + 1 /\ w \in Words /\ Remaining(s, b) = <<w>> \o Remaining(s, e)
    BY <1>1, RemainingWord
  <1>3. e \in 1..Len(s) + 1
    BY <1>2
  <1>4. PICK o : o = <<w>>
    OBVIOUS
  <1>5. o \in Seq(Words)
    BY <1>2, <1>4
  <1>6. Gives(s, b, o, e)
    BY <1>2, <1>3, <1>4, <1>5 DEF Gives
  <1> QED
    BY <1>1, <1>4, <1>6

LEMMA SpacesGiveNone ==
  ASSUME NEW s \in Texts, NEW i \in 1..Len(s) + 1
  PROVE  /\ SkipSpaces(s, i) \in i..Len(s) + 1 /\ SkipSpaces(s, i) \in 1..Len(s) + 1
         /\ Bare(s, i, SkipSpaces(s, i))
  <1>1. PICK b : b = SkipSpaces(s, i)
    OBVIOUS
  <1>2. Len(s) \in Nat
    BY DEF Texts
  <1>3. b \in i..Len(s) + 1 /\ Spaces(s, i, b)
    BY <1>1, <1>2, SkipSpacesIs
  <1>4. Bare(s, i, b)
    BY <1>3, BareSpaces
  <1> QED
    BY <1>1, <1>2, <1>3, <1>4

\* A list of words.
LEMMA WordListGives ==
  ASSUME NEW s \in Texts, NEW i \in 1..Len(s) + 1
  PROVE  Gives(s, i, ParseWordList(s)[i].words, ParseWordList(s)[i].at)
  <1>1. PICK N \in Nat : N = Len(s) + 1
    BY DEF Texts
  <1>2. PICK f : f = ParseWordList(s)
    OBVIOUS
  <1>3. s \in Seq(Pieces) /\ Len(s) \in Nat /\ DOMAIN s = 1..Len(s)
    BY DEF Texts
  <1> DEFINE S == {j \in 1..N : Gives(s, j, f[j].words, f[j].at)}
  <1>4. ASSUME NEW j \in 1..N, \A k \in 1..N : k > j => k \in S
        PROVE  j \in S
    <2>1. PICK b : b = SkipSpaces(s, j)
      OBVIOUS
    <2>2. b \in j..Len(s) + 1 /\ b \in 1..Len(s) + 1 /\ Bare(s, j, b)
      BY <1>1, <2>1, SpacesGiveNone
    <2>3. f[j] = WordsFrom(s, f, SkipSpaces(s, j))
      BY <1>1, <1>2, <1>3, ParseWordListIs
    <2>4. CASE NoWord(s, j)
      <3>1. f[j] = [words |-> <<>>, at |-> b]
        BY <2>1, <2>3, <2>4, WordsFromCases
      <3>2. Gives(s, j, <<>>, b)
        BY <1>1, <2>2, GivesNone
      <3> QED
        BY <3>1, <3>2
    <2>5. CASE ~NoWord(s, j)
      <3>1. PICK e : e = WordEnd(s, b)
        OBVIOUS
      <3>2. b # e
        BY <2>1, <2>5, <3>1 DEF NoWord
      <3>3. PICK w : w = FirstWord(s, j)
        OBVIOUS
      <3>4. w = SubSeq(s, b, e - 1)
        BY <2>1, <3>1, <3>3 DEF FirstWord
      <3>5. PICK o : o = <<w>>
        OBVIOUS
      <3>6. Gives(s, b, o, e)
        BY <2>2, <3>1, <3>2, <3>4, <3>5, GivesWord
      <3>7. PICK a : a = AfterWord(s, j)
        OBVIOUS
      <3>8. a = IF Is(s, e, Space) THEN e + 1 ELSE e
        BY <2>1, <3>1, <3>7 DEF AfterWord, SkipOneSpace
      <3>9. e \in 1..Len(s) + 1 /\ e \in Nat
        BY <3>6, <1>3 DEF Gives
      <3>10. a \in e..Len(s) + 1 /\ Bare(s, e, a)
        <4>1. CASE Is(s, e, Space)
          <5>1. e \in 1..Len(s) /\ s[e] = Space /\ a = e + 1
            BY <1>3, <3>8, <4>1 DEF Is
          <5>2. \A k \in e..a - 1 : k = e
            BY <5>1
          <5> QED
            BY <1>3, <5>1, <5>2 DEF Bare, Boundaries
        <4>2. CASE ~Is(s, e, Space)
          <5>1. a = e /\ a \in e..Len(s) + 1
            BY <3>8, <3>9, <4>2, <1>3
          <5>2. \A k \in e..a - 1 : FALSE
            BY <3>9, <5>1
          <5> QED
            BY <5>1, <5>2 DEF Bare
        <4> QED
          BY <4>1, <4>2
      <3>11. Gives(s, b, o, a)
        BY <3>6, <3>10, GivesBehind
      <3>12. Gives(s, j, o, a)
        BY <1>1, <2>2, <3>11, GivesAfter
      <3>13. CASE LastWord(s, j)
        <4>1. f[j] = [words |-> o, at |-> a]
          BY <2>3, <2>5, <3>3, <3>5, <3>7, <3>13, WordsFromCases
        <4> QED
          BY <3>12, <4>1
      <3>14. CASE ~LastWord(s, j)
        <4>1. f[j] = [words |-> o \o f[a].words, at |-> f[a].at]
          BY <2>3, <2>5, <3>3, <3>5, <3>7, <3>14, WordsFromCases
        <4>2. a \in 1..N /\ a > j
          <5>1. a \in j + 1..Len(s) + 1
            BY <1>1, <1>3, <2>5, <3>7, FirstWordIs
          <5> QED
            BY <1>1, <5>1
        <4>3. Gives(s, a, f[a].words, f[a].at)
          BY <1>4, <4>2
        <4>4. PICK v, c : v = f[a].words /\ c = f[a].at
          OBVIOUS
        <4>5. PICK ov : ov = o \o v
          OBVIOUS
        <4>6. Gives(s, j, ov, c)
          BY <3>12, <4>3, <4>4, <4>5, GivesBoth
        <4>7. f[j].words = ov /\ f[j].at = c
          BY <4>1, <4>4, <4>5, SMTT(30)
        <4> QED
          BY <4>6, <4>7
      <3> QED
        BY <3>13, <3>14
    <2> QED
      BY <2>4, <2>5
  <1>5. 1..N \subseteq S
    <2> HIDE DEF S
    <2> QED
      BY <1>4, DownInduction
  <1> QED
    BY <1>1, <1>2, <1>5

\* A list of commands.
LEMMA CommandListGives ==
  ASSUME NEW s \in Texts, NEW i \in 1..Len(s) + 1
  PROVE  Gives(s, i, FlattenSeq(ParseCommandList(s)[i].commands), ParseCommandList(s)[i].at)
  <1>1. PICK N \in Nat : N = Len(s) + 1
    BY DEF Texts
  <1>2. PICK f : f = ParseCommandList(s)
    OBVIOUS
  <1>3. s \in Seq(Pieces) /\ Len(s) \in Nat /\ DOMAIN s = 1..Len(s)
    BY DEF Texts
  <1> DEFINE S == {j \in 1..N : Gives(s, j, FlattenSeq(f[j].commands), f[j].at)}
  <1>4. ASSUME NEW j \in 1..N, \A k \in 1..N : k > j => k \in S
        PROVE  j \in S
    <2>1. PICK b : b = SkipSpaces(s, j)
      OBVIOUS
    <2>2. b \in j..Len(s) + 1 /\ b \in 1..Len(s) + 1 /\ Bare(s, j, b)
      BY <1>1, <2>1, SpacesGiveNone
    <2>3. f[j] = CommandsFrom(s, f, FirstCommand(s, j))
      BY <1>1, <1>2, <1>3, ParseCommandListIs
    <2>4. PICK ws, e : ws = FirstCommand(s, j).words /\ e = FirstCommand(s, j).at
      OBVIOUS
    <2>5. Gives(s, b, ws, e)
      BY <2>1, <2>2, <2>4, WordListGives DEF FirstCommand
    <2>6. Gives(s, j, ws, e) /\ e \in 1..Len(s) + 1 /\ ws \in Seq(Words)
      <3>1. Gives(s, j, ws, e)
        BY <1>1, <2>2, <2>5, GivesAfter
      <3> QED
        BY <3>1 DEF Gives
    <2>7. CASE NoCommand(s, j)
      <3>1. f[j] = [commands |-> <<>>, at |-> e]
        BY <2>3, <2>4, <2>7, CommandsFromCases
      <3>2. ws = <<>>
        BY <2>4, <2>7 DEF NoCommand
      <3>3. PICK cs : cs = <<>>
        OBVIOUS
      <3>4. f[j].commands = cs /\ f[j].at = e
        BY <3>1, <3>3
      <3>5. FlattenSeq(f[j].commands) = ws /\ f[j].at = e
        BY <3>2, <3>3, <3>4, FlattenEmpty, Zenon
      <3> QED
        BY <2>6, <3>5
    <2>8. CASE ~NoCommand(s, j)
      <3>1. PICK a : a = AfterCommand(s, j)
        OBVIOUS
      <3>2. a \in e..Len(s) + 1 /\ Bare(s, e, a) /\ a \in 1..Len(s) + 1
        BY <2>4, <2>6, <3>1, SpacesGiveNone DEF AfterCommand
      <3>3. Gives(s, j, ws, a)
        BY <2>6, <3>2, GivesBehind
      <3>4. CASE LastCommand(s, j)
        <4>1. f[j] = [commands |-> <<ws>>, at |-> a]
          BY <2>3, <2>4, <2>8, <3>1, <3>4, CommandsFromCases
        <4>2. FlattenSeq(<<ws>>) = ws
          BY <2>6, FlattenOne
        <4>3. PICK cs : cs = <<ws>>
          OBVIOUS
        <4>4. f[j].commands = cs /\ f[j].at = a
          BY <4>1, <4>3
        <4>5. FlattenSeq(f[j].commands) = ws /\ f[j].at = a
          BY <4>2, <4>3, <4>4, Zenon
        <4> QED
          BY <3>3, <4>5
      <3>5. CASE ~LastCommand(s, j)
        <4>1. f[j] = [commands |-> <<ws>> \o f[a + 1].commands, at |-> f[a + 1].at]
          BY <2>3, <2>4, <2>8, <3>1, <3>5, CommandsFromCases
        <4>2. a + 1 \in 1..N /\ a + 1 > j
          <5>1. a + 1 \in j + 1..Len(s) + 1
            BY <1>1, <1>3, <3>1, <3>5, FirstCommandIs
          <5> QED
            BY <1>1, <5>1
        <4>3. PICK k : k = a + 1
          OBVIOUS
        <4>4. PICK cs, c : cs = f[k].commands /\ c = f[k].at
          OBVIOUS
        <4>5. cs \in Seq(Seq(Words))
          <5>1. f[k] \in CommandResults(s)
            BY <1>1, <1>2, <1>3, <4>2, <4>3, ParseCommandListIs
          <5>2. cs \in Seq(Seq(Words) \ {<<>>})
            BY <4>4, <5>1 DEF CommandResults, CommandLists
          <5> QED
            BY <5>2, SeqMonotonic
        <4>6. PICK v : v = FlattenSeq(cs)
          OBVIOUS
        <4>7. Gives(s, k, v, c)
          BY <1>4, <4>2, <4>3, <4>4, <4>6
        <4>8. k \in a..Len(s) + 1 /\ Bare(s, a, k)
          <5>1. s[a] = "|"
            BY <3>1, <3>5 DEF LastCommand, Is
          <5>2. "|" \in Boundaries
            BY DEF Boundaries, Delimiters
          <5>3. a \in Nat
            BY <1>3, <3>2
          <5>4. \A m \in a..k - 1 : m = a
            BY <4>3, <5>3
          <5>5. k \in a..Len(s) + 1
            BY <1>1, <1>3, <4>2, <4>3, <5>3
          <5> QED
            BY <5>1, <5>2, <5>4, <5>5 DEF Bare
        <4>9. Gives(s, j, ws, k)
          BY <3>3, <4>8, GivesBehind
        <4>10. PICK r : r = ws \o v
          OBVIOUS
        <4>11. Gives(s, j, r, c)
          BY <4>7, <4>9, <4>10, GivesBoth
        <4>12. FlattenSeq(<<ws>> \o cs) = ws \o FlattenSeq(cs)
          BY <2>6, <4>5, FlattenMore
        <4>13. PICK more : more = <<ws>> \o cs
          OBVIOUS
        <4>14. f[j].commands = more /\ f[j].at = c
          BY <4>1, <4>3, <4>4, <4>13, SMTT(30)
        <4>15. FlattenSeq(f[j].commands) = r /\ f[j].at = c
          BY <4>6, <4>10, <4>12, <4>13, <4>14, Zenon
        <4> QED
          BY <4>11, <4>15
      <3> QED
        BY <3>4, <3>5
    <2> QED
      BY <2>7, <2>8
  <1>5. 1..N \subseteq S
    <2> HIDE DEF S
    <2> QED
      BY <1>4, DownInduction
  <1> QED
    BY <1>1, <1>2, <1>5

\* One of two that is not in S.
LEMMA OneOfTwo ==
  ASSUME NEW V, NEW x \in V, NEW y \in V, NEW S
  PROVE  /\ x \in S /\ y \in S => Without(<<x, y>>, S) = <<>>
         /\ x \in S /\ y \notin S => Without(<<x, y>>, S) = <<y>>
         /\ x \notin S /\ y \in S => Without(<<x, y>>, S) = <<x>>
  <1>1. PICK s : s = <<x, y>>
    OBVIOUS
  <1>2. s \in Seq(V) /\ Len(s) = 2 /\ s[1] = x /\ s[2] = y
    BY <1>1
  <1>3. PICK h : KeepsUpTo(s, S, V, h)
    BY <1>2, KeepsIs
  <1>4. PICK p, q, r : p = h[0] /\ q = h[1] /\ r = h[2]
    OBVIOUS
  <1>5. 1 \in 1..2 /\ 2 \in 1..2 /\ 1 - 1 = 0 /\ 2 - 1 = 1
    OBVIOUS
  <1>6. /\ p = <<>> /\ Without(s, S) = r
        /\ x \in S => q = p
        /\ x \notin S => q = Append(p, x)
        /\ y \in S => r = q
        /\ y \notin S => r = Append(q, y)
    BY <1>2, <1>3, <1>4, <1>5 DEF KeepsUpTo
  <1>7. Append(<<>>, x) = <<x>> /\ Append(<<>>, y) = <<y>>
    OBVIOUS
  <1> QED
    BY <1>1, <1>6, <1>7, Zenon

\* The path behind a sign.
LEMMA PathGives ==
  ASSUME NEW s \in Texts, NEW i \in 1..Len(s) + 1
  PROVE  \E w \in Named :
           /\ ParsePath(s, i).path = Path(w)
           /\ Gives(s, i, IF w = <<>> THEN <<>> ELSE <<w>>, ParsePath(s, i).at)
  <1>1. PICK b : b = SkipSpaces(s, i)
    OBVIOUS
  <1>2. b \in i..Len(s) + 1 /\ b \in 1..Len(s) + 1 /\ Bare(s, i, b)
    BY <1>1, SpacesGiveNone
  <1>3. PICK e : e = WordEnd(s, b)
    OBVIOUS
  <1>4. s \in Seq(Pieces) /\ Len(s) \in Nat
    BY DEF Texts
  <1>5. e \in b..Len(s) + 1 /\ Wordy(s, b, e)
    BY <1>2, <1>3, <1>4, WordEndIs
  <1>6. PICK w : w = SubSeq(s, b, e - 1)
    OBVIOUS
  <1>7. w \in Seq(Pieces) /\ Len(w) = e - b /\ Wordy(w, 1, Len(w) + 1)
    BY <1>2, <1>4, <1>5, <1>6, SubWord
  <1>8. w \in Named
    BY <1>7 DEF Named, Texts
  <1>9. ParsePath(s, i) = [path |-> Path(w), at |-> e]
    BY <1>1, <1>3, <1>6 DEF ParsePath, PathFrom
  <1>10. PICK ws : ws = IF w = <<>> THEN <<>> ELSE <<w>>
    OBVIOUS
  <1>11. Gives(s, b, ws, e)
    <2>1. CASE w = <<>>
      <3>1. e = b
        BY <1>2, <1>4, <1>5, <1>7, <2>1
      <3>2. b \in b..Len(s) + 1 /\ Bare(s, b, b)
        BY <1>2, <1>4 DEF Bare
      <3>3. ws = <<>>
        BY <1>10, <2>1
      <3> QED
        BY <1>2, <3>1, <3>2, <3>3, GivesNone
    <2>2. CASE w # <<>>
      <3>1. e # b
        BY <1>2, <1>4, <1>5, <1>7, <2>2
      <3>2. ws = <<w>>
        BY <1>10, <2>2
      <3> QED
        BY <1>2, <1>3, <1>6, <3>1, <3>2, GivesWord
    <2> QED
      BY <2>1, <2>2
  <1>12. Gives(s, i, ws, e)
    BY <1>2, <1>11, GivesAfter
  <1> QED
    BY <1>8, <1>9, <1>10, <1>12

\* The words of a pipeline, as WordsOfTask takes them.
PipelineWords(p) ==
  FlattenSeq(p.commands) \o Without(<<Tail(p.input), Tail(p.output)>>, {<<>>})
WordsOfPipelines(task) == [n \in DOMAIN task |-> PipelineWords(task[n])]

LEMMA TailPath ==
  /\ Tail(NoPath) = <<>> /\ <<>> \in Named
  /\ \A x \in Paths : Tail(x) \in Named
  <1>1. Tail(NoPath) = <<>>
    BY DEF NoPath
  <1>2. PICK z : z = <<>>
    OBVIOUS
  <1>3. z \in Seq(Pieces) /\ Len(z) = 0
    BY <1>2
  <1>4. Wordy(z, 1, Len(z) + 1)
    BY <1>3 DEF Wordy
  <1>5. z \in Named
    BY <1>3, <1>4 DEF Named, Texts
  <1>6. ASSUME NEW x \in Paths PROVE Tail(x) \in Named
    <2>1. CASE x = NoPath
      BY <1>1, <1>2, <1>5, <2>1, Zenon
    <2>2. ASSUME NEW w \in Named, x = Path(w) PROVE Tail(x) \in Named
      BY <2>2, PathFacts, Zenon
    <2> QED
      BY <2>1, <2>2, PathFacts
  <1> QED
    BY <1>1, <1>2, <1>5, <1>6, Zenon

\* The words of the paths of a pipeline, which has one at most.
LEMMA PathWords ==
  ASSUME NEW w \in Named
  PROVE  /\ Without(<<Tail(Path(w)), Tail(NoPath)>>, {<<>>}) = IF w = <<>> THEN <<>> ELSE <<w>>
         /\ Without(<<Tail(NoPath), Tail(Path(w))>>, {<<>>}) = IF w = <<>> THEN <<>> ELSE <<w>>
         /\ Without(<<Tail(NoPath), Tail(NoPath)>>, {<<>>}) = <<>>
         /\ w # <<>> => <<w>> \in Seq(Words)
  <1>1. PICK S, z : S = {<<>>} /\ z = <<>>
    OBVIOUS
  <1>2. z \in Named /\ z \in S /\ Tail(NoPath) = z /\ Tail(Path(w)) = w
    BY <1>1, TailPath, PathFacts, Zenon
  <1>3. w \in S <=> w = z
    BY <1>1
  <1>4. /\ Without(<<w, z>>, S) = IF w = z THEN <<>> ELSE <<w>>
        /\ Without(<<z, w>>, S) = IF w = z THEN <<>> ELSE <<w>>
        /\ Without(<<z, z>>, S) = <<>>
    <2>1. CASE w = z
      <3>1. Without(<<z, z>>, S) = <<>>
        BY <1>2, OneOfTwo
      <3> QED
        BY <2>1, <3>1, Zenon
    <2>2. CASE w # z
      <3>1. Without(<<z, z>>, S) = <<>>
        BY <1>2, OneOfTwo
      <3>2. w \notin S
        BY <1>3, <2>2
      <3>3. Without(<<w, z>>, S) = <<w>>
        BY <1>2, <3>2, OneOfTwo
      <3>4. Without(<<z, w>>, S) = <<w>>
        BY <1>2, <3>2, OneOfTwo
      <3> QED
        BY <2>2, <3>1, <3>3, <3>4, Zenon
    <2> QED
      BY <2>1, <2>2
  <1>5. w # <<>> => w \in Words
    BY DEF Named, Words, Texts
  <1>6. w # <<>> => <<w>> \in Seq(Words)
    BY <1>5
  <1> QED
    BY <1>1, <1>2, <1>4, <1>6, Zenon

LEMMA PipelineWordsType ==
  ASSUME NEW p \in PipelineSet
  PROVE  PipelineWords(p) \in Seq(Words)
  <1>1. PICK cs, x, y : cs = p.commands /\ x = p.input /\ y = p.output
    OBVIOUS
  <1>2. cs \in CommandLists /\ x \in Paths /\ y \in Paths /\ NoPath \in {x, y}
    BY <1>1 DEF PipelineSet
  <1>3. cs \in Seq(Seq(Words))
    <2>1. cs \in Seq(Seq(Words) \ {<<>>})
      BY <1>2 DEF CommandLists
    <2> QED
      BY <2>1, SeqMonotonic
  <1>4. FlattenSeq(cs) \in Seq(Words)
    BY <1>3, FlattenType
  <1>5. PICK v : v = Without(<<Tail(x), Tail(y)>>, {<<>>})
    OBVIOUS
  <1>6. v \in Seq(Words)
    <2>1. <<>> \in Seq(Words)
      BY EmptySeq
    <2>2. PICK n \in Named : n = <<>>
      BY TailPath
    <2>3. CASE x = NoPath /\ y = NoPath
      BY <1>5, <2>1, <2>2, <2>3, PathWords, Zenon
    <2>4. ASSUME NEW w \in Named, x = Path(w), y = NoPath PROVE v \in Seq(Words)
      BY <1>5, <2>1, <2>4, PathWords, Zenon
    <2>5. ASSUME NEW w \in Named, x = NoPath, y = Path(w) PROVE v \in Seq(Words)
      BY <1>5, <2>1, <2>5, PathWords, Zenon
    <2> QED
      BY <1>2, <2>3, <2>4, <2>5, PathFacts
  <1>7. PICK u : u = FlattenSeq(cs)
    OBVIOUS
  <1>8. u \o v \in Seq(Words)
    BY <1>4, <1>6, <1>7, ConcatProperties
  <1>9. PipelineWords(p) = u \o v
    BY <1>1, <1>5, <1>7, Zenon DEF PipelineWords
  <1> QED
    BY <1>8, <1>9, Zenon

\* A pipeline.
LEMMA PipelineGives ==
  ASSUME NEW s \in Texts, NEW i \in 1..Len(s) + 1
  PROVE  /\ NoPipeline(s, i) => Gives(s, i, <<>>, FirstPipeline(s, i).at)
         /\ \A p : FirstPipeline(s, i).pipeline = <<p>> =>
              Gives(s, i, PipelineWords(p), FirstPipeline(s, i).at)
  <1>1. PICK b : b = SkipSpaces(s, i)
    OBVIOUS
  <1>2. b \in i..Len(s) + 1 /\ b \in 1..Len(s) + 1 /\ Bare(s, i, b)
    BY <1>1, SpacesGiveNone
  <1>3. PICK cs, e : cs = FirstCommands(s, i).commands /\ e = FirstCommands(s, i).at
    OBVIOUS
  <1>4. PICK u : u = FlattenSeq(cs)
    OBVIOUS
  <1>5. Gives(s, b, u, e)
    <2>1. ParseCommandList(s)[b].commands = cs /\ ParseCommandList(s)[b].at = e
      BY <1>1, <1>3 DEF FirstCommands
    <2>2. Gives(s, b, FlattenSeq(ParseCommandList(s)[b].commands), ParseCommandList(s)[b].at)
      BY <1>2, CommandListGives
    <2> QED
      BY <1>4, <2>1, <2>2, Zenon
  <1>6. Gives(s, i, u, e) /\ e \in 1..Len(s) + 1 /\ u \in Seq(Words)
    <2>1. Gives(s, i, u, e)
      BY <1>2, <1>5, GivesAfter
    <2> QED
      BY <2>1 DEF Gives
  <1>7. PICK first : first = FirstPipeline(s, i)
    OBVIOUS
  <1>8. PICK a : a = AfterCommands(s, i)
    OBVIOUS
  <1>9. a \in e..Len(s) + 1 /\ a \in 1..Len(s) + 1 /\ Bare(s, e, a)
    BY <1>3, <1>6, <1>8, SpacesGiveNone DEF AfterCommands
  <1>10. Gives(s, i, u, a)
    BY <1>6, <1>9, GivesBehind
  <1>11. CASE NoCommands(s, i)
    <2>1. first = [pipeline |-> <<>>, at |-> e]
      BY <1>3, <1>7, <1>11, FirstPipelineCases
    <2>2. first.pipeline = <<>> /\ first.at = e
      BY <2>1
    <2>3. cs = <<>>
      BY <1>3, <1>11 DEF NoCommands
    <2>4. u = <<>>
      BY <1>4, <2>3, FlattenEmpty, Zenon
    <2>5. \A p : <<>> # <<p>>
      OBVIOUS
    <2> QED
      BY <1>6, <1>7, <2>2, <2>4, <2>5, Zenon
  <1>12. ASSUME NEW q, NEW v, NEW at, first.pipeline = <<q>>, first.at = at,
                q.commands = cs, Without(<<Tail(q.input), Tail(q.output)>>, {<<>>}) = v,
                Gives(s, a, v, at)
         PROVE  /\ NoPipeline(s, i) => Gives(s, i, <<>>, first.at)
                /\ \A p : first.pipeline = <<p>> => Gives(s, i, PipelineWords(p), first.at)
    <2>1. ~NoPipeline(s, i)
      <3>1. <<q>> # <<>>
        OBVIOUS
      <3> QED
        BY <1>7, <1>12, <3>1 DEF NoPipeline
    <2>2. PICK uv : uv = u \o v
      OBVIOUS
    <2>3. Gives(s, i, uv, at)
      BY <1>10, <1>12, <2>2, GivesBoth
    <2>4. PipelineWords(q) = uv
      BY <1>4, <1>12, <2>2, Zenon DEF PipelineWords
    <2>5. \A p : <<q>> = <<p>> => p = q
      OBVIOUS
    <2> QED
      BY <1>12, <2>1, <2>3, <2>4, <2>5, Zenon
  <1>13. ASSUME ~NoCommands(s, i), NEW sign \in {"<", ">"}, Is(s, a, sign)
         PROVE  \E w \in Named : /\ NextPath(s, i).path = Path(w)
                                 /\ Gives(s, a, IF w = <<>> THEN <<>> ELSE <<w>>, NextPath(s, i).at)
    <2>1. PICK k : k = a + 1
      OBVIOUS
    <2>2. k \in a..Len(s) + 1 /\ k \in 1..Len(s) + 1 /\ Bare(s, a, k)
      <3>1. Len(s) \in Nat /\ DOMAIN s = 1..Len(s)
        BY DEF Texts
      <3>2. a \in 1..Len(s) /\ s[a] = sign
        BY <1>13, <3>1 DEF Is
      <3>3. sign \in Boundaries
        BY DEF Boundaries, Delimiters
      <3>4. \A m \in a..k - 1 : m = a
        BY <2>1, <3>2
      <3> QED
        BY <2>1, <3>1, <3>2, <3>3, <3>4 DEF Bare
    <2>3. NextPath(s, i) = ParsePath(s, k)
      BY <1>8, <2>1 DEF NextPath
    <2>4. PICK w \in Named : /\ ParsePath(s, k).path = Path(w)
                             /\ Gives(s, k, IF w = <<>> THEN <<>> ELSE <<w>>, ParsePath(s, k).at)
      BY <2>2, PathGives
    <2>5. PICK v, at : v = (IF w = <<>> THEN <<>> ELSE <<w>>) /\ at = ParsePath(s, k).at
      OBVIOUS
    <2>6. Gives(s, k, v, at)
      BY <2>4, <2>5, Zenon
    <2>7. Gives(s, a, v, at)
      BY <1>9, <2>2, <2>6, GivesAfter
    <2> QED
      BY <2>3, <2>4, <2>5, <2>7, Zenon
  <1>14. CASE ~NoCommands(s, i) /\ Is(s, a, "<")
    <2>1. PICK w, v, at :
             /\ w \in Named /\ NextPath(s, i).path = Path(w) /\ NextPath(s, i).at = at
             /\ v = (IF w = <<>> THEN <<>> ELSE <<w>>) /\ Gives(s, a, v, at)
      BY <1>13, <1>14, Zenon
    <2>2. PICK q : q = Pipeline(cs, Path(w), NoPath)
      OBVIOUS
    <2>3. first = [pipeline |-> <<q>>, at |-> at]
      BY <1>3, <1>7, <1>8, <1>14, <2>1, <2>2, FirstPipelineCases
    <2>4. first.pipeline = <<q>> /\ first.at = at
      BY <2>3
    <2>5. q.commands = cs /\ q.input = Path(w) /\ q.output = NoPath
      BY <2>2 DEF Pipeline
    <2>6. Without(<<Tail(q.input), Tail(q.output)>>, {<<>>}) = v
      BY <2>1, <2>5, PathWords, Zenon
    <2> QED
      BY <1>7, <1>12, <2>1, <2>4, <2>5, <2>6, Zenon
  <1>15. CASE ~NoCommands(s, i) /\ Is(s, a, ">")
    <2>1. PICK w, v, at :
             /\ w \in Named /\ NextPath(s, i).path = Path(w) /\ NextPath(s, i).at = at
             /\ v = (IF w = <<>> THEN <<>> ELSE <<w>>) /\ Gives(s, a, v, at)
      BY <1>13, <1>15, Zenon
    <2>2. PICK q : q = Pipeline(cs, NoPath, Path(w))
      OBVIOUS
    <2>3. first = [pipeline |-> <<q>>, at |-> at]
      BY <1>3, <1>7, <1>8, <1>15, <2>1, <2>2, FirstPipelineCases
    <2>4. first.pipeline = <<q>> /\ first.at = at
      BY <2>3
    <2>5. q.commands = cs /\ q.input = NoPath /\ q.output = Path(w)
      BY <2>2 DEF Pipeline
    <2>6. Without(<<Tail(q.input), Tail(q.output)>>, {<<>>}) = v
      BY <2>1, <2>5, PathWords, Zenon
    <2> QED
      BY <1>7, <1>12, <2>1, <2>4, <2>5, <2>6, Zenon
  <1>16. CASE ~NoCommands(s, i) /\ ~Is(s, a, "<") /\ ~Is(s, a, ">")
    <2>1. PICK v : v = <<>>
      OBVIOUS
    <2>2. PICK q : q = Pipeline(cs, NoPath, NoPath)
      OBVIOUS
    <2>3. first = [pipeline |-> <<q>>, at |-> a]
      BY <1>3, <1>7, <1>8, <1>16, <2>2, FirstPipelineCases
    <2>4. first.pipeline = <<q>> /\ first.at = a
      BY <2>3
    <2>5. q.commands = cs /\ q.input = NoPath /\ q.output = NoPath
      BY <2>2 DEF Pipeline
    <2>6. Without(<<Tail(q.input), Tail(q.output)>>, {<<>>}) = v
      BY <2>1, <2>5, TailPath, PathWords, Zenon
    <2>7. Gives(s, a, v, a)
      <3>1. a \in a..Len(s) + 1 /\ Bare(s, a, a)
        <4>1. Len(s) \in Nat
          BY DEF Texts
        <4> QED
          BY <1>9, <4>1 DEF Bare
      <3> QED
        BY <1>9, <2>1, <3>1, GivesNone
    <2> QED
      BY <1>7, <1>12, <2>4, <2>5, <2>6, <2>7, Zenon
  <1> QED
    BY <1>7, <1>11, <1>14, <1>15, <1>16

LEMMA WordsOfNone == WordsOfTask(<<>>) = <<>>
  <1>1. PICK z : z = <<>>
    OBVIOUS
  <1>2. PICK y : y = [n \in DOMAIN z |-> PipelineWords(z[n])]
    OBVIOUS
  <1>3. y = z
    BY <1>1, <1>2
  <1>4. WordsOfTask(z) = FlattenSeq(y)
    BY <1>2 DEF WordsOfTask, PipelineWords
  <1> QED
    BY <1>1, <1>3, <1>4, FlattenEmpty, Zenon

\* The words of a task are those of its first pipeline and of the others.
LEMMA WordsOfMore ==
  ASSUME NEW p \in PipelineSet, NEW q \in Seq(PipelineSet)
  PROVE  /\ WordsOfTask(<<p>>) = PipelineWords(p)
         /\ WordsOfTask(<<p>> \o q) = PipelineWords(p) \o WordsOfTask(q)
  <1>1. \A task : WordsOfTask(task) = FlattenSeq(WordsOfPipelines(task))
    BY DEF WordsOfTask, WordsOfPipelines, PipelineWords
  <1>2. PICK T : T = Seq(Words)
    OBVIOUS
  <1>3. PICK x \in T : x = PipelineWords(p)
    BY <1>2, PipelineWordsType
  <1>4. PICK y : y = WordsOfPipelines(q)
    OBVIOUS
  <1>5. PICK n \in Nat : n = Len(q)
    OBVIOUS
  <1>6. y = [k \in 1..n |-> PipelineWords(q[k])]
    BY <1>4, <1>5 DEF WordsOfPipelines
  <1>7. \A k \in 1..n : PipelineWords(q[k]) \in T
    BY <1>2, <1>5, PipelineWordsType
  <1>8. y \in Seq(T) /\ Len(y) = n
    BY <1>6, <1>7
  <1>9. PICK o : o = <<p>>
    OBVIOUS
  <1>10. o \in Seq(PipelineSet) /\ Len(o) = 1 /\ o[1] = p /\ DOMAIN o = 1..1
    BY <1>9
  <1>11. PICK ox : ox = <<x>>
    OBVIOUS
  <1>12. ox \in Seq(T) /\ Len(ox) = 1 /\ ox[1] = x
    BY <1>11
  <1>13. WordsOfPipelines(o) = ox
    <2>1. WordsOfPipelines(o) = [k \in 1..1 |-> PipelineWords(o[k])]
      BY <1>10 DEF WordsOfPipelines
    <2>2. \A k \in 1..1 : PipelineWords(o[k]) = x
      BY <1>3, <1>10
    <2>3. WordsOfPipelines(o) = [k \in 1..1 |-> x]
      BY <2>1, <2>2
    <2> QED
      BY <1>11, <2>3
  <1>14. WordsOfTask(o) = x
    <2>1. FlattenSeq(<<x>>) = x
      BY <1>2, FlattenOne
    <2> QED
      BY <1>1, <1>11, <1>13, <2>1, Zenon
  <1>16. PICK r : r = o \o q
    OBVIOUS
  <1>17. PICK xy : xy = ox \o y
    OBVIOUS
  <1>18. /\ r \in Seq(PipelineSet) /\ Len(r) = 1 + n
         /\ r[1] = p /\ \A k \in 1..n : r[1 + k] = q[k]
    <2>1. /\ o \o q \in Seq(PipelineSet) /\ Len(o \o q) = Len(o) + Len(q)
          /\ \A k \in 1..Len(o) + Len(q) : (o \o q)[k] = IF k <= Len(o) THEN o[k] ELSE q[k - Len(o)]
      BY <1>10, ConcatProperties
    <2>2. /\ r \in Seq(PipelineSet) /\ Len(r) = 1 + n
          /\ \A k \in 1..1 + n : r[k] = IF k <= 1 THEN o[k] ELSE q[k - 1]
      BY <1>5, <1>10, <1>16, <2>1
    <2>3. 1 \in 1..1 + n /\ \A k \in 1..n : 1 + k \in 1..1 + n /\ ~(1 + k <= 1) /\ 1 + k - 1 = k
      OBVIOUS
    <2> QED
      BY <1>10, <2>2, <2>3
  <1>19. /\ xy \in Seq(T) /\ Len(xy) = 1 + n
         /\ xy[1] = x /\ \A k \in 1..n : xy[1 + k] = y[k]
    <2>1. /\ ox \o y \in Seq(T) /\ Len(ox \o y) = Len(ox) + Len(y)
          /\ \A k \in 1..Len(ox) + Len(y) : (ox \o y)[k] = IF k <= Len(ox) THEN ox[k] ELSE y[k - Len(ox)]
      BY <1>8, <1>12, ConcatProperties
    <2>2. /\ xy \in Seq(T) /\ Len(xy) = 1 + n
          /\ \A k \in 1..1 + n : xy[k] = IF k <= 1 THEN ox[k] ELSE y[k - 1]
      BY <1>8, <1>12, <1>17, <2>1
    <2>3. 1 \in 1..1 + n /\ \A k \in 1..n : 1 + k \in 1..1 + n /\ ~(1 + k <= 1) /\ 1 + k - 1 = k
      OBVIOUS
    <2> QED
      BY <1>12, <2>2, <2>3
  <1>20. WordsOfPipelines(r) = xy
    <2>1. \A k \in 1..1 + n : k = 1 \/ (k - 1 \in 1..n /\ 1 + (k - 1) = k)
      OBVIOUS
    <2>2. ASSUME NEW k \in 1..1 + n PROVE PipelineWords(r[k]) = xy[k]
      <3>1. CASE k = 1
        BY <1>3, <1>18, <1>19, <3>1, Zenon
      <3>2. CASE k - 1 \in 1..n /\ 1 + (k - 1) = k
        <4>1. PICK m \in 1..n : m = k - 1 /\ 1 + m = k
          BY <3>2
        <4>2. r[k] = q[m] /\ xy[k] = y[m]
          BY <1>18, <1>19, <4>1
        <4>3. y[m] = PipelineWords(q[m])
          BY <1>6
        <4> QED
          BY <4>2, <4>3
      <3> QED
        BY <2>1, <3>1, <3>2
    <2>3. WordsOfPipelines(r) = [k \in 1..1 + n |-> PipelineWords(r[k])]
      BY <1>18 DEF WordsOfPipelines
    <2>4. WordsOfPipelines(r) = [k \in 1..1 + n |-> xy[k]]
      BY <2>2, <2>3
    <2>5. xy = [k \in 1..1 + n |-> xy[k]]
      BY <1>19
    <2> QED
      BY <2>4, <2>5
  <1>21. FlattenSeq(<<x>> \o y) = x \o FlattenSeq(y)
    <2>1. y \in Seq(Seq(Words)) /\ x \in Seq(Words)
      BY <1>2, <1>8
    <2> QED
      BY <2>1, FlattenMore
  <1>22. WordsOfTask(r) = x \o WordsOfTask(q)
    BY <1>1, <1>4, <1>11, <1>17, <1>20, <1>21, Zenon
  <1> QED
    BY <1>3, <1>9, <1>14, <1>16, <1>22, Zenon

\* A list of pipelines.
LEMMA PipelineListGives ==
  ASSUME NEW s \in Texts, NEW i \in 1..Len(s) + 1
  PROVE  Gives(s, i, WordsOfTask(ParsePipelineList(s)[i].pipelines), ParsePipelineList(s)[i].at)
  <1>1. PICK N \in Nat : N = Len(s) + 1
    BY DEF Texts
  <1>2. PICK f : f = ParsePipelineList(s)
    OBVIOUS
  <1>3. s \in Seq(Pieces) /\ Len(s) \in Nat /\ DOMAIN s = 1..Len(s)
    BY DEF Texts
  <1> DEFINE S == {j \in 1..N : Gives(s, j, WordsOfTask(f[j].pipelines), f[j].at)}
  <1>4. ASSUME NEW j \in 1..N, \A k \in 1..N : k > j => k \in S
        PROVE  j \in S
    <2>1. f[j] = PipelinesFrom(s, f, FirstPipeline(s, j))
      BY <1>1, <1>2, <1>3, ParsePipelineListIs
    <2>2. PICK e : e = FirstPipeline(s, j).at
      OBVIOUS
    <2>3. CASE NoPipeline(s, j)
      <3>1. f[j] = [pipelines |-> <<>>, at |-> e]
        BY <2>1, <2>2, <2>3, PipelinesFromCases
      <3>2. PICK z : z = <<>>
        OBVIOUS
      <3>3. f[j].pipelines = z /\ f[j].at = e
        BY <3>1, <3>2
      <3>4. Gives(s, j, z, e)
        BY <1>1, <2>2, <2>3, <3>2, PipelineGives
      <3>5. WordsOfTask(z) = z
        BY <3>2, WordsOfNone, Zenon
      <3> QED
        BY <3>3, <3>4, <3>5
    <2>4. CASE ~NoPipeline(s, j)
      <3>1. PICK p \in PipelineSet : FirstPipeline(s, j).pipeline = <<p>>
        BY <1>1, <1>3, <2>4, FirstPipelineIs
      <3>2. PICK w : w = PipelineWords(p)
        OBVIOUS
      <3>3. Gives(s, j, w, e)
        BY <1>1, <2>2, <3>1, <3>2, PipelineGives
      <3>4. e \in 1..Len(s) + 1 /\ w \in Seq(Words)
        BY <3>3 DEF Gives
      <3>5. PICK a : a = AfterPipeline(s, j)
        OBVIOUS
      <3>6. a \in e..Len(s) + 1 /\ a \in 1..Len(s) + 1 /\ Bare(s, e, a)
        BY <2>2, <3>4, <3>5, SpacesGiveNone DEF AfterPipeline
      <3>7. Gives(s, j, w, a)
        BY <3>3, <3>6, GivesBehind
      <3>8. PICK o : o = <<p>>
        OBVIOUS
      <3>9. CASE LastPipeline(s, j)
        <4>1. f[j] = [pipelines |-> o, at |-> a]
          BY <2>1, <2>4, <3>1, <3>5, <3>8, <3>9, PipelinesFromCases
        <4>2. f[j].pipelines = o /\ f[j].at = a
          BY <4>1
        <4>3. PICK none \in Seq(PipelineSet) : none = <<>>
          BY EmptySeq
        <4>4. WordsOfTask(o) = w
          BY <3>2, <3>8, <4>3, WordsOfMore, Zenon
        <4> QED
          BY <3>7, <4>2, <4>4
      <3>10. CASE ~LastPipeline(s, j)
        <4>1. PICK k : k = a + 1
          OBVIOUS
        <4>2. PICK q, c : q = f[k].pipelines /\ c = f[k].at
          OBVIOUS
        <4>3. PICK r : r = o \o q
          OBVIOUS
        <4>4. f[j] = [pipelines |-> r, at |-> c]
          BY <2>1, <2>4, <3>1, <3>5, <3>8, <3>10, <4>1, <4>2, <4>3, PipelinesFromCases
        <4>5. k \in 1..N /\ k > j
          <5>1. a + 1 \in j + 1..Len(s) + 1
            BY <1>1, <1>3, <3>5, <3>10, FirstPipelineIs
          <5> QED
            BY <1>1, <4>1, <5>1
        <4>6. q \in Seq(PipelineSet)
          <5>1. f[k] \in PipelineResults(s)
            BY <1>1, <1>2, <1>3, <4>5, ParsePipelineListIs
          <5> QED
            BY <4>2, <5>1 DEF PipelineResults
        <4>7. PICK v : v = WordsOfTask(q)
          OBVIOUS
        <4>8. Gives(s, k, v, c)
          BY <1>4, <4>2, <4>5, <4>7
        <4>9. k \in a..Len(s) + 1 /\ Bare(s, a, k)
          <5>1. s[a] = ";"
            BY <3>5, <3>10 DEF LastPipeline, Is
          <5>2. ";" \in Boundaries
            BY DEF Boundaries, Delimiters
          <5>3. a \in Nat
            BY <1>3, <3>6
          <5>4. \A m \in a..k - 1 : m = a
            BY <4>1, <5>3
          <5>5. k \in a..Len(s) + 1
            BY <1>1, <1>3, <4>1, <4>5, <5>3
          <5> QED
            BY <5>1, <5>2, <5>4, <5>5 DEF Bare
        <4>10. Gives(s, j, w, k)
          BY <3>7, <4>9, GivesBehind
        <4>11. PICK wv : wv = w \o v
          OBVIOUS
        <4>12. Gives(s, j, wv, c)
          BY <4>8, <4>10, <4>11, GivesBoth
        <4>13. WordsOfTask(r) = wv
          <5>1. WordsOfTask(<<p>> \o q) = PipelineWords(p) \o WordsOfTask(q)
            BY <4>6, WordsOfMore
          <5> QED
            BY <3>2, <3>8, <4>3, <4>7, <4>11, <5>1, Zenon
        <4>14. f[j].pipelines = r /\ f[j].at = c
          BY <4>4
        <4> QED
          BY <4>12, <4>13, <4>14
      <3> QED
        BY <3>9, <3>10
    <2> QED
      BY <2>3, <2>4
  <1>5. 1..N \subseteq S
    <2> HIDE DEF S
    <2> QED
      BY <1>4, DownInduction
  <1> QED
    BY <1>1, <1>2, <1>5

\* The words of the task that a text is parsed to are those of the text.
LEMMA TaskHasTheWords ==
  ASSUME NEW s \in Texts, ParseTask(s) # <<>>
  PROVE  WordsOfTask(ParseTask(s)) = WordsIn(s)
  <1>1. s \in Seq(Pieces) /\ Len(s) \in Nat /\ DOMAIN s = 1..Len(s)
    BY DEF Texts
  <1>2. PICK task, e : task = ParsePipelineList(s)[1].pipelines /\ e = ParsePipelineList(s)[1].at
    OBVIOUS
  <1>3. PICK ws : ws = WordsOfTask(task)
    OBVIOUS
  <1>4. Gives(s, 1, ws, e)
    <2>1. 1 \in 1..Len(s) + 1
      BY <1>1
    <2> QED
      BY <1>2, <1>3, <2>1, PipelineListGives
  <1>5. ParseTask(s) = task /\ SkipSpaces(s, e) \notin DOMAIN s
    BY <1>2 DEF ParseTask, Wholly
  <1>6. PICK n : n = Len(s) + 1
    OBVIOUS
  <1>7. e \in 1..Len(s) + 1 /\ ws \in Seq(Words)
    BY <1>4 DEF Gives
  <1>8. SkipSpaces(s, e) = n
    <2>1. SkipSpaces(s, e) \in 1..Len(s) + 1
      BY <1>7, SpacesGiveNone
    <2> QED
      BY <1>1, <1>5, <1>6, <2>1
  <1>9. Gives(s, 1, ws, n)
    BY <1>4, <1>7, <1>8, SpacesGiveNone, GivesBehind
  <1>10. Remaining(s, 1) = ws \o Remaining(s, n)
    BY <1>9 DEF Gives
  <1>11. PICK z : z = <<>>
    OBVIOUS
  <1>12. Remaining(s, n) = z
    BY <1>6, <1>11, RemainingIs
  <1>13. ws \o z = ws
    BY <1>7, <1>11, ConcatEmptySeq
  <1>14. Remaining(s, 1) = WordsIn(s)
    BY RemainingAll
  <1> QED
    BY <1>3, <1>5, <1>10, <1>12, <1>13, <1>14, Zenon

-----------------------------------------------------------------------------
(* The words of a text are those of what is behind the spaces.             *)

\* What is read of the end of a text is what is read of that end alone.
LEMMA RemainingShifts ==
  ASSUME NEW t \in Texts, NEW u \in Texts, NEW p \in Nat, Len(t) = p + Len(u),
         \A k \in 1..Len(u) : t[p + k] = u[k]
  PROVE  \A i \in 1..Len(u) + 1 : Remaining(t, p + i) = Remaining(u, i)
  <1>1. PICK N \in Nat : N = Len(u) + 1
    BY DEF Texts
  <1>2. /\ t \in Seq(Pieces) /\ u \in Seq(Pieces) /\ Len(u) \in Nat /\ Len(t) \in Nat
        /\ Len(t) + 1 = p + N
    BY <1>1 DEF Texts
  <1> DEFINE S == {j \in 1..N : Remaining(t, p + j) = Remaining(u, j)}
  <1>3. ASSUME NEW i \in 1..N, \A k \in 1..N : k > i => k \in S
        PROVE  i \in S
    <2>1. PICK n : n = p + i
      OBVIOUS
    <2>2. n \in 1..Len(t) + 1 /\ i \in 1..Len(u) + 1
      BY <1>1, <1>2, <2>1
    <2>3. CASE i = N
      <3>1. n = Len(t) + 1 /\ i = Len(u) + 1
        BY <1>1, <1>2, <2>1, <2>3
      <3>2. Remaining(t, n) = <<>> /\ Remaining(u, i) = <<>>
        BY <3>1, RemainingIs
      <3> QED
        BY <2>1, <3>2
    <2>4. CASE i # N /\ u[i] \in Boundaries
      <3>1. i \in 1..Len(u) /\ i + 1 \in 1..N /\ i + 1 > i /\ n \in 1..Len(t)
        BY <1>1, <1>2, <2>1, <2>4
      <3>2. t[n] \in Boundaries
        BY <2>1, <2>4, <3>1
      <3>3. i + 1 \in i..Len(u) + 1 /\ n + 1 \in n..Len(t) + 1
        BY <1>1, <1>2, <3>1
      <3>4. (\A k \in i..i + 1 - 1 : k = i) /\ (\A k \in n..n + 1 - 1 : k = n)
        BY <3>1
      <3>5. Remaining(u, i) = Remaining(u, i + 1)
        BY <2>2, <2>4, <3>3, <3>4, RemainingBehind
      <3>6. Remaining(t, n) = Remaining(t, n + 1)
        BY <2>2, <3>2, <3>3, <3>4, RemainingBehind
      <3>7. Remaining(t, p + (i + 1)) = Remaining(u, i + 1)
        BY <1>3, <3>1
      <3>8. p + (i + 1) = n + 1
        BY <2>1
      <3> QED
        BY <2>1, <3>5, <3>6, <3>7, <3>8
    <2>5. CASE i # N /\ u[i] \notin Boundaries
      <3>1. PICK e : e = WordEnd(u, i)
        OBVIOUS
      <3>2. e \in i..Len(u) + 1 /\ (e = Len(u) + 1 \/ ~IsWordPiece(u[e])) /\ Wordy(u, i, e)
        BY <1>2, <2>2, <3>1, WordEndIs
      <3>3. IsWordPiece(u[i])
        BY <2>5 DEF Boundaries, IsWordPiece
      <3>4. e # i
        BY <1>1, <2>5, <3>2, <3>3
      <3>5. PICK m : m = p + e
        OBVIOUS
      <3>6. /\ e \in 1..N /\ e > i /\ e \in Nat /\ m \in n..Len(t) + 1 /\ m = n + (e - i) /\ m # n
            /\ n \in Nat
        BY <1>1, <1>2, <2>1, <2>2, <3>2, <3>4, <3>5
      <3>7. \A k \in 1..e - i : /\ i + k - 1 \in 1..Len(u) /\ i + k - 1 \in i..e - 1
                                /\ n + k - 1 = p + (i + k - 1)
        BY <1>1, <2>1, <3>2, <3>6
      <3>8. \A k \in 1..e - i : t[n + k - 1] = u[i + k - 1]
        BY <3>7
      <3>9. Wordy(t, n, m)
        <4> SUFFICES ASSUME NEW j \in n..m - 1 PROVE IsWordPiece(t[j])
          BY DEF Wordy
        <4>1. PICK k \in 1..e - i : k = j - n + 1
          BY <3>6
        <4>2. n + k - 1 = j
          BY <3>6, <4>1
        <4>3. IsWordPiece(u[i + k - 1])
          BY <3>2, <3>7 DEF Wordy
        <4>4. t[j] = u[i + k - 1]
          BY <3>8, <4>2
        <4> QED
          BY <4>3, <4>4
      <3>10. m = Len(t) + 1 \/ ~IsWordPiece(t[m])
        <4>1. CASE e = Len(u) + 1
          BY <1>1, <1>2, <3>5, <4>1
        <4>2. CASE e # Len(u) + 1
          <5>1. e \in 1..Len(u)
            BY <1>1, <3>6, <4>2
          <5>2. t[m] = u[e]
            BY <3>5, <5>1
          <5> QED
            BY <3>2, <4>2, <5>2
        <4> QED
          BY <4>1, <4>2
      <3>11. WordEnd(t, n) = m
        BY <1>2, <2>2, <3>6, <3>9, <3>10, WordEndTo
      <3>12. PICK v, w : v = SubSeq(u, i, e - 1) /\ w = SubSeq(t, n, m - 1)
        OBVIOUS
      <3>13. Remaining(u, i) = <<v>> \o Remaining(u, e)
        BY <2>2, <3>1, <3>4, <3>12, RemainingWord
      <3>14. Remaining(t, n) = <<w>> \o Remaining(t, m)
        BY <2>2, <3>6, <3>11, <3>12, RemainingWord
      <3>15. v = w
        <4>1. v \in Seq(Pieces) /\ Len(v) = e - i /\ \A k \in 1..e - i : v[k] = u[i + k - 1]
          BY <1>2, <2>2, <3>2, <3>12, SubWord
        <4>2. w \in Seq(Pieces) /\ Len(w) = m - n /\ \A k \in 1..m - n : w[k] = t[n + k - 1]
          BY <1>2, <2>2, <3>6, <3>9, <3>12, SubWord
        <4>3. m - n = e - i
          BY <3>6
        <4>4. \A k \in 1..Len(v) : v[k] = w[k]
          BY <3>8, <4>1, <4>2, <4>3
        <4>5. Len(v) = Len(w)
          BY <4>1, <4>2, <4>3
        <4> QED
          BY <4>1, <4>2, <4>4, <4>5, SeqEqual
      <3>16. Remaining(t, m) = Remaining(u, e)
        BY <1>3, <3>5, <3>6
      <3> QED
        BY <2>1, <3>13, <3>14, <3>15, <3>16, Zenon
    <2> QED
      BY <2>3, <2>4, <2>5
  <1>4. 1..N \subseteq S
    <2> HIDE DEF S
    <2> QED
      BY <1>3, DownInduction
  <1> QED
    BY <1>1, <1>4

\* Spaces before a text have no words.
LEMMA WordsBehindSpaces ==
  ASSUME NEW z \in Texts, NEW u \in Texts, IsSpaces(z)
  PROVE  WordsIn(z \o u) = WordsIn(u)
  <1>1. PICK t : t = z \o u
    OBVIOUS
  <1>2. z \in Seq(Pieces) /\ u \in Seq(Pieces) /\ Len(u) \in Nat /\ Len(z) \in Nat
        /\ DOMAIN z = 1..Len(z)
    BY DEF Texts
  <1>3. PICK p \in Nat : p = Len(z)
    BY <1>2
  <1>4. /\ t \in Seq(Pieces) /\ Len(t) = p + Len(u)
        /\ \A k \in 1..p + Len(u) : t[k] = IF k <= p THEN z[k] ELSE u[k - p]
    BY <1>1, <1>2, <1>3, ConcatProperties
  <1>5. t \in Texts
    BY <1>4 DEF Texts
  <1>6. \A k \in 1..Len(u) : p + k \in 1..p + Len(u) /\ ~(p + k <= p) /\ p + k - p = k
    BY <1>2
  <1>7. \A k \in 1..Len(u) : t[p + k] = u[k]
    BY <1>4, <1>6
  <1>8. \A i \in 1..Len(u) + 1 : Remaining(t, p + i) = Remaining(u, i)
    BY <1>4, <1>5, <1>7, RemainingShifts
  <1>9. PICK n : n = p + 1
    OBVIOUS
  <1>10. 1 \in 1..Len(u) + 1 /\ 1 \in 1..Len(t) + 1 /\ n \in 1..Len(t) + 1
    BY <1>2, <1>4, <1>9
  <1>11. \A k \in 1..n - 1 : t[k] \in Boundaries
    <2> TAKE k \in 1..n - 1
    <2>1. k \in 1..p + Len(u) /\ k <= p /\ k \in DOMAIN z
      BY <1>2, <1>3, <1>9
    <2>2. t[k] = Space
      BY <1>4, <2>1 DEF IsSpaces
    <2> QED
      BY <2>2 DEF Boundaries
  <1>12. Remaining(t, 1) = Remaining(t, n)
    BY <1>5, <1>10, <1>11, RemainingBehind
  <1>13. Remaining(t, n) = Remaining(u, 1)
    BY <1>8, <1>9, <1>10
  <1>14. Remaining(t, 1) = WordsIn(t) /\ Remaining(u, 1) = WordsIn(u)
    BY <1>5, RemainingAll
  <1> QED
    BY <1>1, <1>12, <1>13, <1>14

\* What follows the name of a command, and the spaces before it.
LEMMA SecondWordIs ==
  ASSUME NEW s \in Texts, NEW name, SecondWord(name, s) # <<>>
  PROVE  /\ Begins(name, s)
         /\ \E z \in Texts, u \in Texts :
              /\ IsSpaces(z) /\ SecondWord(name, s) = u /\ Tail(s) = z \o u
              /\ u # <<>> /\ u[1] # Space
  <1>1. Begins(name, s)
    BY DEF SecondWord
  <1>2. PICK n \in Nat : n = Len(s)
    BY DEF Texts
  <1>3. s \in Seq(Pieces) /\ DOMAIN s = 1..n /\ s # <<>> /\ n # 0
    BY <1>1, <1>2 DEF Begins, Texts
  <1>4. PICK j : j = SkipSpaces(s, 2)
    OBVIOUS
  <1>5. 2 \in 1..Len(s) + 1
    BY <1>2, <1>3
  <1>6. j \in 2..n + 1 /\ (j = n + 1 \/ s[j] # Space) /\ Spaces(s, 2, j)
    BY <1>2, <1>4, <1>5, SkipSpacesIs
  <1>7. PICK u : u = SubSeq(s, j, n)
    OBVIOUS
  <1>8. SecondWord(name, s) = u
    BY <1>1, <1>2, <1>4, <1>7 DEF SecondWord
  <1>9. u \in Seq(Pieces) /\ Len(u) = n - j + 1 /\ \A k \in 1..n - j + 1 : u[k] = s[j + k - 1]
    <2>1. j \in Int /\ n \in Int /\ \A k \in j..n : s[k] \in Pieces
      BY <1>2, <1>3, <1>6
    <2>2. /\ SubSeq(s, j, n) \in Seq(Pieces)
          /\ Len(SubSeq(s, j, n)) = IF j <= n THEN n - j + 1 ELSE 0
          /\ \A k \in 1..n - j + 1 : SubSeq(s, j, n)[k] = s[j + k - 1]
      BY <2>1, SubSeqProperties
    <2>3. (IF j <= n THEN n - j + 1 ELSE 0) = n - j + 1
      BY <1>6
    <2> QED
      BY <1>7, <2>2, <2>3
  <1>10. j # n + 1
    BY <1>6, <1>8, <1>9
  <1>11. u # <<>> /\ u[1] # Space
    <2>1. 1 \in 1..n - j + 1 /\ j + 1 - 1 = j
      BY <1>6, <1>10
    <2>2. u[1] = s[j]
      BY <1>9, <2>1
    <2> QED
      BY <1>6, <1>8, <1>10, <2>2
  <1>12. PICK m \in Nat : m = j - 2
    BY <1>6
  <1>13. PICK z : z = [k \in 1..m |-> s[k + 1]]
    OBVIOUS
  <1>14. \A k \in 1..m : k + 1 \in 1..n /\ k + 1 \in 2..j - 1
    BY <1>6, <1>12
  <1>15. z \in Seq(Pieces) /\ Len(z) = m /\ DOMAIN z = 1..m /\ \A k \in 1..m : z[k] = s[k + 1]
    <2>1. \A k \in 1..m : s[k + 1] \in Pieces
      BY <1>2, <1>3, <1>14
    <2> QED
      BY <1>13, <2>1
  <1>16. IsSpaces(z)
    BY <1>6, <1>14, <1>15 DEF IsSpaces, Spaces
  <1>17. PICK t : t = Tail(s)
    OBVIOUS
  <1>18. t \in Seq(Pieces) /\ Len(t) = n - 1 /\ \A k \in 1..n - 1 : t[k] = s[k + 1]
    BY <1>2, <1>3, <1>17, HeadTailProperties
  <1>19. PICK zu : zu = z \o u
    OBVIOUS
  <1>20. /\ zu \in Seq(Pieces) /\ Len(zu) = m + (n - j + 1)
         /\ \A k \in 1..m + (n - j + 1) : zu[k] = IF k <= m THEN z[k] ELSE u[k - m]
    <2>1. z \in Seq(Pieces) /\ u \in Seq(Pieces)
      BY <1>9, <1>15
    <2>2. /\ z \o u \in Seq(Pieces) /\ Len(z \o u) = Len(z) + Len(u)
          /\ \A k \in 1..Len(z) + Len(u) : (z \o u)[k] = IF k <= Len(z) THEN z[k] ELSE u[k - Len(z)]
      BY <2>1, ConcatProperties
    <2> QED
      BY <1>9, <1>15, <1>19, <2>2
  <1>21. Len(zu) = n - 1
    BY <1>6, <1>12, <1>20
  <1>22. ASSUME NEW k \in 1..n - 1 PROVE zu[k] = t[k]
    <2>1. k \in 1..m + (n - j + 1) /\ k \in Nat
      BY <1>6, <1>12
    <2>2. CASE k <= m
      <3>1. k \in 1..m
        BY <2>1, <2>2
      <3>2. zu[k] = z[k]
        BY <1>20, <2>1, <2>2
      <3> QED
        BY <1>15, <1>18, <3>1, <3>2
    <2>3. CASE ~(k <= m)
      <3>1. PICK i \in 1..n - j + 1 : i = k - m
        BY <1>6, <1>12, <2>3
      <3>2. zu[k] = u[i]
        BY <1>20, <2>1, <2>3, <3>1
      <3>3. u[i] = s[j + i - 1]
        BY <1>9
      <3>4. j + i - 1 = k + 1
        BY <1>6, <1>12, <2>1, <3>1
      <3> QED
        BY <1>18, <3>2, <3>3, <3>4
    <2> QED
      BY <2>2, <2>3
  <1>23. zu = t
    BY <1>18, <1>20, <1>21, <1>22, SeqEqual
  <1>24. z \in Texts /\ u \in Texts
    BY <1>9, <1>15 DEF Texts
  <1> QED
    BY <1>1, <1>8, <1>11, <1>16, <1>17, <1>19, <1>23, <1>24

\* The one token of a text is the text without its quotes.
LEMMA TokenIs ==
  ASSUME NEW u \in Texts, NEW call \in SpoolTokens(Tokens(u)), call.task # NoTask
  PROVE  call.task = ParseTask(Without(u, {"'"})) /\ Without(u, {"'"}) \in Texts
  <1>1. PICK Q : Q = {"'"}
    OBVIOUS
  <1>2. PICK tokens : tokens = Tokens(u)
    OBVIOUS
  <1>3. u \in Seq(Pieces)
    BY DEF Texts
  <1>4. tokens = Without(Split(u, Q), {<<>>})
    BY <1>1, <1>2 DEF Tokens
  <1>5. Split(u, Q) \in Seq(Texts)
    BY <1>3, SplitType DEF Texts
  <1>6. tokens \in Seq(Texts)
    BY <1>4, <1>5, SplitType
  <1>7. ASSUME NEW name PROVE Call(name).task = NoTask
    BY DEF Call
  <1>8. ~(Len(tokens) > 1) /\ tokens # <<>> /\ call = Create(tokens[1])
    BY <1>2, <1>7 DEF SpoolTokens
  <1>9. Len(tokens) = 1
    <2>1. Len(tokens) \in Nat /\ Len(tokens) # 0
      BY <1>6, <1>8, EmptySeq
    <2>2. PICK n \in Nat : n = Len(tokens)
      BY <2>1
    <2>3. ~(n > 1) /\ n # 0
      BY <1>8, <2>1, <2>2, Zenon
    <2> QED
      BY <2>2, <2>3
  <1>10. PICK text : text = Without(u, Q)
    OBVIOUS
  <1>11. tokens = <<text>>
    BY <1>3, <1>4, <1>9, <1>10, OnePart
  <1>12. tokens[1] = text
    BY <1>11
  <1>13. text \in Texts
    <2>1. 1 \in 1..Len(tokens)
      BY <1>9
    <2>2. tokens[1] \in Texts
      BY <1>6, <2>1, ElementOfSeq
    <2> QED
      BY <1>12, <2>2
  <1>14. Create(text).task = ParseTask(text)
    BY DEF Create, Call
  <1> QED
    BY <1>1, <1>8, <1>10, <1>12, <1>13, <1>14

\* The words of a task that is spooled are those of the line.
LEMMA SpooledWords ==
  ASSUME NEW s \in Texts, NEW call \in CallsFor(s), call.task # NoTask
  PROVE  WordsOfTask(call.task) = WordsIn(Without(Tail(s), {"'"}))
  <1>1. ASSUME NEW name PROVE Call(name).task = NoTask
    BY DEF Call
  <1>2. ASSUME NEW r \in JobCalls(s) PROVE r.task = NoTask
    <2>1. PICK name \in JobCommands :
            r \in {[Call(name) EXCEPT !.id = n] : n \in JobIds(name, s) \ {-1}}
      BY <1>2 DEF JobCalls
    <2>2. PICK n \in JobIds(name, s) : r = [Call(name) EXCEPT !.id = n]
      BY <2>1
    <2> QED
      BY <2>2 DEF Call
  <1>3. SecondWord("spool", s) # <<>> /\ call \in Spool(s)
    BY <1>1, <1>2 DEF CallsFor
  <1>4. PICK z \in Texts, u \in Texts :
          IsSpaces(z) /\ SecondWord("spool", s) = u /\ Tail(s) = z \o u
    BY <1>3, SecondWordIs
  <1>5. PICK Q : Q = {"'"}
    OBVIOUS
  <1>6. PICK text : text = Without(u, Q)
    OBVIOUS
  <1>7. call.task = ParseTask(text) /\ text \in Texts
    <2>1. call \in SpoolTokens(Tokens(u))
      BY <1>3, <1>4 DEF Spool
    <2> QED
      BY <1>5, <1>6, <2>1, TokenIs
  <1>8. WordsOfTask(call.task) = WordsIn(text)
    <2>1. ParseTask(text) # <<>>
      BY <1>7 DEF NoTask
    <2> QED
      BY <1>7, <2>1, TaskHasTheWords
  <1>9. Without(Tail(s), Q) = Without(z, Q) \o text
    <2>1. z \in Seq(Pieces) /\ u \in Seq(Pieces)
      BY DEF Texts
    <2>2. Without(z \o u, Q) = Without(z, Q) \o Without(u, Q)
      BY <2>1, KeptInTurn
    <2> QED
      BY <1>4, <1>6, <2>2, Zenon
  <1>10. Without(z, Q) = z
    <2>1. z \in Seq(Pieces) /\ \A k \in 1..Len(z) : z[k] = Space
      BY <1>4 DEF Texts, IsSpaces
    <2>2. Space \notin Q
      BY <1>5 DEF Space
    <2>3. \A k \in 1..Len(z) : z[k] \notin Q
      BY <2>1, <2>2
    <2> QED
      BY <2>1, <2>3, AllKept
  <1>11. WordsIn(z \o text) = WordsIn(text)
    BY <1>4, <1>7, WordsBehindSpaces
  <1> QED
    BY <1>5, <1>8, <1>9, <1>10, <1>11, Zenon

-----------------------------------------------------------------------------
(* The commands that name a job.                                           *)

\* A command that is for a job has an argument.
LEMMA JobCommandHasArgument ==
  ASSUME NEW s \in Texts, NEW call \in CallsFor(s), call.command \in JobCommands
  PROVE  Begins(call.command, s) /\ Argument(s) # <<>>
  <1>1. ASSUME NEW name PROVE Call(name).command = name
    BY DEF Call
  <1>2. "none" \notin JobCommands /\ "unrecognized" \notin JobCommands
        /\ \A name \in SimpleCommands : name \notin JobCommands
    BY DEF JobCommands, SimpleCommands
  <1>3. ASSUME NEW r \in Spool(s) PROVE r.command \notin JobCommands
    <2>1. r.command \in {"wrong number of args", "crash", "spool"}
      BY <1>3, <1>1 DEF Spool, SpoolTokens, Create, Call
    <2> QED
      BY <2>1 DEF JobCommands
  <1>4. call \in JobCalls(s)
    BY <1>1, <1>2, <1>3 DEF CallsFor
  <1>5. PICK name \in JobCommands :
          call \in {[Call(name) EXCEPT !.id = n] : n \in JobIds(name, s) \ {-1}}
    BY <1>4 DEF JobCalls
  <1>6. PICK n \in JobIds(name, s) \ {-1} : call = [Call(name) EXCEPT !.id = n]
    BY <1>5
  <1>7. call.command = name
    BY <1>6 DEF Call
  <1>8. SecondWord(name, s) # <<>>
    BY <1>6 DEF JobIds
  <1>9. Begins(name, s)
    BY <1>8, SecondWordIs
  <1>10. PICK z \in Texts, u \in Texts : Tail(s) = z \o u /\ u # <<>> /\ u[1] # Space
    BY <1>8, SecondWordIs
  <1>11. z \in Seq(Pieces) /\ u \in Seq(Pieces) /\ Len(z) \in Nat
    BY DEF Texts
  <1>12. Len(u) \in Nat /\ Len(u) # 0
    BY <1>10, <1>11, EmptySeq
  <1>13. PICK t : t = z \o u
    OBVIOUS
  <1>14. /\ t \in Seq(Pieces) /\ Len(t) = Len(z) + Len(u)
         /\ \A k \in 1..Len(z) + Len(u) : t[k] = IF k <= Len(z) THEN z[k] ELSE u[k - Len(z)]
    BY <1>11, <1>13, ConcatProperties
  <1>15. PICK m \in 1..Len(t) : m = Len(z) + 1
    BY <1>11, <1>12, <1>14
  <1>16. ~(m <= Len(z)) /\ m - Len(z) = 1
    BY <1>11, <1>15
  <1>17. t[m] = u[1]
    BY <1>14, <1>15, <1>16
  <1>18. Without(t, {Space}) # <<>>
    <2>1. t[m] \notin {Space}
      BY <1>10, <1>17
    <2> QED
      BY <1>14, <2>1, Kept
  <1>19. Argument(s) # <<>>
    BY <1>10, <1>13, <1>18 DEF Argument
  <1> QED
    BY <1>7, <1>9, <1>19

\* Two sets split alike where no element is in one of them alone.
LEMMA SplitAlike ==
  ASSUME NEW V, NEW s \in Seq(V), NEW S, NEW T,
         \A k \in 1..Len(s) : s[k] \in S <=> s[k] \in T
  PROVE  Split(s, S) = Split(s, T)
  <1>1. PICK f : SplitsUpTo(s, S, V, f)
    BY SplitIs
  <1>2. PICK h : SplitsUpTo(s, T, V, h)
    BY SplitIs
  <1>3. PICK N \in Nat : N = Len(s)
    OBVIOUS
  <1>4. /\ f[0] = << <<>> >> /\ Split(s, S) = f[N]
        /\ \A n \in 1..N :
             /\ s[n] \in S => f[n] = Append(f[n - 1], <<>>)
             /\ s[n] \notin S => f[n] = Append(Front(f[n - 1]), Append(Last(f[n - 1]), s[n]))
    BY <1>1, <1>3 DEF SplitsUpTo
  <1>5. /\ h[0] = << <<>> >> /\ Split(s, T) = h[N]
        /\ \A n \in 1..N :
             /\ s[n] \in T => h[n] = Append(h[n - 1], <<>>)
             /\ s[n] \notin T => h[n] = Append(Front(h[n - 1]), Append(Last(h[n - 1]), s[n]))
    BY <1>2, <1>3 DEF SplitsUpTo
  <1> DEFINE U == {n \in 0..N : f[n] = h[n]}
  <1>6. 0 \in U
    <2>1. 0 \in 0..N
      BY <1>3
    <2>2. f[0] = h[0]
      BY <1>4, <1>5, Zenon
    <2> QED
      BY <2>1, <2>2
  <1>7. ASSUME NEW n \in 0..N - 1, n \in U PROVE n + 1 \in U
    <2>1. PICK m \in 1..N : m = n + 1
      BY <1>3
    <2>2. m - 1 = n /\ m \in 0..N
      BY <1>3, <2>1
    <2>3. f[m - 1] = h[m - 1]
      BY <1>7, <2>2
    <2>4. s[m] \in S <=> s[m] \in T
      BY <1>3
    <2>5. f[m] = h[m]
      BY <1>4, <1>5, <2>3, <2>4, Zenon
    <2> QED
      BY <2>1, <2>2, <2>5
  <1>8. N \in U
    <2>1. 0..N \subseteq U
      <3> HIDE DEF U
      <3> QED
        BY <1>3, <1>6, <1>7, BoundedInduction
    <2> QED
      BY <1>3, <2>1
  <1> QED
    BY <1>4, <1>5, <1>8

LEMMA DigitsEnd ==
  ASSUME NEW s, Len(s) \in Nat, NEW i \in 1..Len(s) + 1, NEW e \in i..Len(s) + 1,
         \A k \in i..e - 1 : IsDigit(s[k]), e = Len(s) + 1 \/ ~IsDigit(s[e])
  PROVE  SkipWhile(s, i, IsDigit) = e
  <1> DEFINE Good(j) == /\ j \in i..Len(s) + 1 /\ (j = Len(s) + 1 \/ ~IsDigit(s[j]))
                        /\ \A k \in i..j - 1 : IsDigit(s[k])
  <1>1. Good(e)
    OBVIOUS
  <1>2. ASSUME NEW j, Good(j) PROVE j = e
    <2>1. j \in Nat /\ e \in Nat /\ j >= i /\ e >= i /\ j <= Len(s) + 1 /\ e <= Len(s) + 1
      BY <1>2
    <2>2. ~(j < e)
      <3>1. ASSUME j < e PROVE FALSE
        <4>1. j \in i..e - 1 /\ j # Len(s) + 1
          BY <2>1, <3>1
        <4> QED
          BY <1>2, <4>1
      <3> QED
        BY <3>1
    <2>3. ~(e < j)
      <3>1. ASSUME e < j PROVE FALSE
        <4>1. e \in i..j - 1 /\ e # Len(s) + 1
          BY <2>1, <3>1
        <4> QED
          BY <1>2, <4>1
      <3> QED
        BY <3>1
    <2> QED
      BY <2>1, <2>2, <2>3
  <1>3. SkipWhile(s, i, IsDigit) = CHOOSE j : Good(j)
    BY DEF SkipWhile
  <1> HIDE DEF Good
  <1> QED
    BY <1>1, <1>2, <1>3

\* A command with an argument has a second word.
LEMMA ArgumentFollows ==
  ASSUME NEW s \in Texts, NEW name, Begins(name, s), Argument(s) # <<>>
  PROVE  SecondWord(name, s) # <<>>
  <1>1. PICK n \in Nat : n = Len(s)
    BY DEF Texts
  <1>2. s \in Seq(Pieces) /\ s # <<>> /\ n # 0
    BY <1>1 DEF Begins, Texts
  <1>3. PICK t : t = Tail(s)
    OBVIOUS
  <1>4. t \in Seq(Pieces) /\ Len(t) = n - 1 /\ \A k \in 1..n - 1 : t[k] = s[k + 1]
    BY <1>1, <1>2, <1>3, HeadTailProperties
  <1>5. PICK j \in 1..n - 1 : t[j] # Space
    <2>1. ASSUME \A k \in 1..n - 1 : t[k] = Space PROVE FALSE
      <3>1. \A k \in 1..Len(t) : t[k] \in {Space}
        BY <1>4, <2>1
      <3>2. Without(t, {Space}) = <<>>
        BY <1>4, <3>1, Kept
      <3> QED
        BY <1>3, <3>2 DEF Argument
    <2> QED
      BY <2>1
  <1>6. PICK i : i = SkipSpaces(s, 2)
    OBVIOUS
  <1>7. i \in 2..n + 1 /\ Spaces(s, 2, i)
    <2>1. 2 \in 1..Len(s) + 1
      BY <1>1, <1>2
    <2> QED
      BY <1>1, <1>6, <2>1, SkipSpacesIs
  <1>8. s[j + 1] # Space /\ j + 1 \in 2..n
    BY <1>1, <1>4, <1>5
  <1>9. i <= n
    <2>1. ASSUME ~(i <= n) PROVE FALSE
      <3>1. j + 1 \in 2..i - 1
        BY <1>7, <1>8, <2>1
      <3> QED
        BY <1>7, <1>8, <3>1 DEF Spaces
    <2> QED
      BY <2>1
  <1>10. Len(SubSeq(s, i, n)) = n - i + 1
    <2>1. i \in Int /\ n \in Int /\ \A k \in i..n : s[k] \in Pieces
      BY <1>1, <1>2, <1>7
    <2>2. Len(SubSeq(s, i, n)) = IF i <= n THEN n - i + 1 ELSE 0
      BY <2>1, SubSeqProperties
    <2> QED
      BY <1>9, <2>2
  <1>11. SubSeq(s, i, n) # <<>>
    <2>1. PICK u : u = SubSeq(s, i, n)
      OBVIOUS
    <2>2. Len(u) # 0
      BY <1>7, <1>9, <1>10, <2>1
    <2>3. u # <<>>
      BY <2>2
    <2> QED
      BY <2>1, <2>3
  <1> QED
    BY <1>1, <1>6, <1>11 DEF SecondWord

\* The digits of a second word that is a number.
LEMMA ArgumentIsScanned ==
  ASSUME NEW s \in Texts, NamesJob(s)
  PROVE  /\ SecondWord(s[1], s) # <<>> /\ NumberOf(Argument(s)) \in Nat
         /\ Scanned(SecondWord(s[1], s)) = {NumberOf(Argument(s))}
  <1>1. PICK name : name = s[1]
    OBVIOUS
  <1>2. Begins(name, s) /\ Argument(s) # <<>>
    BY <1>1 DEF NamesJob, Begins
  <1>3. SecondWord(name, s) # <<>>
    BY <1>2, ArgumentFollows
  <1>4. PICK z \in Texts, u \in Texts :
          /\ IsSpaces(z) /\ SecondWord(name, s) = u /\ Tail(s) = z \o u
          /\ u # <<>> /\ u[1] # Space
    BY <1>3, SecondWordIs
  <1>5. z \in Seq(Pieces) /\ u \in Seq(Pieces)
    BY DEF Texts
  <1>6. PICK t : t = Tail(s)
    OBVIOUS
  <1>7. t \in Seq(Pieces) /\ t = z \o u
    <2>1. z \o u \in Seq(Pieces)
      BY <1>5, ConcatProperties
    <2> QED
      BY <1>4, <1>6, <2>1
  <1>8. PICK A : A = Argument(s)
    OBVIOUS
  <1>9. A = Without(t, {Space}) /\ \A k \in DOMAIN A : IsDigit(A[k])
    BY <1>6, <1>8 DEF Argument, NamesJob
  <1>10. A \in Seq(Pieces)
    BY <1>7, <1>9, SplitType
  <1>11. \A k \in 1..Len(A) : IsDigit(A[k])
    <2>1. DOMAIN A = 1..Len(A)
      BY <1>10
    <2> QED
      BY <1>9, <2>1
  <1>12. Without(Split(t, {Space}), {<<>>}) = <<A>>
    <2>1. Len(Without(Split(t, {Space}), {<<>>})) = 1
      BY <1>6 DEF NamesJob
    <2> QED
      BY <1>7, <1>9, <2>1, OnePart
  <1>13. \A k \in 1..Len(t) : t[k] = Space \/ IsDigit(t[k])
    <2> SUFFICES ASSUME NEW k \in 1..Len(t), t[k] # Space PROVE IsDigit(t[k])
      OBVIOUS
    <2>1. PICK Q : Q = {Space}
      OBVIOUS
    <2>2. t[k] \notin Q /\ t \in Seq(Pieces)
      BY <1>7, <2>1
    <2>3. \E m \in 1..Len(Without(t, Q)) : Without(t, Q)[m] = t[k]
      BY <2>2, EachKept
    <2>4. A = Without(t, Q)
      BY <1>9, <2>1
    <2> QED
      BY <1>11, <2>3, <2>4
  <1>14. \A x : IsDigit(x) => x \notin Boundaries /\ x # Space
    BY DigitIs DEF IsWordPiece, Boundaries
  <1>15. WordsIn(t) = <<A>>
    <2>1. \A k \in 1..Len(t) : t[k] \in {Space} <=> t[k] \in Boundaries
      BY <1>13, <1>14 DEF Boundaries
    <2>2. Split(t, {Space}) = Split(t, Boundaries)
      BY <1>7, <2>1, SplitAlike
    <2>3. WordsIn(t) = Without(Split(t, Boundaries), {<<>>})
      BY DEF WordsIn, Boundaries
    <2> QED
      BY <1>12, <2>2, <2>3, Zenon
  <1>16. Remaining(u, 1) = <<A>>
    <2>1. WordsIn(t) = WordsIn(u)
      BY <1>4, <1>7, WordsBehindSpaces
    <2>2. Remaining(u, 1) = WordsIn(u)
      BY RemainingAll
    <2> QED
      BY <1>15, <2>1, <2>2, Zenon
  <1>17. PICK n \in Nat : n = Len(u)
    BY <1>5
  <1>18. n # 0 /\ 1 \in 1..n
    <2>1. n # 0
      BY <1>4, <1>5, <1>17, EmptySeq
    <2> QED
      BY <2>1
  <1>19. \A k \in 1..n : u[k] = Space \/ IsDigit(u[k])
    <2> TAKE k \in 1..n
    <2>1. PICK p \in Nat : p = Len(z)
      BY <1>5
    <2>2. /\ Len(z \o u) = Len(z) + Len(u)
          /\ \A i \in 1..Len(z) + Len(u) : (z \o u)[i] = IF i <= Len(z) THEN z[i] ELSE u[i - Len(z)]
      BY <1>5, ConcatProperties
    <2>3. Len(t) = p + n /\ \A i \in 1..p + n : t[i] = IF i <= p THEN z[i] ELSE u[i - p]
      BY <1>7, <1>17, <2>1, <2>2
    <2>4. p + k \in 1..p + n /\ ~(p + k <= p) /\ p + k - p = k
      BY <2>1
    <2>5. t[p + k] = u[k]
      BY <2>3, <2>4
    <2> QED
      BY <1>13, <2>3, <2>4, <2>5
  <1>20. IsDigit(u[1])
    BY <1>4, <1>18, <1>19
  <1>21. PICK e : e = WordEnd(u, 1)
    OBVIOUS
  <1>22. 1 \in 1..Len(u) + 1 /\ Len(u) \in Nat
    BY <1>17
  <1>23. e \in 1..n + 1 /\ (e = n + 1 \/ ~IsWordPiece(u[e])) /\ Wordy(u, 1, e)
    BY <1>17, <1>21, <1>22, WordEndIs
  <1>24. e # 1
    <2>1. IsWordPiece(u[1])
      BY <1>20, DigitIs
    <2> QED
      BY <1>18, <1>23, <2>1
  <1>25. PICK w : w = SubSeq(u, 1, e - 1)
    OBVIOUS
  <1>26. A = w
    <2>1. 1 # e
      BY <1>24
    <2>2. w \in Words /\ Remaining(u, 1) = <<w>> \o Remaining(u, e)
      BY <1>21, <1>22, <1>25, <2>1, RemainingWord
    <2>3. PICK r \in Seq(Words) : r = Remaining(u, e)
      BY <1>17, <1>23, RemainingIs
    <2>4. PICK o : o = <<w>>
      OBVIOUS
    <2>5. o \in Seq(Words) /\ Len(o) = 1 /\ o[1] = w
      BY <2>2, <2>4
    <2>6. PICK v : v = o \o r
      OBVIOUS
    <2>7. v[1] = w
      <3>1. /\ Len(r) \in Nat
            /\ \A k \in 1..Len(o) + Len(r) : (o \o r)[k] = IF k <= Len(o) THEN o[k] ELSE r[k - Len(o)]
        <4>1. o \in Seq(Words) /\ r \in Seq(Words)
          BY <2>5
        <4> QED
          BY <4>1, ConcatProperties
      <3>2. 1 \in 1..Len(o) + Len(r) /\ 1 <= Len(o)
        BY <2>5, <3>1
      <3>3. (o \o r)[1] = o[1]
        BY <3>1, <3>2
      <3> QED
        BY <2>5, <2>6, <3>3
    <2>8. v = <<A>>
      BY <1>16, <2>2, <2>3, <2>4, <2>6, Zenon
    <2>9. <<A>>[1] = A
      OBVIOUS
    <2> QED
      BY <2>7, <2>8, <2>9, Zenon
  <1>27. w \in Seq(Pieces) /\ Len(w) = e - 1 /\ \A k \in 1..e - 1 : w[k] = u[k]
    <2>1. e \in 1..Len(u) + 1
      BY <1>17, <1>23
    <2>2. w \in Seq(Pieces) /\ Len(w) = e - 1 /\ \A k \in 1..e - 1 : w[k] = u[1 + k - 1]
      BY <1>5, <1>22, <1>23, <1>25, <2>1, SubWord
    <2>3. \A k \in 1..e - 1 : 1 + k - 1 = k
      BY <2>1
    <2> QED
      BY <2>2, <2>3
  <1>28. \A k \in 1..e - 1 : IsDigit(u[k])
    BY <1>11, <1>26, <1>27
  <1>29. e = Len(u) + 1 \/ ~IsDigit(u[e])
    BY <1>17, <1>23, DigitIs
  <1>30. SkipWhile(u, 1, IsDigit) = e
    BY <1>17, <1>22, <1>23, <1>28, <1>29, DigitsEnd
  <1>31. NumberOf(A) \in Nat
    BY <1>10, <1>11, NumberIs
  <1>32. Scanned(u) = {NumberOf(A)}
    <2>1. u[1] # "-" /\ u[1] # "+"
      BY <1>20, DigitIs
    <2>2. 1 \in DOMAIN u
      BY <1>5, <1>17, <1>18
    <2>3. SubSeq(u, 1, SkipWhile(u, 1, IsDigit) - 1) = A
      BY <1>25, <1>26, <1>30
    <2>4. u[1] \notin {"-", "+"}
      BY <2>1
    <2> QED
      BY <1>20, <2>1, <2>2, <2>3, <2>4, Zenon DEF Scanned
  <1> QED
    BY <1>1, <1>3, <1>4, <1>8, <1>31, <1>32

\* A command with a number does one thing, and to the job of that number.
LEMMA NamedJobIsCalled ==
  ASSUME NEW s \in Texts, NamesJob(s), NEW call \in CallsFor(s)
  PROVE  call = [Call(s[1]) EXCEPT !.id = NumberOf(Argument(s))]
  <1>1. PICK name \in JobCommands : name = s[1]
    BY DEF NamesJob
  <1>2. s # <<>>
    BY DEF NamesJob
  <1>3. PICK n \in Nat : n = NumberOf(Argument(s))
    BY ArgumentIsScanned
  <1>4. SecondWord(name, s) # <<>> /\ Scanned(SecondWord(name, s)) = {n}
    BY <1>1, <1>3, ArgumentIsScanned
  <1>5. name \notin SimpleCommands /\ name # "spool"
    BY DEF JobCommands, SimpleCommands
  <1>6. {other \in SimpleCommands : CommandEq(other, s)} = {}
    BY <1>1, <1>5 DEF CommandEq, Begins
  <1>7. \A other : other # name => SecondWord(other, s) = <<>>
    BY <1>1 DEF SecondWord, Begins
  <1>8. SecondWord("spool", s) = <<>>
    BY <1>5, <1>7
  <1>9. JobIds(name, s) = {n} /\ \A other : other # name => JobIds(other, s) = {-1}
    BY <1>4, <1>7, Zenon DEF JobIds
  <1>10. n # -1
    OBVIOUS
  <1>11. -1 \notin JobIds(name, s)
    BY <1>9, <1>10
  <1>12. call \in JobCalls(s)
    BY <1>2, <1>6, <1>8, <1>11, Zenon DEF CallsFor
  <1>13. PICK other \in JobCommands :
           call \in {[Call(other) EXCEPT !.id = i] : i \in JobIds(other, s) \ {-1}}
    BY <1>12 DEF JobCalls
  <1>14. PICK i \in JobIds(other, s) \ {-1} : call = [Call(other) EXCEPT !.id = i]
    BY <1>13
  <1>15. other = name /\ i = n
    <2>1. other = name
      BY <1>9, <1>14
    <2> QED
      BY <1>9, <1>14, <2>1
  <1> QED
    BY <1>1, <1>3, <1>14, <1>15

\* What is done is what was typed, whatever it was: a command with a number does what it
\* is named for to that job, no line without the name of a command does anything to a job,
\* and the words of a task are those of the line, through the quotes of main, the tokens
\* of strtok and the parser of task.c.
THEOREM CommandLineDoesWhatIsTyped == Spec => DoesWhatIsTyped
  <1> DEFINE Typed ==
        pc = "dispatch" =>
          /\ NamesJob(buf) => did' = [Call(buf[1]) EXCEPT !.id = NumberOf(Argument(buf))]
          /\ did'.command \in JobCommands =>
               Begins(did'.command, buf) /\ Argument(buf) # <<>>
          /\ did'.task # NoTask =>
               WordsOfTask(did'.task) = WordsIn(Without(Tail(buf), {"'"}))
  <1>1. ASSUME TaskInv, Next PROVE Typed
    <2> SUFFICES ASSUME pc = "dispatch"
                 PROVE  /\ NamesJob(buf) => did' = [Call(buf[1]) EXCEPT !.id = NumberOf(Argument(buf))]
                        /\ did'.command \in JobCommands =>
                             Begins(did'.command, buf) /\ Argument(buf) # <<>>
                        /\ did'.task # NoTask =>
                             WordsOfTask(did'.task) = WordsIn(Without(Tail(buf), {"'"}))
      OBVIOUS
    <2>1. Dispatch
      BY <1>1 DEF Next, ReadEof, ReadNewline, ReadPiece, ReallocFails
    <2>2. PICK s \in Texts : s = buf
      <3>1. buf \in Seq(STRING)
        BY <1>1 DEF TaskInv, LInv, BufferTyped
      <3> QED
        BY <3>1 DEF Texts, Pieces
    <2>3. PICK call \in CallsFor(s) : call = did'
      BY <2>1, <2>2 DEF Dispatch
    <2>4. NamesJob(s) => call = [Call(s[1]) EXCEPT !.id = NumberOf(Argument(s))]
      BY NamedJobIsCalled
    <2>5. call.command \in JobCommands => Begins(call.command, s) /\ Argument(s) # <<>>
      BY JobCommandHasArgument
    <2>6. call.task # NoTask => WordsOfTask(call.task) = WordsIn(Without(Tail(s), {"'"}))
      BY SpooledWords
    <2> QED
      BY <2>2, <2>3, <2>4, <2>5, <2>6, Zenon
  <1>2. TaskInv /\ [Next]_vars => [Typed]_vars
    <2> HIDE DEF Typed
    <2> QED
      BY <1>1
  <1> QED
    BY <1>2, TaskInvInit, TaskInvNext, PTL DEF Spec, DoesWhatIsTyped

=============================================================================
