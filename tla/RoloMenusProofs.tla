--------------------------- MODULE RoloMenusProofs ---------------------------
(***************************************************************************)
(* Theorems about module RoloMenus: what non_option_arg returns of the     *)
(* arguments (NonOptionArgsAreFirst), whom a search for people shows       *)
(* (RoloMenusShowsPeople), and what a menu takes for a response            *)
(* (RoloMenusAnswersEndLines).                                             *)
(*                                                                         *)
(* The first is about recursive functions: what get_args makes of the      *)
(* arguments is followed argument by argument, up to the first option, and *)
(* behind it (Parsed).  The inductive invariant of the second, LookInv,    *)
(* says where print_people and look_for_person are: what has been shown is *)
(* in turn, up to the place the search is at, and everything before that   *)
(* place has been shown or excused.  That of the third, TextInv, says of   *)
(* what is left of the input that it is the end of what was typed, cut at  *)
(* the beginning of a line or behind the beginning of a long one.          *)
(***************************************************************************)
EXTENDS RoloMenus, SequenceTheorems, FiniteSetTheorems, TLAPS

-----------------------------------------------------------------------------
(* Induction, over a set of numbers.  The library's theorems take the      *)
(* predicate as an operator; this one follows from the pigeonhole          *)
(* principle: if m were the exception, adding 1 would map the members up   *)
(* to m into those without 0.                                              *)

LEMMA SetInduction ==
  ASSUME NEW S, 0 \in S, \A z \in Nat : z \in S => z + 1 \in S
  PROVE  Nat \subseteq S
  <1> SUFFICES ASSUME NEW m \in Nat, m \notin S PROVE FALSE
    OBVIOUS
  <1> DEFINE T == {z \in 0..m : z \in S}
             U == T \ {0}
             f == [z \in T |-> z + 1]
  <1>1. 0 \in T
    OBVIOUS
  <1>2. IsFiniteSet(T) /\ Cardinality(T) \in Nat
    <2>1. IsFiniteSet(0..m) /\ T \in SUBSET (0..m)
      BY FS_Interval
    <2> HIDE DEF T
    <2> QED
      BY <2>1, FS_Subset, FS_CardinalityType
  <1>3. IsFiniteSet(U) /\ Cardinality(U) = Cardinality(T) - 1
    <2> HIDE DEF T
    <2> QED
      BY <1>1, <1>2, FS_RemoveElement
  <1>4. f \in [T -> U]
    OBVIOUS
  <1>5. PICK x, y \in T : x # y /\ f[x] = f[y]
    <2> HIDE DEF f, T, U
    <2> QED
      BY <1>2, <1>3, <1>4, FS_PigeonHole
  <1> QED
    BY <1>5

LEMMA BoundedInduction ==
  ASSUME NEW N \in Nat, NEW S, 0 \in S, \A z \in 0..N - 1 : z \in S => z + 1 \in S
  PROVE  0..N \subseteq S
  <1> DEFINE T == {z \in Nat : z <= N => z \in S}
  <1>1. 0 \in T /\ \A z \in Nat : z \in T => z + 1 \in T
    OBVIOUS
  <1>2. Nat \subseteq T
    <2> HIDE DEF T
    <2> QED
      BY <1>1, SetInduction
  <1> QED
    BY <1>2

\* what takes the number of a place and the value before to a value
Steps(N, V) == [(1..N) \X V -> V]

\* There is a function that is defined by what it is before.
LEMMA Iteration ==
  ASSUME NEW N \in Nat, NEW V, NEW x \in V, NEW g \in Steps(N, V)
  PROVE  \E f \in [0..N -> V] : f[0] = x /\ \A z \in 1..N : f[z] = g[<<z, f[z - 1]>>]
  <1> DEFINE Upto(k, f) ==
               /\ f \in [0..k -> V]
               /\ f[0] = x
               /\ \A z \in 1..k : f[z] = g[<<z, f[z - 1]>>]
             T == {k \in 0..N : \E f : Upto(k, f)}
  <1>1. 0 \in T
    <2> DEFINE f == [z \in 0..0 |-> x]
    <2>1. f \in [0..0 -> V] /\ f[0] = x
      OBVIOUS
    <2>2. Upto(0, f)
      BY <2>1
    <2> HIDE DEF f, Upto
    <2> QED
      BY <2>2
  <1>2. \A k \in 0..N - 1 : k \in T => k + 1 \in T
    <2> SUFFICES ASSUME NEW k \in 0..N - 1, \E f : Upto(k, f)
                 PROVE  \E h : Upto(k + 1, h)
      <3> HIDE DEF Upto
      <3> QED
        OBVIOUS
    <2> PICK f : Upto(k, f)
      OBVIOUS
    <2> DEFINE h == [z \in 0..k + 1 |-> IF z = k + 1 THEN g[<<z, f[z - 1]>>] ELSE f[z]]
    <2>1. h \in [0..k + 1 -> V]
      BY DEF Steps
    <2>2. h[0] = x
      OBVIOUS
    <2>3. \A z \in 1..k + 1 : h[z] = g[<<z, h[z - 1]>>]
      OBVIOUS
    <2>4. Upto(k + 1, h)
      BY <2>1, <2>2, <2>3
    <2> HIDE DEF h, Upto
    <2> QED
      BY <2>4
  <1>3. N \in T
    <2> HIDE DEF T
    <2> QED
      BY <1>1, <1>2, BoundedInduction
  <1>4. PICK f : Upto(N, f)
    <2> HIDE DEF Upto
    <2> QED
      BY <1>3
  <1> QED
    BY <1>4

\* Some position is the first that is outside a set.
LEMMA FirstOutside ==
  ASSUME NEW z \in Nat, NEW i \in 1..z + 1, NEW B
  PROVE  \E j \in i..z + 1 : (j = z + 1 \/ j \notin B) /\ \A k \in i..j - 1 : k \in B
  <1> SUFFICES ASSUME \A j \in i..z + 1 : (\A k \in i..j - 1 : k \in B) => j # z + 1 /\ j \in B
               PROVE  FALSE
    OBVIOUS
  <1> DEFINE T == {d \in 0..z + 1 - i : \A k \in i..i + d : k \in B}
  <1>1. 0 \in T
    <2>1. i \in B
      OBVIOUS
    <2> QED
      BY <2>1
  <1>2. \A d \in 0..z + 1 - i - 1 : d \in T => d + 1 \in T
    <2> SUFFICES ASSUME NEW d \in 0..z + 1 - i - 1, d \in T PROVE d + 1 \in T
      OBVIOUS
    <2>1. i + d + 1 \in i..z + 1 /\ \A k \in i..i + d + 1 - 1 : k \in B
      OBVIOUS
    <2>2. i + d + 1 \in B
      BY <2>1
    <2> QED
      BY <2>1, <2>2
  <1>3. z + 1 - i \in T
    <2> HIDE DEF T
    <2>1. z + 1 - i \in Nat
      OBVIOUS
    <2>2. 0..z + 1 - i \subseteq T
      BY <1>1, <1>2, <2>1, BoundedInduction
    <2> QED
      BY <2>1, <2>2
  <1> QED
    BY <1>3

\* A set of numbers has a least one.
LEMMA LeastIs ==
  ASSUME NEW S, S \subseteq Nat, S # {}
  PROVE  \E j \in S : \A l \in S : j <= l
  <1> PICK m \in Nat : m \in S
    OBVIOUS
  <1> DEFINE B == {k \in Nat : k - 1 \notin S}
  <1>1. PICK j \in 1..m + 1 : (j = m + 1 \/ j \notin B) /\ \A k \in 1..j - 1 : k \in B
    <2>1. 1 \in 1..m + 1
      OBVIOUS
    <2> HIDE DEF B
    <2> QED
      BY <2>1, FirstOutside
  <1>2. j - 1 \in S
    <2>1. m + 1 - 1 = m
      OBVIOUS
    <2> QED
      BY <1>1, <2>1
  <1>3. \A l \in S : j - 1 <= l
    <2> SUFFICES ASSUME NEW l \in S, ~(j - 1 <= l) PROVE FALSE
      OBVIOUS
    <2>1. l + 1 \in 1..j - 1 /\ l + 1 - 1 = l
      OBVIOUS
    <2> QED
      BY <1>1, <2>1
  <1> QED
    BY <1>2, <1>3

-----------------------------------------------------------------------------
(* The arguments, as get_args leaves them in Cmd.                          *)

Associated == [text : Seq(STRING), option : OptionChars \cup {NO_OPTION}]
Cmds == [error : BOOLEAN, options : SUBSET OptionChars,
         dash : OptionChars \cup {NO_OPTION}, args : Seq(Associated)]

LEMMA NoOptionIsNone == NO_OPTION \notin OptionChars
  BY DEF NO_OPTION, OptionChars, Letters

LEMMA OptionIs ==
  ASSUME NEW cmd \in Cmds, NEW c, NEW dupError
  PROVE  LET new == Option(dupError, cmd, c) IN
         /\ new \in Cmds /\ new.args = cmd.args
         /\ new.error \/ new.dash \in OptionChars
         /\ cmd.error => new.error
  BY DEF Option, Cmds

LEMMA SetOptionsIs ==
  ASSUME NEW cmd \in Cmds, NEW chars \in Seq(STRING), NEW dupError
  PROVE  LET new == SetOptions(dupError, cmd, chars) IN
         /\ new \in Cmds /\ new.args = cmd.args
         /\ chars # <<>> => new.error \/ new.dash \in OptionChars
  <1> DEFINE N == Len(chars)
             More(q, c) == Option(dupError, q, c)
             g == [p \in (1..N) \X Cmds |-> More(p[2], chars[p[1]])]
             Body(h) == [i \in 0..N |-> IF i = 0 THEN cmd ELSE More(h[i - 1], chars[i])]
             f == CHOOSE h : h = Body(h)
  <1>1. N \in Nat
    OBVIOUS
  <1>2. g \in Steps(N, Cmds)
    <2>1. \A i \in 1..N, q \in Cmds : More(q, chars[i]) \in Cmds
      BY OptionIs
    <2> HIDE DEF More, N
    <2> QED
      BY <2>1 DEF Steps
  <1>3. PICK h \in [0..N -> Cmds] : h[0] = cmd /\ \A i \in 1..N : h[i] = g[<<i, h[i - 1]>>]
    <2> HIDE DEF N, g
    <2> QED
      BY <1>1, <1>2, Iteration
  <1>4. h = Body(h)
    <2>1. \A i \in 0..N : h[i] = IF i = 0 THEN cmd ELSE More(h[i - 1], chars[i])
      <3> TAKE i \in 0..N
      <3>1. i = 0 \/ (i \in 1..N /\ i # 0 /\ i - 1 \in 0..N)
        BY <1>1
      <3>2. ASSUME i \in 1..N, i - 1 \in 0..N PROVE h[i] = More(h[i - 1], chars[i])
        <4>1. PICK q \in Cmds : q = h[i - 1]
          BY <1>3, <3>2
        <4>2. g[<<i, q>>] = More(q, chars[i])
          <5> HIDE DEF More, N
          <5> QED
            BY <3>2
        <4> HIDE DEF More, g, N
        <4> QED
          BY <1>3, <3>2, <4>1, <4>2
      <3> HIDE DEF More, g, N
      <3> QED
        BY <1>3, <3>1, <3>2
    <2> HIDE DEF More, N, g
    <2> QED
      BY <1>3, <2>1
  <1>5. f = Body(f)
    <2> HIDE DEF Body
    <2> QED
      BY <1>4
  <1>6. SetOptions(dupError, cmd, chars) = f[N]
    BY DEF SetOptions
  <1> HIDE DEF f, g
  <1>7. f[0] = cmd /\ \A i \in 1..N : f[i] = Option(dupError, f[i - 1], chars[i])
    <2>1. 0 \in 0..N /\ \A i \in 1..N : i \in 0..N /\ i # 0
      BY <1>1
    <2>2. \A i \in 0..N : f[i] = IF i = 0 THEN cmd ELSE More(f[i - 1], chars[i])
      <3> HIDE DEF More, N
      <3> QED
        BY <1>5
    <2> HIDE DEF N
    <2> QED
      BY <2>1, <2>2
  <1> HIDE DEF N, More, Body
  <1> DEFINE Good(i) == /\ f[i] \in Cmds /\ f[i].args = cmd.args
                        /\ i > 0 => f[i].error \/ f[i].dash \in OptionChars
             U == {i \in 0..N : Good(i)}
  <1>8. 0 \in U
    BY <1>1, <1>7
  <1>9. ASSUME NEW i \in 0..N - 1, i \in U PROVE i + 1 \in U
    <2>1. PICK q \in Cmds : q = f[i] /\ q.args = cmd.args
      BY <1>9
    <2>2. i + 1 \in 0..N /\ i + 1 \in 1..N /\ i + 1 - 1 = i /\ i + 1 > 0
      BY <1>1
    <2>3. PICK c : c = chars[i + 1]
      OBVIOUS
    <2>4. f[i + 1] = Option(dupError, q, c)
      BY <1>7, <2>1, <2>2, <2>3
    <2>5. Good(i + 1)
      BY <2>1, <2>4, OptionIs
    <2> QED
      BY <2>2, <2>5
  <1>10. N \in U
    <2>1. 0..N \subseteq U
      <3> HIDE DEF U
      <3> QED
        BY <1>1, <1>8, <1>9, BoundedInduction
    <2> QED
      BY <1>1, <2>1
  <1>11. chars # <<>> => N > 0
    BY DEF N
  <1> QED
    BY <1>6, <1>10, <1>11

LEMMA ArgumentIs ==
  ASSUME NEW cmd \in Cmds, NEW arg \in Seq(STRING), NEW dupError
  PROVE  LET new == Argument(dupError, cmd, arg) IN
         /\ new \in Cmds
         /\ cmd.error => new.error
         /\ ~IsOption(arg) /\ ~cmd.error =>
              /\ new.args = Append(cmd.args, [text |-> arg, option |-> cmd.dash])
              /\ new.dash = cmd.dash
         /\ IsOption(arg) => new.args = cmd.args /\ (new.error \/ new.dash \in OptionChars)
  <1>1. CASE cmd.error
    BY <1>1 DEF Argument, Cmds, IsOption
  <1>2. CASE ~cmd.error /\ ~IsOption(arg)
    <2> PICK a \in Associated : a = [text |-> arg, option |-> cmd.dash]
      BY DEF Associated, Cmds
    <2>1. Argument(dupError, cmd, arg) = [cmd EXCEPT !.args = Append(@, a)]
      BY <1>2 DEF Argument
    <2>2. cmd.args \in Seq(Associated) /\ Append(cmd.args, a) \in Seq(Associated)
      BY AppendProperties DEF Cmds
    <2>3. [cmd EXCEPT !.args = Append(@, a)] \in Cmds
      BY <2>2 DEF Cmds
    <2> QED
      BY <1>2, <2>1, <2>3 DEF Cmds
  <1>3. CASE ~cmd.error /\ IsOption(arg)
    <2>1. CASE Len(arg) < 2
      BY <1>3, <2>1 DEF Argument, Cmds
    <2>2. CASE ~(Len(arg) < 2)
      <3>1. /\ Argument(dupError, cmd, arg) = SetOptions(dupError, cmd, Tail(arg))
            /\ Tail(arg) \in Seq(STRING) /\ Tail(arg) # <<>>
        <4>1. arg # <<>> /\ Len(arg) >= 2
          BY <2>2
        <4>2. Tail(arg) \in Seq(STRING) /\ Len(Tail(arg)) = Len(arg) - 1
          BY <4>1
        <4>3. Argument(dupError, cmd, arg) = SetOptions(dupError, cmd, Tail(arg))
          BY <1>3, <2>2 DEF Argument
        <4>4. Tail(arg) # <<>>
          <5>1. PICK t : t = Tail(arg)
            OBVIOUS
          <5>2. Len(t) > 0
            BY <4>1, <4>2, <5>1
          <5>3. t # <<>>
            BY <5>2
          <5> QED
            BY <5>1, <5>3
        <4> QED
          BY <4>2, <4>3, <4>4
      <3> QED
        BY <1>3, <3>1, SetOptionsIs
    <2> QED
      BY <2>1, <2>2
  <1> QED
    BY <1>1, <1>2, <1>3

\* Cmd after some of the arguments
ParsedUpTo(args, dupError, f) ==
  /\ f \in [0..Len(args) -> Cmds]
  /\ f[0] = NoCmd
  /\ \A i \in 1..Len(args) : f[i] = Argument(dupError, f[i - 1], args[i])
  /\ GetArgs(args, dupError) = f[Len(args)]

LEMMA GetArgsIs ==
  ASSUME NEW args \in Seq(Seq(STRING)), NEW dupError
  PROVE  \E f : ParsedUpTo(args, dupError, f)
  <1> DEFINE N == Len(args)
             More(q, a) == Argument(dupError, q, a)
             g == [p \in (1..N) \X Cmds |-> More(p[2], args[p[1]])]
             Body(h) == [i \in 0..N |-> IF i = 0 THEN NoCmd ELSE More(h[i - 1], args[i])]
             f == CHOOSE h : h = Body(h)
  <1>1. N \in Nat /\ \A i \in 1..N : args[i] \in Seq(STRING)
    <2>1. PICK S : S = Seq(STRING)
      OBVIOUS
    <2> QED
      BY <2>1
  <1>0. NoCmd \in Cmds
    <2>1. <<>> \in Seq(Associated)
      OBVIOUS
    <2> QED
      BY <2>1 DEF NoCmd, Cmds
  <1>2. \A i \in 1..N, q \in Cmds : More(q, args[i]) \in Cmds
    BY <1>1, ArgumentIs
  <1>3. g \in Steps(N, Cmds)
    <2> HIDE DEF More, N
    <2> QED
      BY <1>2 DEF Steps
  <1>4. PICK h \in [0..N -> Cmds] : h[0] = NoCmd /\ \A i \in 1..N : h[i] = g[<<i, h[i - 1]>>]
    <2> HIDE DEF N, g, More, f, Body
    <2>1. PICK x \in Cmds : x = NoCmd
      BY <1>0
    <2>2. N \in Nat
      BY <1>1
    <2>0. PICK k, V : k = N /\ V = Cmds
      OBVIOUS
    <2>3. PICK G \in Steps(k, V) : G = g
      BY <1>3, <2>0
    <2>4. \E h \in [0..k -> V] : h[0] = x /\ \A i \in 1..k : h[i] = G[<<i, h[i - 1]>>]
      BY <2>0, <2>1, <2>2, Iteration, SMTT(30)
    <2> QED
      BY <2>0, <2>1, <2>3, <2>4
  <1>5. h = Body(h)
    <2>1. \A i \in 0..N : h[i] = IF i = 0 THEN NoCmd ELSE More(h[i - 1], args[i])
      <3> TAKE i \in 0..N
      <3>1. i = 0 \/ (i \in 1..N /\ i # 0 /\ i - 1 \in 0..N)
        BY <1>1
      <3>2. ASSUME i \in 1..N, i - 1 \in 0..N PROVE h[i] = More(h[i - 1], args[i])
        <4>1. PICK q \in Cmds : q = h[i - 1]
          BY <1>4, <3>2
        <4>2. g[<<i, q>>] = More(q, args[i])
          <5> HIDE DEF More, N
          <5> QED
            BY <3>2
        <4> HIDE DEF More, g, N
        <4> QED
          BY <1>4, <3>2, <4>1, <4>2
      <3> HIDE DEF More, g, N
      <3> QED
        BY <1>4, <3>1, <3>2
    <2> HIDE DEF More, N, g
    <2> QED
      BY <1>4, <2>1
  <1>6. f = Body(f)
    <2> HIDE DEF Body
    <2> QED
      BY <1>5
  <1>7. GetArgs(args, dupError) = f[N]
    BY DEF GetArgs
  <1> HIDE DEF f, g
  <1>8. f[0] = NoCmd /\ \A i \in 1..N : f[i] = More(f[i - 1], args[i])
    <2>1. 0 \in 0..N /\ \A i \in 1..N : i \in 0..N /\ i # 0
      BY <1>1
    <2>2. \A i \in 0..N : f[i] = IF i = 0 THEN NoCmd ELSE More(f[i - 1], args[i])
      <3> HIDE DEF More, N
      <3> QED
        BY <1>6
    <2> HIDE DEF N, More
    <2> QED
      BY <2>1, <2>2
  <1>9. f \in [0..N -> Cmds]
    <2> DEFINE U == {i \in 0..N : f[i] \in Cmds}
    <2>1. 0 \in U
      BY <1>0, <1>1, <1>8
    <2>2. ASSUME NEW i \in 0..N - 1, i \in U PROVE i + 1 \in U
      <3>1. i + 1 \in 1..N /\ i + 1 - 1 = i /\ i + 1 \in 0..N /\ f[i] \in Cmds
        BY <1>1, <2>2
      <3> HIDE DEF More
      <3> QED
        BY <1>2, <1>8, <3>1
    <2>3. 0..N \subseteq U
      <3> HIDE DEF U, N
      <3> QED
        BY <1>1, <2>1, <2>2, BoundedInduction
    <2>4. \A i \in 0..N : f[i] \in Cmds
      BY <2>3
    <2> HIDE DEF More, N
    <2> QED
      BY <1>6, <2>4
  <1> QED
    BY <1>7, <1>8, <1>9 DEF ParsedUpTo

\* After the first i arguments, of which k are before any option: those k are not
\* associated with an option, and all later ones are.
Parsed(cmd, args, i, k) ==
  \/ cmd.error
  \/ /\ i <= k /\ Len(cmd.args) = i /\ cmd.dash = NO_OPTION
     /\ \A p \in 1..i : cmd.args[p].text = args[p] /\ cmd.args[p].option = NO_OPTION
  \/ /\ i > k /\ Len(cmd.args) >= k /\ cmd.dash \in OptionChars
     /\ \A p \in 1..k : cmd.args[p].text = args[p] /\ cmd.args[p].option = NO_OPTION
     /\ \A p \in k + 1..Len(cmd.args) : cmd.args[p].option # NO_OPTION

\* the first k arguments are those before any option
FirstOption(args, k) ==
  /\ k \in 0..Len(args)
  /\ \A p \in 1..k : ~IsOption(args[p])
  /\ k < Len(args) => IsOption(args[k + 1])

LEMMA ArgumentParsed ==
  ASSUME NEW args \in Seq(Seq(STRING)), NEW k \in Nat, FirstOption(args, k),
         NEW i \in 0..Len(args) - 1, NEW cmd \in Cmds, Parsed(cmd, args, i, k)
  PROVE  Parsed(Argument(TRUE, cmd, args[i + 1]), args, i + 1, k)
  <1>1. PICK arg \in Seq(STRING) : arg = args[i + 1]
    <2>1. PICK S : S = Seq(STRING)
      OBVIOUS
    <2>2. args[i + 1] \in S
      BY <2>1, ElementOfSeq
    <2> QED
      BY <2>1, <2>2
  <1>2. PICK new : new = Argument(TRUE, cmd, arg)
    OBVIOUS
  <1>3. /\ cmd.error => new.error
        /\ ~IsOption(arg) /\ ~cmd.error =>
             /\ new.args = Append(cmd.args, [text |-> arg, option |-> cmd.dash])
             /\ new.dash = cmd.dash
        /\ IsOption(arg) => new.args = cmd.args /\ (new.error \/ new.dash \in OptionChars)
    BY <1>2, ArgumentIs
  <1>4. cmd.args \in Seq(Associated) /\ cmd.dash \in OptionChars \cup {NO_OPTION}
        /\ Len(cmd.args) \in Nat
    BY DEF Cmds
  <1>5. Parsed(new, args, i + 1, k)
    <2>1. CASE cmd.error
      BY <1>3, <2>1 DEF Parsed
    <2>2. CASE ~cmd.error /\ IsOption(arg)
      <3>1. i + 1 > k
        BY <1>1, <2>2 DEF FirstOption
      <3>2. k <= i /\ \A p \in k + 1..i : p \in Nat
        BY <3>1
      <3>3. CASE i = k
        <4>1. Len(cmd.args) = k
              /\ \A p \in 1..k : cmd.args[p].text = args[p] /\ cmd.args[p].option = NO_OPTION
          BY <2>2, <3>3 DEF Parsed
        <4>2. \A p \in k + 1..Len(cmd.args) : FALSE
          BY <4>1
        <4> QED
          BY <1>3, <2>2, <3>1, <4>1, <4>2 DEF Parsed
      <3>4. CASE i > k
        <4>1. /\ Len(cmd.args) >= k
              /\ \A p \in 1..k : cmd.args[p].text = args[p] /\ cmd.args[p].option = NO_OPTION
              /\ \A p \in k + 1..Len(cmd.args) : cmd.args[p].option # NO_OPTION
          BY <2>2, <3>4 DEF Parsed
        <4>2. new.args = cmd.args /\ (new.error \/ new.dash \in OptionChars)
          BY <1>3, <2>2
        <4> QED
          BY <3>1, <4>1, <4>2 DEF Parsed
      <3> QED
        BY <3>2, <3>3, <3>4
    <2>3. CASE ~cmd.error /\ ~IsOption(arg)
      <3>1. i # k
        BY <1>1, <2>3 DEF FirstOption
      <3>0. PICK a \in Associated : a = [text |-> arg, option |-> cmd.dash]
        BY <1>4 DEF Associated
      <3>2. a = [text |-> arg, option |-> cmd.dash] /\ a.text = arg /\ a.option = cmd.dash
        BY <3>0
      <3>3. PICK s \in Seq(Associated) : s = cmd.args
        BY <1>4
      <3>4. PICK t : t = Append(s, a)
        OBVIOUS
      <3>5. /\ Len(t) = Len(s) + 1 /\ t[Len(s) + 1] = a
            /\ \A p \in 1..Len(s) : t[p] = s[p]
        BY <3>4, AppendProperties
      <3>6. new.args = t /\ new.dash = cmd.dash
        BY <1>3, <2>3, <3>2, <3>3, <3>4
      <3>7. CASE i < k
        <4>1. Len(s) = i /\ cmd.dash = NO_OPTION
              /\ \A p \in 1..i : s[p].text = args[p] /\ s[p].option = NO_OPTION
          BY <2>3, <3>3, <3>7 DEF Parsed
        <4>2. \A p \in 1..i + 1 : t[p].text = args[p] /\ t[p].option = NO_OPTION
          <5>1. \A p \in 1..i + 1 : p \in 1..i \/ p = i + 1
            OBVIOUS
          <5> QED
            BY <1>1, <3>2, <3>5, <4>1, <5>1
        <4> QED
          BY <3>5, <3>6, <3>7, <4>1, <4>2 DEF Parsed
      <3>8. CASE i > k
        <4>1. /\ Len(s) >= k /\ cmd.dash \in OptionChars
              /\ \A p \in 1..k : s[p].text = args[p] /\ s[p].option = NO_OPTION
              /\ \A p \in k + 1..Len(s) : s[p].option # NO_OPTION
          BY <2>3, <3>3, <3>8 DEF Parsed
        <4>2. PICK m \in Nat : m = Len(s)
          OBVIOUS
        <4>3. \A p \in 1..k : t[p].text = args[p] /\ t[p].option = NO_OPTION
          <5>1. \A p \in 1..k : p \in 1..m
            BY <4>1, <4>2
          <5> QED
            BY <3>5, <4>1, <4>2, <5>1
        <4>4. \A p \in k + 1..m + 1 : t[p].option # NO_OPTION
          <5>1. \A p \in k + 1..m + 1 : (p \in k + 1..m /\ p \in 1..m) \/ p = m + 1
            OBVIOUS
          <5> QED
            BY <3>2, <3>5, <4>1, <4>2, <5>1, NoOptionIsNone
        <4> QED
          BY <3>5, <3>6, <3>8, <4>1, <4>2, <4>3, <4>4 DEF Parsed
      <3> QED
        BY <3>1, <3>7, <3>8
    <2> QED
      BY <2>1, <2>2, <2>3
  <1> QED
    BY <1>1, <1>2, <1>5

LEMMA AllParsed ==
  ASSUME NEW args \in Seq(Seq(STRING)), NEW k \in Nat, FirstOption(args, k),
         NEW cmd, cmd = GetArgs(args, TRUE)
  PROVE  cmd \in Cmds /\ Parsed(cmd, args, Len(args), k)
  <1>1. PICK f : ParsedUpTo(args, TRUE, f)
    BY GetArgsIs
  <1>2. PICK N \in Nat : N = Len(args)
    OBVIOUS
  <1>3. /\ f \in [0..N -> Cmds] /\ f[0] = NoCmd /\ cmd = f[N]
        /\ \A i \in 1..N : f[i] = Argument(TRUE, f[i - 1], args[i])
    BY <1>1, <1>2 DEF ParsedUpTo
  <1> DEFINE U == {i \in 0..N : Parsed(f[i], args, i, k)}
  <1>4. 0 \in U
    <2>1. NoCmd.args = <<>> /\ NoCmd.dash = NO_OPTION /\ Len(<<>>) = 0
      BY DEF NoCmd
    <2>2. \A p \in 1..0 : FALSE
      OBVIOUS
    <2>3. Parsed(NoCmd, args, 0, k)
      BY <2>1, <2>2 DEF Parsed
    <2> QED
      BY <1>3, <2>3
  <1>5. ASSUME NEW i \in 0..N - 1, i \in U PROVE i + 1 \in U
    <2>1. i \in 0..Len(args) - 1 /\ i + 1 \in 1..N /\ i + 1 \in 0..N /\ i + 1 - 1 = i
      BY <1>2
    <2>2. PICK c \in Cmds : c = f[i] /\ Parsed(c, args, i, k)
      BY <1>3, <1>5
    <2>3. Parsed(Argument(TRUE, c, args[i + 1]), args, i + 1, k)
      BY <2>1, <2>2, ArgumentParsed
    <2>4. f[i + 1] = Argument(TRUE, c, args[i + 1])
      <3>1. PICK j \in 1..N : j = i + 1 /\ j - 1 = i
        BY <2>1
      <3>2. f[j] = Argument(TRUE, f[j - 1], args[j])
        BY <1>3
      <3> QED
        BY <2>2, <3>1, <3>2
    <2> QED
      BY <2>1, <2>3, <2>4
  <1>6. N \in U
    <2>1. 0..N \subseteq U
      <3> HIDE DEF U
      <3> QED
        BY <1>4, <1>5, BoundedInduction
    <2> QED
      BY <2>1
  <1> QED
    BY <1>2, <1>3, <1>6

LEMMA FirstOptionIs ==
  ASSUME NEW args \in Seq(Seq(STRING))
  PROVE  \E k \in Nat : FirstOption(args, k)
  <1> PICK N \in Nat : N = Len(args)
    OBVIOUS
  <1> DEFINE B == {p \in 1..N : ~IsOption(args[p])}
  <1>1. PICK j \in 1..N + 1 : (j = N + 1 \/ j \notin B) /\ \A i \in 1..j - 1 : i \in B
    <2>0. PICK o \in 1..N + 1 : o = 1
      OBVIOUS
    <2>1. PICK S : S = B
      OBVIOUS
    <2> HIDE DEF B
    <2>2. \E j \in o..N + 1 : (j = N + 1 \/ j \notin S) /\ \A i \in o..j - 1 : i \in S
      BY FirstOutside
    <2> QED
      BY <2>0, <2>1, <2>2
  <1>2. PICK k \in Nat : k = j - 1
    OBVIOUS
  <1>3. FirstOption(args, k)
    BY <1>1, <1>2 DEF FirstOption
  <1> QED
    BY <1>3

\* the arguments before any option
BeforeOptions(args) == {p \in DOMAIN args : \A q \in 1..p : ~IsOption(args[q])}

LEMMA BeforeOptionsIs ==
  ASSUME NEW args \in Seq(Seq(STRING)), NEW k \in Nat, FirstOption(args, k)
  PROVE  BeforeOptions(args) = 1..k
  <1> PICK N \in Nat : N = Len(args) /\ DOMAIN args = 1..N
    OBVIOUS
  <1>1. ASSUME NEW p \in 1..N, \A q \in 1..p : ~IsOption(args[q]) PROVE p \in 1..k
    <2>1. k < N => k + 1 \notin 1..p
      BY <1>1 DEF FirstOption
    <2> QED
      BY <2>1 DEF FirstOption
  <1>2. ASSUME NEW p \in 1..k PROVE p \in 1..N /\ \A q \in 1..p : ~IsOption(args[q])
    BY DEF FirstOption
  <1> QED
    BY <1>1, <1>2 DEF BeforeOptions

LEMMA CountedIs ==
  ASSUME NEW cmd \in Cmds, NEW k \in Nat, k <= Len(cmd.args),
         \A p \in 1..k : cmd.args[p].option = NO_OPTION,
         \A p \in k + 1..Len(cmd.args) : cmd.args[p].option # NO_OPTION,
         NEW i \in 0..Len(cmd.args)
  PROVE  Counted(cmd, NO_OPTION, i) = IF i <= k THEN i ELSE k
  <1>1. PICK s : s = cmd.args
    OBVIOUS
  <1>2. PICK M \in Nat : M = Len(s)
    BY <1>1 DEF Cmds
  <1> PICK m \in 0..k : m = IF i <= k THEN i ELSE k
    BY <1>1, <1>2
  <1>3. \A j \in 1..i : s[j].option = NO_OPTION <=> j \in 1..m
    <2> TAKE j \in 1..i
    <2>1. j \in 1..k \/ j \in k + 1..M
      BY <1>1, <1>2
    <2> QED
      BY <1>1, <1>2, <2>1
  <1>4. {j \in 1..i : s[j].option = NO_OPTION} = 1..m
    <2>1. \A j \in 1..m : j \in 1..i
      BY <1>1, <1>2
    <2> QED
      BY <1>3, <2>1
  <1>5. Cardinality(1..m) = m
    BY FS_Interval
  <1> QED
    BY <1>1, <1>4, <1>5 DEF Counted

LEMMA NonOptionArgIs ==
  ASSUME NEW args \in Seq(Seq(STRING)), NEW k \in Nat, FirstOption(args, k),
         NEW cmd \in Cmds, Parsed(cmd, args, Len(args), k), ~cmd.error
  PROVE  /\ NNonOptionArgs(cmd) = k
         /\ \A p \in 1..k : NonOptionArg(cmd, p) = args[p]
  <1>3. PICK s \in Seq(Associated) : s = cmd.args
    BY DEF Cmds
  <1>4. PICK M \in Nat : M = Len(s) /\ DOMAIN s = 1..M
    OBVIOUS
  <1>5. /\ k <= M
        /\ \A p \in 1..k : s[p].text = args[p] /\ s[p].option = NO_OPTION
        /\ \A p \in k + 1..M : s[p].option # NO_OPTION
    <2>1. PICK N \in Nat : N = Len(args) /\ k <= N
      BY DEF FirstOption
    <2>4. Parsed(cmd, args, N, k) /\ ~cmd.error
      BY <2>1
    <2>2. CASE N > k
      <3>1. /\ Len(s) >= k
            /\ \A p \in 1..k : s[p].text = args[p] /\ s[p].option = NO_OPTION
            /\ \A p \in k + 1..Len(s) : s[p].option # NO_OPTION
        BY <1>3, <2>2, <2>4 DEF Parsed
      <3> QED
        BY <1>4, <3>1
    <2>3. CASE N = k
      <3>1. M = k /\ \A p \in 1..k : s[p].text = args[p] /\ s[p].option = NO_OPTION
        <4>1. /\ Len(s) = N
              /\ \A p \in 1..N : s[p].text = args[p] /\ s[p].option = NO_OPTION
          BY <1>3, <2>3, <2>4 DEF Parsed
        <4> QED
          BY <1>4, <2>3, <4>1
      <3> QED
        BY <3>1
    <2> QED
      BY <2>1, <2>2, <2>3
  <1>6. \A i \in 0..M : Counted(cmd, NO_OPTION, i) = IF i <= k THEN i ELSE k
    <2>1. /\ k <= Len(cmd.args) /\ \A p \in 1..k : cmd.args[p].option = NO_OPTION
          /\ \A p \in k + 1..Len(cmd.args) : cmd.args[p].option # NO_OPTION
      BY <1>3, <1>4, <1>5
    <2>2. \A i \in 0..Len(cmd.args) : Counted(cmd, NO_OPTION, i) = IF i <= k THEN i ELSE k
      BY <2>1, CountedIs
    <2> QED
      BY <1>3, <1>4, <2>2
  <1>7. NNonOptionArgs(cmd) = k
    <2>1. M \in 0..M /\ M = Len(cmd.args)
      BY <1>3, <1>4
    <2>2. Counted(cmd, NO_OPTION, M) = k
      BY <1>5, <1>6, <2>1
    <2> QED
      BY <2>1, <2>2 DEF NNonOptionArgs, ArgCounter
  <1>8. ASSUME NEW p \in 1..k PROVE NonOptionArg(cmd, p) = args[p]
    <2> DEFINE nth == {i \in DOMAIN cmd.args :
                         cmd.args[i].option = NO_OPTION /\ Counted(cmd, NO_OPTION, i) = p}
    <2>1. \A i \in 1..M : i \in nth <=> i = p
      <3> TAKE i \in 1..M
      <3>1. i \in 0..M /\ (i \in 1..k \/ i \in k + 1..M)
        BY <1>5
      <3>2. Counted(cmd, NO_OPTION, i) = IF i <= k THEN i ELSE k
        BY <1>6, <3>1
      <3>3. i \in nth <=> s[i].option = NO_OPTION /\ Counted(cmd, NO_OPTION, i) = p
        BY <1>3, <1>4
      <3>4. i \in 1..k => s[i].option = NO_OPTION
        BY <1>5
      <3>5. i \in k + 1..M => s[i].option # NO_OPTION /\ i # p
        BY <1>5
      <3> HIDE DEF nth
      <3> QED
        BY <3>1, <3>2, <3>3, <3>4, <3>5
    <2>2. nth = {p}
      <3>1. p \in 1..M /\ \A i \in nth : i \in 1..M
        <4>1. DOMAIN cmd.args = 1..M
          BY <1>3, <1>4
        <4> QED
          BY <1>5, <4>1
      <3> HIDE DEF nth
      <3> QED
        BY <2>1, <3>1
    <2>3. NonOptionArg(cmd, p) = IF nth = {} THEN <<>> ELSE cmd.args[CHOOSE i \in nth : TRUE].text
      BY DEF NonOptionArg, GetOptionArg
    <2> HIDE DEF nth
    <2>4. (CHOOSE i \in nth : TRUE) = p
      BY <2>2
    <2> QED
      BY <1>3, <1>5, <2>2, <2>3, <2>4
  <1> QED
    BY <1>7, <1>8

\* What non_option_arg and n_non_option_args tell the program, once get_args has taken
\* its arguments, are those before the first option, each at its place: an argument
\* behind an option never counts as one of them.
THEOREM NonOptionArgsAreFirst ==
  ASSUME NEW args \in Seq(Seq(STRING)), NEW cmd, cmd = GetArgs(args, TRUE), ~cmd.error
  PROVE  /\ NNonOptionArgs(cmd) \in Nat
         /\ BeforeOptions(args) = 1..NNonOptionArgs(cmd)
         /\ \A p \in 1..NNonOptionArgs(cmd) : NonOptionArg(cmd, p) = args[p]
  <1>1. PICK k \in Nat : FirstOption(args, k)
    BY FirstOptionIs
  <1>2. cmd \in Cmds /\ Parsed(cmd, args, Len(args), k)
    BY <1>1, AllParsed
  <1>3. BeforeOptions(args) = 1..k
    BY <1>1, BeforeOptionsIs
  <1>4. PICK c \in Cmds : c = cmd
    BY <1>2
  <1>5. NNonOptionArgs(c) = k /\ \A p \in 1..k : NonOptionArg(c, p) = args[p]
    BY <1>1, <1>2, <1>4, NonOptionArgIs
  <1> QED
    BY <1>3, <1>4, <1>5

-----------------------------------------------------------------------------
(* Comparing and searching.                                                *)

\* a string is in another one from behind a place of it
InFrom(s, t, p) == \A i \in 1..Len(s) : ToUpperIfLower(t[p + i]) = ToUpperIfLower(s[i])

LEMMA PartOf ==
  ASSUME NEW t \in Seq(STRING), NEW p \in 0..Len(t), NEW q \in p..Len(t)
  PROVE  LET part == SubSeq(t, p + 1, q) IN
         /\ Len(part) = q - p /\ DOMAIN part = 1..q - p
         /\ \A i \in 1..q - p : part[i] = t[p + i]
  <1>1. p + 1 \in Int /\ q \in Int /\ p + 1 <= q + 1 /\ \A i \in p + 1..q : i \in 1..Len(t)
    OBVIOUS
  <1> PICK part : part = SubSeq(t, p + 1, q)
    OBVIOUS
  <1>2. \A i \in p + 1..q : t[i] \in STRING
    BY <1>1, ElementOfSeq
  <1>3. /\ part \in Seq(STRING)
        /\ Len(part) = IF p + 1 <= q THEN q - (p + 1) + 1 ELSE 0
        /\ \A i \in 1..q - (p + 1) + 1 : part[i] = t[p + 1 + i - 1]
    BY <1>1, <1>2, SubSeqProperties
  <1>4. q - (p + 1) + 1 = q - p /\ Len(part) = q - p
    BY <1>3
  <1>5. \A i \in 1..q - p : p + 1 + i - 1 = p + i
    OBVIOUS
  <1>6. DOMAIN part = 1..Len(part)
    BY <1>3
  <1> QED
    BY <1>3, <1>4, <1>5, <1>6

LEMMA StrNCSearchIs ==
  ASSUME NEW s \in Seq(STRING), NEW t \in Seq(STRING)
  PROVE  StrNCSearch(t, s) <=> \E p \in 0..Len(t) - Len(s) : InFrom(s, t, p)
  <1> PICK k \in Nat, l \in Nat : k = Len(s) /\ l = Len(t)
    OBVIOUS
  <1>1. DOMAIN s = 1..k
    OBVIOUS
  <1>2. ASSUME NEW p \in 0..l - k
        PROVE  NocaseEqual(SubSeq(t, p + 1, p + k), s) <=> InFrom(s, t, p)
    <2>1. p \in 0..l /\ p + k \in p..l /\ p + k - p = k
      OBVIOUS
    <2>2. PICK part : part = SubSeq(t, p + 1, p + k)
      OBVIOUS
    <2>3. Len(part) = k /\ DOMAIN part = 1..k /\ \A i \in 1..k : part[i] = t[p + i]
      BY <2>1, <2>2, PartOf
    <2>4. NocaseEqual(part, s)
            <=> \A i \in 1..k : ToUpperIfLower(part[i]) = ToUpperIfLower(s[i])
      BY <2>3 DEF NocaseEqual
    <2> QED
      BY <2>2, <2>3, <2>4 DEF InFrom
  <1>3. \A p \in 0..l - k : p + 1 \in 1..l - k + 1 /\ p + 1 + k - 1 = p + k
    OBVIOUS
  <1>4. \A q \in 1..l - k + 1 : q - 1 \in 0..l - k /\ q + k - 1 = q - 1 + k /\ q - 1 + 1 = q
    OBVIOUS
  <1>5. StrNCSearch(t, s) <=> \E q \in 1..l - k + 1 : NocaseEqual(SubSeq(t, q, q + k - 1), s)
    BY DEF StrNCSearch
  <1>6. (\E q \in 1..l - k + 1 : NocaseEqual(SubSeq(t, q, q + k - 1), s))
          <=> \E p \in 0..l - k : NocaseEqual(SubSeq(t, p + 1, p + k), s)
    <2>1. ASSUME NEW q \in 1..l - k + 1, NocaseEqual(SubSeq(t, q, q + k - 1), s)
          PROVE  \E p \in 0..l - k : NocaseEqual(SubSeq(t, p + 1, p + k), s)
      <3>1. PICK p \in 0..l - k : p = q - 1 /\ q = p + 1 /\ q + k - 1 = p + k
        BY <1>4
      <3> QED
        BY <2>1, <3>1
    <2>2. ASSUME NEW p \in 0..l - k, NocaseEqual(SubSeq(t, p + 1, p + k), s)
          PROVE  \E q \in 1..l - k + 1 : NocaseEqual(SubSeq(t, q, q + k - 1), s)
      <3>1. PICK q \in 1..l - k + 1 : q = p + 1 /\ q + k - 1 = p + k
        BY <1>3
      <3> QED
        BY <2>2, <3>1
    <2> QED
      BY <2>1, <2>2
  <1> QED
    BY <1>2, <1>5, <1>6

LEMMA ContainedIs ==
  ASSUME NEW s \in Seq(STRING), NEW t \in Seq(STRING)
  PROVE  Contained(s, t) <=> \E p \in 0..Len(t) - Len(s) : InFrom(s, t, p)
  <1> PICK k \in Nat, l \in Nat : k = Len(s) /\ l = Len(t)
    OBVIOUS
  <1>1. DOMAIN s = 1..k /\ DOMAIN t = 1..l
    OBVIOUS
  <1>2. PICK S, T : S = Upcase(s) /\ T = Upcase(t)
    OBVIOUS
  <1> DEFINE U == {ToUpperIfLower(s[i]) : i \in 1..k} \cup {ToUpperIfLower(t[i]) : i \in 1..l}
  <1>3. /\ S \in Seq(U) /\ Len(S) = k /\ T \in Seq(U) /\ Len(T) = l
        /\ \A i \in 1..k : S[i] = ToUpperIfLower(s[i])
        /\ \A i \in 1..l : T[i] = ToUpperIfLower(t[i])
    <2>1. S = [i \in 1..k |-> ToUpperIfLower(s[i])] /\ T = [i \in 1..l |-> ToUpperIfLower(t[i])]
      BY <1>1, <1>2 DEF Upcase
    <2>2. S \in [1..k -> U] /\ T \in [1..l -> U]
      BY <2>1
    <2> HIDE DEF U
    <2>3. S \in Seq(U) /\ T \in Seq(U) /\ Len(S) = k /\ Len(T) = l
      BY <2>2, SMTT(30)
    <2> QED
      BY <2>1, <2>3
  <1> HIDE DEF U
  <1>4. ASSUME NEW p \in 0..l
        PROVE  IsPrefix(S, SubSeq(T, p + 1, l)) <=> p <= l - k /\ InFrom(s, t, p)
    <2>1. PICK R : R = SubSeq(T, p + 1, l)
      OBVIOUS
    <2>2. /\ R \in Seq(U) /\ Len(R) = l - p /\ \A i \in 1..l - p : R[i] = T[p + i]
      <3>1. \A i \in p + 1..l : T[i] \in U
        BY <1>3, ElementOfSeq
      <3>2. /\ R \in Seq(U)
            /\ Len(R) = IF p + 1 <= l THEN l - (p + 1) + 1 ELSE 0
            /\ \A i \in 1..l - (p + 1) + 1 : R[i] = T[p + 1 + i - 1]
        <4>1. p + 1 \in Int /\ l \in Int
          OBVIOUS
        <4> QED
          BY <2>1, <3>1, <4>1, SubSeqProperties
      <3>3. l - (p + 1) + 1 = l - p /\ Len(R) = l - p
        BY <3>2
      <3>4. \A i \in 1..l - p : p + 1 + i - 1 = p + i
        OBVIOUS
      <3> QED
        BY <3>2, <3>3, <3>4
    <2>3. k <= l - p =>
            (SubSeq(S, 1, k) = SubSeq(R, 1, k) <=> \A i \in 1..k : S[i] = R[i])
      <3> SUFFICES ASSUME k <= l - p
                   PROVE  SubSeq(S, 1, k) = SubSeq(R, 1, k) <=> \A i \in 1..k : S[i] = R[i]
        OBVIOUS
      <3>1. \A i \in 1..k : S[i] \in U /\ R[i] \in U
        BY <1>3, <2>2, ElementOfSeq
      <3>2. PICK A, B : A = SubSeq(S, 1, k) /\ B = SubSeq(R, 1, k)
        OBVIOUS
      <3>3. /\ A \in Seq(U) /\ Len(A) = IF 1 <= k THEN k - 1 + 1 ELSE 0
            /\ \A i \in 1..k - 1 + 1 : A[i] = S[1 + i - 1]
        BY <3>1, <3>2, SubSeqProperties
      <3>4. /\ B \in Seq(U) /\ Len(B) = IF 1 <= k THEN k - 1 + 1 ELSE 0
            /\ \A i \in 1..k - 1 + 1 : B[i] = R[1 + i - 1]
        BY <3>1, <3>2, SubSeqProperties
      <3>5. k - 1 + 1 = k /\ \A i \in 1..k : 1 + i - 1 = i
        OBVIOUS
      <3>6. Len(A) = k /\ Len(B) = k
        BY <3>3, <3>4
      <3>7. \A i \in 1..k : A[i] = S[i] /\ B[i] = R[i]
        BY <3>3, <3>4, <3>5
      <3>8. A = B <=> \A i \in 1..k : A[i] = B[i]
        BY <3>3, <3>4, <3>6, SeqEqual
      <3> QED
        BY <3>2, <3>7, <3>8
    <2>4. IsPrefix(S, R) <=> k <= l - p /\ \A i \in 1..k : S[i] = R[i]
      BY <1>3, <2>2, <2>3 DEF IsPrefix
    <2>5. k <= l - p <=> p <= l - k
      OBVIOUS
    <2>6. p <= l - k => \A i \in 1..k : (S[i] = R[i]
                         <=> ToUpperIfLower(t[p + i]) = ToUpperIfLower(s[i]))
      <3> SUFFICES ASSUME p <= l - k, NEW i \in 1..k
                   PROVE  S[i] = R[i] <=> ToUpperIfLower(t[p + i]) = ToUpperIfLower(s[i])
        OBVIOUS
      <3>1. p + i \in 1..l /\ i \in 1..l - p
        OBVIOUS
      <3> QED
        BY <1>3, <2>2, <3>1
    <2> QED
      BY <2>1, <2>4, <2>5, <2>6 DEF InFrom
  <1>5. \A p : p \in 0..l - k <=> p \in 0..l /\ p <= l - k
    OBVIOUS
  <1>6. Contained(s, t) <=> \E p \in 0..l : IsPrefix(S, SubSeq(T, p + 1, l))
    BY <1>2, <1>3 DEF Contained
  <1> QED
    BY <1>4, <1>5, <1>6

\* What person_match and strncsearch find is what contains the name looked for.
LEMMA PersonMatches ==
  ASSUME NEW person \in Seq(STRING), NEW name \in Seq(STRING), NEW company \in Seq(STRING),
         NEW entry, entry.name = name, entry.company = company
  PROVE  PersonMatch(person, entry)
           <=> Contained(person, entry.name) \/ Contained(person, entry.company)
  <1>1. StrNCSearch(name, person) <=> Contained(person, name)
    BY StrNCSearchIs, ContainedIs
  <1>2. StrNCSearch(company, person) <=> Contained(person, company)
    BY StrNCSearchIs, ContainedIs
  <1> QED
    BY <1>1, <1>2 DEF PersonMatch

-----------------------------------------------------------------------------
(* The people that are looked for.                                         *)

\* while they are, or may still be
Looking == pc \in {"start", "next", "show", "person"} \/ n > 0

Entries == [name : Seq(STRING), company : Seq(STRING), other : Seq(STRING)]

Places ==
  /\ argv \in Seq(Seq(STRING)) /\ n \in Nat /\ at \in Nat
  /\ n > 0 => pc \in {"next", "show", "person", "over", "error"}
  /\ pc \in {"show", "person"} => n \in Asked
  /\ pc \in {"start", "next", "show", "person"} => result # "abort"
  /\ skipped \subseteq Nat /\ \A p \in skipped : p <= n
  /\ pc \in {"show", "person"} => n \notin skipped
  /\ Looking => entries = Rolodex
  /\ pc = "next" \/ n > 0 => ~Cmd.error /\ Cmd = GetArgs(argv, TRUE)

ShownInTurn ==
  /\ shown \in Seq(Nat \X Nat)
  /\ InTurn
  /\ \A k \in DOMAIN shown : shown[k][1] \in Asked /\ shown[k][1] <= n
  /\ pc \in {"show", "person"} => \A k \in ShownFor(n) : k <= at

\* why an entry that matches was not shown
Excused(p, i) ==
  \/ p \in skipped
  \/ p = n /\ pc \in {"show", "person"} /\ i > at
  \/ p = n /\ pc = "over" /\ result = "abort"
  \/ pc = "error"

ShownSoFar(p) ==
  /\ ShownFor(p) \subseteq Matches(argv[p])
  /\ \A i \in Matches(argv[p]) \ ShownFor(p) : Excused(p, i) /\ \A k \in ShownFor(p) : k < i

LookInv == Places /\ ShownInTurn /\ \A p \in Asked : p <= n => ShownSoFar(p)

LEMMA LookInvIsEnough == LookInv => ShowsPeople
  BY DEF LookInv, ShownInTurn, ShowsPeople, ShownSoFar, Excused, Leaves

LEMMA LookInvInit == Init => LookInv
  <1> SUFFICES ASSUME Init PROVE LookInv
    OBVIOUS
  <1>1. argv \in Seq(Seq(STRING)) /\ entries = Rolodex /\ pc = "start" /\ n = 0 /\ at = 0
        /\ shown = <<>> /\ result = "unset" /\ skipped = {}
    BY RoloMenusAssumption DEF Init
  <1>2. Asked \subseteq Nat \ {0}
    BY <1>1 DEF Asked
  <1>3. Places
    BY <1>1 DEF Places
  <1>4. DOMAIN shown = {} /\ shown \in Seq(Nat \X Nat)
    BY <1>1
  <1>5. ShownInTurn
    BY <1>1, <1>4 DEF ShownInTurn, InTurn
  <1>6. \A p \in Asked : ~(p <= n)
    BY <1>1, <1>2
  <1> QED
    BY <1>3, <1>5, <1>6 DEF LookInv

\* What the properties say of the entries shown depends on these only.
LEMMA ShownStays ==
  ASSUME UNCHANGED <<argv, shown>>
  PROVE  Asked' = Asked /\ InTurn' = InTurn /\ \A p : ShownFor(p)' = ShownFor(p)
  BY DEF Asked, InTurn, ShownFor

\* Nobody is looked for any more, or nobody was to be looked for.
LEMMA LookElsewhere ==
  ASSUME LookInv, n = 0, UNCHANGED <<argv, n, at, shown, skipped>>,
         pc' \notin {"start", "next", "show", "person"}
  PROVE  LookInv'
  <1>1. Asked \subseteq Nat \ {0}
    BY DEF LookInv, Places, Asked
  <1>0. /\ argv' = argv /\ n' = 0 /\ at' = at /\ shown' = shown /\ skipped' = skipped
        /\ Asked' = Asked /\ InTurn' = InTurn
    BY ShownStays
  <1>2. Places'
    <2>1. argv \in Seq(Seq(STRING)) /\ at \in Nat /\ skipped \subseteq Nat
          /\ \A p \in skipped : p <= 0
      BY DEF LookInv, Places
    <2>2. 0 \in Nat /\ ~(0 > 0)
      OBVIOUS
    <2>3. ~Looking'
      BY <1>0, <2>2 DEF Looking
    <2>4. pc' # "next" /\ pc' # "show" /\ pc' # "person"
      OBVIOUS
    <2> QED
      BY <1>0, <2>1, <2>2, <2>3, <2>4 DEF Places
  <1>3. ShownInTurn'
    BY <1>0 DEF LookInv, ShownInTurn
  <1>4. \A p \in Asked' : ~(p <= n')
    BY <1>0, <1>1
  <1> QED
    BY <1>2, <1>3, <1>4 DEF LookInv

\* those asked for, by their numbers
LEMMA AskedIs ==
  ASSUME Places, pc = "next" \/ n > 0
  PROVE  /\ NNonOptionArgs(Cmd) \in Nat
         /\ Asked = 1..NNonOptionArgs(Cmd)
         /\ \A p \in Asked : NonOptionArg(Cmd, p) = argv[p] /\ argv[p] \in Seq(STRING)
  <1> PICK args \in Seq(Seq(STRING)) : args = argv
    BY DEF Places
  <1>1. PICK cmd : cmd = Cmd /\ cmd = GetArgs(args, TRUE) /\ ~cmd.error
    BY DEF Places
  <1>2. /\ NNonOptionArgs(cmd) \in Nat
        /\ BeforeOptions(args) = 1..NNonOptionArgs(cmd)
        /\ \A p \in 1..NNonOptionArgs(cmd) : NonOptionArg(cmd, p) = args[p]
    BY <1>1, NonOptionArgsAreFirst
  <1>3. Asked = BeforeOptions(args)
    BY DEF Asked, BeforeOptions
  <1>4. \A p \in Asked : argv[p] \in Seq(STRING)
    <2>1. PICK S : S = Seq(STRING)
      OBVIOUS
    <2>2. \A p \in 1..Len(args) : args[p] \in S
      BY <2>1, ElementOfSeq
    <2>3. \A p \in Asked : p \in 1..Len(args)
      BY DEF Asked
    <2> QED
      BY <2>1, <2>2, <2>3
  <1> QED
    BY <1>1, <1>2, <1>3, <1>4

\* An entry matches when person_match says so.
LEMMA MatchesIs ==
  ASSUME entries = Rolodex, NEW person \in Seq(STRING)
  PROVE  Matches(person) = {i \in 1..Len(entries) : PersonMatch(person, entries[i])}
  <1>1. PICK l \in Nat : l = Len(entries) /\ DOMAIN entries = 1..l
    BY RoloMenusAssumption
  <1>2. ASSUME NEW i \in 1..l
        PROVE  PersonMatch(person, entries[i])
                 <=> Contained(person, entries[i].name) \/ Contained(person, entries[i].company)
    <2>1. PICK e \in Entries : e = entries[i]
      <3>1. entries \in Seq(Entries)
        BY RoloMenusAssumption DEF Entries
      <3> QED
        BY <1>1, <3>1, ElementOfSeq
    <2>2. PICK name \in Seq(STRING), company \in Seq(STRING) :
            e.name = name /\ e.company = company
      BY DEF Entries
    <2>3. PersonMatch(person, e)
            <=> Contained(person, e.name) \/ Contained(person, e.company)
      BY <2>2, PersonMatches
    <2> QED
      BY <2>1, <2>3
  <1> QED
    BY <1>1, <1>2 DEF Matches

LEMMA NextPersonLooks ==
  ASSUME LookInv, NextPerson
  PROVE  LookInv'
  <1>1. /\ pc = "next" /\ n' = n + 1 /\ at' = 0 /\ result' = "unset"
        /\ pc' = IF n + 1 > NNonOptionArgs(Cmd) THEN "over" ELSE "show"
        /\ argv' = argv /\ Cmd' = Cmd /\ entries' = entries
        /\ shown' = shown /\ skipped' = skipped
    BY DEF NextPerson, Goto, called
  <1>2. PICK count \in Nat : count = NNonOptionArgs(Cmd) /\ Asked = 1..count
    BY <1>1, AskedIs DEF LookInv
  <1>3. Asked' = Asked /\ InTurn' = InTurn /\ \A p : ShownFor(p)' = ShownFor(p)
    BY <1>1, ShownStays
  <1>4. n \in Nat /\ argv \in Seq(Seq(STRING)) /\ entries = Rolodex /\ ~Cmd.error
        /\ Cmd = GetArgs(argv, TRUE) /\ result # "abort"
    BY <1>1 DEF LookInv, Places, Looking
  <1>5. n + 1 \in Nat /\ (n + 1 > count => n + 1 \notin 1..count)
        /\ (~(n + 1 > count) => n + 1 \in 1..count)
    BY <1>4
  <1>6. Places'
    <2>1. pc' \in {"over", "show"} /\ (pc' = "show" => n' \in Asked')
      BY <1>1, <1>2, <1>3, <1>5
    <2>2. skipped' \subseteq Nat /\ (\A p \in skipped' : p <= n') /\ n' \notin skipped'
      <3>1. (\A p \in skipped : p <= n) /\ skipped \subseteq Nat
        BY DEF LookInv, Places
      <3>2. (\A p \in skipped : p <= n + 1) /\ n + 1 \notin skipped
        BY <1>4, <3>1
      <3> QED
        BY <1>1, <3>1, <3>2
    <2>3. n' \in Nat /\ at' \in Nat /\ argv' \in Seq(Seq(STRING))
      BY <1>1, <1>4, <1>5
    <2>4. ~Cmd'.error /\ Cmd' = GetArgs(argv', TRUE) /\ entries' = Rolodex
          /\ result' # "abort"
      BY <1>1, <1>4
    <2> QED
      BY <2>1, <2>2, <2>3, <2>4 DEF Places
  <1>7. \A k \in DOMAIN shown : shown[k][1] \in Nat /\ shown[k][1] <= n
    BY <1>2 DEF LookInv, ShownInTurn
  <1>8. ShownFor(n + 1) = {}
    BY <1>4, <1>7 DEF ShownFor
  <1>9. ShownInTurn'
    <2>1. \A k \in DOMAIN shown : shown[k][1] <= n + 1
      BY <1>4, <1>7
    <2>2. ShownFor(n)' = {}
      <3>1. \A k \in DOMAIN shown : shown[k][1] # n + 1
        BY <1>4, <1>7
      <3> QED
        BY <1>1, <3>1 DEF ShownFor
    <2> QED
      BY <1>1, <1>3, <2>1, <2>2 DEF LookInv, ShownInTurn
  <1>10. ASSUME NEW p \in Asked', p <= n' PROVE ShownSoFar(p)'
    <2>1. p \in 1..count /\ (p <= n \/ p = n + 1) /\ ShownFor(p)' = ShownFor(p)
          /\ Matches(argv[p])' = Matches(argv[p])
      <3>1. p \in 1..count /\ p <= n + 1
        BY <1>1, <1>2, <1>3, <1>10
      <3>2. p <= n \/ p = n + 1
        BY <1>4, <3>1
      <3>3. Matches(argv[p])' = Matches(argv[p])
        BY <1>1 DEF Matches
      <3> QED
        BY <1>3, <3>1, <3>2, <3>3
    <2>2. CASE p <= n
      <3>1. ShownSoFar(p)
        BY <1>2, <2>1, <2>2 DEF LookInv
      <3>2. ASSUME NEW i, Excused(p, i) PROVE Excused(p, i)'
        BY <1>1, <1>4, <3>2 DEF Excused
      <3> QED
        BY <2>1, <3>1, <3>2 DEF ShownSoFar
    <2>3. CASE p = n + 1
      <3>1. pc' = "show"
        BY <1>1, <1>2, <1>5, <2>1, <2>3
      <3>2. \A i \in Matches(argv[p]) : i \in Nat /\ i > 0
        <4>1. entries \in Seq(Entries)
          BY <1>4, RoloMenusAssumption DEF Entries
        <4>2. DOMAIN entries = 1..Len(entries) /\ Len(entries) \in Nat
          BY <4>1
        <4> QED
          BY <4>2 DEF Matches
      <3>3. \A i \in Matches(argv[p]) : Excused(p, i)'
        BY <1>1, <2>3, <3>1, <3>2 DEF Excused
      <3>4. ShownFor(p)' = {}
        BY <1>8, <2>1, <2>3
      <3> QED
        BY <2>1, <3>3, <3>4 DEF ShownSoFar
    <2> QED
      BY <2>1, <2>2, <2>3
  <1> QED
    BY <1>6, <1>9, <1>10 DEF LookInv

LEMMA LookForPersonLooks ==
  ASSUME LookInv, LookForPerson
  PROVE  LookInv'
  <1>1. pc = "person"
    BY DEF LookForPerson, Replies
  <1>2. /\ argv' = argv /\ Cmd' = Cmd /\ entries' = entries /\ n' = n /\ at' = at
        /\ shown' = shown
    BY DEF LookForPerson, called
  <1>3. PICK value :
          /\ result' = value
          /\ skipped' = IF value = "next_person" THEN skipped \cup {n} ELSE skipped
          /\ pc' = CASE value = "continue" -> "show"
                     [] value = "next_person" -> "next"
                     [] value = "help" -> "person"
                     [] value = "abort" -> "over"
                     [] OTHER -> "error"
    BY DEF LookForPerson, Goto
  <1>4. /\ n \in Asked /\ n \in Nat \ {0} /\ n \in Nat /\ at \in Nat
        /\ argv \in Seq(Seq(STRING)) /\ entries = Rolodex /\ ~Cmd.error
        /\ Cmd = GetArgs(argv, TRUE)
    <2>1. n \in Asked /\ Asked \subseteq Nat \ {0}
      BY <1>1 DEF LookInv, Places, Asked
    <2>2. n \in Nat /\ at \in Nat /\ argv \in Seq(Seq(STRING)) /\ entries = Rolodex
      BY <1>1 DEF LookInv, Places, Looking
    <2>3. n > 0
      BY <2>1
    <2> QED
      BY <2>1, <2>2, <2>3 DEF LookInv, Places
  <1>5. /\ pc' \in {"show", "next", "person", "over", "error"}
        /\ pc' \in {"next", "show", "person"} => result' # "abort"
        /\ pc' = "next" => skipped' = skipped \cup {n}
        /\ pc' = "over" => result' = "abort"
        /\ skipped \subseteq skipped' /\ skipped' \subseteq skipped \cup {n}
        /\ pc' \in {"show", "person"} => skipped' = skipped
    BY <1>3
  <1>6. Asked' = Asked /\ InTurn' = InTurn /\ \A p : ShownFor(p)' = ShownFor(p)
    BY <1>2, ShownStays
  <1>7. Places'
    <2>1. skipped' \subseteq Nat /\ \A p \in skipped' : p <= n
      BY <1>4, <1>5 DEF LookInv, Places
    <2>2. pc' \in {"show", "person"} => n \notin skipped'
      BY <1>1, <1>5 DEF LookInv, Places
    <2> QED
      BY <1>2, <1>4, <1>5, <1>6, <2>1, <2>2 DEF Places
  <1>8. ShownInTurn'
    BY <1>1, <1>2, <1>5, <1>6 DEF LookInv, ShownInTurn
  <1>9. ASSUME NEW p \in Asked', p <= n' PROVE ShownSoFar(p)'
    <2>1. ShownSoFar(p) /\ ShownFor(p)' = ShownFor(p) /\ Matches(argv[p])' = Matches(argv[p])
      BY <1>2, <1>6, <1>9 DEF LookInv, Matches
    <2>2. ASSUME NEW i, Excused(p, i) PROVE Excused(p, i)'
      BY <1>1, <1>2, <1>5, <2>2 DEF Excused
    <2> QED
      BY <2>1, <2>2 DEF ShownSoFar
  <1> QED
    BY <1>7, <1>8, <1>9 DEF LookInv

\* the entries that are left for a person
LEMMA LeftIs ==
  ASSUME LookInv, pc = "show"
  PROVE  /\ n \in Asked /\ n \in Nat \ {0} /\ at \in Nat
         /\ {i \in at + 1..Len(entries) : PersonMatch(NonOptionArg(Cmd, n), entries[i])}
              = {i \in Matches(argv[n]) : i > at}
         /\ Matches(argv[n]) \subseteq Nat
  <1>1. n \in Asked /\ n \in Nat \ {0} /\ at \in Nat /\ entries = Rolodex
    <2>1. n \in Asked /\ Asked \subseteq Nat \ {0}
      BY DEF LookInv, Places, Asked
    <2> QED
      BY <2>1 DEF LookInv, Places, Looking
  <1>2. n > 0
    BY <1>1
  <1>3. PICK person \in Seq(STRING) : person = argv[n] /\ NonOptionArg(Cmd, n) = person
    BY <1>1, <1>2, AskedIs DEF LookInv
  <1>4. Matches(person) = {i \in 1..Len(entries) : PersonMatch(person, entries[i])}
    BY <1>1, MatchesIs
  <1>5. Len(entries) \in Nat
    <2>1. entries \in Seq(Entries)
      BY <1>1, RoloMenusAssumption DEF Entries
    <2> QED
      BY <2>1
  <1>6. \A i : i \in at + 1..Len(entries) <=> i \in 1..Len(entries) /\ i > at
    BY <1>1, <1>5
  <1> QED
    BY <1>1, <1>3, <1>4, <1>5, <1>6

LEMMA ShowLooks ==
  ASSUME LookInv, Show
  PROVE  LookInv'
  <1>1. /\ argv' = argv /\ Cmd' = Cmd /\ entries' = entries /\ n' = n
        /\ result' = result /\ skipped' = skipped /\ pc = "show"
    BY DEF Show, called
  <1>2. PICK left : left = {i \in at + 1..Len(entries) :
                              PersonMatch(NonOptionArg(Cmd, n), entries[i])}
    OBVIOUS
  <1>3. /\ left = {i \in Matches(argv[n]) : i > at} /\ Matches(argv[n]) \subseteq Nat
        /\ n \in Asked /\ n \in Nat \ {0} /\ n \in Nat /\ n > 0 /\ at \in Nat
    <2>1. /\ left = {i \in Matches(argv[n]) : i > at} /\ Matches(argv[n]) \subseteq Nat
          /\ n \in Asked /\ n \in Nat \ {0} /\ at \in Nat
      BY <1>1, <1>2, LeftIs
    <2> QED
      BY <2>1
  <1>4. /\ argv \in Seq(Seq(STRING)) /\ entries = Rolodex /\ ~Cmd.error
        /\ Cmd = GetArgs(argv, TRUE) /\ result # "abort"
        /\ skipped \subseteq Nat /\ n \notin skipped /\ \A p \in skipped : p <= n
    BY <1>1, <1>3 DEF LookInv, Places, Looking
  <1>5. Asked' = Asked
    BY <1>1 DEF Asked
  <1>6. CASE left = {}
    <2>1. pc' = "next" /\ at' = at /\ shown' = shown
      BY <1>2, <1>6 DEF Show, Goto
    <2>2. InTurn' = InTurn /\ \A p : ShownFor(p)' = ShownFor(p)
      BY <1>1, <2>1, ShownStays
    <2>3. Places'
      BY <1>1, <1>3, <1>4, <1>5, <2>1 DEF Places
    <2>4. ShownInTurn'
      BY <1>1, <1>5, <2>1, <2>2 DEF LookInv, ShownInTurn
    <2>5. ASSUME NEW p \in Asked', p <= n' PROVE ShownSoFar(p)'
      <3>1. ShownSoFar(p) /\ ShownFor(p)' = ShownFor(p)
            /\ Matches(argv[p])' = Matches(argv[p])
        BY <1>1, <1>5, <2>2, <2>5 DEF LookInv, Matches
      <3>2. ASSUME NEW i \in Matches(argv[p]), Excused(p, i) PROVE Excused(p, i)'
        BY <1>1, <1>3, <1>6, <3>2 DEF Excused
      <3> QED
        BY <3>1, <3>2 DEF ShownSoFar
    <2> QED
      BY <2>3, <2>4, <2>5 DEF LookInv
  <1>7. CASE left # {}
    <2>1. PICK i : i = CHOOSE l \in left : \A j \in left : l <= j
      OBVIOUS
    <2>2. at' = i /\ shown' = Append(shown, <<n, i>>) /\ pc' = "person"
      BY <1>2, <1>7, <2>1 DEF Show, Goto
    <2>3. i \in left /\ \A j \in left : i <= j
      <3>1. left \subseteq Nat /\ left # {}
        BY <1>3, <1>7
      <3>2. \E j \in left : \A l \in left : j <= l
        BY <3>1, LeastIs
      <3> QED
        BY <2>1, <3>2
    <2>4. i \in Nat /\ i > at /\ i \in Matches(argv[n])
      BY <1>3, <2>3
    <2>5. PICK s \in Seq(Nat \X Nat), pair \in Nat \X Nat : s = shown /\ pair = <<n, i>>
      BY <1>3, <2>4 DEF LookInv, ShownInTurn
    <2>6. PICK l \in Nat : l = Len(s) /\ DOMAIN s = 1..l
      OBVIOUS
    <2>7. PICK t \in Seq(Nat \X Nat) : t = Append(s, pair)
      BY AppendProperties
    <2>8. /\ shown' = t /\ DOMAIN t = 1..l + 1 /\ t[l + 1][1] = n /\ t[l + 1][2] = i
          /\ \A k \in 1..l : t[k] = s[k]
      <3>1. Len(t) = l + 1 /\ t[l + 1] = pair /\ \A k \in 1..l : t[k] = s[k]
        BY <2>6, <2>7, AppendProperties
      <3> QED
        BY <2>2, <2>5, <2>7, <3>1
    <2>9. \A k \in 1..l + 1 : k \in 1..l \/ k = l + 1
      OBVIOUS
    <2>10. \A k \in 1..l : s[k][1] \in Asked /\ s[k][1] \in Nat /\ s[k][1] <= n
                           /\ s[k][2] \in Nat /\ (s[k][1] = n => s[k][2] <= at)
      <3>1. \A k \in 1..l : s[k] \in Nat \X Nat
        BY <2>6
      <3> QED
        BY <1>1, <2>5, <2>6, <3>1 DEF LookInv, ShownInTurn, ShownFor
    <2>11. \A p : ShownFor(p)' = IF p = n THEN ShownFor(p) \cup {i} ELSE ShownFor(p)
      <3> TAKE p
      <3>1. ShownFor(p) = {s[k][2] : k \in {m \in 1..l : s[m][1] = p}}
        BY <2>5, <2>6 DEF ShownFor
      <3>2. ShownFor(p)' = {t[k][2] : k \in {m \in 1..l + 1 : t[m][1] = p}}
        BY <2>8 DEF ShownFor
      <3>3. l + 1 \in 1..l + 1 /\ \A k \in 1..l : k \in 1..l + 1
        OBVIOUS
      <3>4. \A x : x \in ShownFor(p)' <=> \E k \in 1..l + 1 : t[k][1] = p /\ x = t[k][2]
        BY <3>2
      <3>5. \A x : x \in ShownFor(p) <=> \E k \in 1..l : s[k][1] = p /\ x = s[k][2]
        BY <3>1
      <3>6. \A x : x \in ShownFor(p)' <=> x \in ShownFor(p) \/ (p = n /\ x = i)
        <4> TAKE x
        <4>1. (\E k \in 1..l + 1 : t[k][1] = p /\ x = t[k][2])
                <=> \/ \E k \in 1..l : t[k][1] = p /\ x = t[k][2]
                    \/ t[l + 1][1] = p /\ x = t[l + 1][2]
          BY <2>9, <3>3
        <4>2. (\E k \in 1..l : t[k][1] = p /\ x = t[k][2])
                <=> \E k \in 1..l : s[k][1] = p /\ x = s[k][2]
          BY <2>8
        <4>3. t[l + 1][1] = n /\ t[l + 1][2] = i
          BY <2>8
        <4> QED
          BY <3>4, <3>5, <4>1, <4>2, <4>3
      <3> QED
        BY <3>6
    <2>12. Places'
      BY <1>1, <1>3, <1>4, <1>5, <2>2, <2>4 DEF Places
    <2>13. InTurn'
      <3>1. ASSUME NEW k \in 1..l + 1, NEW m \in 1..l + 1, k < m
            PROVE  t[k][1] < t[m][1] \/ (t[k][1] = t[m][1] /\ t[k][2] < t[m][2])
        <4>1. k \in 1..l
          BY <3>1
        <4>2. CASE m \in 1..l
          <5>1. \A x, y \in 1..l : x < y =>
                  s[x][1] < s[y][1] \/ (s[x][1] = s[y][1] /\ s[x][2] < s[y][2])
            BY <2>5, <2>6, ZenonT(30) DEF LookInv, ShownInTurn, InTurn
          <5>2. t[k] = s[k] /\ t[m] = s[m]
            BY <2>8, <4>1, <4>2
          <5> QED
            BY <3>1, <4>1, <4>2, <5>1, <5>2, ZenonT(30)
        <4>3. CASE m = l + 1
          <5>1. s[k][1] < n \/ (s[k][1] = n /\ s[k][2] < i)
            BY <1>3, <2>4, <2>10, <4>1, SMTT(30)
          <5> QED
            BY <2>8, <4>1, <4>3, <5>1
        <4> QED
          BY <2>9, <4>2, <4>3
      <3> QED
        BY <2>8, <3>1 DEF InTurn
    <2>14. ShownInTurn'
      <3>1. \A k \in 1..l + 1 : t[k][1] \in Asked /\ t[k][1] <= n
        BY <1>3, <2>8, <2>9, <2>10, SMTT(30)
      <3>2. \A k \in ShownFor(n) : k <= i
        BY <1>3, <2>4, <2>5, <2>6, <2>10 DEF ShownFor
      <3>3. \A k \in ShownFor(n)' : k <= i
        <4>1. PICK m : m = n
          OBVIOUS
        <4>2. ShownFor(n)' = ShownFor(m)'
          BY <1>1, <4>1 DEF ShownFor
        <4> QED
          BY <2>4, <2>11, <3>2, <4>1, <4>2
      <3> QED
        BY <1>1, <1>5, <2>2, <2>8, <2>13, <3>1, <3>3 DEF ShownInTurn
    <2>15. ASSUME NEW p \in Asked', p <= n' PROVE ShownSoFar(p)'
      <3>1. ShownSoFar(p) /\ Matches(argv[p])' = Matches(argv[p])
        BY <1>1, <1>5, <2>15 DEF LookInv, Matches
      <3>2. CASE p # n
        <4>1. ShownFor(p)' = ShownFor(p)
          BY <2>11, <3>2
        <4>2. ASSUME NEW j, Excused(p, j) PROVE Excused(p, j)'
          BY <1>1, <3>2, <4>2 DEF Excused
        <4> QED
          BY <3>1, <4>1, <4>2 DEF ShownSoFar
      <3>3. CASE p = n
        <4>1. /\ ShownFor(p)' = ShownFor(p) \cup {i}
              /\ \A k \in ShownFor(p) : k <= at /\ k \in Nat
          <5>1. \A x \in ShownFor(p) : \E k \in 1..l : s[k][1] = n /\ x = s[k][2]
            BY <2>5, <2>6, <3>3 DEF ShownFor
          <5> QED
            BY <2>10, <2>11, <3>3, <5>1
        <4>2. ASSUME NEW j \in Matches(argv[p]), j \notin ShownFor(p) \cup {i}
              PROVE  Excused(p, j)' /\ \A k \in ShownFor(p) \cup {i} : k < j
          <5>1. Excused(p, j) /\ \A k \in ShownFor(p) : k < j
            BY <3>1, <4>2 DEF ShownSoFar
          <5>2. j > at
            BY <1>1, <1>4, <3>3, <5>1 DEF Excused
          <5>3. j \in left /\ j \in Nat
            BY <1>3, <3>3, <5>2
          <5>4. i < j
            BY <2>3, <2>4, <4>2, <5>3
          <5>5. Excused(p, j)'
            BY <1>1, <2>2, <3>3, <5>4 DEF Excused
          <5> QED
            BY <5>1, <5>4, <5>5
        <4>3. i \in Matches(argv[p])
          BY <2>4, <3>3
        <4> QED
          BY <3>1, <4>1, <4>2, <4>3 DEF ShownSoFar
      <3> QED
        BY <3>2, <3>3
    <2> QED
      BY <2>12, <2>14, <2>15 DEF LookInv
  <1> QED
    BY <1>6, <1>7

-----------------------------------------------------------------------------
(* What menu_match returns.                                                *)

LEMMA GotIs == Got.status \in {"eof", "too many", "line"}
  BY DEF Got, GetLine

LEMMA MatchedIs ==
  ASSUME NEW menu \in Menus, NEW s, NEW m \in Matched(menu, s)
  PROVE  \/ m[1] = "again"
         \/ m[1] = "no_match" /\ menu # "person"
         \/ m[1] = "ambiguous" /\ menu = "add"
         \/ m[1] = "match" /\ \E o \in Options[menu] : m[2] = o[2]
  <1>1. Found(menu, s) \subseteq Options[menu] /\ Blank(menu) \subseteq Options[menu]
    BY DEF Found, Blank
  <1>2. \/ m = <<"again", "">>
        \/ \E o \in Options[menu] : m = <<"match", o[2]>>
        \/ m \in {<<IF menu \in AgainIfNoMatch THEN "again" ELSE "no_match", "">>}
        \/ m \in {<<IF menu \in AgainIfAmbiguous THEN "again" ELSE "ambiguous", "">>}
    <2>1. CASE AllWhitespace(s)
      <3>1. CASE Blank(menu) = {}
        BY <2>1, <3>1 DEF Matched
      <3>2. CASE Blank(menu) # {}
        BY <1>1, <2>1, <3>2 DEF Matched
      <3> QED
        BY <3>1, <3>2
    <2>2. CASE ~AllWhitespace(s) /\ Found(menu, s) = {}
      BY <2>2 DEF Matched
    <2>3. CASE /\ ~AllWhitespace(s) /\ Found(menu, s) # {}
               /\ \E o, p \in Found(menu, s) : o # p
      BY <2>3 DEF Matched
    <2>4. CASE /\ ~AllWhitespace(s) /\ Found(menu, s) # {}
               /\ ~\E o, p \in Found(menu, s) : o # p
      <3>1. m \in {<<"match", o[2]>> : o \in Found(menu, s)}
        BY <2>4 DEF Matched
      <3> QED
        BY <1>1, <3>1
    <2> QED
      BY <2>1, <2>2, <2>3, <2>4
  <1>3. (menu \in AgainIfNoMatch <=> menu = "person")
        /\ (menu \notin AgainIfAmbiguous => menu = "add")
    BY DEF AgainIfNoMatch, AgainIfAmbiguous
  <1>4. ASSUME NEW o \in Options[menu], m = <<"match", o[2]>>
        PROVE  m[1] = "match" /\ m[2] = o[2]
    BY <1>4
  <1>5. ASSUME NEW a, NEW b PROVE m = <<a, b>> => m[1] = a
    OBVIOUS
  <1>6. m = <<"again", "">> => m[1] = "again"
    BY <1>5, Zenon
  <1>7. m \in {<<IF menu \in AgainIfNoMatch THEN "again" ELSE "no_match", "">>}
          => m[1] = "again" \/ (m[1] = "no_match" /\ menu # "person")
    BY <1>3, <1>5, Zenon
  <1>8. m \in {<<IF menu \in AgainIfAmbiguous THEN "again" ELSE "ambiguous", "">>}
          => m[1] = "again" \/ (m[1] = "ambiguous" /\ menu = "add")
    BY <1>3, <1>5, Zenon
  <1> QED
    BY <1>2, <1>4, <1>6, <1>7, <1>8, Zenon

\* Who asked has a response to that menu, or the input has ended.
LEMMA AnswerIs ==
  ASSUME NEW menu \in Menus, NEW r \in Replies(menu), Answer(r)
  PROVE  /\ pc = menu /\ text' = Got.rest /\ reply' = r
         /\ \/ r.rval = "eof"
            \/ /\ Got.status = "line" /\ r.response = Got.line
               /\ \/ r.rval = "no_match" /\ menu # "person"
                  \/ r.rval = "ambiguous" /\ menu = "add"
                  \/ r.rval = "match" /\ \E o \in Options[menu] : r.value = o[2]
  <1>1. pc = menu
    BY DEF Replies
  <1>2. r.rval # "again" /\ text' = Got.rest /\ reply' = r
    BY DEF Answer
  <1>3. CASE Got.status = "eof"
    BY <1>1, <1>2, <1>3 DEF Replies, NoReply
  <1>4. CASE Got.status = "too many"
    <2>1. r = [NoReply EXCEPT !.menu = menu, !.rval = "again"]
      BY <1>1, <1>4 DEF Replies
    <2> QED
      BY <1>2, <2>1 DEF NoReply
  <1>5. CASE Got.status = "line"
    <2>1. PICK m \in Matched(menu, RemoveExcessBlanks(Got.line)) :
            r = [menu |-> menu, rval |-> m[1], value |-> m[2], response |-> Got.line]
      BY <1>1, <1>5 DEF Replies
    <2> QED
      BY <1>1, <1>2, <1>5, <2>1, MatchedIs
  <1> QED
    BY <1>3, <1>4, <1>5, GotIs

LEMMA DataHelpOrAbortIs ==
  ASSUME NEW menu \in {"field_name", "string"}, NEW r \in Replies(menu), Answer(r)
  PROVE  DataHelpOrAbort(r) \in {"data", "abort", "help", "eof"}
  <1>1. menu \in Menus /\ menu # "add"
    BY DEF Menus
  <1>2. \A o \in Options[menu] : o[2] \in {"abort", "help"}
    BY <1>1 DEF Options, HelpOrAbort
  <1> QED
    BY <1>1, <1>2, AnswerIs DEF DataHelpOrAbort

-----------------------------------------------------------------------------
(* The other menus have nothing to do with whom print_people looks for.    *)

LEMMA LookStays ==
  ASSUME LookInv, UNCHANGED <<argv, Cmd, entries, pc, result, search>>
  PROVE  LookInv'
  <1>1. /\ argv' = argv /\ Cmd' = Cmd /\ entries' = entries /\ pc' = pc /\ result' = result
        /\ n' = n /\ at' = at /\ shown' = shown /\ skipped' = skipped
    BY DEF search
  <1>2. Asked' = Asked /\ InTurn' = InTurn /\ \A p : ShownFor(p)' = ShownFor(p)
    BY <1>1, ShownStays
  <1>3. ShownFor(n)' = ShownFor(n)
    BY <1>1 DEF ShownFor
  <1>4. Places'
    BY <1>1, <1>2 DEF LookInv, Places, Looking
  <1>5. ShownInTurn'
    BY <1>1, <1>2, <1>3 DEF LookInv, ShownInTurn
  <1>6. ASSUME NEW p \in Asked', p <= n' PROVE ShownSoFar(p)'
    <2>1. ShownSoFar(p) /\ ShownFor(p)' = ShownFor(p) /\ Matches(argv[p])' = Matches(argv[p])
      BY <1>1, <1>2, <1>6 DEF LookInv, Matches
    <2>2. ASSUME NEW i, Excused(p, i) PROVE Excused(p, i)'
      BY <1>1, <2>2 DEF Excused
    <2> QED
      BY <2>1, <2>2 DEF ShownSoFar
  <1> QED
    BY <1>4, <1>5, <1>6 DEF LookInv

LEMMA StartLooks ==
  ASSUME LookInv, Start
  PROVE  LookInv'
  <1>1. /\ pc = "start" /\ Cmd' = GetArgs(argv, TRUE) /\ argv' = argv /\ entries' = entries
        /\ result' = result /\ n' = n /\ at' = at /\ shown' = shown /\ skipped' = skipped
    BY DEF Start, search
  <1>0. pc' \in {"error", "over", "next", "main"} /\ (pc' = "next" => ~Cmd'.error)
    BY DEF Start, Goto
  <1>2. n = 0
    BY <1>1 DEF LookInv, Places
  <1>3. CASE pc' = "next"
    <2>1. ~Cmd'.error /\ Cmd' = GetArgs(argv', TRUE)
      BY <1>0, <1>1, <1>3
    <2>2. entries' = Rolodex /\ result' # "abort"
      BY <1>1 DEF LookInv, Places, Looking
    <2>3. Asked' = Asked /\ InTurn' = InTurn /\ \A p : ShownFor(p)' = ShownFor(p)
      BY <1>1, ShownStays
    <2>4. Asked \subseteq Nat \ {0}
      BY DEF LookInv, Places, Asked
    <2>5. Places'
      BY <1>1, <1>2, <1>3, <2>1, <2>2 DEF LookInv, Places
    <2>6. ShownInTurn'
      BY <1>1, <1>3, <2>3 DEF LookInv, ShownInTurn
    <2>7. \A p \in Asked' : ~(p <= n')
      BY <1>1, <1>2, <2>3, <2>4
    <2> QED
      BY <2>5, <2>6, <2>7 DEF LookInv
  <1>4. CASE pc' # "next"
    BY <1>0, <1>1, <1>2, <1>4, LookElsewhere
  <1> QED
    BY <1>3, <1>4

LEMMA MenusLook ==
  ASSUME LookInv,
         \/ InteractiveRolo \/ AddTheEntry \/ AnyCharToContinue
         \/ SelectField \/ SelectUserField \/ SelectSearchString \/ Search
  PROVE  LookInv'
  <1>1. /\ pc \in {"main", "add", "continue", "field_help", "field", "field_name", "string",
                   "search"}
        /\ UNCHANGED <<argv, n, at, shown, skipped>>
    BY DEF InteractiveRolo, AddTheEntry, AnyCharToContinue, SelectField, SelectUserField,
           SelectSearchString, Search, Replies, called, search
  <1>2. n = 0
    BY <1>1 DEF LookInv, Places
  <1>3. pc' \notin {"start", "next", "show", "person"}
    <2>1. CASE InteractiveRolo
      BY <2>1 DEF InteractiveRolo, Goto
    <2>2. CASE AddTheEntry
      BY <2>2 DEF AddTheEntry, Goto
    <2>3. CASE AnyCharToContinue
      BY <2>3 DEF AnyCharToContinue, Goto
    <2>4. CASE SelectField
      BY <2>4 DEF SelectField, Goto
    <2>5. CASE SelectUserField
      <3>1. PICK r \in Replies("field_name") :
              Answer(r) /\ DataOrAbort(r, "string", "main", "string")
        BY <2>5 DEF SelectUserField
      <3>2. DataHelpOrAbort(r) \in {"data", "abort", "help", "eof"}
        BY <3>1, DataHelpOrAbortIs
      <3> QED
        BY <1>1, <3>1, <3>2 DEF DataOrAbort, Goto
    <2>6. CASE SelectSearchString
      <3>1. PICK r \in Replies("string") :
              Answer(r) /\ DataOrAbort(r, "search", "main", "main")
        BY <2>6 DEF SelectSearchString
      <3>2. DataHelpOrAbort(r) \in {"data", "abort", "help", "eof"}
        BY <3>1, DataHelpOrAbortIs
      <3> QED
        BY <1>1, <3>1, <3>2 DEF DataOrAbort, Goto
    <2>7. CASE Search
      BY <2>7 DEF Search, Goto
    <2> QED
      BY <2>1, <2>2, <2>3, <2>4, <2>5, <2>6, <2>7
  <1> QED
    BY <1>1, <1>2, <1>3, LookElsewhere

LEMMA LookInvNext == LookInv /\ [Next]_vars => LookInv'
  <1> SUFFICES ASSUME LookInv, [Next]_vars PROVE LookInv'
    OBVIOUS
  <1>1. CASE Type
    BY <1>1, LookStays DEF Type
  <1>2. CASE Start
    BY <1>2, StartLooks
  <1>3. CASE NextPerson
    BY <1>3, NextPersonLooks
  <1>4. CASE Show
    BY <1>4, ShowLooks
  <1>5. CASE LookForPerson
    BY <1>5, LookForPersonLooks
  <1>6. CASE \/ InteractiveRolo \/ AddTheEntry \/ AnyCharToContinue
             \/ SelectField \/ SelectUserField \/ SelectSearchString \/ Search
    BY <1>6, MenusLook
  <1>7. CASE Again
    BY <1>7, LookStays DEF Again, called
  <1>8. CASE UNCHANGED vars
    BY <1>8, LookStays DEF vars, called
  <1> QED
    BY <1>1, <1>2, <1>3, <1>4, <1>5, <1>6, <1>7, <1>8 DEF Next, Program

\* Who looks for people in the rolodex finds, for each argument before the first option,
\* the entries that match it, all of them and in their order, up to where he leaves that
\* search: whatever the arguments, the entries and what is typed (print_people).
THEOREM RoloMenusShowsPeople == Spec => []ShowsPeople
  <1>1. Init => LookInv
    BY LookInvInit
  <1>2. LookInv /\ [Next]_vars => LookInv'
    BY LookInvNext
  <1>3. LookInv => ShowsPeople
    BY LookInvIsEnough
  <1> QED
    BY <1>1, <1>2, <1>3, PTL DEF Spec

-----------------------------------------------------------------------------
(* Lines.                                                                  *)

NEWLINE == "\n"
NoNewline(t, i, j) == \A k \in i..j : t[k] # NEWLINE

LEMMA SuffixIs ==
  ASSUME NEW S, NEW t \in Seq(S), NEW b \in 0..Len(t), NEW c \in b..Len(t)
  PROVE  LET part == SubSeq(t, b + 1, c) IN
         /\ part \in Seq(S) /\ Len(part) = c - b
         /\ \A i \in 1..c - b : part[i] = t[b + i]
  <1>1. b + 1 \in Int /\ c \in Int /\ \A i \in b + 1..c : i \in 1..Len(t)
    OBVIOUS
  <1> PICK part : part = SubSeq(t, b + 1, c)
    OBVIOUS
  <1>2. \A i \in b + 1..c : t[i] \in S
    BY <1>1, ElementOfSeq
  <1>3. /\ part \in Seq(S)
        /\ Len(part) = IF b + 1 <= c THEN c - (b + 1) + 1 ELSE 0
        /\ \A i \in 1..c - (b + 1) + 1 : part[i] = t[b + 1 + i - 1]
    BY <1>1, <1>2, SubSeqProperties
  <1>4. c - (b + 1) + 1 = c - b /\ Len(part) = c - b
    BY <1>3
  <1>5. \A i \in 1..c - b : b + 1 + i - 1 = b + i
    OBVIOUS
  <1> QED
    BY <1>3, <1>4, <1>5

\* A part of a part is a part.
LEMMA PartOfSuffix ==
  ASSUME NEW S, NEW t \in Seq(S), NEW b \in 0..Len(t), NEW x, x = SubSeq(t, b + 1, Len(t)),
         NEW i \in 0..Len(t) - b, NEW j \in i..Len(t) - b
  PROVE  SubSeq(x, i + 1, j) = SubSeq(t, b + i + 1, b + j)
  <1> PICK l \in Nat : l = Len(t) /\ b \in 0..l
    OBVIOUS
  <1>1. l \in b..l /\ b + i \in 0..l /\ b + j \in b + i..l /\ b + j - (b + i) = j - i
    OBVIOUS
  <1>2. x \in Seq(S) /\ Len(x) = l - b /\ \A k \in 1..l - b : x[k] = t[b + k]
    BY <1>1, SuffixIs
  <1>3. PICK u, v : u = SubSeq(x, i + 1, j) /\ v = SubSeq(t, b + i + 1, b + j)
    OBVIOUS
  <1>4. u \in Seq(S) /\ Len(u) = j - i /\ \A k \in 1..j - i : u[k] = x[i + k]
    <2>1. i \in 0..Len(x) /\ j \in i..Len(x)
      BY <1>2
    <2>2. x \in Seq(S)
      BY <1>2
    <2> QED
      BY <1>3, <2>1, <2>2, SuffixIs
  <1>5. PICK y, z : y = b + i /\ z = b + j
    OBVIOUS
  <1>6. y \in 0..Len(t) /\ z \in y..Len(t) /\ z - y = j - i /\ \A k \in 1..j - i : b + (i + k) = y + k
    BY <1>1, <1>5
  <1>7. v = SubSeq(t, y + 1, z)
    BY <1>3, <1>5
  <1>8. v \in Seq(S) /\ Len(v) = z - y /\ \A k \in 1..z - y : v[k] = t[y + k]
    BY <1>6, <1>7, SuffixIs
  <1>9. \A k \in 1..j - i : u[k] = v[k]
    <2> TAKE k \in 1..j - i
    <2>1. i + k \in 1..l - b
      OBVIOUS
    <2>2. x[i + k] = t[b + (i + k)]
      BY <1>2, <2>1
    <2>3. u[k] = x[i + k]
      BY <1>4
    <2>4. v[k] = t[y + k] /\ b + (i + k) = y + k
      BY <1>6, <1>8
    <2> QED
      BY <2>2, <2>3, <2>4
  <1>10. Len(u) = Len(v)
    BY <1>4, <1>6, <1>8
  <1> QED
    BY <1>3, <1>4, <1>8, <1>9, <1>10, SeqEqual

LEMMA LineLengthIs ==
  ASSUME NEW S, NEW x \in Seq(S), NEW k, k = LineLength(x)
  PROVE  /\ k \in 0..Len(x)
         /\ k = Len(x) \/ x[k + 1] = NEWLINE
         /\ NoNewline(x, 1, k)
  <1> PICK l \in Nat : l = Len(x)
    OBVIOUS
  <1> DEFINE B == {i \in 1..l : x[i] # NEWLINE}
             Ends(i) == (i = l \/ x[i + 1] = NEWLINE) /\ \A j \in 1..i : x[j] # NEWLINE
  <1>1. PICK j \in 1..l + 1 : (j = l + 1 \/ j \notin B) /\ \A i \in 1..j - 1 : i \in B
    <2>1. 1 \in 1..l + 1
      OBVIOUS
    <2> HIDE DEF B
    <2> QED
      BY <2>1, FirstOutside
  <1>2. j - 1 \in 0..l /\ Ends(j - 1)
    <2>1. j - 1 \in 0..l /\ j - 1 + 1 = j /\ (j = l + 1 => j - 1 = l) /\ (j # l + 1 => j \in 1..l)
      OBVIOUS
    <2> QED
      BY <1>1, <2>1
  <1>3. k = CHOOSE i \in 0..l : Ends(i)
    BY DEF LineLength, NEWLINE
  <1>4. k \in 0..l /\ Ends(k)
    <2> HIDE DEF Ends
    <2> QED
      BY <1>2, <1>3
  <1> QED
    BY <1>4 DEF NoNewline

\* where the line of a position begins
LineStart(t, p) ==
  CHOOSE i \in 0..p : (i = 0 \/ t[i] = NEWLINE) /\ \A j \in i + 1..p : t[j] # NEWLINE
Starts(t, p, i) == i \in 0..p /\ (i = 0 \/ t[i] = NEWLINE) /\ NoNewline(t, i + 1, p)

LEMMA LineStartIs ==
  ASSUME NEW t, NEW p \in Nat
  PROVE  Starts(t, p, LineStart(t, p))
  <1> DEFINE B == {k \in 1..p : t[p + 1 - k] # NEWLINE}
             Good(i) == (i = 0 \/ t[i] = NEWLINE) /\ \A j \in i + 1..p : t[j] # NEWLINE
  <1>1. PICK j \in 1..p + 1 : (j = p + 1 \/ j \notin B) /\ \A k \in 1..j - 1 : k \in B
    <2>1. 1 \in 1..p + 1
      OBVIOUS
    <2> HIDE DEF B
    <2> QED
      BY <2>1, FirstOutside
  <1>2. PICK i \in 0..p : i = p + 1 - j
    OBVIOUS
  <1>3. i = 0 \/ t[i] = NEWLINE
    <2>1. j = p + 1 => i = 0
      BY <1>2
    <2>2. j # p + 1 => j \in 1..p
      OBVIOUS
    <2> QED
      BY <1>1, <1>2, <2>1, <2>2
  <1>4. ASSUME NEW k \in i + 1..p PROVE t[k] # NEWLINE
    <2>1. p + 1 - k \in 1..j - 1 /\ p + 1 - (p + 1 - k) = k
      BY <1>2
    <2> QED
      BY <1>1, <2>1
  <1>5. Good(i)
    BY <1>3, <1>4
  <1>6. LineStart(t, p) = CHOOSE k \in 0..p : Good(k)
    BY DEF LineStart
  <1>7. LineStart(t, p) \in 0..p /\ Good(LineStart(t, p))
    <2> HIDE DEF Good
    <2> QED
      BY <1>5, <1>6
  <1> QED
    BY <1>7 DEF Starts, NoNewline

LEMMA StartsOnce ==
  ASSUME NEW t, NEW p \in Nat, NEW i, NEW j, Starts(t, p, i), Starts(t, p, j)
  PROVE  i = j
  <1>1. i \in 0..p /\ j \in 0..p
    BY DEF Starts
  <1>2. ~(i < j)
    <2> SUFFICES ASSUME i < j PROVE FALSE
      OBVIOUS
    <2>1. j \in i + 1..p /\ j # 0
      BY <1>1
    <2> QED
      BY <2>1 DEF Starts, NoNewline
  <1>3. ~(j < i)
    <2> SUFFICES ASSUME j < i PROVE FALSE
      OBVIOUS
    <2>1. i \in j + 1..p /\ i # 0
      BY <1>1
    <2> QED
      BY <2>1 DEF Starts, NoNewline
  <1> QED
    BY <1>1, <1>2, <1>3

\* A line begins behind a newline.
LEMMA StartsBehindNewline ==
  ASSUME NEW t, NEW p \in Nat, p = 0 \/ t[p] = NEWLINE
  PROVE  LineStart(t, p) = p
  <1>1. Starts(t, p, p)
    BY DEF Starts, NoNewline
  <1> QED
    BY <1>1, LineStartIs, StartsOnce

\* It goes on where there is none.
LEMMA StartsBefore ==
  ASSUME NEW t, NEW p \in Nat, NEW q \in Nat, p <= q, NoNewline(t, p + 1, q)
  PROVE  LineStart(t, q) = LineStart(t, p) /\ LineStart(t, p) <= p
  <1>1. PICK i : i = LineStart(t, p) /\ Starts(t, p, i)
    BY LineStartIs
  <1>2. i \in 0..p /\ i \in 0..q
    BY <1>1 DEF Starts
  <1>3. ASSUME NEW k \in i + 1..q PROVE t[k] # NEWLINE
    <2>1. k \in i + 1..p \/ k \in p + 1..q
      BY <1>2
    <2> QED
      BY <1>1, <2>1 DEF Starts, NoNewline
  <1>4. Starts(t, q, i)
    BY <1>1, <1>2, <1>3 DEF Starts, NoNewline
  <1> QED
    BY <1>1, <1>2, <1>4, LineStartIs, StartsOnce

-----------------------------------------------------------------------------
(* What is left of what was typed: the reads of the program leave the end  *)
(* of it, that begins a line or is behind the beginning of a long one.     *)

Cut(t, b) ==
  b < Len(t) /\ LineStart(t, b) < b => b - LineStart(t, b) >= TooLong
LeftOf(t, x) ==
  /\ \E S : t \in Seq(S)
  /\ Len(x) \in 0..Len(t)
  /\ x = SubSeq(t, Len(t) - Len(x) + 1, Len(t))
  /\ Cut(t, Len(t) - Len(x))

LEMMA TooLongIs ==
  TooLong \in Nat \ {0} /\ MAXCONTINUE - 1 >= TooLong /\ MAX_MENU_RESPONSE_LENGTH - 1 >= TooLong
  BY RoloMenusAssumption DEF TooLong

LEMMA LeftOfIs ==
  ASSUME NEW S, NEW t \in Seq(S), NEW l \in Nat, l = Len(t), NEW x, LeftOf(t, x)
  PROVE  \E b \in 0..l :
           /\ b = l - Len(x) /\ Len(x) = l - b
           /\ x = SubSeq(t, b + 1, l) /\ x \in Seq(S)
           /\ \A i \in 1..l - b : x[i] = t[b + i]
           /\ Cut(t, b)
  <1>1. Len(x) \in 0..l /\ x = SubSeq(t, l - Len(x) + 1, l) /\ Cut(t, l - Len(x))
    BY DEF LeftOf
  <1>2. PICK b \in 0..l : b = l - Len(x)
    BY <1>1
  <1>3. x = SubSeq(t, b + 1, l) /\ Cut(t, b) /\ Len(x) = l - b
    BY <1>1, <1>2
  <1>4. x \in Seq(S) /\ \A i \in 1..l - b : x[i] = t[b + i]
    <2>1. PICK y : y = SubSeq(t, b + 1, l)
      OBVIOUS
    <2>2. b \in 0..Len(t) /\ l \in b..Len(t)
      OBVIOUS
    <2>3. y \in Seq(S) /\ \A i \in 1..l - b : y[i] = t[b + i]
      BY <2>1, <2>2, SuffixIs
    <2> QED
      BY <1>3, <2>1, <2>3
  <1> QED
    BY <1>2, <1>3, <1>4

\* the places a read ends at
ReadEnds(x, k) ==
  /\ k \in 0..Len(x)
  /\ \/ k = Len(x)
     \/ k > 0 /\ x[k] = NEWLINE
     \/ k >= TooLong /\ NoNewline(x, 1, k)

LEMMA ReadLeaves ==
  ASSUME NEW t, NEW x, LeftOf(t, x), NEW k, ReadEnds(x, k), NEW y, y = SubSeq(x, k + 1, Len(x))
  PROVE  LeftOf(t, y)
  <1> PICK S : t \in Seq(S)
    BY DEF LeftOf
  <1> PICK l \in Nat : l = Len(t)
    OBVIOUS
  <1>1. PICK b \in 0..l :
          /\ b = l - Len(x) /\ Len(x) = l - b
          /\ x = SubSeq(t, b + 1, l) /\ x \in Seq(S)
          /\ \A i \in 1..l - b : x[i] = t[b + i]
          /\ Cut(t, b)
    BY LeftOfIs, Zenon
  <1>3. x \in Seq(S) /\ \A i \in 1..l - b : x[i] = t[b + i]
    BY <1>1
  <1>4. k \in 0..l - b
    BY <1>1 DEF ReadEnds
  <1>5. PICK c \in 0..l : c = b + k /\ l - b = l - c + k
    BY <1>4
  <1>6. y = SubSeq(t, c + 1, l)
    <2>1. l - b \in k..Len(t) - b /\ k \in 0..Len(t) - b /\ b + (l - b) = l
      BY <1>4
    <2>2. SubSeq(x, k + 1, l - b) = SubSeq(t, b + k + 1, b + (l - b))
      <3>1. b \in 0..Len(t) /\ x = SubSeq(t, b + 1, Len(t))
        BY <1>1
      <3> QED
        BY <2>1, <3>1, PartOfSuffix
    <2>3. b + k + 1 = c + 1 /\ Len(x) = l - b
      BY <1>1, <1>5
    <2> QED
      BY <2>1, <2>2, <2>3
  <1>7. Len(y) = l - c /\ l - Len(y) = c
    <2>1. c \in 0..Len(t) /\ l \in c..Len(t)
      OBVIOUS
    <2>2. Len(y) = l - c
      BY <1>6, <2>1, SuffixIs, ZenonT(30)
    <2>3. l - (l - c) = c
      OBVIOUS
    <2> QED
      BY <2>2, <2>3
  <1>8. Cut(t, c)
    <2> SUFFICES ASSUME c < l, LineStart(t, c) < c PROVE c - LineStart(t, c) >= TooLong
      BY DEF Cut
    <2>1. k # Len(x)
      BY <1>1, <1>5
    <2>2. CASE k > 0 /\ x[k] = NEWLINE
      <3>1. t[c] = NEWLINE
        BY <1>3, <1>4, <1>5, <2>2
      <3> QED
        BY <3>1, StartsBehindNewline
    <2>3. CASE k >= TooLong /\ NoNewline(x, 1, k)
      <3>1. NoNewline(t, b + 1, c)
        <4> SUFFICES ASSUME NEW i \in b + 1..c PROVE t[i] # NEWLINE
          BY DEF NoNewline
        <4>1. i - b \in 1..k /\ i - b \in 1..l - b /\ b + (i - b) = i
          BY <1>4, <1>5
        <4> QED
          BY <1>3, <2>3, <4>1 DEF NoNewline
      <3>2. LineStart(t, c) = LineStart(t, b) /\ LineStart(t, b) <= b
        BY <1>5, <1>4, <3>1, StartsBefore
      <3>3. LineStart(t, b) \in 0..b
        BY LineStartIs DEF Starts
      <3> QED
        BY <1>4, <1>5, <2>3, <3>2, <3>3, TooLongIs
    <2> QED
      BY <2>1, <2>2, <2>3 DEF ReadEnds
  <1>9. Len(y) \in 0..l
    <2>1. l - c \in 0..l
      OBVIOUS
    <2> QED
      BY <1>7, <2>1
  <1>10. Cut(t, l - Len(y)) /\ y = SubSeq(t, l - Len(y) + 1, l)
    BY <1>6, <1>7, <1>8
  <1> QED
    BY <1>9, <1>10 DEF LeftOf

LEMMA NothingLeft ==
  ASSUME NEW S, NEW x \in Seq(S), NEW i \in Int, i > Len(x)
  PROVE  SubSeq(x, i, Len(x)) = <<>>
  <1> PICK l \in Nat : l = Len(x)
    OBVIOUS
  <1> PICK y : y = SubSeq(x, i, l)
    OBVIOUS
  <1>1. \A j \in i..l : x[j] \in S
    OBVIOUS
  <1>2. y \in Seq(S) /\ Len(y) = IF i <= l THEN l - i + 1 ELSE 0
    BY <1>1, SubSeqProperties
  <1> QED
    BY <1>2

\* what is behind the newline, or nothing
LEMMA LineEnds ==
  ASSUME NEW S, NEW x \in Seq(S), NEW k, k = LineLength(x)
  PROVE  \E j : ReadEnds(x, j) /\ SubSeq(x, k + 2, Len(x)) = SubSeq(x, j + 1, Len(x))
  <1> PICK l \in Nat : l = Len(x)
    OBVIOUS
  <1>1. k \in 0..l /\ (k = l \/ x[k + 1] = NEWLINE)
    BY LineLengthIs
  <1>2. CASE k = l
    <2>1. SubSeq(x, k + 2, l) = <<>> /\ SubSeq(x, l + 1, l) = <<>>
      <3>1. k + 2 \in Int /\ k + 2 > l /\ l + 1 \in Int /\ l + 1 > l
        BY <1>2
      <3> QED
        BY <3>1, NothingLeft
    <2>2. ReadEnds(x, l)
      BY DEF ReadEnds
    <2> QED
      BY <2>1, <2>2
  <1>3. CASE k # l
    <2>1. k + 1 \in 0..l /\ k + 1 > 0 /\ k + 1 + 1 = k + 2
      BY <1>1, <1>3
    <2>2. ReadEnds(x, k + 1)
      BY <1>1, <1>3, <2>1 DEF ReadEnds
    <2> QED
      BY <2>1, <2>2
  <1> QED
    BY <1>2, <1>3

\* the beginning of a line that is too long
LEMMA LineIsCut ==
  ASSUME NEW S, NEW x \in Seq(S), NEW size \in Nat \ {0}, size - 1 >= TooLong,
         LineLength(x) >= size - 1
  PROVE  \E j : ReadEnds(x, j) /\ SubSeq(x, size, Len(x)) = SubSeq(x, j + 1, Len(x))
  <1> PICK k : k = LineLength(x)
    OBVIOUS
  <1>1. k \in 0..Len(x) /\ NoNewline(x, 1, k)
    BY LineLengthIs
  <1>2. size - 1 \in 0..Len(x) /\ size - 1 + 1 = size /\ \A i \in 1..size - 1 : i \in 1..k
    BY <1>1
  <1>3. ReadEnds(x, size - 1)
    BY <1>1, <1>2 DEF ReadEnds, NoNewline
  <1> QED
    BY <1>2, <1>3

LEMMA GetLineLeaves ==
  ASSUME NEW t, NEW x, LeftOf(t, x)
  PROVE  LeftOf(t, GetLine(x, MAX_MENU_RESPONSE_LENGTH).rest)
  <1> PICK S : x \in Seq(S)
    <2>1. PICK S : t \in Seq(S)
      BY DEF LeftOf
    <2>2. PICK l \in Nat : l = Len(t)
      BY <2>1
    <2> QED
      BY <2>1, <2>2, LeftOfIs
  <1> PICK k, max : k = LineLength(x) /\ max = MAX_MENU_RESPONSE_LENGTH
    OBVIOUS
  <1>1. k \in 0..Len(x) /\ max \in Nat \ {0} /\ max - 1 >= TooLong
    BY LineLengthIs, TooLongIs, RoloMenusAssumption
  <1>2. CASE x = <<>>
    <2>1. GetLine(x, max).rest = x
      BY <1>2 DEF GetLine
    <2> QED
      BY <2>1
  <1>3. CASE x # <<>> /\ k >= max
    <2>1. GetLine(x, max).rest = SubSeq(x, max, Len(x))
      BY <1>3 DEF GetLine
    <2>2. k >= max - 1
      BY <1>1, <1>3
    <2>3. PICK j : ReadEnds(x, j) /\ SubSeq(x, max, Len(x)) = SubSeq(x, j + 1, Len(x))
      BY <1>1, <2>2, LineIsCut
    <2> QED
      BY <2>1, <2>3, ReadLeaves
  <1>4. CASE x # <<>> /\ ~(k >= max)
    <2>1. GetLine(x, max).rest = SubSeq(x, k + 2, Len(x))
      BY <1>4 DEF GetLine
    <2>2. PICK j : ReadEnds(x, j) /\ SubSeq(x, k + 2, Len(x)) = SubSeq(x, j + 1, Len(x))
      BY LineEnds
    <2> QED
      BY <2>1, <2>2, ReadLeaves
  <1> QED
    BY <1>2, <1>3, <1>4

LEMMA FgetsLeaves ==
  ASSUME NEW t, NEW x, LeftOf(t, x)
  PROVE  LeftOf(t, AfterFgets(x, MAXCONTINUE))
  <1> PICK S : x \in Seq(S)
    <2>1. PICK S : t \in Seq(S)
      BY DEF LeftOf
    <2>2. PICK l \in Nat : l = Len(t)
      BY <2>1
    <2> QED
      BY <2>1, <2>2, LeftOfIs
  <1> PICK k, max : k = LineLength(x) /\ max = MAXCONTINUE
    OBVIOUS
  <1>1. k \in 0..Len(x) /\ max \in Nat \ {0} /\ max - 1 >= TooLong
    BY LineLengthIs, TooLongIs, RoloMenusAssumption
  <1>2. CASE k < max - 1
    <2>1. AfterFgets(x, max) = SubSeq(x, k + 2, Len(x))
      BY <1>2 DEF AfterFgets
    <2>2. PICK j : ReadEnds(x, j) /\ SubSeq(x, k + 2, Len(x)) = SubSeq(x, j + 1, Len(x))
      BY LineEnds
    <2> QED
      BY <2>1, <2>2, ReadLeaves
  <1>3. CASE ~(k < max - 1)
    <2>1. AfterFgets(x, max) = SubSeq(x, max, Len(x)) /\ k >= max - 1
      BY <1>1, <1>3 DEF AfterFgets
    <2>2. PICK j : ReadEnds(x, j) /\ SubSeq(x, max, Len(x)) = SubSeq(x, j + 1, Len(x))
      BY <1>1, <2>1, LineIsCut
    <2> QED
      BY <2>1, <2>2, ReadLeaves
  <1> QED
    BY <1>2, <1>3

TextInv == LeftOf(total, text)

LEMMA AllIsLeft ==
  ASSUME NEW S, NEW t \in Seq(S)
  PROVE  LeftOf(t, t)
  <1> PICK l \in Nat : l = Len(t)
    OBVIOUS
  <1>1. PICK u : u = SubSeq(t, 1, l)
    OBVIOUS
  <1>2. u \in Seq(S) /\ Len(u) = l /\ \A i \in 1..l : u[i] = t[i]
    <2>1. 0 \in 0..Len(t) /\ l \in 0..Len(t)
      OBVIOUS
    <2>2. u = SubSeq(t, 0 + 1, l)
      BY <1>1
    <2>3. u \in Seq(S) /\ Len(u) = l - 0 /\ \A i \in 1..l - 0 : u[i] = t[0 + i]
      BY <2>1, <2>2, SuffixIs
    <2>4. l - 0 = l /\ \A i \in 1..l : 0 + i = i
      OBVIOUS
    <2> QED
      BY <2>3, <2>4
  <1>3. u = t
    BY <1>2, SeqEqual
  <1>4. LineStart(t, 0) \in 0..0
    BY LineStartIs DEF Starts
  <1>5. Cut(t, 0)
    BY <1>4 DEF Cut
  <1>6. l - l = 0 /\ l - l + 1 = 1 /\ l \in 0..l
    OBVIOUS
  <1> QED
    BY <1>1, <1>3, <1>5, <1>6 DEF LeftOf

LEMMA TextInvInit == Init => TextInv
  <1> SUFFICES ASSUME Init PROVE TextInv
    OBVIOUS
  <1>1. <<>> \in Seq({})
    OBVIOUS
  <1>2. LeftOf(<<>>, <<>>)
    BY <1>1, AllIsLeft
  <1> QED
    BY <1>2 DEF Init, TextInv

LEMMA TextInvNext == TextInv /\ [Next]_vars => TextInv'
  <1> SUFFICES ASSUME TextInv, [Next]_vars PROVE TextInv'
    OBVIOUS
  <1> PICK t, x : t = total /\ x = text /\ LeftOf(t, x)
    BY DEF TextInv
  <1>1. CASE Type
    <2>1. PICK c : total' = Append(t, c) /\ text' = total'
      BY <1>1 DEF Type
    <2>2. PICK S : t \in Seq(S)
      BY DEF LeftOf
    <2>3. PICK T : T = S \cup {c}
      OBVIOUS
    <2>4. t \in Seq(T)
      BY <2>2, <2>3
    <2>5. PICK u : u = Append(t, c) /\ u \in Seq(T)
      BY <2>3, <2>4, AppendProperties
    <2>6. LeftOf(u, u)
      BY <2>5, AllIsLeft
    <2> QED
      BY <2>1, <2>5, <2>6 DEF TextInv
  <1>2. ASSUME total' = t, text' = x PROVE TextInv'
    BY <1>2 DEF TextInv
  <1>3. ASSUME total' = t, text' = Got.rest PROVE TextInv'
    <2>1. PICK y : y = GetLine(x, MAX_MENU_RESPONSE_LENGTH).rest /\ LeftOf(t, y)
      BY GetLineLeaves
    <2> QED
      BY <1>3, <2>1 DEF TextInv, Got
  <1>4. CASE AnyCharToContinue
    <2>1. PICK y : y = AfterFgets(x, MAXCONTINUE) /\ LeftOf(t, y)
      BY FgetsLeaves
    <2> QED
      BY <1>4, <2>1 DEF AnyCharToContinue, TextInv, called
  <1>5. CASE Start \/ NextPerson \/ Show \/ Search
    BY <1>2, <1>5 DEF Start, NextPerson, Show, Search, called
  <1>6. CASE \/ LookForPerson \/ InteractiveRolo \/ AddTheEntry \/ SelectField
             \/ SelectUserField \/ SelectSearchString \/ Again
    BY <1>3, <1>6 DEF LookForPerson, InteractiveRolo, AddTheEntry, SelectField,
         SelectUserField, SelectSearchString, Again, Answer, called
  <1>7. CASE UNCHANGED vars
    BY <1>2, <1>7 DEF vars, called
  <1> QED
    BY <1>1, <1>4, <1>5, <1>6, <1>7 DEF Next, Program

\* the parts of what is left
LEMMA BeginningIs ==
  ASSUME NEW S, NEW t \in Seq(S), NEW b \in 0..Len(t), NEW x, x = SubSeq(t, b + 1, Len(t)),
         NEW j \in 0..Len(t) - b
  PROVE  SubSeq(x, 1, j) = SubSeq(t, b + 1, b + j)
  <1>1. 0 \in 0..Len(t) - b /\ j \in 0..Len(t) - b
    OBVIOUS
  <1>2. SubSeq(x, 0 + 1, j) = SubSeq(t, b + 0 + 1, b + j)
    BY <1>1, PartOfSuffix
  <1>3. 0 + 1 = 1 /\ b + 0 + 1 = b + 1
    OBVIOUS
  <1> QED
    BY <1>2, <1>3

LEMMA PrefixIs ==
  ASSUME NEW S, NEW x \in Seq(S), NEW j \in 0..Len(x), NEW z, z = SubSeq(x, 1, j)
  PROVE  z \in Seq(S) /\ Len(z) = j /\ \A i \in 1..j : z[i] = x[i]
  <1>1. 0 \in 0..Len(x) /\ j \in 0..Len(x) /\ z = SubSeq(x, 0 + 1, j)
    OBVIOUS
  <1>2. z \in Seq(S) /\ Len(z) = j - 0 /\ \A i \in 1..j - 0 : z[i] = x[0 + i]
    BY <1>1, SuffixIs
  <1>3. j - 0 = j /\ \A i \in 1..j : 0 + i = i
    OBVIOUS
  <1> QED
    BY <1>2, <1>3

LEMMA RestIs ==
  ASSUME NEW S, NEW x \in Seq(S), NEW k \in 0..Len(x), k # Len(x)
  PROVE  Len(SubSeq(x, k + 2, Len(x))) = Len(x) - (k + 1)
  <1> PICK m \in Nat : m = Len(x)
    OBVIOUS
  <1>1. PICK i : i = k + 1 /\ i \in 0..Len(x) /\ m \in i..Len(x) /\ i + 1 = k + 2
    OBVIOUS
  <1>2. Len(SubSeq(x, i + 1, m)) = m - i
    BY <1>1, SuffixIs
  <1> QED
    BY <1>1, <1>2

LEMMA LongerByOne ==
  ASSUME NEW S, NEW x \in Seq(S), NEW k \in 0..Len(x), k # Len(x)
  PROVE  /\ SubSeq(x, 1, k + 1) = Append(SubSeq(x, 1, k), x[k + 1])
         /\ SubSeq(x, 1, k + 1) # SubSeq(x, 1, k)
  <1>1. k \in Nat /\ k + 1 \in 0..Len(x) /\ k + 1 \in 1..Len(x) /\ k + 1 # k
    OBVIOUS
  <1>2. PICK line, more : line = SubSeq(x, 1, k) /\ more = SubSeq(x, 1, k + 1)
    OBVIOUS
  <1>3. line \in Seq(S) /\ Len(line) = k /\ \A i \in 1..k : line[i] = x[i]
    BY <1>2, PrefixIs
  <1>4. more \in Seq(S) /\ Len(more) = k + 1 /\ \A i \in 1..k + 1 : more[i] = x[i]
    BY <1>1, <1>2, PrefixIs
  <1>5. PICK c \in S : c = x[k + 1]
    BY <1>1, ElementOfSeq
  <1>6. PICK a : a = Append(line, c)
    OBVIOUS
  <1>7. /\ a \in Seq(S) /\ Len(a) = k + 1 /\ \A i \in 1..k : a[i] = line[i]
        /\ a[k + 1] = c
    BY <1>3, <1>6, AppendProperties
  <1>8. \A i \in 1..k + 1 : more[i] = a[i]
    <2> TAKE i \in 1..k + 1
    <2>1. i \in 1..k \/ i = k + 1
      OBVIOUS
    <2> QED
      BY <1>3, <1>4, <1>5, <1>7, <2>1
  <1>9. more = a
    BY <1>4, <1>7, <1>8, SeqEqual
  <1>10. more # line
    BY <1>1, <1>3, <1>4
  <1> QED
    BY <1>2, <1>5, <1>6, <1>9, <1>10

\* a line, of what is left
LineTaken(t, x, k) ==
  LET line == SubSeq(x, 1, k)
      y == SubSeq(x, k + 2, Len(x))
      typed == SubSeq(t, Len(t) - Len(x) + 1, Len(t) - Len(y))
  IN typed \in {line, Append(line, NEWLINE)} /\ (typed = line => y = <<>>)

LEMMA LineIs ==
  ASSUME NEW t, NEW x, LeftOf(t, x), NEW k, k = LineLength(x)
  PROVE  LineTaken(t, x, k)
  <1> PICK S : t \in Seq(S)
    BY DEF LeftOf
  <1> PICK l \in Nat : l = Len(t)
    OBVIOUS
  <1>1. PICK b \in 0..l :
          /\ b = l - Len(x) /\ Len(x) = l - b
          /\ x = SubSeq(t, b + 1, l) /\ x \in Seq(S)
          /\ \A i \in 1..l - b : x[i] = t[b + i]
          /\ Cut(t, b)
    BY LeftOfIs, Zenon
  <1> PICK m \in Nat : m = l - b /\ l = b + m /\ Len(x) = m /\ l - m = b
    BY <1>1
  <1>2. x \in Seq(S)
    BY <1>1
  <1>3. k \in 0..m /\ (k = m \/ x[k + 1] = NEWLINE)
    BY <1>2, LineLengthIs
  <1>4. ASSUME NEW j \in 0..m PROVE SubSeq(x, 1, j) = SubSeq(t, b + 1, b + j)
    <2>1. b \in 0..Len(t) /\ x = SubSeq(t, b + 1, Len(t)) /\ j \in 0..Len(t) - b
      BY <1>1
    <2> QED
      BY <2>1, BeginningIs
  <1>5. CASE k = m
    <2>1. SubSeq(x, k + 2, m) = <<>>
      <3>1. k + 2 \in Int /\ k + 2 > Len(x)
        BY <1>5
      <3> QED
        BY <1>2, <3>1, NothingLeft
    <2>2. SubSeq(x, 1, k) = SubSeq(t, b + 1, l)
      BY <1>3, <1>4, <1>5
    <2>3. Len(<<>>) = 0 /\ l - 0 = l
      OBVIOUS
    <2>4. PICK y : y = SubSeq(x, k + 2, m) /\ y = <<>> /\ l - Len(y) = l
      BY <2>1, <2>3
    <2> QED
      BY <2>2, <2>4 DEF LineTaken
  <1>6. CASE k # m
    <2>1. k \in 0..Len(x) /\ k # Len(x) /\ k + 1 \in 0..m /\ x[k + 1] = NEWLINE
      BY <1>3, <1>6
    <2>2. PICK y : y = SubSeq(x, k + 2, m) /\ Len(y) = m - (k + 1)
      BY <1>2, <2>1, RestIs
    <2>3. l - Len(y) = b + (k + 1)
      <3>1. k \in Nat
        BY <1>3
      <3>2. l - (m - (k + 1)) = b + (k + 1)
        BY <3>1
      <3> QED
        BY <2>2, <3>2
    <2>4. SubSeq(t, b + 1, b + (k + 1)) = SubSeq(x, 1, k + 1)
      BY <1>4, <2>1
    <2>5. /\ SubSeq(x, 1, k + 1) = Append(SubSeq(x, 1, k), NEWLINE)
          /\ SubSeq(x, 1, k + 1) # SubSeq(x, 1, k)
      BY <1>2, <2>1, LongerByOne
    <2> QED
      BY <2>2, <2>3, <2>4, <2>5 DEF LineTaken
  <1> QED
    BY <1>5, <1>6

LEMMA AnswersEnd ==
  ASSUME TextInv, NEW menu \in Menus, NEW r \in Replies(menu), Answer(r), r.rval # "eof"
  PROVE  AnswerEndsLine
  <1>1. Got.status = "line" /\ r.response = Got.line /\ text' = Got.rest /\ reply' = r
    BY AnswerIs
  <1> PICK t, x : t = total /\ x = text /\ LeftOf(t, x)
    BY DEF TextInv
  <1> PICK k : k = LineLength(x)
    OBVIOUS
  <1>2. x # <<>> /\ Got.line = SubSeq(x, 1, k) /\ Got.rest = SubSeq(x, k + 2, Len(x))
    BY <1>1 DEF Got, GetLine
  <1>3. PICK line, y : /\ line = SubSeq(x, 1, k) /\ y = SubSeq(x, k + 2, Len(x))
                       /\ reply'.response = line /\ text' = y
    BY <1>1, <1>2
  <1>4. PICK typed : typed = SubSeq(t, Len(t) - Len(x) + 1, Len(t) - Len(y))
    OBVIOUS
  <1>5. typed \in {line, Append(line, NEWLINE)} /\ (typed = line => y = <<>>)
    <2>1. LineTaken(t, x, k)
      BY LineIs
    <2> QED
      BY <1>3, <1>4, <2>1 DEF LineTaken
  <1>6. Begins(Len(t) - Len(x)) = LineStart(t, Len(t) - Len(x))
    BY DEF Begins, LineStart, NEWLINE
  <1>7. Len(t) - Len(x) < Len(t)
    <2>1. PICK S : t \in Seq(S)
      BY DEF LeftOf
    <2>2. PICK l \in Nat : l = Len(t)
      BY <2>1
    <2>3. x \in Seq(S)
      BY <2>1, <2>2, LeftOfIs
    <2>4. Len(x) > 0
      BY <1>2, <2>3
    <2> QED
      BY <2>2, <2>3, <2>4
  <1>8. Cut(t, Len(t) - Len(x))
    BY DEF LeftOf
  <1> QED
    BY <1>3, <1>4, <1>5, <1>6, <1>7, <1>8 DEF AnswerEndsLine, Cut, NEWLINE

LEMMA AnswersEndNext ==
  TextInv /\ [Next]_vars => [reply' # reply /\ reply'.rval # "eof" => AnswerEndsLine]_vars
  <1> SUFFICES ASSUME TextInv, Next, reply' # reply, reply'.rval # "eof"
               PROVE  AnswerEndsLine
    OBVIOUS
  <1>1. \/ LookForPerson \/ InteractiveRolo \/ AddTheEntry \/ SelectField
        \/ SelectUserField \/ SelectSearchString
    BY DEF Next, Program, Type, Start, NextPerson, Show, AnyCharToContinue, Search, Again
  <1>2. PICK menu \in Menus : \E r \in Replies(menu) : Answer(r)
    BY <1>1 DEF LookForPerson, InteractiveRolo, AddTheEntry, SelectField, SelectUserField,
                SelectSearchString, Menus
  <1> QED
    BY <1>2, AnswersEnd DEF Answer

\* What a menu takes for the response is all that was typed up to a newline or the end,
\* and it begins behind a newline, or behind at least TooLong characters of its line:
\* for buffers of any length, and whatever is typed (get_line_from_input, fgets).
THEOREM RoloMenusAnswersEndLines == Spec => AnswersEndLines
  <1>1. Init => TextInv
    BY TextInvInit
  <1>2. TextInv /\ [Next]_vars => TextInv'
    BY TextInvNext
  <1>3. TextInv /\ [Next]_vars =>
          [reply' # reply /\ reply'.rval # "eof" => AnswerEndsLine]_vars
    BY AnswersEndNext
  <1> QED
    BY <1>1, <1>2, <1>3, PTL DEF Spec, AnswersEndLines

=============================================================================
