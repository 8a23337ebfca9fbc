---------------------------- MODULE BourseProofs ----------------------------
(***************************************************************************)
(* Theorems about the Bourse server of hw5: modules ClientRegistry and     *)
(* Bourse, for every set of callers, descriptors and connections and every *)
(* number of slots and of SIGHUPs, and module TraderService.               *)
(*                                                                         *)
(* First the registry, in itself.  The count agrees with the table because *)
(* at most one caller is inside the functions at a time, and the caller    *)
(* that has changed one of the two and not yet the other is known by its   *)
(* place.  Descriptors are neither lost nor doubled because each belongs   *)
(* to one caller, which is the only one, beside a sweep, to put it into    *)
(* the table and to take it out.                                           *)
(*                                                                         *)
(* Then the server.  Until terminate() frees the registry the server uses  *)
(* it as its header describes, so that each step of the server is a step   *)
(* of RegistrySpec or leaves the registry alone, and the invariants of the *)
(* registry hold in it.  Who is in the table leaves it only by being shut   *)
(* down, and at the end of a sweep the table is empty: so a handler leaves *)
(* nobody behind who was registered when its signal came.                  *)
(*                                                                         *)
(* Last the service threads.                                               *)
(***************************************************************************)
EXTENDS Bourse, TraderService, FiniteSetTheorems, TLAPS

\* At most one caller is inside, and it has taken the semaphore.
Exclusive ==
  /\ \A x, y \in Callers : pc[x] \in Inside /\ pc[y] \in Inside => x = y
  /\ \A x \in Callers : pc[x] \in Inside => mutex = 0

\* What the caller inside knows of the slot it has found.
SlotFound ==
  \A x \in Callers :
    /\ pc[x] \in {"register", "find_free", "fill", "count",
                  "unregister", "find_fd", "clear"} => arg[x] # NoFd
    /\ pc[x] = "fill" => buf[idx[x]] = NoFd
    /\ pc[x] = "clear" => buf[idx[x]] = arg[x]

\* The count is ahead or behind by one at two places, and nowhere else.
CountAgrees ==
  /\ \A x \in Callers : pc[x] = "count" => cli_cnt = Cardinality(Occupied) - 1
  /\ \A x \in Callers : pc[x] = "discount" => cli_cnt = Cardinality(Occupied) + 1
  /\ (\A x \in Callers : pc[x] \notin {"count", "discount"})
       => cli_cnt = Cardinality(Occupied)

IInv == RegistryTypeOK /\ Exclusive /\ SlotFound /\ CountAgrees

-----------------------------------------------------------------------------
(* Cardinality of the set of occupied slots when one slot changes.         *)

LEMMA ZeroIsSlot == 0 \in Slots
  BY RegistryAssumption DEF Slots

LEMMA SlotsFinite == IsFiniteSet(Slots) /\ IsFiniteSet(Occupied)
  <1>1. IsFiniteSet(Slots)
    BY RegistryAssumption, FS_Interval DEF Slots
  <1>2. Occupied \subseteq Slots
    BY DEF Occupied
  <1> QED
    BY <1>1, <1>2, FS_Subset

LEMMA OccupiedIsNat == Cardinality(Occupied) \in Nat
  BY SlotsFinite, FS_CardinalityType

\* Filling a free slot adds one to the occupied slots.
LEMMA FillsOne ==
  ASSUME buf \in [Slots -> Fds \cup {NoFd}], NEW i \in Slots, NEW fd \in Fds,
         buf[i] = NoFd, buf' = [buf EXCEPT ![i] = fd]
  PROVE  Cardinality(Occupied') = Cardinality(Occupied) + 1
  <1>1. Occupied' = Occupied \cup {i}
    BY RegistryAssumption DEF Occupied
  <1>2. i \notin Occupied
    BY DEF Occupied
  <1> QED
    BY <1>1, <1>2, SlotsFinite, FS_AddElement

\* Clearing an occupied slot takes one from them.
LEMMA ClearsOne ==
  ASSUME buf \in [Slots -> Fds \cup {NoFd}], NEW i \in Slots,
         buf[i] # NoFd, buf' = [buf EXCEPT ![i] = NoFd]
  PROVE  Cardinality(Occupied') = Cardinality(Occupied) - 1
  <1>1. Occupied' = Occupied \ {i}
    BY DEF Occupied
  <1>2. i \in Occupied
    BY DEF Occupied
  <1> QED
    BY <1>1, <1>2, SlotsFinite, FS_RemoveElement

-----------------------------------------------------------------------------
(* IInv is inductive.                                                      *)

LEMMA IInvInit == RegistryInit => IInv
  <1> SUFFICES ASSUME RegistryInit PROVE IInv
    OBVIOUS
  <1>1. RegistryTypeOK
    <2>1. buf \in [Slots -> Fds \cup {NoFd}] /\ cli_cnt \in Int /\ mutex \in {0, 1}
      BY DEF RegistryInit
    <2>2. freed \in BOOLEAN /\ shut \subseteq Fds
      BY DEF RegistryInit
    <2>3. /\ pc \in [Callers -> {"out"} \cup Calls \cup Inside]
          /\ arg \in [Callers -> Fds \cup {NoFd}]
      BY DEF RegistryInit
    <2>4. idx \in [Callers -> Slots]
      BY ZeroIsSlot DEF RegistryInit
    <2> QED
      BY <2>1, <2>2, <2>3, <2>4 DEF RegistryTypeOK
  <1>2. Exclusive /\ SlotFound
    BY DEF RegistryInit, Exclusive, SlotFound, Inside
  <1>3. Occupied = {}
    BY DEF RegistryInit, Occupied
  <1>4. CountAgrees
    BY <1>3, FS_EmptySet DEF RegistryInit, CountAgrees
  <1> QED
    BY <1>1, <1>2, <1>4 DEF IInv

\* The calls and creg_fini.
LEMMA UseKeepsIInv ==
  ASSUME IInv, NEW x \in Callers, Use(x)
  PROVE  IInv'
  <1> USE DEF IInv
  <1>1. ASSUME NEW fd \in Fds, CallRegister(x, fd) PROVE IInv'
    <2>1. RegistryTypeOK'
      BY <1>1, RegistryAssumption
      DEF RegistryTypeOK, CallRegister, Goto, Slots, Calls, AfterP, Inside
    <2>2. Exclusive'
      BY <1>1 DEF RegistryTypeOK, CallRegister, Goto, Exclusive, Inside
    <2>3. SlotFound'
      BY <1>1, RegistryAssumption DEF RegistryTypeOK, CallRegister, Goto, SlotFound
    <2>4. CountAgrees'
      BY <1>1 DEF RegistryTypeOK, CallRegister, Goto, CountAgrees, Occupied
    <2> QED
      BY <2>1, <2>2, <2>3, <2>4
  <1>2. ASSUME NEW function \in {"unregister", "shutdown_all", "wait_for_empty"},
               function = "unregister" => arg[x] # NoFd,
               Call(x, function)
        PROVE IInv'
    <2>1. RegistryTypeOK'
      BY <1>2, RegistryAssumption
      DEF RegistryTypeOK, Call, Goto, shared, Slots, Calls, AfterP, Inside
    <2>2. Exclusive'
      BY <1>2 DEF RegistryTypeOK, Call, Goto, shared, Exclusive, Inside
    <2>3. SlotFound'
      BY <1>2 DEF RegistryTypeOK, Call, Goto, shared, SlotFound
    <2>4. CountAgrees'
      BY <1>2 DEF RegistryTypeOK, Call, Goto, shared, CountAgrees, Occupied
    <2> QED
      BY <2>1, <2>2, <2>3, <2>4
  <1>3. CASE Fini(x)
    BY <1>3 DEF Fini, locals, RegistryTypeOK, Exclusive, SlotFound, CountAgrees, Occupied
  <1> QED
    BY <1>1, <1>2, <1>3 DEF Use

LEMMA StepKeepsTypeOK ==
  ASSUME RegistryTypeOK, Exclusive, NEW x \in Callers, RegistryStep(x)
  PROVE  RegistryTypeOK'
  <1> USE ZeroIsSlot DEF RegistryTypeOK, Goto, shared
  <1>1. CASE Lock(x)
    <2>1. AfterP[pc[x]] \in Inside
      BY <1>1 DEF Lock, Calls, AfterP, Inside
    <2> QED
      BY <1>1, <2>1 DEF Lock
  <1>2. CASE Unlock(x)
    <2>1. mutex = 0
      BY <1>2 DEF Unlock, Exclusive, Inside
    <2> QED
      BY <1>2, <2>1 DEF Unlock
  <1>3. CASE FindFree(x) \/ FindFd(x)
    BY <1>3 DEF FindFree, FindFd, Search, First, Inside
  <1>4. CASE Fill(x) \/ Count(x) \/ Clear(x) \/ Discount(x)
    BY <1>4 DEF Fill, Count, Clear, Discount, Inside
  <1>5. CASE Sweep(x)
    <2>1. idx[x] + 1 < BUF_SIZE => idx[x] + 1 \in Slots
      BY RegistryAssumption DEF Slots
    <2>2. /\ buf' \in [Slots -> Fds \cup {NoFd}] /\ cli_cnt' \in Int
          /\ shut' \subseteq Fds
      BY <1>5 DEF Sweep
    <2>3. pc' \in [Callers -> {"out"} \cup Calls \cup Inside] /\ idx' \in [Callers -> Slots]
      BY <1>5, <2>1 DEF Sweep, SweepNext, Inside
    <2> QED
      BY <1>5, <2>2, <2>3 DEF Sweep
  <1>6. CASE Check(x)
    <2>1. mutex = 0
      BY <1>6 DEF Check, Exclusive, Inside
    <2> QED
      BY <1>6, <2>1 DEF Check
  <1> QED
    BY <1>1, <1>2, <1>3, <1>4, <1>5, <1>6 DEF RegistryStep

\* A caller enters only when nobody is inside, and the others stay out.
LEMMA StepKeepsExclusive ==
  ASSUME RegistryTypeOK, Exclusive, NEW x \in Callers, RegistryStep(x)
  PROVE  Exclusive'
  <1>1. CASE Lock(x)
    BY <1>1 DEF Lock, Goto, RegistryTypeOK, Exclusive
  <1>2. CASE Unlock(x) \/ Check(x)
    BY <1>2 DEF Unlock, Check, Goto, RegistryTypeOK, Exclusive, Inside
  <1>3. ASSUME pc[x] \in Inside, mutex' = mutex,
               \A y \in Callers \ {x} : pc'[y] = pc[y]
        PROVE Exclusive'
    BY <1>3 DEF Exclusive
  <1>4. CASE FindFree(x) \/ FindFd(x)
    BY <1>3, <1>4 DEF FindFree, FindFd, Search, Goto, shared, RegistryTypeOK, Inside
  <1>5. CASE Fill(x) \/ Count(x) \/ Clear(x) \/ Discount(x)
    BY <1>3, <1>5 DEF Fill, Count, Clear, Discount, Goto, RegistryTypeOK, Inside
  <1>6. CASE Sweep(x)
    BY <1>3, <1>6 DEF Sweep, SweepNext, Goto, RegistryTypeOK, Inside
  <1> QED
    BY <1>1, <1>2, <1>4, <1>5, <1>6 DEF RegistryStep

\* Only the caller inside changes the table, so what it found stays true.
LEMMA StepKeepsSlotFound ==
  ASSUME IInv, NEW x \in Callers, RegistryStep(x)
  PROVE  SlotFound'
  <1> USE DEF IInv
  <1>2. CASE Lock(x)
    BY <1>2 DEF Lock, Goto, RegistryTypeOK, SlotFound, Calls, AfterP
  <1>3. CASE Unlock(x) \/ Check(x)
    BY <1>3 DEF Unlock, Check, Goto, RegistryTypeOK, SlotFound
  <1>4. CASE FindFree(x) \/ FindFd(x)
    BY <1>4 DEF FindFree, FindFd, Search, First, Goto, shared, RegistryTypeOK, SlotFound
  <1>5. CASE Fill(x) \/ Clear(x)
    BY <1>5 DEF Fill, Clear, Goto, RegistryTypeOK, SlotFound, Exclusive, Inside
  <1>6. CASE Count(x) \/ Discount(x)
    BY <1>6 DEF Count, Discount, Goto, RegistryTypeOK, SlotFound
  <1>7. CASE Sweep(x)
    BY <1>7 DEF Sweep, SweepNext, Goto, RegistryTypeOK, SlotFound, Exclusive, Inside
  <1> QED
    BY <1>2, <1>3, <1>4, <1>5, <1>6, <1>7 DEF RegistryStep

LEMMA StepKeepsCount ==
  ASSUME IInv, NEW x \in Callers, RegistryStep(x)
  PROVE  CountAgrees'
  <1> USE DEF IInv
  <1> DEFINE Off == {"count", "discount"}
  <1>1. \A y \in Callers \ {x} : pc'[y] = pc[y]
    BY DEF RegistryStep, Lock, Unlock, FindFree, FindFd, Search, Fill, Count,
           Clear, Discount, Sweep, SweepNext, Check, Goto, RegistryTypeOK
  <1>2. pc[x] \in Inside => \A y \in Callers \ {x} : pc[y] \notin Off
    BY DEF Exclusive, Inside
  <1>3. ASSUME buf' = buf, cli_cnt' = cli_cnt, pc[x] \notin Off, pc'[x] \notin Off
        PROVE CountAgrees'
    BY <1>1, <1>3 DEF CountAgrees, Occupied
  <1>4. CASE Lock(x)
    <2>1. AfterP[pc[x]] \notin Off /\ pc[x] \notin Off
      BY <1>4 DEF Lock, Calls, AfterP
    <2> QED
      BY <1>3, <1>4, <2>1 DEF Lock, Goto, RegistryTypeOK
  <1>5. CASE Unlock(x) \/ Check(x)
    BY <1>3, <1>5 DEF Unlock, Check, Goto, RegistryTypeOK
  <1>6. CASE FindFree(x) \/ FindFd(x)
    BY <1>3, <1>6 DEF FindFree, FindFd, Search, Goto, shared, RegistryTypeOK
  <1>7. CASE Fill(x)
    <2>1. Cardinality(Occupied') = Cardinality(Occupied) + 1
      <3>1. buf[idx[x]] = NoFd /\ arg[x] \in Fds /\ idx[x] \in Slots
        BY <1>7 DEF Fill, SlotFound, RegistryTypeOK
      <3>2. buf' = [buf EXCEPT ![idx[x]] = arg[x]]
        BY <1>7 DEF Fill
      <3> QED
        BY <3>1, <3>2, FillsOne DEF RegistryTypeOK
    <2>2. cli_cnt = Cardinality(Occupied)
      BY <1>2, <1>7 DEF Fill, CountAgrees, Inside
    <2>3. pc'[x] = "count" /\ cli_cnt' = cli_cnt
      BY <1>7 DEF Fill, Goto, RegistryTypeOK
    <2>4. \A y \in Callers \ {x} : pc'[y] \notin Off
      BY <1>1, <1>2, <1>7 DEF Fill, Inside
    <2> QED
      BY <2>1, <2>2, <2>3, <2>4, OccupiedIsNat DEF CountAgrees, RegistryTypeOK
  <1>8. CASE Count(x) \/ Discount(x)
    <2>1. Occupied' = Occupied
      BY <1>8 DEF Count, Discount, Occupied
    <2>2. cli_cnt' = Cardinality(Occupied)
      BY <1>8, OccupiedIsNat DEF Count, Discount, CountAgrees, RegistryTypeOK
    <2>3. \A y \in Callers : pc'[y] \notin Off
      BY <1>1, <1>2, <1>8 DEF Count, Discount, Goto, Inside, RegistryTypeOK
    <2> QED
      BY <2>1, <2>2, <2>3 DEF CountAgrees
  <1>9. CASE Clear(x)
    <2>1. Cardinality(Occupied') = Cardinality(Occupied) - 1
      <3>1. buf[idx[x]] # NoFd /\ idx[x] \in Slots
        BY <1>9 DEF Clear, SlotFound, RegistryTypeOK
      <3>2. buf' = [buf EXCEPT ![idx[x]] = NoFd]
        BY <1>9 DEF Clear
      <3> QED
        BY <3>1, <3>2, ClearsOne DEF RegistryTypeOK
    <2>2. cli_cnt = Cardinality(Occupied)
      BY <1>2, <1>9 DEF Clear, CountAgrees, Inside
    <2>3. pc'[x] = "discount" /\ cli_cnt' = cli_cnt
      BY <1>9 DEF Clear, Goto, RegistryTypeOK
    <2>4. \A y \in Callers \ {x} : pc'[y] \notin Off
      BY <1>1, <1>2, <1>9 DEF Clear, Inside
    <2> QED
      BY <2>1, <2>2, <2>3, <2>4, OccupiedIsNat DEF CountAgrees, RegistryTypeOK
  <1>10. CASE Sweep(x)
    <2>1. pc'[x] \notin Off /\ pc[x] = "sweep"
      BY <1>10 DEF Sweep, SweepNext, Goto, RegistryTypeOK
    <2>2. CASE buf[idx[x]] = NoFd
      BY <1>3, <1>10, <2>1, <2>2 DEF Sweep
    <2>3. CASE buf[idx[x]] # NoFd
      <3>1. buf' = [buf EXCEPT ![idx[x]] = NoFd] /\ cli_cnt' = cli_cnt - 1
        BY <1>10, <2>3 DEF Sweep
      <3>2. Cardinality(Occupied') = Cardinality(Occupied) - 1
        BY <2>3, <3>1, ClearsOne DEF RegistryTypeOK
      <3>3. \A y \in Callers : pc'[y] \notin Off /\ pc[y] \notin Off
        BY <1>1, <1>2, <2>1 DEF Inside
      <3> QED
        BY <3>1, <3>2, <3>3 DEF CountAgrees
    <2> QED
      BY <2>2, <2>3
  <1> QED
    BY <1>4, <1>5, <1>6, <1>7, <1>8, <1>9, <1>10 DEF RegistryStep

LEMMA StepKeepsIInv ==
  ASSUME IInv, NEW x \in Callers, RegistryStep(x)
  PROVE  IInv'
  BY StepKeepsTypeOK, StepKeepsExclusive, StepKeepsSlotFound, StepKeepsCount DEF IInv

THEOREM IInvHolds == RegistrySpec => []IInv
  <1>1. ASSUME IInv, [RegistryNext]_registry PROVE IInv'
    <2>1. ASSUME NEW x \in Callers, Use(x) PROVE IInv'
      BY <1>1, <2>1, UseKeepsIInv
    <2>2. ASSUME NEW x \in Callers, RegistryStep(x) PROVE IInv'
      BY <1>1, <2>2, StepKeepsIInv
    <2>3. CASE UNCHANGED registry
      BY <1>1, <2>3 DEF IInv, registry, shared, locals, RegistryTypeOK,
         Exclusive, SlotFound, CountAgrees, Occupied
    <2> QED
      BY <1>1, <2>1, <2>2, <2>3 DEF RegistryNext
  <1> QED
    BY <1>1, IInvInit, PTL DEF RegistrySpec

\* Every variable of the registry stays in its type; the semaphore is binary.
THEOREM RegistryTyped == RegistrySpec => []RegistryTypeOK
  BY IInvHolds, PTL DEF IInv

\* The count and the table agree whenever no call is half done.
THEOREM RegistryCountIsOccupied == RegistrySpec => []CountIsOccupied
  <1>1. IInv => CountIsOccupied
    BY DEF IInv, CountAgrees, CountIsOccupied, Inside
  <1> QED
    BY <1>1, IInvHolds, PTL

-----------------------------------------------------------------------------
(* Descriptors: who may have one in the table, and what a sweep has left.  *)

Entering == {"register", "find_free", "fill"}

\* A descriptor belongs to one caller.
OneCaller ==
  \A x, y \in Callers : arg[x] = arg[y] /\ arg[x] # NoFd => x = y

\* What is in the table belongs to a caller that has put it there.
Owned ==
  \A i \in Slots : buf[i] # NoFd =>
    \E x \in Callers : arg[x] = buf[i] /\ pc[x] \notin Entering

\* And what a caller has put there is still there, or has been shut down.
Kept ==
  \A x \in Callers :
    arg[x] # NoFd /\ pc[x] \notin Entering =>
      (\E i \in Slots : buf[i] = arg[x]) \/ arg[x] \in shut

\* The sweep has emptied the slots before the one it is at.
Swept ==
  \A x \in Callers : pc[x] = "sweep" => \A i \in Slots : i < idx[x] => buf[i] = NoFd

DInv == OneCaller /\ Owned /\ Kept /\ RegisteredOnce /\ Swept

LEMMA DInvInit == RegistryInit => DInv
  BY DEF RegistryInit, DInv, OneCaller, Owned, Kept, RegisteredOnce, Swept, Entering

\* A caller registers a descriptor that nobody has.
LEMMA UseKeepsDInv ==
  ASSUME IInv, DInv, NEW x \in Callers, Use(x)
  PROVE  DInv'
  <1> USE RegistryAssumption DEF IInv, RegistryTypeOK, DInv, Goto, shared
  <1>1. ASSUME NEW fd \in Fds \ Registered, CallRegister(x, fd), arg[x] = NoFd
        PROVE DInv'
    <2>1. \A y \in Callers : arg[y] # fd
      BY DEF Registered
    <2>2. OneCaller'
      BY <1>1, <2>1 DEF CallRegister, OneCaller
    <2>3. Owned'
      BY <1>1 DEF CallRegister, Owned, Entering
    <2>4. Kept'
      BY <1>1, <2>1 DEF CallRegister, Kept, Entering
    <2>5. RegisteredOnce' /\ Swept'
      BY <1>1 DEF CallRegister, RegisteredOnce, Swept
    <2> QED
      BY <2>2, <2>3, <2>4, <2>5
  <1>2. ASSUME NEW function \in {"unregister", "shutdown_all", "wait_for_empty"},
               Call(x, function)
        PROVE DInv'
    <2>1. OneCaller' /\ RegisteredOnce'
      BY <1>2 DEF Call, OneCaller, RegisteredOnce
    <2>2. Owned' /\ Kept'
      BY <1>2 DEF Call, Owned, Kept, Entering
    <2>3. Swept'
      BY <1>2 DEF Call, Swept
    <2> QED
      BY <2>1, <2>2, <2>3
  <1>3. CASE Fini(x)
    BY <1>3 DEF Fini, locals, OneCaller, Owned, Kept, RegisteredOnce, Swept
  <1> QED
    BY <1>1, <1>2, <1>3 DEF Use

\* A slot is filled with a descriptor that is in no other.
LEMMA FillKeepsDInv ==
  ASSUME IInv, DInv, NEW x \in Callers, Fill(x)
  PROVE  DInv'
  <1> USE DEF IInv, RegistryTypeOK, DInv, Goto
  <1>1. \A i \in Slots : buf[i] # arg[x]
    BY DEF Fill, SlotFound, Owned, OneCaller, Entering
  <1>2. OneCaller' /\ RegisteredOnce'
    BY <1>1 DEF Fill, OneCaller, RegisteredOnce
  <1>3. Owned'
    BY DEF Fill, Owned, Entering
  <1>4. Kept'
    BY DEF Fill, Kept, Entering, SlotFound
  <1>5. Swept'
    BY DEF Fill, Swept, Exclusive, Inside
  <1> QED
    BY <1>2, <1>3, <1>4, <1>5

\* A slot is cleared by the caller its descriptor belongs to.
LEMMA ClearKeepsDInv ==
  ASSUME IInv, DInv, NEW x \in Callers, Clear(x)
  PROVE  DInv'
  <1> USE RegistryAssumption DEF IInv, RegistryTypeOK, DInv, Goto
  <1>1. buf[idx[x]] = arg[x] /\ arg[x] # NoFd
    BY DEF Clear, SlotFound
  <1>2. OneCaller' /\ RegisteredOnce'
    BY DEF Clear, OneCaller, RegisteredOnce
  <1>3. Owned'
    <2> SUFFICES ASSUME NEW i \in Slots, buf'[i] # NoFd
                 PROVE  \E y \in Callers : arg'[y] = buf'[i] /\ pc'[y] \notin Entering
      BY DEF Owned
    <2>1. i # idx[x] /\ buf'[i] = buf[i] /\ buf[i] # arg[x]
      BY <1>1 DEF Clear, RegisteredOnce
    <2>2. PICK y \in Callers : arg[y] = buf[i] /\ pc[y] \notin Entering
      BY <2>1 DEF Owned
    <2>3. y # x
      BY <2>1, <2>2
    <2> QED
      BY <2>1, <2>2, <2>3 DEF Clear
  <1>4. Kept'
    BY <1>1 DEF Clear, Kept, Entering, OneCaller
  <1>5. Swept'
    BY DEF Clear, Swept, Exclusive, Inside
  <1> QED
    BY <1>2, <1>3, <1>4, <1>5

\* A search that fails gives up a descriptor that is not in the table.
LEMMA SearchKeepsDInv ==
  ASSUME IInv, DInv, NEW x \in Callers, FindFree(x) \/ FindFd(x)
  PROVE  DInv'
  <1> USE RegistryAssumption DEF IInv, RegistryTypeOK, DInv, Goto, shared
  <1>1. CASE pc[x] = "find_free"
    BY <1>1 DEF FindFree, FindFd, Search, OneCaller, Owned, Kept, RegisteredOnce,
                Swept, Entering
  <1>2. CASE pc[x] = "find_fd"
    <2>1. CASE \E i \in Slots : First(arg[x], i) /\ Goto(x, "clear", i)
                /\ UNCHANGED <<shared, arg>>
      BY <1>2, <2>1 DEF OneCaller, Owned, Kept, RegisteredOnce, Swept, Entering
    <2>2. CASE /\ Holding(arg[x]) = {}
               /\ Goto(x, "unlock", 0)
               /\ arg' = [arg EXCEPT ![x] = NoFd]
               /\ UNCHANGED shared
      <3>1. \A i \in Slots : buf[i] # arg[x]
        BY <2>2 DEF Holding
      <3>2. OneCaller' /\ RegisteredOnce' /\ Kept' /\ Swept'
        BY <1>2, <2>2 DEF OneCaller, RegisteredOnce, Kept, Swept, Entering
      <3>3. Owned'
        BY <1>2, <2>2, <3>1 DEF Owned, Entering
      <3> QED
        BY <3>2, <3>3
    <2> QED
      BY <1>2, <2>1, <2>2 DEF FindFree, FindFd, Search
  <1> QED
    BY <1>1, <1>2 DEF FindFree, FindFd

\* The sweep shuts down what it removes, and goes on to the next slot.
LEMMA SweepKeepsDInv ==
  ASSUME IInv, DInv, NEW x \in Callers, Sweep(x)
  PROVE  DInv'
  <1> USE RegistryAssumption DEF IInv, RegistryTypeOK, DInv, Goto
  <1>1. \A i \in Slots : buf'[i] = IF i = idx[x] THEN NoFd ELSE buf[i]
    BY DEF Sweep
  <1>2. \A y \in Callers : pc[y] \in Entering <=> pc'[y] \in Entering
    BY DEF Sweep, SweepNext, Entering
  <1>3. OneCaller' /\ RegisteredOnce'
    BY <1>1 DEF Sweep, OneCaller, RegisteredOnce
  <1>4. Owned'
    BY <1>1, <1>2 DEF Sweep, Owned
  <1>5. Kept'
    <2> SUFFICES ASSUME NEW y \in Callers, arg[y] # NoFd, pc[y] \notin Entering
                 PROVE  (\E i \in Slots : buf'[i] = arg[y]) \/ arg[y] \in shut'
      BY <1>2 DEF Sweep, Kept
    <2>1. CASE arg[y] \in shut
      BY <2>1 DEF Sweep
    <2>2. ASSUME NEW i \in Slots, buf[i] = arg[y]
          PROVE  (\E j \in Slots : buf'[j] = arg[y]) \/ arg[y] \in shut'
      <3>1. CASE i = idx[x]
        BY <2>2, <3>1 DEF Sweep
      <3>2. CASE i # idx[x]
        BY <1>1, <2>2, <3>2
      <3> QED
        BY <3>1, <3>2
    <2> QED
      BY <2>1, <2>2 DEF Kept
  <1>6. Swept'
    <2> SUFFICES ASSUME NEW y \in Callers, pc'[y] = "sweep",
                        NEW i \in Slots, i < idx'[y]
                 PROVE  buf'[i] = NoFd
      BY DEF Swept
    <2>1. y = x
      BY DEF Sweep, SweepNext, Exclusive, Inside
    <2>2. idx'[x] = idx[x] + 1
      BY <2>1 DEF Sweep, SweepNext
    <2>3. i < idx[x] \/ i = idx[x]
      BY <2>1, <2>2 DEF Slots
    <2> QED
      BY <1>1, <2>3 DEF Sweep, Swept
  <1> QED
    BY <1>3, <1>4, <1>5, <1>6

LEMMA LockKeepsDInv ==
  ASSUME IInv, DInv, NEW x \in Callers, Lock(x)
  PROVE  DInv'
  <1> USE DEF IInv, RegistryTypeOK, DInv
  <1>1. pc[x] \in Entering <=> pc'[x] \in Entering
    BY DEF Lock, Goto, Calls, AfterP, Entering
  <1>2. \A i \in Slots : i >= 0
    BY DEF Slots
  <1>3. OneCaller' /\ Owned' /\ Kept' /\ RegisteredOnce'
    BY <1>1 DEF Lock, Goto, OneCaller, Owned, Kept, RegisteredOnce
  <1>4. Swept'
    BY <1>2 DEF Lock, Goto, Swept, Slots
  <1> QED
    BY <1>3, <1>4

LEMMA StepKeepsDInv ==
  ASSUME IInv, DInv, NEW x \in Callers, RegistryStep(x)
  PROVE  DInv'
  <1>1. CASE Unlock(x) \/ Count(x) \/ Discount(x) \/ Check(x)
    BY <1>1
    DEF IInv, RegistryTypeOK, DInv, Unlock, Count, Discount, Check, Goto, shared,
        OneCaller, Owned, Kept, RegisteredOnce, Swept, Entering
  <1> QED
    BY <1>1, LockKeepsDInv, FillKeepsDInv, ClearKeepsDInv, SearchKeepsDInv,
       SweepKeepsDInv DEF RegistryStep

THEOREM DInvHolds == RegistrySpec => []DInv
  <1>1. ASSUME IInv, DInv, [RegistryNext]_registry PROVE DInv'
    <2>1. ASSUME NEW x \in Callers, Use(x) PROVE DInv'
      BY <1>1, <2>1, UseKeepsDInv
    <2>2. ASSUME NEW x \in Callers, RegistryStep(x) PROVE DInv'
      BY <1>1, <2>2, StepKeepsDInv
    <2>3. CASE UNCHANGED registry
      BY <1>1, <2>3 DEF registry, shared, locals, DInv, OneCaller, Owned, Kept,
         RegisteredOnce, Swept
    <2> QED
      BY <1>1, <2>1, <2>2, <2>3 DEF RegistryNext
  <1> QED
    BY <1>1, DInvInit, IInvHolds, PTL DEF RegistrySpec

\* A descriptor is in one slot at most, whoever unregisters what a sweep removes.
THEOREM RegistryRegisteredOnce == RegistrySpec => []RegisteredOnce
  BY DInvHolds, PTL DEF DInv

\* A registered descriptor stays in the table until it is unregistered or shut down.
THEOREM RegistryHeldIsRegistered == RegistrySpec => []HeldIsRegistered
  <1>1. DInv => HeldIsRegistered
    BY DEF DInv, Kept, HeldIsRegistered, Holding, Entering
  <1> QED
    BY <1>1, DInvHolds, PTL

\* When a sweep ends the table is empty and nobody is counted.
THEOREM RegistrySweepEmpties == RegistrySpec => SweepEmpties
  <1> DEFINE Ends == \A x \in Callers : pc[x] = "sweep" /\ pc'[x] = "unlock"
                       => (\A i \in Slots : buf'[i] = NoFd) /\ cli_cnt' = 0
  <1>1. ASSUME IInv, IInv', DInv, [RegistryNext]_registry PROVE [Ends]_registry
    <2> SUFFICES ASSUME NEW x \in Callers, pc[x] = "sweep", pc'[x] = "unlock"
                 PROVE  (\A i \in Slots : buf'[i] = NoFd) /\ cli_cnt' = 0
      OBVIOUS
    <2>1. PICK y \in Callers : Use(y) \/ RegistryStep(y)
      BY <1>1 DEF RegistryNext, registry, locals
    <2>2. Sweep(x) /\ ~(idx[x] + 1 < BUF_SIZE)
      BY <1>1, <2>1
      DEF IInv, RegistryTypeOK, Use, CallRegister, Call, Fini, RegistryStep, Lock, Unlock,
          FindFree, FindFd, Search, Fill, Count, Clear, Discount, Sweep, SweepNext, Check,
          Goto, shared, locals, Calls, AfterP
    <2>3. \A i \in Slots : i < idx[x] \/ i = idx[x]
      BY <1>1, <2>2, RegistryAssumption DEF IInv, RegistryTypeOK, Slots
    <2>4. \A i \in Slots : buf'[i] = NoFd
      BY <1>1, <2>2, <2>3 DEF IInv, RegistryTypeOK, DInv, Swept, Sweep
    <2>5. Occupied' = {}
      BY <2>4 DEF Occupied
    <2>6. \A z \in Callers : pc'[z] \notin {"count", "discount"}
      BY <1>1, <2>2
      DEF IInv, RegistryTypeOK, Exclusive, Inside, Sweep, SweepNext, Goto
    <2>7. cli_cnt' = Cardinality(Occupied')
      BY <1>1, <2>6 DEF IInv, CountAgrees
    <2> QED
      BY <2>4, <2>5, <2>7, FS_EmptySet
  <1> QED
    BY <1>1, IInvHolds, DInvHolds, PTL DEF RegistrySpec, SweepEmpties

-----------------------------------------------------------------------------
(* The server.                                                             *)

\* A connection registers its own descriptor when its thread starts.
ConnFrames ==
  \A t \in Conns :
    /\ pc[t] \in {"out", "register", "find_free", "fill", "count", "unlock"}
    /\ arg[t] \in {t, NoFd}
    /\ service[t] # "started" => pc[t] = "out" /\ arg[t] = NoFd

\* A handler shuts down and waits, and registers nothing.
HandlerFrames ==
  \A t \in Threads :
    /\ pc[Hup(t)] \in {"out", "shutdown_all", "sweep", "wait_for_empty", "check", "unlock"}
    /\ arg[Hup(t)] = NoFd

Frames == ConnFrames /\ HandlerFrames

ServiceTyped == service \in [Conns -> {"none", "created", "started"}]

Good == IInv /\ DInv /\ Frames
BInv == ServiceTyped /\ (freed \/ Good)

LEMMA CallersAre ==
  /\ \A t \in Conns : t \in Callers /\ t \in Fds /\ t # NoFd
  /\ \A t \in Threads : Hup(t) \in Callers /\ Hup(t) \notin Conns
  /\ \A x \in Callers : x \in Conns \/ \E t \in Threads : x = Hup(t)
  BY RegistryAssumption, BourseAssumption

-----------------------------------------------------------------------------
(* Each step uses the registry, takes a step in it, leaves it or frees it. *)

\* A thread that starts registers a descriptor that nobody has.
LEMMA StartUses ==
  ASSUME Good, ~freed, NEW t \in Conns, StartService(t)
  PROVE  Use(t)
  <1>1. arg[t] = NoFd
    BY DEF Good, Frames, ConnFrames, StartService
  <1>2. t \notin Registered
    <2> SUFFICES ASSUME NEW x \in Callers, arg[x] = t PROVE FALSE
      BY DEF Registered
    <2>1. x \notin Conns
      BY <1>1, CallersAre DEF Good, Frames, ConnFrames
    <2> QED
      BY <2>1, CallersAre DEF Good, Frames, HandlerFrames
  <1> QED
    BY <1>1, <1>2, CallersAre DEF StartService, Use

LEMMA StepOfServer ==
  ASSUME Good, ~freed, [Next]_vars
  PROVE  \/ \E x \in Callers : Use(x) \/ RegistryStep(x)
         \/ UNCHANGED registry
         \/ freed'
  <1> USE CallersAre
  <1>1. ASSUME NEW x \in Callers, InRegistry(x) PROVE RegistryStep(x)
    BY <1>1 DEF InRegistry
  <1>2. ASSUME NEW t \in Conns, Accept(t) \/ ThreadStep(t)
        PROVE  UNCHANGED registry \/ \E x \in Callers : Use(x) \/ RegistryStep(x)
    BY <1>1, <1>2, StartUses DEF Accept, ThreadStep, Serve, vars
  <1>3. ASSUME NEW t \in Threads, Deliver(t) PROVE Use(Hup(t))
    BY <1>3 DEF Deliver, Use
  <1>4. ASSUME NEW t \in Threads, HandlerStep(t)
        PROVE  \/ \E x \in Callers : Use(x) \/ RegistryStep(x)
               \/ UNCHANGED registry
               \/ freed'
    BY <1>1, <1>4
    DEF HandlerStep, TerminateWaits, TerminateFinalizes, TerminateExits, Fini, Use
  <1> QED
    BY <1>2, <1>3, <1>4 DEF Next, Idle, Exited, vars

LEMMA RegistryKept ==
  ASSUME Good, ~freed, [Next]_vars
  PROVE  freed' \/ (IInv /\ DInv)'
  <1>1. CASE UNCHANGED registry
    BY <1>1 DEF Good, registry, shared, locals, IInv, RegistryTypeOK, Exclusive,
       SlotFound, CountAgrees, Occupied, DInv, OneCaller, Owned, Kept,
       RegisteredOnce, Swept
  <1> QED
    BY <1>1, StepOfServer, UseKeepsIInv, UseKeepsDInv, StepKeepsIInv, StepKeepsDInv
    DEF Good

-----------------------------------------------------------------------------
(* The frames stay where they are known to be.                             *)

\* A step in the registry of a frame that is where its kind is.
LEMMA FrameStep ==
  ASSUME IInv, Frames, NEW x \in Callers, RegistryStep(x), UNCHANGED service
  PROVE  Frames'
  <1> USE DEF IInv, RegistryTypeOK
  <1>1. /\ \A y \in Callers \ {x} : pc'[y] = pc[y] /\ arg'[y] = arg[y]
        /\ arg'[x] \in {arg[x], NoFd}
    BY DEF RegistryStep, Lock, Unlock, FindFree, FindFd, Search, Fill, Count,
           Clear, Discount, Sweep, SweepNext, Check, Goto, shared
  <1>2. ASSUME x \in Conns PROVE Frames'
    <2>1. /\ pc'[x] \in {"out", "find_free", "fill", "count", "unlock"}
          /\ pc[x] # "out"
      BY <1>2 DEF Frames, ConnFrames, RegistryStep, Lock, Unlock, FindFree, FindFd,
         Search, Fill, Count, Clear, Discount, Sweep, SweepNext, Check, Goto, shared,
         Calls, AfterP
    <2>2. ConnFrames'
      BY <1>1, <1>2, <2>1, CallersAre DEF Frames, ConnFrames
    <2>3. HandlerFrames'
      BY <1>1, <1>2, CallersAre DEF Frames, HandlerFrames
    <2> QED
      BY <2>2, <2>3 DEF Frames
  <1>3. ASSUME NEW t \in Threads, x = Hup(t) PROVE Frames'
    <2>1. pc'[x] \in {"out", "sweep", "check", "unlock"} /\ arg'[x] = NoFd
      <3>1. arg[x] = NoFd
        BY <1>3 DEF Frames, HandlerFrames
      <3>2. pc[x] \in {"out", "shutdown_all", "sweep", "wait_for_empty", "check", "unlock"}
        BY <1>3 DEF Frames, HandlerFrames
      <3> QED
        BY <1>1, <3>1, <3>2 DEF RegistryStep, Lock, Unlock, FindFree, FindFd, Search,
           Fill, Count, Clear, Discount, Sweep, SweepNext, Check, Goto, shared,
           Calls, AfterP
    <2>2. ConnFrames'
      BY <1>1, <1>3, CallersAre DEF Frames, ConnFrames
    <2>3. HandlerFrames'
      BY <1>1, <2>1, CallersAre DEF Frames, HandlerFrames
    <2> QED
      BY <2>2, <2>3 DEF Frames
  <1> QED
    BY <1>2, <1>3, CallersAre

LEMMA FramesKept ==
  ASSUME ServiceTyped, Good, ~freed, [Next]_vars
  PROVE  freed' \/ Frames'
  <1> USE CallersAre DEF Good, ServiceTyped
  <1>1. ASSUME NEW x \in Callers, InRegistry(x) PROVE Frames'
    BY <1>1, FrameStep DEF InRegistry, process
  <1>2. ASSUME NEW t \in Conns, Accept(t) PROVE Frames'
    BY <1>2 DEF Accept, registry, locals, Frames, ConnFrames, HandlerFrames
  <1>3. ASSUME NEW t \in Conns, StartService(t) PROVE Frames'
    <2>1. ConnFrames'
      BY <1>3 DEF IInv, RegistryTypeOK, StartService, CallRegister, Goto, Frames, ConnFrames
    <2>2. HandlerFrames'
      BY <1>3 DEF IInv, RegistryTypeOK, StartService, CallRegister, Goto, Frames,
         HandlerFrames
    <2> QED
      BY <2>1, <2>2 DEF Frames
  <1>4. ASSUME NEW t \in Threads, Deliver(t) \/ TerminateWaits(t) PROVE Frames'
    <2> PICK function \in {"shutdown_all", "wait_for_empty"} : Call(Hup(t), function)
      BY <1>4 DEF Deliver, TerminateWaits
    <2>1. UNCHANGED <<arg, service>>
      BY <1>4 DEF Deliver, TerminateWaits, Call
    <2>2. pc' = [pc EXCEPT ![Hup(t)] = function]
      BY DEF Call, Goto
    <2>3. ConnFrames' /\ HandlerFrames'
      BY <2>1, <2>2 DEF IInv, RegistryTypeOK, Frames, ConnFrames, HandlerFrames
    <2> QED
      BY <2>3 DEF Frames
  <1>5. ASSUME NEW t \in Threads, TerminateFinalizes(t) PROVE freed'
    BY <1>5 DEF TerminateFinalizes, Fini
  <1>6. ASSUME UNCHANGED <<registry, service>> PROVE Frames'
    BY <1>6 DEF registry, locals, Frames, ConnFrames, HandlerFrames
  <1>7. ASSUME NEW t \in Conns, ThreadStep(t) PROVE Frames'
    BY <1>1, <1>3, <1>6, <1>7 DEF ThreadStep, Serve, vars, process
  <1>8. ASSUME NEW t \in Threads, HandlerStep(t) PROVE freed' \/ Frames'
    BY <1>1, <1>4, <1>5, <1>6, <1>8 DEF HandlerStep, TerminateExits
  <1> QED
    BY <1>2, <1>4, <1>6, <1>7, <1>8 DEF Next, Idle, Exited, vars, process

-----------------------------------------------------------------------------
(* BInv is inductive.                                                      *)

LEMMA BInvInit == Init => BInv
  <1> SUFFICES ASSUME Init PROVE BInv
    OBVIOUS
  <1>1. IInv /\ DInv
    BY IInvInit, DInvInit DEF Init
  <1>2. ServiceTyped /\ Frames
    BY CallersAre DEF Init, RegistryInit, ServiceTyped, Frames, ConnFrames, HandlerFrames
  <1> QED
    BY <1>1, <1>2 DEF BInv, Good

LEMMA BInvNext ==
  ASSUME BInv, [Next]_vars
  PROVE  BInv'
  <1>1. ServiceTyped'
    BY DEF BInv, ServiceTyped, Next, vars, process, Accept, ThreadStep, StartService,
       InRegistry, Serve, Deliver, HandlerStep, TerminateWaits, TerminateFinalizes,
       TerminateExits, Exited, Idle
  <1>2. CASE freed
    <2>1. freed'
      BY <1>2 DEF Next, vars, process, registry, shared, Accept, ThreadStep,
         StartService, InRegistry, RegistryStep, Serve, Deliver, HandlerStep,
         TerminateWaits, TerminateFinalizes, TerminateExits, Exited, Idle, Call,
         CallRegister, Fini
    <2> QED
      BY <1>1, <2>1 DEF BInv
  <1>3. CASE ~freed
    BY <1>1, <1>3, RegistryKept, FramesKept DEF BInv, Good
  <1> QED
    BY <1>2, <1>3

THEOREM BInvHolds == Spec => []BInv
  BY BInvInit, BInvNext, PTL DEF Spec

\* In the server as in the header's terms: while threads start, serve and are
\* interrupted by terminate(), the count agrees with the table.
THEOREM BourseCountIsOccupied == Spec => []CountIsOccupied
  <1>1. BInv => CountIsOccupied
    BY DEF BInv, Good, IInv, CountAgrees, CountIsOccupied, Inside
  <1> QED
    BY <1>1, BInvHolds, PTL

-----------------------------------------------------------------------------
(* Who was registered when SIGHUP came.                                    *)

Tracked(c) == c \in shut \/ \E i \in Slots : buf[i] = c

HupTyped ==
  /\ due \in [Threads -> SUBSET Conns]
  /\ hup \in [Threads -> {"none", "shutdown", "wait", "fini"}]

\* Until the sweep is over those due are in the table or shut down already,
\* and as their threads have started they do not become new connections.
DueAreTracked ==
  \A t \in Threads : \A c \in due[t] : service[c] = "started" /\ Tracked(c)

\* creg_shutdown_all has not been called, or is before its end, or is over.
SweepIsOver(t) == hup[t] = "wait" \/ (hup[t] = "shutdown" /\ pc[Hup(t)] \in {"unlock", "out"})

HupFrames ==
  \A t \in Threads :
    hup[t] = "shutdown" => pc[Hup(t)] \in {"shutdown_all", "sweep", "unlock", "out"}

DueAreShut == \A t \in Threads : SweepIsOver(t) => due[t] \subseteq shut

WInv == HupTyped /\ (freed \/ (DueAreTracked /\ HupFrames /\ DueAreShut))

\* A connection leaves the table only by being shut down.
LEMMA TrackedStays ==
  ASSUME Good, NEW x \in Callers, RegistryStep(x)
  PROVE  shut \subseteq shut' /\ \A c \in Conns : Tracked(c) => Tracked(c)'
  <1> USE CallersAre DEF Good, IInv, RegistryTypeOK, Tracked
  <1>1. CASE Fill(x)
    BY <1>1 DEF Fill, SlotFound
  <1>2. CASE Sweep(x)
    <2> SUFFICES ASSUME NEW c \in Conns, NEW i \in Slots, buf[i] = c
                 PROVE  Tracked(c)'
      BY <1>2 DEF Sweep
    <2>1. CASE i = idx[x]
      BY <1>2, <2>1 DEF Sweep
    <2>2. CASE i # idx[x]
      BY <1>2, <2>2 DEF Sweep
    <2> QED
      BY <2>1, <2>2
  <1>3. pc[x] # "clear"
    <2>1. CASE x \in Conns
      BY <2>1 DEF Frames, ConnFrames
    <2>2. CASE x \notin Conns
      BY <2>2 DEF Frames, HandlerFrames
    <2> QED
      BY <2>1, <2>2
  <1> QED
    BY <1>1, <1>2, <1>3 DEF RegistryStep, Lock, Unlock, FindFree, FindFd, Search,
       Count, Clear, Discount, Check, shared

\* When the sweep of a handler ends the table is empty: all that are due to it
\* have been shut down.
LEMMA RegistryKeepsWInv ==
  ASSUME Good, ~freed, WInv, NEW x \in Callers, RegistryStep(x),
         UNCHANGED <<service, hup, due>>
  PROVE  WInv'
  <1> USE CallersAre DEF Good, IInv, RegistryTypeOK, WInv, HupTyped
  <1>1. shut \subseteq shut' /\ \A c \in Conns : Tracked(c) => Tracked(c)'
    BY TrackedStays
  <1>2. DueAreTracked'
    BY <1>1 DEF DueAreTracked
  <1>3. \A y \in Callers \ {x} : pc'[y] = pc[y]
    BY DEF RegistryStep, Lock, Unlock, FindFree, FindFd, Search, Fill, Count,
           Clear, Discount, Sweep, SweepNext, Check, Goto, shared
  <1>4. ASSUME NEW t \in Threads, hup[t] = "shutdown"
        PROVE  /\ pc'[Hup(t)] \in {"shutdown_all", "sweep", "unlock", "out"}
               /\ pc'[Hup(t)] \in {"unlock", "out"} => due[t] \subseteq shut'
    <2>0. pc[Hup(t)] \in {"shutdown_all", "sweep", "unlock", "out"}
      BY <1>4 DEF HupFrames
    <2>1. CASE x # Hup(t)
      BY <1>1, <1>3, <1>4, <2>0, <2>1 DEF DueAreShut, SweepIsOver
    <2>2. CASE x = Hup(t) /\ ~Sweep(x)
      BY <1>1, <1>4, <2>0, <2>2
      DEF RegistryStep, Lock, Unlock, FindFree, FindFd, Search, Fill, Count, Clear,
          Discount, Check, Goto, shared, Calls, AfterP, DueAreShut, SweepIsOver
    <2>3. CASE x = Hup(t) /\ Sweep(x)
      <3>1. pc'[x] \in {"sweep", "unlock"} /\ (pc'[x] = "unlock" => ~(idx[x] + 1 < BUF_SIZE))
        BY <2>3 DEF Sweep, SweepNext, Goto
      <3>2. ASSUME ~(idx[x] + 1 < BUF_SIZE) PROVE due[t] \subseteq shut'
        <4>1. \A i \in Slots : i < idx[x] \/ i = idx[x]
          BY <3>2, RegistryAssumption DEF Slots
        <4>2. \A i \in Slots : buf'[i] = NoFd
          BY <2>3, <4>1 DEF DInv, Swept, Sweep
        <4>3. \A c \in due[t] : c # NoFd /\ Tracked(c)'
          BY <1>2 DEF DueAreTracked
        <4> QED
          BY <4>2, <4>3 DEF Tracked
      <3> QED
        BY <2>3, <3>1, <3>2
    <2> QED
      BY <2>1, <2>2, <2>3
  <1>5. HupFrames'
    BY <1>4 DEF HupFrames
  <1>6. DueAreShut'
    BY <1>1, <1>4 DEF DueAreShut, SweepIsOver
  <1> QED
    BY <1>2, <1>5, <1>6

\* SIGHUP comes: those due are in the table, and their threads have started.
LEMMA DeliverKeepsWInv ==
  ASSUME Good, ~freed, WInv, NEW t \in Threads, Deliver(t)
  PROVE  WInv'
  <1> USE CallersAre DEF Good, IInv, RegistryTypeOK, WInv, HupTyped
  <1> DEFINE held == {c \in Conns : Holding(c) # {}}
  <1>1. /\ due' = [due EXCEPT ![t] = held]
        /\ hup' = [hup EXCEPT ![t] = "shutdown"]
        /\ pc' = [pc EXCEPT ![Hup(t)] = "shutdown_all"]
        /\ UNCHANGED <<shared, service>>
    BY DEF Deliver, Call, Goto
  <1>2. \A c \in held : service[c] = "started" /\ Tracked(c)
    <2> SUFFICES ASSUME NEW c \in held PROVE service[c] = "started" /\ Tracked(c)
      OBVIOUS
    <2>1. PICK i \in Slots : buf[i] = c
      BY DEF Holding
    <2>2. PICK y \in Callers : arg[y] = c
      BY <2>1 DEF DInv, Owned
    <2>3. y \in Conns
      BY <2>2 DEF Frames, HandlerFrames
    <2> QED
      BY <2>1, <2>2, <2>3 DEF Frames, ConnFrames, Tracked
  <1>3. HupTyped'
    BY <1>1
  <1>4. DueAreTracked'
    BY <1>1, <1>2 DEF DueAreTracked, Tracked, shared
  <1>5. \A u \in Threads \ {t} : Hup(u) # Hup(t)
    BY DEF Hup
  <1>6. HupFrames'
    BY <1>1, <1>5 DEF HupFrames
  <1>7. DueAreShut'
    BY <1>1, <1>5 DEF DueAreShut, SweepIsOver, shared
  <1> QED
    BY <1>3, <1>4, <1>6, <1>7

\* Whoever starts is a new connection; shutting down being over, terminate()
\* goes on to wait.
LEMMA OthersKeepWInv ==
  ASSUME ServiceTyped, Good, ~freed, WInv,
         \/ \E t \in Conns : Accept(t) \/ StartService(t)
         \/ \E t \in Threads : TerminateWaits(t)
  PROVE  WInv'
  <1> USE CallersAre DEF ServiceTyped, Good, IInv, RegistryTypeOK, WInv, HupTyped
  <1>1. ASSUME NEW t \in Conns, Accept(t) PROVE WInv'
    BY <1>1 DEF Accept, registry, shared, locals, DueAreTracked, Tracked, HupFrames,
       DueAreShut, SweepIsOver
  <1>2. ASSUME NEW t \in Conns, StartService(t) PROVE WInv'
    <2>1. /\ shut' = shut \ {t} /\ buf' = buf /\ UNCHANGED <<hup, due>>
          /\ service' = [service EXCEPT ![t] = "started"]
          /\ pc' = [pc EXCEPT ![t] = "register"]
      BY <1>2 DEF StartService, CallRegister, Goto
    <2>2. \A u \in Threads : t \notin due[u]
      BY <1>2 DEF StartService, DueAreTracked
    <2>3. DueAreTracked'
      BY <2>1, <2>2 DEF DueAreTracked, Tracked
    <2>4. HupFrames' /\ DueAreShut'
      BY <2>1, <2>2 DEF HupFrames, DueAreShut, SweepIsOver
    <2> QED
      BY <2>1, <2>3, <2>4
  <1>3. ASSUME NEW t \in Threads, TerminateWaits(t) PROVE WInv'
    <2>1. /\ hup' = [hup EXCEPT ![t] = "wait"] /\ hup[t] = "shutdown"
          /\ pc[Hup(t)] = "out"
          /\ pc' = [pc EXCEPT ![Hup(t)] = "wait_for_empty"]
          /\ UNCHANGED <<shared, service, due>>
      BY <1>3 DEF TerminateWaits, Call, Goto
    <2>2. \A u \in Threads \ {t} : Hup(u) # Hup(t)
      BY DEF Hup
    <2>3. HupTyped' /\ DueAreTracked'
      BY <2>1 DEF DueAreTracked, Tracked, shared
    <2>4. HupFrames' /\ DueAreShut'
      BY <2>1, <2>2 DEF HupFrames, DueAreShut, SweepIsOver, shared
    <2> QED
      BY <2>3, <2>4
  <1> QED
    BY <1>1, <1>2, <1>3

LEMMA WInvInit == Init => WInv
  BY DEF Init, RegistryInit, WInv, HupTyped, DueAreTracked, HupFrames, DueAreShut,
     SweepIsOver

LEMMA WInvNext ==
  ASSUME BInv, WInv, [Next]_vars
  PROVE  WInv'
  <1>1. CASE freed
    <2>1. freed'
      BY <1>1 DEF Next, vars, process, registry, shared, Accept, ThreadStep,
         StartService, InRegistry, RegistryStep, Serve, Deliver, HandlerStep,
         TerminateWaits, TerminateFinalizes, TerminateExits, Exited, Idle, Call,
         CallRegister, Fini
    <2>2. HupTyped'
      BY DEF WInv, HupTyped, Next, vars, process, Accept, ThreadStep, StartService,
         InRegistry, Serve, Deliver, HandlerStep, TerminateWaits, TerminateFinalizes,
         TerminateExits, Exited, Idle
    <2> QED
      BY <2>1, <2>2 DEF WInv
  <1>2. CASE ~freed
    <2>0. ServiceTyped /\ Good
      BY <1>2 DEF BInv
    <2>1. ASSUME NEW x \in Callers, InRegistry(x) PROVE WInv'
      BY <1>2, <2>0, <2>1, RegistryKeepsWInv DEF InRegistry, process
    <2>2. ASSUME UNCHANGED <<registry, service, hup, due>> PROVE WInv'
      BY <2>2 DEF registry, shared, locals, WInv, HupTyped, DueAreTracked, Tracked,
         HupFrames, DueAreShut, SweepIsOver
    <2>3. ASSUME NEW t \in Conns, Accept(t) \/ ThreadStep(t) PROVE WInv'
      BY <1>2, <2>0, <2>1, <2>2, <2>3, OthersKeepWInv, CallersAre
      DEF ThreadStep, Serve, vars, process
    <2>4. ASSUME NEW t \in Threads, Deliver(t) PROVE WInv'
      BY <1>2, <2>0, <2>4, DeliverKeepsWInv
    <2>5. ASSUME NEW t \in Threads, TerminateFinalizes(t) PROVE WInv'
      BY <2>5 DEF TerminateFinalizes, Fini, WInv, HupTyped
    <2>6. ASSUME NEW t \in Threads, HandlerStep(t) PROVE WInv'
      BY <1>2, <2>0, <2>1, <2>2, <2>5, <2>6, OthersKeepWInv, CallersAre
      DEF HandlerStep, TerminateExits
    <2> QED
      BY <2>2, <2>3, <2>4, <2>6 DEF Next, Idle, Exited, vars, process
  <1> QED
    BY <1>1, <1>2

\* For any number of connections, slots and SIGHUPs: until the registry is
\* freed, a handler that goes on to wait has had everybody shut down who was
\* registered when its signal came, whoever registers and sweeps beside it.
THEOREM BourseRegisteredAreShutDown == Spec => []RegisteredAreShutDown
  <1>1. WInv => RegisteredAreShutDown
    BY DEF WInv, DueAreShut, SweepIsOver, RegisteredAreShutDown
  <1> QED
    BY <1>1, WInvInit, WInvNext, BInvHolds, PTL DEF Spec

-----------------------------------------------------------------------------
(***************************************************************************)
(* The service threads, of module TraderService: the accounts, for every   *)
(* width of the words they are kept in, and the answers to what the        *)
(* clients ask.                                                            *)
(***************************************************************************)

\* What the accounts and their histories are: the part of ServiceTypeOK they need.
AccountsTyped ==
  /\ account \in [Services -> [Assets -> 0 .. WORD - 1]]
  /\ put \in [Services -> [Assets -> Nat]]
  /\ got \in [Services -> [Assets -> Nat]]

AInv == AccountsTyped /\ AccountsAreCovered

\* Arithmetic of unsigned words.
LEMMA WordArithmetic ==
  ASSUME NEW x \in Nat
  PROVE  /\ x % WORD \in 0 .. WORD - 1
         /\ x % WORD <= x
         /\ x < WORD => x % WORD = x
  BY TraderAssumption

LEMMA CostIsNat ==
  ASSUME NEW n \in Amounts, NEW price \in Amounts
  PROVE  Cost(n, price) \in Nat /\ n \in Nat
  <1>1. n \in Nat /\ price \in Nat
    BY TraderAssumption
  <1>2. price * n \in Nat
    BY <1>1
  <1> QED
    BY <1>1, <1>2, WordArithmetic DEF Cost

-----------------------------------------------------------------------------
(* The three ways an account changes.                                      *)

\* Paying in may wrap, which only takes from the trader.
LEMMA IncreaseCovered ==
  ASSUME AInv, NEW c \in Services, NEW a \in Assets, NEW n \in Nat,
         Increase(c, a, n), put' = [put EXCEPT ![c][a] = @ + n], got' = got
  PROVE  AInv'
  <1>1. /\ account[c][a] \in 0 .. WORD - 1 /\ put[c][a] \in Nat
        /\ account[c][a] + n \in Nat
    BY TraderAssumption DEF AInv, AccountsTyped
  <1> DEFINE new == (account[c][a] + n) % WORD
  <1>2. new \in 0 .. WORD - 1 /\ new <= account[c][a] + n
    BY <1>1, WordArithmetic
  <1>3. account' = [account EXCEPT ![c][a] = new]
    BY DEF Increase
  <1> HIDE DEF new
  <1>4. AccountsTyped'
    BY <1>1, <1>2, <1>3 DEF AInv, AccountsTyped
  <1>5. ASSUME NEW d \in Services, NEW b \in Assets
        PROVE  account'[d][b] + got'[d][b] <= put'[d][b]
    <2>1. /\ account[d][b] \in Int /\ got[d][b] \in Nat /\ put[d][b] \in Nat
          /\ account[d][b] + got[d][b] <= put[d][b]
      BY TraderAssumption DEF AInv, AccountsTyped, AccountsAreCovered
    <2>2. CASE d = c /\ b = a
      BY <1>1, <1>2, <1>3, <2>1, <2>2 DEF AInv, AccountsTyped
    <2>3. CASE ~(d = c /\ b = a)
      BY <1>3, <2>1, <2>3 DEF AInv, AccountsTyped
    <2> QED
      BY <2>2, <2>3
  <1> QED
    BY <1>4, <1>5 DEF AInv, AccountsAreCovered

\* Taking what the account covers does not wrap.
LEMMA DecreaseExact ==
  ASSUME AInv, NEW c \in Services, NEW a \in Assets, NEW n \in Nat,
         Covers(c, a, n), Decrease(c, a, n)
  PROVE  /\ account[c][a] - n \in 0 .. WORD - 1
         /\ account' = [account EXCEPT ![c][a] = account[c][a] - n]
  <1>1. account[c][a] \in 0 .. WORD - 1
    BY DEF AInv, AccountsTyped
  <1>2. account[c][a] - n \in Nat /\ account[c][a] - n < WORD
    BY <1>1, TraderAssumption DEF Covers
  <1>3. (account[c][a] - n) % WORD = account[c][a] - n
    BY <1>2, WordArithmetic
  <1>4. account' = [account EXCEPT ![c][a] = account[c][a] - n]
    BY <1>3, Zenon DEF Decrease
  <1> QED
    BY <1>2, <1>4, TraderAssumption

\* What is taken from an account is paid out, or is lost to the trader.
LEMMA DecreaseCovered ==
  ASSUME AInv, NEW c \in Services, NEW a \in Assets, NEW n \in Nat,
         Covers(c, a, n), Decrease(c, a, n), put' = put,
         \/ got' = got
         \/ got' = [got EXCEPT ![c][a] = @ + n]
  PROVE  AInv'
  <1>1. account[c][a] \in 0 .. WORD - 1 /\ got[c][a] \in Nat
    BY DEF AInv, AccountsTyped
  <1> DEFINE new == account[c][a] - n
  <1>2. new \in 0 .. WORD - 1 /\ account' = [account EXCEPT ![c][a] = new]
    BY DecreaseExact
  <1>3. new + n = account[c][a]
    BY <1>1
  <1> HIDE DEF new
  <1>4. AccountsTyped'
    <2>1. account' \in [Services -> [Assets -> 0 .. WORD - 1]]
      BY <1>2 DEF AInv, AccountsTyped
    <2>2. got' \in [Services -> [Assets -> Nat]]
      BY <1>1 DEF AInv, AccountsTyped
    <2> QED
      BY <2>1, <2>2 DEF AInv, AccountsTyped
  <1>5. ASSUME NEW d \in Services, NEW b \in Assets
        PROVE  account'[d][b] + got'[d][b] <= put'[d][b]
    <2>1. /\ account[d][b] \in Int /\ got[d][b] \in Nat /\ put[d][b] \in Nat
          /\ account[d][b] + got[d][b] <= put[d][b]
      BY TraderAssumption DEF AInv, AccountsTyped, AccountsAreCovered
    <2>2. CASE d = c /\ b = a
      BY <1>1, <1>2, <1>3, <2>1, <2>2 DEF AInv, AccountsTyped
    <2>3. CASE ~(d = c /\ b = a)
      BY <1>2, <2>1, <2>3 DEF AInv, AccountsTyped
    <2> QED
      BY <2>2, <2>3
  <1> QED
    BY <1>4, <1>5 DEF AInv, AccountsAreCovered

-----------------------------------------------------------------------------
LEMMA InitCovered == ServiceInit => AInv
  BY TraderAssumption DEF ServiceInit, AInv, AccountsTyped, AccountsAreCovered

\* An order takes its cost once, or twice.
LEMMA PostOrderCovered ==
  ASSUME AInv, NEW c \in Services, NEW a \in Assets, NEW cost \in Nat,
         PostOrder(c, a, cost)
  PROVE  AInv'
  <1>1. put' = put /\ got' = got
    BY DEF PostOrder
  <1>2. CASE account' = account
    BY <1>1, <1>2 DEF AInv, AccountsTyped, AccountsAreCovered
  <1>3. CASE Covers(c, a, cost) /\ Decrease(c, a, cost)
    BY <1>1, <1>3, DecreaseCovered
  <1>4. CASE Covers(c, a, 2 * cost) /\ Decrease(c, a, 2 * cost)
    <2>1. 2 * cost \in Nat
      OBVIOUS
    <2> QED
      BY <1>1, <1>4, <2>1, DecreaseCovered
  <1> QED
    BY <1>2, <1>3, <1>4 DEF PostOrder

LEMMA StepCovered == AInv /\ [ServiceNext]_serviceVars => AInv'
  <1> SUFFICES ASSUME AInv, [ServiceNext]_serviceVars PROVE AInv'
    OBVIOUS
  <1>0. CASE UNCHANGED <<account, put, got>>
    BY <1>0 DEF AInv, AccountsTyped, AccountsAreCovered
  <1>1. CASE UNCHANGED serviceVars
    BY <1>0, <1>1 DEF serviceVars, accounts
  <1>2. CASE ServiceNext
    <2> PICK c \in Services :
          \/ \E who \in Names : Login(c, who)
          \/ \E kind \in {"empty", "payload"} : Ignored(c, kind)
          \/ Status(c)
          \/ \E a \in Assets, n \in Amounts : PayIn(c, a, n) \/ PayOut(c, a, n)
          \/ \E n, price \in Amounts : PostOrder(c, "balance", Cost(n, price))
          \/ \E n \in Amounts : PostOrder(c, "inventory", n)
          \/ Cancel(c)
          \/ ReplayEmpty(c) \/ Send(c) \/ EndOfInput(c) \/ Spin(c)
      BY <1>2 DEF ServiceNext
    <2>1. ASSUME NEW a \in Assets, NEW n \in Amounts, PayIn(c, a, n)
          PROVE  AInv'
      <3>1. n \in Nat /\ Increase(c, a, n) /\ got' = got
        BY <2>1, TraderAssumption DEF PayIn
      <3>2. put' = [put EXCEPT ![c][a] = @ + n]
        BY <2>1, Zenon DEF PayIn
      <3> QED
        BY <3>1, <3>2, IncreaseCovered
    <2>2. ASSUME NEW a \in Assets, NEW n \in Amounts, PayOut(c, a, n)
          PROVE  AInv'
      <3>1. n \in Nat /\ put' = put
        BY <2>2, TraderAssumption DEF PayOut
      <3>2. CASE /\ Covers(c, a, n) /\ Decrease(c, a, n)
                 /\ got' = [got EXCEPT ![c][a] = @ + n]
        BY <3>1, <3>2, DecreaseCovered
      <3>3. CASE UNCHANGED <<account, got>>
        BY <1>0, <3>1, <3>3
      <3> QED
        BY <2>2, <3>2, <3>3 DEF PayOut
    <2>3. ASSUME NEW n \in Amounts, NEW price \in Amounts,
                 PostOrder(c, "balance", Cost(n, price))
          PROVE  AInv'
      <3>1. Cost(n, price) \in Nat /\ "balance" \in Assets
        BY CostIsNat DEF Assets
      <3> QED
        BY <2>3, <3>1, PostOrderCovered
    <2>4. ASSUME NEW n \in Amounts, PostOrder(c, "inventory", n)
          PROVE  AInv'
      <3>1. n \in Nat /\ "inventory" \in Assets
        BY TraderAssumption DEF Assets
      <3> QED
        BY <2>4, <3>1, PostOrderCovered
    <2>5. ASSUME NEW who \in Names, Login(c, who) PROVE AInv'
      BY <1>0, <2>5 DEF Login
    <2>6. ASSUME NEW kind \in {"empty", "payload"}, Ignored(c, kind) PROVE AInv'
      BY <1>0, <2>6 DEF Ignored, accounts
    <2>7. CASE Status(c) \/ Cancel(c) \/ ReplayEmpty(c)
      BY <1>0, <2>7 DEF Status, Cancel, ReplayEmpty, accounts
    <2>8. CASE Send(c)
      BY <1>0, <2>8 DEF Send, SetSize, ReadSize, LoadSize, StoreSize,
           SendHeader, SendPayload, SendNack, accounts
    <2>9. CASE EndOfInput(c) \/ Spin(c)
      BY <1>0, <2>9 DEF EndOfInput, Spin, serviceVars, accounts
    <2> QED
      BY <2>1, <2>2, <2>3, <2>4, <2>5, <2>6, <2>7, <2>8, <2>9
  <1> QED
    BY <1>1, <1>2

\* For any width of the accounts, any number of clients and any amounts, no
\* sequence of deposits, withdrawals and orders, wrapping sums and twice-taken
\* costs included, leaves a trader with more than was paid in.
THEOREM TraderAccountsAreCovered == ServiceSpec => []AccountsAreCovered
  <1>1. AInv => AccountsAreCovered
    BY DEF AInv
  <1> QED
    BY <1>1, InitCovered, StepCovered, PTL DEF ServiceSpec

-----------------------------------------------------------------------------
(* Answers.                                                                *)

\* The places where the answer to the last request is still to be sent.
Owing == {"set", "read", "load", "store", "header", "nack"}

\* OneAnswerEach at every place of the loop: at most the last request waits.
AnswersKept ==
  \A c \in Services :
    ~ended[c] => answered[c] = IF at[c] \in Owing THEN asked[c] - 1 ELSE asked[c]

QInv ==
  /\ at \in [Services -> Owing \cup {"recv", "payload"}]
  /\ ended \in [Services -> BOOLEAN]
  /\ asked \in [Services -> Nat]
  /\ answered \in [Services -> Nat]
  /\ AnswersKept

\* A branch that honours a packet owes its answer, whatever else it does.
LEMMA AskingKeepsQInv ==
  ASSUME QInv, NEW c \in Services, NEW loc \in Owing, At(c, "recv"),
         asked' = [asked EXCEPT ![c] = @ + 1], GoesTo(c, loc),
         UNCHANGED <<ended, answered>>
  PROVE  QInv'
  <1>1. /\ at' \in [Services -> Owing \cup {"recv", "payload"}]
        /\ asked' \in [Services -> Nat]
    BY DEF QInv, GoesTo
  <1>2. AnswersKept'
    BY DEF QInv, AnswersKept, At, GoesTo, Owing
  <1> QED
    BY <1>1, <1>2 DEF QInv

\* Sending the header of an ACK, or a NACK, is what answers.
LEMMA AnsweringKeepsQInv ==
  ASSUME QInv, NEW c \in Services, NEW from \in Owing, At(c, from),
         NEW loc \in {"recv", "payload"}, GoesTo(c, loc),
         answered' = [answered EXCEPT ![c] = @ + 1], UNCHANGED <<ended, asked>>
  PROVE  QInv'
  <1>1. /\ at' \in [Services -> Owing \cup {"recv", "payload"}]
        /\ answered' \in [Services -> Nat]
    BY DEF QInv, GoesTo
  <1>2. AnswersKept'
    BY DEF QInv, AnswersKept, At, GoesTo, Owing
  <1> QED
    BY <1>1, <1>2 DEF QInv

\* Between the two the thread moves on, and the account of answers is as it was.
LEMMA MovingKeepsQInv ==
  ASSUME QInv, NEW c \in Services, NEW loc \in Owing \cup {"recv", "payload"},
         GoesTo(c, loc), ended[c] \/ (at[c] \in Owing <=> loc \in Owing),
         UNCHANGED <<ended, asked, answered>>
  PROVE  QInv'
  <1>1. at' \in [Services -> Owing \cup {"recv", "payload"}]
    BY DEF QInv, GoesTo
  <1>2. AnswersKept'
    BY DEF QInv, AnswersKept, GoesTo, Owing
  <1> QED
    BY <1>1, <1>2 DEF QInv

LEMMA InitQInv == ServiceInit => QInv
  BY DEF ServiceInit, QInv, AnswersKept, Owing

LEMMA RequestKeepsQInv ==
  ASSUME QInv, NEW c \in Services,
         \/ \E who \in Names : Login(c, who)
         \/ \E kind \in {"empty", "payload"} : Ignored(c, kind)
         \/ Status(c)
         \/ \E a \in Assets, n \in Amounts : PayIn(c, a, n) \/ PayOut(c, a, n)
         \/ \E n, price \in Amounts : PostOrder(c, "balance", Cost(n, price))
         \/ \E n \in Amounts : PostOrder(c, "inventory", n)
         \/ Cancel(c)
         \/ ReplayEmpty(c)
  PROVE  QInv'
  <1>1. CASE (\E who \in Names : Login(c, who)) \/ Status(c)
    <2>1. /\ At(c, "recv") /\ GoesTo(c, "set") /\ "set" \in Owing
          /\ asked' = [asked EXCEPT ![c] = @ + 1]
          /\ UNCHANGED <<ended, answered>>
      BY <1>1 DEF Login, Status, Receives, Ack, Unsent, socket, Owing
    <2> QED
      BY <2>1, AskingKeepsQInv
  <1>2. CASE \E kind \in {"empty", "payload"} : Ignored(c, kind)
    BY <1>2 DEF Ignored, socket, QInv, AnswersKept
  <1>3. ASSUME NEW a \in Assets, NEW n \in Amounts, PayIn(c, a, n)
        PROVE  QInv'
    <2>1. /\ At(c, "recv") /\ GoesTo(c, "set") /\ "set" \in Owing
          /\ asked' = [asked EXCEPT ![c] = @ + 1]
          /\ UNCHANGED <<ended, answered>>
      BY <1>3 DEF PayIn, Receives, Ack, Unsent, socket, Owing
    <2> QED
      BY <2>1, AskingKeepsQInv
  <1>4. ASSUME NEW a \in Assets, NEW n \in Amounts, PayOut(c, a, n)
        PROVE  QInv'
    <2>1. /\ At(c, "recv") /\ \E loc \in Owing : GoesTo(c, loc)
          /\ asked' = [asked EXCEPT ![c] = @ + 1]
          /\ UNCHANGED <<ended, answered>>
      BY <1>4 DEF PayOut, Receives, Ack, Unsent, socket, Owing
    <2> QED
      BY <2>1, AskingKeepsQInv
  <1>5. ASSUME NEW a, NEW cost, PostOrder(c, a, cost)
        PROVE  QInv'
    <2>1. /\ At(c, "recv") /\ GoesTo(c, "nack") /\ "nack" \in Owing
          /\ asked' = [asked EXCEPT ![c] = @ + 1]
          /\ UNCHANGED <<ended, answered>>
      BY <1>5 DEF PostOrder, Receives, Unsent, socket, Owing
    <2> QED
      BY <2>1, AskingKeepsQInv
  <1>6. CASE Cancel(c)
    <2>1. /\ At(c, "recv") /\ GoesTo(c, "nack") /\ "nack" \in Owing
          /\ asked' = [asked EXCEPT ![c] = @ + 1]
          /\ UNCHANGED <<ended, answered>>
      BY <1>6 DEF Cancel, Receives, Unsent, socket, Owing
    <2> QED
      BY <2>1, AskingKeepsQInv
  <1>7. CASE ReplayEmpty(c)
    <2>1. /\ ended[c] /\ GoesTo(c, "set") /\ "set" \in Owing
          /\ UNCHANGED <<ended, asked, answered>>
      BY <1>7 DEF ReplayEmpty, Ack, Unsent, socket, Owing
    <2> QED
      BY <2>1, MovingKeepsQInv
  <1> QED
    BY <1>1, <1>2, <1>3, <1>4, <1>5, <1>6, <1>7

LEMMA SendKeepsQInv ==
  ASSUME QInv, NEW c \in Services, Send(c)
  PROVE  QInv'
  <1>1. CASE SetSize(c) \/ ReadSize(c) \/ LoadSize(c) \/ StoreSize(c)
    <2>1. /\ at[c] \in Owing /\ \E loc \in Owing : GoesTo(c, loc)
          /\ UNCHANGED <<ended, asked, answered>>
      BY <1>1 DEF SetSize, ReadSize, LoadSize, StoreSize, At, socket, Owing
    <2> QED
      BY <2>1, MovingKeepsQInv
  <1>2. CASE SendHeader(c)
    <2>1. /\ At(c, "header") /\ "header" \in Owing /\ GoesTo(c, "payload")
          /\ answered' = [answered EXCEPT ![c] = @ + 1]
          /\ UNCHANGED <<ended, asked>>
      BY <1>2 DEF SendHeader, Owing
    <2> QED
      BY <2>1, AnsweringKeepsQInv
  <1>3. CASE SendNack(c)
    <2>1. /\ At(c, "nack") /\ "nack" \in Owing /\ GoesTo(c, "recv")
          /\ answered' = [answered EXCEPT ![c] = @ + 1]
          /\ UNCHANGED <<ended, asked>>
      BY <1>3 DEF SendNack, Owing
    <2> QED
      BY <2>1, AnsweringKeepsQInv
  <1>4. CASE SendPayload(c)
    <2>1. /\ at[c] = "payload" /\ GoesTo(c, "recv")
          /\ UNCHANGED <<ended, asked, answered>>
      BY <1>4 DEF SendPayload, At
    <2>2. at[c] \in Owing <=> "recv" \in Owing
      BY <2>1 DEF Owing
    <2> QED
      BY <2>1, <2>2, MovingKeepsQInv
  <1> QED
    BY <1>1, <1>2, <1>3, <1>4 DEF Send

LEMMA StepKeepsQInv == QInv /\ [ServiceNext]_serviceVars => QInv'
  <1> SUFFICES ASSUME QInv, [ServiceNext]_serviceVars PROVE QInv'
    OBVIOUS
  <1>1. CASE UNCHANGED <<at, ended, asked, answered>>
    BY <1>1 DEF QInv, AnswersKept
  <1>2. ASSUME NEW c \in Services, EndOfInput(c) PROVE QInv'
    BY <1>2 DEF EndOfInput, QInv, AnswersKept
  <1>3. CASE UNCHANGED serviceVars \/ \E c \in Services : Spin(c)
    BY <1>1, <1>3 DEF Spin, serviceVars, socket
  <1> QED
    BY <1>2, <1>3, RequestKeepsQInv, SendKeepsQInv DEF ServiceNext

\* For any number of clients asking in any order, and any interleaving of the
\* threads on the shared header, every request honoured is answered exactly
\* once by the time the thread reads the next packet of a client that is there.
THEOREM TraderOneAnswerEach == ServiceSpec => []OneAnswerEach
  <1>1. QInv => OneAnswerEach
    BY DEF QInv, AnswersKept, OneAnswerEach, At, Owing
  <1> QED
    BY <1>1, InitQInv, StepKeepsQInv, PTL DEF ServiceSpec

=============================================================================
