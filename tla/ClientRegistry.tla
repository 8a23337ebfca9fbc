--------------------------- MODULE ClientRegistry ---------------------------
(***************************************************************************)
(* The client registry of hw5 (src/hw5/src/client_registry.c): a table of  *)
(* the descriptors of connected clients, its count, and the semaphore that *)
(* protects both.                                                          *)
(*                                                                         *)
(* A caller is a stack frame in which one call of the registry is active   *)
(* at a time: a thread, or a signal handler on top of one.  Each statement *)
(* of the code that touches shared state is a step of its caller.  Spec    *)
(* is the registry used as client_registry.h describes; module Bourse puts *)
(* it into the server.                                                     *)
(*                                                                         *)
(* An operator named Op_Fault is a faulty variant of Op, used only to show *)
(* that a property of the module notices the fault.                        *)
(***************************************************************************)
EXTENDS Integers, FiniteSets

CONSTANTS
  Callers,   \* the stack frames that call the registry
  Fds,       \* descriptors
  NoFd,      \* -1: a free slot
  BUF_SIZE   \* the number of slots

ASSUME RegistryAssumption ==
  /\ BUF_SIZE \in Nat \ {0}
  /\ NoFd \notin Fds

Slots == 0 .. BUF_SIZE - 1

VARIABLES
  buf,      \* the table of descriptors
  cli_cnt,  \* the number of registered clients
  mutex,    \* the value of the semaphore
  freed,    \* creg_fini has freed the registry
  shut,     \* the descriptors whose read side has been shut down
  pc,       \* pc[x]: the function caller x is entering or its place in it
  arg,      \* arg[x]: the descriptor x has registered or is about to, or NoFd
  idx       \* idx[x]: the index of x's loop

shared == <<buf, cli_cnt, mutex, freed, shut>>
locals == <<pc, arg, idx>>
registry == <<shared, locals>>

Goto(x, loc, i) ==
  /\ pc' = [pc EXCEPT ![x] = loc]
  /\ idx' = [idx EXCEPT ![x] = i]

\* the place of a function behind its P(&cr->mutex)
AfterP ==
  [register |-> "find_free", unregister |-> "find_fd",
   shutdown_all |-> "sweep", wait_for_empty |-> "check"]

Calls == DOMAIN AfterP
Inside == {"find_free", "fill", "count", "find_fd", "clear", "discount",
           "sweep", "check", "unlock"}

-----------------------------------------------------------------------------
(* Calls, and the steps of the functions.                                  *)

\* fd is of a connection just accepted: it is open
CallRegister(x, fd) ==
  /\ pc[x] = "out"
  /\ Goto(x, "register", 0)
  /\ arg' = [arg EXCEPT ![x] = fd]
  /\ shut' = shut \ {fd}
  /\ UNCHANGED <<buf, cli_cnt, mutex, freed>>

Call(x, function) ==
  /\ pc[x] = "out"
  /\ Goto(x, function, 0)
  /\ UNCHANGED <<shared, arg>>

Lock_None(x) ==
  /\ pc[x] \in Calls
  /\ Goto(x, AfterP[pc[x]], 0)
  /\ UNCHANGED <<shared, arg>>

Lock(x) ==
  /\ pc[x] \in Calls
  /\ mutex > 0
  /\ mutex' = mutex - 1
  /\ Goto(x, AfterP[pc[x]], 0)
  /\ UNCHANGED <<buf, cli_cnt, freed, shut, arg>>

Unlock_Not(x) ==
  /\ pc[x] = "unlock"
  /\ Goto(x, "out", 0)
  /\ UNCHANGED <<shared, arg>>

Unlock(x) ==
  /\ pc[x] = "unlock"
  /\ mutex' = mutex + 1
  /\ Goto(x, "out", 0)
  /\ UNCHANGED <<buf, cli_cnt, freed, shut, arg>>

\* the search for value ends at the first slot that holds it, or fails
First(value, i) == buf[i] = value /\ \A k \in 0 .. i - 1 : buf[k] # value
Holding(value) == {i \in Slots : buf[i] = value}

Search(x, value, found) ==
  \/ /\ \E i \in Slots : First(value, i) /\ Goto(x, found, i)
     /\ UNCHANGED <<shared, arg>>
  \/ /\ Holding(value) = {}
     /\ Goto(x, "unlock", 0)
     /\ arg' = [arg EXCEPT ![x] = NoFd]
     /\ UNCHANGED shared

FindFree(x) == pc[x] = "find_free" /\ Search(x, NoFd, "fill")

FindFd(x) == pc[x] = "find_fd" /\ Search(x, arg[x], "clear")

Fill_NoBreak(x) ==
  /\ pc[x] = "fill"
  /\ buf' = [i \in Slots |-> IF buf[i] = NoFd THEN arg[x] ELSE buf[i]]
  /\ Goto(x, "count", 0)
  /\ UNCHANGED <<cli_cnt, mutex, freed, shut, arg>>

Fill(x) ==
  /\ pc[x] = "fill"
  /\ buf' = [buf EXCEPT ![idx[x]] = arg[x]]
  /\ Goto(x, "count", 0)
  /\ UNCHANGED <<cli_cnt, mutex, freed, shut, arg>>

Count(x) ==
  /\ pc[x] = "count"
  /\ cli_cnt' = cli_cnt + 1
  /\ Goto(x, "unlock", 0)
  /\ UNCHANGED <<buf, mutex, freed, shut, arg>>

Clear_NotDiscounted(x) ==
  /\ pc[x] = "clear"
  /\ buf' = [buf EXCEPT ![idx[x]] = NoFd]
  /\ arg' = [arg EXCEPT ![x] = NoFd]
  /\ Goto(x, "unlock", 0)
  /\ UNCHANGED <<cli_cnt, mutex, freed, shut>>

Clear(x) ==
  /\ pc[x] = "clear"
  /\ buf' = [buf EXCEPT ![idx[x]] = NoFd]
  /\ arg' = [arg EXCEPT ![x] = NoFd]
  /\ Goto(x, "discount", 0)
  /\ UNCHANGED <<cli_cnt, mutex, freed, shut>>

Discount(x) ==
  /\ pc[x] = "discount"
  /\ cli_cnt' = cli_cnt - 1
  /\ Goto(x, "unlock", 0)
  /\ UNCHANGED <<buf, mutex, freed, shut, arg>>

SweepNext_StopsEarly(x) ==
  IF idx[x] + 2 < BUF_SIZE THEN Goto(x, "sweep", idx[x] + 1) ELSE Goto(x, "unlock", 0)

SweepNext(x) ==
  IF idx[x] + 1 < BUF_SIZE THEN Goto(x, "sweep", idx[x] + 1) ELSE Goto(x, "unlock", 0)

\* one turn of creg_shutdown_all's loop
Sweep(x) ==
  /\ pc[x] = "sweep"
  /\ \/ buf[idx[x]] = NoFd /\ UNCHANGED <<buf, cli_cnt, shut>>
     \/ /\ buf[idx[x]] # NoFd
        /\ shut' = shut \cup {buf[idx[x]]}
        /\ buf' = [buf EXCEPT ![idx[x]] = NoFd]
        /\ cli_cnt' = cli_cnt - 1
  /\ SweepNext(x)
  /\ UNCHANGED <<mutex, freed, arg>>

\* creg_wait_for_empty returns at once, with the semaphore unless it is empty
Check(x) ==
  /\ pc[x] = "check"
  /\ mutex' = IF cli_cnt = 0 THEN mutex + 1 ELSE mutex
  /\ Goto(x, "out", 0)
  /\ UNCHANGED <<buf, cli_cnt, freed, shut, arg>>

RegistryStep(x) ==
  /\ ~freed
  /\ \/ Lock(x) \/ Unlock(x) \/ FindFree(x) \/ Fill(x) \/ Count(x)
     \/ FindFd(x) \/ Clear(x) \/ Discount(x) \/ Sweep(x) \/ Check(x)

\* creg_fini, by caller x
Fini(x) ==
  /\ pc[x] = "out"
  /\ freed' = TRUE
  /\ UNCHANGED <<buf, cli_cnt, mutex, shut, locals>>

-----------------------------------------------------------------------------
(* The registry as client_registry.h describes its use: a descriptor is    *)
(* registered by one thread, which is the one to unregister it, and the    *)
(* registry is not referenced again once it is finalized.                  *)

Registered == {arg[x] : x \in Callers}

Use(x) ==
  /\ ~freed
  /\ \/ \E fd \in Fds \ Registered : arg[x] = NoFd /\ CallRegister(x, fd)
     \/ arg[x] # NoFd /\ Call(x, "unregister")
     \/ Call(x, "shutdown_all")
     \/ Call(x, "wait_for_empty")
     \/ (\A y \in Callers : pc[y] = "out") /\ Fini(x)

RegistryInit ==
  /\ buf = [i \in Slots |-> NoFd]
  /\ cli_cnt = 0
  /\ mutex = 1
  /\ freed = FALSE
  /\ shut = {}
  /\ pc = [x \in Callers |-> "out"]
  /\ arg = [x \in Callers |-> NoFd]
  /\ idx = [x \in Callers |-> 0]

RegistryNext == \E x \in Callers : Use(x) \/ RegistryStep(x)

RegistrySpec == RegistryInit /\ [][RegistryNext]_registry

-----------------------------------------------------------------------------
(* Properties.                                                             *)

RegistryTypeOK ==
  /\ buf \in [Slots -> Fds \cup {NoFd}]
  /\ cli_cnt \in Int
  /\ mutex \in {0, 1}
  /\ freed \in BOOLEAN
  /\ shut \subseteq Fds
  /\ pc \in [Callers -> {"out"} \cup Calls \cup Inside]
  /\ arg \in [Callers -> Fds \cup {NoFd}]
  /\ idx \in [Callers -> Slots]

Occupied == {i \in Slots : buf[i] # NoFd}

\* cli_cnt is never adrift from the table, however calls interleave: whenever
\* no call is half done, it is the number of occupied slots.
CountIsOccupied ==
  ~freed /\ (\A x \in Callers : pc[x] \notin Inside) => cli_cnt = Cardinality(Occupied)

\* No client is lost: a descriptor creg_register has accepted is in the table
\* until its thread unregisters it, unless creg_shutdown_all has shut it down.
HeldIsRegistered ==
  \A x \in Callers :
    pc[x] = "out" /\ arg[x] # NoFd => Holding(arg[x]) # {} \/ arg[x] \in shut

\* A descriptor is never in two slots: unregistering it once removes it.
RegisteredOnce ==
  \A i, j \in Slots : buf[i] = buf[j] /\ buf[i] # NoFd => i = j

\* creg_shutdown_all leaves nothing behind: when its sweep is over, and before
\* it lets anybody else in, the table is empty and so is the count.
SweepEmpties ==
  [][\A x \in Callers : pc[x] = "sweep" /\ pc'[x] = "unlock"
       => (\A i \in Slots : buf'[i] = NoFd) /\ cli_cnt' = 0]_registry

\* client_registry.h:63-66: creg_wait_for_empty returns when the number of
\* registered clients has reached zero.
WaitReturnsEmpty ==
  [][\A x \in Callers : pc[x] = "check" /\ pc'[x] = "out" => cli_cnt = 0]_registry

=============================================================================
