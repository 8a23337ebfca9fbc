------------------------------- MODULE Bourse -------------------------------
(***************************************************************************)
(* The threads of the Bourse server of hw5 and its shutdown: main          *)
(* (src/hw5/src/main.c) accepts connections and starts a service thread    *)
(* for each (src/hw5/src/server.c), which registers its descriptor and     *)
(* then serves it; SIGHUP runs terminate() on top of whatever thread the   *)
(* kernel chose, and that thread goes no further.                          *)
(*                                                                         *)
(* The registry is module ClientRegistry, entered by the service threads   *)
(* and by the handler frames.  What a service thread does with the packets *)
(* it receives is module TraderService; here it is a step that changes     *)
(* nothing.                                                                *)
(***************************************************************************)
EXTENDS ClientRegistry

CONSTANTS
  Conns,    \* connections: the descriptor of one, and its service thread
  Main,     \* the main thread
  MaxHups   \* bound: the number of SIGHUPs sent

Threads == Conns \cup {Main}
Hup(t) == <<t>>    \* the frame of a SIGHUP handler on top of thread t

ASSUME BourseAssumption ==
  /\ Main \notin Conns
  /\ Fds = Conns
  /\ Callers = Conns \cup {Hup(t) : t \in Threads}
  /\ \A t \in Threads : Hup(t) \notin Conns
  /\ MaxHups \in Nat

VARIABLES
  service,  \* service[t]: what there is of the service thread t
  hup,      \* hup[t]: how far terminate() has come on top of t, or "none"
  sent,     \* the number of SIGHUPs sent
  exited,   \* the exit status, once the process has exited
  due       \* due[t]: who was registered when SIGHUP came to t (history)

process == <<service, hup, sent, exited>>
vars == <<registry, process, due>>

Alive == exited = "no"
Running(t) == Alive /\ hup[t] = "none"

-----------------------------------------------------------------------------
(* Main and the service threads.                                           *)

\* Accept and Pthread_create
Accept(t) ==
  /\ Running(Main)
  /\ service[t] = "none"
  /\ service' = [service EXCEPT ![t] = "created"]
  /\ UNCHANGED <<registry, hup, sent, exited, due>>

\* brs_client_service registers its descriptor, and ignores the result
StartService(t) ==
  /\ service[t] = "created"
  /\ service' = [service EXCEPT ![t] = "started"]
  /\ CallRegister(t, t)
  /\ UNCHANGED <<hup, sent, exited, due>>

Serving(t) == service[t] = "started" /\ pc[t] = "out"

\* the service loop, which has no way out
Serve(t) == Serving(t) /\ UNCHANGED vars

\* a call of the registry is carried on, or ends anyhow if it was freed
InRegistry(x) ==
  /\ \/ RegistryStep(x)
     \/ freed /\ pc[x] # "out" /\ Goto(x, "out", 0) /\ UNCHANGED <<shared, arg>>
  /\ UNCHANGED <<process, due>>

ThreadStep(t) ==
  Running(t) /\ (StartService(t) \/ InRegistry(t) \/ Serve(t))

-----------------------------------------------------------------------------
(* SIGHUP.                                                                 *)

\* the kernel prefers the main thread, unless it has SIGHUP blocked because a
\* handler runs on it
Chosen(t) == Running(t) /\ (t # Main => ~Running(Main) /\ service[t] # "none")

Deliver(t) ==
  /\ sent < MaxHups
  /\ Chosen(t)
  /\ sent' = sent + 1
  /\ hup' = [hup EXCEPT ![t] = "shutdown"]
  /\ due' = [due EXCEPT ![t] = {c \in Conns : Holding(c) # {}}]
  /\ Call(Hup(t), "shutdown_all")
  /\ UNCHANGED <<service, exited>>

TerminateWaits(t) ==
  /\ hup[t] = "shutdown"
  /\ hup' = [hup EXCEPT ![t] = "wait"]
  /\ Call(Hup(t), "wait_for_empty")
  /\ UNCHANGED <<service, sent, exited, due>>

\* creg_fini, exchange_fini and trader_fini
TerminateFinalizes(t) ==
  /\ hup[t] = "wait"
  /\ hup' = [hup EXCEPT ![t] = "fini"]
  /\ Fini(Hup(t))
  /\ UNCHANGED <<service, sent, exited, due>>

\* exit(sig), and SIGHUP is 1
TerminateExits(t) ==
  /\ hup[t] = "fini"
  /\ exited' = "failure"
  /\ UNCHANGED <<registry, service, hup, sent, due>>

HandlerStep(t) ==
  /\ Alive
  /\ \/ InRegistry(Hup(t))
     \/ TerminateWaits(t) \/ TerminateFinalizes(t) \/ TerminateExits(t)

-----------------------------------------------------------------------------
Exited == ~Alive /\ UNCHANGED vars

\* main blocks in accept
Idle == Running(Main) /\ UNCHANGED vars

Init ==
  /\ RegistryInit
  /\ service = [t \in Conns |-> "none"]
  /\ hup = [t \in Threads |-> "none"]
  /\ sent = 0
  /\ exited = "no"
  /\ due = [t \in Threads |-> {}]

Next ==
  \/ \E t \in Conns : Accept(t) \/ ThreadStep(t)
  \/ \E t \in Threads : Deliver(t) \/ HandlerStep(t)
  \/ Idle \/ Exited

\* every thread and every handler runs when it can
Fairness ==
  /\ \A t \in Conns : WF_vars(ThreadStep(t))
  /\ \A t \in Threads : WF_vars(HandlerStep(t))

Spec == Init /\ [][Next]_vars
FairSpec == Spec /\ Fairness

-----------------------------------------------------------------------------
(* Properties.                                                             *)

TypeOK ==
  /\ RegistryTypeOK
  /\ service \in [Conns -> {"none", "created", "started"}]
  /\ hup \in [Threads -> {"none", "shutdown", "wait", "fini"}]
  /\ sent \in 0 .. MaxHups
  /\ exited \in {"no", "success", "failure"}
  /\ due \in [Threads -> SUBSET Conns]

\* main.c:97: terminate() shuts down all client connections.  Of those that
\* were registered when SIGHUP came, none is left when it goes on to wait,
\* whoever registers meanwhile and whichever other handler sweeps as well.
\* (Who registers later, or found no slot, is not among them: see below.)
RegisteredAreShutDown ==
  \A t \in Threads : ~freed /\ hup[t] = "wait" => due[t] \subseteq shut

\* main.c:41: the receipt of SIGHUP shuts the server down: terminate() is not
\* held up for ever by threads that register, nor by itself.
ShutdownCompletes ==
  (\E t \in Threads : hup[t] # "none") ~> ~Alive

-----------------------------------------------------------------------------
(* What the documentation says and the code does not do.                   *)

\* server.h:149: the registry tracks the connected clients: while it exists
\* every connection being served is in it, or has been shut down.
ServedIsTracked ==
  \A t \in Conns : ~freed /\ Serving(t) => Holding(t) # {} \/ t \in shut

\* main.c:97-98: all connections are shut down, so that the service threads
\* end, before the modules are finalized.
NobodyEscapes == \A t \in Conns : freed /\ Serving(t) => t \in shut

\* client_registry.h:39: once it is finalized the registry is not referenced.
NoUseAfterFini == freed => \A x \in Callers : pc[x] = "out"

\* bourse_tests.c:66: a server stopped by SIGHUP exits with status 0.
ExitsWithSuccess == Alive \/ exited = "success"

=============================================================================
