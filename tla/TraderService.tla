--------------------------- MODULE TraderService ----------------------------
(***************************************************************************)
(* What the service threads of the Bourse server of hw5 do with packets:   *)
(* the service loop (src/hw5/src/server.c), the accounts of the traders    *)
(* (src/hw5/src/trader.c) and the sending and receiving of packets         *)
(* (src/hw5/src/protocol.c).                                               *)
(*                                                                         *)
(* The table traders[] stays empty, because trader_login never stores into *)
(* it: each login makes a trader of its own, so a trader is the connection *)
(* it belongs to.  What the threads share is ack_pkt, the one header all   *)
(* acknowledgements are sent from, which send_packet converts in place.    *)
(*                                                                         *)
(* An operator named Op_Fault is a faulty variant of Op, used only to show *)
(* that a property of the module notices the fault.                        *)
(***************************************************************************)
EXTENDS Integers, FiniteSets

CONSTANTS
  Services,     \* the service threads, each with its connection
  Names,        \* user names
  NoName,       \* the name of a connection that has not logged in
  WORD,         \* 2^32 in the code: accounts are unsigned words
  Amounts,      \* amounts, quantities and prices the clients send
  MaxRequests,  \* bound: requests honoured per connection
  MaxReplays    \* bound: turns of the loop after end of input that answer

ASSUME TraderAssumption ==
  /\ WORD \in Nat \ {0}
  /\ Amounts \subseteq 0 .. WORD - 1
  /\ NoName \notin Names
  /\ MaxRequests \in Nat /\ MaxReplays \in Nat

Assets == {"balance", "inventory"}

\* A payload size: none, that of a BRS_STATUS_INFO, or that one byte-swapped.
Sizes == {"zero", "status", "swapped"}

VARIABLES
  name,      \* name[c]: who is logged in, the name of the thread's trader
  account,   \* account[c][a]: the trader's balance and inventory
  at,        \* at[c]: the place of the thread in the loop
  last,      \* last[c]: what the header of the last packet says of a payload
  info,      \* info[c]: the acknowledgement being sent carries a status
  ack_size,  \* ack_pkt->size, shared
  p_size,    \* p_size[c]: the local p_size of proto_send_packet
  loaded,    \* loaded[c]: the operand of host_to_network's htons
  wire,      \* wire[c]: the payload size announced on the wire
  peer,      \* peer[c]: the client's end of the connection
  ended,     \* ended[c]: reading gives end of file, all packets are consumed
  crashed,   \* what killed the server process, or "no"
  asked, answered,  \* packets honoured, and answers sent (history)
  put, got   \* put[c][a], got[c][a]: total paid in, paid out (history)

accounts == <<name, account, put, got>>
header == <<info, ack_size, p_size, loaded, wire>>
socket == <<peer, ended>>
serviceVars == <<accounts, header, socket, at, last, crashed, asked, answered>>

At(c, loc) == crashed = "no" /\ at[c] = loc
GoesTo(c, loc) == at' = [at EXCEPT ![c] = loc]
LoggedIn(c) == name[c] # NoName

-----------------------------------------------------------------------------
(* Accounts.                                                               *)

Increase_NoWrap(c, a, n) == account' = [account EXCEPT ![c][a] = @ + n]

Increase(c, a, n) == account' = [account EXCEPT ![c][a] = (@ + n) % WORD]

Covers_Always(c, a, n) == TRUE

Covers(c, a, n) == account[c][a] >= n

Decrease(c, a, n) == account' = [account EXCEPT ![c][a] = (@ - n) % WORD]

-----------------------------------------------------------------------------
(* Receiving.                                                              *)

\* a whole packet is received and honoured
Receives(c, kind) ==
  /\ At(c, "recv") /\ ~ended[c]
  /\ asked[c] < MaxRequests
  /\ asked' = [asked EXCEPT ![c] = @ + 1]
  /\ last' = [last EXCEPT ![c] = kind]

Ack(c, withInfo) ==
  /\ GoesTo(c, "set")
  /\ info' = [info EXCEPT ![c] = withInfo]

Unsent == <<ack_size, p_size, loaded, wire, socket, answered>>

Login(c, who) ==
  /\ Receives(c, "payload") /\ ~LoggedIn(c)
  /\ name' = [name EXCEPT ![c] = who]
  /\ Ack(c, FALSE)
  /\ UNCHANGED <<account, put, got, crashed, Unsent>>

\* not logged in, or logged in already: the loop goes on without an answer
Ignored(c, kind) ==
  /\ At(c, "recv") /\ ~ended[c]
  /\ kind = "empty" => ~LoggedIn(c)
  /\ last' = [last EXCEPT ![c] = kind]
  /\ UNCHANGED <<accounts, header, socket, at, crashed, asked, answered>>

Status(c) ==
  /\ Receives(c, "empty") /\ LoggedIn(c)
  /\ Ack(c, TRUE)
  /\ UNCHANGED <<accounts, crashed, Unsent>>

\* DEPOSIT and ESCROW
PayIn(c, a, n) ==
  /\ Receives(c, "payload") /\ LoggedIn(c)
  /\ Increase(c, a, n)
  /\ put' = [put EXCEPT ![c][a] = @ + n]
  /\ Ack(c, TRUE)
  /\ UNCHANGED <<name, got, crashed, Unsent>>

\* WITHDRAW and RELEASE
PayOut(c, a, n) ==
  /\ Receives(c, "payload") /\ LoggedIn(c)
  /\ \/ /\ Covers(c, a, n)
        /\ Decrease(c, a, n)
        /\ got' = [got EXCEPT ![c][a] = @ + n]
        /\ Ack(c, TRUE)
     \/ /\ ~Covers(c, a, n)
        /\ GoesTo(c, "nack")
        /\ UNCHANGED <<account, got, info>>
  /\ UNCHANGED <<name, put, crashed, Unsent>>

\* BUY and SELL: the thread takes the cost, then exchange_post_buy takes it
\* again; once it has, the order is broadcast, to a null pointer
PostOrder(c, a, cost) ==
  /\ Receives(c, "payload") /\ LoggedIn(c)
  /\ GoesTo(c, "nack")
  /\ \/ ~Covers(c, a, cost) /\ UNCHANGED <<account, crashed>>
     \/ /\ Covers(c, a, cost) /\ ~Covers(c, a, 2 * cost)
        /\ Decrease(c, a, cost)
        /\ UNCHANGED crashed
     \/ /\ Covers(c, a, 2 * cost)
        /\ Decrease(c, a, 2 * cost)
        /\ crashed' = "broadcast"
  /\ UNCHANGED <<name, put, got, info, Unsent>>

Cost(quantity, price) == (price * quantity) % WORD

\* there is never an order to cancel
Cancel(c) ==
  /\ Receives(c, "payload") /\ LoggedIn(c)
  /\ GoesTo(c, "nack")
  /\ UNCHANGED <<accounts, info, crashed, Unsent>>

\* At end of file rio_readn returns 0, which is taken for a packet: the header
\* of the last one is used again, and fails only if it announces a payload.
ReplayEmpty(c) ==
  /\ At(c, "recv") /\ ended[c]
  /\ last[c] = "empty" /\ LoggedIn(c)
  /\ answered[c] < asked[c] + MaxReplays
  /\ Ack(c, TRUE)
  /\ UNCHANGED <<accounts, last, crashed, asked, Unsent>>

-----------------------------------------------------------------------------
(* Sending: proto_send_packet on the shared header.                        *)

Swap(size) ==
  CASE size = "status"  -> "swapped"
    [] size = "swapped" -> "status"
    [] OTHER            -> size

\* a write to a client that has gone is answered with a reset, the next one
\* raises SIGPIPE
Write(c) ==
  /\ peer' = [peer EXCEPT ![c] = IF @ = "closed" THEN "reset" ELSE @]
  /\ crashed' = IF peer[c] = "reset" THEN "sigpipe" ELSE crashed

SetSize(c) ==
  /\ At(c, "set")
  /\ ack_size' = IF info[c] THEN "status" ELSE "zero"
  /\ GoesTo(c, "read")
  /\ UNCHANGED <<accounts, socket, info, p_size, loaded, wire, last, crashed,
                 asked, answered>>

ReadSize(c) ==
  /\ At(c, "read")
  /\ p_size' = [p_size EXCEPT ![c] = ack_size]
  /\ GoesTo(c, "load")
  /\ UNCHANGED <<accounts, socket, info, ack_size, loaded, wire, last, crashed,
                 asked, answered>>

LoadSize(c) ==
  /\ At(c, "load")
  /\ loaded' = [loaded EXCEPT ![c] = ack_size]
  /\ GoesTo(c, "store")
  /\ UNCHANGED <<accounts, socket, info, ack_size, p_size, wire, last, crashed,
                 asked, answered>>

StoreSize(c) ==
  /\ At(c, "store")
  /\ ack_size' = Swap(loaded[c])
  /\ GoesTo(c, "header")
  /\ UNCHANGED <<accounts, socket, info, p_size, loaded, wire, last, crashed,
                 asked, answered>>

SendHeader(c) ==
  /\ At(c, "header")
  /\ wire' = [wire EXCEPT ![c] = Swap(ack_size)]
  /\ answered' = [answered EXCEPT ![c] = @ + 1]
  /\ Write(c)
  /\ GoesTo(c, "payload")
  /\ UNCHANGED <<accounts, ended, info, ack_size, p_size, loaded, last, asked>>

SendPayload(c) ==
  /\ At(c, "payload")
  /\ IF p_size[c] = "zero" THEN UNCHANGED <<peer, crashed>> ELSE Write(c)
  /\ GoesTo(c, "recv")
  /\ UNCHANGED <<accounts, header, ended, last, asked, answered>>

SendNack_Never(c) ==
  /\ At(c, "nack")
  /\ GoesTo(c, "recv")
  /\ UNCHANGED <<accounts, header, socket, crashed, last, asked, answered>>

\* nack_pkt has no payload, in either byte order
SendNack(c) ==
  /\ At(c, "nack")
  /\ answered' = [answered EXCEPT ![c] = @ + 1]
  /\ Write(c)
  /\ GoesTo(c, "recv")
  /\ UNCHANGED <<accounts, header, ended, last, asked>>

Send(c) ==
  \/ SetSize(c) \/ ReadSize(c) \/ LoadSize(c) \/ StoreSize(c)
  \/ SendHeader(c) \/ SendPayload(c) \/ SendNack(c)

-----------------------------------------------------------------------------
\* the client closes, or the server shuts its read side down
EndOfInput(c) ==
  /\ crashed = "no" /\ ~ended[c]
  /\ ended' = [ended EXCEPT ![c] = TRUE]
  /\ peer' \in {peer, [peer EXCEPT ![c] = "closed"]}
  /\ UNCHANGED <<accounts, header, at, last, crashed, asked, answered>>

\* the loop turns without effect, or the process is gone
Spin(c) == (At(c, "recv") \/ crashed # "no") /\ UNCHANGED serviceVars

ServiceInit ==
  /\ name = [c \in Services |-> NoName]
  /\ account = [c \in Services |-> [a \in Assets |-> 0]]
  /\ put = account /\ got = account
  /\ at = [c \in Services |-> "recv"]
  /\ last = [c \in Services |-> "none"]
  /\ info = [c \in Services |-> FALSE]
  /\ ack_size = "zero"
  /\ p_size = [c \in Services |-> "zero"]
  /\ loaded = [c \in Services |-> "zero"]
  /\ wire = [c \in Services |-> "zero"]
  /\ peer = [c \in Services |-> "open"]
  /\ ended = [c \in Services |-> FALSE]
  /\ crashed = "no"
  /\ asked = [c \in Services |-> 0]
  /\ answered = [c \in Services |-> 0]

ServiceNext ==
  \E c \in Services :
    \/ \E who \in Names : Login(c, who)
    \/ \E kind \in {"empty", "payload"} : Ignored(c, kind)
    \/ Status(c)
    \/ \E a \in Assets, n \in Amounts : PayIn(c, a, n) \/ PayOut(c, a, n)
    \/ \E n, price \in Amounts : PostOrder(c, "balance", Cost(n, price))
    \/ \E n \in Amounts : PostOrder(c, "inventory", n)
    \/ Cancel(c)
    \/ ReplayEmpty(c) \/ Send(c) \/ EndOfInput(c) \/ Spin(c)

ServiceSpec == ServiceInit /\ [][ServiceNext]_serviceVars

-----------------------------------------------------------------------------
(* Properties.                                                             *)

ServiceTypeOK ==
  /\ name \in [Services -> Names \cup {NoName}]
  /\ account \in [Services -> [Assets -> 0 .. WORD - 1]]
  /\ at \in [Services -> {"recv", "set", "read", "load", "store", "header",
                       "payload", "nack"}]
  /\ last \in [Services -> {"none", "empty", "payload"}]
  /\ info \in [Services -> BOOLEAN]
  /\ ack_size \in Sizes
  /\ p_size \in [Services -> Sizes]
  /\ loaded \in [Services -> Sizes]
  /\ wire \in [Services -> Sizes]
  /\ peer \in [Services -> {"open", "closed", "reset"}]
  /\ ended \in [Services -> BOOLEAN]
  /\ crashed \in {"no", "sigpipe", "broadcast"}
  /\ asked \in [Services -> 0 .. MaxRequests]
  /\ answered \in [Services -> 0 .. MaxRequests + MaxReplays]
  /\ put \in [Services -> [Assets -> Nat]]
  /\ got \in [Services -> [Assets -> Nat]]

\* Nothing comes from nothing: what a trader has and has been paid out never
\* exceeds what was paid in, though accounts wrap and orders take twice.
AccountsAreCovered ==
  \A c \in Services, a \in Assets : account[c][a] + got[c][a] <= put[c][a]

\* While the connection is up each request honoured is answered exactly once,
\* whichever branch of the loop it takes.
OneAnswerEach ==
  \A c \in Services : At(c, "recv") /\ ~ended[c] => answered[c] = asked[c]

-----------------------------------------------------------------------------
(* What the documentation says and the code does not do.                   *)

\* protocol.h:25: the header is followed by a payload whose length it says,
\* of an acknowledgement sent while other threads send theirs.
WellFramed ==
  \A c \in Services : At(c, "payload") =>
    wire[c] = p_size[c] /\ p_size[c] = IF info[c] THEN "status" ELSE "zero"

\* server.h:39: the service loop ends at end of file, so nobody is answered
\* more often than asked.
AnswersAreAsked == \A c \in Services : answered[c] <= asked[c]

\* server.h:39: the end of a connection ends its service loop, not the server.
HangupIsLocal == crashed # "sigpipe"

\* trader.h:124: a packet is broadcast to all currently logged-in traders.
BroadcastWorks == crashed # "broadcast"

\* trader.h:58: a login fails if the user name is already logged in.
OneSessionPerName ==
  \A c, d \in Services : LoggedIn(c) /\ name[c] = name[d] => c = d

\* protocol.h:58: NACK is the answer to a request that failed, so only what is
\* acknowledged changes an account.
NackHasNoEffect ==
  crashed = "no" => \A c \in Services, a \in Assets :
    account[c][a] = (put[c][a] - got[c][a]) % WORD

=============================================================================
