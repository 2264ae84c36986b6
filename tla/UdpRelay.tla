------------------------------ MODULE UdpRelay ------------------------------
(* run_udp_proxy: the loop that receives the datagrams of all clients of one  *)
(* proxy, the map from clients to upstream sockets under a Mutex, and the     *)
(* task behind each socket that carries the answers back and ends when the    *)
(* client has been idle for 60 s. The loop and the tasks run at once.         *)
(*                                                                            *)
(* Covered: a target that is no address, sockets that cannot be bound,        *)
(* datagrams that are lost or cannot be sent, datagrams that nobody asked     *)
(* for, errors of the listening socket, the shutdown signal. Assumed: the     *)
(* loop forwards a datagram and the target answers it in less than 60 s, and  *)
(* the system does not give the port of a closed socket away while an answer  *)
(* to it is on its way.                                                       *)
EXTENDS Naturals

CONSTANTS
    Clients,       \* addresses outside
    Sockets,       \* upstream sockets
    MaxUdpFaults,  \* bound: lost datagrams and failed calls
    NoSocket,      \* no entry in the map
    NoRelay,       \* no task reads the socket
    NoDatagram     \* the loop is between two datagrams

\* The task of a socket: "old" when its 60 s are nearly over.
Relay == [client: Clients, pc: {"receive", "old", "leave"}]
Datagram == [client: Clients, sock: Sockets]

ASSUME UdpAssumption ==
    /\ MaxUdpFaults \in Nat
    /\ NoSocket \notin Sockets
    /\ NoRelay \notin Relay
    /\ NoDatagram \notin Datagram

VARIABLES
    loop,     \* the receiving loop: "runs" or "ended"
    hand,     \* the datagram the loop is about to forward, and through which socket
    clients,  \* the map
    relay,    \* the tasks
    inbox,    \* clients that have a datagram in the listening socket
    asked,    \* sockets through which the target has been asked
    answers,  \* sockets in which an answer is waiting
    waiting,  \* clients that wait for an answer
    quiet,    \* nobody sends unasked any more
    parses,   \* the target is an address
    told,     \* the shutdown signal was given
    udpFaults

udpVars == <<loop, hand, clients, relay, inbox, asked, answers, waiting, quiet, parses,
             told, udpFaults>>

UdpInit ==
    /\ loop = "runs"
    /\ hand = NoDatagram
    /\ clients = [c \in Clients |-> NoSocket]
    /\ relay = [s \in Sockets |-> NoRelay]
    /\ inbox = {}
    /\ asked = {}
    /\ answers = {}
    /\ waiting = {}
    /\ quiet = FALSE
    /\ parses \in BOOLEAN
    /\ told = FALSE
    /\ udpFaults = 0

UdpFault == udpFaults < MaxUdpFaults /\ udpFaults' = udpFaults + 1

-----------------------------------------------------------------------------
(* Clients, network and target.                                              *)

\* A client asks, and asks again while it has no answer.
Send(c) ==
    /\ c \notin inbox
    /\ inbox' = inbox \cup {c}
    /\ waiting' = waiting \cup {c}
    /\ UNCHANGED <<loop, hand, clients, relay, asked, answers, quiet, parses, told, udpFaults>>

\* The answer finds the socket open, or is lost.
TargetAnswers(s) ==
    /\ s \in asked
    /\ asked' = asked \ {s}
    /\ answers' = IF relay[s] = NoRelay THEN answers ELSE answers \cup {s}
    /\ UNCHANGED <<loop, hand, clients, relay, inbox, waiting, quiet, parses, told, udpFaults>>

\* The target, and everybody else, sends no more than it is asked for.
FallsQuiet ==
    /\ ~quiet
    /\ quiet' = TRUE
    /\ UNCHANGED <<loop, hand, clients, relay, inbox, asked, answers, waiting, parses, told, udpFaults>>

DatagramIsLost ==
    /\ UdpFault
    /\ \/ \E c \in inbox : inbox' = inbox \ {c} /\ UNCHANGED asked
       \/ \E s \in asked : asked' = asked \ {s} /\ UNCHANGED inbox
    /\ UNCHANGED <<loop, hand, clients, relay, answers, waiting, quiet, parses, told>>

\* stop_proxy, or the handle is dropped.
Shutdown ==
    /\ ~told
    /\ told' = TRUE
    /\ UNCHANGED <<loop, hand, clients, relay, inbox, asked, answers, waiting, quiet, parses, udpFaults>>

-----------------------------------------------------------------------------
(* The loop.                                                                 *)

Receiving == loop = "runs" /\ hand = NoDatagram

TakesSocket(c, s) == hand' = [client |-> c, sock |-> s]

\* Mutant: puts the socket into the map and starts no task for it.
NewClient_NoTask(c) ==
    \E s \in Sockets :
        /\ relay[s] = NoRelay /\ s \notin asked
        /\ clients' = [clients EXCEPT ![c] = s]
        /\ TakesSocket(c, s)
        /\ UNCHANGED <<relay, udpFaults>>

\* Under the lock: a new socket, its entry and its task. Without a socket the
\* datagram is dropped.
NewClient(c) ==
    \/ \E s \in Sockets :
          /\ relay[s] = NoRelay
          /\ s \notin asked
          /\ clients' = [clients EXCEPT ![c] = s]
          /\ relay' = [relay EXCEPT ![s] = [client |-> c, pc |-> "receive"]]
          /\ TakesSocket(c, s)
          /\ UNCHANGED udpFaults
    \/ /\ UdpFault
       /\ UNCHANGED <<hand, clients, relay>>

\* recv_from, and the client's socket under the lock. A target that is no
\* address costs the datagram.
Receive(c) ==
    /\ Receiving
    /\ c \in inbox
    /\ inbox' = inbox \ {c}
    /\ \/ /\ ~parses
          /\ UNCHANGED <<hand, clients, relay, udpFaults>>
       \/ /\ parses
          /\ clients[c] # NoSocket
          /\ TakesSocket(c, clients[c])
          /\ UNCHANGED <<clients, relay, udpFaults>>
       \/ /\ parses
          /\ clients[c] = NoSocket
          /\ NewClient(c)
    /\ UNCHANGED <<loop, asked, answers, waiting, quiet, parses, told>>

\* Without the lock: the task of the socket may have left meanwhile. The
\* socket is open all the same, since the loop holds it.
Forward ==
    /\ loop = "runs"
    /\ hand # NoDatagram
    /\ \/ asked' = asked \cup {hand.sock} /\ UNCHANGED udpFaults
       \/ UdpFault /\ UNCHANGED asked
    /\ hand' = NoDatagram
    /\ UNCHANGED <<loop, clients, relay, inbox, answers, waiting, quiet, parses, told>>

\* The loop looks at the shutdown signal between two datagrams only.
LoopEnds ==
    /\ Receiving
    /\ told
    /\ loop' = "ended"
    /\ UNCHANGED <<hand, clients, relay, inbox, asked, answers, waiting, quiet, parses, told, udpFaults>>

\* recv_from fails.
LoopFails ==
    /\ Receiving
    /\ UdpFault
    /\ loop' = "ended"
    /\ UNCHANGED <<hand, clients, relay, inbox, asked, answers, waiting, quiet, parses, told>>

-----------------------------------------------------------------------------
(* The task of a socket. It outlives the loop.                               *)

RelayAt(s, step) == relay[s] # NoRelay /\ relay[s].pc = step
Turns(s, step) == relay' = [relay EXCEPT ![s].pc = step]

Reading(s) == RelayAt(s, "receive") \/ RelayAt(s, "old")

\* An answer goes to the client, and the 60 s begin again. If it cannot be
\* sent, the task leaves.
CarryBack(s) ==
    /\ Reading(s)
    /\ s \in answers
    /\ answers' = answers \ {s}
    /\ \/ /\ waiting' = waiting \ {relay[s].client}
          /\ Turns(s, "receive")
          /\ UNCHANGED udpFaults
       \/ /\ UdpFault
          /\ Turns(s, "leave")
          /\ UNCHANGED waiting
    /\ UNCHANGED <<loop, hand, clients, inbox, asked, quiet, parses, told>>

\* So does what the target, or anybody else, sends unasked: recv_from takes it
\* from everyone, and at once.
CarryUnasked(s) ==
    /\ ~quiet
    /\ Reading(s)
    /\ Turns(s, "receive")
    /\ UNCHANGED <<loop, hand, clients, inbox, asked, answers, waiting, quiet, parses, told, udpFaults>>

\* recv_from fails, or what nobody asked for cannot be sent on.
TaskFails(s) ==
    /\ Reading(s)
    /\ UdpFault
    /\ Turns(s, "leave")
    /\ UNCHANGED <<loop, hand, clients, inbox, asked, answers, waiting, quiet, parses, told>>

\* Nearly 60 s have gone by, with nothing to forward and nothing to carry back.
GrowsOld(s) ==
    /\ RelayAt(s, "receive")
    /\ s \notin asked \cup answers
    /\ hand # NoDatagram => hand.sock # s
    /\ Turns(s, "old")
    /\ UNCHANGED <<loop, hand, clients, inbox, asked, answers, waiting, quiet, parses, told, udpFaults>>

\* Mutant: goes on waiting after the timeout.
IdleTooLong_GoesOn(s) ==
    /\ RelayAt(s, "old")
    /\ s \notin answers
    /\ Turns(s, "receive")
    /\ UNCHANGED <<loop, hand, clients, inbox, asked, answers, waiting, quiet, parses, told, udpFaults>>

\* The timeout. It counts from the last datagram that came in: the loop may hold
\* the socket for one just now, or may have forwarded one.
IdleTooLong(s) ==
    /\ RelayAt(s, "old")
    /\ s \notin answers
    /\ Turns(s, "leave")
    /\ UNCHANGED <<loop, hand, clients, inbox, asked, answers, waiting, quiet, parses, told, udpFaults>>

\* Mutant: the entry of the client stays in the map.
RemoveEntry_Keeps(s) ==
    /\ RelayAt(s, "leave")
    /\ relay' = [relay EXCEPT ![s] = NoRelay]
    /\ answers' = answers \ {s}
    /\ UNCHANGED <<loop, hand, clients, inbox, asked, waiting, quiet, parses, told, udpFaults>>

\* Under the lock, by the address of the client; then the task is over, and
\* what is left in the socket is lost.
RemoveEntry(s) ==
    /\ RelayAt(s, "leave")
    /\ clients' = [clients EXCEPT ![relay[s].client] = NoSocket]
    /\ relay' = [relay EXCEPT ![s] = NoRelay]
    /\ answers' = answers \ {s}
    /\ UNCHANGED <<loop, hand, inbox, asked, waiting, quiet, parses, told, udpFaults>>

-----------------------------------------------------------------------------
Loop == (\E c \in Clients : Receive(c)) \/ Forward
Task(s) == CarryBack(s) \/ GrowsOld(s) \/ IdleTooLong(s) \/ RemoveEntry(s)

UdpNext ==
    \/ \E c \in Clients : Send(c)
    \/ \E s \in Sockets : TargetAnswers(s) \/ CarryUnasked(s) \/ TaskFails(s) \/ Task(s)
    \/ FallsQuiet
    \/ DatagramIsLost
    \/ Shutdown
    \/ Loop
    \/ LoopEnds
    \/ LoopFails

UdpSpec == UdpInit /\ [][UdpNext]_udpVars

\* The runtime polls the loop and the tasks; select! picks a branch that is
\* ready at random, so no datagrams keep the shutdown signal out for ever. The
\* target answers, and clients that wait ask again.
UdpFairness ==
    /\ WF_udpVars(Forward)
    /\ SF_udpVars(LoopEnds)
    /\ \A c \in Clients : SF_udpVars(Receive(c)) /\ WF_udpVars(c \in waiting /\ Send(c))
    /\ \A s \in Sockets : WF_udpVars(TargetAnswers(s)) /\ WF_udpVars(Task(s))

-----------------------------------------------------------------------------
\* Every variable stays in its range.
UdpTypeOK ==
    /\ loop \in {"runs", "ended"}
    /\ hand \in Datagram \cup {NoDatagram}
    /\ clients \in [Clients -> Sockets \cup {NoSocket}]
    /\ relay \in [Sockets -> Relay \cup {NoRelay}]
    /\ inbox \subseteq Clients
    /\ asked \subseteq Sockets
    /\ answers \subseteq Sockets
    /\ waiting \subseteq Clients
    /\ quiet \in BOOLEAN
    /\ parses \in BOOLEAN
    /\ told \in BOOLEAN
    /\ udpFaults \in 0..MaxUdpFaults

\* The map and the tasks agree: the socket of a client is read by a task of
\* that client, and a task that is not over has the client's entry. So no
\* client has two tasks, and the task that removes an entry by the address of
\* its client never removes the socket of a later task.
EntriesAreServed ==
    /\ \A c \in Clients : clients[c] # NoSocket =>
          relay[clients[c]] # NoRelay /\ relay[clients[c]].client = c
    /\ \A s \in Sockets : relay[s] # NoRelay => clients[relay[s].client] = s

\* A client that repeats its datagram gets an answer, if the target is an
\* address: that an idle task leaves while its socket is handed out once more
\* costs a datagram, not the client.
ClientsAreAnswered == \A c \in Clients :
    c \in waiting ~> c \notin waiting \/ loop = "ended" \/ ~parses

IsReleased == loop = "ended" /\ \A s \in Sockets : relay[s] = NoRelay

\* A proxy that was told to stop gives its port back, which its tasks hold as
\* well as its loop, once nobody talks to its upstream sockets unasked: none of
\* the tasks goes on for ever by itself. (One whose target sends unasked does:
\* what it relays starts its 60 s again.)
PortIsReleased == told /\ quiet ~> IsReleased
=============================================================================
