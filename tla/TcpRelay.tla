------------------------------ MODULE TcpRelay ------------------------------
(* run_tcp_proxy and proxy_tcp_connection for one connection: the listener    *)
(* that accepts it, the connection to the target, and the two io::copy that   *)
(* carry what each end sends to the other until the first of them is done.    *)
(* The task of a connection outlives the listener. Chunks stand for bytes.    *)
(*                                                                            *)
(* A copy writes into the socket of the other end and waits when that is      *)
(* full. An end may stop reading, for good, without hanging up.               *)
EXTENDS Naturals

CONSTANTS
    MaxChunks,  \* bound: the chunks an end sends
    Window      \* chunks that a socket takes before its end reads them

ASSUME TcpAssumption == MaxChunks \in Nat /\ Window \in Nat \ {0}

Ends == {"client", "server"}
Other(e) == IF e = "client" THEN "server" ELSE "client"

VARIABLES
    listening,  \* the accept loop runs
    conn,       \* "none", "backlog", "accepted", "open", "closed"
    sent,       \* sent[e]: chunks end e has sent
    carried,    \* carried[e]: those written to the socket of the other end
    taken,      \* taken[e]: those that the other end has read from it
    finished,   \* ends that have shut down their side
    stalled,    \* ends that read no more
    broken      \* a call failed: connect, read or write

tcpVars == <<listening, conn, sent, carried, taken, finished, stalled, broken>>

TcpInit ==
    /\ listening = TRUE
    /\ conn = "none"
    /\ sent = [e \in Ends |-> 0]
    /\ carried = [e \in Ends |-> 0]
    /\ taken = [e \in Ends |-> 0]
    /\ finished = {}
    /\ stalled = {}
    /\ broken = FALSE

-----------------------------------------------------------------------------
\* The ends. The server has a connection once the proxy has connected to it.
Connected(e) == IF e = "client" THEN conn \in {"backlog", "accepted", "open"} ELSE conn = "open"

ClientConnects ==
    /\ listening
    /\ conn = "none"
    /\ conn' = "backlog"
    /\ UNCHANGED <<listening, sent, carried, taken, finished, stalled, broken>>

SendChunk(e) ==
    /\ Connected(e)
    /\ e \notin finished
    /\ sent[e] < MaxChunks
    /\ sent' = [sent EXCEPT ![e] = @ + 1]
    /\ UNCHANGED <<listening, conn, carried, taken, finished, stalled, broken>>

FinishSending(e) ==
    /\ Connected(e)
    /\ e \notin finished
    /\ finished' = finished \cup {e}
    /\ UNCHANGED <<listening, conn, sent, carried, taken, stalled, broken>>

\* End e reads what it was sent.
Take(e) ==
    /\ Connected(e)
    /\ e \notin stalled
    /\ taken[Other(e)] < carried[Other(e)]
    /\ taken' = [taken EXCEPT ![Other(e)] = @ + 1]
    /\ UNCHANGED <<listening, conn, sent, carried, finished, stalled, broken>>

StopReading(e) ==
    /\ Connected(e)
    /\ e \notin stalled
    /\ stalled' = stalled \cup {e}
    /\ UNCHANGED <<listening, conn, sent, carried, taken, finished, broken>>

-----------------------------------------------------------------------------
\* accept(), and a task for the connection.
Accept ==
    /\ listening
    /\ conn = "backlog"
    /\ conn' = "accepted"
    /\ UNCHANGED <<listening, sent, carried, taken, finished, stalled, broken>>

\* The loop breaks, on the shutdown signal or an error of accept(). What nobody
\* has accepted is refused.
StopListening ==
    /\ listening
    /\ listening' = FALSE
    /\ conn' = IF conn = "backlog" THEN "closed" ELSE conn
    /\ broken' = (broken \/ conn = "backlog")
    /\ UNCHANGED <<sent, carried, taken, finished, stalled>>

\* TcpStream::connect; without the target the client is dropped.
ConnectTarget ==
    /\ conn = "accepted"
    /\ \/ conn' = "open" /\ UNCHANGED broken
       \/ conn' = "closed" /\ broken' = TRUE
    /\ UNCHANGED <<listening, sent, carried, taken, finished, stalled>>

\* A turn of the io::copy that reads from e and writes to the other end, whose
\* socket has room.
Copy(e) ==
    /\ conn = "open"
    /\ carried[e] < sent[e]
    /\ carried[e] < taken[e] + Window
    /\ carried' = [carried EXCEPT ![e] = @ + 1]
    /\ UNCHANGED <<listening, conn, sent, taken, finished, stalled, broken>>

\* Mutant: join! in place of select!, the connection waits for both ends.
CopyEnds_Join(e) ==
    /\ conn = "open"
    /\ \A f \in Ends : f \in finished /\ carried[f] = sent[f]
    /\ conn' = "closed"
    /\ UNCHANGED <<listening, sent, carried, taken, finished, stalled, broken>>

\* The io::copy that reads from e has come to the end of the stream and has
\* written all of it. select! drops the other one, and both sockets with it.
CopyEnds(e) ==
    /\ conn = "open"
    /\ e \in finished
    /\ carried[e] = sent[e]
    /\ conn' = "closed"
    /\ UNCHANGED <<listening, sent, carried, taken, finished, stalled, broken>>

CopyFails ==
    /\ conn = "open"
    /\ conn' = "closed"
    /\ broken' = TRUE
    /\ UNCHANGED <<listening, sent, carried, taken, finished, stalled>>

-----------------------------------------------------------------------------
TcpNext ==
    \/ ClientConnects
    \/ \E e \in Ends :
          \/ SendChunk(e) \/ FinishSending(e) \/ Take(e) \/ StopReading(e)
          \/ Copy(e) \/ CopyEnds(e)
    \/ Accept
    \/ StopListening
    \/ ConnectTarget
    \/ CopyFails

TcpSpec == TcpInit /\ [][TcpNext]_tcpVars

\* The runtime polls the loop and the connection. An end reads what has come
\* until it stops reading, and owes nothing else.
TcpFairness ==
    /\ WF_tcpVars(Accept)
    /\ WF_tcpVars(ConnectTarget)
    /\ \A e \in Ends : WF_tcpVars(Copy(e)) /\ WF_tcpVars(CopyEnds(e)) /\ WF_tcpVars(Take(e))

-----------------------------------------------------------------------------
\* An end that hangs up ends the connection, though the listener is gone and
\* the other end never hangs up, as long as the other end goes on reading. (One
\* that does neither holds the connection for ever: the copy waits in its
\* write, and there is no timeout.)
HangUpEnds == \A e \in Ends :
    e \in finished ~> conn = "closed" \/ Other(e) \in stalled
=============================================================================
