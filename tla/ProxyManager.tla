---------------------------- MODULE ProxyManager ----------------------------
(* The proxies behind annotated Services and Pods: a map from keys to handles *)
(* under one RwLock, and the listeners that those handles can shut down. The  *)
(* callers are the reconciles of the annotation watchers. They run at once,   *)
(* and ensure_proxy takes the lock three times, so a step here is one lock    *)
(* section, or the bind between two of them.                                  *)
(*                                                                            *)
(* A channel stands for the watch channel between a handle and its listener.  *)
(* A handle that is dropped ends its listener too: its sender goes with it.   *)
CONSTANTS
    Callers,    \* the reconciles that may run at once
    Keys,       \* names of the PortMappings that the proxies belong to
    Targets,    \* <address, port, protocol> triples inside the cluster
    Ports,      \* <port, protocol> pairs of this host
    Channels,   \* identities of watch channels
    Uses,       \* Uses[c]: the keys c works on
    MayDie,     \* a listener may end by itself: accept() or recv_from() fails
    None        \* no handle, no listener, no target

Handle == [chan: Channels, port: Ports, target: Targets]

Listener == [port: Ports, target: Targets, told: BOOLEAN]

Steps == {"check", "stop", "bind", "insert"}

ActiveCall == [pc: Steps, key: Keys, target: Targets \cup {None}, handle: Handle \cup {None}]

ASSUME ProxyAssumption ==
    /\ Uses \in [Callers -> SUBSET Keys]
    /\ MayDie \in BOOLEAN
    /\ None \notin Handle \cup Listener \cup Targets \cup ActiveCall

VARIABLES
    proxies,   \* the map of the ProxyManager
    listener,  \* the listening task at the other end of a channel
    died,      \* channels whose listener ended by itself
    call,      \* the call each caller is in, None between calls
    promised   \* promised[k]: the handle that the last call for k to return
               \* stands for, None if it stopped the proxy or failed

vars == <<proxies, listener, died, call, promised>>

Init ==
    /\ proxies = [k \in Keys |-> None]
    /\ listener = [ch \in Channels |-> None]
    /\ died = {}
    /\ call = [c \in Callers |-> None]
    /\ promised = [k \in Keys |-> None]

At(c, step) == call[c] # None /\ call[c].pc = step

GoTo(c, step, h) == call' = [call EXCEPT ![c] = [@ EXCEPT !.pc = step, !.handle = h]]

Return(c, h) ==
    /\ call' = [call EXCEPT ![c] = None]
    /\ promised' = [promised EXCEPT ![call[c].key] = h]

-----------------------------------------------------------------------------
\* A caller asks for a proxy, or to stop one.
Call(c) ==
    /\ call[c] = None
    /\ \E k \in Uses[c] :
          \/ \E t \in Targets :
                call' = [call EXCEPT ![c] =
                    [pc |-> "check", key |-> k, target |-> t, handle |-> None]]
          \/ call' = [call EXCEPT ![c] =
                [pc |-> "stop", key |-> k, target |-> None, handle |-> None]]
    /\ UNCHANGED <<proxies, listener, died, promised>>

\* Mutant: answers with the proxy that runs whatever its target.
CheckRunning_AnyTarget(c) ==
    /\ At(c, "check")
    /\ LET h == proxies[call[c].key] IN
          IF h # None
          THEN Return(c, [h EXCEPT !.target = call[c].target])
          ELSE GoTo(c, "stop", None) /\ UNCHANGED promised
    /\ UNCHANGED <<proxies, listener, died>>

\* Under the read lock: the proxy that runs may be the one that is wanted.
CheckRunning(c) ==
    /\ At(c, "check")
    /\ LET h == proxies[call[c].key] IN
          IF h # None /\ h.target = call[c].target
          THEN Return(c, h)
          ELSE GoTo(c, "stop", None) /\ UNCHANGED promised
    /\ UNCHANGED <<proxies, listener, died>>

\* The listener of h, if it has not ended, sees shutdown.changed().
Tell(h) == listener' = [ch \in Channels |->
    IF h # None /\ ch = h.chan /\ listener[ch] # None
    THEN [listener[ch] EXCEPT !.told = TRUE] ELSE listener[ch]]

\* Mutant: tells the listener and keeps its handle.
RemoveHandle_KeepsHandle(c) ==
    /\ At(c, "stop")
    /\ Tell(proxies[call[c].key])
    /\ IF call[c].target = None
       THEN Return(c, None)
       ELSE GoTo(c, "bind", None) /\ UNCHANGED promised
    /\ UNCHANGED <<proxies, died>>

\* stop_proxy under the write lock, called from outside or from ensure_proxy.
RemoveHandle(c) ==
    /\ At(c, "stop")
    /\ Tell(proxies[call[c].key])
    /\ proxies' = [proxies EXCEPT ![call[c].key] = None]
    /\ IF call[c].target = None
       THEN Return(c, None)
       ELSE GoTo(c, "bind", None) /\ UNCHANGED promised
    /\ UNCHANGED died

PortIsFree(p) == \A ch \in Channels : listener[ch] # None => listener[ch].port # p

\* Nobody refers to channel ch.
IsFresh(ch) ==
    /\ listener[ch] = None
    /\ \A k \in Keys : \A h \in {proxies[k], promised[k]} : h # None => h.chan # ch
    /\ \A c \in Callers :
          call[c] # None /\ call[c].handle # None => call[c].handle.chan # ch

\* Mutant: keeps the port it asked the system for, 0, not the one it got.
Bind_PortAsked(c) ==
    /\ At(c, "bind")
    /\ \E p \in Ports, ch \in Channels :
          /\ PortIsFree(p)
          /\ IsFresh(ch)
          /\ listener' = [listener EXCEPT ![ch] =
                [port |-> p, target |-> call[c].target, told |-> FALSE]]
          /\ died' = died \ {ch}
          /\ GoTo(c, "insert", [chan |-> ch, port |-> None, target |-> call[c].target])
    /\ UNCHANGED <<proxies, promised>>

\* Without the lock: the system picks a port and the listening task starts.
\* There may be no port or no file descriptor left.
Bind(c) ==
    /\ At(c, "bind")
    /\ \/ \E p \in Ports, ch \in Channels :
             /\ PortIsFree(p)
             /\ IsFresh(ch)
             /\ listener' = [listener EXCEPT ![ch] =
                   [port |-> p, target |-> call[c].target, told |-> FALSE]]
             /\ died' = died \ {ch}
             /\ GoTo(c, "insert", [chan |-> ch, port |-> p, target |-> call[c].target])
             /\ UNCHANGED promised
       \/ Return(c, None) /\ UNCHANGED <<listener, died>>
    /\ UNCHANGED proxies

\* Mutant: the sender of a handle that is overwritten outlives it.
InsertHandle_KeepsSender(c) ==
    /\ At(c, "insert")
    /\ proxies' = [proxies EXCEPT ![call[c].key] = call[c].handle]
    /\ Return(c, call[c].handle)
    /\ UNCHANGED <<listener, died>>

\* Under the write lock. Another caller may have inserted a handle for the key
\* since: it is overwritten, and dropped.
InsertHandle(c) ==
    /\ At(c, "insert")
    /\ Tell(proxies[call[c].key])
    /\ proxies' = [proxies EXCEPT ![call[c].key] = call[c].handle]
    /\ Return(c, call[c].handle)
    /\ UNCHANGED died

\* The loop of run_tcp_proxy or run_udp_proxy breaks on the shutdown signal.
\* The port is free again.
EndListener(ch) ==
    /\ listener[ch] # None
    /\ listener[ch].told
    /\ listener' = [listener EXCEPT ![ch] = None]
    /\ UNCHANGED <<proxies, died, call, promised>>

\* The loop breaks on an error of accept() or recv_from(). Nobody is told.
ListenerDies(ch) ==
    /\ MayDie
    /\ listener[ch] # None
    /\ ~listener[ch].told
    /\ listener' = [listener EXCEPT ![ch] = None]
    /\ died' = died \cup {ch}
    /\ UNCHANGED <<proxies, call, promised>>

-----------------------------------------------------------------------------
Proceed(c) == CheckRunning(c) \/ RemoveHandle(c) \/ Bind(c) \/ InsertHandle(c)

Next ==
    \/ \E c \in Callers : Call(c) \/ Proceed(c)
    \/ \E ch \in Channels : EndListener(ch) \/ ListenerDies(ch)

Spec == Init /\ [][Next]_vars

-----------------------------------------------------------------------------
\* Every variable stays in its range.
TypeOK ==
    /\ proxies \in [Keys -> Handle \cup {None}]
    /\ listener \in [Channels -> Listener \cup {None}]
    /\ died \subseteq Channels
    /\ call \in [Callers -> ActiveCall \cup {None}]
    /\ promised \in [Keys -> Handle \cup {None}]

Holds(k, ch) == proxies[k] # None /\ proxies[k].chan = ch

IsInserting(c, ch) == At(c, "insert") /\ call[c].handle.chan = ch

\* A listener that goes on has a handle that can stop it, or will have one as
\* soon as its caller has the lock; two concurrent calls for one key leave no
\* listener behind that holds its port and forwards for ever.
NoLeak == \A ch \in Channels :
    listener[ch] # None /\ ~listener[ch].told =>
        \/ \E k \in Keys : Holds(k, ch)
        \/ \E c \in Callers : IsInserting(c, ch)

\* The listener of a handle that is in force runs, forwards from the port of the
\* handle to the target of the handle and was not told to stop.
Runs(h) == listener[h.chan] = [port |-> h.port, target |-> h.target, told |-> FALSE]

\* It can only have ended by an error: nobody stopped it.
Fits(h) == Runs(h) \/ h.chan \in died

\* No two handles share a listener, and each has its own running as it says,
\* unless that one died of an error: no sequence of calls and races stops the
\* listener of a handle that stays, or leaves it with another's port or target.
HandlesFit ==
    /\ \A k \in Keys : proxies[k] # None => Fits(proxies[k])
    /\ \A k, j \in Keys : k # j /\ proxies[k] # None => ~Holds(j, proxies[k].chan)

\* c is the only caller that works on key k.
Sole(c, k) == \A d \in Callers : k \in Uses[d] => d = c

\* The port that ensure_proxy returned leads to the target it was asked for
\* until the caller that owns the key calls again or the listener dies of an
\* error: no other caller, whatever it does between the lock sections of this
\* one, takes the listener away or gives the port to another target. (Once the
\* listener has died the port leads nowhere, or to whoever got it next, and the
\* map does not show it: EnsuredIsRunning.)
PromiseKept == \A c \in Callers : \A k \in Uses[c] :
    Sole(c, k) /\ (call[c] # None => call[c].key # k) /\ promised[k] # None =>
        /\ proxies[k] = promised[k]
        /\ Runs(promised[k]) \/ promised[k].chan \in died

\* "Ensure a proxy is running for the given key, targeting the given address.
\* Returns the local port the proxy is listening on." The answer of a call that
\* has just returned is the port of a listener.
EnsuredIsRunning ==
    [][\A c \in Callers : At(c, "check") /\ call'[c] = None =>
          listener[promised'[call[c].key].chan] # None]_vars
=============================================================================
