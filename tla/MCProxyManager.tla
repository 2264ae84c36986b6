-------------------------- MODULE MCProxyManager --------------------------
EXTENDS ProxyManager, TLC

CONSTANTS c1, c2, k1, k2, x, y, p1, p2, p3, ch1, ch2, ch3, ch4

\* A Service and a Pod whose PortMappings have one name in common.
UsesShared == (c1 :> {k1, k2}) @@ (c2 :> {k1})

\* One Service, whose PortMappings are its own.
UsesAlone == [c \in Callers |-> Keys]

\* Listeners die only while no call is in progress, so that an answer that is
\* wrong was wrong all the time the call took.
DeathBetweenCallsSpec ==
    Init /\ [][Next /\ ((\E ch \in Channels : ListenerDies(ch)) => \A c \in Callers : call[c] = None)]_vars

Symmetry == Permutations(Targets) \cup Permutations(Ports) \cup Permutations(Channels)
=============================================================================
