---------------------------- MODULE MCForwarding ----------------------------
EXTENDS Forwarding

CONSTANTS k1, k2, s1, s2, i1, i2

\* Each PortMapping of the annotated object has an external port of its own.
WantsOwn == [n \in Names |-> IF n = k1 THEN {s1} ELSE {s2}]

Asking(wants, ip) == [isPod |-> FALSE, wants |-> wants, ip |-> ip]

\* A Service that moves, and loses its annotation.
ObjectsOne == {Asking({k1}, i1), Asking({k1}, i2), Asking(None, i1)}

\* One that asks for all its ports and is left alone.
ObjectsAll == {Asking(Names, i1)}
=============================================================================
