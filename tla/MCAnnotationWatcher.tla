------------------------ MODULE MCAnnotationWatcher ------------------------
(* A behaviour is one of the watchers or one of the parser. What an          *)
(* annotation asks for is a set of names to the watchers.                    *)
EXTENDS AnnotationWatcher, AnnotationParse

CONSTANTS k1, k2, i1, i2

VARIABLE part

allVars == <<vars, parseVars, part>>

Version(isPod, wants, ip) == [isPod |-> isPod, wants |-> wants, ip |-> ip]

FirstObject == Version(FALSE, {k1}, i1)

PartsInit ==
    /\ Init
    /\ ParseInit
    /\ \/ part = "rounds" /\ value = AllPorts
       \/ part = "parser" /\ Current = FirstObject

PartsNext ==
    /\ UNCHANGED part
    /\ \/ part = "rounds" /\ Next /\ UNCHANGED parseVars
       \/ part = "parser" /\ ParseNext /\ UNCHANGED vars

PartsSpec == PartsInit /\ [][PartsNext]_allVars /\ Fairness

\* The texts of annotations: two ports, a number that would be one of them if
\* it wrapped, a word.
TextsSmall == {80, 443, 65616, Word}

\* A Service that gains, loses and swaps ports, moves, loses its ClusterIP, its
\* matching ports and its annotation; a Pod that waits for its address.
ObjectsSmall == {
    FirstObject,
    Version(FALSE, {k1, k2}, i2), Version(FALSE, {k2}, i1),
    Version(FALSE, {k2}, None), Version(FALSE, {}, i1), Version(FALSE, None, i1),
    Version(TRUE, {k1}, None), Version(TRUE, {k1}, i1)}
=============================================================================
