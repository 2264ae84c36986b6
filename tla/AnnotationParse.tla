--------------------------- MODULE AnnotationParse ---------------------------
(* parse_service_annotation, parse_pod_annotation and parse_port_list: from   *)
(* the value of the annotation and the ports of the object to the list of     *)
(* (external port, internal port, protocol). The two parsers differ in the    *)
(* type of the port they are given only.                                      *)
(*                                                                            *)
(* The value is AllPorts, for "true", or the sequence of its parts between    *)
(* commas. A part is the sequence of its texts: none when it is blank, two    *)
(* when there is a colon. A text is a number, or Word for what is none.       *)
EXTENDS Naturals, Sequences, SequencesExt

CONSTANTS
    AllPorts,     \* the annotation "true"
    Word,         \* a text that is no number
    Texts,        \* bound: the texts of parts
    PortNumbers,  \* bound: the ports an object may have
    MaxPorts,     \* bound: how many of them
    MaxParts      \* bound: the parts of an annotation

MaxU16 == 65535
U16 == 0..MaxU16

\* Kubernetes admits the ports of a u16 only.
ASSUME ParseAssumption ==
    /\ PortNumbers \subseteq U16
    /\ \A text \in Texts : text = Word \/ text \in Nat
    /\ Word \notin Nat

VARIABLES
    value,  \* the annotation of an object
    ports   \* its ports

parseVars == <<value, ports>>

K8sProtocols == {"TCP", "UDP", "SCTP"}
K8sPort == [port: PortNumbers, protocol: K8sProtocols]
Part == UNION {[1..n -> Texts] : n \in 0..2}

\* `as u16`
AsU16(n) == n % (MaxU16 + 1)

\* str::parse::<u16> succeeds: it does not wrap.
IsU16(text) == text # Word /\ text <= MaxU16

Entry(ext, int, proto) == [ext |-> ext, int |-> int, proto |-> proto]

ParseK8sProtocol(protocol) == IF protocol = "UDP" THEN "UDP" ELSE "TCP"

ProtocolIf(p, n) == IF AsU16(p.port) = n THEN <<ParseK8sProtocol(p.protocol)>> ELSE <<>>

\* Mutant: stops at the first port that matches.
LookupProtocols_First(n) ==
    LET hits == {i \in DOMAIN ports : AsU16(ports[i].port) = n}
        first == CHOOSE i \in hits : \A j \in hits : i <= j
    IN  IF hits = {} THEN <<>> ELSE ProtocolIf(ports[first], n)

\* All protocols of a port number.
LookupProtocols(n) == FlattenSeq([i \in DOMAIN ports |-> ProtocolIf(ports[i], n)])

\* A remapped port that the object does not have is taken for TCP, a port that
\* it does not have is left out, and so is what cannot be parsed.
ParsePart(part) ==
    LET n == Len(part)
        protocols == LookupProtocols(part[n])
    IN  IF n = 0 \/ \E i \in 1..n : ~IsU16(part[i]) THEN <<>>
        ELSE IF n = 2 /\ protocols = <<>> THEN <<Entry(part[1], part[2], "TCP")>>
        ELSE [i \in DOMAIN protocols |-> Entry(part[1], part[n], protocols[i])]

ParsePortList == FlattenSeq([i \in DOMAIN value |-> ParsePart(value[i])])

ParseAnnotation ==
    IF value = AllPorts
    THEN [i \in DOMAIN ports |->
            Entry(AsU16(ports[i].port), AsU16(ports[i].port), ParseK8sProtocol(ports[i].protocol))]
    ELSE ParsePortList

-----------------------------------------------------------------------------
(* Users write annotations and ports, a piece at a time.                     *)

ParseInit ==
    /\ value \in {AllPorts, <<>>}
    /\ ports = <<>>

AddPart ==
    /\ value # AllPorts
    /\ Len(value) < MaxParts
    /\ \E part \in Part : value' = Append(value, part)
    /\ UNCHANGED ports

AddPort ==
    /\ Len(ports) < MaxPorts
    /\ \E p \in K8sPort : ports' = Append(ports, p)
    /\ UNCHANGED value

ParseNext == AddPart \/ AddPort

ParseSpec == ParseInit /\ [][ParseNext]_parseVars

-----------------------------------------------------------------------------
\* README.md, "Annotation format": all ports of the object; or those named;
\* or those named on the right of a colon, under the port on its left. Each
\* port in all its protocols.
Documented ==
    LET Has(n, proto) == \E p \in ToSet(ports) :
            p.port = n /\ (proto = "UDP" <=> p.protocol = "UDP")
        Protocols(n) == {proto \in {"TCP", "UDP"} : Has(n, proto)}
        Named == {part \in ToSet(value) : part # <<>> /\ ToSet(part) \subseteq U16}
    IN  IF value = AllPorts
        THEN UNION {{Entry(p.port, p.port, proto) : proto \in Protocols(p.port)} : p \in ToSet(ports)}
        ELSE UNION {{Entry(Head(part), Last(part), proto) : proto \in
                        IF Protocols(Last(part)) = {} /\ Len(part) = 2 THEN {"TCP"}
                        ELSE Protocols(Last(part))}
                    : part \in Named}

\* An annotation asks for what the README says, for any mixture of parts that
\* are well formed, malformed, too large for a port and without a port of the
\* object, and for ports that have several protocols.
ParsesAsDocumented == ToSet(ParseAnnotation) = Documented
=============================================================================
