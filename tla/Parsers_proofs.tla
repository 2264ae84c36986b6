--------------------------- MODULE Parsers_proofs ---------------------------
(* What the parsers of the annotations and of the router's description make   *)
(* of every input. Both work on sequences of any length: the proofs go by     *)
(* induction over the length, from the well-foundedness of the numbers.       *)
EXTENDS AnnotationParse, Startup, Integers, SequenceTheorems, WellFoundedInduction, TLAPS

-----------------------------------------------------------------------------
(* Induction, and sequences of sequences.                                    *)

\* What holds of 0 and passes from a number to the next holds of all: from the
\* least number of which it would not.
LEMMA NatSetInduction ==
    ASSUME NEW S, 0 \in S, \A n \in Nat : n \in S => n + 1 \in S
    PROVE  Nat \subseteq S
  <1> SUFFICES ASSUME Nat \ S # {} PROVE FALSE
    OBVIOUS
  <1>1. PICK x \in Nat \ S : \A y \in Nat \ S : ~ (<<y, x>> \in OpToRel(<, Nat))
    <2>1. Nat \ S \subseteq Nat
      OBVIOUS
    <2>2. QED
      BY <2>1, NatLessThanWellFounded, WFMin, Zenon
  <1>2. x # 0 /\ x - 1 \in Nat
    OBVIOUS
  <1>3. x - 1 \notin S
    BY <1>2
  <1>4. <<x - 1, x>> \in OpToRel(<, Nat)
    BY <1>2 DEF OpToRel
  <1>5. QED
    BY <1>1, <1>2, <1>3, <1>4

\* f starts at c, and f[i] is what the i-th operation makes of f[i - 1].
Iterates(f, c, ops, m) == f[0] = c /\ \A i \in 1..m : f[i] = ops[i][f[i - 1]]

\* What is defined step by step exists.
LEMMA Recursion ==
    ASSUME NEW X, NEW N \in Nat, NEW c \in X, NEW ops \in [1..N -> [X -> X]]
    PROVE  \E f \in [0..N -> X] : Iterates(f, c, ops, N)
  <1> DEFINE M == {m \in Nat : m <= N => \E f \in [0..m -> X] : Iterates(f, c, ops, m)}
  <1>1. 0 \in M
    <2>1. /\ [i \in 0..0 |-> c] \in [0..0 -> X]
          /\ Iterates([i \in 0..0 |-> c], c, ops, 0)
      BY DEF Iterates
    <2>2. QED
      BY <2>1
  <1>2. ASSUME NEW m \in Nat, m \in M PROVE m + 1 \in M
    <2> SUFFICES ASSUME m + 1 <= N
                 PROVE  \E f \in [0..(m + 1) -> X] : Iterates(f, c, ops, m + 1)
      OBVIOUS
    <2>1. PICK f \in [0..m -> X] : Iterates(f, c, ops, m)
      BY <1>2
    <2> DEFINE g == [i \in 0..(m + 1) |-> IF i = m + 1 THEN ops[m + 1][f[m]] ELSE f[i]]
    <2>2. g \in [0..(m + 1) -> X]
      <3>1. ops[m + 1][f[m]] \in X
        BY <2>1
      <3>2. QED
        BY <2>1, <3>1
    <2>3. Iterates(g, c, ops, m + 1)
      BY <2>1 DEF Iterates
    <2>4. QED
      BY <2>2, <2>3
  <1>3. Nat \subseteq M
    <2> HIDE DEF M
    <2>1. QED
      BY <1>1, <1>2, NatSetInduction
  <1>4. QED
    BY <1>3

\* The same for the numbers up to N.
LEMMA SpanInduction ==
    ASSUME NEW N \in Nat, NEW S, 0 \in S, \A i \in 1..N : i - 1 \in S => i \in S
    PROVE  0..N \subseteq S
  <1> DEFINE T == {i \in Nat : i <= N => i \in S}
  <1>1. 0 \in T
    OBVIOUS
  <1>2. \A i \in Nat : i \in T => i + 1 \in T
    <2> SUFFICES ASSUME NEW i \in Nat, i \in T, i + 1 <= N PROVE i + 1 \in S
      OBVIOUS
    <2>1. i + 1 \in 1..N /\ (i + 1) - 1 = i /\ i \in S
      OBVIOUS
    <2> QED
      BY <2>1
  <1>3. Nat \subseteq T
    <2> HIDE DEF T
    <2> QED
      BY <1>1, <1>2, NatSetInduction
  <1> QED
    BY <1>3

\* A set of positions has a last one.
LEMMA LastOne ==
    ASSUME NEW N \in Nat, NEW S \in SUBSET (1..N), S # {}
    PROVE  \E i \in S : \A j \in S : j <= i
  <1> DEFINE T == {n \in Nat : (\E i \in S : i <= n) => \E i \in S : i <= n /\ \A j \in S : j <= n => j <= i}
  <1>1. 0 \in T
    OBVIOUS
  <1>2. \A n \in Nat : n \in T => n + 1 \in T
    <2> SUFFICES ASSUME NEW n \in Nat, n \in T, NEW k \in S, k <= n + 1
                 PROVE  \E i \in S : i <= n + 1 /\ \A j \in S : j <= n + 1 => j <= i
      OBVIOUS
    <2>1. CASE n + 1 \in S
      BY <2>1
    <2>2. CASE n + 1 \notin S
      <3>1. \A j \in S : j <= n + 1 => j <= n
        BY <2>2
      <3> QED
        BY <3>1
    <2> QED
      BY <2>1, <2>2
  <1>3. N \in T
    <2>1. Nat \subseteq T
      <3> HIDE DEF T
      <3> QED
        BY <1>1, <1>2, NatSetInduction
    <2> QED
      BY <2>1
  <1>4. \A i \in S : i <= N
    OBVIOUS
  <1> QED
    BY <1>3, <1>4

\* Only the empty sequence holds nothing.
LEMMA EmptyToSet ==
    ASSUME NEW S, NEW s \in Seq(S)
    PROVE  s = <<>> <=> ToSet(s) = {}
  <1>1. s = <<>> <=> Len(s) = 0
    BY EmptySeq
  <1>2. Len(s) \in Nat /\ DOMAIN s = 1..Len(s)
    BY LenProperties
  <1>3. ASSUME Len(s) = 0 PROVE ToSet(s) = {}
    <2>1. DOMAIN s = {}
      BY <1>2, <1>3
    <2> QED
      BY <2>1 DEF ToSet
  <1>4. ASSUME Len(s) # 0 PROVE ToSet(s) # {}
    <2>1. 1 \in DOMAIN s
      BY <1>2, <1>4
    <2> QED
      BY <2>1 DEF ToSet
  <1> QED
    BY <1>1, <1>3, <1>4

\* A concatenation holds what its parts hold.
LEMMA ToSetConcat ==
    ASSUME NEW S, NEW s \in Seq(S), NEW t \in Seq(S)
    PROVE  ToSet(s \o t) = ToSet(s) \cup ToSet(t)
  <1>1. /\ s \o t \in Seq(S)
        /\ Len(s \o t) = Len(s) + Len(t)
        /\ \A i \in 1..Len(s) : (s \o t)[i] = s[i]
        /\ \A i \in 1..Len(t) : (s \o t)[Len(s) + i] = t[i]
    BY ConcatProperties
  <1>2. \A i \in 1..Len(s \o t) : i \in 1..Len(s) \/ \E j \in 1..Len(t) : i = Len(s) + j
    <2> SUFFICES ASSUME NEW i \in 1..Len(s \o t), i \notin 1..Len(s)
                 PROVE  \E j \in 1..Len(t) : i = Len(s) + j
      OBVIOUS
    <2>1. i - Len(s) \in 1..Len(t) /\ i = Len(s) + (i - Len(s))
      BY <1>1, LenProperties
    <2> QED
      BY <2>1
  <1>3. \A i \in 1..Len(t) : Len(s) + i \in 1..Len(s \o t)
    BY <1>1, LenProperties
  <1>4. 1..Len(s) \subseteq 1..Len(s \o t)
    BY <1>1, LenProperties
  <1>5. DOMAIN s = 1..Len(s) /\ DOMAIN t = 1..Len(t) /\ DOMAIN (s \o t) = 1..Len(s \o t)
    BY <1>1, LenProperties
  <1>6. ToSet(s \o t) \subseteq ToSet(s) \cup ToSet(t)
    <2> SUFFICES ASSUME NEW i \in 1..Len(s \o t)
                 PROVE  (s \o t)[i] \in ToSet(s) \cup ToSet(t)
      BY <1>5 DEF ToSet
    <2>1. CASE i \in 1..Len(s)
      BY <1>1, <1>5, <2>1 DEF ToSet
    <2>2. CASE i \notin 1..Len(s)
      <3>1. PICK j \in 1..Len(t) : i = Len(s) + j
        BY <1>2, <2>2
      <3>2. (s \o t)[i] = t[j]
        BY <1>1, <3>1
      <3> QED
        BY <1>5, <3>2 DEF ToSet
    <2> QED
      BY <2>1, <2>2
  <1>7. \A i \in 1..Len(s) : s[i] \in ToSet(s \o t)
    <2> TAKE i \in 1..Len(s)
    <2>1. i \in 1..Len(s \o t) /\ (s \o t)[i] = s[i]
      BY <1>1, <1>4
    <2> QED
      BY <1>5, <2>1 DEF ToSet
  <1>8. \A i \in 1..Len(t) : t[i] \in ToSet(s \o t)
    <2> TAKE i \in 1..Len(t)
    <2>1. Len(s) + i \in 1..Len(s \o t) /\ (s \o t)[Len(s) + i] = t[i]
      BY <1>1, <1>3
    <2> QED
      BY <1>5, <2>1 DEF ToSet
  <1>9. ToSet(s) \subseteq ToSet(s \o t) /\ ToSet(t) \subseteq ToSet(s \o t)
    BY <1>5, <1>7, <1>8 DEF ToSet
  <1> QED
    BY <1>6, <1>9

\* FlattenSeq appends the sequences one by one.
LEMMA FlattenSteps ==
    ASSUME NEW S, NEW ss \in Seq(Seq(S))
    PROVE  \E h \in [0..Len(ss) -> Seq(S)] :
              /\ h[0] = <<>>
              /\ \A i \in 1..Len(ss) : h[i] = h[i - 1] \o ss[i]
              /\ FlattenSeq(ss) = h[Len(ss)]
  <1> DEFINE joins == [i \in 1..Len(ss) |-> [x \in Seq(S) |-> x \o ss[i]]]
             Sol(g) == g = [i \in 1..Len(ss) |-> IF i = 1 THEN ss[i] ELSE g[i - 1] \o ss[i]]
             f == CHOOSE g : Sol(g)
  <1>1. Len(ss) \in Nat /\ \A i \in 1..Len(ss) : ss[i] \in Seq(S)
    BY ElementOfSeq
  <1>2. joins \in [1..Len(ss) -> [Seq(S) -> Seq(S)]]
    BY <1>1, ConcatProperties
  <1>3. PICK h \in [0..Len(ss) -> Seq(S)] : Iterates(h, <<>>, joins, Len(ss))
    <2> HIDE DEF joins
    <2>1. <<>> \in Seq(S)
      OBVIOUS
    <2> QED
      BY <1>1, <1>2, <2>1, Recursion
  <1>4. h[0] = <<>> /\ \A i \in 1..Len(ss) : h[i] = h[i - 1] \o ss[i]
    <2>1. \A i \in 1..Len(ss) : i - 1 \in 0..Len(ss)
      BY <1>1
    <2> QED
      BY <1>3, <2>1 DEF Iterates
  <1>5. CASE Len(ss) = 0
    <2>1. ss = <<>>
      BY <1>5, EmptySeq
    <2>2. FlattenSeq(ss) = <<>>
      BY <1>5, <2>1 DEF FlattenSeq
    <2> QED
      BY <1>4, <1>5, <2>2
  <1>6. CASE Len(ss) # 0
    <2>1. \A i \in 1..Len(ss) : h[i] = IF i = 1 THEN ss[i] ELSE h[i - 1] \o ss[i]
      <3> SUFFICES 1 \in 1..Len(ss) => h[1] = ss[1]
        BY <1>4
      <3>1. 1 \in 1..Len(ss) /\ 1 - 1 = 0
        BY <1>1, <1>6
      <3>2. h[1] = h[1 - 1] \o ss[1]
        <4> HIDE DEF joins, f
        <4> QED
          BY <1>4, <3>1, Zenon
      <3>3. <<>> \o ss[1] = ss[1]
        BY <1>1, <3>1, ConcatEmptySeq
      <3> QED
        BY <1>4, <3>1, <3>2, <3>3, Zenon
    <2> DEFINE g == [i \in 1..Len(ss) |-> h[i]]
    <2>2. Sol(g)
      <3>1. \A i \in 1..Len(ss) : i # 1 => i - 1 \in 1..Len(ss)
        BY <1>1
      <3> QED
        BY <2>1, <3>1
    <2>3. Sol(f)
      BY <2>2, Zenon
    <2>4. FlattenSeq(ss) = f[Len(ss)]
      BY <1>6, Zenon DEF FlattenSeq
    <2>5. \A i \in 1..Len(ss) : f[i] = IF i = 1 THEN ss[i] ELSE f[i - 1] \o ss[i]
      <3> HIDE DEF f
      <3> QED
        BY <2>3, Zenon
    <2> HIDE DEF f
    <2> DEFINE T == {i \in 0..Len(ss) : i # 0 => f[i] = h[i]}
    <2>6. 0 \in T
      BY <1>1
    <2>7. \A i \in 1..Len(ss) : i - 1 \in T => i \in T
      <3> SUFFICES ASSUME NEW i \in 1..Len(ss), i - 1 \in T PROVE f[i] = h[i]
        BY <1>1
      <3>1. i # 1 => f[i - 1] = h[i - 1]
        BY <1>1
      <3> HIDE DEF T
      <3> QED
        BY <2>1, <2>5, <3>1, Zenon
    <2>8. 0..Len(ss) \subseteq T
      <3> HIDE DEF T
      <3> QED
        BY <1>1, <2>6, <2>7, SpanInduction
    <2>9. f[Len(ss)] = h[Len(ss)]
      BY <1>1, <1>6, <2>8
    <2> HIDE DEF g, T
    <2> QED
      BY <1>4, <2>4, <2>9
  <1> QED
    BY <1>5, <1>6

\* FlattenSeq holds what the sequences hold, and no more.
LEMMA FlattenToSet ==
    ASSUME NEW S, NEW ss \in Seq(Seq(S))
    PROVE  /\ FlattenSeq(ss) \in Seq(S)
           /\ ToSet(FlattenSeq(ss)) = UNION {ToSet(ss[i]) : i \in DOMAIN ss}
  <1>1. PICK h \in [0..Len(ss) -> Seq(S)] :
              /\ h[0] = <<>>
              /\ \A i \in 1..Len(ss) : h[i] = h[i - 1] \o ss[i]
              /\ FlattenSeq(ss) = h[Len(ss)]
    BY FlattenSteps
  <1>2. Len(ss) \in Nat /\ DOMAIN ss = 1..Len(ss) /\ \A i \in 1..Len(ss) : ss[i] \in Seq(S)
    BY ElementOfSeq
  <1> DEFINE T == {m \in 0..Len(ss) : \A x : x \in ToSet(h[m]) <=> \E i \in 1..m : x \in ToSet(ss[i])}
  <1>3. 0 \in T
    BY <1>1, <1>2 DEF ToSet
  <1>4. \A m \in 1..Len(ss) : m - 1 \in T => m \in T
    <2> SUFFICES ASSUME NEW m \in 1..Len(ss), m - 1 \in T PROVE m \in T
      OBVIOUS
    <2>1. m \in 0..Len(ss) /\ m - 1 \in 0..Len(ss)
      BY <1>2
    <2>2. h[m - 1] \in Seq(S) /\ ss[m] \in Seq(S)
      BY <1>2, <2>1
    <2>3. ToSet(h[m]) = ToSet(h[m - 1]) \cup ToSet(ss[m])
      <3>1. h[m] = h[m - 1] \o ss[m]
        BY <1>1
      <3> HIDE DEF T
      <3> QED
        BY <2>2, <3>1, ToSetConcat
    <2>4. \A x : (\E i \in 1..m : x \in ToSet(ss[i]))
                    <=> (\E i \in 1..(m - 1) : x \in ToSet(ss[i])) \/ x \in ToSet(ss[m])
      <3>1. \A i \in 1..m : i \in 1..(m - 1) \/ i = m
        BY <1>2
      <3>2. m \in 1..m /\ \A i \in 1..(m - 1) : i \in 1..m
        BY <1>2
      <3> HIDE DEF T
      <3> QED
        BY <3>1, <3>2, Zenon
    <2>5. \A x : x \in ToSet(h[m - 1]) <=> \E i \in 1..(m - 1) : x \in ToSet(ss[i])
      OBVIOUS
    <2>6. \A x : x \in ToSet(h[m]) <=> \E i \in 1..m : x \in ToSet(ss[i])
      <3> HIDE DEF T
      <3> QED
        BY <2>3, <2>4, <2>5
    <2> QED
      BY <2>1, <2>6
  <1>5. Len(ss) \in T
    <2>1. 0..Len(ss) \subseteq T
      <3> HIDE DEF T
      <3> QED
        BY <1>2, <1>3, <1>4, SpanInduction
    <2>2. Len(ss) \in 0..Len(ss)
      BY <1>2
    <2> HIDE DEF T
    <2> QED
      BY <2>1, <2>2
  <1>6. h[Len(ss)] \in Seq(S)
    BY <1>2
  <1> QED
    BY <1>1, <1>2, <1>5, <1>6

-----------------------------------------------------------------------------
(* The annotations.                                                          *)

Entries == [ext : U16, int : U16, proto : {"TCP", "UDP"}]

ParseTypeOK ==
    /\ value = AllPorts \/ value \in Seq(Part)
    /\ ports \in Seq(K8sPort)

\* The protocols in which the object has a port.
ProtocolsOf(n) == {proto \in {"TCP", "UDP"} : \E p \in ToSet(ports) :
    p.port = n /\ (proto = "UDP" <=> p.protocol = "UDP")}

\* What the README says of one part.
Asked(part) ==
    IF part # <<>> /\ ToSet(part) \subseteq U16
    THEN {Entry(Head(part), Last(part), proto) : proto \in
             IF ProtocolsOf(Last(part)) = {} /\ Len(part) = 2 THEN {"TCP"}
             ELSE ProtocolsOf(Last(part))}
    ELSE {}

\* The value and the ports are always such sequences.
LEMMA ParseTyped == ParseSpec => []ParseTypeOK
  <1>1. ParseInit => ParseTypeOK
    <2>1. <<>> \in Seq(Part) /\ <<>> \in Seq(K8sPort)
      OBVIOUS
    <2> QED
      BY <2>1 DEF ParseInit, ParseTypeOK
  <1>2. ParseTypeOK /\ [ParseNext]_parseVars => ParseTypeOK'
    <2> SUFFICES ASSUME ParseTypeOK, [ParseNext]_parseVars PROVE ParseTypeOK'
      OBVIOUS
    <2>1. CASE AddPart
      <3>1. PICK part \in Part : value' = Append(value, part)
        BY <2>1 DEF AddPart
      <3>2. value \in Seq(Part) /\ ports' = ports
        BY <2>1 DEF AddPart, ParseTypeOK
      <3>3. value' \in Seq(Part)
        BY <3>1, <3>2, AppendProperties
      <3> QED
        BY <3>2, <3>3 DEF ParseTypeOK
    <2>2. CASE AddPort
      <3>1. PICK p \in K8sPort : ports' = Append(ports, p)
        BY <2>2 DEF AddPort
      <3>2. value' = value /\ ports \in Seq(K8sPort)
        BY <2>2 DEF AddPort, ParseTypeOK
      <3>3. ports' \in Seq(K8sPort)
        BY <3>1, <3>2, AppendProperties
      <3> QED
        BY <3>2, <3>3 DEF ParseTypeOK
    <2>3. CASE UNCHANGED parseVars
      BY <2>3 DEF ParseTypeOK, parseVars
    <2> QED
      BY <2>1, <2>2, <2>3 DEF ParseNext
  <1> QED
    BY <1>1, <1>2, PTL DEF ParseSpec

\* What a u16 holds, and that the remainder leaves it alone.
LEMMA U16Bounds ==
    /\ MaxU16 \in Nat
    /\ \A n : n \in U16 <=> n \in Nat /\ n <= MaxU16
    /\ \A n \in Int : n >= 0 /\ n < MaxU16 + 1 => n % (MaxU16 + 1) = n
  <1>1. MaxU16 \in Nat
    BY DEF MaxU16
  <1> QED
    BY <1>1 DEF U16

\* No port of an object wraps.
LEMMA PortsFit ==
    ASSUME ParseTypeOK, NEW p \in ToSet(ports)
    PROVE  p.port \in U16 /\ AsU16(p.port) = p.port /\ p \in K8sPort
  <1>1. p \in K8sPort
    BY ElementOfSeq DEF ParseTypeOK, ToSet
  <1>2. p.port \in U16
    BY <1>1, ParseAssumption DEF K8sPort
  <1>3. p.port \in Int /\ p.port >= 0 /\ p.port < MaxU16 + 1
    BY <1>2, U16Bounds
  <1> QED
    BY <1>1, <1>2, <1>3, U16Bounds DEF AsU16

\* lookup_protocols finds every protocol of a port.
LEMMA LookupFindsAll ==
    ASSUME ParseTypeOK, NEW n \in U16
    PROVE  /\ LookupProtocols(n) \in Seq({"TCP", "UDP"})
           /\ ToSet(LookupProtocols(n)) = ProtocolsOf(n)
  <1> DEFINE found == [i \in DOMAIN ports |-> ProtocolIf(ports[i], n)]
  <1>1. DOMAIN ports = 1..Len(ports) /\ Len(ports) \in Nat
    BY DEF ParseTypeOK
  <1>2. \A p : ParseK8sProtocol(p) \in {"TCP", "UDP"}
    BY DEF ParseK8sProtocol
  <1>3. \A i \in DOMAIN ports : /\ ProtocolIf(ports[i], n) \in Seq({"TCP", "UDP"})
                                /\ ToSet(ProtocolIf(ports[i], n)) =
                                      IF ports[i].port = n THEN {ParseK8sProtocol(ports[i].protocol)} ELSE {}
    <2> SUFFICES ASSUME NEW i \in DOMAIN ports
                 PROVE  /\ ProtocolIf(ports[i], n) \in Seq({"TCP", "UDP"})
                        /\ ToSet(ProtocolIf(ports[i], n)) =
                              IF ports[i].port = n THEN {ParseK8sProtocol(ports[i].protocol)} ELSE {}
      OBVIOUS
    <2>1. AsU16(ports[i].port) = ports[i].port
      <3>1. ports[i] \in ToSet(ports)
        BY DEF ToSet
      <3> QED
        BY <3>1, PortsFit
    <2> DEFINE t == <<ParseK8sProtocol(ports[i].protocol)>>
    <2>2. t \in Seq({"TCP", "UDP"}) /\ ToSet(t) = {ParseK8sProtocol(ports[i].protocol)}
      BY <1>2 DEF ToSet
    <2>3. <<>> \in Seq({"TCP", "UDP"}) /\ ToSet(<<>>) = {}
      BY DEF ToSet
    <2> QED
      BY <2>1, <2>2, <2>3 DEF ProtocolIf
  <1>4. found \in Seq(Seq({"TCP", "UDP"}))
    <2>1. found \in [1..Len(ports) -> Seq({"TCP", "UDP"})]
      BY <1>1, <1>3
    <2> QED
      BY <1>1, <2>1, IsASeq
  <1>5. LookupProtocols(n) \in Seq({"TCP", "UDP"})
    BY <1>4, FlattenToSet DEF LookupProtocols
  <1>6. ToSet(LookupProtocols(n)) = UNION {ToSet(found[i]) : i \in DOMAIN found}
    BY <1>4, FlattenToSet DEF LookupProtocols
  <1>7. \A x : x \in ToSet(LookupProtocols(n))
                 <=> \E i \in DOMAIN ports : ports[i].port = n /\ x = ParseK8sProtocol(ports[i].protocol)
    BY <1>3, <1>6
  <1>8. \A x : x \in ToSet(LookupProtocols(n))
                 <=> \E p \in ToSet(ports) : p.port = n /\ x = ParseK8sProtocol(p.protocol)
    BY <1>7 DEF ToSet
  <1> QED
    BY <1>2, <1>5, <1>8 DEF ProtocolsOf, ParseK8sProtocol

\* What parse_port_list makes of a part is what the README says of it.
LEMMA PartIsRead ==
    ASSUME ParseTypeOK, NEW part \in Part
    PROVE  ParsePart(part) \in Seq(Entries) /\ ToSet(ParsePart(part)) = Asked(part)
  <1>1. PICK n \in 0..2 : part \in [1..n -> Texts]
    BY DEF Part
  <1>2. part \in Seq(Texts) /\ Len(part) = n /\ DOMAIN part = 1..n
    BY <1>1
  <1>3. \A i \in 1..n : IsU16(part[i]) <=> part[i] \in U16
    BY <1>1, ParseAssumption, U16Bounds DEF IsU16
  <1>4. ToSet(part) \subseteq U16 <=> \A i \in 1..n : IsU16(part[i])
    BY <1>2, <1>3 DEF ToSet
  <1>5. part # <<>> <=> n # 0
    BY <1>2, EmptySeq
  <1>6. CASE ~(part # <<>> /\ ToSet(part) \subseteq U16)
    <2>1. ParsePart(part) = <<>>
      BY <1>2, <1>4, <1>5, <1>6 DEF ParsePart
    <2> QED
      BY <1>6, <2>1 DEF Asked, ToSet
  <1>7. CASE part # <<>> /\ ToSet(part) \subseteq U16
    <2> DEFINE protocols == LookupProtocols(part[n])
               remapped == n = 2 /\ protocols = <<>>
    <2>1. n # 0 /\ 1 \in 1..n /\ n \in 1..n
      BY <1>5, <1>7
    <2>2. part[1] \in U16 /\ part[n] \in U16
      BY <1>3, <1>4, <1>7, <2>1
    <2>3. Head(part) = part[1] /\ Last(part) = part[n]
      BY <1>2, <2>1 DEF Last
    <2>4. protocols \in Seq({"TCP", "UDP"}) /\ ToSet(protocols) = ProtocolsOf(part[n])
      BY <2>2, LookupFindsAll
    <2>5. protocols = <<>> <=> ProtocolsOf(part[n]) = {}
      <3> HIDE DEF protocols
      <3>1. protocols = <<>> <=> ToSet(protocols) = {}
        BY <2>4, EmptyToSet
      <3> QED
        BY <2>4, <3>1
    <2>6. ParsePart(part) = IF remapped THEN <<Entry(part[1], part[2], "TCP")>>
                            ELSE [i \in DOMAIN protocols |-> Entry(part[1], part[n], protocols[i])]
      BY <1>2, <1>4, <1>7, <2>1 DEF ParsePart
    <2>7. Asked(part) = {Entry(part[1], part[n], proto) : proto \in
                            IF remapped THEN {"TCP"} ELSE ProtocolsOf(part[n])}
      BY <1>2, <1>7, <2>3, <2>5 DEF Asked
    <2> HIDE DEF protocols
    <2>8. CASE remapped
      <3>1. Entry(part[1], part[2], "TCP") \in Entries
        BY <2>2, <2>8 DEF Entry, Entries
      <3>2. ToSet(<<Entry(part[1], part[2], "TCP")>>) = {Entry(part[1], part[2], "TCP")}
        BY DEF ToSet
      <3> QED
        BY <2>6, <2>7, <2>8, <3>1, <3>2
    <2>9. CASE ~remapped
      <3> DEFINE all == [i \in DOMAIN protocols |-> Entry(part[1], part[n], protocols[i])]
      <3>1. DOMAIN protocols = 1..Len(protocols) /\ Len(protocols) \in Nat
            /\ \A i \in DOMAIN protocols : protocols[i] \in {"TCP", "UDP"}
        BY <2>4
      <3>2. \A i \in DOMAIN protocols : Entry(part[1], part[n], protocols[i]) \in Entries
        BY <2>2, <3>1 DEF Entry, Entries
      <3>3. all \in Seq(Entries)
        BY <3>1, <3>2, IsASeq
      <3>4. ToSet(all) = {Entry(part[1], part[n], proto) : proto \in ToSet(protocols)}
        BY DEF ToSet
      <3> QED
        BY <2>4, <2>6, <2>7, <2>9, <3>3, <3>4
    <2> QED
      BY <2>8, <2>9
  <1> QED
    BY <1>6, <1>7

\* The same of the whole annotation.
LEMMA AnnotationIsRead ==
    ASSUME ParseTypeOK
    PROVE  ToSet(ParseAnnotation) =
              IF value = AllPorts
              THEN UNION {{Entry(p.port, p.port, proto) : proto \in ProtocolsOf(p.port)} : p \in ToSet(ports)}
              ELSE UNION {Asked(part) : part \in ToSet(value)}
  <1>1. CASE value = AllPorts
    <2> DEFINE OfPort(p) == Entry(AsU16(p.port), AsU16(p.port), ParseK8sProtocol(p.protocol))
    <2>1. ToSet(ParseAnnotation) = {OfPort(p) : p \in ToSet(ports)}
      BY <1>1 DEF ParseAnnotation, ToSet
    <2>2. \A p \in ToSet(ports) : OfPort(p) = Entry(p.port, p.port, ParseK8sProtocol(p.protocol))
      BY PortsFit
    <2>3. \A p \in ToSet(ports) : ParseK8sProtocol(p.protocol) \in ProtocolsOf(p.port)
      BY DEF ParseK8sProtocol, ProtocolsOf
    <2>4. \A p \in ToSet(ports) : \A proto \in ProtocolsOf(p.port) :
             \E q \in ToSet(ports) : q.port = p.port /\ proto = ParseK8sProtocol(q.protocol)
      BY DEF ParseK8sProtocol, ProtocolsOf
    <2> HIDE DEF OfPort
    <2>5. \A p \in ToSet(ports) :
             OfPort(p) \in {Entry(p.port, p.port, proto) : proto \in ProtocolsOf(p.port)}
      BY <2>2, <2>3
    <2>6. \A p \in ToSet(ports) : \A proto \in ProtocolsOf(p.port) :
             \E q \in ToSet(ports) : Entry(p.port, p.port, proto) = OfPort(q)
      BY <2>2, <2>4
    <2> QED
      BY <1>1, <2>1, <2>5, <2>6
  <1>2. CASE value # AllPorts
    <2> DEFINE parsed == [i \in DOMAIN value |-> ParsePart(value[i])]
    <2>1. value \in Seq(Part)
      BY <1>2 DEF ParseTypeOK
    <2>2. DOMAIN value = 1..Len(value) /\ Len(value) \in Nat /\ \A i \in DOMAIN value : value[i] \in Part
      BY <2>1
    <2>3. \A i \in DOMAIN value : ParsePart(value[i]) \in Seq(Entries)
                                  /\ ToSet(ParsePart(value[i])) = Asked(value[i])
      BY <2>2, PartIsRead
    <2>4. parsed \in Seq(Seq(Entries))
      BY <2>2, <2>3, IsASeq
    <2>5. ToSet(FlattenSeq(parsed)) = UNION {ToSet(parsed[i]) : i \in DOMAIN parsed}
      BY <2>4, FlattenToSet
    <2>6. UNION {ToSet(parsed[i]) : i \in DOMAIN parsed} = UNION {Asked(value[i]) : i \in DOMAIN value}
      BY <2>3
    <2>7. UNION {Asked(value[i]) : i \in DOMAIN value} = UNION {Asked(part) : part \in ToSet(value)}
      BY DEF ToSet
    <2>8. ParseAnnotation = FlattenSeq(parsed)
      BY <1>2 DEF ParseAnnotation, ParsePortList
    <2> QED
      BY <1>2, <2>5, <2>6, <2>7, <2>8
  <1> QED
    BY <1>1, <1>2

\* README.md's "Annotation format" is what is parsed, of annotations of any
\* length over any texts, and of objects with any number of ports.
THEOREM AnnotationsParse == ParseSpec => []ParsesAsDocumented
  <1>1. ParseTypeOK => ParsesAsDocumented
    <2> SUFFICES ASSUME ParseTypeOK PROVE Documented = ToSet(ParseAnnotation)
      BY DEF ParsesAsDocumented
    <2>1. CASE value = AllPorts
      BY <2>1, AnnotationIsRead DEF Documented, ProtocolsOf
    <2>2. CASE value # AllPorts
      <3> DEFINE Named == {part \in ToSet(value) : part # <<>> /\ ToSet(part) \subseteq U16}
                 FromPart(part) == {Entry(Head(part), Last(part), proto) : proto \in
                     IF ProtocolsOf(Last(part)) = {} /\ Len(part) = 2 THEN {"TCP"}
                     ELSE ProtocolsOf(Last(part))}
      <3>1. ToSet(ParseAnnotation) = UNION {Asked(part) : part \in ToSet(value)}
        BY <2>2, AnnotationIsRead
      <3>2. Documented = UNION {FromPart(part) : part \in Named}
        BY <2>2 DEF Documented, ProtocolsOf
      <3>3. \A part \in ToSet(value) : Asked(part) = IF part \in Named THEN FromPart(part) ELSE {}
        BY DEF Asked
      <3> HIDE DEF FromPart
      <3> QED
        BY <3>1, <3>2, <3>3
    <2> QED
      BY <2>1, <2>2
  <1> QED
    BY <1>1, ParseTyped, PTL

-----------------------------------------------------------------------------
(* The loop over the events of the description.                              *)

\* From p, the events es lead the parser to q.
Reads(p, es, q) == \E f :
    /\ f[0] = p
    /\ f[Len(es)] = q
    /\ \A i \in 1..Len(es) : f[i] = ReadEvent(f[i - 1], es[i])

\* One event is read at a time.
LEMMA ReadsOne ==
    ASSUME NEW p, NEW e
    PROVE  Reads(p, <<e>>, ReadEvent(p, e))
  <1> DEFINE f == [i \in 0..1 |-> IF i = 0 THEN p ELSE ReadEvent(p, e)]
  <1>1. Len(<<e>>) = 1 /\ <<e>>[1] = e
    OBVIOUS
  <1>2. f[0] = p /\ f[1] = ReadEvent(p, e) /\ \A i \in 1..1 : i = 1 /\ i - 1 = 0
    OBVIOUS
  <1> HIDE DEF f
  <1>3. \A i \in 1..1 : f[i] = ReadEvent(f[i - 1], <<e>>[i])
    <2> SUFFICES ASSUME NEW i \in 1..1 PROVE f[i] = ReadEvent(f[i - 1], <<e>>[i])
      OBVIOUS
    <2>1. i = 1 /\ i - 1 = 0
      OBVIOUS
    <2> QED
      BY <1>1, <1>2, <2>1
  <1> QED
    BY <1>1, <1>2, <1>3 DEF Reads

\* Without an event nothing changes.
LEMMA ReadsNone ==
    ASSUME NEW p
    PROVE  Reads(p, <<>>, p)
  <1> DEFINE f == [i \in 0..0 |-> p]
  <1>1. Len(<<>>) = 0 /\ f[0] = p /\ 1..0 = {}
    OBVIOUS
  <1> QED
    BY <1>1 DEF Reads

\* Events after events.
LEMMA ReadsConcat ==
    ASSUME NEW S, NEW es \in Seq(S), NEW fs \in Seq(S), NEW p, NEW q, NEW r,
           Reads(p, es, q), Reads(q, fs, r)
    PROVE  Reads(p, es \o fs, r)
  <1> DEFINE m == Len(es)
             n == Len(fs)
  <1>1. PICK f : /\ f[0] = p
                 /\ f[m] = q
                 /\ \A i \in 1..m : f[i] = ReadEvent(f[i - 1], es[i])
    BY DEF Reads
  <1>2. PICK g : /\ g[0] = q
                 /\ g[n] = r
                 /\ \A i \in 1..n : g[i] = ReadEvent(g[i - 1], fs[i])
    BY DEF Reads
  <1>3. /\ m \in Nat /\ n \in Nat
        /\ Len(es \o fs) = m + n
        /\ \A i \in 1..m : (es \o fs)[i] = es[i]
        /\ \A i \in 1..n : (es \o fs)[m + i] = fs[i]
    BY ConcatProperties
  <1> DEFINE h == [i \in 0..(m + n) |-> IF i <= m THEN f[i] ELSE g[i - m]]
  <1> HIDE DEF m, n
  <1>4. /\ \A i \in 0..m : h[i] = f[i]
        /\ \A i \in 0..n : h[m + i] = g[i]
    <2>1. \A i \in 0..m : h[i] = f[i]
      BY <1>3
    <2>2. \A i \in 1..n : h[m + i] = g[i]
      <3> SUFFICES ASSUME NEW i \in 1..n PROVE h[m + i] = g[i]
        OBVIOUS
      <3>1. m + i \in 0..(m + n) /\ ~(m + i <= m) /\ (m + i) - m = i
        BY <1>3
      <3> QED
        BY <3>1
    <2>3. h[m + 0] = g[0]
      BY <1>1, <1>2, <1>3
    <2>4. \A i \in 0..n : i = 0 \/ i \in 1..n
      BY <1>3
    <2> HIDE DEF h
    <2> QED
      BY <2>1, <2>2, <2>3, <2>4, Zenon
  <1>5. h[0] = p /\ h[m + n] = r
    BY <1>1, <1>2, <1>3, <1>4
  <1>6. ASSUME NEW i \in 1..(m + n)
        PROVE  h[i] = ReadEvent(h[i - 1], (es \o fs)[i])
    <2> HIDE DEF h
    <2>1. CASE i <= m
      <3>1. i \in 1..m /\ i \in 0..m /\ i - 1 \in 0..m
        BY <1>3, <2>1
      <3> QED
        BY <1>1, <1>3, <1>4, <3>1
    <2>2. CASE i > m
      <3> DEFINE j == i - m
      <3>1. j \in 1..n /\ j \in 0..n /\ j - 1 \in 0..n /\ i = m + j /\ i - 1 = m + (j - 1)
        BY <1>3, <2>2
      <3> HIDE DEF j
      <3>2. h[i] = g[j] /\ h[i - 1] = g[j - 1] /\ (es \o fs)[i] = fs[j]
        BY <1>3, <1>4, <3>1
      <3> QED
        BY <1>2, <3>1, <3>2
    <2> QED
      BY <1>3, <2>1, <2>2
  <1> HIDE DEF h
  <1> QED
    BY <1>3, <1>5, <1>6 DEF Reads

\* Sequences of events, one after the other.
LEMMA ReadsFlatten ==
    ASSUME NEW S, NEW ss \in Seq(Seq(S)), NEW st,
           \A i \in 1..Len(ss) : Reads(st[i - 1], ss[i], st[i])
    PROVE  Reads(st[0], FlattenSeq(ss), st[Len(ss)])
  <1>1. PICK h \in [0..Len(ss) -> Seq(S)] :
              /\ h[0] = <<>>
              /\ \A i \in 1..Len(ss) : h[i] = h[i - 1] \o ss[i]
              /\ FlattenSeq(ss) = h[Len(ss)]
    BY FlattenSteps
  <1>2. Len(ss) \in Nat /\ \A i \in 1..Len(ss) : ss[i] \in Seq(S)
    BY ElementOfSeq
  <1> DEFINE T == {i \in 0..Len(ss) : Reads(st[0], h[i], st[i])}
  <1>3. 0 \in T
    BY <1>1, <1>2, ReadsNone
  <1>4. \A i \in 1..Len(ss) : i - 1 \in T => i \in T
    <2> SUFFICES ASSUME NEW i \in 1..Len(ss), i - 1 \in T PROVE Reads(st[0], h[i], st[i])
      BY <1>2
    <2>1. h[i] = h[i - 1] \o ss[i]
      BY <1>1
    <2>2. h[i - 1] \in Seq(S) /\ ss[i] \in Seq(S)
      BY <1>2
    <2>3. Reads(st[0], h[i - 1], st[i - 1]) /\ Reads(st[i - 1], ss[i], st[i])
      OBVIOUS
    <2> HIDE DEF T
    <2> QED
      BY <2>1, <2>2, <2>3, ReadsConcat
  <1>5. 0..Len(ss) \subseteq T
    <2> HIDE DEF T
    <2> QED
      BY <1>2, <1>3, <1>4, SpanInduction
  <1> QED
    BY <1>1, <1>2, <1>5

-----------------------------------------------------------------------------
(* A service.                                                                *)

DocTexts == WanKinds \cup {"other", Blank} \cup Url
DocEvents == [event : {"start", "end"}, tag : Tags \cup {"service"}]
             \cup [event : {"text"}, text : DocTexts]

Parser(inService, tag, current, found) ==
    [inService |-> inService, tag |-> tag, current |-> current, found |-> found]

\* What the first j elements of a service say.
Said(s, j, tag) ==
    LET said == {i \in 1..j : s[i].tag = tag} IN
    IF said = {} THEN Blank ELSE s[CHOOSE i \in said : TRUE].text

SaidBy(s, j) == [tag \in Tags |-> Said(s, j, tag)]

Urls(s) == [control |-> Resolve(Says(s, "controlURL")), event |-> Resolve(Says(s, "eventSubURL"))]

\* The services found, with one more.
AndService(found, s) ==
    IF Says(s, "serviceType") \in WanKinds
    THEN [found EXCEPT ![Says(s, "serviceType")] = Urls(s)]
    ELSE found

\* An element has a tag and a text of its kind.
LEMMA ElementType ==
    ASSUME NEW e \in Element
    PROVE  /\ e.tag \in Tags
           /\ e.text \in DocTexts
           /\ ElementEvents(e) \in Seq(DocEvents)
  <1>1. e.tag \in Tags /\ e.text \in DocTexts
    BY DEF Element, Tags, DocTexts
  <1> DEFINE start == [event |-> "start", tag |-> e.tag]
             text == [event |-> "text", text |-> e.text]
             end == [event |-> "end", tag |-> e.tag]
  <1>2. start \in DocEvents /\ text \in DocEvents /\ end \in DocEvents
    BY <1>1 DEF DocEvents
  <1> HIDE DEF start, text, end
  <1>3. <<start>> \in Seq(DocEvents) /\ <<text>> \in Seq(DocEvents) /\ <<end>> \in Seq(DocEvents)
        /\ <<>> \in Seq(DocEvents)
    BY <1>2
  <1>4. ElementEvents(e) = <<start>> \o (IF e.text = Blank THEN <<>> ELSE <<text>>) \o <<end>>
    BY DEF ElementEvents, start, text, end
  <1> QED
    BY <1>1, <1>3, <1>4, ConcatProperties

\* An element is added to what the service says.
LEMMA ElementIsRead ==
    ASSUME NEW e \in Element, NEW tag, NEW current, NEW found,
           current \in [Tags -> DocTexts],
           current[e.tag] = Blank
    PROVE  Reads(Parser(TRUE, tag, current, found), ElementEvents(e),
                 Parser(TRUE, e.tag, [current EXCEPT ![e.tag] = e.text], found))
  <1> DEFINE start == [event |-> "start", tag |-> e.tag]
             text == [event |-> "text", text |-> e.text]
             end == [event |-> "end", tag |-> e.tag]
             p0 == Parser(TRUE, tag, current, found)
             p1 == Parser(TRUE, e.tag, current, found)
             p2 == Parser(TRUE, e.tag, [current EXCEPT ![e.tag] = e.text], found)
  <1>1. e.tag \in Tags /\ e.text \in DocTexts /\ e.tag # "service"
    BY ElementType DEF Tags
  <1>2. ReadEvent(p0, start) = p1
    BY <1>1 DEF ReadEvent, StartTag, Parser
  <1>3. ReadEvent(p1, text) = p2
    BY <1>1 DEF ReadEvent, TextOf, Parser
  <1>4. ReadEvent(p2, end) = p2
    BY <1>1 DEF ReadEvent, EndTag
  <1>5. e.text = Blank => p1 = p2
    <2>1. e.text = Blank => [current EXCEPT ![e.tag] = e.text] = current
      OBVIOUS
    <2> QED
      BY <2>1
  <1>6. start \in DocEvents /\ text \in DocEvents /\ end \in DocEvents
    BY <1>1 DEF DocEvents
  <1>7. ElementEvents(e) = <<start>> \o (IF e.text = Blank THEN <<>> ELSE <<text>>) \o <<end>>
    BY DEF ElementEvents
  <1> HIDE DEF start, text, end, p0, p1, p2
  <1>8. <<start>> \in Seq(DocEvents) /\ <<text>> \in Seq(DocEvents) /\ <<end>> \in Seq(DocEvents)
        /\ <<>> \in Seq(DocEvents)
    BY <1>6
  <1>9. Reads(p0, <<start>>, p1) /\ Reads(p1, <<text>>, p2) /\ Reads(p2, <<end>>, p2)
    BY <1>2, <1>3, <1>4, ReadsOne
  <1>10. Reads(p1, IF e.text = Blank THEN <<>> ELSE <<text>>, p2)
    BY <1>5, <1>9, ReadsNone
  <1>11. Reads(p0, <<start>> \o (IF e.text = Blank THEN <<>> ELSE <<text>>), p2)
    BY <1>8, <1>9, <1>10, ReadsConcat
  <1>12. <<start>> \o (IF e.text = Blank THEN <<>> ELSE <<text>>) \in Seq(DocEvents)
    BY <1>8, ConcatProperties
  <1>13. Reads(p0, ElementEvents(e), p2)
    <2> DEFINE es == <<start>> \o (IF e.text = Blank THEN <<>> ELSE <<text>>)
    <2>1. es \in Seq(DocEvents) /\ Reads(p0, es, p2) /\ ElementEvents(e) = es \o <<end>>
      BY <1>7, <1>11, <1>12
    <2> HIDE DEF es
    <2> QED
      BY <1>8, <1>9, <2>1, ReadsConcat
  <1> QED
    BY <1>13 DEF p0, p2

\* Two elements of a service have different tags.
LEMMA SaidNext ==
    ASSUME NEW s \in ServiceDesc, NEW j \in 1..Len(s)
    PROVE  /\ SaidBy(s, j - 1) \in [Tags -> DocTexts]
           /\ SaidBy(s, j - 1)[s[j].tag] = Blank
           /\ SaidBy(s, j) = [SaidBy(s, j - 1) EXCEPT ![s[j].tag] = s[j].text]
  <1>1. /\ s \in Seq(Element) /\ Len(s) \in Nat /\ DOMAIN s = 1..Len(s)
        /\ \A i \in 1..Len(s) : s[i] \in Element
        /\ \A i, k \in 1..Len(s) : s[i].tag = s[k].tag => i = k
    BY DEF ServiceDesc
  <1>2. \A i \in 1..Len(s) : s[i].tag \in Tags /\ s[i].text \in DocTexts
    BY <1>1, ElementType
  <1>3. \A i \in 1..(j - 1) : i \in 1..Len(s) /\ i \in 1..j /\ i # j
    BY <1>1
  <1>4. \A i \in 1..j : i \in 1..(j - 1) \/ i = j
    BY <1>1
  <1>5. j \in 1..j
    BY <1>1
  <1>6. \A tag \in Tags : Said(s, j - 1, tag) \in DocTexts
    BY <1>2, <1>3 DEF Said, DocTexts
  <1>7. Said(s, j - 1, s[j].tag) = Blank
    BY <1>1, <1>3 DEF Said
  <1>8. Said(s, j, s[j].tag) = s[j].text
    <2>1. {i \in 1..j : s[i].tag = s[j].tag} = {j}
      BY <1>1, <1>3, <1>4, <1>5
    <2> QED
      BY <2>1 DEF Said
  <1>9. \A tag \in Tags : tag # s[j].tag => Said(s, j, tag) = Said(s, j - 1, tag)
    <2> SUFFICES ASSUME NEW tag \in Tags, tag # s[j].tag
                 PROVE  Said(s, j, tag) = Said(s, j - 1, tag)
      OBVIOUS
    <2> DEFINE now == {i \in 1..j : s[i].tag = tag}
               before == {i \in 1..(j - 1) : s[i].tag = tag}
    <2>1. now = before
      BY <1>3, <1>4
    <2>2. /\ Said(s, j, tag) = IF now = {} THEN Blank ELSE s[CHOOSE i \in now : TRUE].text
          /\ Said(s, j - 1, tag) = IF before = {} THEN Blank ELSE s[CHOOSE i \in before : TRUE].text
      BY Zenon DEF Said
    <2> HIDE DEF now, before
    <2> QED
      BY <2>1, <2>2
  <1> QED
    BY <1>2, <1>6, <1>7, <1>8, <1>9 DEF SaidBy

\* A service leaves the parser with what it says, and its URLs with the found.
LEMMA ServiceIsRead ==
    ASSUME NEW s \in ServiceDesc, NEW tag, NEW current, NEW found
    PROVE  /\ ServiceEvents(s) \in Seq(DocEvents)
           /\ \E last : Reads(Parser(FALSE, tag, current, found), ServiceEvents(s),
                              Parser(FALSE, last, SaidBy(s, Len(s)), AndService(found, s)))
  <1> DEFINE start == [event |-> "start", tag |-> "service"]
             end == [event |-> "end", tag |-> "service"]
             es == [i \in DOMAIN s |-> ElementEvents(s[i])]
             st == [j \in 0..Len(s) |->
                      Parser(TRUE, IF j = 0 THEN "service" ELSE s[j].tag, SaidBy(s, j), found)]
             p == Parser(FALSE, tag, current, found)
             last == IF Len(s) = 0 THEN "service" ELSE s[Len(s)].tag
             q == Parser(FALSE, last, SaidBy(s, Len(s)), AndService(found, s))
  <1>1. /\ s \in Seq(Element) /\ Len(s) \in Nat /\ DOMAIN s = 1..Len(s)
        /\ \A i \in 1..Len(s) : s[i] \in Element
    BY DEF ServiceDesc
  <1>2. es \in Seq(Seq(DocEvents)) /\ Len(es) = Len(s)
    BY <1>1, ElementType, IsASeq
  <1>3. start \in DocEvents /\ end \in DocEvents
    BY DEF DocEvents
  <1>4. ReadEvent(p, start) = st[0]
    <2>1. SaidBy(s, 0) = Cleared
      <3>1. 1..0 = {}
        OBVIOUS
      <3>2. \A t \in Tags : Said(s, 0, t) = Blank
        BY <3>1 DEF Said
      <3> QED
        BY <3>2 DEF SaidBy, Cleared
    <2>2. ReadEvent(p, start) = Parser(TRUE, "service", Cleared, found)
      BY DEF ReadEvent, StartTag, Parser
    <2>3. st[0] = Parser(TRUE, "service", SaidBy(s, 0), found)
      BY <1>1
    <2> HIDE DEF st
    <2> QED
      BY <2>1, <2>2, <2>3, Zenon
  <1>5. Reads(st[0], FlattenSeq(es), st[Len(s)])
    <2>1. ASSUME NEW j \in 1..Len(s) PROVE Reads(st[j - 1], es[j], st[j])
      <3> DEFINE before == IF j - 1 = 0 THEN "service" ELSE s[j - 1].tag
      <3>1. /\ st[j - 1] = Parser(TRUE, before, SaidBy(s, j - 1), found)
            /\ st[j] = Parser(TRUE, s[j].tag, SaidBy(s, j), found)
            /\ es[j] = ElementEvents(s[j])
            /\ s[j] \in Element
        <4>1. j \in 0..Len(s) /\ j # 0 /\ j - 1 \in 0..Len(s)
          BY <1>1
        <4>2. \A k \in 0..Len(s) : st[k] =
                 Parser(TRUE, IF k = 0 THEN "service" ELSE s[k].tag, SaidBy(s, k), found)
          OBVIOUS
        <4>3. es[j] = ElementEvents(s[j]) /\ s[j] \in Element
          BY <1>1
        <4> HIDE DEF st, es
        <4>4. st[j - 1] = Parser(TRUE, before, SaidBy(s, j - 1), found)
          BY <4>1, <4>2
        <4>5. st[j] = Parser(TRUE, s[j].tag, SaidBy(s, j), found)
          BY <4>1, <4>2
        <4> QED
          BY <4>3, <4>4, <4>5
      <3> HIDE DEF before, st, es
      <3>2. Reads(Parser(TRUE, before, SaidBy(s, j - 1), found), ElementEvents(s[j]),
                  Parser(TRUE, s[j].tag, [SaidBy(s, j - 1) EXCEPT ![s[j].tag] = s[j].text], found))
        BY <3>1, SaidNext, ElementIsRead
      <3> QED
        BY <3>1, <3>2, SaidNext
    <2> HIDE DEF st, es
    <2> QED
      BY <1>2, <2>1, ReadsFlatten
  <1>6. \A t \in Tags : SaidBy(s, Len(s))[t] = Says(s, t)
    BY <1>1 DEF SaidBy, Said, Says
  <1>7. ReadEvent(st[Len(s)], end) = q
    <2>1. st[Len(s)] = Parser(TRUE, last, SaidBy(s, Len(s)), found)
      BY <1>1
    <2>2. ReadEvent(st[Len(s)], end) = EndTag(Parser(TRUE, last, SaidBy(s, Len(s)), found), "service")
      BY <2>1 DEF ReadEvent
    <2>3. /\ SaidBy(s, Len(s))["serviceType"] = Says(s, "serviceType")
          /\ SaidBy(s, Len(s))["controlURL"] = Says(s, "controlURL")
          /\ SaidBy(s, Len(s))["eventSubURL"] = Says(s, "eventSubURL")
      BY <1>6 DEF Tags
    <2> HIDE DEF last, st
    <2>4. EndTag(Parser(TRUE, last, SaidBy(s, Len(s)), found), "service") =
             Parser(FALSE, last, SaidBy(s, Len(s)), AndService(found, s))
      BY <2>3 DEF EndTag, Parser, AndService, Urls
    <2> QED
      BY <2>2, <2>4
  <1>8. ServiceEvents(s) = <<start>> \o FlattenSeq(es) \o <<end>>
    BY DEF ServiceEvents
  <1> HIDE DEF start, end, es, st, p, q
  <1>9. <<start>> \in Seq(DocEvents) /\ <<end>> \in Seq(DocEvents)
    BY <1>3
  <1>10. FlattenSeq(es) \in Seq(DocEvents)
    BY <1>2, FlattenToSet
  <1>11. <<start>> \o FlattenSeq(es) \in Seq(DocEvents)
    BY <1>9, <1>10, ConcatProperties
  <1>12. Reads(p, <<start>>, st[0]) /\ Reads(st[Len(s)], <<end>>, q)
    BY <1>4, <1>7, ReadsOne
  <1>13. Reads(p, <<start>> \o FlattenSeq(es), st[Len(s)])
    BY <1>5, <1>9, <1>10, <1>12, ReadsConcat
  <1>14. Reads(p, ServiceEvents(s), q)
    BY <1>8, <1>9, <1>11, <1>12, <1>13, ReadsConcat
  <1>15. ServiceEvents(s) \in Seq(DocEvents)
    BY <1>8, <1>9, <1>11, ConcatProperties
  <1> QED
    BY <1>14, <1>15 DEF p, q

-----------------------------------------------------------------------------
(* A description.                                                            *)

\* The services of a kind among the first i, the last of them, and what the
\* parser has found in those i.
OfKind(d, i, kind) == {j \in 1..i : Says(d[j], "serviceType") = kind}
LastOf(d, i, kind) == CHOOSE j \in OfKind(d, i, kind) : \A k \in OfKind(d, i, kind) : k <= j
FoundIn(d, i) == [kind \in WanKinds |->
    IF OfKind(d, i, kind) = {} THEN None ELSE Urls(d[LastOf(d, i, kind)])]

\* There is a last one when there is one.
LEMMA LastOfKind ==
    ASSUME NEW d, NEW i \in Nat, NEW kind, OfKind(d, i, kind) # {}
    PROVE  /\ LastOf(d, i, kind) \in OfKind(d, i, kind)
           /\ \A k \in OfKind(d, i, kind) : k <= LastOf(d, i, kind)
  <1> DEFINE S == OfKind(d, i, kind)
  <1>1. S \in SUBSET (1..i)
    BY DEF OfKind
  <1> HIDE DEF S
  <1>2. S # {}
    BY DEF S
  <1>3. \E j \in S : \A k \in S : k <= j
    BY <1>1, <1>2, LastOne
  <1> QED
    BY <1>3, Zenon DEF LastOf, S

\* The next service goes before the ones of its kind, and no other kind is
\* touched.
LEMMA FoundNext ==
    ASSUME NEW d, NEW i \in Nat, i # 0
    PROVE  FoundIn(d, i) = AndService(FoundIn(d, i - 1), d[i])
  <1> DEFINE said == Says(d[i], "serviceType")
  <1>1. i - 1 \in Nat
    OBVIOUS
  <1>2. \A kind : kind # said => OfKind(d, i, kind) = OfKind(d, i - 1, kind)
    BY DEF OfKind
  <1>3. i \in OfKind(d, i, said) /\ \A k \in OfKind(d, i, said) : k <= i /\ k \in Nat
    BY DEF OfKind
  <1>4. OfKind(d, i, said) # {} /\ LastOf(d, i, said) = i
    <2>1. OfKind(d, i, said) # {}
      BY <1>3
    <2>2. LastOf(d, i, said) \in OfKind(d, i, said) /\ i <= LastOf(d, i, said)
      BY <1>3, <2>1, LastOfKind
    <2> QED
      BY <1>3, <2>1, <2>2
  <1> HIDE DEF said
  <1>5. ASSUME NEW kind \in WanKinds
        PROVE  FoundIn(d, i)[kind] = IF kind = said THEN Urls(d[i]) ELSE FoundIn(d, i - 1)[kind]
    <2>1. CASE kind = said
      BY <1>4, <2>1 DEF FoundIn
    <2>2. CASE kind # said
      <3>1. OfKind(d, i, kind) = OfKind(d, i - 1, kind)
        BY <1>2, <2>2
      <3>2. LastOf(d, i, kind) = LastOf(d, i - 1, kind)
        BY <3>1 DEF LastOf
      <3> QED
        BY <2>2, <3>1, <3>2 DEF FoundIn
    <2> QED
      BY <2>1, <2>2
  <1>6. AndService(FoundIn(d, i - 1), d[i]) =
           IF said \in WanKinds THEN [FoundIn(d, i - 1) EXCEPT ![said] = Urls(d[i])]
           ELSE FoundIn(d, i - 1)
    BY DEF AndService, said
  <1>7. /\ FoundIn(d, i) = [kind \in WanKinds |-> FoundIn(d, i)[kind]]
        /\ FoundIn(d, i - 1) = [kind \in WanKinds |-> FoundIn(d, i - 1)[kind]]
    BY DEF FoundIn
  <1> QED
    BY <1>5, <1>6, <1>7

\* The parser ends with what it found in all of the services.
LEMMA DescriptionIsRead ==
    ASSUME NEW d \in Description
    PROVE  /\ Events(d) \in Seq(DocEvents)
           /\ \E tag, current : Reads(ParserStart, Events(d), Parser(FALSE, tag, current, FoundIn(d, Len(d))))
  <1> DEFINE ss == [i \in DOMAIN d |-> ServiceEvents(d[i])]
             N == Len(d)
  <1>1. N \in Nat /\ DOMAIN d = 1..N /\ \A i \in 1..N : d[i] \in ServiceDesc
    BY DEF Description
  <1>2. \A i \in 1..N : ServiceEvents(d[i]) \in Seq(DocEvents)
    BY <1>1, ServiceIsRead
  <1>3. ss \in Seq(Seq(DocEvents)) /\ Len(ss) = N
    BY <1>1, <1>2, IsASeq
  <1>4. PICK h \in [0..Len(ss) -> Seq(DocEvents)] :
              /\ h[0] = <<>>
              /\ \A i \in 1..Len(ss) : h[i] = h[i - 1] \o ss[i]
              /\ FlattenSeq(ss) = h[Len(ss)]
    BY <1>3, FlattenSteps
  <1> DEFINE R == {i \in 0..N : \E tag, current :
                     Reads(ParserStart, h[i], Parser(FALSE, tag, current, FoundIn(d, i)))}
  <1>5. 0 \in R
    <2>1. FoundIn(d, 0) = NoServices
      <3>1. \A kind : OfKind(d, 0, kind) = {}
        BY DEF OfKind
      <3> QED
        BY <3>1 DEF FoundIn, NoServices
    <2>2. ParserStart = Parser(FALSE, Blank, Cleared, FoundIn(d, 0))
      BY <2>1 DEF ParserStart, Parser
    <2>3. Reads(ParserStart, h[0], Parser(FALSE, Blank, Cleared, FoundIn(d, 0)))
      BY <1>4, <2>2, ReadsNone
    <2> QED
      BY <1>1, <2>3
  <1>6. \A i \in 1..N : i - 1 \in R => i \in R
    <2> SUFFICES ASSUME NEW i \in 1..N, i - 1 \in R PROVE i \in R
      OBVIOUS
    <2>1. PICK tag, current :
             Reads(ParserStart, h[i - 1], Parser(FALSE, tag, current, FoundIn(d, i - 1)))
      OBVIOUS
    <2>2. PICK last : Reads(Parser(FALSE, tag, current, FoundIn(d, i - 1)), ServiceEvents(d[i]),
                            Parser(FALSE, last, SaidBy(d[i], Len(d[i])), AndService(FoundIn(d, i - 1), d[i])))
      BY <1>1, ServiceIsRead
    <2>3. h[i] = h[i - 1] \o ServiceEvents(d[i])
      BY <1>1, <1>3, <1>4
    <2>4. h[i - 1] \in Seq(DocEvents)
      BY <1>1, <1>3, <1>4
    <2>5. FoundIn(d, i) = AndService(FoundIn(d, i - 1), d[i])
      BY <1>1, FoundNext
    <2> HIDE DEF R, N
    <2>6. Reads(ParserStart, h[i], Parser(FALSE, last, SaidBy(d[i], Len(d[i])), FoundIn(d, i)))
      BY <1>2, <2>1, <2>2, <2>3, <2>4, <2>5, ReadsConcat
    <2>7. i \in 0..N
      BY <1>1
    <2> USE DEF R
    <2> QED
      BY <2>6, <2>7
  <1>7. N \in R
    <2>1. 0..N \subseteq R
      <3> HIDE DEF R, N
      <3> QED
        BY <1>1, <1>5, <1>6, SpanInduction
    <2> QED
      BY <1>1, <2>1
  <1>8. Events(d) = h[N]
    BY <1>3, <1>4 DEF Events
  <1> QED
    BY <1>1, <1>3, <1>4, <1>7, <1>8

\* parse_root_desc returns that.
LEMMA ParseRootDescFinds ==
    ASSUME NEW d \in Description
    PROVE  ParseRootDesc(d) = FoundIn(d, Len(d))
  <1> DEFINE es == Events(d)
             N == Len(es)
             Sol(g) == g = [i \in 0..N |-> IF i = 0 THEN {ParserStart}
                                           ELSE {ReadEvent(p, es[i]) : p \in g[i - 1]}]
             parser == CHOOSE g : Sol(g)
  <1>1. PICK tag, current : Reads(ParserStart, es, Parser(FALSE, tag, current, FoundIn(d, Len(d))))
    BY DescriptionIsRead
  <1> DEFINE end == Parser(FALSE, tag, current, FoundIn(d, Len(d)))
  <1>2. PICK f : /\ f[0] = ParserStart
                 /\ f[N] = end
                 /\ \A i \in 1..N : f[i] = ReadEvent(f[i - 1], es[i])
    BY <1>1 DEF Reads
  <1>3. N \in Nat
    BY DescriptionIsRead, LenProperties
  <1>4. ParseRootDesc(d) = (CHOOSE p \in parser[N] : TRUE).found
    BY Zenon DEF ParseRootDesc
  <1> HIDE DEF es, N, end
  <1> DEFINE g == [i \in 0..N |-> {f[i]}]
  <1>5. Sol(g)
    <2>1. ASSUME NEW i \in 0..N
          PROVE  {f[i]} = IF i = 0 THEN {ParserStart} ELSE {ReadEvent(p, es[i]) : p \in g[i - 1]}
      <3>1. CASE i = 0
        BY <1>2, <3>1
      <3>2. CASE i # 0
        <4>1. i \in 1..N /\ i - 1 \in 0..N
          BY <1>3, <3>2
        <4>2. g[i - 1] = {f[i - 1]}
          BY <4>1
        <4>3. f[i] = ReadEvent(f[i - 1], es[i])
          BY <1>2, <4>1
        <4> HIDE DEF g
        <4> QED
          BY <3>2, <4>2, <4>3
      <3> QED
        BY <3>1, <3>2
    <2> QED
      BY <2>1
  <1>6. Sol(parser)
    BY <1>5, Zenon
  <1>7. \A i \in 0..N : parser[i] = IF i = 0 THEN {ParserStart}
                                    ELSE {ReadEvent(p, es[i]) : p \in parser[i - 1]}
    <2> HIDE DEF parser
    <2> QED
      BY <1>6, Zenon
  <1> HIDE DEF parser
  <1> DEFINE T == {i \in 0..N : parser[i] = {f[i]}}
  <1>8. 0 \in T
    <2>1. 0 \in 0..N
      BY <1>3
    <2>2. parser[0] = {ParserStart}
      BY <1>7, <2>1
    <2> QED
      BY <1>2, <2>1, <2>2
  <1>9. \A i \in 1..N : i - 1 \in T => i \in T
    <2> SUFFICES ASSUME NEW i \in 1..N, i - 1 \in T PROVE parser[i] = {f[i]}
      BY <1>3
    <2>1. i \in 0..N /\ i # 0
      BY <1>3
    <2>2. parser[i] = {ReadEvent(p, es[i]) : p \in parser[i - 1]}
      BY <1>7, <2>1
    <2>3. parser[i - 1] = {f[i - 1]}
      OBVIOUS
    <2> QED
      BY <1>2, <2>2, <2>3
  <1>10. parser[N] = {end}
    <2>1. 0..N \subseteq T
      <3> HIDE DEF T
      <3> QED
        BY <1>3, <1>8, <1>9, SpanInduction
    <2> QED
      BY <1>2, <1>3, <2>1
  <1>11. (CHOOSE p \in parser[N] : TRUE) = end
    BY <1>10
  <1>12. end.found = FoundIn(d, Len(d))
    BY DEF end, Parser
  <1> QED
    BY <1>4, <1>11, <1>12, Zenon

\* The URLs that are taken are those of the service that is meant.
LEMMA TheMeantIsFound ==
    ASSUME NEW d \in Description
    PROVE  LET read == ParseRootDesc(d) IN
           /\ Meant(d) = {} => ControlUrl(read) = None /\ EventUrl(read) = None
           /\ \A i \in Meant(d) : /\ ControlUrl(read) = Resolve(Says(d[i], "controlURL"))
                                  /\ EventUrl(read) = Resolve(Says(d[i], "eventSubURL"))
  <1> DEFINE N == Len(d)
             Of(kind) == OfKind(d, N, kind)
             kind0 == IF Of("WANIPConnection") # {} THEN "WANIPConnection" ELSE "WANPPPConnection"
             read == FoundIn(d, N)
  <1>1. N \in Nat /\ DOMAIN d = 1..N /\ \A i \in 1..N : d[i] \in ServiceDesc
    BY DEF Description
  <1>2. ParseRootDesc(d) = read
    BY ParseRootDescFinds
  <1>3. Meant(d) = {i \in Of(kind0) : \A j \in Of(kind0) : j <= i}
    <2>1. \A kind : {i \in DOMAIN d : Says(d[i], "serviceType") = kind} = Of(kind)
      BY <1>1 DEF OfKind
    <2> QED
      BY <2>1 DEF Meant
  <1>4. ASSUME NEW i \in 1..N PROVE Urls(d[i]) # None
    <2>1. ASSUME NEW tag \in {"controlURL", "eventSubURL"} PROVE Resolve(Says(d[i], tag)) \in Url
      <3> DEFINE said == {j \in DOMAIN d[i] : d[i][j].tag = tag}
      <3>1. \A j \in DOMAIN d[i] : d[i][j] \in Element
        BY <1>1, ElementOfSeq DEF ServiceDesc
      <3>2. \A j \in said : d[i][j].text \in Url
        BY <3>1 DEF Element
      <3>3. Says(d[i], tag) = IF said = {} THEN Blank ELSE d[i][CHOOSE j \in said : TRUE].text
        BY Zenon DEF Says
      <3> HIDE DEF said
      <3>4. Says(d[i], tag) \in Url
        BY <3>2, <3>3 DEF Url
      <3> QED
        BY <3>4 DEF Resolve, Url, Host
    <2> QED
      BY <2>1, RootDescAssumption DEF Urls, DocUrls
  <1>5. ASSUME NEW kind \in WanKinds
        PROVE  /\ Of(kind) = {} <=> read[kind] = None
               /\ Of(kind) # {} => \A i \in Of(kind) : (\A j \in Of(kind) : j <= i) => read[kind] = Urls(d[i])
    <2>1. Of(kind) \subseteq 1..N
      BY DEF OfKind
    <2>2. Of(kind) = {} => read[kind] = None
      BY DEF FoundIn
    <2>3. Of(kind) # {} => /\ read[kind] = Urls(d[LastOf(d, N, kind)])
                           /\ LastOf(d, N, kind) \in Of(kind)
                           /\ \A k \in Of(kind) : k <= LastOf(d, N, kind)
      BY <1>1, LastOfKind DEF FoundIn
    <2> HIDE DEF Of, read
    <2>4. \A i, j \in Of(kind) : i <= j /\ j <= i => i = j
      BY <1>1, <2>1
    <2> QED
      BY <1>4, <2>1, <2>2, <2>3, <2>4
  <1>6. kind0 \in WanKinds /\ Of(kind0) = {} => \A kind \in WanKinds : Of(kind) = {}
    BY DEF WanKinds
  <1>7. \A url : Preferred(read, url) = IF read[kind0] = None THEN None ELSE read[kind0][url]
    BY <1>5 DEF Preferred, WanKinds
  <1>8. Meant(d) # {} <=> Of(kind0) # {}
    <2>1. kind0 \in WanKinds
      BY DEF WanKinds
    <2>2. Of(kind0) # {} => LastOf(d, N, kind0) \in Of(kind0) /\ \A k \in Of(kind0) : k <= LastOf(d, N, kind0)
      BY <1>1, LastOfKind
    <2> QED
      BY <1>3, <2>2
  <1>9. ASSUME NEW i \in Meant(d)
        PROVE  read[kind0] # None /\ read[kind0] = Urls(d[i])
    BY <1>3, <1>5 DEF WanKinds
  <1> HIDE DEF read, kind0, Of
  <1>10. Meant(d) = {} => Preferred(read, "control") = None /\ Preferred(read, "event") = None
    BY <1>5, <1>7, <1>8 DEF kind0, WanKinds
  <1>11. \A i \in Meant(d) : /\ Preferred(read, "control") = Resolve(Says(d[i], "controlURL"))
                             /\ Preferred(read, "event") = Resolve(Says(d[i], "eventSubURL"))
    <2> SUFFICES ASSUME NEW i \in Meant(d)
                 PROVE  /\ Preferred(read, "control") = Resolve(Says(d[i], "controlURL"))
                        /\ Preferred(read, "event") = Resolve(Says(d[i], "eventSubURL"))
      OBVIOUS
    <2>1. /\ Urls(d[i])["control"] = Resolve(Says(d[i], "controlURL"))
          /\ Urls(d[i])["event"] = Resolve(Says(d[i], "eventSubURL"))
      BY DEF Urls
    <2>2. /\ Preferred(read, "control") = Urls(d[i])["control"]
          /\ Preferred(read, "event") = Urls(d[i])["event"]
      BY <1>7, <1>9
    <2> QED
      BY <2>1, <2>2
  <1> QED
    BY <1>2, <1>10, <1>11 DEF ControlUrl, EventUrl

\* What the router serves is a description, each service saying a thing once.
LEMMA DocTyped == DocSpec => [](doc \in Description)
  <1>1. DocInit => doc \in Description
    BY DEF DocInit, Description
  <1>2. doc \in Description /\ [DocNext]_doc => (doc \in Description)'
    <2> SUFFICES ASSUME doc \in Description, [DocNext]_doc PROVE doc' \in Description
      OBVIOUS
    <2>1. Len(doc) \in Nat /\ DOMAIN doc = 1..Len(doc) /\ \A i \in 1..Len(doc) : doc[i] \in ServiceDesc
      BY DEF Description
    <2>2. CASE AddService
      <3>1. <<>> \in ServiceDesc
        BY DEF ServiceDesc
      <3> QED
        BY <2>2, <3>1, AppendProperties DEF AddService, Description
    <2>3. CASE AddElement
      <3>0. PICK tag \in Tags : \E text \in Text(tag) :
               /\ \A i \in DOMAIN Last(doc) : Last(doc)[i].tag # tag
               /\ doc' = [doc EXCEPT ![Len(doc)] = Append(@, [tag |-> tag, text |-> text])]
        BY <2>3 DEF AddElement
      <3>1. PICK text \in Text(tag) :
               /\ \A i \in DOMAIN Last(doc) : Last(doc)[i].tag # tag
               /\ doc' = [doc EXCEPT ![Len(doc)] = Append(@, [tag |-> tag, text |-> text])]
        BY <3>0
      <3> DEFINE e == [tag |-> tag, text |-> text]
                 s == doc[Len(doc)]
      <3>2. Len(doc) \in 1..Len(doc)
        BY <2>1, <2>3, EmptySeq DEF AddElement, Description
      <3>3. s \in ServiceDesc /\ \A i \in DOMAIN s : s[i].tag # tag
        BY <2>1, <3>1, <3>2 DEF Last
      <3>4. e \in Element
        <4>1. tag = "serviceType" => text \in WanKinds \cup {"other"}
          BY DEF Text
        <4>2. tag # "serviceType" => tag \in {"controlURL", "eventSubURL"} /\ text \in Url
          <5>1. tag # "serviceType" => <<tag, Len(doc)>> \in Tags \X Nat
            BY <2>1
          <5> QED
            BY <5>1 DEF Text, Tags, Url
        <4> QED
          BY <4>1, <4>2 DEF Element
      <3> HIDE DEF e
      <3>5. e.tag = tag
        BY DEF e
      <3>6. Append(s, e) \in ServiceDesc
        <4>1. s \in Seq(Element) /\ \A i, j \in DOMAIN s : s[i].tag = s[j].tag => i = j
          BY <3>3 DEF ServiceDesc
        <4> HIDE DEF s
        <4>2. /\ Append(s, e) \in Seq(Element)
              /\ DOMAIN s = 1..Len(s)
              /\ DOMAIN Append(s, e) = 1..(Len(s) + 1)
              /\ Len(s) \in Nat
              /\ \A i \in 1..Len(s) : Append(s, e)[i] = s[i]
              /\ Append(s, e)[Len(s) + 1] = e
          BY <3>4, <4>1, AppendProperties
        <4>3. \A i \in 1..(Len(s) + 1) : i \in 1..Len(s) \/ i = Len(s) + 1
          BY <4>2
        <4>4. \A i \in 1..Len(s) : s[i].tag # tag
          BY <3>3, <4>2
        <4>5. \A i, j \in 1..(Len(s) + 1) : Append(s, e)[i].tag = Append(s, e)[j].tag => i = j
          BY <3>5, <4>1, <4>2, <4>3, <4>4
        <4> QED
          BY <4>2, <4>5 DEF ServiceDesc
      <3>7. doc' = [doc EXCEPT ![Len(doc)] = Append(s, e)]
        BY <3>1, <3>2 DEF e
      <3> HIDE DEF s
      <3> QED
        BY <3>2, <3>6, <3>7, ExceptSeq DEF Description
    <2> QED
      BY <2>2, <2>3 DEF DocNext
  <1> QED
    BY <1>1, <1>2, PTL DEF DocSpec

\* Of a description with any number of services, that say what they say in any
\* order, the URLs of the one that is meant are read, and of one without a WAN
\* connection service none.
THEOREM RootDescParses == DocSpec => []RootDescIsRead
  <1>1. doc \in Description => RootDescIsRead
    BY TheMeantIsFound DEF RootDescIsRead
  <1> QED
    BY <1>1, DocTyped, PTL

-----------------------------------------------------------------------------
(* main                                                                      *)

\* What main goes on with is what it has read of the description, and slow
\* polling comes with the subscription.
StartupInv ==
    /\ doc \in Description
    /\ step \in {"address", "subscribe", "servers", "running"} =>
          services = ParseRootDesc(doc) /\ ControlUrl(services) # None
    /\ polling = "slow" => step \in {"servers", "running"} /\ subscribed = EventUrl(services)

\* A controller that polls slowly listens to the service it asks for the
\* address, whatever description it was started with, and whatever is lost.
THEOREM StartupListens == StartupSpec => []ListensOrPollsFast
  <1>1. StartupInit => StartupInv
    BY DEF StartupInit, StartupInv
  <1>2. ASSUME StartupInv, [StartupNext]_startupVars PROVE StartupInv'
    <2> USE <1>2 DEF StartupInv, main, router, startupVars
    <2>1. CASE RouterGoes
      BY <2>1 DEF RouterGoes
    <2>2. CASE RouterComes
      BY <2>2 DEF RouterComes
    <2>3. CASE Restart
      BY <2>3 DEF Restart
    <2>4. CASE ProbeFails
      BY <2>4 DEF ProbeFails, Exit
    <2>5. CASE MainDies
      BY <2>5 DEF MainDies, Exit
    <2>6. CASE SsdpDiscover
      BY <2>6 DEF SsdpDiscover, Exit
    <2>7. CASE DiscoverGateway
      BY <2>7 DEF DiscoverGateway, Exit
    <2>8. CASE GetInitialIp
      BY <2>8 DEF GetInitialIp
    <2>9. CASE SubscribeGena
      BY <2>9 DEF SubscribeGena
    <2>10. CASE BindServers
      BY <2>10 DEF BindServers
    <2>11. CASE UNCHANGED startupVars
      BY <2>11
    <2> QED
      BY <2>1, <2>2, <2>3, <2>4, <2>5, <2>6, <2>7, <2>8, <2>9, <2>10, <2>11 DEF StartupNext, Main
  <1>3. StartupInv => ListensOrPollsFast
    <2> SUFFICES ASSUME StartupInv, polling = "slow"
                 PROVE  \E i \in Meant(doc) :
                           /\ subscribed = Resolve(Says(doc[i], "eventSubURL"))
                           /\ ControlUrl(services) = Resolve(Says(doc[i], "controlURL"))
      BY DEF ListensOrPollsFast
    <2>1. /\ doc \in Description
          /\ services = ParseRootDesc(doc)
          /\ ControlUrl(services) # None
          /\ subscribed = EventUrl(services)
      BY DEF StartupInv
    <2> QED
      BY <2>1, TheMeantIsFound
  <1> QED
    BY <1>1, <1>2, <1>3, PTL DEF StartupSpec
=============================================================================
