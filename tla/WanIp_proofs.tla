---------------------------- MODULE WanIp_proofs ----------------------------
(* Proofs about the WAN address and the DNSEndpoint controller: the types,    *)
(* for any number of endpoints, handlers, addresses and any lag.              *)
EXTENDS WanIp, SequenceTheorems, TLAPS

\* What update_all_managed may still hold of its list.
Listed == UNION {[D -> Version] : D \in SUBSET Endpoints}

Job == [pc: {"idle", "asking", "heard", "push", "patch"}, ip: Addresses,
        listed: Listed \cup {<<>>}]

\* Where a worker is says what it knows.
JobFits(w) ==
    /\ At(w, "idle") => job[w] = IdleJob
    /\ ~At(w, "idle") => (job[w].ip = Unknown <=> At(w, "asking"))
    /\ At(w, "patch") => job[w].listed \in Listed /\ DOMAIN job[w].listed # {}

\* TypeOK says of dns and job what a reader needs; this is what the steps need.
Types ==
    /\ wan \in Ips /\ sent \subseteq Ips /\ current \in Addresses
    /\ subscribed \in BOOLEAN /\ active \in BOOLEAN
    /\ job \in [Workers -> Job]
    /\ \A w \in Workers : JobFits(w)
    /\ dns \in [Endpoints -> Seq(Version) \ {<<>>}]
    /\ fix \in [Endpoints -> Version \cup {Nothing}]
    /\ due \subseteq Endpoints
    /\ changes \in 0..MaxChanges /\ faults \in 0..MaxFaults /\ edits \in 0..MaxEdits

-----------------------------------------------------------------------------
\* The versions of an endpoint.
LEMMA Versions ==
    ASSUME Types, NEW e \in Endpoints
    PROVE  /\ dns[e] \in Seq(Version) /\ dns[e] # <<>> /\ Len(dns[e]) \in Nat \ {0}
           /\ Current(e) \in Version
           /\ \A i \in 1..Len(dns[e]) : dns[e][i] \in Version
<1>1. dns[e] \in Seq(Version) /\ dns[e] # <<>>
  BY DEF Types
<1>2. Len(dns[e]) \in Nat /\ Len(dns[e]) # 0
  BY <1>1, EmptySeq, LenProperties
<1>3. QED
  BY <1>1, <1>2, ElementOfSeq DEF Current, Last

\* A patched version is a version.
LEMMA PatchedVersion ==
    ASSUME NEW v \in Version, NEW ip \in Addresses
    PROVE  Patched(v, ip) \in Version
BY DEF Patched, Version

\* A write keeps the types of the endpoints.
LEMMA WriteTypes ==
    ASSUME Types, NEW e \in Endpoints, NEW v \in Version, Write(e, v) \/ UNCHANGED dns
    PROVE  dns' \in [Endpoints -> Seq(Version) \ {<<>>}]
<1>1. /\ <<v>> \in Seq(Version) \ {<<>>}
      /\ Append(dns[e], v) \in Seq(Version) \ {<<>>}
  BY Versions, AppendProperties
<1>2. QED
  BY <1>1 DEF Write, Types

\* A worker at a step with what it knows there keeps the types.
LEMMA GoToTypes ==
    ASSUME Types, NEW w \in Workers, NEW step, NEW ip, NEW listed,
           GoTo(w, step, ip, listed),
           \/ step = "idle" /\ ip = Unknown /\ listed = <<>>
           \/ step = "asking" /\ ip = Unknown /\ listed = <<>>
           \/ step \in {"heard", "push"} /\ ip \in Ips /\ listed = <<>>
           \/ step = "patch" /\ ip \in Ips /\ listed \in Listed /\ DOMAIN listed # {}
    PROVE  job' \in [Workers -> Job] /\ \A x \in Workers : JobFits(x)'
<1>1. Unknown \notin Ips
  BY WanAssumption
<1>2. [pc |-> step, ip |-> ip, listed |-> listed] \in Job
  BY DEF Job, Addresses
<1>3. /\ job' \in [Workers -> Job]
      /\ job'[w] = [pc |-> step, ip |-> ip, listed |-> listed]
      /\ \A x \in Workers \ {w} : job'[x] = job[x]
  BY <1>2 DEF GoTo, Types
<1>4. JobFits(w)'
  BY <1>1, <1>3 DEF JobFits, At, IdleJob
<1>5. \A x \in Workers \ {w} : JobFits(x)'
  BY <1>3 DEF Types, JobFits, At
<1>6. QED
  BY <1>3, <1>4, <1>5

\* Where a worker that has heard an address is.
LEMMA HeardIp ==
    ASSUME Types, NEW w \in Workers, At(w, "heard") \/ At(w, "push") \/ At(w, "patch")
    PROVE  job[w].ip \in Ips
BY DEF Types, JobFits, At, Job, Addresses

-----------------------------------------------------------------------------
\* The poll task and the handlers.
LEMMA PollTypes ==
    ASSUME Types, PollAsks \/ RouterAnswers \/ \E h \in Handlers : Receive(h)
    PROVE  Types'
<1>0. Poll \in Workers /\ \A h \in Handlers : h \in Workers
  BY DEF Workers
<1>1. CASE PollAsks
  BY <1>0, <1>1, GoToTypes DEF PollAsks, gateway, dnsVars, Types
<1>2. CASE RouterAnswers
  <2>1. wan \in Ips
    BY DEF Types
  <2>2. job' \in [Workers -> Job] /\ \A x \in Workers : JobFits(x)'
    BY <1>0, <1>2, <2>1, GoToTypes DEF RouterAnswers
  <2>3. faults' \in 0..MaxFaults
    BY <1>2, WanAssumption DEF RouterAnswers, Fault, Types
  <2>4. QED
    BY <1>2, <2>2, <2>3 DEF RouterAnswers, gateway, dnsVars, Types
<1>3. ASSUME NEW h \in Handlers, Receive(h) PROVE Types'
  <2>1. PICK ip \in sent : sent' = sent \ {ip} /\ GoTo(h, "heard", ip, <<>>)
    BY <1>3 DEF Receive
  <2>2. ip \in Ips
    BY DEF Types
  <2>3. job' \in [Workers -> Job] /\ \A x \in Workers : JobFits(x)'
    BY <1>0, <2>1, <2>2, GoToTypes
  <2>4. QED
    BY <1>3, <2>1, <2>3 DEF Receive, gateway, dnsVars, Types
<1>4. QED
  BY <1>1, <1>2, <1>3

\* A push of an address.
LEMMA PushTypes ==
    ASSUME Types, NEW w \in Workers, Push(w)
    PROVE  Types'
<1>1. CASE TakeIp(w)
  <2>1. job[w].ip \in Ips
    BY <1>1, HeardIp DEF TakeIp
  <2>2. job' \in [Workers -> Job] /\ \A x \in Workers : JobFits(x)'
    BY <1>1, <2>1, GoToTypes DEF TakeIp
  <2>3. current' \in Addresses
    BY <1>1, <2>1 DEF TakeIp, Addresses
  <2>4. QED
    BY <1>1, <2>2, <2>3 DEF TakeIp, gateway, dnsVars, Types
<1>2. CASE ListManaged(w)
  <2>1. faults' \in 0..MaxFaults
    BY <1>2, WanAssumption DEF ListManaged, Fault, Types
  <2>2. job' \in [Workers -> Job] /\ \A x \in Workers : JobFits(x)'
    <3>1. CASE GoTo(w, "idle", Unknown, <<>>)
      BY <3>1, GoToTypes
    <3>2. CASE GoTo(w, "patch", job[w].ip, [e \in Endpoints |-> Current(e)])
      <4> DEFINE listed == [e \in Endpoints |-> Current(e)]
      <4>1. listed \in [Endpoints -> Version] /\ DOMAIN listed # {}
        BY Versions, WanAssumption
      <4>2. listed \in Listed /\ job[w].ip \in Ips
        BY <1>2, <4>1, HeardIp DEF Listed, ListManaged
      <4> HIDE DEF listed
      <4>3. QED
        BY <3>2, <4>1, <4>2, GoToTypes DEF listed
    <3>3. QED
      BY <1>2, <3>1, <3>2 DEF ListManaged
  <2>3. QED
    BY <1>2, <2>1, <2>2 DEF ListManaged, gateway, dnsVars, Types
<1>3. CASE PatchListed(w)
  <2>1. PICK e \in DOMAIN job[w].listed :
          /\ TryToWrite(e, Patched(job[w].listed[e], job[w].ip))
          /\ IF DOMAIN job[w].listed = {e}
             THEN GoTo(w, "idle", Unknown, <<>>)
             ELSE GoTo(w, "patch", job[w].ip,
                       Restrict(job[w].listed, DOMAIN job[w].listed \ {e}))
    BY <1>3 DEF PatchListed
  <2>2. job[w].ip \in Ips /\ job[w].listed \in Listed
    BY <1>3, HeardIp DEF PatchListed, Types, JobFits
  <2>3. e \in Endpoints /\ job[w].listed[e] \in Version
    BY <2>2 DEF Listed
  <2>4. Patched(job[w].listed[e], job[w].ip) \in Version
    BY <2>2, <2>3, PatchedVersion DEF Addresses
  <2>5. dns' \in [Endpoints -> Seq(Version) \ {<<>>}]
    BY <2>1, <2>3, <2>4, WriteTypes DEF TryToWrite
  <2>6. faults' \in 0..MaxFaults
    BY <2>1, WanAssumption DEF TryToWrite, Fault, Types
  <2>7. job' \in [Workers -> Job] /\ \A x \in Workers : JobFits(x)'
    <3>1. CASE DOMAIN job[w].listed = {e}
      BY <2>1, <3>1, GoToTypes
    <3>2. CASE DOMAIN job[w].listed # {e}
      <4> DEFINE rest == Restrict(job[w].listed, DOMAIN job[w].listed \ {e})
      <4>1. rest = [x \in DOMAIN job[w].listed \ {e} |-> job[w].listed[x]]
        BY DEF Restrict
      <4>2. rest \in Listed /\ DOMAIN rest # {}
        BY <2>1, <2>2, <3>2, <4>1 DEF Listed
      <4> HIDE DEF rest
      <4>3. QED
        BY <2>1, <2>2, <3>2, <4>2, GoToTypes DEF rest
    <3>3. QED
      BY <3>1, <3>2
  <2>8. QED
    BY <1>3, <2>5, <2>6, <2>7 DEF PatchListed, gateway, Types
<1>4. QED
  BY <1>1, <1>2, <1>3 DEF Push

\* The controller, the users and the watch.
LEMMA EndpointTypes ==
    ASSUME Types, NEW e \in Endpoints,
           UserEdits(e) \/ Deliver(e) \/ Reconcile(e) \/ PatchCached(e)
    PROVE  Types'
<1>0. dns[e][1] \in Version /\ Current(e) \in Version
  BY Versions
<1>1. CASE UserEdits(e)
  <2>1. PICK t \in {Current(e).target, Unknown}, r \in Rests :
          Write(e, [target |-> t, rest |-> r])
    BY <1>1 DEF UserEdits
  <2>2. [target |-> t, rest |-> r] \in Version
    BY <1>0 DEF Version, Addresses
  <2>3. dns' \in [Endpoints -> Seq(Version) \ {<<>>}]
    BY <2>1, <2>2, WriteTypes
  <2>4. edits' \in 0..MaxEdits
    BY <1>1, WanAssumption DEF UserEdits, Types
  <2>5. QED
    BY <1>1, <2>3, <2>4 DEF UserEdits, gateway, Types, JobFits, At
<1>2. CASE Deliver(e)
  <2>1. Tail(dns[e]) \in Seq(Version) \ {<<>>}
    <3>1. Len(Tail(dns[e])) # 0 /\ Tail(dns[e]) \in Seq(Version)
      BY <1>2, Versions, HeadTailProperties DEF Deliver
    <3>2. QED
      BY <3>1, EmptySeq
  <2>2. dns' \in [Endpoints -> Seq(Version) \ {<<>>}]
    BY <1>2, <2>1 DEF Deliver, Types
  <2>3. QED
    BY <1>2, <2>2 DEF Deliver, gateway, Types, JobFits, At
<1>3. CASE Reconcile(e)
  <2>1. Patched(dns[e][1], current) \in Version
    BY <1>0, PatchedVersion DEF Types
  <2>2. fix' \in [Endpoints -> Version \cup {Nothing}]
    BY <1>3, <2>1 DEF Reconcile, Types
  <2>3. QED
    BY <1>3, <2>2 DEF Reconcile, gateway, Types, JobFits, At
<1>4. CASE PatchCached(e)
  <2>1. fix[e] \in Version
    BY <1>4 DEF PatchCached, Fixing, Types
  <2>2. dns' \in [Endpoints -> Seq(Version) \ {<<>>}]
    BY <1>4, <2>1, WriteTypes DEF PatchCached, TryToWrite
  <2>3. faults' \in 0..MaxFaults
    BY <1>4, WanAssumption DEF PatchCached, TryToWrite, Fault, Types
  <2>4. fix' \in [Endpoints -> Version \cup {Nothing}]
    BY <1>4 DEF PatchCached, Types
  <2>5. QED
    BY <1>4, <2>2, <2>3, <2>4 DEF PatchCached, gateway, Types, JobFits, At
<1>5. QED
  BY <1>1, <1>2, <1>3, <1>4

\* However the pushes of different addresses overlap, each worker knows what its
\* step needs, and each endpoint has a version.
THEOREM WanTypes == Spec => []TypeOK
<1>1. Init => Types
  <2> SUFFICES ASSUME Init PROVE Types
    OBVIOUS
  <2>1. job \in [Workers -> Job] /\ \A w \in Workers : JobFits(w)
    BY DEF Init, Job, IdleJob, Addresses, JobFits, At
  <2>2. dns \in [Endpoints -> Seq(Version) \ {<<>>}]
    <3>1. \A r \in Rests : <<[target |-> Unknown, rest |-> r]>> \in Seq(Version) \ {<<>>}
      BY DEF Version, Addresses
    <3>2. {<<[target |-> Unknown, rest |-> r]>> : r \in Rests} \subseteq Seq(Version) \ {<<>>}
      BY <3>1
    <3>3. QED
      BY <3>2 DEF Init
  <2>3. fix \in [Endpoints -> Version \cup {Nothing}]
    BY DEF Init
  <2>4. changes \in 0..MaxChanges /\ faults \in 0..MaxFaults /\ edits \in 0..MaxEdits
    BY WanAssumption DEF Init
  <2>5. QED
    BY <2>1, <2>2, <2>3, <2>4 DEF Init, Types, Addresses
<1>2. Types /\ [Next]_vars => Types'
  <2> SUFFICES ASSUME Types, [Next]_vars PROVE Types'
    OBVIOUS
  <2>1. CASE AddressChanges
    <3>1. wan' \in Ips /\ sent' \subseteq Ips /\ changes' \in 0..MaxChanges
      BY <2>1, WanAssumption DEF AddressChanges, Types
    <3>2. QED
      BY <2>1, <3>1 DEF AddressChanges, dnsVars, Types, JobFits, At
  <2>2. CASE SubscriptionExpires
    BY <2>2 DEF SubscriptionExpires, dnsVars, Types, JobFits, At
  <2>3. CASE NotifyIsLost
    <3>1. sent' \subseteq Ips /\ faults' \in 0..MaxFaults
      BY <2>3, WanAssumption DEF NotifyIsLost, Fault, Types
    <3>2. QED
      BY <2>3, <3>1 DEF NotifyIsLost, gateway, dnsVars, Types, JobFits, At
  <2>4. CASE CrdEstablished
    BY <2>4 DEF CrdEstablished, gateway, Types, JobFits, At
  <2>5. CASE UNCHANGED vars
    BY <2>5 DEF vars, gateway, dnsVars, Types, JobFits, At
  <2>6. QED
    BY <2>1, <2>2, <2>3, <2>4, <2>5, PollTypes, PushTypes, EndpointTypes DEF Next
<1>3. Types => TypeOK
  <2> SUFFICES ASSUME Types PROVE TypeOK
    OBVIOUS
  <2>1. \A w \in Workers : At(w, "patch") => DOMAIN job[w].listed \subseteq Endpoints
    BY DEF Types, JobFits, Listed
  <2>2. QED
    BY <2>1, Versions DEF TypeOK, Types, JobFits
<1>4. QED
  BY <1>1, <1>2, <1>3, PTL DEF Spec
=============================================================================
