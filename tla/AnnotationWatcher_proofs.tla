------------------------ MODULE AnnotationWatcher_proofs ------------------------
(* Type correctness of the annotation watchers, and that a round that reaches  *)
(* its deletes has left every wanted port that has a proxy forwarded.          *)
EXTENDS AnnotationWatcher, SequenceTheorems, TLAPS

Obj == {None} \cup Object

\* The versions stay a nonempty sequence when one is appended, ...
LEMMA VersionsAppend ==
  ASSUME NEW S, NEW c \in Seq(S), NEW o \in S
  PROVE  Append(c, o) \in Seq(S) /\ Append(c, o) # <<>>
  BY AppendProperties

\* ... when the first is dropped and another is left, ...
LEMMA VersionsTail ==
  ASSUME NEW S, NEW c \in Seq(S), Len(c) > 1
  PROVE  Tail(c) \in Seq(S) /\ Tail(c) # <<>> /\ c[2] \in S
  <1>1. c # <<>> /\ Len(c) \in Nat /\ c[2] \in S
    OBVIOUS
  <1>2. Tail(c) \in Seq(S) /\ Len(Tail(c)) = Len(c) - 1
    BY <1>1, HeadTailProperties
  <1>3. Len(Tail(c)) # 0
    BY <1>1, <1>2
  <1> QED
    BY <1>1, <1>2, <1>3, EmptySeq

\* ... and when one alone is left.
LEMMA OneVersion ==
  ASSUME NEW S, NEW o \in S
  PROVE  <<o>> \in Seq(S) /\ <<o>> # <<>>
  OBVIOUS

\* The versions at both ends.
LEMMA EndVersions ==
  ASSUME NEW S, NEW c \in Seq(S), c # <<>>
  PROVE  c[1] \in S /\ c[Len(c)] \in S
  OBVIOUS

-----------------------------------------------------------------------------
(* The parts of TypeOK that a step may disturb.                               *)

RoundOK == round \in Round /\ req \in {"none", "now", "timer"}

\* What the round in progress holds, by its step.
LEMMA RoundFields ==
  ASSUME round \in Round
  PROVE  /\ round.pc \in {"idle", "list", "stopAll", "ensure", "apply", "delete"}
         /\ round.pc # "idle" => round.obj \in Object
         /\ round.pc \in {"stopAll", "ensure", "apply"} => round.owned \in SUBSET Keys
         /\ round.pc \in {"ensure", "apply", "delete"} => round.todo \in SUBSET Keys
         /\ round.pc = "apply" => round.key \in Keys /\ round.port \in Ports
  BY DEF Round

LEMMA FinishType ==
  ASSUME RoundOK, NEW r \in {"none", "timer"}, Finish(r)
  PROVE  RoundOK' /\ round' = Idle
  BY DEF RoundOK, Finish, Idle, Round

LEMMA ToDeleteType ==
  ASSUME RoundOK, round.obj \in Object, NEW todo \in SUBSET Keys,
         NEW r \in {"none", "timer"}, ToDelete(todo, r)
  PROVE  /\ RoundOK'
         /\ \/ round' = Idle
            \/ round' = [pc |-> "delete", obj |-> round.obj, todo |-> todo]
  <1>1. CASE todo = {}
    BY <1>1, FinishType DEF ToDelete
  <1>2. CASE todo # {}
    BY <1>2 DEF ToDelete, RoundOK, Round
  <1> QED
    BY <1>1, <1>2

\* After key k the round works on the next one, or goes on to the stale.
LEMMA NextKeyType ==
  ASSUME RoundOK, round.obj \in Object, round.owned \in SUBSET Keys,
         round.todo \in SUBSET Keys, NEW k \in Keys, NextKey(k)
  PROVE  /\ RoundOK'
         /\ \/ /\ round' = [pc |-> "ensure", obj |-> round.obj,
                            owned |-> round.owned, todo |-> round.todo \ {k}]
            \/ /\ round.todo \ {k} = {}
               /\ \/ round' = Idle
                  \/ round' = [pc |-> "delete", obj |-> round.obj,
                               todo |-> round.owned \ round.obj.wants]
  <1>1. CASE round.todo \ {k} # {}
    BY <1>1 DEF NextKey, RoundOK, Round
  <1>2. CASE round.todo \ {k} = {}
    <2>1. ToDelete(round.owned \ round.obj.wants, "timer")
      BY <1>2 DEF NextKey
    <2>2. round.owned \ round.obj.wants \in SUBSET Keys
      OBVIOUS
    <2> QED
      BY <1>2, <2>1, <2>2, ToDeleteType
  <1> QED
    BY <1>1, <1>2

LEMMA FaultType ==
  ASSUME faults \in 0..MaxFaults, Fault
  PROVE  faults' \in 0..MaxFaults
  BY WatcherAssumption DEF Fault

\* A PortMapping that is deleted keeps its port, as long as it is there.
LEMMA DeletedType ==
  ASSUME pm \in [Keys -> {None} \cup Pm], NEW k \in Keys, pm[k] # None, IsDeleted(k)
  PROVE  /\ pm' \in [Keys -> {None} \cup Pm]
         /\ \A j \in Keys : pm'[j] # None => pm[j] # None /\ pm'[j].port = pm[j].port
  <1>1. pm[k] \in Pm
    OBVIOUS
  <1>2. [pm[k] EXCEPT !.del = TRUE] \in Pm /\ [pm[k] EXCEPT !.del = TRUE].port = pm[k].port
    BY <1>1 DEF Pm
  <1>3. [pm[k] EXCEPT !.del = TRUE] # None
    BY <1>2, WatcherAssumption
  <1>4. \/ pm' = [pm EXCEPT ![k] = [pm[k] EXCEPT !.del = TRUE]]
        \/ pm' = [pm EXCEPT ![k] = None]
    BY DEF IsDeleted
  <1>5. CASE pm' = [pm EXCEPT ![k] = None]
    BY <1>5
  <1>6. CASE pm' = [pm EXCEPT ![k] = [pm[k] EXCEPT !.del = TRUE]]
    BY <1>2, <1>3, <1>6
  <1> QED
    BY <1>4, <1>5, <1>6

\* The applied PortMapping has the given port, the others stay.
LEMMA AppliedType ==
  ASSUME pm \in [Keys -> {None} \cup Pm], NEW k \in Keys, NEW p \in Ports, Applied(k, p)
  PROVE  /\ pm' \in [Keys -> {None} \cup Pm]
         /\ pm'[k].port = p
         /\ \A j \in Keys \ {k} : pm'[j] = pm[j]
  <1> DEFINE new == [port |-> p, del |-> IF pm[k] = None THEN FALSE ELSE pm[k].del]
  <1>1. (IF pm[k] = None THEN FALSE ELSE pm[k].del) \in BOOLEAN
    <2>1. CASE pm[k] = None
      BY <2>1
    <2>2. CASE pm[k] # None
      <3>1. pm[k] \in Pm
        BY <2>2
      <3> QED
        BY <2>2, <3>1 DEF Pm
    <2> QED
      BY <2>1, <2>2
  <1>2. new \in Pm /\ new.port = p
    BY <1>1 DEF Pm
  <1>3. pm' = [pm EXCEPT ![k] = new]
    BY DEF Applied
  <1> HIDE DEF new
  <1> QED
    BY <1>2, <1>3

-----------------------------------------------------------------------------
(* The inductive invariant.                                                   *)

\* The keys of S that have a proxy are forwarded, but for deleted PortMappings.
KeysFit(S, ip) == \A k \in S : proxy[k] # None =>
    /\ proxy[k].ip = ip
    /\ pm[k] # None => pm[k].port = proxy[k].port

\* What the loop over the wanted ports has done so far, and that the deletes
\* are of other keys.
LoopIsTidy ==
    /\ round.pc = "stopAll" => round.obj.wants = None
    /\ round.pc \in {"ensure", "apply"} =>
          /\ round.obj.wants # None
          /\ round.obj.ip \in Ips
          /\ round.todo \subseteq round.obj.wants
          /\ KeysFit(round.obj.wants \ round.todo, round.obj.ip)
    /\ round.pc = "apply" =>
          /\ round.key \in round.todo
          /\ proxy[round.key] = [port |-> round.port, ip |-> round.obj.ip]
    /\ round.pc = "delete" /\ round.obj.wants # None =>
          /\ round.todo \cap round.obj.wants = {}
          /\ KeysFit(round.obj.wants, round.obj.ip)

IInv == TypeOK /\ LoopIsTidy

\* The wanted keys of an object are keys.
LEMMA WantedKeys ==
  ASSUME NEW o \in Object, o.wants # None
  PROVE  o.wants \in SUBSET Keys
  BY DEF Object

\* A step that leaves the round and the proxies alone, and no PortMapping with
\* another port, keeps the loop tidy.
LEMMA LoopStays ==
  ASSUME TypeOK, LoopIsTidy, UNCHANGED <<round, proxy>>,
         \A j \in Keys : pm'[j] # None => pm[j] # None /\ pm'[j].port = pm[j].port
  PROVE  LoopIsTidy'
  <1>1. round.pc # "idle" => round.obj \in Object
    BY RoundFields DEF TypeOK
  <1>2. ASSUME NEW S \in SUBSET Keys, NEW ip, KeysFit(S, ip)
        PROVE  KeysFit(S, ip)'
    BY <1>2 DEF KeysFit
  <1>3. round.pc # "idle" /\ round.obj.wants # None => round.obj.wants \in SUBSET Keys
    BY <1>1, WantedKeys
  <1> QED
    BY <1>2, <1>3 DEF LoopIsTidy

-----------------------------------------------------------------------------
(* The steps, in groups.                                                      *)

\* A new version is one of the object or its deletion.
LEMMA NewVersionType ==
  ASSUME TypeOK, NEW o \in Obj, NewVersion(o)
  PROVE  /\ versions' \in Seq(Obj) \ {<<>>}
         /\ edits' \in 0..MaxEdits
  <1>1. versions \in Seq(Obj) /\ edits \in 0..MaxEdits
    BY DEF TypeOK, Obj
  <1>2. edits' \in 0..MaxEdits
    BY <1>1, WatcherAssumption DEF NewVersion
  <1>3. versions' = <<o>> \/ versions' = Append(versions, o)
    BY DEF NewVersion
  <1>4. versions' \in Seq(Obj) /\ versions' # <<>>
    BY <1>1, <1>3, VersionsAppend, OneVersion
  <1> QED
    BY <1>2, <1>4

\* Users, the garbage collector and the PortMapping controller.
LEMMA UsersKeep ==
  ASSUME IInv,
         \/ UserEdits \/ UserDeletes
         \/ \E k \in Keys : UserDeletesPm(k) \/ OwnerIsGone(k) \/ PmVanishes(k)
  PROVE  IInv'
  <1> USE DEF IInv
  <1>1. ASSUME NEW o \in Obj, NewVersion(o), UNCHANGED <<req, round, proxy, dead, pm, process, faults>>
        PROVE  IInv'
    <2>1. versions' \in Seq(Obj) \ {<<>>} /\ edits' \in 0..MaxEdits
      BY <1>1, NewVersionType
    <2>2. TypeOK'
      BY <1>1, <2>1 DEF TypeOK, Obj
    <2>3. LoopIsTidy'
      BY <1>1, LoopStays
    <2> QED
      BY <2>2, <2>3
  <1>2. ASSUME NEW k \in Keys, pm[k] # None, IsDeleted(k),
               UNCHANGED <<versions, req, round, proxy, dead, process, faults>>,
               edits' \in 0..MaxEdits
        PROVE  IInv'
    <2>1. pm \in [Keys -> {None} \cup Pm]
      BY DEF TypeOK
    <2>2. TypeOK'
      BY <1>2, <2>1, DeletedType DEF TypeOK
    <2>3. LoopIsTidy'
      BY <1>2, <2>1, DeletedType, LoopStays
    <2> QED
      BY <2>2, <2>3
  <1>3. CASE UserEdits
    <2>1. PICK o \in Obj : NewVersion(o)
      BY <1>3, WatcherAssumption DEF UserEdits, Obj
    <2> QED
      BY <1>1, <1>3, <2>1 DEF UserEdits
  <1>4. CASE UserDeletes
    <2>1. None \in Obj
      BY DEF Obj
    <2> QED
      BY <1>1, <1>4, <2>1 DEF UserDeletes
  <1>5. ASSUME NEW k \in Keys, UserDeletesPm(k) PROVE IInv'
    <2>1. edits' \in 0..MaxEdits
      BY <1>5, WatcherAssumption DEF UserDeletesPm, TypeOK
    <2> QED
      BY <1>2, <1>5, <2>1 DEF UserDeletesPm, Live
  <1>6. ASSUME NEW k \in Keys, OwnerIsGone(k) PROVE IInv'
    <2>1. edits' \in 0..MaxEdits
      BY <1>6 DEF OwnerIsGone, TypeOK
    <2> QED
      BY <1>2, <1>6, <2>1 DEF OwnerIsGone, Live
  <1>7. ASSUME NEW k \in Keys, PmVanishes(k) PROVE IInv'
    <2>1. TypeOK'
      BY <1>7 DEF PmVanishes, TypeOK
    <2>2. \A j \in Keys : pm'[j] # None => pm[j] # None /\ pm'[j].port = pm[j].port
      BY <1>7 DEF PmVanishes, TypeOK
    <2>3. LoopIsTidy'
      BY <1>7, <2>2, LoopStays DEF PmVanishes
    <2> QED
      BY <2>1, <2>3
  <1> QED
    BY <1>3, <1>4, <1>5, <1>6, <1>7

\* The watch, the process and its listeners.
LEMMA ProcessKeeps ==
  ASSUME IInv, Deliver \/ Shutdown \/ Down \/ Start \/ \E k \in Keys : ListenerDies(k)
  PROVE  IInv'
  <1> USE DEF IInv
  <1>1. versions \in Seq(Obj) /\ versions # <<>>
    BY DEF TypeOK, Obj
  <1>2. CASE Deliver
    <2>1. versions' \in Seq(Obj) \ {<<>>}
      BY <1>1, <1>2, VersionsTail DEF Deliver
    <2>2. req' \in {"none", "now", "timer"}
      BY <1>2 DEF Deliver, TypeOK
    <2>3. TypeOK'
      BY <1>2, <2>1, <2>2 DEF Deliver, TypeOK, Obj
    <2>4. LoopIsTidy'
      BY <1>2, LoopStays DEF Deliver
    <2> QED
      BY <2>3, <2>4
  <1>3. CASE Shutdown
    <2>1. TypeOK'
      BY <1>3, FaultType DEF Shutdown, TypeOK
    <2>2. LoopIsTidy'
      BY <1>3, LoopStays DEF Shutdown
    <2> QED
      BY <2>1, <2>2
  <1>4. CASE Down
    <2>1. <<Current>> \in Seq(Obj) \ {<<>>}
      BY <1>1, EndVersions, OneVersion DEF Current
    <2>2. faults' \in 0..MaxFaults
      BY <1>4, FaultType DEF Down, TypeOK
    <2>3. LoopIsTidy' /\ round' \in Round
      BY <1>4 DEF Down, Idle, Round, LoopIsTidy
    <2>4. TypeOK'
      BY <1>4, <2>1, <2>2, <2>3 DEF Down, TypeOK, Obj
    <2> QED
      BY <2>3, <2>4
  <1>5. CASE Start
    <2>1. TypeOK'
      BY <1>5 DEF Start, TypeOK
    <2>2. LoopIsTidy'
      BY <1>5, LoopStays DEF Start
    <2> QED
      BY <2>1, <2>2
  <1>6. ASSUME NEW k \in Keys, ListenerDies(k) PROVE IInv'
    <2>1. TypeOK'
      BY <1>6, FaultType DEF ListenerDies, TypeOK
    <2>2. LoopIsTidy'
      BY <1>6, LoopStays DEF ListenerDies
    <2> QED
      BY <2>1, <2>2
  <1> QED
    BY <1>2, <1>3, <1>4, <1>5, <1>6

\* What TypeOK says of what a round works with.
LEMMA RoundTypes ==
  ASSUME TypeOK
  PROVE  /\ RoundOK
         /\ proxy \in [Keys -> {None} \cup Proxy]
         /\ pm \in [Keys -> {None} \cup Pm]
         /\ dead \subseteq Keys
         /\ faults \in 0..MaxFaults
  BY DEF TypeOK, RoundOK

\* And what a step of a round owes to it.
LEMMA RoundStepTypes ==
  ASSUME TypeOK, UNCHANGED <<versions, process, edits>>, RoundOK',
         proxy' \in [Keys -> {None} \cup Proxy], pm' \in [Keys -> {None} \cup Pm],
         dead' \subseteq Keys, faults' \in 0..MaxFaults
  PROVE  TypeOK'
  BY DEF TypeOK, RoundOK

\* The rounds up to the loop: nothing is promised yet, and when the loop starts
\* nothing is done.
LEMMA StartOfRoundKeeps ==
  ASSUME IInv, Reconcile \/ ListOwned \/ StopAll
  PROVE  IInv'
  <1> USE DEF IInv
  <1>0. /\ RoundOK /\ pm \in [Keys -> {None} \cup Pm]
        /\ proxy \in [Keys -> {None} \cup Proxy] /\ faults \in 0..MaxFaults
        /\ dead \subseteq Keys
    BY RoundTypes
  <1>1. CASE Reconcile
    <2>1. versions \in Seq(Obj) /\ versions # <<>>
      BY DEF TypeOK, Obj
    <2>2. Cached = None \/ Cached \in Object
      BY <2>1, EndVersions DEF Cached, Obj
    <2>3. round' = Idle \/ (Cached \in Object /\ round' = [pc |-> "list", obj |-> Cached])
      BY <1>1, <2>2 DEF Reconcile
    <2>4. RoundOK' /\ LoopIsTidy'
      BY <1>1, <2>3 DEF Reconcile, RoundOK, Round, Idle, LoopIsTidy
    <2> QED
      BY <1>0, <1>1, <2>4, RoundStepTypes DEF Reconcile
  <1>2. CASE ListOwned
    <2>1. round.obj \in Object
      BY <1>0, <1>2, RoundFields DEF ListOwned, At, RoundOK
    <2>2. faults' \in 0..MaxFaults
      BY <1>0, <1>2, FaultType DEF ListOwned, CallFails
    <2>3. ASSUME NEW r \in {"none", "timer"}, Finish(r)
          PROVE  RoundOK' /\ LoopIsTidy'
      BY <1>0, <2>3, FinishType DEF Idle, LoopIsTidy
    <2>4. ASSUME NEW owned \in SUBSET Keys, AfterList(owned)
          PROVE  RoundOK' /\ LoopIsTidy'
      <3>1. CASE /\ round.obj.wants = None
                 /\ round' = [pc |-> "stopAll", obj |-> round.obj, owned |-> owned]
                 /\ UNCHANGED req
        BY <1>0, <2>1, <3>1 DEF RoundOK, Round, LoopIsTidy
      <3>2. CASE Finish(IF round.obj.isPod THEN "timer" ELSE "none") \/ Finish("none")
        BY <2>3, <3>2
      <3>3. CASE /\ round.obj.wants \notin {None, {}}
                 /\ round.obj.ip # None
                 /\ round' = [pc |-> "ensure", obj |-> round.obj, owned |-> owned,
                              todo |-> round.obj.wants]
                 /\ UNCHANGED req
        <4>1. round.obj.wants \in SUBSET Keys /\ round.obj.ip \in Ips
          BY <2>1, <3>3 DEF Object
        <4>2. RoundOK'
          BY <1>0, <2>1, <3>3, <4>1 DEF RoundOK, Round
        <4>3. LoopIsTidy'
          BY <3>3, <4>1 DEF LoopIsTidy, KeysFit
        <4> QED
          BY <4>2, <4>3
      <3> QED
        BY <2>4, <3>1, <3>2, <3>3 DEF AfterList
    <2>5. RoundOK' /\ LoopIsTidy'
      BY <1>2, <2>3, <2>4 DEF ListOwned, CallFails
    <2> QED
      BY <1>0, <1>2, <2>2, <2>5, RoundStepTypes DEF ListOwned
  <1>3. CASE StopAll
    <2>1. round.obj \in Object /\ round.owned \in SUBSET Keys
      BY <1>0, <1>3, RoundFields DEF StopAll, At, RoundOK
    <2>2. round.obj.wants = None
      BY <1>3 DEF StopAll, At, LoopIsTidy
    <2>3. RoundOK' /\ (round' = Idle
                       \/ round' = [pc |-> "delete", obj |-> round.obj, todo |-> round.owned])
      BY <1>0, <1>3, <2>1, ToDeleteType DEF StopAll
    <2>4. LoopIsTidy'
      BY <2>2, <2>3 DEF Idle, LoopIsTidy
    <2>5. proxy' \in [Keys -> {None} \cup Proxy] /\ dead' \subseteq Keys
      BY <1>0, <1>3 DEF StopAll
    <2> QED
      BY <1>0, <1>3, <2>3, <2>4, <2>5, RoundStepTypes DEF StopAll
  <1> QED
    BY <1>1, <1>2, <1>3

\* The loop goes on to the next key when k is done, or has no proxy, and the
\* others are as they were.
LEMMA NextKeyKeeps ==
  ASSUME IInv, round.pc \in {"ensure", "apply"}, NEW k \in Keys, k \in round.todo,
         NextKey(k),
         NEW o, o = round.obj,
         KeysFit({k}, o.ip)',
         \A j \in Keys \ {k} : proxy'[j] = proxy[j] /\ pm'[j] = pm[j]
  PROVE  RoundOK' /\ LoopIsTidy'
  <1> USE DEF IInv
  <1>1. RoundOK /\ o \in Object /\ round.owned \in SUBSET Keys
        /\ round.todo \in SUBSET Keys
    BY RoundTypes, RoundFields DEF RoundOK
  <1>2. /\ o.wants # None /\ o.wants \in SUBSET Keys /\ o.ip \in Ips
        /\ round.todo \subseteq o.wants
        /\ KeysFit(o.wants \ round.todo, o.ip)
    BY <1>1, WantedKeys DEF LoopIsTidy
  <1>3. PICK rest : rest = round.todo \ {k}
    OBVIOUS
  <1>4. KeysFit(o.wants \ rest, o.ip)'
    <2>1. SUFFICES ASSUME NEW j \in o.wants \ rest, proxy'[j] # None
                   PROVE  /\ proxy'[j].ip = o.ip
                          /\ pm'[j] # None => pm'[j].port = proxy'[j].port
      BY DEF KeysFit
    <2>2. CASE j = k
      BY <2>1, <2>2 DEF KeysFit
    <2>3. CASE j # k
      <3>1. j \in o.wants \ round.todo /\ j \in Keys \ {k}
        BY <1>2, <1>3, <2>3
      <3>2. proxy'[j] = proxy[j] /\ pm'[j] = pm[j]
        BY <3>1
      <3> QED
        BY <1>2, <2>1, <3>1, <3>2 DEF KeysFit
    <2> QED
      BY <2>2, <2>3
  <1>5. /\ RoundOK'
        /\ \/ round' = [pc |-> "ensure", obj |-> o, owned |-> round.owned, todo |-> rest]
           \/ /\ rest = {}
              /\ \/ round' = Idle
                 \/ round' = [pc |-> "delete", obj |-> o, todo |-> round.owned \ o.wants]
    BY <1>1, <1>3, NextKeyType
  <1>6. CASE round' = [pc |-> "ensure", obj |-> o, owned |-> round.owned, todo |-> rest]
    <2>1. KeysFit(round.obj.wants \ round.todo, round.obj.ip)'
      BY <1>4, <1>6 DEF KeysFit
    <2>2. rest \subseteq o.wants
      BY <1>2, <1>3
    <2> QED
      BY <1>2, <1>5, <1>6, <2>1, <2>2 DEF LoopIsTidy
  <1>7. CASE round' = Idle
    BY <1>5, <1>7 DEF LoopIsTidy, Idle
  <1>8. CASE rest = {} /\ round' = [pc |-> "delete", obj |-> o, todo |-> round.owned \ o.wants]
    <2>1. KeysFit(round.obj.wants, round.obj.ip)'
      BY <1>4, <1>8 DEF KeysFit
    <2> QED
      BY <1>5, <1>8, <2>1 DEF LoopIsTidy
  <1> QED
    BY <1>5, <1>6, <1>7, <1>8

\* ensure_proxy: a proxy that leads elsewhere is replaced before the apply.
LEMMA EnsureKeeps ==
  ASSUME IInv, NEW k \in Keys, Ensure(k)
  PROVE  IInv'
  <1> USE DEF IInv
  <1>1. /\ RoundOK /\ round.obj \in Object /\ round.owned \in SUBSET Keys
        /\ round.todo \in SUBSET Keys
        /\ proxy \in [Keys -> {None} \cup Proxy] /\ pm \in [Keys -> {None} \cup Pm]
        /\ dead \subseteq Keys /\ faults \in 0..MaxFaults
    BY RoundTypes, RoundFields DEF RoundOK, Ensure, At
  <1>2. /\ round.pc = "ensure" /\ k \in round.todo /\ pm' = pm
        /\ UNCHANGED <<versions, process, edits>>
        /\ dead' \subseteq Keys
    BY <1>1 DEF Ensure, At
  <1>3. /\ round.obj.wants # None /\ round.obj.wants \in SUBSET Keys
        /\ round.obj.ip \in Ips /\ round.todo \subseteq round.obj.wants
        /\ KeysFit(round.obj.wants \ round.todo, round.obj.ip)
    BY <1>1, <1>2, WantedKeys DEF LoopIsTidy
  <1>4. ASSUME NEW p \in Ports, Applies(k, p), proxy' \in [Keys -> {None} \cup Proxy],
               proxy'[k] = [port |-> p, ip |-> round.obj.ip],
               \A j \in Keys \ {k} : proxy'[j] = proxy[j],
               UNCHANGED faults
        PROVE  IInv'
    <2>1. /\ round' = [pc |-> "apply", obj |-> round.obj, owned |-> round.owned,
                       todo |-> round.todo, key |-> k, port |-> p]
          /\ UNCHANGED req
      BY <1>4 DEF Applies
    <2>2. RoundOK'
      BY <1>1, <2>1 DEF RoundOK, Round
    <2>3. KeysFit(round.obj.wants \ round.todo, round.obj.ip)'
      <3>1. \A j \in round.obj.wants \ round.todo : proxy'[j] = proxy[j]
        BY <1>2, <1>3, <1>4
      <3> QED
        BY <1>2, <1>3, <2>1, <3>1 DEF KeysFit
    <2>4. LoopIsTidy'
      BY <1>2, <1>3, <1>4, <2>1, <2>3 DEF LoopIsTidy
    <2> QED
      BY <1>1, <1>2, <1>4, <2>2, <2>4, RoundStepTypes
  <1>5. CASE /\ proxy[k] # None /\ proxy[k].ip = round.obj.ip
             /\ Applies(k, proxy[k].port)
             /\ UNCHANGED <<proxy, faults>>
    <2>1. proxy[k] \in Proxy
      BY <1>1, <1>5
    <2>2. proxy[k].port \in Ports /\ proxy[k] = [port |-> proxy[k].port, ip |-> round.obj.ip]
      BY <1>5, <2>1 DEF Proxy
    <2> QED
      BY <1>1, <1>4, <1>5, <2>2
  <1>6. ASSUME NEW p \in Ports, Applies(k, p), UNCHANGED faults,
               proxy' = [proxy EXCEPT ![k] = [port |-> p, ip |-> round.obj.ip]]
        PROVE  IInv'
    <2>1. [port |-> p, ip |-> round.obj.ip] \in Proxy
      BY <1>3 DEF Proxy
    <2> QED
      BY <1>1, <1>4, <1>6, <2>1
  <1>7. CASE Fault /\ proxy' = [proxy EXCEPT ![k] = None] /\ NextKey(k)
    <2>1. /\ proxy' \in [Keys -> {None} \cup Proxy]
          /\ proxy'[k] = None
          /\ \A j \in Keys \ {k} : proxy'[j] = proxy[j] /\ pm'[j] = pm[j]
      BY <1>1, <1>2, <1>7
    <2>2. PICK o : o = round.obj
      OBVIOUS
    <2>3. KeysFit({k}, o.ip)'
      BY <2>1 DEF KeysFit
    <2>4. RoundOK' /\ LoopIsTidy'
      BY <1>2, <1>7, <2>1, <2>2, <2>3, NextKeyKeeps
    <2> QED
      BY <1>1, <1>2, <1>7, <2>1, <2>4, FaultType, RoundStepTypes
  <1> QED
    BY <1>5, <1>6, <1>7 DEF Ensure

\* The apply of the port that ensure_proxy returned: the key is done.
LEMMA ApplyKeeps ==
  ASSUME IInv, Apply
  PROVE  IInv'
  <1> USE DEF IInv
  <1>1. /\ round.pc = "apply" /\ RoundOK /\ round.obj \in Object
        /\ round.key \in Keys /\ round.port \in Ports
        /\ proxy \in [Keys -> {None} \cup Proxy] /\ pm \in [Keys -> {None} \cup Pm]
        /\ dead \subseteq Keys /\ faults \in 0..MaxFaults
    BY RoundTypes, RoundFields DEF RoundOK, Apply, At
  <1>2. UNCHANGED <<versions, proxy, dead, process, edits>>
    BY DEF Apply
  <1>3. PICK k, p, o : k = round.key /\ p = round.port /\ o = round.obj
    OBVIOUS
  <1>4. k \in Keys /\ k \in round.todo /\ p \in Ports /\ proxy[k] = [port |-> p, ip |-> o.ip]
    BY <1>1, <1>3 DEF LoopIsTidy
  <1>5. CASE Applied(k, p) /\ NextKey(k) /\ UNCHANGED faults
    <2>1. /\ pm' \in [Keys -> {None} \cup Pm] /\ pm'[k].port = p
          /\ \A j \in Keys \ {k} : pm'[j] = pm[j]
      BY <1>1, <1>4, <1>5, AppliedType
    <2>2. KeysFit({k}, o.ip)'
      BY <1>2, <1>4, <2>1 DEF KeysFit
    <2>3. RoundOK' /\ LoopIsTidy'
      BY <1>1, <1>2, <1>3, <1>4, <1>5, <2>1, <2>2, NextKeyKeeps
    <2> QED
      BY <1>1, <1>2, <1>5, <2>1, <2>3, RoundStepTypes
  <1>6. CASE (Applied(k, p) \/ UNCHANGED pm) /\ CallFails
    <2>1. pm' \in [Keys -> {None} \cup Pm]
      BY <1>1, <1>4, <1>6, AppliedType
    <2>2. RoundOK' /\ round' = Idle
      BY <1>1, <1>6, FinishType DEF CallFails
    <2>3. LoopIsTidy'
      BY <2>2 DEF LoopIsTidy, Idle
    <2>4. faults' \in 0..MaxFaults
      BY <1>1, <1>6, FaultType DEF CallFails
    <2> QED
      BY <1>1, <1>2, <2>1, <2>2, <2>3, <2>4, RoundStepTypes
  <1> QED
    BY <1>3, <1>5, <1>6 DEF Apply

\* A delete is of a key that is not wanted.
LEMMA DeleteOneKeeps ==
  ASSUME IInv, NEW k \in Keys, DeleteOne(k)
  PROVE  IInv'
  <1> USE DEF IInv
  <1>1. /\ round.pc = "delete" /\ k \in round.todo /\ RoundOK /\ round.obj \in Object
        /\ round.todo \in SUBSET Keys
        /\ proxy \in [Keys -> {None} \cup Proxy] /\ pm \in [Keys -> {None} \cup Pm]
        /\ dead \subseteq Keys /\ faults \in 0..MaxFaults
    BY RoundTypes, RoundFields DEF RoundOK, DeleteOne, At
  <1>2. UNCHANGED <<versions, process, edits>>
    BY DEF DeleteOne
  <1>3. PICK o, rest : o = round.obj /\ rest = round.todo \ {k}
    OBVIOUS
  <1>4. /\ proxy' \in [Keys -> {None} \cup Proxy]
        /\ dead' \subseteq Keys
        /\ \A j \in Keys \ {k} : proxy'[j] = proxy[j]
    BY <1>1 DEF DeleteOne
  <1>5. /\ pm' \in [Keys -> {None} \cup Pm]
        /\ \A j \in Keys : pm'[j] # None => pm[j] # None /\ pm'[j].port = pm[j].port
        /\ faults' \in 0..MaxFaults
    BY <1>1, DeletedType, FaultType DEF DeleteOne
  <1>6. /\ RoundOK'
        /\ round' = Idle \/ round' = [pc |-> "delete", obj |-> o, todo |-> rest]
    <2>1. ToDelete(rest, IF o.wants = None THEN "none" ELSE "timer")
      BY <1>3 DEF DeleteOne
    <2>2. rest \in SUBSET Keys
      BY <1>1, <1>3
    <2> QED
      BY <1>1, <1>3, <2>1, <2>2, ToDeleteType
  <1>7. ASSUME o.wants # None
        PROVE  rest \cap o.wants = {} /\ KeysFit(o.wants, o.ip)'
    <2>1. /\ o.wants \in SUBSET Keys /\ round.todo \cap o.wants = {}
          /\ KeysFit(o.wants, o.ip)
      BY <1>1, <1>3, <1>7, WantedKeys DEF LoopIsTidy
    <2>2. o.wants \subseteq Keys \ {k}
      BY <1>1, <2>1
    <2>3. KeysFit(o.wants, o.ip)'
      BY <1>4, <1>5, <2>1, <2>2 DEF KeysFit
    <2> QED
      BY <1>3, <2>1, <2>3
  <1>8. LoopIsTidy'
    <2>1. CASE round' = Idle
      BY <2>1 DEF LoopIsTidy, Idle
    <2>2. CASE round' = [pc |-> "delete", obj |-> o, todo |-> rest]
      <3>1. o.wants # None => KeysFit(round.obj.wants, round.obj.ip)'
        BY <1>7, <2>2 DEF KeysFit
      <3> QED
        BY <1>7, <2>2, <3>1 DEF LoopIsTidy
    <2> QED
      BY <1>6, <2>1, <2>2
  <1> QED
    BY <1>1, <1>2, <1>4, <1>5, <1>6, <1>8, RoundStepTypes

-----------------------------------------------------------------------------
\* The object may be there before the watchers start; nothing else is.
LEMMA InitIInv == Init => IInv
  <1> SUFFICES ASSUME Init PROVE IInv
    OBVIOUS
  <1>1. PICK o \in Objects : versions = <<o>>
    BY DEF Init
  <1>2. versions \in Seq(Obj) \ {<<>>}
    BY <1>1, OneVersion, WatcherAssumption DEF Obj
  <1>3. round \in Round /\ LoopIsTidy
    BY DEF Init, Idle, Round, LoopIsTidy
  <1>4. TypeOK
    BY <1>2, <1>3, WatcherAssumption DEF Init, TypeOK, Obj
  <1> QED
    BY <1>3, <1>4 DEF IInv

LEMMA NextIInv == IInv /\ [Next]_vars => IInv'
  <1> SUFFICES ASSUME IInv, [Next]_vars PROVE IInv'
    OBVIOUS
  <1>1. CASE UNCHANGED vars
    <2>1. TypeOK'
      BY <1>1 DEF vars, IInv, TypeOK
    <2>2. LoopIsTidy'
      BY <1>1, LoopStays DEF vars, IInv
    <2> QED
      BY <2>1, <2>2 DEF IInv
  <1>2. CASE \/ UserEdits \/ UserDeletes
             \/ \E k \in Keys : UserDeletesPm(k) \/ OwnerIsGone(k) \/ PmVanishes(k)
    BY <1>2, UsersKeep
  <1>3. CASE Deliver \/ Shutdown \/ Down \/ Start \/ \E k \in Keys : ListenerDies(k)
    BY <1>3, ProcessKeeps
  <1>4. CASE Rounds
    <2>1. CASE Reconcile \/ ListOwned \/ StopAll
      BY <2>1, StartOfRoundKeeps
    <2>2. ASSUME NEW k \in Keys, Ensure(k) PROVE IInv'
      BY <2>2, EnsureKeeps
    <2>3. ASSUME NEW k \in Keys, DeleteOne(k) PROVE IInv'
      BY <2>3, DeleteOneKeeps
    <2>4. CASE Apply
      BY <2>4, ApplyKeeps
    <2> QED
      BY <1>4, <2>1, <2>2, <2>3, <2>4 DEF Rounds
  <1> QED
    BY <1>1, <1>2, <1>3, <1>4 DEF Next

LEMMA Invariance == Spec => []IInv
  <1> QED
    BY InitIInv, NextIInv, PTL DEF Spec

\* Type correctness of the watchers, for any keys, objects, ports and bounds.
THEOREM WatcherTypes == Spec => []TypeOK
  <1>1. IInv => TypeOK
    BY DEF IInv
  <1> QED
    BY <1>1, Invariance, PTL

\* Whatever users, failures and restarts do during a round: when it comes to
\* the stale PortMappings each wanted port that has a proxy is forwarded, unless
\* its listener died.
THEOREM RoundsAreComplete == Spec => []RoundIsComplete
  <1>1. IInv => RoundIsComplete
    <2> SUFFICES ASSUME IInv, round.pc = "delete", round.obj.wants # None,
                        NEW k \in round.obj.wants, proxy[k] # None
                 PROVE  /\ proxy[k].ip = round.obj.ip
                        /\ Live(k) /\ k \notin dead => Forwards(k, round.obj.ip)
      BY DEF RoundIsComplete
    <2>1. /\ proxy[k].ip = round.obj.ip
          /\ pm[k] # None => pm[k].port = proxy[k].port
      BY DEF IInv, LoopIsTidy, KeysFit
    <2> QED
      BY <2>1 DEF Live, Forwards
  <1> QED
    BY <1>1, Invariance, PTL
=============================================================================
