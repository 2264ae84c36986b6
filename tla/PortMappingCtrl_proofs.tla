----------------------- MODULE PortMappingCtrl_proofs -----------------------
(* Proofs about the PortMapping controller, for every set of objects, slots  *)
(* and targets, every bound and every set of hazards a theorem allows.       *)
EXTENDS PortMappingCtrl, SequenceTheorems, TLAPS

Version == Object \cup {NoObject}

-----------------------------------------------------------------------------
(* Objects that anyone writes.                                               *)

\* The target of a spec, like the rest of it, may be written at any time.
Retarget(n) ==
    /\ Exists(Current(n))
    /\ \E t \in Targets \ {Current(n).target} :
          Write(n, [Current(n) EXCEPT !.target = t])
    /\ UNCHANGED <<req, task, router, up>>
    /\ Fault("editTarget") \/ UNCHANGED faults

Edits(n) ==
    \/ Create(n)
    \/ Delete(n)
    \/ Retarget(n)
    \/ EditSlot(n)

AnyNext ==
    \/ \E n \in Names : Controller(n) \/ Edits(n) \/ LeaseRunsDown(n)
    \/ \E s \in Slots : LeaseExpires(s)
    \/ RouterReboot
    \/ Crash
    \/ Start

\* The controller among writers without a bound, of which users are some. What
\* is proved of it holds of Spec, and of the controller below an annotation
\* watcher (Forwarding_proofs).
AnySpec == Init /\ [][AnyNext]_vars

\* What users write is among what anyone does.
LEMMA SpecIsAny == Spec => AnySpec
<1>1. [Next]_vars => [AnyNext]_vars
  BY DEF Next, AnyNext, User, Edits, EditTarget, Retarget
<1>2. QED
  BY <1>1, PTL DEF Spec, AnySpec

-----------------------------------------------------------------------------
(* Sequences of versions.                                                    *)

\* Appending a version makes it the last and keeps the others.
LEMMA AppendVersion ==
    ASSUME NEW S, NEW c \in Seq(S), NEW o \in S
    PROVE  /\ Append(c, o) \in Seq(S)
           /\ Append(c, o) # <<>>
           /\ Len(Append(c, o)) = Len(c) + 1
           /\ Len(c) \in Nat
           /\ Append(c, o)[Len(c) + 1] = o
           /\ \A i \in 1..Len(c) : Append(c, o)[i] = c[i]
OBVIOUS

\* A one-version log.
LEMMA OneVersion ==
    ASSUME NEW S, NEW o \in S
    PROVE  /\ <<o>> \in Seq(S)
           /\ <<o>> # <<>>
           /\ Len(<<o>>) = 1
           /\ <<o>>[1] = o
OBVIOUS

\* Dropping the first of several versions keeps the last and shifts the others.
LEMMA TailVersions ==
    ASSUME NEW S, NEW c \in Seq(S), Len(c) > 1
    PROVE  /\ Tail(c) \in Seq(S)
           /\ Tail(c) # <<>>
           /\ Len(Tail(c)) = Len(c) - 1
           /\ Len(c) \in Nat
           /\ \A i \in 1..Len(Tail(c)) : Tail(c)[i] = c[i + 1]
<1>1. c # <<>> /\ Len(c) \in Nat
  OBVIOUS
<1>2. /\ Tail(c) \in Seq(S)
      /\ Len(Tail(c)) = Len(c) - 1
      /\ \A i \in 1..Len(Tail(c)) : Tail(c)[i] = c[i + 1]
  BY <1>1, HeadTailProperties
<1>3. Len(Tail(c)) # 0
  BY <1>1, <1>2
<1>4. Tail(c) # <<>>
  BY <1>3, EmptySeq
<1>5. QED
  BY <1>1, <1>2, <1>4

\* A nonempty log has a first and a last version.
LEMMA EndVersions ==
    ASSUME NEW S, NEW c \in Seq(S), c # <<>>
    PROVE  /\ Len(c) \in Nat \ {0}
           /\ c[1] \in S
           /\ c[Len(c)] \in S
           /\ \A i \in 1..Len(c) : c[i] \in S
OBVIOUS

-----------------------------------------------------------------------------
(* InOrder under the ways a log changes.                                     *)

\* A log of one version is in order.
LEMMA InOrderOne ==
    ASSUME NEW o \in Version
    PROVE  InOrder(<<o>>)
BY DEF InOrder, Live, Deleting

\* A new version keeps the order when it stays in the last version's life, or
\* starts another one, or ends one that the controller has seen deleted.
LEMMA InOrderAppend ==
    ASSUME NEW c \in Seq(Version), c # <<>>, InOrder(c), NEW o \in Version,
           LET last == c[Len(c)] IN
           \/ Protected(last) /\ Protected(o) /\ (Live(o) => Live(last))
           \/ ~Protected(last) /\ ~Protected(o)
           \/ \A i \in 1..Len(c) : ~Protected(c[i])
           \/ ~Protected(o) /\ \A i \in 1..Len(c) : Deleting(c[i])
    PROVE  InOrder(Append(c, o))
<1> DEFINE d == Append(c, o)
           last == c[Len(c)]
<1>1. /\ Len(d) = Len(c) + 1 /\ Len(c) \in Nat /\ Len(c) > 0
      /\ d[Len(d)] = o
      /\ \A i \in 1..Len(c) : d[i] = c[i]
  BY AppendVersion, EndVersions
<1> HIDE DEF d
<1>2. SUFFICES ASSUME NEW j \in 1..Len(d), NEW i \in 1..j
      PROVE  /\ Live(d[j]) => Protected(o)
             /\ Protected(d[i]) /\ Protected(o) => Protected(d[j])
             /\ Deleting(d[i]) => ~Live(d[j])
             /\ Protected(d[j]) /\ ~Protected(o) => Deleting(d[i])
  BY <1>1, <1>2 DEF InOrder, d
<1>3. CASE j \in 1..Len(c)
  <2>1. /\ i \in 1..Len(c) /\ d[j] = c[j] /\ d[i] = c[i]
    BY <1>1, <1>3
  <2>2. /\ Live(c[j]) => Protected(last)
        /\ Protected(c[i]) /\ Protected(last) => Protected(c[j])
        /\ Deleting(c[i]) => ~Live(c[j])
        /\ Protected(c[j]) /\ ~Protected(last) => Deleting(c[i])
    BY <1>3 DEF InOrder
  <2>3. QED
    BY <2>1, <2>2, <1>3 DEF Live, Deleting
<1>4. CASE j = Len(d)
  <2>1. d[j] = o
    BY <1>1, <1>4
  <2>2. CASE i = Len(d)
    BY <2>1, <2>2, <1>1 DEF Live, Deleting
  <2>3. CASE i \in 1..Len(c)
    <3>1. d[i] = c[i]
      BY <1>1, <2>3
    <3>2. /\ Deleting(c[i]) => ~Live(last)
          /\ Live(c[i]) => Protected(last)
      BY <2>3, <1>1 DEF InOrder
    <3>3. QED
      BY <2>1, <3>1, <3>2, <2>3 DEF Live, Deleting
  <2>4. QED
    BY <1>1, <1>4, <2>2, <2>3
<1>5. QED
  BY <1>1, <1>3, <1>4

\* A log stays in order when its first version is dropped.
LEMMA InOrderTail ==
    ASSUME NEW c \in Seq(Version), Len(c) > 1, InOrder(c)
    PROVE  InOrder(Tail(c))
<1> DEFINE d == Tail(c)
<1>1. /\ Len(d) = Len(c) - 1 /\ Len(c) \in Nat
      /\ \A i \in 1..Len(d) : d[i] = c[i + 1]
  BY TailVersions
<1> HIDE DEF d
<1>2. d[Len(d)] = c[Len(c)]
  BY <1>1
<1>3. \A i \in 1..Len(d) : i + 1 \in 1..Len(c)
  BY <1>1
<1>4. \A j \in 1..Len(d) : \A i \in 1..j : i + 1 \in 1..(j + 1)
  BY <1>1
<1>5. QED
  BY <1>1, <1>2, <1>3, <1>4 DEF InOrder, d

\* Time changes nothing but the status of a version.
LEMMA AgedKeeps ==
    ASSUME NEW o \in Version
    PROVE  /\ Aged(o) \in Version
           /\ Exists(Aged(o)) <=> Exists(o)
           /\ Protected(Aged(o)) <=> Protected(o)
           /\ Live(Aged(o)) <=> Live(o)
           /\ Deleting(Aged(o)) <=> Deleting(o)
           /\ Exists(o) => Aged(o).slot = o.slot
BY ConstantsAssumption DEF Aged, AgedStatus, Version, Object, Status, Stamps,
   Exists, Protected, Live, Deleting

\* Time keeps the length of a log and changes its versions one by one.
LEMMA AgedVersions ==
    ASSUME NEW c \in Seq(Version), c # <<>>
    PROVE  LET d == [i \in 1..Len(c) |-> Aged(c[i])] IN
           /\ d \in Seq(Version)
           /\ d # <<>>
           /\ Len(d) = Len(c)
           /\ \A i \in 1..Len(c) : d[i] = Aged(c[i])
<1> DEFINE d == [i \in 1..Len(c) |-> Aged(c[i])]
<1>1. Len(c) \in Nat \ {0} /\ \A i \in 1..Len(c) : c[i] \in Version
  BY EndVersions
<1>2. \A i \in 1..Len(c) : Aged(c[i]) \in Version
  BY <1>1, AgedKeeps
<1>3. d \in [1..Len(c) -> Version]
  BY <1>2
<1>4. d \in Seq(Version)
  BY <1>1, <1>3, SeqDef
<1>5. DOMAIN d = 1..Len(d) /\ Len(d) \in Nat
  BY <1>4, LenProperties
<1>6. DOMAIN d = 1..Len(c)
  OBVIOUS
<1> HIDE DEF d
<1>7. Len(d) = Len(c)
  BY <1>1, <1>5, <1>6
<1>8. d # <<>>
  BY <1>1, <1>7, EmptySeq
<1>9. \A i \in 1..Len(c) : d[i] = Aged(c[i])
  BY DEF d
<1>10. QED
  BY <1>4, <1>7, <1>8, <1>9 DEF d

\* The order does not depend on the statuses.
LEMMA InOrderAged ==
    ASSUME NEW c \in Seq(Version), c # <<>>, InOrder(c)
    PROVE  InOrder([i \in 1..Len(c) |-> Aged(c[i])])
<1> DEFINE d == [i \in 1..Len(c) |-> Aged(c[i])]
<1>1. Len(d) = Len(c) /\ \A i \in 1..Len(d) : d[i] = Aged(c[i])
  BY AgedVersions
<1>2. \A o \in Version : /\ Protected(Aged(o)) <=> Protected(o)
                         /\ Live(Aged(o)) <=> Live(o)
                         /\ Deleting(Aged(o)) <=> Deleting(o)
                         /\ Protected(o) => Aged(o).slot = o.slot
  BY AgedKeeps DEF Protected
<1>3. \A i \in 1..Len(c) : c[i] \in Version
  OBVIOUS
<1> HIDE DEF d
<1>4. QED
  BY <1>1, <1>2, <1>3 DEF InOrder, d

-----------------------------------------------------------------------------
(* Type correctness.                                                         *)

\* What a write does to the log of n, and to no other.
LEMMA WriteVersion ==
    ASSUME TypeOK, NEW n \in Names, NEW o \in Version, Write(n, o)
    PROVE  /\ log' \in [Names -> Seq(Version)]
           /\ \A m \in Names : log'[m] # <<>>
           /\ \A m \in Names \ {n} : log'[m] = log[m]
           /\ log'[n] = Append(log[n], o) \/ log'[n] = <<o>>
           /\ log'[n][Len(log'[n])] = o
           /\ \A i \in 1..Len(log'[n]) :
                 \/ log'[n][i] = o
                 \/ \E j \in 1..Len(log[n]) : log'[n][i] = log[n][j]
<1>1. /\ log \in [Names -> Seq(Version)]
      /\ log[n] \in Seq(Version) /\ log[n] # <<>>
  BY DEF TypeOK, Version
<1>2. CASE up
  <2>1. log' = [log EXCEPT ![n] = Append(log[n], o)]
    BY <1>2 DEF Write
  <2>2. /\ Append(log[n], o) \in Seq(Version)
        /\ Append(log[n], o) # <<>>
        /\ Len(Append(log[n], o)) = Len(log[n]) + 1
        /\ Len(log[n]) \in Nat
        /\ Append(log[n], o)[Len(log[n]) + 1] = o
        /\ \A i \in 1..Len(log[n]) : Append(log[n], o)[i] = log[n][i]
    BY <1>1, AppendVersion
  <2>3. log'[n] = Append(log[n], o) /\ \A m \in Names \ {n} : log'[m] = log[m]
    BY <1>1, <2>1
  <2>4. log' \in [Names -> Seq(Version)]
    BY <1>1, <2>1, <2>2
  <2>5. \A m \in Names : log'[m] # <<>>
    BY <2>2, <2>3 DEF TypeOK
  <2>6. \A i \in 1..Len(log'[n]) :
           \/ log'[n][i] = o
           \/ \E j \in 1..Len(log[n]) : log'[n][i] = log[n][j]
    BY <2>2, <2>3
  <2>7. QED
    BY <2>2, <2>3, <2>4, <2>5, <2>6
<1>3. CASE ~up
  <2>1. log' = [log EXCEPT ![n] = <<o>>]
    BY <1>3 DEF Write
  <2>2. QED
    BY <1>1, <2>1, OneVersion DEF TypeOK
<1>4. QED
  BY <1>2, <1>3

\* The versions of an object, the first and the last among them.
LEMMA Versions ==
    ASSUME TypeOK, NEW n \in Names
    PROVE  /\ log[n] \in Seq(Version) /\ log[n] # <<>>
           /\ Len(log[n]) \in Nat \ {0}
           /\ Cached(n) \in Version
           /\ Current(n) \in Version
           /\ \A i \in 1..Len(log[n]) : log[n][i] \in Version
<1>1. log[n] \in Seq(Version) /\ log[n] # <<>>
  BY DEF TypeOK, Version
<1>2. QED
  BY <1>1, EndVersions DEF Cached, Current

\* The versions the actions write are versions.
LEMMA NewVersions ==
    ASSUME NEW o \in Version, Exists(o)
    PROVE  /\ o \in Object
           /\ [o EXCEPT !.fin = TRUE] \in Object
           /\ [o EXCEPT !.fin = FALSE] \in Object
           /\ [o EXCEPT !.del = TRUE] \in Object
           /\ \A t \in Targets : [o EXCEPT !.target = t] \in Object
           /\ \A s \in Slots : [o EXCEPT !.slot = s] \in Object
           /\ \A st \in Status : [o EXCEPT !.status = st] \in Object
           /\ o.slot \in Slots /\ o.target \in Targets /\ o.status \in Status
           /\ o.fin \in BOOLEAN /\ o.del \in BOOLEAN
BY DEF Version, Exists, Object

\* A version with the marks of another is in the same part of its life.
LEMMA SameLife ==
    ASSUME NEW o \in Object, NEW w \in Object
    PROVE  /\ Exists(o) /\ Exists(w) /\ w \in Version /\ o \in Version
           /\ w.fin = o.fin => (Protected(w) <=> Protected(o))
           /\ w.fin = o.fin /\ w.del = o.del => (Live(w) <=> Live(o))
           /\ w.del => ~Live(w)
BY ConstantsAssumption DEF Version, Exists, Protected, Live

\* A hazard stays within its bound.
LEMMA FaultType ==
    ASSUME TypeOK, NEW h, Fault(h)
    PROVE  faults' \in 0..MaxFaults /\ h \in Allowed
BY ConstantsAssumption DEF TypeOK, Fault

\* A reconcile in progress has a version it started from.
LEMMA TaskType ==
    ASSUME TypeOK, NEW n \in Names
    PROVE  /\ task[n].status \in Status
           /\ task[n].pc \in Steps \cup {"idle"}
           /\ task[n].pc # "idle" => task[n].obj \in Object
BY DEF TypeOK, Task, IdleTask, Status, Steps

\* A reconcile that ends leaves requests and tasks in their ranges.
LEMMA FinishType ==
    ASSUME TypeOK, NEW n \in Names, NEW r \in Requests, Finish(n, r)
    PROVE  task' \in [Names -> Task] /\ req' \in [Names -> Requests]
BY DEF TypeOK, Finish, Task, Requests

\* The next step of a reconcile works for the same version.
LEMMA GoToStep ==
    ASSUME TypeOK, NEW n \in Names, NEW p \in Steps, NEW st \in Status, GoTo(n, p, st),
           task[n].pc # "idle"
    PROVE  task'[n].pc = p /\ task'[n].obj = task[n].obj /\ task'[n].status = st
<1>1. task[n] \in [pc: Steps, obj: Object, status: Status]
  BY DEF TypeOK, Task, IdleTask
<1>2. task'[n] = [task[n] EXCEPT !.pc = p, !.status = st]
  BY DEF GoTo, TypeOK
<1>3. QED
  BY <1>1, <1>2

\* A reconcile that goes on leaves the tasks in their range.
LEMMA GoToType ==
    ASSUME TypeOK, NEW n \in Names, NEW p \in Steps, NEW st \in Status, GoTo(n, p, st),
           task[n].pc # "idle"
    PROVE  task' \in [Names -> Task]
<1>1. task[n] \in [pc: Steps, obj: Object, status: Status]
  BY DEF TypeOK, Task, IdleTask
<1>2. [task[n] EXCEPT !.pc = p, !.status = st] \in Task
  BY <1>1 DEF Task
<1>3. QED
  BY <1>2 DEF GoTo, TypeOK

\* A call to the API server that fails, with or without its effect.
LEMMA ApiFailsType ==
    ASSUME TypeOK, NEW n \in Names, NEW o \in Version, ApiFails(n, o)
    PROVE  /\ log' \in [Names -> Seq(Version)] /\ \A m \in Names : log'[m] # <<>>
           /\ task' \in [Names -> Task] /\ req' \in [Names -> Requests]
           /\ faults' \in 0..MaxFaults
<1>1. /\ log' \in [Names -> Seq(Version)]
      /\ \A m \in Names : log'[m] # <<>>
  BY WriteVersion DEF ApiFails, TypeOK, Version
<1>2. task' \in [Names -> Task] /\ req' \in [Names -> Requests]
  BY FinishType DEF ApiFails, FinishWithError, Requests
<1>3. QED
  BY <1>1, <1>2, FaultType DEF ApiFails

\* What the actions of one object keep in range.
LEMMA TypeStep ==
    ASSUME TypeOK, NEW n \in Names, Controller(n) \/ Edits(n) \/ LeaseRunsDown(n)
    PROVE  TypeOK'
<1> DEFINE o == Current(n)
<1>0. /\ Current(n) \in Version /\ Cached(n) \in Version
      /\ log[n] \in Seq(Version) /\ log[n] # <<>>
      /\ NoObject \in Version
  BY Versions DEF Version
<1>1. CASE Create(n)
  <2>1. PICK s \in Wants[n], t \in Targets :
          Write(n, [slot |-> s, target |-> t, fin |-> FALSE, del |-> FALSE,
                    status |-> "none"])
    BY <1>1 DEF Create
  <2>2. [slot |-> s, target |-> t, fin |-> FALSE, del |-> FALSE, status |-> "none"]
          \in Version
    BY ConstantsAssumption DEF Version, Object, Status
  <2>3. QED
    BY <1>1, <2>1, <2>2, WriteVersion DEF Create, TypeOK, Version
<1>2. CASE Delete(n)
  <2>1. (IF o.fin THEN [o EXCEPT !.del = TRUE] ELSE NoObject) \in Version
    BY <1>0, <1>2, NewVersions DEF Delete, Version
  <2>2. QED
    BY <1>2, <2>1, WriteVersion DEF Delete, TypeOK, Version
<1>3. CASE Retarget(n)
  <2>1. PICK t \in Targets : Write(n, [o EXCEPT !.target = t])
    BY <1>3 DEF Retarget
  <2>2. [o EXCEPT !.target = t] \in Version
    BY <1>0, <1>3, NewVersions DEF Retarget, Version
  <2>3. faults' \in 0..MaxFaults
    BY <1>3, FaultType DEF Retarget, TypeOK
  <2>4. QED
    BY <1>3, <2>1, <2>2, <2>3, WriteVersion DEF Retarget, TypeOK, Version
<1>4. CASE EditSlot(n)
  <2>1. PICK s \in Wants[n] : Write(n, [o EXCEPT !.slot = s])
    BY <1>4 DEF EditSlot
  <2>2. [o EXCEPT !.slot = s] \in Version
    BY <1>0, <1>4, ConstantsAssumption, NewVersions DEF EditSlot, Version
  <2>3. faults' \in 0..MaxFaults
    BY <1>4, FaultType DEF EditSlot
  <2>4. QED
    BY <1>4, <2>1, <2>2, <2>3, WriteVersion DEF EditSlot, TypeOK, Version
<1>5. CASE Deliver(n)
  <2>1. Tail(log[n]) \in Seq(Version) /\ Tail(log[n]) # <<>>
    BY <1>0, <1>5, TailVersions DEF Deliver
  <2>2. log' = [log EXCEPT ![n] = Tail(log[n])]
    BY <1>5 DEF Deliver
  <2>3. req' \in [Names -> Requests]
    BY <1>5 DEF Deliver, TypeOK, Requests
  <2>4. QED
    BY <1>5, <2>1, <2>2, <2>3 DEF Deliver, TypeOK, Version
<1>6. CASE Reconcile(n)
  <2>1. EarlyRequest(Cached(n)) \in Requests
    BY DEF EarlyRequest, Requests
  <2>2. FirstStep(Cached(n)) # "idle" => FirstStep(Cached(n)) \in Steps
    BY DEF FirstStep, Steps
  <2>3. FirstStep(Cached(n)) # "idle" => [Cached(n) EXCEPT !.status = "none"] \in Object
    BY <1>0, NewVersions DEF FirstStep, Status
  <2>4. task'[n] \in Task /\ task' = [task EXCEPT ![n] = task'[n]]
    BY <1>6, <2>2, <2>3 DEF Reconcile, TypeOK, IdleTask, Task, Steps, Status
  <2>5. QED
    BY <1>6, <2>1, <2>4 DEF Reconcile, TypeOK
<1>7. CASE AddFinalizer(n)
  <2>1. CASE ~Unprotected(o)
    BY <1>7, <2>1, FinishType DEF AddFinalizer, FinishWithError, TypeOK, Requests
  <2>2. CASE Unprotected(o)
    <3>1. [o EXCEPT !.fin = TRUE] \in Version
      BY <1>0, <2>2, NewVersions DEF Unprotected, Version
    <3>2. CASE ApiFails(n, [o EXCEPT !.fin = TRUE])
      BY <1>7, <3>1, <3>2, ApiFailsType DEF AddFinalizer, TypeOK, Version
    <3>3. CASE Write(n, [o EXCEPT !.fin = TRUE]) /\ Finish(n, "none") /\ UNCHANGED faults
      BY <1>7, <3>1, <3>3, WriteVersion, FinishType
      DEF AddFinalizer, TypeOK, Version, Requests
    <3>4. QED
      BY <1>7, <2>2, <3>2, <3>3 DEF AddFinalizer
  <2>3. QED
    BY <2>1, <2>2
<1>8. CASE RemoveFinalizer(n)
  <2> DEFINE w == IF o.del THEN NoObject ELSE [o EXCEPT !.fin = FALSE]
  <2>1. CASE ~Protected(o)
    BY <1>8, <2>1, FinishType DEF RemoveFinalizer, FinishWithError, TypeOK, Requests
  <2>2. CASE Protected(o)
    <3>1. w \in Version
      BY <1>0, <2>2, NewVersions DEF Protected, Version
    <3>2. CASE ApiFails(n, w)
      BY <1>8, <3>1, <3>2, ApiFailsType DEF RemoveFinalizer, TypeOK, Version
    <3>3. CASE Write(n, w) /\ Finish(n, "none") /\ UNCHANGED faults
      BY <1>8, <3>1, <3>3, WriteVersion, FinishType
      DEF RemoveFinalizer, TypeOK, Version, Requests
    <3>4. QED
      BY <1>8, <2>2, <3>2, <3>3 DEF RemoveFinalizer
  <2>3. QED
    BY <2>1, <2>2
<1>9. CASE AddPortMapping(n)
  <2>1. task[n].obj \in Object
    BY <1>9 DEF AddPortMapping, TypeOK, Task, IdleTask
  <2>2. [by |-> n, target |-> task[n].obj.target, lease |-> "fresh"] \in Entry
    BY <2>1 DEF Object, Entry, Stamps
  <2>3. router' \in [Slots -> Entry \cup {NoEntry}]
    BY <1>9, <2>2 DEF AddPortMapping, MapOnRouter, TypeOK
  <2>4. task' \in [Names -> Task]
    BY <1>9, GoToType DEF AddPortMapping, Steps, Status, Stamps
  <2>5. faults' \in 0..MaxFaults
    BY <1>9, FaultType DEF AddPortMapping, TypeOK
  <2>6. QED
    BY <1>9, <2>3, <2>4, <2>5 DEF AddPortMapping, TypeOK
<1>10. CASE PatchStatus(n)
  <2> DEFINE w == [o EXCEPT !.status = task[n].status]
  <2>1. CASE ~Exists(o)
    BY <1>10, <2>1, FinishType DEF PatchStatus, FinishWithError, TypeOK, Requests
  <2>2. CASE Exists(o)
    <3>0. task[n].status \in Status
      BY TaskType
    <3>1. w \in Version
      BY <1>0, <2>2, <3>0, NewVersions DEF Version
    <3>2. CASE ApiFails(n, w)
      BY <1>10, <3>1, <3>2, ApiFailsType DEF PatchStatus, TypeOK, Version
    <3>3. CASE /\ Write(n, w)
               /\ Finish(n, IF task[n].status = "failed" THEN "retry" ELSE "lease")
               /\ UNCHANGED faults
      BY <1>10, <3>1, <3>3, WriteVersion, FinishType
      DEF PatchStatus, TypeOK, Version, Requests
    <3>4. QED
      BY <1>10, <2>2, <3>2, <3>3 DEF PatchStatus
  <2>3. QED
    BY <2>1, <2>2
<1>11. CASE DeletePortMapping(n)
  <2>1. task' \in [Names -> Task]
    BY <1>11, GoToType DEF DeletePortMapping, Steps, Status
  <2>2. faults' \in 0..MaxFaults
    BY <1>11, FaultType DEF DeletePortMapping, TypeOK
  <2>3. router' \in [Slots -> Entry \cup {NoEntry}]
    BY <1>11 DEF DeletePortMapping, TypeOK
  <2>4. QED
    BY <1>11, <2>1, <2>2, <2>3 DEF DeletePortMapping, TypeOK
<1>12. CASE LeaseRunsDown(n)
  <2>1. log' = [log EXCEPT ![n] = [i \in 1..Len(log[n]) |-> Aged(log[n][i])]]
    BY <1>12 DEF LeaseRunsDown
  <2>2. log' \in [Names -> Seq(Version)] /\ \A m \in Names : log'[m] # <<>>
    BY <1>0, <2>1, AgedVersions DEF TypeOK, Version
  <2>3. task' \in [Names -> Task]
    <3>1. CASE task[n] = IdleTask
      <4>1. [task[n] EXCEPT !.status = AgedStatus(@)] = IdleTask
        BY <3>1 DEF IdleTask, AgedStatus
      <4>2. QED
        BY <1>12, <3>1, <4>1 DEF LeaseRunsDown, TypeOK
    <3>2. CASE task[n] \in [pc: Steps, obj: Object, status: Status]
      <4>1. [task[n] EXCEPT !.status = AgedStatus(@)] \in Task
        BY <3>2 DEF Task, AgedStatus, Status, Stamps
      <4>2. QED
        BY <1>12, <4>1 DEF LeaseRunsDown, TypeOK
    <3>3. QED
      BY <3>1, <3>2 DEF TypeOK, Task
  <2>4. router' \in [Slots -> Entry \cup {NoEntry}]
    <3>1. ASSUME NEW e \in Entry PROVE [e EXCEPT !.lease = "due"] \in Entry
      BY DEF Entry, Stamps
    <3>2. \A s \in Slots : router[s] \in Entry \cup {NoEntry}
      BY DEF TypeOK
    <3>3. router' = [s \in Slots |->
             IF router[s] # NoEntry /\ router[s].by = n
             THEN [router[s] EXCEPT !.lease = "due"] ELSE router[s]]
      BY <1>12 DEF LeaseRunsDown
    <3>4. QED
      BY <3>1, <3>2, <3>3
  <2>5. QED
    BY <1>12, <2>2, <2>3, <2>4 DEF LeaseRunsDown, TypeOK, Version
<1>13. QED
  BY <1>1, <1>2, <1>3, <1>4, <1>5, <1>6, <1>7, <1>8, <1>9, <1>10, <1>11, <1>12
  DEF Controller, Edits

\* Every step keeps every variable in its range.
LEMMA TypeNext ==
    ASSUME TypeOK, [AnyNext]_vars
    PROVE  TypeOK'
<1>1. CASE \E n \in Names : Controller(n) \/ Edits(n) \/ LeaseRunsDown(n)
  BY <1>1, TypeStep
<1>2. CASE \E s \in Slots : LeaseExpires(s)
  BY <1>2 DEF LeaseExpires, TypeOK
<1>3. CASE RouterReboot
  BY <1>3, FaultType DEF RouterReboot, TypeOK
<1>4. CASE Crash
  <2>1. \A n \in Names : <<Current(n)>> \in Seq(Version) /\ <<Current(n)>> # <<>>
    BY Versions, OneVersion
  <2>2. task' \in [Names -> Task] /\ req' \in [Names -> Requests]
    BY <1>4 DEF Crash, Task, Requests
  <2>3. QED
    BY <1>4, <2>1, <2>2, FaultType DEF Crash, TypeOK, Version
<1>5. CASE Start
  BY <1>5 DEF Start, TypeOK, Requests
<1>6. CASE UNCHANGED vars
  BY <1>6 DEF vars, TypeOK
<1>7. QED
  BY <1>1, <1>2, <1>3, <1>4, <1>5, <1>6 DEF AnyNext

\* That holds from the start.
LEMMA AnyTypes == AnySpec => []TypeOK
<1>1. Init => TypeOK
  <2> SUFFICES ASSUME Init PROVE TypeOK
    OBVIOUS
  <2>1. <<NoObject>> \in Seq(Version) /\ <<NoObject>> # <<>>
    BY OneVersion DEF Version
  <2>2. QED
    BY <2>1, ConstantsAssumption DEF Init, TypeOK, Task, Requests, Version
<1>2. TypeOK /\ [AnyNext]_vars => TypeOK'
  BY TypeNext
<1>3. QED
  BY <1>1, <1>2, PTL DEF AnySpec

\* Every variable of the controller, the API server and the router stays in its
\* range, whatever fails and however long it runs.
THEOREM TypeCorrect == Spec => []TypeOK
  BY AnyTypes, SpecIsAny, PTL

-----------------------------------------------------------------------------
(* The finalizer guards the router's entries.                                *)

\* A slot is the object's as long as external ports are not edited, an entry is
\* as long as DeletePortMapping does not fail either.
InOrderFor(n) ==
    /\ InOrder(log[n])
    /\ TaskInOrder(n)
    /\ "editSlot" \notin Allowed => SlotsInOrder(n)
    /\ {"editSlot", "deleteFail"} \cap Allowed = {} => EntriesInOrder(n)

ViewsInOrder == \A n \in Names : InOrderFor(n)

\* A step that leaves the versions and the reconcile of n alone, and gives n no
\* entry, keeps everything about n in order.
LEMMA OthersKeepOrder ==
    ASSUME NEW n \in Names, InOrderFor(n),
           log'[n] = log[n], task'[n] = task[n], up => up',
           \A s \in Slots : MappedBy(s, n)' => MappedBy(s, n)
    PROVE  InOrderFor(n)'
BY DEF InOrderFor, TaskInOrder, SlotsInOrder, EntriesInOrder, Current

\* A write within the life of a protected object.
LEMMA WriteWithinLife ==
    ASSUME TypeOK, NEW n \in Names, InOrderFor(n), NEW o \in Version, Write(n, o),
           UNCHANGED <<router, up>>, task'[n] = task[n] \/ task'[n].pc = "idle",
           Protected(Current(n)), Protected(o), Live(o) => Live(Current(n)),
           "editSlot" \notin Allowed => o.slot = Current(n).slot
    PROVE  InOrderFor(n)'
<1>1. /\ log'[n] = Append(log[n], o) \/ log'[n] = <<o>>
      /\ log'[n][Len(log'[n])] = o
      /\ \A i \in 1..Len(log'[n]) :
            log'[n][i] = o \/ \E j \in 1..Len(log[n]) : log'[n][i] = log[n][j]
  BY WriteVersion
<1>2. InOrder(log[n]) /\ log[n] \in Seq(Version) /\ log[n] # <<>>
  BY Versions DEF InOrderFor
<1>3. InOrder(log'[n])
  BY <1>1, <1>2, InOrderAppend, InOrderOne DEF Current
<1>4. Current(n)' = o
  BY <1>1 DEF Current
<1>5. {"editSlot", "deleteFail"} \cap Allowed = {} => EntriesInOrder(n)'
  BY <1>4 DEF InOrderFor, EntriesInOrder, MappedBy
<1>6. TaskInOrder(n)'
  <2>1. CASE task'[n].pc = "idle"
    BY <2>1 DEF TaskInOrder
  <2>2. CASE task'[n] = task[n]
    <3>1. ASSUME task[n].pc \in {"delete", "removeFinalizer"}
          PROVE  \A i \in 1..Len(log'[n]) : Deleting(log'[n][i])
      <4>1. \A i \in 1..Len(log[n]) : Deleting(log[n][i])
        BY <3>1 DEF InOrderFor, TaskInOrder
      <4>2. Deleting(Current(n))
        BY <4>1, Versions DEF Current
      <4>3. Deleting(o)
        BY <4>2 DEF Deleting, Live
      <4>4. QED
        BY <1>1, <4>1, <4>3
    <3>2. QED
      BY <1>4, <2>2, <3>1 DEF InOrderFor, TaskInOrder
  <2>3. QED
    BY <2>1, <2>2
<1>7. "editSlot" \notin Allowed => SlotsInOrder(n)'
  BY <1>1, <1>4 DEF InOrderFor, SlotsInOrder
<1>8. QED
  BY <1>3, <1>5, <1>6, <1>7 DEF InOrderFor

\* A write while the object, if there is one, carries no finalizer.
LEMMA WriteUnprotected ==
    ASSUME TypeOK, NEW n \in Names, InOrderFor(n), NEW o \in Version, Write(n, o),
           UNCHANGED <<router, up>>, task'[n] = task[n] \/ task'[n].pc = "idle",
           ~Protected(Current(n)), ~Protected(o)
    PROVE  InOrderFor(n)'
<1>1. /\ log'[n] = Append(log[n], o) \/ log'[n] = <<o>>
      /\ log'[n][Len(log'[n])] = o
      /\ \A i \in 1..Len(log'[n]) :
            log'[n][i] = o \/ \E j \in 1..Len(log[n]) : log'[n][i] = log[n][j]
  BY WriteVersion
<1>2. InOrder(log[n]) /\ log[n] \in Seq(Version) /\ log[n] # <<>>
  BY Versions DEF InOrderFor
<1>3. InOrder(log'[n])
  BY <1>1, <1>2, InOrderAppend, InOrderOne DEF Current
<1>4. Current(n)' = o
  BY <1>1 DEF Current
<1>5. SlotsInOrder(n)'
  BY <1>4 DEF SlotsInOrder
<1>6. {"editSlot", "deleteFail"} \cap Allowed = {} => EntriesInOrder(n)'
  BY DEF InOrderFor, EntriesInOrder, MappedBy
<1>7. TaskInOrder(n)'
  <2>1. CASE task'[n].pc = "idle"
    BY <2>1 DEF TaskInOrder
  <2>2. CASE task'[n] = task[n]
    <3>1. ASSUME task[n].pc = "addFinalizer"
          PROVE  \A i \in 1..Len(log'[n]) : ~Protected(log'[n][i])
      <4>1. \A i \in 1..Len(log[n]) : ~Protected(log[n][i])
        BY <3>1 DEF InOrderFor, TaskInOrder
      <4>2. QED
        BY <1>1, <4>1
    <3>2. QED
      BY <1>4, <2>2, <3>1 DEF InOrderFor, TaskInOrder
  <2>3. QED
    BY <2>1, <2>2
<1>8. QED
  BY <1>3, <1>5, <1>6, <1>7 DEF InOrderFor

\* The steps of n are nobody else's.
LEMMA StepOfOne ==
    ASSUME TypeOK, NEW n \in Names, Controller(n) \/ Edits(n) \/ LeaseRunsDown(n),
           NEW m \in Names \ {n}
    PROVE  /\ log'[m] = log[m] /\ task'[m] = task[m] /\ up' = up
           /\ \A s \in Slots : MappedBy(s, m)' => MappedBy(s, m)
<1> USE DEF TypeOK
<1>1. log'[m] = log[m]
  BY DEF Controller, Edits, Create, Delete, Retarget, EditSlot, Deliver, Reconcile,
     AddFinalizer, RemoveFinalizer, AddPortMapping, PatchStatus, DeletePortMapping,
     LeaseRunsDown, ApiFails, Write
<1>2. task'[m] = task[m]
  BY DEF Controller, Edits, Create, Delete, Retarget, EditSlot, Deliver, Reconcile,
     AddFinalizer, RemoveFinalizer, AddPortMapping, PatchStatus, DeletePortMapping,
     LeaseRunsDown, ApiFails, FinishWithError, Finish, GoTo
<1>3. up' = up
  BY DEF Controller, Edits, Create, Delete, Retarget, EditSlot, Deliver, Reconcile,
     AddFinalizer, RemoveFinalizer, AddPortMapping, PatchStatus, DeletePortMapping,
     LeaseRunsDown
<1>4. ASSUME NEW s \in Slots, MappedBy(s, m)' PROVE MappedBy(s, m)
  <2>1. CASE UNCHANGED router
    BY <1>4, <2>1 DEF MappedBy
  <2>2. CASE MapOnRouter(n)
    BY <1>4, <2>2 DEF MappedBy, MapOnRouter
  <2>3. CASE DeletePortMapping(n)
    BY <1>4, <2>3 DEF MappedBy, DeletePortMapping
  <2>4. CASE LeaseRunsDown(n)
    BY <1>4, <2>4 DEF MappedBy, LeaseRunsDown
  <2>5. QED
    BY <2>1, <2>2, <2>3, <2>4 DEF Controller, Edits, Create, Delete, Retarget,
       EditSlot, Deliver, Reconcile, AddFinalizer, RemoveFinalizer, AddPortMapping,
       PatchStatus
<1>5. QED
  BY <1>1, <1>2, <1>3, <1>4

\* A reconcile that ends, or a write that failed, leaves the rest in order.
LEMMA EndKeepsOrder ==
    ASSUME TypeOK, NEW n \in Names, InOrderFor(n), NEW r \in Requests, Finish(n, r),
           UNCHANGED <<log, router, up>>
    PROVE  InOrderFor(n)'
<1>1. task'[n].pc = "idle"
  BY DEF Finish, TypeOK, IdleTask
<1>2. QED
  BY <1>1 DEF InOrderFor, TaskInOrder, SlotsInOrder, EntriesInOrder, MappedBy, Current

\* The versions of an object that the store shows without a finalizer: if the
\* object has none either, none in between has.
LEMMA StoreWithoutFinalizer ==
    ASSUME TypeOK, NEW n \in Names, InOrder(log[n]),
           ~Protected(Cached(n)), ~Protected(Current(n))
    PROVE  \A i \in 1..Len(log[n]) : ~Protected(log[n][i])
<1>1. 1 \in 1..Len(log[n])
  BY Versions
<1>2. QED
  BY <1>1 DEF InOrder, Cached, Current, Deleting

\* The versions of an object that the store shows deleting: if the object is
\* still there, all of them are deleting.
LEMMA StoreDeleting ==
    ASSUME TypeOK, NEW n \in Names, InOrder(log[n]),
           Deleting(Cached(n)), Protected(Current(n))
    PROVE  \A i \in 1..Len(log[n]) : Deleting(log[n][i])
<1>1. 1 \in 1..Len(log[n])
  BY Versions
<1>2. QED
  BY <1>1 DEF InOrder, Cached, Current, Deleting, Live, Protected

\* A reconcile that starts from the version in the store, however old, starts
\* in order.
LEMMA ReconcileKeepsOrder ==
    ASSUME TypeOK, NEW n \in Names, InOrderFor(n), Reconcile(n)
    PROVE  InOrderFor(n)'
<1>1. /\ up /\ UNCHANGED <<log, router, up>>
      /\ task'[n] = IF FirstStep(Cached(n)) = "idle" THEN IdleTask
                    ELSE [pc |-> FirstStep(Cached(n)),
                          obj |-> [Cached(n) EXCEPT !.status = "none"],
                          status |-> "none"]
  BY DEF Reconcile, TypeOK
<1>2. FirstStep(Cached(n)) # "idle" =>
         /\ task'[n].pc = FirstStep(Cached(n))
         /\ task'[n].obj.slot = Cached(n).slot
  BY <1>1, Versions DEF FirstStep, Exists, Version, Object
<1>3. FirstStep(Cached(n)) = "idle" => task'[n].pc = "idle"
  BY <1>1 DEF IdleTask
<1>4. InOrder(log[n]) /\ 1 \in 1..Len(log[n])
  BY Versions DEF InOrderFor
<1>5. TaskInOrder(n)'
  <2>1. CASE FirstStep(Cached(n)) = "idle"
    BY <1>3, <2>1 DEF TaskInOrder
  <2>2. CASE FirstStep(Cached(n)) = "addFinalizer"
    <3>1. ~Protected(Cached(n))
      BY <2>2 DEF FirstStep, Protected
    <3>2. QED
      BY <1>1, <1>2, <1>4, <2>2, <3>1, StoreWithoutFinalizer DEF TaskInOrder, Current
  <2>3. CASE FirstStep(Cached(n)) = "delete"
    <3>1. Deleting(Cached(n))
      BY <2>3 DEF FirstStep
    <3>2. QED
      BY <1>1, <1>2, <1>4, <2>3, <3>1, StoreDeleting DEF TaskInOrder, Current
  <2>4. CASE FirstStep(Cached(n)) = "add"
    <3>1. Live(Cached(n))
      BY <2>4 DEF FirstStep
    <3>2. Protected(Current(n))
      BY <1>4, <3>1 DEF InOrder, Cached, Current, Live
    <3>3. QED
      BY <1>1, <1>2, <2>4, <3>2 DEF TaskInOrder, Current
  <2>5. QED
    BY <2>1, <2>2, <2>3, <2>4 DEF FirstStep
<1>6. FirstStep(Cached(n)) \notin {"idle", "addFinalizer"} => Protected(Cached(n))
  BY DEF FirstStep, Live, Deleting
<1>7. SlotsInOrder(n) => SlotsInOrder(n)'
  BY <1>1, <1>2, <1>3, <1>4, <1>6 DEF SlotsInOrder, Cached, Current
<1>8. FirstStep(Cached(n)) # "removeFinalizer"
  BY DEF FirstStep
<1>9. EntriesInOrder(n) => EntriesInOrder(n)'
  BY <1>1, <1>2, <1>3, <1>8 DEF EntriesInOrder, MappedBy, Current
<1>10. QED
  BY <1>1, <1>5, <1>7, <1>9 DEF InOrderFor

\* Creating, deleting and editing an object keep it in order.
LEMMA EditKeepsOrder ==
    ASSUME TypeOK, NEW n \in Names, InOrderFor(n), Edits(n)
    PROVE  InOrderFor(n)'
<1> DEFINE o == Current(n)
<1>0. o \in Version /\ NoObject \in Version /\ ~Protected(NoObject)
  BY Versions DEF Version, Protected, Exists
<1>1. CASE Create(n)
  <2>1. PICK s \in Wants[n], t \in Targets :
          Write(n, [slot |-> s, target |-> t, fin |-> FALSE, del |-> FALSE,
                    status |-> "none"])
    BY <1>1 DEF Create
  <2> DEFINE w == [slot |-> s, target |-> t, fin |-> FALSE, del |-> FALSE,
                   status |-> "none"]
  <2>2. w \in Version /\ ~Protected(w)
    BY ConstantsAssumption DEF Version, Object, Status, Protected
  <2>3. ~Protected(o)
    BY <1>1 DEF Create, Protected
  <2>4. UNCHANGED <<router, up>> /\ task' = task
    BY <1>1 DEF Create
  <2>5. QED
    BY <2>1, <2>2, <2>3, <2>4, WriteUnprotected
<1>2. CASE Delete(n)
  <2>1. CASE o.fin
    <3> DEFINE w == [o EXCEPT !.del = TRUE]
    <3>1. Exists(o) /\ Write(n, w) /\ UNCHANGED <<router, up>> /\ task' = task
      BY <1>2, <2>1 DEF Delete
    <3>2. o \in Object
      BY <1>0, <3>1, NewVersions
    <3>3. w \in Object /\ w.fin = o.fin /\ w.del /\ w.slot = o.slot
      BY <3>2 DEF Object
    <3> HIDE DEF w
    <3>4. Protected(o)
      BY <2>1, <3>1 DEF Protected
    <3>5. Protected(w) /\ ~Live(w) /\ w \in Version
      BY <3>2, <3>3, <3>4, SameLife
    <3>6. QED
      BY <3>1, <3>3, <3>4, <3>5, WriteWithinLife
  <2>2. CASE ~o.fin
    <3>1. Write(n, NoObject) /\ UNCHANGED <<router, up>> /\ task' = task
      BY <1>2, <2>2 DEF Delete
    <3>2. ~Protected(o)
      BY <2>2 DEF Protected
    <3>3. QED
      BY <1>0, <3>1, <3>2, WriteUnprotected
  <2>3. QED
    BY <2>1, <2>2
<1>3. CASE Retarget(n)
  <2>1. PICK t \in Targets : Write(n, [o EXCEPT !.target = t])
    BY <1>3 DEF Retarget
  <2> DEFINE w == [o EXCEPT !.target = t]
  <2>2. Exists(o) /\ UNCHANGED <<router, up>> /\ task' = task
    BY <1>3 DEF Retarget
  <2>3. o \in Object
    BY <1>0, <2>2, NewVersions
  <2>4. w \in Object /\ w.fin = o.fin /\ w.del = o.del /\ w.slot = o.slot
    BY <2>3 DEF Object
  <2>5. Write(n, w)
    BY <2>1
  <2> HIDE DEF w
  <2>6. /\ w \in Version
        /\ Protected(w) <=> Protected(o)
        /\ Live(w) <=> Live(o)
    BY <2>3, <2>4, SameLife
  <2>7. QED
    BY <2>2, <2>4, <2>5, <2>6, WriteWithinLife, WriteUnprotected
<1>4. CASE EditSlot(n)
  <2>1. PICK s \in Wants[n] : Write(n, [o EXCEPT !.slot = s])
    BY <1>4 DEF EditSlot
  <2> DEFINE w == [o EXCEPT !.slot = s]
  <2>2. Exists(o) /\ UNCHANGED <<router, up>> /\ task' = task /\ "editSlot" \in Allowed
    BY <1>4, FaultType DEF EditSlot
  <2>3. o \in Object /\ s \in Slots
    BY <1>0, <2>2, NewVersions, ConstantsAssumption
  <2>4. w \in Object /\ w.fin = o.fin /\ w.del = o.del
    BY <2>3 DEF Object
  <2>5. Write(n, w)
    BY <2>1
  <2> HIDE DEF w
  <2>6. /\ w \in Version
        /\ Protected(w) <=> Protected(o)
        /\ Live(w) <=> Live(o)
    BY <2>3, <2>4, SameLife
  <2>7. QED
    BY <2>2, <2>5, <2>6, WriteWithinLife, WriteUnprotected
<1>5. QED
  BY <1>1, <1>2, <1>3, <1>4 DEF Edits

\* The store catching up with the API server keeps the object in order.
LEMMA DeliverKeepsOrder ==
    ASSUME TypeOK, NEW n \in Names, InOrderFor(n), Deliver(n)
    PROVE  InOrderFor(n)'
<1>1. /\ Len(log[n]) > 1
      /\ log'[n] = Tail(log[n])
      /\ UNCHANGED <<task, router, up>>
  BY DEF Deliver, TypeOK
<1>2. log[n] \in Seq(Version) /\ InOrder(log[n])
  BY Versions DEF InOrderFor
<1>3. /\ Len(log'[n]) = Len(log[n]) - 1 /\ Len(log[n]) \in Nat
      /\ \A i \in 1..Len(log'[n]) : log'[n][i] = log[n][i + 1]
  BY <1>1, <1>2, TailVersions
<1>4. InOrder(log'[n])
  BY <1>1, <1>2, InOrderTail
<1>5. Current(n)' = Current(n)
  BY <1>1, <1>3 DEF Current
<1>6. \A i \in 1..Len(log'[n]) : i + 1 \in 1..Len(log[n])
  BY <1>1, <1>3
<1>7. TaskInOrder(n)'
  BY <1>1, <1>3, <1>5, <1>6 DEF InOrderFor, TaskInOrder
<1>8. SlotsInOrder(n) => SlotsInOrder(n)'
  BY <1>1, <1>3, <1>5, <1>6 DEF SlotsInOrder
<1>9. QED
  BY <1>1, <1>4, <1>5, <1>7, <1>8 DEF InOrderFor, EntriesInOrder, MappedBy

\* Adding the finalizer keeps the object in order, whether or not the answer
\* comes back.
LEMMA AddFinalizerKeepsOrder ==
    ASSUME TypeOK, NEW n \in Names, InOrderFor(n), AddFinalizer(n)
    PROVE  InOrderFor(n)'
<1> DEFINE o == Current(n)
           w == [o EXCEPT !.fin = TRUE]
<1>1. o \in Version /\ log[n] \in Seq(Version) /\ log[n] # <<>> /\ UNCHANGED <<router, up>>
  BY Versions DEF AddFinalizer
<1>2. /\ UNCHANGED log \/ (Unprotected(o) /\ Write(n, w))
      /\ Finish(n, "none") \/ Finish(n, "retry")
  BY DEF AddFinalizer, ApiFails, FinishWithError
<1>3. CASE UNCHANGED log
  BY <1>1, <1>2, <1>3, EndKeepsOrder DEF Requests
<1>4. CASE Unprotected(o) /\ Write(n, w)
  <2>1. ~Protected(o)
    BY <1>4 DEF Unprotected, Protected
  <2>2. \A i \in 1..Len(log[n]) : ~Protected(log[n][i])
    BY <2>1 DEF InOrderFor, TaskInOrder, AddFinalizer
  <2>3. w \in Version
    BY <1>1, <1>4, NewVersions DEF Unprotected, Version
  <2>4. /\ log'[n] = Append(log[n], w) \/ log'[n] = <<w>>
        /\ log'[n][Len(log'[n])] = w
    BY <1>4, <2>3, WriteVersion
  <2>5. InOrder(log'[n])
    BY <1>1, <2>2, <2>3, <2>4, InOrderAppend, InOrderOne DEF InOrderFor
  <2>6. task'[n].pc = "idle"
    BY <1>2 DEF Finish, TypeOK, IdleTask
  <2>7. \A i \in 1..Len(log'[n]) : ~Protected(log'[n][i]) \/ log'[n][i] = w
    BY <1>4, <2>2, <2>3, WriteVersion
  <2>8. SlotsInOrder(n)'
    BY <2>4, <2>6, <2>7 DEF SlotsInOrder, Current
  <2>9. EntriesInOrder(n) => EntriesInOrder(n)'
    BY <1>1, <2>1 DEF EntriesInOrder, MappedBy
  <2>10. TaskInOrder(n)'
    BY <2>6 DEF TaskInOrder
  <2>11. QED
    BY <2>5, <2>8, <2>9, <2>10 DEF InOrderFor
<1>5. QED
  BY <1>2, <1>3, <1>4

\* Removing the finalizer keeps the object in order: the entry is gone by then.
LEMMA RemoveFinalizerKeepsOrder ==
    ASSUME TypeOK, NEW n \in Names, InOrderFor(n), RemoveFinalizer(n)
    PROVE  InOrderFor(n)'
<1> DEFINE o == Current(n)
           w == IF o.del THEN NoObject ELSE [o EXCEPT !.fin = FALSE]
<1>1. /\ o \in Version /\ log[n] \in Seq(Version) /\ log[n] # <<>>
      /\ UNCHANGED <<router, up>>
      /\ NoObject \in Version /\ ~Protected(NoObject)
  BY Versions DEF RemoveFinalizer, Version, Protected, Exists
<1>2. /\ UNCHANGED log \/ (Protected(o) /\ Write(n, w))
      /\ Finish(n, "none") \/ Finish(n, "retry")
  BY DEF RemoveFinalizer, ApiFails, FinishWithError
<1>3. CASE UNCHANGED log
  BY <1>1, <1>2, <1>3, EndKeepsOrder DEF Requests
<1>4. CASE Protected(o) /\ Write(n, w)
  <2>1. \A i \in 1..Len(log[n]) : Deleting(log[n][i])
    BY <1>4 DEF InOrderFor, TaskInOrder, RemoveFinalizer
  <2>2. Deleting(o)
    BY <2>1, Versions DEF Current
  <2>3. w = NoObject
    BY <2>2 DEF Deleting
  <2>4. Write(n, NoObject)
    BY <1>4, <2>3
  <2> HIDE DEF w
  <2>5. /\ log'[n] = Append(log[n], NoObject) \/ log'[n] = <<NoObject>>
        /\ Current(n)' = NoObject
    BY <1>1, <2>4, WriteVersion DEF Current
  <2>6. InOrder(log'[n])
    BY <1>1, <2>1, <2>5, InOrderAppend, InOrderOne DEF InOrderFor
  <2>7. task'[n].pc = "idle"
    BY <1>2 DEF Finish, TypeOK, IdleTask
  <2>8. SlotsInOrder(n)'
    BY <1>1, <2>5 DEF SlotsInOrder
  <2>9. EntriesInOrder(n) => EntriesInOrder(n)'
    BY <1>1 DEF EntriesInOrder, MappedBy, RemoveFinalizer
  <2>10. TaskInOrder(n)'
    BY <2>7 DEF TaskInOrder
  <2>11. QED
    BY <2>6, <2>8, <2>9, <2>10 DEF InOrderFor
<1>5. QED
  BY <1>2, <1>3, <1>4

\* A status written late keeps the object in order.
LEMMA PatchStatusKeepsOrder ==
    ASSUME TypeOK, NEW n \in Names, InOrderFor(n), PatchStatus(n)
    PROVE  InOrderFor(n)'
<1> DEFINE o == Current(n)
           w == [o EXCEPT !.status = task[n].status]
<1>1. o \in Version /\ UNCHANGED <<router, up>> /\ task[n].status \in Status
  BY Versions, TaskType DEF PatchStatus
<1>2. /\ UNCHANGED log \/ (Exists(o) /\ Write(n, w))
      /\ \E r \in {"lease", "retry"} : Finish(n, r)
  BY DEF PatchStatus, ApiFails, FinishWithError
<1>3. CASE UNCHANGED log
  BY <1>1, <1>2, <1>3, EndKeepsOrder DEF Requests
<1>4. CASE Exists(o) /\ Write(n, w)
  <2>1. Protected(o)
    BY DEF InOrderFor, TaskInOrder, PatchStatus
  <2>2. o \in Object
    BY <1>1, <1>4, NewVersions
  <2>3. w \in Object /\ w.fin = o.fin /\ w.del = o.del /\ w.slot = o.slot
    BY <1>1, <2>2 DEF Object
  <2>4. Write(n, w)
    BY <1>4
  <2> HIDE DEF w
  <2>5. w \in Version /\ Protected(w) /\ (Live(w) => Live(o))
    BY <2>1, <2>2, <2>3, SameLife
  <2>6. task'[n].pc = "idle"
    BY <1>2 DEF Finish, TypeOK, IdleTask
  <2>7. QED
    BY <1>1, <2>1, <2>3, <2>4, <2>5, <2>6, WriteWithinLife
<1>5. QED
  BY <1>2, <1>3, <1>4

\* A router that maps, refuses, or maps and loses its answer keeps the object
\* in order.
LEMMA AddPortMappingKeepsOrder ==
    ASSUME TypeOK, NEW n \in Names, InOrderFor(n), AddPortMapping(n)
    PROVE  InOrderFor(n)'
<1>0. \E st \in Status : GoTo(n, "patchStatus", st)
  BY DEF AddPortMapping, Status, Stamps
<1>1. /\ UNCHANGED <<log, up>> /\ up
      /\ task'[n].pc = "patchStatus" /\ task'[n].obj = task[n].obj
      /\ UNCHANGED router \/ MapOnRouter(n)
  BY <1>0, GoToStep DEF AddPortMapping, Steps
<1>2. Protected(Current(n)) /\ task[n].pc = "add"
  BY DEF AddPortMapping, InOrderFor, TaskInOrder
<1>3. TaskInOrder(n)'
  BY <1>1, <1>2 DEF TaskInOrder, Current
<1>4. SlotsInOrder(n) => SlotsInOrder(n)' /\ task[n].obj.slot = Current(n).slot
  BY <1>1, <1>2 DEF SlotsInOrder, Current
<1>5. ASSUME EntriesInOrder(n), SlotsInOrder(n), NEW s \in Slots, MappedBy(s, n)'
      PROVE  Current(n).slot = s
  <2>1. CASE UNCHANGED router
    BY <1>5, <2>1 DEF EntriesInOrder, MappedBy
  <2>2. CASE MapOnRouter(n)
    BY <1>4, <1>5, <2>2 DEF MapOnRouter, EntriesInOrder, MappedBy, TypeOK
  <2>3. QED
    BY <1>1, <2>1, <2>2
<1>6. EntriesInOrder(n) /\ SlotsInOrder(n) => EntriesInOrder(n)'
  BY <1>1, <1>2, <1>5 DEF EntriesInOrder, Current
<1>7. QED
  BY <1>1, <1>3, <1>4, <1>6 DEF InOrderFor

\* A router that deletes keeps the object in order.
LEMMA DeletePortMappingKeepsOrder ==
    ASSUME TypeOK, NEW n \in Names, InOrderFor(n), DeletePortMapping(n)
    PROVE  InOrderFor(n)'
<1>1. /\ UNCHANGED <<log, up>> /\ up
      /\ task[n].pc = "delete"
      /\ task'[n].pc = "removeFinalizer" /\ task'[n].obj = task[n].obj
  BY GoToStep DEF DeletePortMapping, Steps, Status
<1>2. TaskInOrder(n)'
  BY <1>1 DEF InOrderFor, TaskInOrder, Current
<1>3. SlotsInOrder(n) => SlotsInOrder(n)'
  BY <1>1 DEF SlotsInOrder, Current
<1>4. ASSUME "deleteFail" \notin Allowed, EntriesInOrder(n), SlotsInOrder(n)
      PROVE  EntriesInOrder(n)'
  <2>1. router' = [router EXCEPT ![task[n].obj.slot] = NoEntry]
    BY <1>4, FaultType DEF DeletePortMapping
  <2>2. Protected(Current(n)) => task[n].obj.slot = Current(n).slot
    BY <1>1, <1>4 DEF SlotsInOrder
  <2>3. ASSUME NEW s \in Slots PROVE ~MappedBy(s, n)'
    BY <1>4, <2>1, <2>2 DEF EntriesInOrder, MappedBy, TypeOK
  <2>4. QED
    BY <2>3 DEF EntriesInOrder
<1>5. QED
  BY <1>1, <1>2, <1>3, <1>4 DEF InOrderFor

\* Time running down a lease keeps the object in order.
LEMMA LeaseRunsDownKeepsOrder ==
    ASSUME TypeOK, NEW n \in Names, InOrderFor(n), LeaseRunsDown(n)
    PROVE  InOrderFor(n)'
<1>1. log[n] \in Seq(Version) /\ log[n] # <<>> /\ Len(log[n]) \in Nat \ {0}
  BY Versions
<1>2. /\ log'[n] = [i \in 1..Len(log[n]) |-> Aged(log[n][i])]
      /\ task'[n].pc = task[n].pc /\ task'[n].obj = task[n].obj
      /\ UNCHANGED up
      /\ \A s \in Slots : MappedBy(s, n)' => MappedBy(s, n)
  BY DEF LeaseRunsDown, TypeOK, Task, IdleTask, MappedBy, Entry
<1>3. InOrder(log'[n])
  BY <1>1, <1>2, InOrderAged DEF InOrderFor
<1>4. Len(log'[n]) = Len(log[n]) /\ \A i \in 1..Len(log[n]) : log'[n][i] = Aged(log[n][i])
  BY <1>1, <1>2, AgedVersions
<1>5. Current(n)' = Aged(Current(n))
  BY <1>1, <1>4 DEF Current
<1>6. \A o \in Version : /\ Protected(Aged(o)) <=> Protected(o)
                         /\ Deleting(Aged(o)) <=> Deleting(o)
                         /\ Protected(o) => Aged(o).slot = o.slot
  BY AgedKeeps DEF Protected
<1>7. /\ Current(n) \in Version
      /\ \A i \in 1..Len(log[n]) : log[n][i] \in Version
  BY Versions
<1>8. TaskInOrder(n)'
  BY <1>2, <1>4, <1>5, <1>6, <1>7 DEF InOrderFor, TaskInOrder
<1>9. SlotsInOrder(n) => SlotsInOrder(n)'
  BY <1>2, <1>4, <1>5, <1>6, <1>7 DEF SlotsInOrder
<1>10. EntriesInOrder(n) => EntriesInOrder(n)'
  BY <1>2, <1>5, <1>6, <1>7 DEF EntriesInOrder
<1>11. QED
  BY <1>3, <1>8, <1>9, <1>10 DEF InOrderFor

\* No step disturbs the order.
LEMMA OrderNext ==
    ASSUME TypeOK, ViewsInOrder, [AnyNext]_vars
    PROVE  ViewsInOrder'
<1>1. ASSUME NEW n \in Names, Controller(n) \/ Edits(n) \/ LeaseRunsDown(n),
             NEW m \in Names
      PROVE  InOrderFor(m)'
  <2>1. InOrderFor(n) /\ InOrderFor(m)
    BY DEF ViewsInOrder
  <2>2. CASE m = n
    BY <1>1, <2>1, <2>2, EditKeepsOrder, DeliverKeepsOrder, ReconcileKeepsOrder,
       AddFinalizerKeepsOrder, RemoveFinalizerKeepsOrder, AddPortMappingKeepsOrder,
       PatchStatusKeepsOrder, DeletePortMappingKeepsOrder, LeaseRunsDownKeepsOrder
    DEF Controller
  <2>3. CASE m # n
    BY <1>1, <2>1, <2>3, StepOfOne, OthersKeepOrder
  <2>4. QED
    BY <2>2, <2>3
<1>2. ASSUME \E s \in Slots : LeaseExpires(s), NEW m \in Names
      PROVE  InOrderFor(m)'
  BY <1>2, OthersKeepOrder DEF LeaseExpires, MappedBy, TypeOK, ViewsInOrder
<1>3. ASSUME RouterReboot, NEW m \in Names
      PROVE  InOrderFor(m)'
  BY <1>3, OthersKeepOrder DEF RouterReboot, MappedBy, ViewsInOrder
<1>4. ASSUME Crash, NEW m \in Names
      PROVE  InOrderFor(m)'
  <2>1. log'[m] = <<Current(m)>> /\ Current(m) \in Version
    BY <1>4, Versions DEF Crash
  <2>2. /\ InOrder(log'[m]) /\ Current(m)' = Current(m)
        /\ \A i \in 1..Len(log'[m]) : log'[m][i] = Current(m)
    BY <2>1, InOrderOne, OneVersion DEF Current
  <2>3. task'[m].pc = "idle" /\ UNCHANGED router
    BY <1>4 DEF Crash, IdleTask
  <2>4. QED
    BY <2>2, <2>3 DEF ViewsInOrder, InOrderFor, TaskInOrder, SlotsInOrder, EntriesInOrder, MappedBy
<1>5. ASSUME Start, NEW m \in Names
      PROVE  InOrderFor(m)'
  BY <1>5, OthersKeepOrder DEF Start, MappedBy, ViewsInOrder
<1>6. ASSUME UNCHANGED vars, NEW m \in Names
      PROVE  InOrderFor(m)'
  BY <1>6, OthersKeepOrder DEF vars, MappedBy, ViewsInOrder
<1>7. QED
  BY <1>1, <1>2, <1>3, <1>4, <1>5, <1>6 DEF AnyNext, ViewsInOrder

\* What the proofs rest on, whatever the hazards.
LEMMA ViewsStayInOrder == AnySpec => []ViewsInOrder
<1>1. Init => ViewsInOrder
  <2> SUFFICES ASSUME Init, NEW n \in Names PROVE InOrderFor(n)
    BY DEF ViewsInOrder
  <2>1. log[n] = <<NoObject>> /\ InOrder(log[n]) /\ ~Protected(Current(n))
    BY InOrderOne, OneVersion DEF Init, Version, Current, Protected, Exists
  <2>2. TaskInOrder(n) /\ SlotsInOrder(n) /\ EntriesInOrder(n)
    BY <2>1 DEF Init, TaskInOrder, SlotsInOrder, EntriesInOrder, MappedBy, IdleTask
  <2>3. QED
    BY <2>1, <2>2 DEF InOrderFor
<1>2. TypeOK /\ ViewsInOrder /\ [AnyNext]_vars => ViewsInOrder'
  BY OrderNext
<1>3. QED
  BY <1>1, <1>2, AnyTypes, PTL DEF AnySpec

\* The versions the controller has not seen never mislead a reconcile: the
\* inductive invariant behind NoOrphan.
THEOREM StaleViews ==
    ASSUME "editSlot" \notin Allowed, "deleteFail" \notin Allowed
    PROVE  Spec => []StaleViewsAreSafe
<1>1. ViewsInOrder => StaleViewsAreSafe
  BY DEF ViewsInOrder, InOrderFor, StaleViewsAreSafe
<1>2. QED
  BY <1>1, ViewsStayInOrder, SpecIsAny, PTL

\* No crash, lost answer, failed call or late watch event leaves the router with
\* a mapping whose object is gone or could go without a cleanup.
THEOREM FinalizerGuardsRouter ==
    ASSUME "editSlot" \notin Allowed, "deleteFail" \notin Allowed
    PROVE  Spec => []NoOrphan
<1>1. TypeOK /\ StaleViewsAreSafe => NoOrphan
  <2> SUFFICES ASSUME TypeOK, StaleViewsAreSafe, NEW s \in Slots, router[s] # NoEntry
               PROVE  Protected(Current(router[s].by))
    BY DEF NoOrphan
  <2>1. router[s].by \in Names /\ MappedBy(s, router[s].by)
    BY DEF TypeOK, Entry, MappedBy
  <2>2. QED
    BY <2>1 DEF StaleViewsAreSafe, EntriesInOrder
<1>2. QED
  BY <1>1, TypeCorrect, StaleViews, PTL
=============================================================================
