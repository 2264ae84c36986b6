-------------------------- MODULE Forwarding_proofs --------------------------
(* Proofs about the way in: the PortMapping controller below an annotation    *)
(* watcher keeps what is proved of it alone, and is to the watcher what       *)
(* AnnotationWatcher assumes.                                                 *)
EXTENDS Forwarding, ActiveStatus_proofs

-----------------------------------------------------------------------------
(* The watcher is one of those who write the objects.                         *)

\* A step of the watcher, of users or of the garbage collector is an edit of one
\* PortMapping, or none.
LEMMA WritesAreEdits ==
    ASSUME PmWrites
    PROVE  UNCHANGED vars \/ \E n \in Names : Edits(n)
<1>1. CASE UNCHANGED log
  BY <1>1 DEF PmWrites, vars
<1>2. ASSUME NEW n \in Names, Apply(n) PROVE Edits(n)
  <2>1. UNCHANGED <<req, task, router, up, faults>>
    BY DEF PmWrites
  <2>2. CASE Exists(Current(n))
    <3>1. PICK t \in Targets : /\ t # Current(n).target
                               /\ Write(n, [Current(n) EXCEPT !.target = t])
      BY <1>2, <2>2 DEF Apply
    <3>2. Retarget(n)
      BY <2>1, <2>2, <3>1 DEF Retarget
    <3>3. QED
      BY <3>2 DEF Edits
  <2>3. CASE ~Exists(Current(n))
    <3>1. Create(n)
      BY <1>2, <2>1, <2>3 DEF Apply, Create
    <3>2. QED
      BY <3>1 DEF Edits
  <2>4. QED
    BY <2>2, <2>3
<1>3. ASSUME NEW n \in Names, Remove(n) PROVE Edits(n)
  BY <1>3 DEF PmWrites, Remove, Delete, Edits
<1>4. QED
  BY <1>1, <1>2, <1>3 DEF PmWrites

\* So every behaviour of the composition is one of the controller among writers
\* without a bound.
LEMMA ForwardIsAny == ForwardSpec => AnySpec
<1>1. ForwardInit => Init
  BY DEF ForwardInit
<1>2. [ForwardNext]_forwardVars => [AnyNext]_vars
  <2> SUFFICES ASSUME [ForwardNext]_forwardVars PROVE [AnyNext]_vars
    OBVIOUS
  <2>1. CASE Round \/ Users \/ CollectGarbage
    BY <2>1, WritesAreEdits DEF Round, Users, CollectGarbage, AnyNext
  <2>2. CASE DeliverObject \/ ListenerDies \/ UNCHANGED forwardVars
    BY <2>2 DEF DeliverObject, ListenerDies, forwardVars
  <2>3. CASE ProcessDies \/ ProcessStarts
    BY <2>3 DEF ProcessDies, ProcessStarts, AnyNext
  <2>4. CASE PortMappings
    BY <2>4 DEF PortMappings, AnyNext
  <2>5. QED
    BY <2>1, <2>2, <2>3, <2>4 DEF ForwardNext
<1>3. QED
  BY <1>1, <1>2, PTL DEF ForwardSpec, AnySpec

\* Below a watcher too, whatever either of them crashes in and whatever fails,
\* status.active means that the mapping is on the router.
THEOREM ForwardedIsHonest ==
    ASSUME "editSlot" \notin Allowed, "reboot" \notin Allowed
    PROVE  ForwardSpec => []ActiveIsOnRouter
BY AnyStampsFit, ForwardIsAny, PTL

\* The controller adds no mapping for a PortMapping that has lost its finalizer,
\* however often watchers apply and delete it.
THEOREM ForwardedIsGuarded == ForwardSpec => []AddsAreGuarded
BY AnyAddsAreGuarded, ForwardIsAny, PTL

\* What the watcher deletes goes only after its mapping has been given up.
THEOREM ForwardImplementsGuard ==
    ASSUME "editSlot" \notin Allowed, "deleteFail" \notin Allowed
    PROVE  ForwardSpec => ImplementsGuard
BY AnyImplementsGuard, ForwardIsAny, PTL

-----------------------------------------------------------------------------
(* The controller is what the watcher takes it for.                           *)

\* A PortMapping that exists is not what stands for none.
LEMMA SeenIsSomething ==
    ASSUME NEW o \in Version, Exists(o)
    PROVE  Seen(o) # None
<1>1. Seen(o) \in Watcher!Pm
  BY DEF Seen, Version, Exists, Object, Watcher!Pm
<1>2. QED
  BY <1>1, ForwardingAssumption DEF Watcher!WatcherAssumption

\* A step of n leaves what a watcher sees of the others.
LEMMA OthersLookTheSame ==
    ASSUME TypeOK, NEW n \in Names, Controller(n) \/ LeaseRunsDown(n),
           NEW m \in Names \ {n}
    PROVE  Seen(Current(m))' = Seen(Current(m))
BY StepOfOne DEF Seen, Exists, Current

\* What the watcher sees does not tell the marks of the controller.
LEMMA MarksAreNotSeen ==
    ASSUME NEW o \in Version, NEW f \in BOOLEAN, NEW st \in Status, Exists(o)
    PROVE  /\ [o EXCEPT !.fin = f] \in Version
           /\ [o EXCEPT !.status = st] \in Version
           /\ Seen([o EXCEPT !.fin = f]) = Seen(o)
           /\ Seen([o EXCEPT !.status = st]) = Seen(o)
<1>1. o \in Object
  BY DEF Version, Exists
<1>2. /\ [o EXCEPT !.fin = f] \in Object
      /\ [o EXCEPT !.fin = f].target = o.target /\ [o EXCEPT !.fin = f].del = o.del
      /\ [o EXCEPT !.status = st] \in Object
      /\ [o EXCEPT !.status = st].target = o.target /\ [o EXCEPT !.status = st].del = o.del
  BY <1>1 DEF Object
<1>3. QED
  BY <1>2, ConstantsAssumption DEF Seen, Exists, Version

\* The controller changes nothing that a watcher sees of a PortMapping, or ends
\* its deletion.
LEMMA ControllerLooksAlike ==
    ASSUME TypeOK, NEW n \in Names, Controller(n) \/ LeaseRunsDown(n)
    PROVE  \/ Seen(Current(n))' = Seen(Current(n))
           \/ /\ Exists(Current(n)) /\ Current(n).del
              /\ Current(n)' = NoObject
<1> DEFINE o == Current(n)
<1>0. o \in Version /\ NoObject \in Version /\ task[n].status \in Status
  BY Versions, TaskType DEF Version
<1>1. ASSUME Current(n)' = Current(n) PROVE Seen(Current(n))' = Seen(Current(n))
  BY <1>1 DEF Seen, Exists
<1>2. CASE UNCHANGED log
  BY <1>1, <1>2 DEF Current
<1>3. CASE Deliver(n)
  <2>1. /\ log'[n] = Tail(log[n]) /\ Len(log[n]) > 1 /\ log[n] \in Seq(Version)
    BY <1>3, Versions DEF Deliver, TypeOK
  <2>2. /\ Len(log'[n]) = Len(log[n]) - 1 /\ Len(log[n]) \in Nat
        /\ \A i \in 1..Len(log'[n]) : log'[n][i] = log[n][i + 1]
    BY <2>1, TailVersions
  <2>3. Current(n)' = Current(n)
    BY <2>1, <2>2 DEF Current
  <2>4. QED
    BY <1>1, <2>3
<1>4. CASE AddFinalizer(n)
  <2>1. UNCHANGED log \/ (Exists(o) /\ Write(n, [o EXCEPT !.fin = TRUE]))
    BY <1>4 DEF AddFinalizer, ApiFails, Unprotected
  <2>2. ASSUME Exists(o), Write(n, [o EXCEPT !.fin = TRUE])
        PROVE  Seen(Current(n))' = Seen(Current(n))
    <3>1. Current(n)' = [o EXCEPT !.fin = TRUE]
      BY <1>0, <2>2, MarksAreNotSeen, Written
    <3>2. Seen(Current(n))' = Seen([o EXCEPT !.fin = TRUE])
      BY <3>1 DEF Seen, Exists
    <3>3. QED
      BY <1>0, <2>2, <3>2, MarksAreNotSeen
  <2>3. QED
    BY <1>2, <2>1, <2>2
<1>5. CASE RemoveFinalizer(n)
  <2>1. \/ UNCHANGED log
        \/ /\ Exists(o)
           /\ \/ o.del /\ Write(n, NoObject)
              \/ Write(n, [o EXCEPT !.fin = FALSE])
    BY <1>5 DEF RemoveFinalizer, ApiFails, Protected
  <2>2. ASSUME Exists(o), Write(n, [o EXCEPT !.fin = FALSE])
        PROVE  Seen(Current(n))' = Seen(Current(n))
    <3>1. Current(n)' = [o EXCEPT !.fin = FALSE]
      BY <1>0, <2>2, MarksAreNotSeen, Written
    <3>2. Seen(Current(n))' = Seen([o EXCEPT !.fin = FALSE])
      BY <3>1 DEF Seen, Exists
    <3>3. QED
      BY <1>0, <2>2, <3>2, MarksAreNotSeen
  <2>3. QED
    BY <1>0, <1>2, <2>1, <2>2, Written
<1>6. CASE PatchStatus(n)
  <2>1. UNCHANGED log \/ (Exists(o) /\ Write(n, [o EXCEPT !.status = task[n].status]))
    BY <1>6 DEF PatchStatus, ApiFails
  <2>2. ASSUME Exists(o), Write(n, [o EXCEPT !.status = task[n].status])
        PROVE  Seen(Current(n))' = Seen(Current(n))
    <3>1. Current(n)' = [o EXCEPT !.status = task[n].status]
      BY <1>0, <2>2, MarksAreNotSeen, Written
    <3>2. Seen(Current(n))' = Seen([o EXCEPT !.status = task[n].status])
      BY <3>1 DEF Seen, Exists
    <3>3. QED
      BY <1>0, <2>2, <3>2, MarksAreNotSeen
  <2>3. QED
    BY <1>2, <2>1, <2>2
<1>7. CASE LeaseRunsDown(n)
  <2>1. /\ log'[n] = [i \in 1..Len(log[n]) |-> Aged(log[n][i])]
        /\ log[n] \in Seq(Version) /\ log[n] # <<>> /\ Len(log[n]) \in Nat \ {0}
    BY <1>7, Versions DEF LeaseRunsDown, TypeOK
  <2>2. Current(n)' = Aged(o)
    BY <2>1, AgedVersions DEF Current
  <2>3. Seen(Current(n))' = Seen(Aged(o))
    BY <2>2 DEF Seen, Exists
  <2>4. Seen(Aged(o)) = Seen(o)
    <3>1. CASE ~Exists(o)
      BY <3>1 DEF Aged
    <3>2. CASE Exists(o)
      <4>1. Aged(o) = [o EXCEPT !.status = AgedStatus(o.status)]
        BY <3>2 DEF Aged
      <4>2. AgedStatus(o.status) \in Status
        BY <1>0, <3>2 DEF AgedStatus, Version, Exists, Object, Status, Stamps
      <4>3. Seen([o EXCEPT !.status = AgedStatus(o.status)]) = Seen(o)
        BY <1>0, <3>2, <4>2, MarksAreNotSeen
      <4>4. QED
        BY <4>1, <4>3
    <3>3. QED
      BY <3>1, <3>2
  <2>5. QED
    BY <2>3, <2>4
<1>8. QED
  BY <1>2, <1>3, <1>4, <1>5, <1>6, <1>7
  DEF Controller, Reconcile, AddPortMapping, DeletePortMapping

\* The steps of the controller, of time and of the router are steps of
\* AnnotationWatcher, or none.
LEMMA ControllerIsWatched ==
    ASSUME TypeOK, PortMappings
    PROVE  [Watcher!Next]_(Watcher!vars)
<1>0. UNCHANGED <<versions, rounds, round, proxy, dead, edits, roundFaults>>
  BY DEF PortMappings, watcherVars
<1>1. UNCHANGED up
  BY DEF PortMappings, Controller, Deliver, Reconcile, AddFinalizer, RemoveFinalizer,
     AddPortMapping, PatchStatus, DeletePortMapping, LeaseRunsDown, LeaseExpires,
     RouterReboot
<1>2. ASSUME \A n \in Names : Seen(Current(n))' = Seen(Current(n))
      PROVE  UNCHANGED Watcher!vars
  <2>1. [n \in Names |-> Seen(Current(n))]' = [n \in Names |-> Seen(Current(n))]
    BY <1>2
  <2>2. QED
    BY <1>0, <1>1, <2>1 DEF Watcher!vars
<1>3. ASSUME NEW n \in Names, Controller(n) \/ LeaseRunsDown(n)
      PROVE  [Watcher!Next]_(Watcher!vars)
  <2>1. \A m \in Names \ {n} : Seen(Current(m))' = Seen(Current(m))
    BY <1>3, OthersLookTheSame
  <2>2. CASE Seen(Current(n))' = Seen(Current(n))
    BY <1>2, <2>1, <2>2
  <2>3. CASE Exists(Current(n)) /\ Current(n).del /\ Current(n)' = NoObject
    <3>1. /\ Seen(Current(n)) = [port |-> Current(n).target, del |-> Current(n).del]
          /\ Seen(Current(n))' = None
      BY <2>3 DEF Seen, Exists
    <3>2. [m \in Names |-> Seen(Current(m))]'
             = [[m \in Names |-> Seen(Current(m))] EXCEPT ![n] = None]
      BY <2>1, <3>1
    <3>3. Seen(Current(n)) # None
      BY <2>3, Versions, SeenIsSomething
    <3>4. Watcher!PmVanishes(n)
      BY <1>0, <1>1, <2>3, <3>1, <3>2, <3>3 DEF Watcher!PmVanishes
    <3>5. QED
      BY <3>4 DEF Watcher!Next
  <2>4. QED
    BY <1>3, <2>2, <2>3, ControllerLooksAlike
<1>4. CASE (\E s \in Slots : LeaseExpires(s)) \/ RouterReboot
  <2>1. UNCHANGED log
    BY <1>4 DEF LeaseExpires, RouterReboot
  <2>2. QED
    BY <1>2, <2>1 DEF Seen, Exists, Current
<1>5. QED
  BY <1>3, <1>4 DEF PortMappings

\* AnnotationWatcher is refined: what its runs and its proofs show of the
\* watchers, with PortMappings that vanish when they are deleted, holds with the
\* controller that makes them vanish.
THEOREM WatcherIsImplemented == ForwardSpec => ImplementsWatcher
<1>1. ForwardInit => Watcher!Init
  BY DEF ForwardInit
<1>2. TypeOK /\ [ForwardNext]_forwardVars => [Watcher!Next]_(Watcher!vars)
  <2> SUFFICES ASSUME TypeOK, [ForwardNext]_forwardVars
               PROVE  [Watcher!Next]_(Watcher!vars)
    OBVIOUS
  <2>1. CASE \/ Round \/ Users \/ CollectGarbage \/ DeliverObject \/ ListenerDies
             \/ ProcessDies \/ ProcessStarts
    BY <2>1 DEF Round, Users, CollectGarbage, DeliverObject, ListenerDies, ProcessDies,
       ProcessStarts, Watcher!Next
  <2>2. CASE PortMappings
    BY <2>2, ControllerIsWatched
  <2>3. CASE UNCHANGED forwardVars
    <3>1. UNCHANGED <<log, up>> /\ UNCHANGED watcherVars
      BY <2>3 DEF forwardVars, vars
    <3>2. [n \in Names |-> Seen(Current(n))]' = [n \in Names |-> Seen(Current(n))]
      BY <3>1 DEF Seen, Exists, Current
    <3>3. QED
      BY <3>1, <3>2 DEF Watcher!vars, watcherVars
  <2>4. QED
    BY <2>1, <2>2, <2>3 DEF ForwardNext
<1>3. QED
  BY <1>1, <1>2, AnyTypes, ForwardIsAny, PTL
  DEF ForwardSpec, ImplementsWatcher, Watcher!Spec
=============================================================================
