------------------------- MODULE ActiveStatus_proofs -------------------------
(* More proofs about the PortMapping controller, on top of the order of the   *)
(* versions: an active status is honest, and the controller is one that the   *)
(* finalizer protocol of GuardedResource allows.                              *)
EXTENDS PortMappingCtrl_proofs

-----------------------------------------------------------------------------
(* What a step does to an object as it is on the API server.                  *)

Created(n) ==
    /\ ~Exists(Current(n))
    /\ \E s \in Wants[n], t \in Targets :
          Current(n)' = [slot |-> s, target |-> t, fin |-> FALSE, del |-> FALSE,
                         status |-> "none"]

Gone(n) ==
    /\ Exists(Current(n))
    /\ Current(n)' = NoObject
    /\ Protected(Current(n)) =>
          /\ Deleting(Current(n))
          /\ "deleteFail" \notin Allowed => \A s \in Slots : ~MappedBy(s, n)

Finalized(n) ==
    /\ Unprotected(Current(n))
    /\ Current(n)' = [Current(n) EXCEPT !.fin = TRUE]

Edited(n) ==
    /\ Exists(Current(n))
    /\ \E t \in Targets : Current(n)' = [Current(n) EXCEPT !.target = t]

Marked(n) ==
    /\ Live(Current(n))
    /\ Current(n)' = [Current(n) EXCEPT !.del = TRUE]

Reported(n) ==
    /\ task[n].pc = "patchStatus"
    /\ Protected(Current(n))
    /\ task[n].obj.slot = Current(n).slot
    /\ Current(n)' = [Current(n) EXCEPT !.status = task[n].status]

Writes(n) ==
    /\ UNCHANGED router
    /\ task'[n] = task[n] \/ task'[n].pc = "idle"
    /\ \/ Created(n) \/ Gone(n) \/ Finalized(n)
       \/ Edited(n) \/ Marked(n) \/ Reported(n)

\* A write is what the API server has afterwards.
LEMMA Written ==
    ASSUME TypeOK, NEW n \in Names, NEW o \in Version, Write(n, o)
    PROVE  Current(n)' = o
BY WriteVersion DEF Current

\* Whoever edits writes nothing else.
LEMMA EditWrites ==
    ASSUME TypeOK, "editSlot" \notin Allowed, NEW n \in Names, Edits(n)
    PROVE  Writes(n)
<1>0. Current(n) \in Version
  BY Versions
<1>1. CASE Create(n)
  <2>1. PICK s \in Wants[n], t \in Targets :
          Write(n, [slot |-> s, target |-> t, fin |-> FALSE, del |-> FALSE,
                    status |-> "none"])
    BY <1>1 DEF Create
  <2>2. [slot |-> s, target |-> t, fin |-> FALSE, del |-> FALSE, status |-> "none"]
          \in Version
    BY ConstantsAssumption DEF Version, Object, Status
  <2>3. Created(n)
    BY <1>1, <2>1, <2>2, Written DEF Create, Created
  <2>4. QED
    BY <1>1, <2>3 DEF Create, Writes
<1>2. CASE Delete(n)
  <2>1. CASE Current(n).fin
    <3>1. [Current(n) EXCEPT !.del = TRUE] \in Version
      BY <1>0, <1>2, NewVersions DEF Delete, Version
    <3>2. Current(n)' = [Current(n) EXCEPT !.del = TRUE]
      BY <1>2, <2>1, <3>1, Written DEF Delete
    <3>3. Marked(n)
      BY <1>2, <2>1, <3>2 DEF Delete, Marked, Live, Protected
    <3>4. QED
      BY <1>2, <3>3 DEF Delete, Writes
  <2>2. CASE ~Current(n).fin
    <3>1. Current(n)' = NoObject
      BY <1>2, <2>2, Written DEF Delete, Version
    <3>2. Gone(n)
      BY <1>2, <2>2, <3>1 DEF Delete, Gone, Protected
    <3>3. QED
      BY <1>2, <3>2 DEF Delete, Writes
  <2>3. QED
    BY <2>1, <2>2
<1>3. CASE Retarget(n)
  <2>1. PICK t \in Targets : Write(n, [Current(n) EXCEPT !.target = t])
    BY <1>3 DEF Retarget
  <2>2. [Current(n) EXCEPT !.target = t] \in Version
    BY <1>0, <1>3, NewVersions DEF Retarget, Version
  <2>3. Edited(n)
    BY <1>3, <2>1, <2>2, Written DEF Retarget, Edited
  <2>4. QED
    BY <1>3, <2>3 DEF Retarget, Writes
<1>4. CASE EditSlot(n)
  BY <1>4 DEF EditSlot, Fault
<1>5. QED
  BY <1>1, <1>2, <1>3, <1>4 DEF Edits

\* The end of a reconcile.
LEMMA Idles ==
    ASSUME TypeOK, NEW n \in Names, NEW r, Finish(n, r)
    PROVE  task'[n].pc = "idle"
BY DEF Finish, TypeOK, IdleTask

\* The controller's own writes.
LEMMA ControllerWrites ==
    ASSUME TypeOK, ViewsInOrder, "editSlot" \notin Allowed, NEW n \in Names,
           AddFinalizer(n) \/ RemoveFinalizer(n) \/ PatchStatus(n)
    PROVE  (UNCHANGED <<log, router>> /\ task'[n].pc = "idle") \/ Writes(n)
<1>0. Current(n) \in Version /\ NoObject \in Version
  BY Versions DEF Version
<1>1. CASE AddFinalizer(n)
  <2> DEFINE w == [Current(n) EXCEPT !.fin = TRUE]
  <2>1. /\ UNCHANGED log \/ (Unprotected(Current(n)) /\ Write(n, w))
        /\ UNCHANGED router /\ task'[n].pc = "idle"
    BY <1>1, Idles DEF AddFinalizer, ApiFails, FinishWithError
  <2>2. ASSUME Unprotected(Current(n)), Write(n, w) PROVE Finalized(n)
    <3>1. w \in Version
      BY <1>0, <2>2, NewVersions DEF Unprotected, Version
    <3>2. QED
      BY <2>2, <3>1, Written DEF Finalized
  <2>3. QED
    BY <2>1, <2>2 DEF Writes
<1>2. CASE RemoveFinalizer(n)
  <2> DEFINE w == IF Current(n).del THEN NoObject ELSE [Current(n) EXCEPT !.fin = FALSE]
  <2>1. /\ UNCHANGED log \/ (Protected(Current(n)) /\ Write(n, w))
        /\ UNCHANGED router /\ task'[n].pc = "idle"
    BY <1>2, Idles DEF RemoveFinalizer, ApiFails, FinishWithError
  <2>2. ASSUME Protected(Current(n)), Write(n, w) PROVE Gone(n)
    <3>1. /\ \A i \in 1..Len(log[n]) : Deleting(log[n][i])
          /\ "deleteFail" \notin Allowed => \A s \in Slots : ~MappedBy(s, n)
      BY <1>2, <2>2 DEF RemoveFinalizer, ViewsInOrder, InOrderFor, TaskInOrder,
         EntriesInOrder
    <3>2. Deleting(Current(n))
      BY <3>1, Versions DEF Current
    <3>3. Write(n, NoObject)
      BY <2>2, <3>2 DEF Deleting
    <3>4. QED
      BY <1>0, <2>2, <3>1, <3>2, <3>3, Written DEF Gone, Protected
  <2>3. QED
    BY <2>1, <2>2 DEF Writes
<1>3. CASE PatchStatus(n)
  <2> DEFINE w == [Current(n) EXCEPT !.status = task[n].status]
  <2>1. /\ UNCHANGED log \/ (Exists(Current(n)) /\ Write(n, w))
        /\ UNCHANGED router /\ task'[n].pc = "idle"
    BY <1>3, Idles DEF PatchStatus, ApiFails, FinishWithError
  <2>2. ASSUME Exists(Current(n)), Write(n, w) PROVE Reported(n)
    <3>1. w \in Version
      BY <1>0, <2>2, NewVersions, TaskType DEF Version
    <3>2. Protected(Current(n)) /\ task[n].obj.slot = Current(n).slot
      BY <1>3 DEF PatchStatus, ViewsInOrder, InOrderFor, TaskInOrder, SlotsInOrder
    <3>3. QED
      BY <1>3, <2>2, <3>1, <3>2, Written DEF Reported, PatchStatus
  <2>3. QED
    BY <2>1, <2>2 DEF Writes
<1>4. QED
  BY <1>1, <1>2, <1>3

-----------------------------------------------------------------------------
(* Invariants that the statuses rest on.                                      *)

\* Objects ask for slots of their own.
OwnSlots == \A n \in Names :
    /\ \A i \in 1..Len(log[n]) : Exists(log[n][i]) => log[n][i].slot \in Wants[n]
    /\ task[n].pc # "idle" => task[n].obj.slot \in Wants[n]

\* An object without a finalizer has never been mapped, nor is it going.
NewObjects == \A n \in Names :
    Unprotected(Current(n)) => Current(n).status # "fresh" /\ ~Current(n).del

MappedFresh(s, n) == MappedBy(s, n) /\ router[s].lease = "fresh"

\* A stamp on the object, or on its way there, is that of a fresh entry.
StampFits(n) == Uncontested(n) =>
    /\ Live(Current(n)) /\ Current(n).status = "fresh" => MappedFresh(Current(n).slot, n)
    /\ task[n].pc = "patchStatus" /\ task[n].status = "fresh" =>
          MappedFresh(task[n].obj.slot, n)

StampsFit == \A n \in Names : StampFits(n)

\* A write keeps the slots that an object asks for its own.
LEMMA WriteKeepsSlots ==
    ASSUME TypeOK, OwnSlots, NEW n \in Names, NEW o \in Version, Write(n, o),
           Exists(o) => o.slot \in Wants[n]
    PROVE  \A i \in 1..Len(log'[n]) : Exists(log'[n][i]) => log'[n][i].slot \in Wants[n]
BY WriteVersion DEF OwnSlots

\* What the actions write of an object keeps its slot.
LEMMA SameSlot ==
    ASSUME NEW o \in Version, Exists(o)
    PROVE  /\ [o EXCEPT !.fin = TRUE] \in Version /\ [o EXCEPT !.fin = TRUE].slot = o.slot
           /\ [o EXCEPT !.fin = FALSE] \in Version /\ [o EXCEPT !.fin = FALSE].slot = o.slot
           /\ [o EXCEPT !.del = TRUE] \in Version /\ [o EXCEPT !.del = TRUE].slot = o.slot
           /\ \A t \in Targets : /\ [o EXCEPT !.target = t] \in Version
                                 /\ [o EXCEPT !.target = t].slot = o.slot
           /\ \A st \in Status : /\ [o EXCEPT !.status = st] \in Version
                                 /\ [o EXCEPT !.status = st].slot = o.slot
<1>1. o \in Object
  BY DEF Version, Exists
<1>2. QED
  BY <1>1 DEF Version, Object

\* The steps of one object keep its slots its own.
LEMMA SlotsStep ==
    ASSUME TypeOK, OwnSlots, NEW n \in Names,
           Controller(n) \/ Edits(n) \/ LeaseRunsDown(n)
    PROVE  OwnSlots'
<1> DEFINE o == Current(n)
           Own(versions) == \A i \in 1..Len(versions) :
                               Exists(versions[i]) => versions[i].slot \in Wants[n]
           OwnTask == task'[n].pc # "idle" => task'[n].obj.slot \in Wants[n]
<1>0. /\ o \in Version /\ Cached(n) \in Version /\ NoObject \in Version
      /\ Exists(o) => o.slot \in Wants[n]
      /\ Exists(Cached(n)) => Cached(n).slot \in Wants[n]
      /\ Own(log[n])
  BY Versions DEF OwnSlots, Version, Current, Cached
<1>1. ASSUME Own(log'[n]), OwnTask PROVE OwnSlots'
  BY <1>1, StepOfOne DEF OwnSlots
<1>2. ASSUME NEW w \in Version, Write(n, w), Exists(w) => w.slot \in Wants[n]
      PROVE  Own(log'[n])
  BY <1>2, WriteKeepsSlots
<1>3. (task'[n] = task[n] \/ task'[n].pc = "idle") => OwnTask
  BY DEF OwnSlots
<1> HIDE DEF Own, OwnTask
<1>4. CASE Create(n)
  <2>1. PICK s \in Wants[n], t \in Targets :
          Write(n, [slot |-> s, target |-> t, fin |-> FALSE, del |-> FALSE,
                    status |-> "none"])
    BY <1>4 DEF Create
  <2>2. [slot |-> s, target |-> t, fin |-> FALSE, del |-> FALSE, status |-> "none"]
          \in Version
    BY ConstantsAssumption DEF Version, Object, Status
  <2>3. Own(log'[n])
    BY <1>2, <2>1, <2>2
  <2>4. QED
    BY <1>1, <1>3, <1>4, <2>3 DEF Create
<1>5. CASE Delete(n)
  <2> DEFINE w == IF o.fin THEN [o EXCEPT !.del = TRUE] ELSE NoObject
  <2>1. w \in Version /\ (Exists(w) => w.slot \in Wants[n])
    <3>1. CASE o.fin
      BY <1>0, <1>5, <3>1, SameSlot DEF Delete
    <3>2. CASE ~o.fin
      BY <1>0, <3>2 DEF Exists
    <3>3. QED
      BY <3>1, <3>2
  <2>2. Write(n, w) /\ UNCHANGED task
    BY <1>5 DEF Delete
  <2> HIDE DEF w
  <2>3. Own(log'[n])
    BY <1>2, <2>1, <2>2
  <2>4. QED
    BY <1>1, <1>3, <2>2, <2>3
<1>6. CASE Retarget(n)
  <2>1. PICK t \in Targets : Write(n, [o EXCEPT !.target = t]) /\ Exists(o)
    BY <1>6 DEF Retarget
  <2>2. [o EXCEPT !.target = t] \in Version /\ [o EXCEPT !.target = t].slot = o.slot
    BY <1>0, <2>1, SameSlot
  <2>3. Own(log'[n])
    BY <1>0, <1>2, <2>1, <2>2
  <2>4. QED
    BY <1>1, <1>3, <1>6, <2>3 DEF Retarget
<1>7. CASE EditSlot(n)
  <2>1. PICK s \in Wants[n] : Write(n, [o EXCEPT !.slot = s]) /\ Exists(o)
    BY <1>7 DEF EditSlot
  <2>2. [o EXCEPT !.slot = s] \in Version /\ [o EXCEPT !.slot = s].slot = s
    <3>1. o \in Object /\ s \in Slots
      BY <1>0, <2>1, ConstantsAssumption DEF Version, Exists
    <3>2. QED
      BY <3>1 DEF Version, Object
  <2>3. Own(log'[n])
    BY <1>2, <2>1, <2>2
  <2>4. QED
    BY <1>1, <1>3, <1>7, <2>3 DEF EditSlot
<1>8. CASE Deliver(n)
  <2>1. /\ log'[n] = Tail(log[n]) /\ Len(log[n]) > 1 /\ log[n] \in Seq(Version)
        /\ UNCHANGED task
    BY <1>8, Versions DEF Deliver, TypeOK
  <2>2. /\ Len(log'[n]) = Len(log[n]) - 1 /\ Len(log[n]) \in Nat
        /\ \A i \in 1..Len(log'[n]) : log'[n][i] = log[n][i + 1]
    BY <2>1, TailVersions
  <2>3. \A i \in 1..Len(log'[n]) : i + 1 \in 1..Len(log[n])
    BY <2>1, <2>2
  <2>4. Own(log'[n])
    BY <1>0, <2>2, <2>3 DEF Own
  <2>5. QED
    BY <1>1, <1>3, <2>1, <2>4
<1>9. CASE Reconcile(n)
  <2>1. /\ UNCHANGED log
        /\ task'[n] = IF FirstStep(Cached(n)) = "idle" THEN IdleTask
                      ELSE [pc |-> FirstStep(Cached(n)),
                            obj |-> [Cached(n) EXCEPT !.status = "none"],
                            status |-> "none"]
    BY <1>9 DEF Reconcile, TypeOK
  <2>2. FirstStep(Cached(n)) # "idle" => Exists(Cached(n))
    BY DEF FirstStep
  <2>3. task'[n].pc # "idle" => task'[n].obj.slot = Cached(n).slot /\ Exists(Cached(n))
    BY <1>0, <2>1, <2>2 DEF IdleTask, Version, Exists, Object
  <2>4. OwnTask
    BY <1>0, <2>3 DEF OwnTask
  <2>5. QED
    BY <1>0, <1>1, <2>1, <2>4
<1>10. CASE AddFinalizer(n) \/ RemoveFinalizer(n) \/ PatchStatus(n)
  <2>1. task'[n].pc = "idle"
    BY <1>10, Idles DEF AddFinalizer, RemoveFinalizer, PatchStatus, ApiFails, FinishWithError
  <2>2. \/ UNCHANGED log
        \/ \E w \in Version : Write(n, w) /\ (Exists(w) => w.slot \in Wants[n])
    <3>2. CASE AddFinalizer(n)
      <4>1. UNCHANGED log \/ (Exists(o) /\ Write(n, [o EXCEPT !.fin = TRUE]))
        BY <3>2 DEF AddFinalizer, ApiFails, Unprotected
      <4>2. Exists(o) => /\ [o EXCEPT !.fin = TRUE] \in Version
                         /\ [o EXCEPT !.fin = TRUE].slot = o.slot
        BY <1>0, SameSlot
      <4>3. QED
        BY <1>0, <4>1, <4>2
    <3>3. CASE RemoveFinalizer(n)
      <4>1. \/ UNCHANGED log
            \/ Exists(o) /\ (Write(n, NoObject) \/ Write(n, [o EXCEPT !.fin = FALSE]))
        BY <3>3 DEF RemoveFinalizer, ApiFails, Protected
      <4>2. Exists(o) => /\ [o EXCEPT !.fin = FALSE] \in Version
                         /\ [o EXCEPT !.fin = FALSE].slot = o.slot
        BY <1>0, SameSlot
      <4>3. QED
        BY <1>0, <4>1, <4>2 DEF Exists
    <3>4. CASE PatchStatus(n)
      <4>1. UNCHANGED log \/ (Exists(o) /\ Write(n, [o EXCEPT !.status = task[n].status]))
        BY <3>4 DEF PatchStatus, ApiFails
      <4>2. Exists(o) => /\ [o EXCEPT !.status = task[n].status] \in Version
                         /\ [o EXCEPT !.status = task[n].status].slot = o.slot
        BY <1>0, SameSlot, TaskType
      <4>3. QED
        BY <1>0, <4>1, <4>2
    <3>5. QED
      BY <1>10, <3>2, <3>3, <3>4
  <2>3. Own(log'[n])
    BY <1>0, <1>2, <2>2
  <2>4. QED
    BY <1>1, <1>3, <2>1, <2>3
<1>11. CASE AddPortMapping(n) \/ DeletePortMapping(n)
  <2>1. UNCHANGED log /\ task[n].pc # "idle"
    BY <1>11 DEF AddPortMapping, DeletePortMapping
  <2>2. \E st \in Status, p \in Steps : GoTo(n, p, st)
    BY <1>11 DEF AddPortMapping, DeletePortMapping, Status, Stamps, Steps
  <2>3. task'[n].obj = task[n].obj
    BY <2>1, <2>2, GoToStep
  <2>4. OwnTask
    BY <2>1, <2>3 DEF OwnTask, OwnSlots
  <2>5. QED
    BY <1>0, <1>1, <2>1, <2>4
<1>12. CASE LeaseRunsDown(n)
  <2>1. /\ log'[n] = [i \in 1..Len(log[n]) |-> Aged(log[n][i])]
        /\ task'[n].pc = task[n].pc /\ task'[n].obj = task[n].obj
    BY <1>12 DEF LeaseRunsDown, TypeOK, Task, IdleTask
  <2>2. Len(log'[n]) = Len(log[n]) /\ \A i \in 1..Len(log[n]) : log'[n][i] = Aged(log[n][i])
    BY <2>1, Versions, AgedVersions
  <2>3. \A v \in Version : /\ Exists(Aged(v)) <=> Exists(v)
                           /\ Exists(v) => Aged(v).slot = v.slot
    BY AgedKeeps
  <2>4. \A i \in 1..Len(log[n]) : log[n][i] \in Version
    BY Versions
  <2>5. Own(log'[n])
    BY <1>0, <2>2, <2>3, <2>4 DEF Own
  <2>6. OwnTask
    BY <2>1 DEF OwnTask, OwnSlots
  <2>7. QED
    BY <1>1, <2>5, <2>6
<1>13. QED
  BY <1>4, <1>5, <1>6, <1>7, <1>8, <1>9, <1>10, <1>11, <1>12 DEF Controller, Edits

\* Objects never ask for a slot that is not theirs.
LEMMA SlotsNext ==
    ASSUME TypeOK, OwnSlots, [AnyNext]_vars
    PROVE  OwnSlots'
<1>1. CASE \E n \in Names : Controller(n) \/ Edits(n) \/ LeaseRunsDown(n)
  BY <1>1, SlotsStep
<1>2. CASE Crash
  <2>1. ASSUME NEW n \in Names
        PROVE  /\ log'[n] = <<Current(n)>> /\ task'[n].pc = "idle"
               /\ Exists(Current(n)) => Current(n).slot \in Wants[n]
    <3>1. Exists(Current(n)) => Current(n).slot \in Wants[n]
      BY Versions DEF OwnSlots, Current
    <3>2. QED
      BY <1>2, <3>1 DEF Crash, IdleTask
  <2>2. ASSUME NEW n \in Names, NEW i \in 1..Len(log'[n]) PROVE log'[n][i] = Current(n)
    BY <2>1, Versions, OneVersion
  <2>3. QED
    BY <2>1, <2>2 DEF OwnSlots
<1>3. CASE UNCHANGED <<log, task>>
  BY <1>3 DEF OwnSlots
<1>4. QED
  BY <1>1, <1>2, <1>3 DEF AnyNext, LeaseExpires, RouterReboot, Start, vars

\* What a step of n does with the object n: nothing, age it, or one write.
LEMMA StepKinds ==
    ASSUME TypeOK, ViewsInOrder, "editSlot" \notin Allowed,
           NEW n \in Names, Controller(n) \/ Edits(n)
    PROVE  \/ Writes(n)
           \/ /\ Current(n)' = Current(n)
              /\ \/ UNCHANGED router /\ task'[n] = task[n]
                 \/ UNCHANGED router /\ task'[n].pc # "patchStatus"
                 \/ AddPortMapping(n)
                 \/ DeletePortMapping(n)
<1>1. CASE Edits(n)
  BY <1>1, EditWrites
<1>2. CASE AddFinalizer(n) \/ RemoveFinalizer(n) \/ PatchStatus(n)
  BY <1>2, ControllerWrites DEF Current
<1>3. CASE Deliver(n)
  <2>1. /\ log'[n] = Tail(log[n]) /\ Len(log[n]) > 1 /\ log[n] \in Seq(Version)
        /\ UNCHANGED <<router, task>>
    BY <1>3, Versions DEF Deliver, TypeOK
  <2>2. /\ Len(log'[n]) = Len(log[n]) - 1 /\ Len(log[n]) \in Nat
        /\ \A i \in 1..Len(log'[n]) : log'[n][i] = log[n][i + 1]
    BY <2>1, TailVersions
  <2>3. Current(n)' = Current(n)
    BY <2>1, <2>2 DEF Current
  <2>4. QED
    BY <2>1, <2>3
<1>4. CASE Reconcile(n)
  <2>1. /\ UNCHANGED <<log, router>>
        /\ task'[n] = IF FirstStep(Cached(n)) = "idle" THEN IdleTask
                      ELSE [pc |-> FirstStep(Cached(n)),
                            obj |-> [Cached(n) EXCEPT !.status = "none"],
                            status |-> "none"]
    BY <1>4 DEF Reconcile, TypeOK
  <2>2. FirstStep(Cached(n)) # "patchStatus"
    BY DEF FirstStep
  <2>3. task'[n].pc # "patchStatus"
    BY <2>1, <2>2 DEF IdleTask
  <2>4. QED
    BY <2>1, <2>3 DEF Current
<1>5. CASE AddPortMapping(n) \/ DeletePortMapping(n)
  BY <1>5 DEF AddPortMapping, DeletePortMapping, Current
<1>6. QED
  BY <1>1, <1>2, <1>3, <1>4, <1>5 DEF Controller

\* An object that is not written stays new.
LEMMA NewStep ==
    ASSUME TypeOK, ViewsInOrder, NewObjects, "editSlot" \notin Allowed,
           [AnyNext]_vars
    PROVE  NewObjects'
<1> SUFFICES ASSUME NEW n \in Names, Unprotected(Current(n))'
             PROVE  Current(n)'.status # "fresh" /\ ~Current(n)'.del
  BY DEF NewObjects
<1>0. Current(n) \in Version /\ (Exists(Current(n)) => Current(n) \in Object)
  BY Versions DEF Version, Exists
<1>1. CASE Current(n)' = Current(n)
  BY <1>1 DEF NewObjects, Unprotected
<1>2. CASE Writes(n)
  <2>1. CASE Created(n)
    BY <2>1 DEF Created
  <2>2. CASE Gone(n)
    BY <2>2 DEF Gone, Unprotected, Exists
  <2>3. CASE Finalized(n)
    BY <1>0, <2>3 DEF Finalized, Unprotected, Object
  <2>4. CASE Edited(n)
    <3>1. PICK t \in Targets : Current(n)' = [Current(n) EXCEPT !.target = t]
      BY <2>4 DEF Edited
    <3>2. /\ Current(n)'.fin = Current(n).fin /\ Current(n)'.del = Current(n).del
          /\ Current(n)'.status = Current(n).status /\ Exists(Current(n))
      BY <1>0, <2>4, <3>1 DEF Edited, Object
    <3>3. QED
      BY <3>2 DEF NewObjects, Unprotected
  <2>5. CASE Marked(n)
    BY <1>0, <2>5 DEF Marked, Live, Protected, Unprotected, Object
  <2>6. CASE Reported(n)
    BY <1>0, <2>6 DEF Reported, Protected, Unprotected, Object
  <2>7. QED
    BY <1>2, <2>1, <2>2, <2>3, <2>4, <2>5, <2>6 DEF Writes
<1>3. CASE LeaseRunsDown(n)
  <2>1. /\ log'[n] = [i \in 1..Len(log[n]) |-> Aged(log[n][i])]
        /\ log[n] \in Seq(Version) /\ log[n] # <<>> /\ Len(log[n]) \in Nat \ {0}
    BY <1>3, Versions DEF LeaseRunsDown, TypeOK
  <2>2. Current(n)' = Aged(Current(n))
    BY <2>1, AgedVersions DEF Current
  <2>3. Exists(Current(n))
    BY <1>0, <2>2, AgedKeeps DEF Unprotected
  <2>4. /\ Current(n)'.fin = Current(n).fin /\ Current(n)'.del = Current(n).del
        /\ Current(n)'.status # "fresh"
    BY <1>0, <2>2, <2>3 DEF Aged, AgedStatus, Object
  <2>5. QED
    BY <2>3, <2>4 DEF NewObjects, Unprotected
<1>4. CASE \E m \in Names : Controller(m) \/ Edits(m) \/ LeaseRunsDown(m)
  <2>1. PICK m \in Names : Controller(m) \/ Edits(m) \/ LeaseRunsDown(m)
    BY <1>4
  <2>2. CASE m = n
    BY <1>1, <1>2, <1>3, <2>1, <2>2, StepKinds
  <2>3. CASE m # n
    BY <1>1, <2>1, <2>3, StepOfOne DEF Current
  <2>4. QED
    BY <2>2, <2>3
<1>5. CASE Crash
  <2>1. log'[n] = <<Current(n)>>
    BY <1>5 DEF Crash
  <2>2. Current(n)' = Current(n)
    BY <1>0, <2>1, OneVersion DEF Current
  <2>3. QED
    BY <1>1, <2>2
<1>6. CASE UNCHANGED log
  BY <1>1, <1>6 DEF Current
<1>7. QED
  BY <1>4, <1>5, <1>6 DEF AnyNext, LeaseExpires, RouterReboot, Start, vars

-----------------------------------------------------------------------------
(* An active status is on the router.                                         *)

\* A step that leaves n alone and its fresh entries in place.
LEMMA StampStays ==
    ASSUME NEW n \in Names, StampFits(n),
           Current(n)' = Current(n),
           task'[n] = task[n] \/ task'[n].pc # "patchStatus",
           \A s \in Wants[n] : Uncontested(n) /\ MappedFresh(s, n) => MappedFresh(s, n)',
           Exists(Current(n)) => Current(n).slot \in Wants[n],
           task[n].pc # "idle" => task[n].obj.slot \in Wants[n]
    PROVE  StampFits(n)'
<1> SUFFICES ASSUME Uncontested(n)
             PROVE  /\ Live(Current(n))' /\ Current(n)'.status = "fresh" =>
                          MappedFresh(Current(n).slot, n)'
                    /\ task'[n].pc = "patchStatus" /\ task'[n].status = "fresh" =>
                          MappedFresh(task[n].obj.slot, n)'
  BY DEF StampFits, Uncontested
<1>1. Live(Current(n))' => Live(Current(n)) /\ Exists(Current(n))
  BY DEF Live, Protected
<1>2. QED
  BY <1>1 DEF StampFits

\* What the API server holds of n changes; its entry does not.
LEMMA StampWritten ==
    ASSUME TypeOK, NewObjects, NEW n \in Names, StampFits(n), Writes(n)
    PROVE  StampFits(n)'
<1> SUFFICES ASSUME Uncontested(n)
             PROVE  /\ Live(Current(n))' /\ Current(n)'.status = "fresh" =>
                          MappedFresh(Current(n).slot, n)'
                    /\ task'[n].pc = "patchStatus" /\ task'[n].status = "fresh" =>
                          MappedFresh(task[n].obj.slot, n)'
  BY DEF StampFits, Uncontested
<1>0. /\ Current(n) \in Version /\ (Exists(Current(n)) => Current(n) \in Object)
      /\ task[n].status \in Status
      /\ \A s \in Slots : MappedFresh(s, n)' <=> MappedFresh(s, n)
  BY Versions, TaskType DEF Version, Exists, Writes, MappedFresh, MappedBy
<1>1. task'[n].pc = "patchStatus" /\ task'[n].status = "fresh" =>
         MappedFresh(task[n].obj.slot, n)'
  BY <1>0 DEF Writes, StampFits, MappedFresh, MappedBy
<1>2. ASSUME Live(Current(n))', Current(n)'.status = "fresh"
      PROVE  MappedFresh(Current(n).slot, n)'
  <2>1. CASE Created(n)
    BY <1>2, <2>1 DEF Created
  <2>2. CASE Gone(n)
    BY <1>2, <2>2 DEF Gone, Live, Protected, Exists
  <2>3. CASE Finalized(n)
    BY <1>0, <1>2, <2>3 DEF Finalized, NewObjects, Unprotected, Object
  <2>4. CASE Edited(n)
    <3>1. PICK t \in Targets : Current(n)' = [Current(n) EXCEPT !.target = t]
      BY <2>4 DEF Edited
    <3>2. /\ Current(n)'.fin = Current(n).fin /\ Current(n)'.del = Current(n).del
          /\ Current(n)'.status = Current(n).status /\ Exists(Current(n))
          /\ Current(n)'.slot = Current(n).slot /\ Current(n).slot \in Slots
      BY <1>0, <2>4, <3>1 DEF Edited, Object
    <3>3. Live(Current(n)) /\ Current(n).status = "fresh"
      BY <1>2, <3>2 DEF Live, Protected
    <3>4. QED
      BY <1>0, <3>2, <3>3 DEF StampFits
  <2>5. CASE Marked(n)
    BY <1>0, <1>2, <2>5 DEF Marked, Live, Protected, Object
  <2>6. CASE Reported(n)
    <3>1. /\ Current(n)'.slot = Current(n).slot /\ Current(n).slot \in Slots
          /\ task[n].status = "fresh"
      BY <1>0, <1>2, <2>6 DEF Reported, Protected, Object
    <3>2. MappedFresh(task[n].obj.slot, n)
      BY <2>6, <3>1 DEF Reported, StampFits
    <3>3. QED
      BY <1>0, <2>6, <3>1, <3>2 DEF Reported
  <2>7. QED
    BY <2>1, <2>2, <2>3, <2>4, <2>5, <2>6 DEF Writes
<1>3. QED
  BY <1>1, <1>2

\* The steps of another object take nothing from n that only n may ask for.
LEMMA EntriesApart ==
    ASSUME TypeOK, OwnSlots, NEW n \in Names, NEW m \in Names \ {n},
           Controller(m) \/ Edits(m) \/ LeaseRunsDown(m),
           Uncontested(n), NEW s \in Wants[n], MappedFresh(s, n)
    PROVE  MappedFresh(s, n)'
<1>1. s \in Slots
  BY ConstantsAssumption
<1>2. CASE UNCHANGED router
  BY <1>2 DEF MappedFresh, MappedBy
<1>3. CASE AddPortMapping(m) \/ DeletePortMapping(m)
  <2>1. task[m].obj.slot \in Wants[m]
    BY <1>3 DEF OwnSlots, AddPortMapping, DeletePortMapping
  <2>2. task[m].obj.slot # s
    BY <2>1 DEF Uncontested
  <2>3. router'[s] = router[s]
    BY <1>1, <1>3, <2>2 DEF AddPortMapping, DeletePortMapping, MapOnRouter, TypeOK
  <2>4. QED
    BY <2>3 DEF MappedFresh, MappedBy
<1>4. CASE LeaseRunsDown(m)
  <2>1. router'[s] = router[s]
    BY <1>1, <1>4 DEF LeaseRunsDown, MappedFresh, MappedBy
  <2>2. QED
    BY <2>1 DEF MappedFresh, MappedBy
<1>5. QED
  BY <1>2, <1>3, <1>4 DEF Controller, Edits, Create, Delete, Retarget, EditSlot,
     Deliver, Reconcile, AddFinalizer, RemoveFinalizer, PatchStatus

\* The calls to the router keep the stamps.
LEMMA CallsKeepStamps ==
    ASSUME TypeOK, OwnSlots, ViewsInOrder, "editSlot" \notin Allowed,
           NEW n \in Names, StampFits(n),
           AddPortMapping(n) \/ DeletePortMapping(n)
    PROVE  StampFits(n)'
<1> SUFFICES ASSUME Uncontested(n)
             PROVE  /\ Live(Current(n))' /\ Current(n)'.status = "fresh" =>
                          MappedFresh(Current(n).slot, n)'
                    /\ task'[n].pc = "patchStatus" /\ task'[n].status = "fresh" =>
                          MappedFresh(task[n].obj.slot, n)'
  BY DEF StampFits, Uncontested
<1>0. Current(n)' = Current(n) /\ task[n].obj.slot \in Slots
  <2>1. UNCHANGED log /\ task[n].pc # "idle"
    BY DEF AddPortMapping, DeletePortMapping
  <2>2. QED
    BY <2>1, ConstantsAssumption DEF OwnSlots, Current
<1>1. CASE AddPortMapping(n)
  <2>1. Protected(Current(n)) /\ task[n].obj.slot = Current(n).slot
    BY <1>1 DEF AddPortMapping, ViewsInOrder, InOrderFor, TaskInOrder, SlotsInOrder
  <2>2. CASE MapOnRouter(n)
    <3>1. task'[n].obj = task[n].obj
      BY <1>1, GoToStep DEF AddPortMapping, Steps, Status, Stamps
    <3>2. task[n].obj.target \in Targets
      BY <1>1, TaskType DEF AddPortMapping, Object
    <3>3. [by |-> n, target |-> task[n].obj.target, lease |-> "fresh"] \in Entry
      BY <3>2 DEF Entry, Stamps
    <3>4. /\ router'[task[n].obj.slot] # NoEntry
          /\ router'[task[n].obj.slot].by = n
          /\ router'[task[n].obj.slot].lease = "fresh"
      BY <1>0, <2>2, <3>3, ConstantsAssumption DEF MapOnRouter, TypeOK
    <3>5. MappedFresh(task[n].obj.slot, n)'
      BY <3>1, <3>4 DEF MappedFresh, MappedBy
    <3>6. QED
      BY <1>0, <2>1, <3>1, <3>5 DEF MappedFresh, MappedBy
  <2>3. CASE UNCHANGED router /\ GoTo(n, "patchStatus", "failed")
    <3>1. task'[n].status = "failed"
      BY <1>1, <2>3, GoToStep DEF AddPortMapping, Steps, Status
    <3>2. QED
      BY <1>0, <2>3, <3>1 DEF StampFits, MappedFresh, MappedBy, Live, Protected, Exists
  <2>4. QED
    BY <1>1, <2>2, <2>3 DEF AddPortMapping
<1>2. CASE DeletePortMapping(n)
  <2>1. task'[n].pc = "removeFinalizer"
    BY <1>2, GoToStep DEF DeletePortMapping, Steps, Status
  <2>2. ~Live(Current(n))
    <3>1. Protected(Current(n)) => \A i \in 1..Len(log[n]) : Deleting(log[n][i])
      BY <1>2 DEF DeletePortMapping, ViewsInOrder, InOrderFor, TaskInOrder
    <3>2. Protected(Current(n)) => Deleting(Current(n))
      BY <3>1, Versions DEF Current
    <3>3. QED
      BY <3>2 DEF Live, Deleting
  <2>3. QED
    BY <1>0, <2>1, <2>2 DEF Live, Protected, Exists
<1>3. QED
  BY <1>1, <1>2

\* No step takes the entry away from an active status, as long as the router
\* keeps what it has.
LEMMA StampsNext ==
    ASSUME TypeOK, OwnSlots, NewObjects, ViewsInOrder, StampsFit,
           "editSlot" \notin Allowed, "reboot" \notin Allowed, [AnyNext]_vars
    PROVE  StampsFit'
<1> SUFFICES ASSUME NEW n \in Names PROVE StampFits(n)'
  BY DEF StampsFit
<1>0. /\ StampFits(n) /\ Current(n) \in Version
      /\ Exists(Current(n)) => Current(n).slot \in Wants[n]
      /\ task[n].pc # "idle" => task[n].obj.slot \in Wants[n]
  BY Versions DEF StampsFit, OwnSlots, Current
<1>1. ASSUME Current(n)' = Current(n),
             task'[n] = task[n] \/ task'[n].pc # "patchStatus",
             UNCHANGED router
      PROVE  StampFits(n)'
  <2>1. \A s \in Wants[n] : MappedFresh(s, n) => MappedFresh(s, n)'
    BY <1>1 DEF MappedFresh, MappedBy
  <2>2. QED
    BY <1>0, <1>1, <2>1, StampStays
<1>2. CASE Controller(n) \/ Edits(n)
  BY <1>0, <1>1, <1>2, StepKinds, StampWritten, CallsKeepStamps
<1>3. CASE LeaseRunsDown(n)
  <2>1. /\ log'[n] = [i \in 1..Len(log[n]) |-> Aged(log[n][i])]
        /\ log[n] \in Seq(Version) /\ log[n] # <<>> /\ Len(log[n]) \in Nat \ {0}
    BY <1>3, Versions DEF LeaseRunsDown, TypeOK
  <2>2. Current(n)' = Aged(Current(n))
    BY <2>1, AgedVersions DEF Current
  <2>3. Live(Current(n))' => Current(n)'.status # "fresh"
    <3>1. ASSUME Live(Current(n))' PROVE Exists(Current(n))
      BY <1>0, <2>2, <3>1, AgedKeeps DEF Live, Protected
    <3>2. Exists(Current(n)) => Aged(Current(n)).status # "fresh"
      BY <1>0 DEF Aged, AgedStatus, Version, Exists, Object
    <3>3. QED
      BY <2>2, <3>1, <3>2
  <2>4. task'[n].status # "fresh"
    BY <1>3 DEF LeaseRunsDown, TypeOK, Task, IdleTask, AgedStatus
  <2>5. QED
    BY <2>3, <2>4 DEF StampFits
<1>4. ASSUME NEW m \in Names \ {n}, Controller(m) \/ Edits(m) \/ LeaseRunsDown(m)
      PROVE  StampFits(n)'
  <2>1. Current(n)' = Current(n) /\ task'[n] = task[n]
    BY <1>4, StepOfOne DEF Current
  <2>2. \A s \in Wants[n] : Uncontested(n) /\ MappedFresh(s, n) => MappedFresh(s, n)'
    BY <1>4, EntriesApart
  <2>3. QED
    BY <1>0, <2>1, <2>2, StampStays
<1>5. CASE \E s \in Slots : LeaseExpires(s)
  <2>1. PICK s \in Slots : LeaseExpires(s)
    BY <1>5
  <2>2. \A r \in Slots : MappedFresh(r, n) => MappedFresh(r, n)'
    BY <2>1 DEF LeaseExpires, MappedFresh, MappedBy, TypeOK
  <2>3. UNCHANGED <<log, task>>
    BY <2>1 DEF LeaseExpires
  <2>4. QED
    BY <1>0, <2>2, <2>3, StampStays, ConstantsAssumption DEF Current
<1>6. CASE RouterReboot
  BY <1>6 DEF RouterReboot, Fault
<1>7. CASE Crash
  <2>1. log'[n] = <<Current(n)>> /\ task'[n].pc # "patchStatus" /\ UNCHANGED router
    BY <1>7 DEF Crash, IdleTask
  <2>2. Current(n)' = Current(n)
    BY <1>0, <2>1, OneVersion DEF Current
  <2>3. QED
    BY <1>1, <2>1, <2>2
<1>8. CASE UNCHANGED <<log, task, router>>
  BY <1>1, <1>8 DEF Current
<1>9. QED
  BY <1>2, <1>3, <1>4, <1>5, <1>6, <1>7, <1>8 DEF AnyNext, Start, vars

\* That holds whoever writes the objects.
LEMMA AnyStampsFit ==
    ASSUME "editSlot" \notin Allowed, "reboot" \notin Allowed
    PROVE  AnySpec => []ActiveIsOnRouter
<1>1. Init => OwnSlots /\ NewObjects /\ StampsFit
  <2> SUFFICES ASSUME Init PROVE OwnSlots /\ NewObjects /\ StampsFit
    OBVIOUS
  <2>1. ASSUME NEW n \in Names
        PROVE  /\ Current(n) = NoObject /\ task[n].pc = "idle"
               /\ \A i \in 1..Len(log[n]) : log[n][i] = NoObject
    BY OneVersion DEF Init, Current, IdleTask
  <2>2. QED
    BY <2>1 DEF OwnSlots, NewObjects, StampsFit, StampFits, Exists, Unprotected, Live, Protected
<1>2. TypeOK /\ OwnSlots /\ [AnyNext]_vars => OwnSlots'
  BY SlotsNext
<1>3. TypeOK /\ ViewsInOrder /\ NewObjects /\ [AnyNext]_vars => NewObjects'
  BY NewStep
<1>4. TypeOK /\ OwnSlots /\ NewObjects /\ ViewsInOrder /\ StampsFit /\ [AnyNext]_vars
         => StampsFit'
  BY StampsNext
<1>5. StampsFit => ActiveIsOnRouter
  BY DEF StampsFit, StampFits, ActiveIsOnRouter, MappedFresh
<1>6. QED
  BY <1>1, <1>2, <1>3, <1>4, <1>5, AnyTypes, ViewsStayInOrder, PTL DEF AnySpec

\* status.active is never a lie, for any number of objects, any lag of the
\* watch, any crashes and any calls that fail before or after they took effect,
\* but an edited external port and a router that forgets its table.
THEOREM ActiveIsHonest ==
    ASSUME "editSlot" \notin Allowed, "reboot" \notin Allowed
    PROVE  Spec => []ActiveIsOnRouter
BY AnyStampsFit, SpecIsAny, PTL

\* That holds whoever writes the objects.
LEMMA AnyAddsAreGuarded == AnySpec => []AddsAreGuarded
<1>1. ViewsInOrder => AddsAreGuarded
  BY DEF ViewsInOrder, InOrderFor, TaskInOrder, AddsAreGuarded
<1>2. QED
  BY <1>1, ViewsStayInOrder, PTL

\* The controller never adds a mapping, nor reports one, for an object that has
\* lost its finalizer, whatever fails, restarts or is edited.
THEOREM AddsHaveFinalizer == Spec => []AddsAreGuarded
BY AnyAddsAreGuarded, SpecIsAny, PTL

-----------------------------------------------------------------------------
(* The controller is one that the finalizer protocol allows.                  *)

Holds(n) == \E s \in Slots : MappedBy(s, n)

\* The object n moves between phases, the others stay where they are.
LEMMA PhaseMoves ==
    ASSUME TypeOK, NEW n \in Names, NEW p, NEW q,
           \A m \in Names \ {n} : Current(m)' = Current(m),
           \A m \in Names : Holds(m)' <=> Holds(m),
           PhaseOf(Current(n)) = p, PhaseOf(Current(n))' = q
    PROVE  /\ Guard!Move(n, p, q)
           /\ p = q => UNCHANGED Guard!vars
<1>1. \A m \in Names \ {n} : PhaseOf(Current(m))' = PhaseOf(Current(m))
  BY DEF PhaseOf, Exists
<1>2. {m \in Names : Holds(m)}' = {m \in Names : Holds(m)}
  OBVIOUS
<1>3. [m \in Names |-> PhaseOf(Current(m))]'
         = [[m \in Names |-> PhaseOf(Current(m))] EXCEPT ![n] = q]
  BY <1>1
<1>4. p = q => [m \in Names |-> PhaseOf(Current(m))]' = [m \in Names |-> PhaseOf(Current(m))]
  BY <1>1
<1>5. Guard!Move(n, p, q)
  BY <1>2, <1>3 DEF Guard!Move, Holds
<1>6. QED
  BY <1>2, <1>4, <1>5 DEF Guard!vars, Holds

\* A write is a move of the protocol, or none.
LEMMA WriteIsGuarded ==
    ASSUME TypeOK, NewObjects, NEW n \in Names, Writes(n), "deleteFail" \notin Allowed,
           \A m \in Names \ {n} : Current(m)' = Current(m)
    PROVE  [Guard!Next]_Guard!vars
<1>0. /\ Current(n) \in Version /\ (Exists(Current(n)) => Current(n) \in Object)
      /\ NoObject \notin Object
      /\ \A m \in Names : Holds(m)' <=> Holds(m)
  BY Versions, ConstantsAssumption DEF Version, Exists, Writes, Holds, MappedBy
<1>1. CASE Created(n)
  <2>1. PhaseOf(Current(n)) = "absent" /\ PhaseOf(Current(n))' = "unprotected"
    <3>1. PICK s \in Wants[n], t \in Targets :
            Current(n)' = [slot |-> s, target |-> t, fin |-> FALSE, del |-> FALSE,
                           status |-> "none"]
      BY <1>1 DEF Created
    <3>2. Current(n)' \in Object
      BY <3>1, ConstantsAssumption DEF Object, Status
    <3>3. ~Current(n)'.fin
      BY <3>1
    <3>4. Current(n)' # NoObject
      BY <1>0, <3>2
    <3>5. PhaseOf(Current(n))' = "unprotected"
      BY <3>3, <3>4 DEF PhaseOf, Exists
    <3>6. QED
      BY <1>1, <3>5 DEF Created, PhaseOf
  <2>2. Guard!Create(n)
    BY <1>0, <2>1, PhaseMoves DEF Guard!Create
  <2>3. QED
    BY <2>2 DEF Guard!Next
<1>2. CASE Gone(n)
  <2>1. PhaseOf(Current(n))' = "absent"
    BY <1>2 DEF Gone, PhaseOf, Exists
  <2>2. CASE Protected(Current(n))
    <3>1. PhaseOf(Current(n)) = "deleting" /\ ~Holds(n)
      BY <1>2, <2>2 DEF Gone, PhaseOf, Protected, Deleting, Exists, Holds
    <3>2. Guard!Remove(n)
      BY <1>0, <2>1, <3>1, PhaseMoves DEF Guard!Remove, Holds
    <3>3. QED
      BY <3>2 DEF Guard!Next
  <2>3. CASE ~Protected(Current(n))
    <3>1. PhaseOf(Current(n)) = "unprotected"
      BY <1>2, <2>3 DEF Gone, PhaseOf, Protected, Exists
    <3>2. Guard!Discard(n)
      BY <1>0, <2>1, <3>1, PhaseMoves DEF Guard!Discard
    <3>3. QED
      BY <3>2 DEF Guard!Next
  <2>4. QED
    BY <2>2, <2>3
<1>3. CASE Finalized(n)
  <2>1. PhaseOf(Current(n)) = "unprotected"
    BY <1>3 DEF Finalized, PhaseOf, Unprotected
  <2>2. PhaseOf(Current(n))' = "protected"
    <3>1. Current(n)' \in Object /\ Current(n)'.fin /\ ~Current(n)'.del
      BY <1>0, <1>3 DEF Finalized, NewObjects, Unprotected, Object
    <3>2. QED
      BY <1>0, <3>1 DEF PhaseOf, Exists
  <2>3. Guard!Protect(n)
    BY <1>0, <2>1, <2>2, PhaseMoves DEF Guard!Protect
  <2>4. QED
    BY <2>3 DEF Guard!Next
<1>4. CASE Marked(n)
  <2>1. PhaseOf(Current(n)) = "protected"
    BY <1>4 DEF Marked, PhaseOf, Live, Protected
  <2>2. PhaseOf(Current(n))' = "deleting"
    <3>1. Current(n)' \in Object /\ Current(n)'.fin /\ Current(n)'.del
      BY <1>0, <1>4 DEF Marked, Live, Protected, Object
    <3>2. QED
      BY <1>0, <3>1 DEF PhaseOf, Exists
  <2>3. Guard!MarkDeleted(n)
    BY <1>0, <2>1, <2>2, PhaseMoves DEF Guard!MarkDeleted
  <2>4. QED
    BY <2>3 DEF Guard!Next
<1>5. CASE Edited(n) \/ Reported(n)
  <2>1. /\ Current(n)' \in Object /\ Exists(Current(n))
        /\ Current(n)'.fin = Current(n).fin /\ Current(n)'.del = Current(n).del
    BY <1>0, <1>5, TaskType DEF Edited, Reported, Protected, Object
  <2>2. PhaseOf(Current(n))' = PhaseOf(Current(n))
    BY <1>0, <2>1 DEF PhaseOf, Exists
  <2>3. QED
    BY <1>0, <2>2, PhaseMoves
<1>6. QED
  BY <1>1, <1>2, <1>3, <1>4, <1>5 DEF Writes

\* What changes the router and no object.
LEMMA CallIsGuarded ==
    ASSUME \A m \in Names : Current(m)' = Current(m),
           \/ \A m \in Names : Holds(m)' => Holds(m)
           \/ \E n \in Names : /\ Protected(Current(n))
                              /\ \A m \in Names \ {n} : Holds(m)' => Holds(m)
    PROVE  Guard!Next
<1>1. [m \in Names |-> PhaseOf(Current(m))]' = [m \in Names |-> PhaseOf(Current(m))]
  BY DEF PhaseOf, Exists
<1>2. CASE \A m \in Names : Holds(m)' => Holds(m)
  <2>1. Guard!GiveUp
    BY <1>1, <1>2 DEF Guard!GiveUp, Holds
  <2>2. QED
    BY <2>1 DEF Guard!Next
<1>3. ASSUME NEW n \in Names, Protected(Current(n)),
             \A m \in Names \ {n} : Holds(m)' => Holds(m)
      PROVE  Guard!Next
  <2>1. PhaseOf(Current(n)) \in {"protected", "deleting"}
    BY <1>3 DEF PhaseOf, Protected
  <2>2. Guard!Acquire(n)
    BY <1>1, <1>3, <2>1 DEF Guard!Acquire, Holds
  <2>3. QED
    BY <2>2 DEF Guard!Next
<1>4. QED
  BY <1>2, <1>3

\* Each step is a step of the protocol or none.
LEMMA StepIsGuarded ==
    ASSUME TypeOK, ViewsInOrder, NewObjects,
           "editSlot" \notin Allowed, "deleteFail" \notin Allowed, [AnyNext]_vars
    PROVE  [Guard!Next]_Guard!vars
<1>1. ASSUME \A m \in Names : Current(m)' = Current(m), UNCHANGED router
      PROVE  [Guard!Next]_Guard!vars
  BY <1>1, CallIsGuarded DEF Holds, MappedBy
<1>2. ASSUME NEW n \in Names, Controller(n) \/ Edits(n)
      PROVE  [Guard!Next]_Guard!vars
  <2>1. \A m \in Names \ {n} : /\ Current(m)' = Current(m)
                               /\ Holds(m)' => Holds(m)
    BY <1>2, StepOfOne DEF Current, Holds
  <2>2. CASE Writes(n)
    BY <2>1, <2>2, WriteIsGuarded
  <2>3. CASE Current(n)' = Current(n) /\ UNCHANGED router
    BY <1>1, <2>1, <2>3
  <2>4. CASE Current(n)' = Current(n) /\ AddPortMapping(n)
    <3>1. Protected(Current(n))
      BY <2>4 DEF AddPortMapping, ViewsInOrder, InOrderFor, TaskInOrder
    <3>2. \A m \in Names : Current(m)' = Current(m)
      BY <2>1, <2>4
    <3>3. QED
      BY <2>1, <3>1, <3>2, CallIsGuarded
  <2>5. CASE Current(n)' = Current(n) /\ DeletePortMapping(n)
    <3>1. \A s \in Slots : router'[s] = router[s] \/ router'[s] = NoEntry
      BY <2>5 DEF DeletePortMapping, TypeOK
    <3>2. \A m \in Names : Holds(m)' => Holds(m)
      BY <3>1 DEF Holds, MappedBy
    <3>3. \A m \in Names : Current(m)' = Current(m)
      BY <2>1, <2>5
    <3>4. QED
      BY <3>2, <3>3, CallIsGuarded
  <2>6. QED
    BY <1>2, <2>2, <2>3, <2>4, <2>5, StepKinds
<1>3. ASSUME NEW n \in Names, LeaseRunsDown(n) PROVE [Guard!Next]_Guard!vars
  <2>1. /\ log'[n] = [i \in 1..Len(log[n]) |-> Aged(log[n][i])]
        /\ log[n] \in Seq(Version) /\ log[n] # <<>> /\ Len(log[n]) \in Nat \ {0}
    BY <1>3, Versions DEF LeaseRunsDown, TypeOK
  <2>2. Current(n)' = Aged(Current(n)) /\ Current(n) \in Version
    BY <2>1, AgedVersions, Versions DEF Current
  <2>3. PhaseOf(Current(n))' = PhaseOf(Current(n))
    <3>1. ASSUME NEW v \in Version PROVE PhaseOf(Aged(v)) = PhaseOf(v)
      BY AgedKeeps DEF PhaseOf, Protected, Deleting
    <3>2. PhaseOf(Current(n))' = PhaseOf(Aged(Current(n)))
      BY <2>2 DEF PhaseOf, Exists
    <3>3. QED
      BY <2>2, <3>1, <3>2
  <2>4. \A m \in Names : Holds(m)' <=> Holds(m)
    <3>1. \A s \in Slots : \A m \in Names : MappedBy(s, m)' <=> MappedBy(s, m)
      <4>1. \A s \in Slots : router'[s] = IF router[s] # NoEntry /\ router[s].by = n
                               THEN [router[s] EXCEPT !.lease = "due"] ELSE router[s]
        BY <1>3 DEF LeaseRunsDown
      <4>2. \A e \in Entry : /\ [e EXCEPT !.lease = "due"] \in Entry
                            /\ [e EXCEPT !.lease = "due"].by = e.by
        BY DEF Entry, Stamps
      <4>3. QED
        BY <4>1, <4>2, ConstantsAssumption DEF TypeOK, MappedBy
    <3>2. QED
      BY <3>1 DEF Holds
  <2>5. \A m \in Names \ {n} : Current(m)' = Current(m)
    BY <1>3, StepOfOne DEF Current
  <2>6. QED
    BY <2>3, <2>4, <2>5, PhaseMoves
<1>4. CASE (\E s \in Slots : LeaseExpires(s)) \/ RouterReboot
  <2>1. UNCHANGED log /\ \A s \in Slots : router'[s] = router[s] \/ router'[s] = NoEntry
    BY <1>4 DEF LeaseExpires, RouterReboot, TypeOK
  <2>2. \A m \in Names : Current(m)' = Current(m) /\ (Holds(m)' => Holds(m))
    BY <2>1 DEF Current, Holds, MappedBy
  <2>3. QED
    BY <2>2, CallIsGuarded
<1>5. CASE Crash
  <2>1. ASSUME NEW m \in Names PROVE Current(m)' = Current(m)
    <3>1. log'[m] = <<Current(m)>> /\ Current(m) \in Version
      BY <1>5, Versions DEF Crash
    <3>2. QED
      BY <3>1, OneVersion DEF Current
  <2>2. QED
    BY <1>1, <1>5, <2>1 DEF Crash
<1>6. CASE Start \/ UNCHANGED vars
  BY <1>1, <1>6 DEF Start, vars, Current
<1>7. QED
  BY <1>2, <1>3, <1>4, <1>5, <1>6 DEF AnyNext

\* That holds whoever writes the objects.
LEMMA AnyImplementsGuard ==
    ASSUME "editSlot" \notin Allowed, "deleteFail" \notin Allowed
    PROVE  AnySpec => ImplementsGuard
<1>1. Init => Guard!Init /\ NewObjects
  <2> SUFFICES ASSUME Init PROVE Guard!Init /\ NewObjects
    OBVIOUS
  <2>1. \A n \in Names : Current(n) = NoObject /\ ~Holds(n)
    BY OneVersion DEF Init, Current, Holds, MappedBy
  <2>2. [n \in Names |-> PhaseOf(Current(n))] = [n \in Names |-> "absent"]
    BY <2>1 DEF PhaseOf, Exists
  <2>3. QED
    BY <2>1, <2>2 DEF Guard!Init, NewObjects, Unprotected, Exists, Holds
<1>2. TypeOK /\ ViewsInOrder /\ NewObjects /\ [AnyNext]_vars => NewObjects'
  BY NewStep
<1>3. TypeOK /\ ViewsInOrder /\ NewObjects /\ [AnyNext]_vars => [Guard!Next]_Guard!vars
  BY StepIsGuarded
<1>4. QED
  BY <1>1, <1>2, <1>3, AnyTypes, ViewsStayInOrder, PTL
  DEF AnySpec, ImplementsGuard, Guard!Spec

\* The refinement that the run ctrl_safety checks on two objects, for every
\* number of them: a mapping is acquired only under the finalizer, and the
\* object goes only after the mapping has been given up.
THEOREM ControllerImplementsGuard ==
    ASSUME "editSlot" \notin Allowed, "deleteFail" \notin Allowed
    PROVE  Spec => ImplementsGuard
BY AnyImplementsGuard, SpecIsAny, PTL
=============================================================================
