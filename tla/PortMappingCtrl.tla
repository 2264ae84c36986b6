-------------------------- MODULE PortMappingCtrl --------------------------
(* The PortMapping controller: kube-runtime's Controller and finalizer(),    *)
(* reconcile_apply and reconcile_cleanup, the API server that stores the     *)
(* PortMapping objects, and the router that stores the port mappings.        *)
(*                                                                           *)
(* A reconcile is a sequence of calls (to the API server, to the router) and *)
(* everything else may move between two of them: users edit and delete the   *)
(* objects, the watch delivers late, the router's leases run down, calls     *)
(* fail after they took effect, the process is killed and started again.     *)
(* Time is abstract here: a stamp is "fresh" while more than                 *)
(* RENEWAL_BUFFER_SECS of its lease remain and "due" afterwards.             *)
(* LeaseRenewal has the clock.                                               *)
EXTENDS Integers, Sequences

CONSTANTS
    Names,      \* names of PortMapping objects (namespace/name)
    Slots,      \* <external port, protocol> pairs: the key of the router's table
    Targets,    \* <internal host, internal port> pairs
    Wants,      \* Wants[n]: the slots the spec of n may ask for
    Allowed,    \* which of Hazards the environment is capable of
    MaxFaults,  \* bound: how many hazards happen in one behaviour
    MaxLag,     \* bound: how many writes the watch may be behind
    NoObject,   \* no PortMapping of that name exists
    NoEntry     \* the router maps nothing at that slot

Hazards == {"editTarget", "editSlot", "addFail", "deleteFail", "apiFail",
            "reboot", "crash"}

Stamps == {"fresh", "due"}
Status == {"none", "failed"} \cup Stamps

Object == [slot: Slots, target: Targets, fin: BOOLEAN, del: BOOLEAN, status: Status]

Entry == [by: Names, target: Targets, lease: Stamps]

Steps == {"addFinalizer", "add", "patchStatus", "delete", "removeFinalizer"}

IdleTask == [pc |-> "idle", obj |-> NoObject, status |-> "none"]

Task == {IdleTask} \cup [pc: Steps, obj: Object, status: Status]

Requests == {"none", "now", "lease", "retry"}

ASSUME ConstantsAssumption ==
    /\ Wants \in [Names -> SUBSET Slots]
    /\ Allowed \subseteq Hazards
    /\ MaxFaults \in Nat
    /\ MaxLag \in Nat
    /\ NoObject \notin Object
    /\ NoEntry \notin Entry

VARIABLES
    log,     \* log[n]: the versions of object n from the one in the
             \* controller's store (first) to the API server's (last)
    req,     \* req[n]: the pending request of the scheduler for n
    task,    \* task[n]: the reconcile of n in progress
    router,  \* the router's table
    up,      \* the controller process runs
    faults   \* hazards that have happened

vars == <<log, req, task, router, up, faults>>

Cached(n) == log[n][1]
Current(n) == log[n][Len(log[n])]

Exists(o) == o # NoObject
Protected(o) == Exists(o) /\ o.fin
Unprotected(o) == Exists(o) /\ ~o.fin
Live(o) == Protected(o) /\ ~o.del
Deleting(o) == Protected(o) /\ o.del

Fault(h) == h \in Allowed /\ faults < MaxFaults /\ faults' = faults + 1

Init ==
    /\ log = [n \in Names |-> <<NoObject>>]
    /\ req = [n \in Names |-> "none"]
    /\ task = [n \in Names |-> IdleTask]
    /\ router = [s \in Slots |-> NoEntry]
    /\ up = TRUE
    /\ faults = 0

-----------------------------------------------------------------------------
(* The API server: a write makes a new version. While the controller runs    *)
(* the watch still has to bring it; a controller that starts lists afresh.   *)

Write(n, o) ==
    /\ Len(log[n]) <= MaxLag
    /\ log' = [log EXCEPT ![n] = IF up THEN Append(@, o) ELSE <<o>>]

Create(n) ==
    /\ ~Exists(Current(n))
    /\ \E s \in Wants[n], t \in Targets :
          Write(n, [slot |-> s, target |-> t, fin |-> FALSE, del |-> FALSE,
                    status |-> "none"])
    /\ UNCHANGED <<req, task, router, up, faults>>

\* A delete only marks an object that carries the finalizer.
Delete(n) ==
    /\ Exists(Current(n))
    /\ ~Current(n).del
    /\ Write(n, IF Current(n).fin THEN [Current(n) EXCEPT !.del = TRUE] ELSE NoObject)
    /\ UNCHANGED <<req, task, router, up, faults>>

\* A user, or an annotation watcher's server-side apply, changes where the
\* mapping leads.
EditTarget(n) ==
    /\ Exists(Current(n))
    /\ Fault("editTarget")
    /\ \E t \in Targets \ {Current(n).target} :
          Write(n, [Current(n) EXCEPT !.target = t])
    /\ UNCHANGED <<req, task, router, up>>

EditSlot(n) ==
    /\ Exists(Current(n))
    /\ Fault("editSlot")
    /\ \E s \in Wants[n] \ {Current(n).slot} :
          Write(n, [Current(n) EXCEPT !.slot = s])
    /\ UNCHANGED <<req, task, router, up>>

-----------------------------------------------------------------------------
(* The scheduler: one pending request per object, the earliest wins; one     *)
(* reconcile per object at a time.                                           *)

\* Mutant: takes an event from a watch that has none.
Deliver_Eager(n) ==
    /\ up
    /\ log' = [log EXCEPT ![n] = Tail(@)]
    /\ req' = [req EXCEPT ![n] = "now"]
    /\ UNCHANGED <<task, router, up, faults>>

\* The watch brings the next version to the store. The controller reconciles
\* on every version of an object, its own status writes included, and not on
\* a removal.
Deliver(n) ==
    /\ up
    /\ Len(log[n]) > 1
    /\ log' = [log EXCEPT ![n] = Tail(@)]
    /\ req' = [req EXCEPT ![n] = IF Exists(log[n][2]) THEN "now" ELSE @]
    /\ UNCHANGED <<task, router, up, faults>>

\* No stamp of n is fresh: the timer set for the renewal has run out.
LeaseTimerIsOut(n) == \A i \in 1..Len(log[n]) :
    Exists(log[n][i]) => log[n][i].status # "fresh"

Ready(n) ==
    \/ req[n] \in {"now", "retry"}
    \/ req[n] = "lease" /\ LeaseTimerIsOut(n)

\* Mutant: reconciles a live object without waiting for its finalizer.
FirstStep_NoFinalizer(o) ==
    IF ~Exists(o) THEN "idle"
    ELSE IF Deleting(o) THEN "delete"
    ELSE IF o.status # "fresh" THEN "add"
    ELSE "idle"

\* Mutant: lets a deleted object go without DeletePortMapping.
FirstStep_NoCleanup(o) ==
    IF ~Exists(o) THEN "idle"
    ELSE IF ~o.fin /\ ~o.del THEN "addFinalizer"
    ELSE IF Deleting(o) THEN "removeFinalizer"
    ELSE IF Live(o) /\ o.status # "fresh" THEN "add"
    ELSE "idle"

\* Where finalizer() and the early return of reconcile_apply send object o.
FirstStep(o) ==
    IF ~Exists(o) THEN "idle"
    ELSE IF ~o.fin /\ ~o.del THEN "addFinalizer"
    ELSE IF Deleting(o) THEN "delete"
    ELSE IF Live(o) /\ o.status # "fresh" THEN "add"
    ELSE "idle"

\* Mutant: an early return awaits a change of the object.
EarlyRequest_Await(o) == "none"

\* The request an early return leaves: the next renewal, or none.
EarlyRequest(o) == IF Live(o) /\ o.status = "fresh" THEN "lease" ELSE "none"

\* The reconcile keeps the version it starts from (but for the status, which
\* it does not read again).
Reconcile(n) ==
    /\ up
    /\ task[n].pc = "idle"
    /\ Ready(n)
    /\ LET o == Cached(n) IN
          /\ task' = [task EXCEPT ![n] =
                IF FirstStep(o) = "idle" THEN IdleTask
                ELSE [pc |-> FirstStep(o), obj |-> [o EXCEPT !.status = "none"],
                      status |-> "none"]]
          /\ req' = [req EXCEPT ![n] = EarlyRequest(o)]
    /\ UNCHANGED <<log, router, up, faults>>

\* The reconcile ends and asks to run again as r says; a request that came in
\* meanwhile is earlier.
Finish(n, r) ==
    /\ task' = [task EXCEPT ![n] = IdleTask]
    /\ req' = [req EXCEPT ![n] = IF @ = "now" THEN @ ELSE r]

\* Mutant: an error awaits a change of the object.
FinishWithError_Await(n) == Finish(n, "none")

\* error_policy
FinishWithError(n) == Finish(n, "retry")

GoTo(n, step, status) ==
    task' = [task EXCEPT ![n] = [@ EXCEPT !.pc = step, !.status = status]]

\* A call to the API server that fails though the object would allow it. The
\* write w may have happened all the same.
ApiFails(n, w) ==
    /\ Fault("apiFail")
    /\ \/ Write(n, w)
       \/ UNCHANGED log
    /\ FinishWithError(n)

-----------------------------------------------------------------------------
(* finalizer(): the JSON patch that adds the finalizer tests that there is   *)
(* none, the one that removes it tests that it is there. Neither tests the   *)
(* version or the uid.                                                       *)

AddFinalizer(n) ==
    /\ up
    /\ task[n].pc = "addFinalizer"
    /\ LET o == Current(n) IN
          \/ /\ Unprotected(o)
             /\ \/ /\ Write(n, [o EXCEPT !.fin = TRUE])
                   /\ Finish(n, "none")
                   /\ UNCHANGED faults
                \/ ApiFails(n, [o EXCEPT !.fin = TRUE])
          \/ /\ ~Unprotected(o)
             /\ FinishWithError(n)
             /\ UNCHANGED <<log, faults>>
    /\ UNCHANGED <<router, up>>

RemoveFinalizer(n) ==
    /\ up
    /\ task[n].pc = "removeFinalizer"
    /\ LET o == Current(n)
           w == IF o.del THEN NoObject ELSE [o EXCEPT !.fin = FALSE]
       IN
          \/ /\ Protected(o)
             /\ \/ /\ Write(n, w)
                   /\ Finish(n, "none")
                   /\ UNCHANGED faults
                \/ ApiFails(n, w)
          \/ /\ ~Protected(o)
             /\ FinishWithError(n)
             /\ UNCHANGED <<log, faults>>
    /\ UNCHANGED <<router, up>>

-----------------------------------------------------------------------------
(* reconcile_apply: AddPortMapping with the spec the reconcile started from, *)
(* then the status.                                                          *)

MapOnRouter(n) ==
    router' = [router EXCEPT ![task[n].obj.slot] =
                  [by |-> n, target |-> task[n].obj.target, lease |-> "fresh"]]

\* Mutant: reports the requested lease whether or not the router granted it.
AddPortMapping_IgnoresError(n) ==
    /\ up
    /\ task[n].pc = "add"
    /\ \/ MapOnRouter(n) /\ UNCHANGED faults
       \/ Fault("addFail") /\ UNCHANGED router
    /\ GoTo(n, "patchStatus", "fresh")
    /\ UNCHANGED <<log, req, up>>

AddPortMapping(n) ==
    /\ up
    /\ task[n].pc = "add"
    /\ \/ /\ MapOnRouter(n)
          /\ GoTo(n, "patchStatus", "fresh")
          /\ UNCHANGED faults
       \/ /\ Fault("addFail")
          /\ MapOnRouter(n) \/ UNCHANGED router
          /\ GoTo(n, "patchStatus", "failed")
    /\ UNCHANGED <<log, req, up>>

\* Mutant: writes the object back as the reconcile read it.
PatchStatus_WholeObject(n) ==
    /\ up
    /\ task[n].pc = "patchStatus"
    /\ LET o == Current(n)
           w == [task[n].obj EXCEPT !.status = task[n].status]
       IN
          \/ /\ Exists(o)
             /\ \/ /\ Write(n, w)
                   /\ Finish(n, IF task[n].status = "failed" THEN "retry" ELSE "lease")
                   /\ UNCHANGED faults
                \/ ApiFails(n, w)
          \/ /\ ~Exists(o)
             /\ FinishWithError(n)
             /\ UNCHANGED <<log, faults>>
    /\ UNCHANGED <<router, up>>

PatchStatus(n) ==
    /\ up
    /\ task[n].pc = "patchStatus"
    /\ LET o == Current(n)
           w == [o EXCEPT !.status = task[n].status]
       IN
          \/ /\ Exists(o)
             /\ \/ /\ Write(n, w)
                   /\ Finish(n, IF task[n].status = "failed" THEN "retry" ELSE "lease")
                   /\ UNCHANGED faults
                \/ ApiFails(n, w)
          \/ /\ ~Exists(o)
             /\ FinishWithError(n)
             /\ UNCHANGED <<log, faults>>
    /\ UNCHANGED <<router, up>>

\* Mutant: removes the finalizer without waiting for DeletePortMapping.
DeletePortMapping_NotAwaited(n) ==
    /\ up
    /\ task[n].pc = "delete"
    /\ GoTo(n, "removeFinalizer", "none")
    /\ UNCHANGED <<log, req, router, up, faults>>

\* reconcile_cleanup: the router deletes whatever is at the slot, whoever
\* put it there; an error does not stop the cleanup.
DeletePortMapping(n) ==
    /\ up
    /\ task[n].pc = "delete"
    /\ \/ /\ router' = [router EXCEPT ![task[n].obj.slot] = NoEntry]
          /\ UNCHANGED faults
       \/ /\ Fault("deleteFail")
          /\ UNCHANGED router
    /\ GoTo(n, "removeFinalizer", "none")
    /\ UNCHANGED <<log, req, up>>

-----------------------------------------------------------------------------
(* Time, the router and the process.                                         *)

AgedStatus(s) == IF s = "fresh" THEN "due" ELSE s
Aged(o) == IF Exists(o) THEN [o EXCEPT !.status = AgedStatus(@)] ELSE o

HasFreshStamp(n) ==
    \/ ~LeaseTimerIsOut(n)
    \/ task[n].status = "fresh"
    \/ \E s \in Slots : router[s] # NoEntry /\ router[s].by = n /\ router[s].lease = "fresh"

\* Mutant: asks for a permanent mapping, which the router never drops.
LeaseRunsDown_Permanent(n) ==
    /\ HasFreshStamp(n)
    /\ log' = [log EXCEPT ![n] = [i \in 1..Len(@) |-> Aged(@[i])]]
    /\ task' = [task EXCEPT ![n].status = AgedStatus(@)]
    /\ UNCHANGED <<req, router, up, faults>>

\* Less than the renewal buffer is left of the lease of n. The stamps of one
\* object lie within one reconcile of each other and run down together.
LeaseRunsDown(n) ==
    /\ HasFreshStamp(n)
    /\ log' = [log EXCEPT ![n] = [i \in 1..Len(@) |-> Aged(@[i])]]
    /\ task' = [task EXCEPT ![n].status = AgedStatus(@)]
    /\ router' = [s \in Slots |->
          IF router[s] # NoEntry /\ router[s].by = n
          THEN [router[s] EXCEPT !.lease = "due"] ELSE router[s]]
    /\ UNCHANGED <<req, up, faults>>

LeaseExpires(s) ==
    /\ router[s] # NoEntry
    /\ router[s].lease = "due"
    /\ router' = [router EXCEPT ![s] = NoEntry]
    /\ UNCHANGED <<log, req, task, up, faults>>

\* A consumer router forgets its UPnP mappings when it restarts.
RouterReboot ==
    /\ Fault("reboot")
    /\ router' = [s \in Slots |-> NoEntry]
    /\ UNCHANGED <<log, req, task, up>>

\* Tasks, requests and the store die with the process.
Crash ==
    /\ up
    /\ Fault("crash")
    /\ up' = FALSE
    /\ log' = [n \in Names |-> <<Current(n)>>]
    /\ req' = [n \in Names |-> "none"]
    /\ task' = [n \in Names |-> IdleTask]
    /\ UNCHANGED router

\* A controller that starts lists all objects and reconciles each of them.
Start ==
    /\ ~up
    /\ up' = TRUE
    /\ req' = [n \in Names |-> IF Exists(Current(n)) THEN "now" ELSE "none"]
    /\ UNCHANGED <<log, task, router, faults>>

-----------------------------------------------------------------------------
Controller(n) ==
    \/ Deliver(n)
    \/ Reconcile(n)
    \/ AddFinalizer(n)
    \/ RemoveFinalizer(n)
    \/ AddPortMapping(n)
    \/ PatchStatus(n)
    \/ DeletePortMapping(n)

User(n) ==
    \/ Create(n)
    \/ Delete(n)
    \/ EditTarget(n)
    \/ EditSlot(n)

Next ==
    \/ \E n \in Names : Controller(n) \/ User(n) \/ LeaseRunsDown(n)
    \/ \E s \in Slots : LeaseExpires(s)
    \/ RouterReboot
    \/ Crash
    \/ Start

Spec == Init /\ [][Next]_vars

Reconciling(n) ==
    \/ Reconcile(n)
    \/ AddFinalizer(n)
    \/ RemoveFinalizer(n)
    \/ AddPortMapping(n)
    \/ PatchStatus(n)
    \/ DeletePortMapping(n)

\* The runtime polls every task and every timer, the deployment restarts the
\* process, time passes. Users owe nothing.
Fairness ==
    /\ \A n \in Names : WF_vars(Deliver(n)) /\ WF_vars(Reconciling(n))
    /\ \A n \in Names : WF_vars(LeaseRunsDown(n))
    /\ \A s \in Slots : WF_vars(LeaseExpires(s))
    /\ WF_vars(Start)

FairSpec == Spec /\ Fairness

-----------------------------------------------------------------------------
(* What the controller is for.                                               *)

\* Every variable stays in its range.
TypeOK ==
    /\ log \in [Names -> Seq(Object \cup {NoObject})]
    /\ \A n \in Names : log[n] # <<>>
    /\ req \in [Names -> Requests]
    /\ task \in [Names -> Task]
    /\ router \in [Slots -> Entry \cup {NoEntry}]
    /\ up \in BOOLEAN
    /\ faults \in 0..MaxFaults

MappedBy(s, n) == router[s] # NoEntry /\ router[s].by = n

\* No other object can ask for a slot of n.
Uncontested(n) == \A m \in Names \ {n} : Wants[m] \cap Wants[n] = {}

\* The finalizer ensures that DeletePortMapping is called before the object is
\* gone: whatever the store had not seen yet and wherever the process died,
\* the router never keeps a mapping for an object that is gone or that could
\* go without a cleanup. (A failed DeletePortMapping and an edited external
\* port do leave one behind: see OrphansExpire.)
NoOrphan == \A s \in Slots :
    router[s] # NoEntry => Protected(Current(router[s].by))

\* The controller never calls AddPortMapping, nor reports its outcome, for an
\* object that has lost its finalizer, however old the version is that the
\* reconcile started from.
AddsAreGuarded == \A n \in Names :
    task[n].pc \in {"add", "patchStatus"} => Protected(Current(n))

\* Why a stale store does no harm: the versions that the controller has not
\* seen yet, with the object as it is, form a run of unprotected versions, then
\* live ones, then deleting ones of one life of the object; or deleting ones
\* and then unprotected ones of later lives. So a reconcile that starts from an
\* old version never adds for, nor cleans up, a later life of the object, and
\* it does that at the object's slot.
InOrder(versions) == LET last == versions[Len(versions)] IN
    \A j \in 1..Len(versions) :
        /\ Live(versions[j]) => Protected(last)
        /\ \A i \in 1..j :
              /\ Protected(versions[i]) /\ Protected(last) => Protected(versions[j])
              /\ Deleting(versions[i]) => ~Live(versions[j])
              /\ Protected(versions[j]) /\ ~Protected(last) => Deleting(versions[i])

TaskInOrder(n) == LET last == Current(n) IN
    /\ task[n].pc # "idle" => up
    /\ task[n].pc \in {"add", "patchStatus"} => Protected(last)
    /\ task[n].pc = "addFinalizer" /\ ~Protected(last) =>
          \A i \in 1..Len(log[n]) : ~Protected(log[n][i])
    /\ task[n].pc \in {"delete", "removeFinalizer"} /\ Protected(last) =>
          \A i \in 1..Len(log[n]) : Deleting(log[n][i])

SlotsInOrder(n) == LET last == Current(n) IN Protected(last) =>
    /\ \A i \in 1..Len(log[n]) : Protected(log[n][i]) => log[n][i].slot = last.slot
    /\ task[n].pc \notin {"idle", "addFinalizer"} => task[n].obj.slot = last.slot

EntriesInOrder(n) == \A s \in Slots : MappedBy(s, n) =>
    /\ Protected(Current(n))
    /\ Current(n).slot = s
    /\ task[n].pc # "removeFinalizer"

StaleViewsAreSafe == \A n \in Names :
    InOrder(log[n]) /\ TaskInOrder(n) /\ SlotsInOrder(n) /\ EntriesInOrder(n)

\* status.active means that the mapping is on the router: a stamp whose lease
\* has not run down is never left without its entry, neither by a stale
\* cleanup, nor by a status written late, nor by a crash between the router's
\* answer and the status.
ActiveIsOnRouter == \A n \in Names :
    Uncontested(n) /\ Live(Current(n)) /\ Current(n).status = "fresh"
        => MappedBy(Current(n).slot, n)

\* crds.md, "true when the mapping is confirmed on the router": the cleanup of one
\* object leaves the port of another mapped, as long as that one is active.
CleanupSparesActive ==
    [][\A n \in Names : \A m \in Names \ {n} :
          LET o == Current(n) IN
          Live(o) /\ o.status = "fresh" /\ router[o.slot] # NoEntry /\ DeletePortMapping(m)
              => router'[o.slot] # NoEntry]_vars

\* Every change to the objects and the router is one the finalizer protocol
\* allows.
PhaseOf(o) ==
    IF ~Exists(o) THEN "absent"
    ELSE IF ~o.fin THEN "unprotected"
    ELSE IF o.del THEN "deleting"
    ELSE "protected"

Guard == INSTANCE GuardedResource WITH
    Things <- Names,
    phase <- [n \in Names |-> PhaseOf(Current(n))],
    held <- {n \in Names : \E s \in Slots : MappedBy(s, n)}

ImplementsGuard == Guard!Spec

\* The router ends up with the target of the spec, after lost watch events,
\* failed calls, restarts of the router and of the controller. (An edited
\* target may wait for the next renewal: the early return of reconcile_apply
\* does not look at the spec.)
TargetConverges == \A n \in Names, t \in Targets :
    LET Asked == Live(Current(n)) /\ Current(n).target = t
        Done == MappedBy(Current(n).slot, n) /\ router[Current(n).slot].target = t
    IN  Uncontested(n) => (Asked ~> (~Asked \/ Done))

\* A deleted object does not hang on its finalizer: the errors of the router
\* do not keep it, and those of the API server are retried.
DeletesFinish == \A n \in Names :
    Deleting(Current(n)) ~> ~Deleting(Current(n))

\* A mapping that a failed DeletePortMapping or an edited external port left
\* on the router goes with its lease: nobody renews it.
OrphansExpire == \A n \in Names, s \in Slots :
    LET Orphan == MappedBy(s, n)
                  /\ (Protected(Current(n)) => Current(n).slot # s)
    IN  Orphan ~> ~Orphan

\* architecture.md, "Failed --> Pending: requeue 60s": a failed mapping is
\* tried again when the requeue timer of the failure runs out.
FailedWaitsForTimer ==
    [][\A n \in Names :
          /\ task[n].pc = "idle" /\ task'[n].pc = "add"
          /\ Cached(n).status = "failed"
          => req[n] = "retry"]_vars
=============================================================================
