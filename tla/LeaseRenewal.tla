---------------------------- MODULE LeaseRenewal ----------------------------
(* The renewal of one port mapping against the clock. PortMappingCtrl lets   *)
(* everything interleave and has no clock; this module has one object that   *)
(* stays, one lease on the router, and seconds.                              *)
(*                                                                           *)
(* Points in time are kept as the seconds that are left until them, so the   *)
(* state space is finite: routerLeft is what remains of the router's lease,  *)
(* status and store are (lease_expiry - now) as the API server and the       *)
(* controller's store have it, 0 once it has passed or when the mapping is   *)
(* not active.                                                               *)
EXTENDS Integers

CONSTANTS
    Lease,      \* DEFAULT_LEASE_SECS: the lease the controller asks for
    Granted,    \* the lease the router gives; the controller believes Lease
    Buffer,     \* RENEWAL_BUFFER_SECS
    MinRequeue, \* the least wait after a renewal
    RetryAdd,   \* the wait after a failed AddPortMapping
    RetryError, \* the wait of error_policy
    Delay,      \* bound: the longest wait for AddPortMapping, for
                \* GetExternalIPAddress and the patch of the status together,
                \* for the watch to bring an event, and for the runtime to
                \* start what is due
    MaxFaults   \* bound: failed calls in a row

ASSUME LeaseAssumption ==
    /\ Lease \in Nat /\ Granted \in Nat /\ Buffer \in Nat /\ MinRequeue \in Nat
    /\ RetryAdd \in Nat /\ RetryError \in Nat /\ Delay \in Nat /\ MaxFaults \in Nat
    /\ 0 < Buffer /\ Buffer < Lease

Never == -1

VARIABLES
    routerLeft, \* seconds left of the router's lease, 0: no mapping
    status,     \* seconds left until status.lease_expiry at the API server
    store,      \* the same in the version the controller's store has
    unseen,     \* the watch has an event the store has not seen
    age,        \* how long the oldest such event has been waiting
    timer,      \* seconds until the pending request is due, or Never
    pc,         \* where the reconcile in progress is
    answer,     \* what AddPortMapping answered
    stamp,      \* seconds left until the lease_expiry about to be written
    wait,       \* how long the step that is due has been waiting
    faults      \* failed calls since the last successful AddPortMapping

vars == <<routerLeft, status, store, unseen, age, timer, pc, answer, stamp, wait, faults>>

Steps == {"idle", "add", "answer", "patch"}

Most(x, y) == IF x < y THEN y ELSE x
Countdown(x) == Most(x - 1, 0)

\* An object that has its finalizer and was never mapped.
Init ==
    /\ routerLeft = 0
    /\ status = 0
    /\ store = 0
    /\ unseen = FALSE
    /\ age = 0
    /\ timer = 0
    /\ pc = "idle"
    /\ answer = "none"
    /\ stamp = 0
    /\ wait = 0
    /\ faults = 0

-----------------------------------------------------------------------------
StepIsDue == pc # "idle" \/ timer = 0

\* A second passes. Nothing that is due waits longer than Delay.
Tick ==
    /\ StepIsDue => wait < Delay
    /\ unseen => age < Delay
    /\ routerLeft' = Countdown(routerLeft)
    /\ status' = Countdown(status)
    /\ store' = Countdown(store)
    /\ stamp' = Countdown(stamp)
    /\ timer' = IF timer = Never THEN Never ELSE Countdown(timer)
    /\ wait' = IF StepIsDue THEN wait + 1 ELSE 0
    /\ age' = IF unseen THEN age + 1 ELSE 0
    /\ UNCHANGED <<unseen, pc, answer, faults>>

\* The scheduler keeps the earlier of two requests.
Ask(seconds) == IF timer = 0 THEN 0 ELSE seconds

\* The watch brings the object as it is; the controller reconciles it at once.
Deliver ==
    /\ unseen
    /\ store' = status
    /\ unseen' = FALSE
    /\ age' = 0
    /\ timer' = 0
    /\ UNCHANGED <<routerLeft, status, pc, answer, stamp, wait, faults>>

\* Something else about the object changes: a label, the description, the
\* annotation watchers' server-side apply.
Touch ==
    /\ ~unseen
    /\ unseen' = TRUE
    /\ age' = 0
    /\ UNCHANGED <<routerLeft, status, store, timer, pc, answer, stamp, wait, faults>>

\* Mutant: renews when the lease has run out.
TooEarly_NoBuffer == store > 0

\* The early return of reconcile_apply: the store's version is active and more
\* than the buffer is left of its lease.
TooEarly == store > Buffer

\* Mutant: the early return awaits a change of the object.
Reconcile_Await ==
    /\ pc = "idle"
    /\ timer = 0
    /\ wait' = 0
    /\ timer' = Never
    /\ IF TooEarly THEN UNCHANGED pc ELSE pc' = "add"
    /\ UNCHANGED <<routerLeft, status, store, unseen, age, answer, stamp, faults>>

Reconcile ==
    /\ pc = "idle"
    /\ timer = 0
    /\ wait' = 0
    /\ \/ /\ TooEarly
          /\ timer' = Most(store - Buffer, 1)
          /\ UNCHANGED pc
       \/ /\ ~TooEarly
          /\ timer' = Never
          /\ pc' = "add"
    /\ UNCHANGED <<routerLeft, status, store, unseen, age, answer, stamp, faults>>

\* The router handles AddPortMapping.
RouterAdds ==
    /\ pc = "add"
    /\ routerLeft' = Granted
    /\ answer' = "ok"
    /\ faults' = 0
    /\ pc' = "answer"
    /\ wait' = 0
    /\ UNCHANGED <<status, store, unseen, age, timer, stamp>>

\* The router refuses, or its answer is lost.
RouterFails ==
    /\ pc = "add"
    /\ faults < MaxFaults
    /\ faults' = faults + 1
    /\ routerLeft' \in {routerLeft, Granted}
    /\ answer' = "failed"
    /\ pc' = "answer"
    /\ wait' = 0
    /\ UNCHANGED <<status, store, unseen, age, timer, stamp>>

\* Mutant: extends the lease from its old expiry.
TakeAnswer_Extends ==
    /\ pc = "answer"
    /\ stamp' = IF answer = "ok" THEN store + Lease ELSE 0
    /\ pc' = "patch"
    /\ wait' = 0
    /\ UNCHANGED <<routerLeft, status, store, unseen, age, timer, answer, faults>>

\* Mutant: stamps a lease that the router refused.
TakeAnswer_IgnoresError ==
    /\ pc = "answer"
    /\ stamp' = Lease
    /\ pc' = "patch"
    /\ wait' = 0
    /\ UNCHANGED <<routerLeft, status, store, unseen, age, timer, answer, faults>>

\* The controller has the answer. It reads its clock now, after the router did.
TakeAnswer ==
    /\ pc = "answer"
    /\ stamp' = IF answer = "ok" THEN Lease ELSE 0
    /\ pc' = "patch"
    /\ wait' = 0
    /\ UNCHANGED <<routerLeft, status, store, unseen, age, timer, answer, faults>>

\* The wait that reconcile_apply asks for when the status is written.
RequeueAfterPatch == IF answer = "ok" THEN Most(stamp - Buffer, MinRequeue) ELSE RetryAdd

\* get_external_ip, whose failure changes nothing here, and patch_status. The
\* write is an event for the controller's own watch.
PatchStatus ==
    /\ pc = "patch"
    /\ status' = stamp
    /\ unseen' = TRUE
    /\ age' = IF unseen THEN age ELSE 0
    /\ timer' = Ask(RequeueAfterPatch)
    /\ pc' = "idle"
    /\ wait' = 0
    /\ answer' = "none"
    /\ stamp' = 0
    /\ UNCHANGED <<routerLeft, store, faults>>

\* The API server does not take the status: error_policy.
PatchFails ==
    /\ pc = "patch"
    /\ faults < MaxFaults
    /\ faults' = faults + 1
    /\ timer' = Ask(RetryError)
    /\ pc' = "idle"
    /\ wait' = 0
    /\ answer' = "none"
    /\ stamp' = 0
    /\ UNCHANGED <<routerLeft, status, store, unseen, age>>

-----------------------------------------------------------------------------
Controller ==
    \/ Reconcile
    \/ RouterAdds
    \/ RouterFails
    \/ TakeAnswer
    \/ PatchStatus
    \/ PatchFails

Next == Tick \/ Deliver \/ Touch \/ Controller

Spec == Init /\ [][Next]_vars

FairSpec == Spec /\ WF_vars(Tick) /\ WF_vars(Deliver) /\ WF_vars(Controller)

-----------------------------------------------------------------------------
\* Every variable stays in its range.
TypeOK ==
    /\ routerLeft \in 0..Granted
    /\ status \in 0..Lease
    /\ store \in 0..Lease
    /\ stamp \in 0..Lease
    /\ unseen \in BOOLEAN
    /\ age \in 0..Delay
    /\ timer \in Nat \cup {Never}
    /\ pc \in Steps
    /\ answer \in {"none", "ok", "failed"}
    /\ wait \in 0..Delay
    /\ faults \in 0..MaxFaults

\* README: mappings are renewed before their lease expires. A mapping that is
\* on the router stays there, though the controller counts the lease from the
\* router's answer on, later than the router does, and though each call, the
\* watch and the runtime take their time.
NoLapse == [][routerLeft > 0 => routerLeft' > 0]_vars

\* status.leaseExpiry is when the lease expires: it is never more than the time
\* of one call later than the router's own expiry (and what the router granted
\* short of the lease that was asked for).
HonestExpiry == status <= routerLeft + Delay + (Lease - Granted)

\* The mapping gets on the router and stays.
StaysMapped == <>[](routerLeft > 0)
=============================================================================
