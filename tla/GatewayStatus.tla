---------------------------- MODULE GatewayStatus ----------------------------
(* The GatewayStatus controller: ensure_singleton once at the start, then a   *)
(* reconcile for each version the watch brings, its own patches included, and *)
(* every 60 s. Failed calls are logged. Users delete and create the singleton *)
(* meanwhile, the known address changes, the process restarts with another    *)
(* subscription.                                                              *)
EXTENDS Naturals, Sequences

CONSTANTS
    WanIps,       \* addresses the router may have
    NoIp,         \* the address is not known
    NoGateway,    \* no object
    MaxChanges,   \* bound: changes of the known address and of users
    MaxFailures   \* bound: failed calls and restarts

\* The status: the address, which is also `ready`, and the process whose
\* gateway URL, LAN IP and subscription it shows; 0 for none.
Status == [ip: {NoIp} \cup WanIps, process: 0..(MaxFailures + 1)]

VARIABLES
    gateway,   \* the singleton: the version in the controller's store first,
               \* the API server's last
    known,     \* current_external_ip
    process,   \* which start of the process this is
    gatewayPc, \* "get", "create", "idle" or "patch"
    woken,     \* a reconcile is asked for
    writing,   \* the status that the patch in progress writes
    changes, failures

controllerVars == <<gatewayPc, woken, writing>>
gatewayVars == <<gateway, known, process, controllerVars, changes, failures>>

Stored == gateway[1]
Latest == gateway[Len(gateway)]

NoStatus == [ip |-> NoIp, process |-> 0]
Wanted == [ip |-> known, process |-> process]

Change == changes < MaxChanges /\ changes' = changes + 1
Failure == failures < MaxFailures /\ failures' = failures + 1

\* The watch starts with the controller, after ensure_singleton.
Watching == gatewayPc \notin {"get", "create"}
WriteGateway(g) == gateway' = IF Watching THEN Append(gateway, g) ELSE <<g>>

\* The initial list of the watch wakes the controller as well.
StartsController ==
    /\ gatewayPc' = "idle"
    /\ woken' = (gateway' # <<NoGateway>>)
    /\ UNCHANGED writing

GatewayInit ==
    /\ gateway \in {<<NoGateway>>, <<NoStatus>>}
    /\ known \in {NoIp} \cup WanIps
    /\ process = 1
    /\ gatewayPc = "get"
    /\ woken = FALSE
    /\ writing = NoStatus
    /\ changes = 0
    /\ failures = 0

-----------------------------------------------------------------------------
(* Users, the poll task and the deployment.                                  *)

AddressLearned ==
    /\ Change
    /\ known' \in WanIps \ {known}
    /\ UNCHANGED <<gateway, process, controllerVars, failures>>

UserDeletesGateway ==
    /\ Change
    /\ Latest # NoGateway
    /\ WriteGateway(NoGateway)
    /\ UNCHANGED <<known, process, controllerVars, failures>>

UserCreatesGateway ==
    /\ Change
    /\ Latest = NoGateway
    /\ WriteGateway(NoStatus)
    /\ UNCHANGED <<known, process, controllerVars, failures>>

RestartGateway ==
    /\ Failure
    /\ process' = process + 1
    /\ known' \in {NoIp, known}
    /\ gateway' = <<Latest>>
    /\ gatewayPc' = "get"
    /\ woken' = FALSE
    /\ writing' = NoStatus
    /\ UNCHANGED changes

-----------------------------------------------------------------------------
(* The controller.                                                           *)

\* ensure_singleton: an error of the get means no create.
GetSingleton ==
    /\ gatewayPc = "get"
    /\ UNCHANGED <<gateway, known, process, changes>>
    /\ \/ Latest = NoGateway /\ gatewayPc' = "create" /\ UNCHANGED <<woken, writing, failures>>
       \/ Latest # NoGateway /\ StartsController /\ UNCHANGED failures
       \/ Failure /\ StartsController

\* Not repeated when it fails. A user may have been faster.
CreateSingleton ==
    /\ gatewayPc = "create"
    /\ \/ Latest = NoGateway /\ WriteGateway(NoStatus) /\ UNCHANGED failures
       \/ Latest # NoGateway /\ UNCHANGED <<gateway, failures>>
       \/ Failure /\ UNCHANGED gateway
    /\ StartsController
    /\ UNCHANGED <<known, process, changes>>

\* A version that is no deletion wakes the controller.
DeliverGateway ==
    /\ Len(gateway) > 1
    /\ gateway' = Tail(gateway)
    /\ woken' = (woken \/ gateway[2] # NoGateway)
    /\ UNCHANGED <<known, process, gatewayPc, writing, changes, failures>>

\* Mutant: awaits a change when there was nothing to update.
SixtySeconds_Never == FALSE /\ UNCHANGED gatewayVars

\* Each reconcile asks for another after 60 s. The watch is less late.
SixtySeconds ==
    /\ gatewayPc = "idle"
    /\ ~woken
    /\ gateway = <<Latest>>
    /\ Latest \notin {NoGateway, Wanted}
    /\ woken' = TRUE
    /\ UNCHANGED <<gateway, known, process, gatewayPc, writing, changes, failures>>

ReconcilesWith(update) ==
    /\ gatewayPc = "idle"
    /\ woken
    /\ woken' = FALSE
    /\ IF Stored # NoGateway /\ update
       THEN gatewayPc' = "patch" /\ writing' = Wanted
       ELSE UNCHANGED <<gatewayPc, writing>>
    /\ UNCHANGED <<gateway, known, process, changes, failures>>

\* Mutant: compares last_seen too, which is always another.
ReconcileGateway_Always == ReconcilesWith(TRUE)

\* reconcile, with the version in the store: needs_update.
ReconcileGateway == ReconcilesWith(Stored # Wanted)

\* patch_status: each patch is a new version, with a new last_seen; one for an
\* object that is gone fails. A failure is logged, or its answer is lost.
PatchGateway ==
    /\ gatewayPc = "patch"
    /\ \/ Latest # NoGateway /\ WriteGateway(writing) /\ UNCHANGED failures
       \/ Latest = NoGateway /\ UNCHANGED <<gateway, failures>>
       \/ Latest # NoGateway /\ Failure /\ UNCHANGED gateway
    /\ gatewayPc' = "idle"
    /\ UNCHANGED <<known, process, woken, writing, changes>>

GatewayController ==
    \/ GetSingleton
    \/ CreateSingleton
    \/ SixtySeconds
    \/ ReconcileGateway
    \/ PatchGateway

GatewayNext ==
    \/ AddressLearned
    \/ UserDeletesGateway
    \/ UserCreatesGateway
    \/ RestartGateway
    \/ DeliverGateway
    \/ GatewayController

\* The runtime polls the controller and its timer, the watch delivers.
GatewayFairness ==
    /\ WF_gatewayVars(DeliverGateway)
    /\ WF_gatewayVars(GatewayController)

-----------------------------------------------------------------------------
\* README.md, "GatewayStatus": the singleton, as long as it is there, ends up
\* showing the address that is known and the subscription of this process,
\* after lost patches, from an old store, made again by a user.
StatusFollows == \A ip \in {NoIp} \cup WanIps, p \in 1..(MaxFailures + 1) :
    LET Shows == known = ip /\ process = p /\ Latest # NoGateway IN
    Shows ~> (~Shows \/ Latest = [ip |-> ip, process |-> p])

\* gateway_ctrl.rs, "avoid infinite reconcile loop": the controller wakes
\* itself with each patch, sees old versions of what it wrote, and stops
\* writing all the same.
QuietsDown == <>[][~PatchGateway]_gatewayVars
=============================================================================
