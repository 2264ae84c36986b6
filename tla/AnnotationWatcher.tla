-------------------------- MODULE AnnotationWatcher --------------------------
(* reconcile_service and reconcile_pod for one annotated object: the rounds   *)
(* that list the PortMappings it owns, start the proxies it asks for, apply   *)
(* the PortMappings that lead to them and delete the stale ones. A round is a *)
(* sequence of calls; users edit and delete the object, calls fail, the       *)
(* process stops and starts again between any two of them.                    *)
(*                                                                            *)
(* ensure_proxy and stop_proxy are single steps here: no other caller works   *)
(* on the keys of this object, and ProxyManager shows that what other callers *)
(* do between their lock sections does not matter then (PromiseKept). Of the  *)
(* PortMapping controller only the end of a deletion is left.                 *)
EXTENDS Integers, Sequences

CONSTANTS
    Keys,       \* names of the PortMappings that the object may ask for, which
                \* are the keys of their proxies
    Ips,        \* addresses the object may have in the cluster (another port
                \* in the cluster for the same key is another address here)
    Objects,    \* bound: the versions of the object that users write
    Ports,      \* ports of this host
    MaxEdits,   \* bound: how often users edit the object or its PortMappings
    MaxFaults,  \* bound: failed calls, stops of the process, listeners that die
    MaxLag,     \* bound: how many edits the watch may be behind
    None        \* no annotation, address, object, proxy or PortMapping

\* The annotation, parsed against the ports of the object, and the address. An
\* annotation may match no port.
Object == [isPod: BOOLEAN, wants: {None} \cup SUBSET Keys, ip: {None} \cup Ips]

Proxy == [port: Ports, ip: Ips]

Pm == [port: Ports, del: BOOLEAN]

Round ==
    [pc: {"idle"}]
    \cup [pc: {"list"}, obj: Object]
    \cup [pc: {"stopAll"}, obj: Object, owned: SUBSET Keys]
    \cup [pc: {"ensure"}, obj: Object, owned: SUBSET Keys, todo: SUBSET Keys]
    \cup [pc: {"apply"}, obj: Object, owned: SUBSET Keys, todo: SUBSET Keys,
          key: Keys, port: Ports]
    \cup [pc: {"delete"}, obj: Object, todo: SUBSET Keys]

ASSUME WatcherAssumption ==
    /\ Objects \subseteq Object
    /\ MaxEdits \in Nat /\ MaxFaults \in Nat /\ MaxLag \in Nat
    /\ None \notin Ips
    /\ \A keys \in SUBSET Keys : keys # None
    /\ \A o \in Object \cup Proxy \cup Pm : o # None

Idle == [pc |-> "idle"]

VARIABLES
    versions,  \* the object, from the version in the controller's store
               \* (first) to the API server's (last); None once it is deleted
    req,       \* the pending request: "none", "now" or "timer"
    round,     \* the reconcile in progress
    proxy,     \* the handles of the proxies: their ports and where they lead
    dead,      \* keys of handles whose listener has died
    pm,        \* the PortMappings: where they lead and whether they are going
    process,   \* "up", "stopping" (shutting_down is set) or "down"
    edits, faults

vars == <<versions, req, round, proxy, dead, pm, process, edits, faults>>

Cached == versions[1]
Current == versions[Len(versions)]

Live(k) == pm[k] # None /\ ~pm[k].del

Fault == faults < MaxFaults /\ faults' = faults + 1

\* main starts the watchers; the object may have been there before.
Init ==
    /\ versions \in {<<o>> : o \in Objects}
    /\ req = "now"
    /\ round = Idle
    /\ proxy = [k \in Keys |-> None]
    /\ dead = {}
    /\ pm = [k \in Keys |-> None]
    /\ process = "up"
    /\ edits = 0
    /\ faults = 0

-----------------------------------------------------------------------------
(* Users, the API server and the PortMapping controller.                     *)

NewVersion(o) ==
    /\ edits < MaxEdits
    /\ edits' = edits + 1
    /\ Current # None
    /\ Len(versions) <= MaxLag
    /\ versions' = IF process = "down" THEN <<o>> ELSE Append(versions, o)

UserEdits ==
    /\ \E o \in Objects \ {Current} : Current # None /\ o.isPod = Current.isPod /\ NewVersion(o)
    /\ UNCHANGED <<req, round, proxy, dead, pm, process, faults>>

UserDeletes ==
    /\ NewVersion(None)
    /\ UNCHANGED <<req, round, proxy, dead, pm, process, faults>>

\* One that the PortMapping controller has not protected yet is gone at once.
IsDeleted(k) ==
    \/ pm' = [pm EXCEPT ![k].del = TRUE]
    \/ pm' = [pm EXCEPT ![k] = None]

UserDeletesPm(k) ==
    /\ edits < MaxEdits
    /\ edits' = edits + 1
    /\ Live(k)
    /\ IsDeleted(k)
    /\ UNCHANGED <<versions, req, round, proxy, dead, process, faults>>

\* Garbage collection by ownerReferences.
OwnerIsGone(k) ==
    /\ Current = None
    /\ Live(k)
    /\ IsDeleted(k)
    /\ UNCHANGED <<versions, req, round, proxy, dead, process, edits, faults>>

\* The PortMapping controller has cleaned up and removed its finalizer.
PmVanishes(k) ==
    /\ pm[k] # None
    /\ pm[k].del
    /\ pm' = [pm EXCEPT ![k] = None]
    /\ UNCHANGED <<versions, req, round, proxy, dead, process, edits, faults>>

\* A listener breaks on an error of accept() or recv_from(). Its handle stays.
ListenerDies(k) ==
    /\ proxy[k] # None
    /\ k \notin dead
    /\ Fault
    /\ dead' = dead \cup {k}
    /\ UNCHANGED <<versions, req, round, proxy, pm, process, edits>>

-----------------------------------------------------------------------------
(* The scheduler and the process.                                            *)

\* A removal from the store starts no reconcile.
Deliver ==
    /\ process # "down"
    /\ Len(versions) > 1
    /\ versions' = Tail(versions)
    /\ req' = IF versions[2] # None THEN "now" ELSE req
    /\ UNCHANGED <<round, proxy, dead, pm, process, edits, faults>>

\* The reconcile ends and asks to run again after a time, or not; a request
\* that came in meanwhile is earlier.
Finish(r) ==
    /\ round' = Idle
    /\ req' = IF req = "now" THEN req ELSE r

\* SIGTERM: main sets shutting_down and waits for 5 s.
Shutdown ==
    /\ process = "up"
    /\ Fault
    /\ process' = "stopping"
    /\ UNCHANGED <<versions, req, round, proxy, dead, pm, edits>>

\* Proxies, requests and the round die with the process.
Down ==
    /\ \/ process = "stopping" /\ UNCHANGED faults
       \/ process = "up" /\ Fault
    /\ process' = "down"
    /\ versions' = <<Current>>
    /\ req' = "none"
    /\ round' = Idle
    /\ proxy' = [k \in Keys |-> None]
    /\ dead' = {}
    /\ UNCHANGED <<pm, edits>>

Start ==
    /\ process = "down"
    /\ process' = "up"
    /\ req' = IF Current = None THEN "none" ELSE "now"
    /\ UNCHANGED <<versions, round, proxy, dead, pm, edits, faults>>

-----------------------------------------------------------------------------
(* A round.                                                                  *)

At(step) == process # "down" /\ round.pc = step

\* The request is used up. shutting_down is looked at here and nowhere else.
Reconcile ==
    /\ At("idle")
    /\ req # "none"
    /\ req' = "none"
    /\ round' = IF process = "stopping" \/ Cached = None THEN Idle
                ELSE [pc |-> "list", obj |-> Cached]
    /\ UNCHANGED <<versions, proxy, dead, pm, process, edits, faults>>

\* Mutant: an error awaits a change of the object.
CallFails_Await == Fault /\ Finish("none")

\* An error ends the round: service_error_policy, pod_error_policy.
CallFails == Fault /\ Finish("timer")

\* The deletes that are left, and the request when none is.
ToDelete(todo, r) ==
    IF todo = {} THEN Finish(r)
    ELSE /\ round' = [pc |-> "delete", obj |-> round.obj, todo |-> todo]
         /\ UNCHANGED req

\* What the round does with the PortMappings that the object owns.
AfterList(owned) ==
    LET o == round.obj IN
    \/ /\ o.wants = None
       /\ round' = [pc |-> "stopAll", obj |-> o, owned |-> owned]
       /\ UNCHANGED req
    \/ /\ o.wants # None
       /\ o.ip = None
       /\ Finish(IF o.isPod THEN "timer" ELSE "none")
    \/ /\ o.wants = {}
       /\ o.ip # None
       /\ Finish("none")
    \/ /\ o.wants \notin {None, {}}
       /\ o.ip # None
       /\ round' = [pc |-> "ensure", obj |-> o, owned |-> owned, todo |-> o.wants]
       /\ UNCHANGED req

\* list_owned_port_mappings
ListOwned ==
    /\ At("list")
    /\ \/ AfterList({k \in Keys : pm[k] # None}) /\ UNCHANGED faults
       \/ CallFails
    /\ UNCHANGED <<versions, proxy, dead, pm, process, edits>>

\* Mutant: leaves the proxies of a removed annotation running.
StopAll_KeepsProxies ==
    /\ At("stopAll")
    /\ ToDelete(round.owned, "none")
    /\ UNCHANGED <<versions, proxy, dead, pm, process, edits, faults>>

\* The annotation is gone: the proxies first, then the PortMappings.
StopAll ==
    /\ At("stopAll")
    /\ proxy' = [k \in Keys |-> IF k \in round.owned THEN None ELSE proxy[k]]
    /\ dead' = dead \ round.owned
    /\ ToDelete(round.owned, "none")
    /\ UNCHANGED <<versions, pm, process, edits, faults>>

\* The next key to ensure, or else the stale PortMappings.
NextKey(k) ==
    LET todo == round.todo \ {k} IN
    IF todo # {}
    THEN /\ round' = [pc |-> "ensure", obj |-> round.obj, owned |-> round.owned, todo |-> todo]
         /\ UNCHANGED req
    ELSE ToDelete(round.owned \ round.obj.wants, "timer")

\* No listener of another key has port p.
PortIsFree(k, p) == \A j \in Keys \ {k} : proxy[j] # None /\ j \notin dead => proxy[j].port # p

Applies(k, p) ==
    /\ round' = [pc |-> "apply", obj |-> round.obj, owned |-> round.owned,
                 todo |-> round.todo, key |-> k, port |-> p]
    /\ UNCHANGED req

\* Mutant: goes on to apply without a port.
Ensure_NoSkip(k) ==
    /\ At("ensure")
    /\ k \in round.todo
    /\ LET fits == proxy[k] # None /\ proxy[k].ip = round.obj.ip IN
          \/ /\ fits
             /\ Applies(k, proxy[k].port)
             /\ UNCHANGED <<proxy, dead, faults>>
          \/ /\ ~fits
             /\ Fault
             /\ proxy' = [proxy EXCEPT ![k] = None]
             /\ dead' = dead \ {k}
             /\ Applies(k, None)
    /\ UNCHANGED <<versions, pm, process, edits>>

\* ensure_proxy. A handle that fits is answered with, whether or not its listener
\* lives. The socket of a proxy that leads elsewhere may be closed before the
\* new one is bound. Without a port the key is skipped, and its old proxy is
\* stopped all the same.
Ensure(k) ==
    /\ At("ensure")
    /\ k \in round.todo
    /\ LET fits == proxy[k] # None /\ proxy[k].ip = round.obj.ip IN
          \/ /\ fits
             /\ Applies(k, proxy[k].port)
             /\ UNCHANGED <<proxy, dead, faults>>
          \/ /\ ~fits
             /\ \E p \in Ports :
                   /\ PortIsFree(k, p)
                   /\ proxy' = [proxy EXCEPT ![k] = [port |-> p, ip |-> round.obj.ip]]
                   /\ Applies(k, p)
             /\ dead' = dead \ {k}
             /\ UNCHANGED faults
          \/ /\ ~fits
             /\ Fault
             /\ proxy' = [proxy EXCEPT ![k] = None]
             /\ dead' = dead \ {k}
             /\ NextKey(k)
    /\ UNCHANGED <<versions, pm, process, edits>>

\* Mutant: creates the PortMapping and leaves one that is there as it is.
Applied_CreateOnly(k, p) ==
    pm' = IF pm[k] = None THEN [pm EXCEPT ![k] = [port |-> p, del |-> FALSE]] ELSE pm

\* The server-side apply makes the PortMapping, or changes its spec, one that
\* is being deleted included.
Applied(k, p) ==
    pm' = [pm EXCEPT ![k] = [port |-> p, del |-> IF @ = None THEN FALSE ELSE @.del]]

Apply ==
    /\ At("apply")
    /\ \/ /\ Applied(round.key, round.port)
          /\ NextKey(round.key)
          /\ UNCHANGED faults
       \/ /\ Applied(round.key, round.port) \/ UNCHANGED pm
          /\ CallFails
    /\ UNCHANGED <<versions, proxy, dead, process, edits>>


\* A PortMapping that the round found and the object does not ask for: stop
\* its proxy, delete it. A failed delete is only logged.
DeleteOne(k) ==
    /\ At("delete")
    /\ k \in round.todo
    /\ IF round.obj.wants # None
       THEN proxy' = [proxy EXCEPT ![k] = None] /\ dead' = dead \ {k}
       ELSE UNCHANGED <<proxy, dead>>
    /\ \/ IF pm[k] # None THEN IsDeleted(k) /\ UNCHANGED faults
                          ELSE UNCHANGED <<pm, faults>>
       \/ Fault /\ UNCHANGED pm
    /\ ToDelete(round.todo \ {k}, IF round.obj.wants = None THEN "none" ELSE "timer")
    /\ UNCHANGED <<versions, process, edits>>

-----------------------------------------------------------------------------
Rounds ==
    \/ Reconcile
    \/ ListOwned
    \/ StopAll
    \/ \E k \in Keys : Ensure(k) \/ DeleteOne(k)
    \/ Apply

Next ==
    \/ UserEdits
    \/ UserDeletes
    \/ \E k \in Keys : UserDeletesPm(k) \/ OwnerIsGone(k) \/ PmVanishes(k) \/ ListenerDies(k)
    \/ Deliver
    \/ Shutdown
    \/ Down
    \/ Start
    \/ Rounds

Spec == Init /\ [][Next]_vars

\* The runtime polls the task and its timers, the five seconds of a shutdown
\* end, the deployment restarts the process, the PortMapping controller ends
\* its deletions. Users owe nothing.
Fairness ==
    /\ WF_vars(Deliver)
    /\ WF_vars(Rounds)
    /\ WF_vars(process = "stopping" /\ Down)
    /\ WF_vars(Start)
    /\ \A k \in Keys : WF_vars(PmVanishes(k))

FairSpec == Spec /\ Fairness

-----------------------------------------------------------------------------
(* What the watchers are for.                                                *)

\* Every variable stays in its range: a round, above all, never holds the port
\* of a proxy or the name of a PortMapping that it has not been given.
TypeOK ==
    /\ versions \in Seq({None} \cup Object) \ {<<>>}
    /\ req \in {"none", "now", "timer"}
    /\ round \in Round
    /\ proxy \in [Keys -> {None} \cup Proxy]
    /\ dead \subseteq Keys
    /\ pm \in [Keys -> {None} \cup Pm]
    /\ process \in {"up", "stopping", "down"}
    /\ edits \in 0..MaxEdits
    /\ faults \in 0..MaxFaults

Forwards(k, ip) ==
    /\ Live(k)
    /\ k \notin dead
    /\ proxy[k] # None
    /\ proxy[k].ip = ip
    /\ pm[k].port = proxy[k].port

\* A round never leaves a proxy that leads elsewhere, nor a PortMapping that
\* leads to another port than that of the proxy: when the loop over the wanted
\* ports is through, each of them that has a proxy is forwarded, unless its
\* listener died, whatever users deleted meanwhile, and only then are the stale
\* PortMappings deleted.
RoundIsComplete ==
    round.pc = "delete" /\ round.obj.wants # None =>
        \A k \in round.obj.wants : proxy[k] # None =>
            /\ proxy[k].ip = round.obj.ip
            /\ Live(k) /\ k \notin dead => Forwards(k, round.obj.ip)

\* architecture.md, "How annotation port-forwarding works": a port that an
\* annotation asks for ends up forwarded to the object's address, after
\* restarts, which change the proxies' ports, failed calls and deleted
\* PortMappings, and although a port may be that of a handle whose listener has
\* died. (From the death of its own listener the code does not recover.)
Forwarded == \A k \in Keys, ip \in Ips :
    LET Asked == /\ Current # None
                 /\ Current.wants # None
                 /\ k \in Current.wants
                 /\ Current.ip = ip
    IN  Asked ~> (~Asked \/ k \in dead \/ Forwards(k, ip))

=============================================================================
