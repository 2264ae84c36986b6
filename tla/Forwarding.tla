----------------------------- MODULE Forwarding -----------------------------
(* The way in from the router to a Service or Pod: its annotation watcher, the *)
(* proxies and the PortMapping controller, which run in one process and share *)
(* the PortMappings on the API server, and the router. A PortMapping of the   *)
(* watcher is an object of the controller, its target a port of this host,    *)
(* and leads into the cluster through the proxy that has the port.            *)
EXTENDS PortMappingCtrl

CONSTANTS
    Ips,       \* addresses of the annotated object
    Objects,   \* bound: the versions of it that users write
    MaxEdits,  \* bound: how often users edit it or its PortMappings
    None       \* no annotation, address, object, proxy or PortMapping

VARIABLES
    versions, rounds, round, proxy, dead, edits, roundFaults  \* of the watcher

watcherVars == <<versions, rounds, round, proxy, dead, edits, roundFaults>>
forwardVars == <<vars, watcherVars>>

\* What a watcher sees of the PortMapping o.
Seen(o) == IF Exists(o) THEN [port |-> o.target, del |-> o.del] ELSE None

Watcher == INSTANCE AnnotationWatcher WITH
    Keys <- Names,
    Ports <- Targets,
    req <- rounds,
    pm <- [n \in Names |-> Seen(Current(n))],
    process <- IF up THEN "up" ELSE "down",
    faults <- roundFaults

ASSUME ForwardingAssumption == Watcher!WatcherAssumption

ForwardInit == Init /\ Watcher!Init

-----------------------------------------------------------------------------
\* The server-side apply: a new object, or another target.
Apply(n) == \E t \in Targets :
    LET o == Current(n) IN
    IF Exists(o) THEN t # o.target /\ Write(n, [o EXCEPT !.target = t])
    ELSE \E s \in Wants[n] :
            Write(n, [slot |-> s, target |-> t, fin |-> FALSE, del |-> FALSE,
                      status |-> "none"])

\* A delete only marks an object that carries the finalizer.
Remove(n) ==
    LET o == Current(n) IN
    /\ Exists(o)
    /\ ~o.del
    /\ Write(n, IF o.fin THEN [o EXCEPT !.del = TRUE] ELSE NoObject)

\* One write at most of the watcher, of users and of the garbage collector.
PmWrites ==
    /\ UNCHANGED log \/ \E n \in Names : Apply(n) \/ Remove(n)
    /\ UNCHANGED <<req, task, router, up, faults>>

Round ==
    /\ up
    /\ PmWrites
    /\ Watcher!Rounds

Users ==
    /\ PmWrites
    /\ \/ Watcher!UserEdits
       \/ Watcher!UserDeletes
       \/ \E n \in Names : Watcher!UserDeletesPm(n)

CollectGarbage ==
    /\ PmWrites
    /\ \E n \in Names : Watcher!OwnerIsGone(n)

DeliverObject == UNCHANGED vars /\ Watcher!Deliver

ListenerDies == UNCHANGED vars /\ \E n \in Names : Watcher!ListenerDies(n)

ProcessDies == Crash /\ Watcher!Down

ProcessStarts == Start /\ Watcher!Start

\* The PortMapping controller reads and writes nothing else of the watcher.
PortMappings ==
    /\ \/ \E n \in Names : Controller(n) \/ LeaseRunsDown(n)
       \/ \E s \in Slots : LeaseExpires(s)
       \/ RouterReboot
    /\ UNCHANGED watcherVars

ForwardNext ==
    \/ Round
    \/ Users
    \/ CollectGarbage
    \/ DeliverObject
    \/ ListenerDies
    \/ ProcessDies
    \/ ProcessStarts
    \/ PortMappings

ForwardSpec == ForwardInit /\ [][ForwardNext]_forwardVars

\* That of the parts, and the garbage collector works. (Strong where a write
\* may find the log full: that is the bound MaxLag, not the API server.)
ForwardFairness ==
    /\ SF_forwardVars(Round)
    /\ SF_forwardVars(CollectGarbage)
    /\ WF_forwardVars(DeliverObject)
    /\ WF_forwardVars(ProcessStarts)
    /\ \A n \in Names :
          /\ WF_vars(Deliver(n))
          /\ WF_vars(Reconciling(n))
          /\ WF_vars(LeaseRunsDown(n))
    /\ \A s \in Slots : WF_vars(LeaseExpires(s))

FairForwardSpec == ForwardSpec /\ ForwardFairness

-----------------------------------------------------------------------------
\* What AnnotationWatcher assumes of the PortMapping controller holds of it:
\* to the watcher it only ends deletions, and leaves what was applied alone.
ImplementsWatcher == Watcher!Spec

MapsTo(n, p) == \E s \in Slots : MappedBy(s, n) /\ router[s].target = p

\* From the router to ip.
WayIn(n, ip) ==
    /\ proxy[n] # None
    /\ n \notin dead
    /\ proxy[n].ip = ip
    /\ MapsTo(n, proxy[n].port)

Asks(n, ip) ==
    /\ Watcher!Current # None
    /\ Watcher!Current.wants # None
    /\ n \in Watcher!Current.wants
    /\ Watcher!Current.ip = ip

\* README.md, "Service annotation": what an annotation asks for ends up
\* reachable through the router, the port of the proxy and the proxy, although
\* each restart changes the port and the controller trusts a status that is
\* older than it, unless the listener of its own proxy died of an error.
Reachable == \A n \in Names, ip \in Ips :
    Asks(n, ip) ~> (~Asks(n, ip) \/ n \in dead \/ WayIn(n, ip))

\* The annotation, or the port in it, or the object is gone.
AsksNoMore(n) == LET o == Watcher!Current IN
    IF o = None THEN TRUE
    ELSE o.wants = None \/ (o.wants # {} /\ o.ip # None /\ n \notin o.wants)

\* What is asked for no longer ends up closed, at the router or at the proxy,
\* after failed deletes, lost statuses, crashes and rounds that were under way.
Closes == \A n \in Names :
    AsksNoMore(n) ~> (~AsksNoMore(n) \/ \A ip \in Ips : ~WayIn(n, ip))

\* README, "the controller re-programs the router on restart": once a started
\* process has been through a round and has reconciled the PortMapping on its
\* latest version, and both wait for their timers, there is a way in, if the
\* listener has not died.
Settled(n) ==
    /\ up
    /\ round = Watcher!Idle /\ rounds = "timer" /\ Len(versions) = 1
    /\ task[n].pc = "idle" /\ req[n] = "lease" /\ Len(log[n]) = 1
    /\ ~LeaseTimerIsOut(n)

RestartReprograms == \A n \in Names, ip \in Ips :
    Settled(n) /\ Asks(n, ip) /\ n \notin dead => WayIn(n, ip)
=============================================================================
