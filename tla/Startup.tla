------------------------------- MODULE Startup -------------------------------
(* main, from the search for the router to the servers: each failure either   *)
(* ends the process, which the deployment starts again, or is logged and gone *)
(* on from. The router goes off and on, and may not answer SSDP at all; calls *)
(* are lost. The bind of the servers panics in a task of its own, so the      *)
(* process goes on without them until the probe of the deployment kills it.   *)
EXTENDS RootDesc

CONSTANT MaxLosses  \* bound: lost calls, sockets that cannot be bound, crashes

VARIABLES
    step,          \* where main is: "ssdp", "fetch", "address", "subscribe",
                   \* "servers", "running", or "exited"
    configured,    \* GATEWAY_URL is set
    genaEnabled,   \* GENA_ENABLED
    multicast,     \* the router answers SSDP
    routerOn,      \* it is there
    services,      \* what main has read of its description
    addressKnown,  \* current_external_ip is set
    subscribed,    \* the event URL of the subscription, or None
    polling,       \* the interval of the poll task: "slow", "fast" or "none"
    serving,       \* the NOTIFY and metrics servers are bound
    losses

main == <<step, services, addressKnown, subscribed, polling, serving>>
router == <<configured, genaEnabled, multicast, routerOn>>
startupVars == <<doc, main, router, losses>>

Loss == losses < MaxLosses /\ losses' = losses + 1

StartupInit ==
    /\ doc \in Description
    /\ step = "ssdp"
    /\ configured \in BOOLEAN
    /\ genaEnabled \in BOOLEAN
    /\ multicast \in BOOLEAN
    /\ routerOn \in BOOLEAN
    /\ services = NoServices
    /\ addressKnown = FALSE
    /\ subscribed = None
    /\ polling = "none"
    /\ serving = FALSE
    /\ losses = 0

\* Nothing of a process is left when it ends.
Exit ==
    /\ step' = "exited"
    /\ services' = NoServices
    /\ addressKnown' = FALSE
    /\ subscribed' = None
    /\ polling' = "none"
    /\ serving' = FALSE

-----------------------------------------------------------------------------
(* The router and the deployment.                                            *)

RouterGoes ==
    /\ routerOn
    /\ Loss
    /\ routerOn' = FALSE
    /\ UNCHANGED <<doc, main, configured, genaEnabled, multicast>>

RouterComes ==
    /\ ~routerOn
    /\ routerOn' = TRUE
    /\ UNCHANGED <<doc, main, configured, genaEnabled, multicast, losses>>

Restart ==
    /\ step = "exited"
    /\ step' = "ssdp"
    /\ UNCHANGED <<doc, services, addressKnown, subscribed, polling, serving, router, losses>>

\* livenessProbe: GET /metrics
ProbeFails ==
    /\ step = "running"
    /\ ~serving
    /\ Exit
    /\ UNCHANGED <<doc, router, losses>>

MainDies ==
    /\ step # "exited"
    /\ Loss
    /\ Exit
    /\ UNCHANGED <<doc, router>>

-----------------------------------------------------------------------------
(* main                                                                      *)

\* A call to the router answers, or is lost.
Answered == routerOn /\ UNCHANGED losses
Unanswered == (~routerOn /\ UNCHANGED losses) \/ Loss

\* Mutant: waits for an answer without a limit.
SsdpDiscover_NoTimeout ==
    /\ step = "ssdp"
    /\ Answered
    /\ multicast
    /\ step' = "fetch"
    /\ UNCHANGED <<doc, services, addressKnown, subscribed, polling, serving, router>>

\* GATEWAY_URL goes before what answers, within 3 s; with neither main bails.
SsdpDiscover ==
    /\ step = "ssdp"
    /\ \/ /\ \/ Answered /\ multicast
             \/ (Unanswered \/ (~multicast /\ UNCHANGED losses)) /\ configured
          /\ step' = "fetch"
          /\ UNCHANGED <<services, addressKnown, subscribed, polling, serving>>
       \/ /\ Unanswered \/ (~multicast /\ UNCHANGED losses)
          /\ ~configured
          /\ Exit
    /\ UNCHANGED <<doc, router>>

\* Without a description, or without a control URL in it, main bails.
DiscoverGateway ==
    /\ step = "fetch"
    /\ \/ /\ Answered
          /\ ControlUrl(ParseRootDesc(doc)) # None
          /\ services' = ParseRootDesc(doc)
          /\ step' = "address"
          /\ UNCHANGED <<addressKnown, subscribed, polling, serving>>
       \/ /\ Answered
          /\ ControlUrl(ParseRootDesc(doc)) = None
          /\ Exit
       \/ /\ Unanswered
          /\ Exit
    /\ UNCHANGED <<doc, router>>

\* A control URL that is Blank answers nothing.
GetInitialIp ==
    /\ step = "address"
    /\ \/ Answered /\ ControlUrl(services) # Blank /\ addressKnown' = TRUE
       \/ Unanswered /\ UNCHANGED addressKnown
       \/ ControlUrl(services) = Blank /\ UNCHANGED <<addressKnown, losses>>
    /\ step' = "subscribe"
    /\ UNCHANGED <<doc, services, subscribed, polling, serving, router>>

\* Mutant: slow polling though the subscription failed.
SubscribeGena_IgnoresError ==
    /\ step = "subscribe"
    /\ \/ /\ Answered /\ EventUrl(services) # Blank
          /\ subscribed' = EventUrl(services)
       \/ /\ Unanswered
          /\ UNCHANGED subscribed
       \/ /\ EventUrl(services) = Blank
          /\ UNCHANGED <<subscribed, losses>>
    /\ polling' = IF genaEnabled THEN "slow" ELSE "fast"
    /\ step' = "servers"
    /\ UNCHANGED <<doc, services, addressKnown, serving, router>>

\* A failed subscription is not tried again; polling is fast then. With the
\* interval the tasks are spawned.
SubscribeGena ==
    /\ step = "subscribe"
    /\ \/ /\ genaEnabled
          /\ Answered
          /\ EventUrl(services) # Blank
          /\ subscribed' = EventUrl(services)
          /\ polling' = "slow"
       \/ /\ genaEnabled
          /\ Unanswered \/ (EventUrl(services) = Blank /\ UNCHANGED losses)
          /\ UNCHANGED subscribed
          /\ polling' = "fast"
       \/ /\ ~genaEnabled
          /\ polling' = "fast"
          /\ UNCHANGED <<subscribed, losses>>
    /\ step' = "servers"
    /\ UNCHANGED <<doc, services, addressKnown, serving, router>>

\* The task binds the NOTIFY port, then that of the metrics, and panics when it
\* cannot: then neither is served, and main does not learn of it.
BindServers ==
    /\ step = "servers"
    /\ \/ serving' = TRUE /\ UNCHANGED losses
       \/ Loss /\ UNCHANGED serving
    /\ step' = "running"
    /\ UNCHANGED <<doc, services, addressKnown, subscribed, polling, router>>

Main ==
    \/ SsdpDiscover
    \/ DiscoverGateway
    \/ GetInitialIp
    \/ SubscribeGena
    \/ BindServers

StartupNext ==
    \/ RouterGoes
    \/ RouterComes
    \/ Restart
    \/ ProbeFails
    \/ MainDies
    \/ Main

StartupSpec == StartupInit /\ [][StartupNext]_startupVars

\* The runtime polls main, the deployment restarts what ends and what fails its
\* probe. A router that was switched off is switched on again.
StartupFairness ==
    /\ WF_startupVars(Main)
    /\ WF_startupVars(Restart)
    /\ WF_startupVars(ProbeFails)
    /\ WF_startupVars(RouterComes)

-----------------------------------------------------------------------------
\* With a router that has a WAN connection service and can be found, the
\* controller ends up running, with its servers, however often it is lost on
\* the way, at whatever step.
ComesUp ==
    ControlUrl(ParseRootDesc(doc)) # None /\ (configured \/ multicast)
        ~> step = "running" /\ serving

\* architecture.md, "If GENA is unavailable, polling runs at 10s intervals", at
\* the start: a controller that polls slowly has subscribed, and to the events
\* of the service that it asks for the address.
ListensOrPollsFast ==
    polling = "slow" => \E i \in Meant(doc) :
        /\ subscribed = Resolve(Says(doc[i], "eventSubURL"))
        /\ ControlUrl(services) = Resolve(Says(doc[i], "controlURL"))
=============================================================================
