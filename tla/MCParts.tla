------------------------------ MODULE MCParts ------------------------------
(* Components that share no state with each other. A behaviour is one of main  *)
(* at its start, of the description the router may serve, of the GatewayStatus *)
(* controller, of the wait for the CRD, of the renewal of a lease, of a UDP     *)
(* proxy, or of a TCP connection.                                              *)
EXTENDS Startup, GatewayStatus, CrdWatch, LeaseRenewal, UdpRelay, TcpRelay

CONSTANTS w1, w2

VARIABLE part

bootVars == <<main, router, losses>>

Offers(i, kind, urls) ==
    <<[tag |-> "serviceType", text |-> kind]>>
    \o (IF "control" \in urls
        THEN <<[tag |-> "controlURL", text |-> [host |-> Blank, path |-> <<"controlURL", i>>]]>>
        ELSE <<>>)
    \o (IF "event" \in urls
        THEN <<[tag |-> "eventSubURL", text |-> [host |-> Host, path |-> <<"eventSubURL", i>>]]>>
        ELSE <<>>)

\* Routers with both services, without events, without a control URL, and
\* without a WAN connection service.
Routers == {
    <<Offers(1, "WANIPConnection", {"control", "event"}),
      Offers(2, "WANPPPConnection", {"control", "event"})>>,
    <<Offers(1, "WANPPPConnection", {"control", "event"}),
      Offers(2, "WANIPConnection", {"control"})>>,
    <<Offers(1, "WANPPPConnection", {"event"})>>,
    <<Offers(1, "other", {"control", "event"})>>}

\* A lease that nobody looks at.
Settled ==
    /\ routerLeft = Granted /\ status = 0 /\ store = 0 /\ stamp = 0
    /\ unseen = FALSE /\ age = 0 /\ timer = Never /\ wait = 0
    /\ pc = "idle" /\ answer = "none" /\ faults = 0

PartsInit ==
    /\ \/ part = "main" /\ doc \in Routers
       \/ part \in {"description", "gateway", "crd", "lease", "udp", "tcp"} /\ DocInit
    /\ StartupInit /\ GatewayInit /\ CrdInit /\ UdpInit /\ TcpInit
    /\ IF part = "lease" THEN Init ELSE Settled
    /\ part # "main" => ~configured /\ genaEnabled /\ ~multicast /\ routerOn
    /\ part # "gateway" => gateway = <<NoGateway>> /\ known = NoIp
    /\ part # "crd" => ~crd
    /\ part # "udp" => parses

PartsNext ==
    /\ UNCHANGED part
    /\ \/ /\ part = "main" /\ StartupNext
          /\ UNCHANGED <<gatewayVars, crdVars, vars, udpVars, tcpVars>>
       \/ /\ part = "description" /\ DocNext
          /\ UNCHANGED <<bootVars, gatewayVars, crdVars, vars, udpVars, tcpVars>>
       \/ /\ part = "gateway" /\ GatewayNext
          /\ UNCHANGED <<startupVars, crdVars, vars, udpVars, tcpVars>>
       \/ /\ part = "crd" /\ CrdNext
          /\ UNCHANGED <<startupVars, gatewayVars, vars, udpVars, tcpVars>>
       \/ /\ part = "lease" /\ Next
          /\ UNCHANGED <<startupVars, gatewayVars, crdVars, udpVars, tcpVars>>
       \/ /\ part = "udp" /\ UdpNext
          /\ UNCHANGED <<startupVars, gatewayVars, crdVars, vars, tcpVars>>
       \/ /\ part = "tcp" /\ TcpNext
          /\ UNCHANGED <<startupVars, gatewayVars, crdVars, vars, udpVars>>

\* What is not running is owed nothing. (A UDP proxy and a connection are owed
\* nothing until somebody uses them.)
PartsFairness ==
    /\ WF_startupVars(part = "main" /\ Main)
    /\ WF_startupVars(part = "main" /\ Restart)
    /\ WF_startupVars(part = "main" /\ ProbeFails)
    /\ WF_startupVars(part = "main" /\ RouterComes)
    /\ WF_gatewayVars(part = "gateway" /\ DeliverGateway)
    /\ WF_gatewayVars(part = "gateway" /\ GatewayController)
    /\ WF_crdVars(part = "crd" /\ GetCrd)
    /\ WF_crdVars(part = "crd" /\ ListCrd)
    /\ WF_crdVars(part = "crd" /\ crdEvents # <<>> /\ WatchCrd)
    /\ WF_crdVars(part = "crd" /\ WatchEndpoints)
    /\ WF_vars(part = "lease" /\ Tick)
    /\ WF_vars(part = "lease" /\ Deliver)
    /\ WF_vars(part = "lease" /\ Controller)
    /\ UdpFairness
    /\ TcpFairness

PartsSpec ==
    PartsInit /\ [][PartsNext]_<<startupVars, gatewayVars, crdVars, vars, udpVars, tcpVars, part>>
    /\ PartsFairness
=============================================================================
