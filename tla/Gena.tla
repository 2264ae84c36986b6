-------------------------------- MODULE Gena --------------------------------
(* The GENA subscription: main subscribes once and chooses the poll interval  *)
(* by the outcome, run_renewal_loop looks after the subscription it finds in  *)
(* eventing_state.subscription, and the router drops a subscription that is   *)
(* not renewed within its TTL. Time passes in ticks; a call takes none.       *)
EXTENDS Integers

CONSTANTS
    Ttl,        \* the subscription's time to live, in ticks
    Enabled,    \* gena.enabled, and the router has an event URL
    MaxFaults,  \* bound: how many calls fail
    None, Sid   \* no subscription, a subscription

VARIABLES
    started,       \* main is past the SUBSCRIBE
    left,          \* ticks left of the subscription at the router, 0: none
    subscription,  \* eventing_state.subscription
    gauge,         \* upnp_gena_subscription_active
    fastPoll,      \* the poll task has the interval for "GENA is unavailable"
    renewal,       \* run_renewal_loop: "none", "asleep" or "renewing"
    timer,         \* ticks of its sleep left
    faults

vars == <<started, left, subscription, gauge, fastPoll, renewal, timer, faults>>

Fault == faults < MaxFaults /\ faults' = faults + 1

\* EventingState::new
Init ==
    /\ started = FALSE
    /\ left = 0
    /\ subscription = None
    /\ gauge = 0
    /\ fastPoll = FALSE
    /\ renewal = "none"
    /\ timer = 0
    /\ faults = 0

\* main keeps the SID for the GatewayStatus, in a variable of its own.
Subscribed ==
    /\ Enabled
    /\ left' = Ttl
    /\ gauge' = 1
    /\ fastPoll' = FALSE
    /\ renewal' = "asleep"
    /\ timer' = Ttl \div 2
    /\ UNCHANGED faults

NotSubscribed ==
    /\ Enabled => Fault
    /\ ~Enabled => UNCHANGED faults
    /\ fastPoll' = TRUE
    /\ UNCHANGED <<left, gauge, renewal, timer>>

Subscribe ==
    /\ ~started
    /\ started' = TRUE
    /\ Subscribed \/ NotSubscribed
    /\ UNCHANGED subscription

Tick ==
    /\ started
    /\ renewal = "asleep" => timer > 0
    /\ renewal # "renewing"
    /\ left' = IF left > 0 THEN left - 1 ELSE 0
    /\ timer' = IF timer > 0 THEN timer - 1 ELSE 0
    /\ UNCHANGED <<started, subscription, gauge, fastPoll, renewal, faults>>

\* The loop wakes; without a subscription it sleeps again.
Wake ==
    /\ renewal = "asleep"
    /\ timer = 0
    /\ IF subscription = None
       THEN timer' = Ttl \div 2 /\ UNCHANGED renewal
       ELSE renewal' = "renewing" /\ UNCHANGED timer
    /\ UNCHANGED <<started, left, subscription, gauge, fastPoll, faults>>

\* renew_subscription: a router that has dropped the SID refuses it. A failure
\* clears the subscription "so main loop will resubscribe".
Renew ==
    /\ renewal = "renewing"
    /\ \/ /\ left > 0
          /\ left' = Ttl
          /\ UNCHANGED <<subscription, faults>>
       \/ /\ (left = 0 /\ UNCHANGED faults) \/ Fault
          /\ subscription' = None
          /\ UNCHANGED left
    /\ renewal' = "asleep"
    /\ timer' = Ttl \div 2
    /\ UNCHANGED <<started, gauge, fastPoll>>

Next == Subscribe \/ Tick \/ Wake \/ Renew

Spec == Init /\ [][Next]_vars

-----------------------------------------------------------------------------
\* architecture.md, "If GENA is unavailable, polling runs at 10s intervals":
\* once main has started the poll task, the subscription is there or the poll
\* is fast.
GenaOrFastPoll == started /\ left = 0 => fastPoll
=============================================================================
