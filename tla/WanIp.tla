------------------------------- MODULE WanIp -------------------------------
(* How the router's external address reaches the cluster: the poll task and   *)
(* the NOTIFY handlers that keep current_external_ip, update_all_managed that *)
(* each of them calls on a change, and the DNSEndpoint controller, which      *)
(* repairs what those leave behind.                                           *)
(*                                                                            *)
(* All of them run at once and each call to the router or the API server is a *)
(* step: an address may be old when it is used, and pushes of different       *)
(* addresses overlap. The timers (the poll interval, the requeues of 10 and   *)
(* 300 seconds) may run out at any time. Each endpoint has the annotation     *)
(* "managed" and an A record, and is not deleted.                             *)
EXTENDS Integers, Sequences, Functions

CONSTANTS
    Ips,        \* addresses the provider may give to the router
    Endpoints,  \* DNSEndpoint objects
    Handlers,   \* NOTIFY requests that may be handled at once
    MaxChanges, \* bound: how often the address changes
    MaxFaults,  \* bound: lost NOTIFYs and failed calls
    Rests,      \* what the users may write in the rest of a DNSEndpoint
    MaxEdits,   \* bound: how often users edit a DNSEndpoint
    MaxLag,     \* bound: how many writes a watch may be behind
    Poll,       \* the poll task
    Unknown     \* no address: None, or a target the users chose themselves

ASSUME WanAssumption ==
    /\ MaxChanges \in Nat /\ MaxFaults \in Nat /\ MaxEdits \in Nat /\ MaxLag \in Nat
    /\ Unknown \notin Ips
    /\ Poll \notin Handlers
    /\ Endpoints # {}

Workers == {Poll} \cup Handlers
Addresses == Ips \cup {Unknown}

\* The spec of a DNSEndpoint: the target of its A record, and the rest of it,
\* which belongs to the users.
Version == [target: Addresses, rest: Rests]

IdleJob == [pc |-> "idle", ip |-> Unknown, listed |-> <<>>]

VARIABLES
    wan,         \* the router's address
    subscribed,  \* the router has the GENA subscription
    sent,        \* addresses in NOTIFYs on their way
    current,     \* eventing_state.current_external_ip
    job,         \* what the poll task and the NOTIFY handlers are doing:
                 \* listed holds the endpoints still to patch, as listed
    active,      \* dns_active: the DNSEndpoint controller runs
    dns,         \* dns[e]: the versions of endpoint e from the one in the
                 \* controller's store (first) to the API server's (last)
    fix,         \* fix[e]: the version the reconcile of e is about to write
    due,         \* endpoints with a request pending, now or behind a timer
    changes, faults, edits

gateway == <<wan, subscribed, changes>>
dnsVars == <<active, dns, fix, due>>
vars == <<gateway, sent, current, job, dnsVars, faults, edits>>

Nothing == [fix |-> FALSE]
Last(s) == s[Len(s)]
Current(e) == Last(dns[e])

Fault == faults < MaxFaults /\ faults' = faults + 1

\* The controllers start. main has asked for the address and has tried to
\* subscribe: a router that took the subscription sends a first NOTIFY.
Init ==
    /\ wan \in Ips
    /\ subscribed \in BOOLEAN
    /\ sent = IF subscribed THEN {wan} ELSE {}
    /\ current \in {wan, Unknown}
    /\ job = [w \in Workers |-> IdleJob]
    /\ active = FALSE
    /\ dns \in [Endpoints -> {<<[target |-> Unknown, rest |-> r]>> : r \in Rests}]
    /\ fix = [e \in Endpoints |-> Nothing]
    /\ due = {}
    /\ changes = 0 /\ faults = 0 /\ edits = 0

-----------------------------------------------------------------------------
(* The router.                                                               *)

AddressChanges ==
    /\ changes < MaxChanges
    /\ changes' = changes + 1
    /\ wan' \in Ips \ {wan}
    /\ sent' = IF subscribed THEN sent \cup {wan'} ELSE sent
    /\ UNCHANGED <<subscribed, current, job, dnsVars, faults, edits>>

\* Nobody renews the subscription (see Gena) and the router drops it.
SubscriptionExpires ==
    /\ subscribed
    /\ subscribed' = FALSE
    /\ UNCHANGED <<wan, sent, current, job, dnsVars, changes, faults, edits>>

NotifyIsLost ==
    /\ Fault
    /\ \E ip \in sent : sent' = sent \ {ip}
    /\ UNCHANGED <<gateway, current, job, dnsVars, edits>>

-----------------------------------------------------------------------------
(* The poll task and the NOTIFY handlers.                                    *)

At(w, step) == job[w].pc = step

GoTo(w, step, ip, listed) ==
    job' = [job EXCEPT ![w] = [pc |-> step, ip |-> ip, listed |-> listed]]

\* The interval ticks and the task asks for the address.
PollAsks ==
    /\ At(Poll, "idle")
    /\ GoTo(Poll, "asking", Unknown, <<>>)
    /\ UNCHANGED <<gateway, sent, current, dnsVars, faults, edits>>

\* get_external_ip
RouterAnswers ==
    /\ At(Poll, "asking")
    /\ \/ GoTo(Poll, "heard", wan, <<>>) /\ UNCHANGED faults
       \/ GoTo(Poll, "idle", Unknown, <<>>) /\ Fault
    /\ UNCHANGED <<gateway, sent, current, dnsVars, edits>>

Receive(h) ==
    /\ At(h, "idle")
    /\ \E ip \in sent :
          /\ sent' = sent \ {ip}
          /\ GoTo(h, "heard", ip, <<>>)
    /\ UNCHANGED <<gateway, current, dnsVars, faults, edits>>

\* Mutant: the poll leaves an address that a NOTIFY brought alone.
TakeIp_KeepsKnown(w) ==
    /\ At(w, "heard")
    /\ current' = IF current = Unknown \/ w # Poll THEN job[w].ip ELSE current
    /\ IF current' # current THEN GoTo(w, "push", job[w].ip, <<>>)
                             ELSE GoTo(w, "idle", Unknown, <<>>)
    /\ UNCHANGED <<gateway, sent, dnsVars, faults, edits>>

\* Under the write lock: whatever was heard last, not what is newest, wins.
TakeIp(w) ==
    /\ At(w, "heard")
    /\ current' = job[w].ip
    /\ IF current' # current THEN GoTo(w, "push", job[w].ip, <<>>)
                             ELSE GoTo(w, "idle", Unknown, <<>>)
    /\ UNCHANGED <<gateway, sent, dnsVars, faults, edits>>

\* update_all_managed, once the DNSEndpoint controller runs.
ListManaged(w) ==
    /\ At(w, "push")
    /\ IF active
       THEN \/ /\ GoTo(w, "patch", job[w].ip, [e \in Endpoints |-> Current(e)])
               /\ UNCHANGED faults
            \/ GoTo(w, "idle", Unknown, <<>>) /\ Fault
       ELSE GoTo(w, "idle", Unknown, <<>>) /\ UNCHANGED faults
    /\ UNCHANGED <<gateway, sent, current, dnsVars, edits>>

\* A patch that changes nothing makes no version. The watch brings the others
\* to a controller that runs.
Write(e, v) ==
    IF v = Current(e) THEN UNCHANGED dns
    ELSE /\ Len(dns[e]) <= MaxLag
         /\ dns' = [dns EXCEPT ![e] = IF active THEN Append(@, v) ELSE <<v>>]

\* patch_targets logs an error and goes on. The write may have happened.
TryToWrite(e, v) ==
    \/ Write(e, v) /\ UNCHANGED faults
    \/ Fault /\ (Write(e, v) \/ UNCHANGED dns)

\* build_patched_spec: the whole spec as it was read, with the new target.
Patched(v, ip) == [v EXCEPT !.target = ip]

\* Mutant: does not notice that it is done.
PatchListed_GoesOn(w) ==
    /\ At(w, "patch")
    /\ LET listed == job[w].listed IN
       \E e \in DOMAIN listed :
          /\ TryToWrite(e, Patched(listed[e], job[w].ip))
          /\ GoTo(w, "patch", job[w].ip, Restrict(listed, DOMAIN listed \ {e}))
    /\ UNCHANGED <<gateway, sent, current, active, fix, due, edits>>

\* patch_targets from update_all_managed
PatchListed(w) ==
    /\ At(w, "patch")
    /\ LET listed == job[w].listed IN
       \E e \in DOMAIN listed :
          /\ TryToWrite(e, Patched(listed[e], job[w].ip))
          /\ IF DOMAIN listed = {e}
             THEN GoTo(w, "idle", Unknown, <<>>)
             ELSE GoTo(w, "patch", job[w].ip, Restrict(listed, DOMAIN listed \ {e}))
    /\ UNCHANGED <<gateway, sent, current, active, fix, due, edits>>

-----------------------------------------------------------------------------
(* The DNSEndpoint controller and the users of its objects.                  *)

UserEdits(e) ==
    /\ edits < MaxEdits
    /\ edits' = edits + 1
    /\ \E t \in {Current(e).target, Unknown}, r \in Rests :
          Write(e, [target |-> t, rest |-> r])
    /\ UNCHANGED <<gateway, sent, current, job, active, fix, due, faults>>

\* The CRD is there: the controller lists the endpoints and reconciles each.
CrdEstablished ==
    /\ ~active
    /\ active' = TRUE
    /\ due' = Endpoints
    /\ UNCHANGED <<gateway, sent, current, job, dns, fix, faults, edits>>

Deliver(e) ==
    /\ Len(dns[e]) > 1
    /\ dns' = [dns EXCEPT ![e] = Tail(@)]
    /\ due' = due \cup {e}
    /\ UNCHANGED <<gateway, sent, current, job, active, fix, faults, edits>>

Fixing(e) == fix[e] # Nothing

\* Mutant: waits for a change of the object once its targets are right.
Reconcile_AwaitChange(e) ==
    /\ e \in due
    /\ ~Fixing(e)
    /\ IF current = Unknown THEN UNCHANGED <<fix, due>>
       ELSE /\ fix' = [fix EXCEPT ![e] = IF dns[e][1].target = current THEN Nothing
                                         ELSE Patched(dns[e][1], current)]
            /\ due' = due \ {e}
    /\ UNCHANGED <<gateway, sent, current, job, active, dns, faults, edits>>

\* The reconcile of e as the store has it. Each outcome asks to run again:
\* after 10 s without an address, after 300 s with one, a failed patch included.
Reconcile(e) ==
    /\ e \in due
    /\ ~Fixing(e)
    /\ current # Unknown
    /\ dns[e][1].target # current
    /\ fix' = [fix EXCEPT ![e] = Patched(dns[e][1], current)]
    /\ UNCHANGED <<gateway, sent, current, job, active, dns, due, faults, edits>>

\* patch_targets from reconcile
PatchCached(e) ==
    /\ Fixing(e)
    /\ TryToWrite(e, fix[e])
    /\ fix' = [fix EXCEPT ![e] = Nothing]
    /\ UNCHANGED <<gateway, sent, current, job, active, due, edits>>

-----------------------------------------------------------------------------
Push(w) == TakeIp(w) \/ ListManaged(w) \/ PatchListed(w)

Next ==
    \/ AddressChanges \/ SubscriptionExpires \/ NotifyIsLost
    \/ PollAsks \/ RouterAnswers
    \/ \E h \in Handlers : Receive(h)
    \/ \E w \in Workers : Push(w)
    \/ CrdEstablished
    \/ \E e \in Endpoints : UserEdits(e) \/ Deliver(e) \/ Reconcile(e) \/ PatchCached(e)

Spec == Init /\ [][Next]_vars

\* The runtime polls every task, the watches deliver, the timers run out, a
\* sent NOTIFY arrives or is lost, and the CRD is there in the end. The router
\* owes no change, nor to keep a subscription.
Fairness ==
    /\ WF_vars(PollAsks) /\ WF_vars(RouterAnswers)
    /\ \A h \in Handlers : WF_vars(Receive(h))
    /\ \A w \in Workers : WF_vars(Push(w))
    /\ WF_vars(CrdEstablished)
    /\ \A e \in Endpoints :
          WF_vars(Deliver(e)) /\ WF_vars(Reconcile(e)) /\ WF_vars(PatchCached(e))

FairSpec == Spec /\ Fairness

-----------------------------------------------------------------------------
\* Every variable stays in its range.
TypeOK ==
    /\ wan \in Ips /\ sent \subseteq Ips /\ current \in Addresses
    /\ subscribed \in BOOLEAN /\ active \in BOOLEAN
    /\ \A w \in Workers :
          /\ At(w, "idle") => job[w] = IdleJob
          /\ ~At(w, "idle") => (job[w].ip = Unknown <=> At(w, "asking"))
          /\ At(w, "patch") =>
                DOMAIN job[w].listed # {} /\ DOMAIN job[w].listed \subseteq Endpoints
    /\ \A e \in Endpoints : dns[e] # <<>> /\ \A i \in 1..Len(dns[e]) : dns[e][i] \in Version
    /\ \A e \in Endpoints : fix[e] \in Version \cup {Nothing}
    /\ due \subseteq Endpoints
    /\ changes \in 0..MaxChanges /\ faults \in 0..MaxFaults /\ edits \in 0..MaxEdits

\* However NOTIFYs and answers to the poll overtake each other, and after lost
\* NOTIFYs, failed polls and the end of the subscription, the controller comes
\* to know the address the router has and keeps to it.
CurrentFollows == <>[](current = wan)

\* The A records of the managed endpoints end up with the router's address,
\* though pushes of different addresses overlap, fail, work from old versions
\* or come while the CRD is missing, and users set targets of their own.
DnsFollows == \A e \in Endpoints : <>[](Current(e).target = wan)
=============================================================================
