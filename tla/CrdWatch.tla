------------------------------ MODULE CrdWatch ------------------------------
(* run and wait_for_crd of the DNSEndpoint controller: a get of the CRD, then *)
(* a watch that waits for it to be applied, then the controller with a watch  *)
(* of its own on the DNSEndpoints, which never ends. Users install, change    *)
(* and remove the CRD meanwhile, calls fail.                                  *)
EXTENDS Naturals, Sequences

CONSTANTS
    MaxCrdEdits,  \* bound: how often the CRD is installed, changed and removed
    MaxCrdErrors  \* bound: failed calls and broken watches

VARIABLES
    crd,        \* the CRD is there
    crdEvents,  \* what the watch on it has not brought yet: "apply", "delete"
    waitPc,     \* "get", "list", "watch", or "active"
    endpoints,  \* the controller's watch on the DNSEndpoints works
    crdEdits, crdErrors

crdVars == <<crd, crdEvents, waitPc, endpoints, crdEdits, crdErrors>>

CrdInit ==
    /\ crd \in BOOLEAN
    /\ crdEvents = <<>>
    /\ waitPc = "get"
    /\ endpoints = FALSE
    /\ crdEdits = 0
    /\ crdErrors = 0

CrdError == crdErrors < MaxCrdErrors /\ crdErrors' = crdErrors + 1

EditCrd(event) ==
    /\ crdEdits < MaxCrdEdits
    /\ crdEdits' = crdEdits + 1
    /\ crdEvents' = IF waitPc = "watch" THEN Append(crdEvents, event) ELSE crdEvents
    /\ UNCHANGED <<waitPc, endpoints, crdErrors>>

\* Installed or changed.
ApplyCrd == crd' = TRUE /\ EditCrd("apply")

RemoveCrd == crd /\ crd' = FALSE /\ EditCrd("delete")

-----------------------------------------------------------------------------
\* An error of the get counts as no CRD.
GetCrd ==
    /\ waitPc = "get"
    /\ \/ waitPc' = (IF crd THEN "active" ELSE "list") /\ UNCHANGED crdErrors
       \/ CrdError /\ waitPc' = "list"
    /\ UNCHANGED <<crd, crdEvents, endpoints, crdEdits>>

\* What the watch finds in its initial list is InitApply, not Apply: it is
\* passed over. An error of the stream ends the wait.
ListCrd ==
    /\ waitPc = "list"
    /\ \/ waitPc' = "watch" /\ UNCHANGED crdErrors
       \/ CrdError /\ waitPc' = "active"
    /\ UNCHANGED <<crd, crdEvents, endpoints, crdEdits>>

\* Mutant: waits for a CRD in the initial list only.
WatchCrd_InitOnly ==
    /\ waitPc = "watch"
    /\ \/ /\ crdEvents # <<>>
          /\ crdEvents' = Tail(crdEvents)
          /\ UNCHANGED <<waitPc, crdErrors>>
       \/ CrdError /\ waitPc' = "active" /\ crdEvents' = <<>>
    /\ UNCHANGED <<crd, endpoints, crdEdits>>

\* The next event of the watch, or an error of it.
WatchCrd ==
    /\ waitPc = "watch"
    /\ \/ /\ crdEvents # <<>>
          /\ IF Head(crdEvents) = "apply"
             THEN waitPc' = "active" /\ crdEvents' = <<>>
             ELSE UNCHANGED waitPc /\ crdEvents' = Tail(crdEvents)
          /\ UNCHANGED crdErrors
       \/ CrdError /\ waitPc' = "active" /\ crdEvents' = <<>>
    /\ UNCHANGED <<crd, endpoints, crdEdits>>

\* The controller's watch lists and goes on; while the CRD is away it fails and
\* is tried again.
WatchEndpoints ==
    /\ waitPc = "active"
    /\ endpoints # crd
    /\ endpoints' = crd
    /\ UNCHANGED <<crd, crdEvents, waitPc, crdEdits, crdErrors>>

CrdNext == ApplyCrd \/ RemoveCrd \/ GetCrd \/ ListCrd \/ WatchCrd \/ WatchEndpoints

CrdSpec == CrdInit /\ [][CrdNext]_crdVars

\* The runtime polls the task, the watch brings its events.
CrdFairness ==
    /\ WF_crdVars(GetCrd)
    /\ WF_crdVars(ListCrd)
    /\ WF_crdVars(crdEvents # <<>> /\ WatchCrd)
    /\ WF_crdVars(WatchEndpoints)

-----------------------------------------------------------------------------
\* README.md, "DNSEndpoint": a CRD that is installed once the watch has started
\* is noticed and its objects are watched, after errors, removals and new
\* installations. One that the initial list of the watch finds, by a failed get
\* or because it was installed between the two, is passed over: nobody tells.
CrdIsNoticed ==
    crd /\ (waitPc = "active" \/ crdEvents # <<>>) ~> endpoints \/ ~crd
=============================================================================
