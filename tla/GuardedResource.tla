-------------------------- MODULE GuardedResource --------------------------
(* What a finalizer promises, for any controller that acquires something     *)
(* outside the cluster on behalf of an object: the outside thing is only     *)
(* ever acquired while the object carries the finalizer, and the object goes *)
(* away only after the outside thing has been given up.                      *)
CONSTANT Things

VARIABLES
    phase,  \* phase[n]: where the object of n is in its life
    held    \* the objects on whose behalf something is held outside

vars == <<phase, held>>

Phases == {"absent", "unprotected", "protected", "deleting"}

Init ==
    /\ phase = [n \in Things |-> "absent"]
    /\ held = {}

Move(n, from, to) ==
    /\ phase[n] = from
    /\ phase' = [phase EXCEPT ![n] = to]
    /\ UNCHANGED held

Create(n) == Move(n, "absent", "unprotected")

Discard(n) == Move(n, "unprotected", "absent")

Protect(n) == Move(n, "unprotected", "protected")

MarkDeleted(n) == Move(n, "protected", "deleting")

\* Acquiring for one object may take away what others held.
Acquire(n) ==
    /\ phase[n] \in {"protected", "deleting"}
    /\ held' \subseteq held \cup {n}
    /\ UNCHANGED phase

GiveUp ==
    /\ held' \subseteq held
    /\ UNCHANGED phase

Remove(n) == n \notin held /\ Move(n, "deleting", "absent")

Next ==
    \/ \E n \in Things :
          \/ Create(n)
          \/ Discard(n)
          \/ Protect(n)
          \/ MarkDeleted(n)
          \/ Acquire(n)
          \/ Remove(n)
    \/ GiveUp

Spec == Init /\ [][Next]_vars

\* Nothing is held for an object that could vanish without a cleanup.
HeldIsGuarded == \A n \in held : phase[n] \in {"protected", "deleting"}
=============================================================================
