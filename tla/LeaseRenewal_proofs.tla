------------------------ MODULE LeaseRenewal_proofs ------------------------
(* What holds of the renewal for every lease, buffer and delay: the type      *)
(* invariant, the honesty of status.leaseExpiry, and that a lease never runs  *)
(* out though calls are slow and one of them fails between two renewals, as   *)
(* long as the buffer outlasts eight delays (three, if none fails) and what   *)
(* the router granted short of the lease asked for.                           *)
EXTENDS LeaseRenewal, TLAPS

\* The arithmetic of Countdown and Most.
LEMMA Arithmetic ==
  /\ \A x \in Nat : Countdown(x) \in Nat /\ (x = 0 => Countdown(x) = 0)
                                         /\ (x > 0 => Countdown(x) = x - 1)
  /\ \A x \in Int, y \in Nat : Most(x, y) \in Nat /\ Most(x, y) >= x /\ Most(x, y) >= y
                                /\ (x > y => Most(x, y) = x)
  BY DEF Countdown, Most

\* Two countdowns stay as far apart as they were.
LEMMA Apart ==
  ASSUME NEW x \in Nat, NEW y \in Nat, NEW d \in Nat, x <= y + d
  PROVE  Countdown(x) <= Countdown(y) + d
  BY DEF Countdown, Most

\* A later expiry of the router leaves a stamp no further from it.
LEMMA Further ==
  ASSUME NEW x \in Nat, NEW y \in Nat, NEW z \in Nat, NEW d \in Nat, x <= y + d, y <= z
  PROVE  x <= z + d
  OBVIOUS

\* The type invariant is inductive.
LEMMA TypeNext == TypeOK /\ [Next]_vars => TypeOK'
  <1> SUFFICES ASSUME TypeOK, [Next]_vars PROVE TypeOK'
    OBVIOUS
  <1> USE LeaseAssumption DEF TypeOK, Never, Steps
  <1>1. CASE Tick
    <2>1. ASSUME NEW n \in Nat, NEW x \in 0..n PROVE Countdown(x) \in 0..n
      <3>1. x \in Nat /\ Countdown(x) \in Nat /\ Countdown(x) <= x
        BY DEF Countdown, Most
      <3> QED
        BY <3>1
    <2>2. timer' \in Nat \cup {Never}
      BY <1>1, Arithmetic DEF Tick
    <2>3. wait' \in 0..Delay /\ age' \in 0..Delay
      BY <1>1 DEF Tick
    <2> QED
      BY <1>1, <2>1, <2>2, <2>3 DEF Tick
  <1>2. CASE Deliver
    <2>1. unseen' \in BOOLEAN
      BY <1>2 DEF Deliver
    <2>2. /\ routerLeft' = routerLeft /\ status' = status /\ store' = status
          /\ stamp' = stamp /\ age' = 0 /\ timer' = 0 /\ pc' = pc
          /\ answer' = answer /\ wait' = wait /\ faults' = faults
      BY <1>2 DEF Deliver
    <2> QED
      BY <2>1, <2>2
  <1>3. CASE Touch
    BY <1>3 DEF Touch
  <1>4. CASE Reconcile
    <2>1. Most(store - Buffer, 1) \in Nat
      BY Arithmetic
    <2> QED
      BY <1>4, <2>1 DEF Reconcile
  <1>5. CASE RouterAdds
    BY <1>5 DEF RouterAdds
  <1>6. CASE RouterFails
    BY <1>6 DEF RouterFails
  <1>7. CASE TakeAnswer
    BY <1>7 DEF TakeAnswer
  <1>8. CASE PatchStatus
    <2>1. RequeueAfterPatch \in Nat
      BY Arithmetic DEF RequeueAfterPatch
    <2> QED
      BY <1>8, <2>1 DEF PatchStatus, Ask
  <1>9. CASE PatchFails
    BY <1>9 DEF PatchFails, Ask
  <1>10. CASE UNCHANGED vars
    BY <1>10 DEF vars
  <1> QED
    BY <1>1, <1>2, <1>3, <1>4, <1>5, <1>6, <1>7, <1>8, <1>9, <1>10 DEF Next, Controller

\* The initial values are in their ranges.
LEMMA InitTypes == Init => TypeOK
  <1> SUFFICES ASSUME Init PROVE TypeOK
    OBVIOUS
  <1>1. unseen \in BOOLEAN
    BY DEF Init
  <1>2. /\ routerLeft = 0 /\ status = 0 /\ store = 0 /\ age = 0 /\ timer = 0
        /\ pc = "idle" /\ answer = "none" /\ stamp = 0 /\ wait = 0 /\ faults = 0
    BY DEF Init
  <1> QED
    BY <1>1, <1>2, LeaseAssumption DEF TypeOK, Steps

\* Every variable stays in its range.
THEOREM LeaseTypes == Spec => []TypeOK
  <1>1. Init => TypeOK
    BY InitTypes
  <1> QED
    BY <1>1, TypeNext, PTL DEF Spec

-----------------------------------------------------------------------------
\* No stamp, wherever it is on its way, is further from the router's expiry
\* than the time of one call and the difference of the leases.
Late == Delay + (Lease - Granted)

Honest ==
    /\ TypeOK
    /\ status <= routerLeft + Late
    /\ store <= routerLeft + Late
    /\ stamp <= routerLeft + Late
    /\ pc = "answer" /\ answer = "ok" => Granted <= routerLeft + wait

\* Honesty is inductive.
LEMMA HonestNext ==
  ASSUME Granted <= Lease
  PROVE  Honest /\ [Next]_vars => Honest'
  <1> SUFFICES ASSUME Honest, [Next]_vars PROVE Honest'
    OBVIOUS
  <1>0. TypeOK'
    BY TypeNext DEF Honest
  <1> USE LeaseAssumption DEF Honest, TypeOK, Late
  <1>1. CASE Tick
    <2>1. /\ routerLeft' = Countdown(routerLeft)
          /\ status' = Countdown(status)
          /\ store' = Countdown(store)
          /\ stamp' = Countdown(stamp)
          /\ pc' = pc /\ answer' = answer
          /\ pc = "answer" => wait' = wait + 1
      BY <1>1 DEF Tick, StepIsDue
    <2>2. Late \in Nat /\ routerLeft \in Nat /\ status \in Nat /\ store \in Nat /\ stamp \in Nat
      OBVIOUS
    <2>3. Countdown(routerLeft) >= routerLeft - 1
      BY DEF Countdown, Most
    <2> HIDE DEF Late
    <2>4. status' <= routerLeft' + Late /\ store' <= routerLeft' + Late /\ stamp' <= routerLeft' + Late
      BY <2>1, <2>2, Apart
    <2>5. pc' = "answer" /\ answer' = "ok" => Granted <= routerLeft' + wait'
      BY <2>1, <2>3, <1>0
    <2> QED
      BY <1>0, <2>4, <2>5
  <1>2. CASE Deliver
    <2>1. /\ routerLeft' = routerLeft /\ status' = status /\ store' = status
          /\ stamp' = stamp /\ pc' = pc /\ answer' = answer /\ wait' = wait
      BY <1>2 DEF Deliver
    <2> QED
      BY <1>0, <2>1
  <1>3. CASE Touch
    BY <1>0, <1>3 DEF Touch
  <1>4. CASE Reconcile
    BY <1>0, <1>4 DEF Reconcile
  <1>5. CASE RouterAdds
    BY <1>0, <1>5 DEF RouterAdds
  <1>6. CASE RouterFails
    <2>1. /\ routerLeft' \in {routerLeft, Granted} /\ answer' = "failed"
          /\ status' = status /\ store' = store /\ stamp' = stamp
      BY <1>6 DEF RouterFails
    <2>2. /\ routerLeft' \in Nat /\ routerLeft <= routerLeft'
          /\ routerLeft \in Nat /\ status \in Nat /\ store \in Nat /\ stamp \in Nat
          /\ Late \in Nat
      BY <2>1
    <2> HIDE DEF TypeOK, Late
    <2>3. status' <= routerLeft' + Late /\ store' <= routerLeft' + Late /\ stamp' <= routerLeft' + Late
      BY <2>1, <2>2, Further
    <2> QED
      BY <1>0, <2>1, <2>3 DEF Late
  <1>7. CASE TakeAnswer
    BY <1>0, <1>7 DEF TakeAnswer
  <1>8. CASE PatchStatus
    BY <1>0, <1>8 DEF PatchStatus
  <1>9. CASE PatchFails
    BY <1>0, <1>9 DEF PatchFails
  <1>10. CASE UNCHANGED vars
    BY <1>0, <1>10 DEF vars
  <1> QED
    BY <1>1, <1>2, <1>3, <1>4, <1>5, <1>6, <1>7, <1>8, <1>9, <1>10 DEF Next, Controller

\* status.leaseExpiry is never later than the router's expiry by more than one
\* call, whatever calls fail.
THEOREM ExpiryIsHonest ==
  ASSUME Granted <= Lease
  PROVE  Spec => []HonestExpiry
  <1>1. Init => Honest
    <2> SUFFICES ASSUME Init PROVE Honest
      OBVIOUS
    <2>1. routerLeft = 0 /\ status = 0 /\ store = 0 /\ stamp = 0 /\ pc = "idle"
      BY DEF Init
    <2> QED
      BY <2>1, InitTypes, LeaseAssumption DEF Honest, Late
  <1>2. Honest => HonestExpiry
    BY LeaseAssumption DEF Honest, HonestExpiry, TypeOK, Late
  <1> QED
    BY <1>1, <1>2, HonestNext, PTL DEF Spec

-----------------------------------------------------------------------------
(* That the lease never runs out, though a call may fail. Counted in          *)
(* status.lease_expiry, the next AddPortMapping is due when the buffer is all *)
(* that is left; the start of the reconcile and the call take a delay each,   *)
(* and the router's own expiry is at most Late before the stamp. When that    *)
(* call fails, the status says so and the watch brings it: what is left of    *)
(* the lease is counted in delays until the second attempt. When it is the    *)
(* write of the status that fails, the lease is fresh, and the wait of        *)
(* error_policy is short of it.                                               *)

\* The renewal of an active mapping is under way, or asked for in time.
RenewalIsDue ==
    \/ timer = 0 /\ status >= Buffer - wait
    \/ timer > 0 /\ status >= Buffer + timer
    \/ timer > 0 /\ unseen /\ status >= Buffer + Delay - age

\* After a failed call: the second attempt is under way, or comes in time.
RetryIsDue ==
    \/ timer = 0 /\ routerLeft > 2 * Delay - wait
    \/ timer > 0 /\ routerLeft > 2 * Delay + timer
    \/ unseen /\ routerLeft > 3 * Delay - age

\* The store's version does not outlive the API server's, or the version that
\* says so is on its way.
StoreIsSafe == store <= status \/ (unseen /\ routerLeft > 3 * Delay - age)

\* What is left of the lease where the reconcile is.
IdleInTime ==
    pc = "idle" => /\ timer \in Nat
                   /\ routerLeft > 0 => IF faults = 0 THEN RenewalIsDue ELSE RetryIsDue

AddInTime ==
    pc = "add" /\ routerLeft > 0 =>
        IF faults = 0 THEN status >= Buffer - Delay - wait ELSE routerLeft > Delay - wait

AnswerInTime ==
    pc = "answer" =>
        \/ answer = "ok" /\ faults = 0 /\ routerLeft >= Granted - wait
        \/ answer = "failed" /\ faults = 1 /\ (routerLeft > 0 => routerLeft > 5 * Delay - wait)

PatchInTime ==
    pc = "patch" =>
        \/ /\ answer = "ok" /\ faults = 0 /\ routerLeft >= Granted - Delay - wait
           /\ stamp >= routerLeft /\ stamp >= status /\ stamp >= store
        \/ /\ answer = "failed" /\ faults = 1 /\ stamp = 0
           /\ routerLeft > 0 => routerLeft > 4 * Delay - wait

OnTime ==
    /\ Honest
    /\ routerLeft = 0 => status = 0 /\ store = 0
    /\ StoreIsSafe
    /\ faults = 0 /\ pc \in {"idle", "add"} => store <= status
    /\ IdleInTime
    /\ AddInTime
    /\ AnswerInTime
    /\ PatchInTime

\* What the buffer has to outlast, beside what the router granted short of the
\* lease: three delays if no call fails, eight if one does, the wait of
\* error_policy being short of the lease then.
BufferIsEnough ==
    /\ Granted <= Lease
    /\ MaxFaults <= 1
    /\ 3 * Delay + (Lease - Granted) < Buffer
    /\ Buffer + 3 * Delay <= Granted
    /\ MaxFaults = 1 => /\ 8 * Delay + (Lease - Granted) < Buffer
                        /\ RetryError + 4 * Delay < Granted

\* What the type invariant says of the numbers.
LEMMA Numbers ==
  ASSUME BufferIsEnough, OnTime
  PROVE  /\ routerLeft \in Nat /\ status \in Nat /\ store \in Nat /\ stamp \in Nat
         /\ age \in Nat /\ wait \in Nat /\ wait <= Delay /\ age <= Delay
         /\ routerLeft <= Granted /\ status <= Lease /\ store <= Lease
         /\ timer \in Int /\ (timer < 0 => timer = Never) /\ pc \in Steps
         /\ status <= routerLeft + Late
         /\ faults = 0 \/ (faults = 1 /\ MaxFaults = 1)
  BY LeaseAssumption DEF OnTime, Honest, TypeOK, Never, BufferIsEnough

\* A second that may pass while a mapping is on the router is not its last.
LEMMA TimeIsLeft ==
  ASSUME BufferIsEnough, OnTime, Tick, routerLeft > 0
  PROVE  routerLeft > 1
  <1> USE LeaseAssumption, Numbers DEF BufferIsEnough, Late
  <1>1. CASE pc = "idle"
    <2>1. (timer = 0 => wait < Delay) /\ (unseen => age < Delay)
      BY DEF Tick, StepIsDue
    <2>2. CASE faults = 0
      <3>1. RenewalIsDue
        BY <1>1, <2>2 DEF OnTime, IdleInTime
      <3> QED
        BY <2>1, <3>1 DEF RenewalIsDue
    <2>3. CASE faults = 1
      <3>1. RetryIsDue
        BY <1>1, <2>3 DEF OnTime, IdleInTime
      <3> QED
        BY <2>1, <3>1 DEF RetryIsDue
    <2> QED
      BY <2>2, <2>3
  <1>2. CASE pc = "add"
    <2>1. wait < Delay
      BY <1>2 DEF Tick, StepIsDue
    <2>2. IF faults = 0 THEN status >= Buffer - Delay - wait ELSE routerLeft > Delay - wait
      BY <1>2 DEF OnTime, AddInTime
    <2> QED
      BY <2>1, <2>2
  <1>3. CASE pc = "answer"
    <2>1. routerLeft >= Granted - wait \/ (faults = 1 /\ routerLeft > 5 * Delay - wait)
      BY <1>3 DEF OnTime, AnswerInTime
    <2>2. wait < Delay
      BY <1>3 DEF Tick, StepIsDue
    <2> QED
      BY <2>1, <2>2
  <1>4. CASE pc = "patch"
    <2>1. routerLeft >= Granted - Delay - wait \/ (faults = 1 /\ routerLeft > 4 * Delay - wait)
      BY <1>4 DEF OnTime, PatchInTime
    <2>2. wait < Delay
      BY <1>4 DEF Tick, StepIsDue
    <2> QED
      BY <2>1, <2>2
  <1> QED
    BY <1>1, <1>2, <1>3, <1>4 DEF Steps

\* A second passes.
LEMMA TickKeepsTime ==
  ASSUME BufferIsEnough, OnTime, Tick
  PROVE  OnTime'
  <1> USE LeaseAssumption, Numbers DEF BufferIsEnough
  <1>1. Honest'
    BY HonestNext DEF OnTime, Next
  <1>2. /\ routerLeft' = Countdown(routerLeft)
        /\ status' = Countdown(status)
        /\ store' = Countdown(store)
        /\ stamp' = Countdown(stamp)
        /\ pc' = pc /\ answer' = answer /\ faults' = faults
        /\ unseen' = unseen
        /\ unseen => age' = age + 1 /\ age < Delay
        /\ pc # "idle" \/ timer = 0 => wait' = wait + 1 /\ wait < Delay
        /\ pc = "idle" /\ timer > 0 => wait' = 0
    BY DEF Tick, StepIsDue
  <1>3. \A x \in Nat : Countdown(x) \in Nat /\ Countdown(x) <= x /\ Countdown(x) >= x - 1
                       /\ (x = 0 => Countdown(x) = 0)
    BY DEF Countdown, Most
  <1>4. /\ routerLeft' \in Nat /\ routerLeft' >= routerLeft - 1 /\ routerLeft' <= routerLeft
        /\ status' \in Nat /\ status' >= status - 1
        /\ store' \in Nat /\ stamp' \in Nat
        /\ (status = 0 => status' = 0) /\ (store = 0 => store' = 0) /\ (stamp = 0 => stamp' = 0)
    BY <1>2, <1>3
  <1>5. routerLeft' = 0 => status' = 0 /\ store' = 0
    <2>1. routerLeft' = 0 => routerLeft = 0
      BY <1>4, TimeIsLeft
    <2> QED
      BY <1>4, <2>1 DEF OnTime
  <1>6. store <= status => store' <= status'
    <2>1. store <= status + 0 => Countdown(store) <= Countdown(status) + 0
      BY Apart
    <2> QED
      BY <1>2, <1>4, <2>1
  <1>7. StoreIsSafe'
    BY <1>2, <1>4, <1>6 DEF OnTime, StoreIsSafe
  <1>8. faults' = 0 /\ pc' \in {"idle", "add"} => store' <= status'
    BY <1>2, <1>6 DEF OnTime
  <1>9. IdleInTime'
    <2> SUFFICES ASSUME pc = "idle"
                 PROVE  timer' \in Nat /\ (routerLeft' > 0 => IF faults = 0 THEN RenewalIsDue' ELSE RetryIsDue')
      BY <1>2 DEF IdleInTime
    <2>1. timer \in Nat
      BY DEF OnTime, IdleInTime
    <2>2. timer' \in Nat /\ (timer > 0 => timer' = timer - 1) /\ (timer = 0 => timer' = 0)
      BY <2>1 DEF Tick, Countdown, Most, Never
    <2>3. ASSUME routerLeft' > 0, faults = 0 PROVE RenewalIsDue'
      <3>1. RenewalIsDue
        BY <1>4, <2>3 DEF OnTime, IdleInTime
      <3>2. timer' = 0 \/ timer' > 0
        BY <2>2
      <3>3. CASE timer = 0 /\ status >= Buffer - wait
        BY <1>2, <1>4, <2>2, <3>3 DEF RenewalIsDue
      <3>4. CASE timer > 0 /\ status >= Buffer + timer
        BY <1>2, <1>4, <2>2, <3>2, <3>4 DEF RenewalIsDue
      <3>5. CASE timer > 0 /\ unseen /\ status >= Buffer + Delay - age
        BY <1>2, <1>4, <2>2, <3>2, <3>5 DEF RenewalIsDue
      <3> QED
        BY <3>1, <3>3, <3>4, <3>5 DEF RenewalIsDue
    <2>4. ASSUME routerLeft' > 0, faults = 1 PROVE RetryIsDue'
      <3>1. RetryIsDue
        BY <1>4, <2>4 DEF OnTime, IdleInTime
      <3>2. timer' = 0 \/ timer' > 0
        BY <2>2
      <3>3. CASE timer = 0 /\ routerLeft > 2 * Delay - wait
        BY <1>2, <1>4, <2>2, <3>3 DEF RetryIsDue
      <3>4. CASE timer > 0 /\ routerLeft > 2 * Delay + timer
        BY <1>2, <1>4, <2>2, <3>2, <3>4 DEF RetryIsDue
      <3>5. CASE unseen /\ routerLeft > 3 * Delay - age
        BY <1>2, <1>4, <3>5 DEF RetryIsDue
      <3> QED
        BY <3>1, <3>3, <3>4, <3>5 DEF RetryIsDue
    <2> QED
      BY <2>2, <2>3, <2>4
  <1>10. AddInTime'
    BY <1>2, <1>4 DEF OnTime, AddInTime
  <1>11. AnswerInTime'
    BY <1>2, <1>4 DEF OnTime, AnswerInTime
  <1>12. PatchInTime'
    <2> SUFFICES ASSUME pc = "patch" PROVE PatchInTime'
      BY <1>2 DEF PatchInTime
    <2>1. CASE answer = "ok"
      <3>1. /\ faults = 0 /\ routerLeft >= Granted - Delay - wait
            /\ routerLeft <= stamp + 0 /\ status <= stamp + 0 /\ store <= stamp + 0
        BY <2>1 DEF OnTime, PatchInTime
      <3>2. /\ Countdown(routerLeft) <= Countdown(stamp) + 0
            /\ Countdown(status) <= Countdown(stamp) + 0
            /\ Countdown(store) <= Countdown(stamp) + 0
        BY <3>1, Apart
      <3>3. stamp' >= routerLeft' /\ stamp' >= status' /\ stamp' >= store'
        BY <1>2, <1>4, <3>2
      <3>4. routerLeft' >= Granted - Delay - wait'
        BY <1>2, <1>4, <3>1
      <3> QED
        BY <1>2, <2>1, <3>1, <3>3, <3>4 DEF PatchInTime
    <2>2. CASE answer # "ok"
      <3>1. /\ answer = "failed" /\ faults = 1 /\ stamp = 0
            /\ routerLeft > 0 => routerLeft > 4 * Delay - wait
        BY <2>2 DEF OnTime, PatchInTime
      <3>2. routerLeft' > 0 => routerLeft' > 4 * Delay - wait'
        BY <1>2, <1>4, <3>1
      <3> QED
        BY <1>2, <1>4, <3>1, <3>2 DEF PatchInTime
    <2> QED
      BY <2>1, <2>2
  <1> QED
    BY <1>1, <1>5, <1>7, <1>8, <1>9, <1>10, <1>11, <1>12 DEF OnTime

\* Everything else takes no time.
LEMMA StepKeepsTime ==
  ASSUME BufferIsEnough, OnTime, Deliver \/ Touch \/ Controller
  PROVE  OnTime' /\ routerLeft' >= routerLeft
  <1> USE LeaseAssumption, Numbers DEF BufferIsEnough
  <1>1. Honest'
    BY HonestNext DEF OnTime, Next
  <1>2. CASE Deliver
    <2>1. /\ routerLeft' = routerLeft /\ status' = status /\ store' = status /\ stamp' = stamp
          /\ pc' = pc /\ answer' = answer /\ wait' = wait /\ faults' = faults /\ timer' = 0
      BY <1>2 DEF Deliver
    <2>2. StoreIsSafe' /\ (routerLeft' = 0 => status' = 0 /\ store' = 0)
      BY <2>1 DEF OnTime, StoreIsSafe
    <2>3. IdleInTime'
      <3> SUFFICES ASSUME pc = "idle", routerLeft > 0
                   PROVE  IF faults = 0 THEN RenewalIsDue' ELSE RetryIsDue'
        BY <2>1 DEF IdleInTime
      <3>1. faults = 0 => RenewalIsDue'
        BY <2>1 DEF OnTime, IdleInTime, RenewalIsDue
      <3>2. faults # 0 => RetryIsDue'
        BY <2>1 DEF OnTime, IdleInTime, RetryIsDue
      <3> QED
        BY <3>1, <3>2
    <2>4. AddInTime' /\ AnswerInTime'
      BY <2>1 DEF OnTime, AddInTime, AnswerInTime
    <2>5. PatchInTime'
      BY <2>1 DEF OnTime, PatchInTime
    <2> QED
      BY <1>1, <2>1, <2>2, <2>3, <2>4, <2>5 DEF OnTime
  <1>3. CASE Touch
    <2>1. /\ routerLeft' = routerLeft /\ status' = status /\ store' = store /\ stamp' = stamp
          /\ pc' = pc /\ answer' = answer /\ wait' = wait /\ faults' = faults /\ timer' = timer
          /\ ~unseen
      BY <1>3 DEF Touch
    <2>2. StoreIsSafe'
      BY <2>1 DEF OnTime, StoreIsSafe
    <2>3. RenewalIsDue => RenewalIsDue'
      BY <2>1 DEF RenewalIsDue
    <2>4. RetryIsDue => RetryIsDue'
      BY <2>1 DEF RetryIsDue
    <2>5. IdleInTime'
      BY <2>1, <2>3, <2>4 DEF OnTime, IdleInTime
    <2>6. AddInTime' /\ AnswerInTime' /\ PatchInTime'
      BY <2>1 DEF OnTime, AddInTime, AnswerInTime, PatchInTime
    <2> QED
      BY <1>1, <2>1, <2>2, <2>5, <2>6 DEF OnTime
  <1>4. CASE Reconcile
    <2>1. /\ routerLeft' = routerLeft /\ status' = status /\ store' = store /\ unseen' = unseen
          /\ age' = age /\ answer' = answer /\ stamp' = stamp
          /\ faults' = faults /\ wait' = 0 /\ pc = "idle" /\ timer = 0
      BY <1>4 DEF Reconcile
    <2>2. StoreIsSafe'
      BY <2>1 DEF OnTime, StoreIsSafe
    <2>3. routerLeft > 0 /\ faults = 0 => status >= Buffer - wait /\ store <= status
      BY <2>1 DEF OnTime, IdleInTime, RenewalIsDue
    <2>4. routerLeft > 0 /\ faults # 0 => routerLeft > 2 * Delay - wait \/ (unseen /\ routerLeft > 3 * Delay - age)
      BY <2>1 DEF OnTime, IdleInTime, RetryIsDue
    <2>5. CASE store > Buffer /\ timer' = Most(store - Buffer, 1) /\ pc' = pc
      <3>1. timer' = store - Buffer /\ timer' \in Nat /\ timer' > 0
        BY <2>5 DEF Most
      <3>2. routerLeft > 0 /\ faults = 0 => RenewalIsDue'
        BY <2>1, <2>3, <3>1 DEF RenewalIsDue
      <3>3. routerLeft > 0 /\ faults = 1 => RetryIsDue'
        <4>1. CASE store <= status
          BY <2>1, <3>1, <4>1 DEF RetryIsDue, Late
        <4>2. CASE unseen /\ routerLeft > 3 * Delay - age
          BY <2>1, <4>2 DEF RetryIsDue
        <4> QED
          BY <4>1, <4>2 DEF OnTime, StoreIsSafe
      <3>4. IdleInTime'
        BY <2>1, <2>5, <3>1, <3>2, <3>3 DEF IdleInTime
      <3>5. AddInTime' /\ AnswerInTime' /\ PatchInTime'
        BY <2>1, <2>5 DEF AddInTime, AnswerInTime, PatchInTime
      <3> QED
        BY <1>1, <2>1, <2>2, <2>5, <3>4, <3>5 DEF OnTime
    <2>6. CASE pc' = "add"
      <3>1. AddInTime'
        BY <2>1, <2>3, <2>4, <2>6 DEF AddInTime
      <3>2. IdleInTime' /\ AnswerInTime' /\ PatchInTime'
        BY <2>6 DEF IdleInTime, AnswerInTime, PatchInTime
      <3> QED
        BY <1>1, <2>1, <2>2, <2>6, <3>1, <3>2 DEF OnTime
    <2> QED
      BY <1>4, <2>5, <2>6 DEF Reconcile, TooEarly
  <1>5. CASE RouterAdds
    <2>1. /\ routerLeft' = Granted /\ answer' = "ok" /\ faults' = 0 /\ pc' = "answer" /\ wait' = 0
          /\ status' = status /\ store' = store /\ unseen' = unseen /\ age' = age
      BY <1>5 DEF RouterAdds
    <2>2. StoreIsSafe' /\ routerLeft' > 0
      BY <2>1 DEF OnTime, StoreIsSafe
    <2>3. IdleInTime' /\ AddInTime' /\ AnswerInTime' /\ PatchInTime'
      BY <2>1 DEF IdleInTime, AddInTime, AnswerInTime, PatchInTime
    <2> QED
      BY <1>1, <2>1, <2>2, <2>3 DEF OnTime
  <1>6. CASE RouterFails
    <2>1. /\ routerLeft' \in {routerLeft, Granted} /\ answer' = "failed" /\ pc = "add" /\ pc' = "answer"
          /\ faults = 0 /\ MaxFaults = 1 /\ faults' = 1 /\ wait' = 0
          /\ status' = status /\ store' = store /\ unseen' = unseen /\ age' = age
      BY <1>6 DEF RouterFails
    <2>2. routerLeft' >= routerLeft /\ routerLeft' \in Nat
      BY <2>1
    <2>3. StoreIsSafe' /\ (routerLeft' = 0 => status' = 0 /\ store' = 0)
      BY <2>1, <2>2 DEF OnTime, StoreIsSafe
    <2>4. routerLeft > 0 => routerLeft > 5 * Delay
      BY <2>1 DEF OnTime, AddInTime, Late
    <2>5. routerLeft' > 0 => routerLeft' > 5 * Delay - wait'
      BY <2>1, <2>4
    <2>6. IdleInTime' /\ AddInTime' /\ AnswerInTime' /\ PatchInTime'
      BY <2>1, <2>5 DEF IdleInTime, AddInTime, AnswerInTime, PatchInTime
    <2> QED
      BY <1>1, <2>1, <2>2, <2>3, <2>6 DEF OnTime
  <1>7. CASE TakeAnswer
    <2>1. /\ routerLeft' = routerLeft /\ answer' = answer /\ faults' = faults /\ pc = "answer"
          /\ pc' = "patch" /\ wait' = 0 /\ status' = status /\ store' = store
          /\ unseen' = unseen /\ age' = age
      BY <1>7 DEF TakeAnswer
    <2>2. StoreIsSafe'
      BY <2>1 DEF OnTime, StoreIsSafe
    <2>3. PatchInTime'
      <3>1. CASE answer = "ok"
        <4>1. stamp' = Lease /\ faults = 0 /\ routerLeft >= Granted - wait
          BY <1>7, <2>1, <3>1 DEF OnTime, AnswerInTime, TakeAnswer
        <4> QED
          BY <2>1, <3>1, <4>1 DEF PatchInTime
      <3>2. CASE answer # "ok"
        <4>1. /\ stamp' = 0 /\ answer = "failed" /\ faults = 1
              /\ routerLeft > 0 => routerLeft > 5 * Delay - wait
          BY <1>7, <2>1, <3>2 DEF OnTime, AnswerInTime, TakeAnswer
        <4> QED
          BY <2>1, <4>1 DEF PatchInTime
      <3> QED
        BY <3>1, <3>2
    <2>4. IdleInTime' /\ AddInTime' /\ AnswerInTime'
      BY <2>1 DEF IdleInTime, AddInTime, AnswerInTime
    <2> QED
      BY <1>1, <2>1, <2>2, <2>3, <2>4 DEF OnTime
  <1>8. CASE PatchStatus
    <2>1. /\ routerLeft' = routerLeft /\ faults' = faults /\ pc = "patch" /\ pc' = "idle"
          /\ wait' = 0 /\ status' = stamp /\ store' = store
      BY <1>8 DEF PatchStatus
    <2>2. unseen' = TRUE /\ age' \in Nat /\ age' <= Delay
      BY <1>8 DEF PatchStatus
    <2>3. timer' \in Nat
      <3>1. Most(stamp - Buffer, MinRequeue) \in Nat
        BY DEF Most
      <3>2. RequeueAfterPatch \in Nat
        BY <3>1 DEF RequeueAfterPatch
      <3> QED
        BY <1>8, <3>2 DEF PatchStatus, Ask
    <2>4. AddInTime' /\ AnswerInTime' /\ PatchInTime'
      BY <2>1 DEF AddInTime, AnswerInTime, PatchInTime
    <2>5. CASE answer = "ok"
      <3>1. /\ faults = 0 /\ routerLeft >= Granted - Delay - wait
            /\ stamp >= routerLeft /\ stamp >= store
        BY <2>1, <2>5 DEF OnTime, PatchInTime
      <3>2. status' >= Buffer + Delay /\ routerLeft > 0
        BY <2>1, <3>1
      <3>3. RenewalIsDue'
        BY <2>1, <2>2, <2>3, <3>2 DEF RenewalIsDue
      <3>4. IdleInTime'
        BY <2>1, <2>3, <3>1, <3>3 DEF IdleInTime
      <3>5. store' <= status' /\ StoreIsSafe'
        BY <2>1, <3>1 DEF StoreIsSafe
      <3> QED
        BY <1>1, <2>1, <2>4, <3>2, <3>4, <3>5 DEF OnTime
    <2>6. CASE answer # "ok"
      <3>1. /\ faults = 1 /\ stamp = 0
            /\ routerLeft > 0 => routerLeft > 4 * Delay - wait
        BY <2>1, <2>6 DEF OnTime, PatchInTime
      <3>2. routerLeft > 0 => unseen' /\ routerLeft' > 3 * Delay - age'
        BY <2>1, <2>2, <3>1
      <3>3. routerLeft = 0 => store = 0
        BY DEF OnTime
      <3>4. StoreIsSafe'
        BY <2>1, <3>1, <3>2, <3>3 DEF StoreIsSafe
      <3>5. IdleInTime'
        BY <2>1, <2>3, <3>1, <3>2 DEF IdleInTime, RetryIsDue
      <3> QED
        BY <1>1, <2>1, <2>4, <3>1, <3>3, <3>4, <3>5 DEF OnTime
    <2> QED
      BY <2>5, <2>6
  <1>9. CASE PatchFails
    <2>1. /\ routerLeft' = routerLeft /\ status' = status /\ store' = store /\ unseen' = unseen
          /\ age' = age /\ pc = "patch" /\ pc' = "idle" /\ wait' = 0
          /\ faults = 0 /\ MaxFaults = 1 /\ faults' = 1
      BY <1>9 DEF PatchFails
    <2>2. timer' \in Nat /\ timer' <= RetryError
      BY <1>9 DEF PatchFails, Ask
    <2>3. routerLeft >= Granted - Delay - wait
      BY <2>1 DEF OnTime, PatchInTime
    <2>4. routerLeft > 2 * Delay + timer' /\ (timer' = 0 \/ timer' > 0)
      BY <2>2, <2>3, <2>1
    <2>5. IdleInTime'
      BY <2>1, <2>2, <2>4 DEF IdleInTime, RetryIsDue
    <2>6. StoreIsSafe'
      BY <2>1 DEF OnTime, StoreIsSafe
    <2>7. AddInTime' /\ AnswerInTime' /\ PatchInTime'
      BY <2>1 DEF AddInTime, AnswerInTime, PatchInTime
    <2> QED
      BY <1>1, <2>1, <2>5, <2>6, <2>7 DEF OnTime
  <1> QED
    BY <1>2, <1>3, <1>4, <1>5, <1>6, <1>7, <1>8, <1>9 DEF Controller

\* Every step but the passing of a second leaves the lease alone or extends it,
\* and a second is never its last.
LEMMA OnTimeNext ==
  ASSUME BufferIsEnough
  PROVE  OnTime /\ [Next]_vars => OnTime' /\ (routerLeft > 0 => routerLeft' > 0)
  <1> SUFFICES ASSUME OnTime, [Next]_vars
               PROVE  OnTime' /\ (routerLeft > 0 => routerLeft' > 0)
    OBVIOUS
  <1>1. CASE Tick
    <2>1. routerLeft > 1 => Countdown(routerLeft) > 0
      BY Numbers DEF Countdown, Most
    <2> QED
      BY <1>1, <2>1, TickKeepsTime, TimeIsLeft DEF Tick
  <1>2. CASE Deliver \/ Touch \/ Controller
    <2>1. OnTime' /\ routerLeft' >= routerLeft
      BY <1>2, StepKeepsTime
    <2>2. routerLeft \in Nat /\ routerLeft' \in Nat
      BY <2>1, Numbers DEF OnTime, Honest, TypeOK
    <2> QED
      BY <2>1, <2>2
  <1>3. CASE UNCHANGED vars
    <2>1. /\ UNCHANGED routerLeft /\ UNCHANGED status /\ UNCHANGED store /\ UNCHANGED unseen
          /\ UNCHANGED age /\ UNCHANGED timer /\ UNCHANGED pc /\ UNCHANGED answer
          /\ UNCHANGED stamp /\ UNCHANGED wait /\ UNCHANGED faults
      BY <1>3 DEF vars
    <2>2. Honest'
      BY HonestNext, <1>3 DEF OnTime, BufferIsEnough
    <2>3. StoreIsSafe' /\ IdleInTime' /\ AddInTime' /\ AnswerInTime' /\ PatchInTime'
      BY <2>1 DEF OnTime, StoreIsSafe, IdleInTime, RenewalIsDue, RetryIsDue, AddInTime,
                  AnswerInTime, PatchInTime
    <2> QED
      BY <2>1, <2>2, <2>3 DEF OnTime
  <1> QED
    BY <1>1, <1>2, <1>3 DEF Next

\* README, "mappings are automatically renewed before lease expiry": calls may
\* be slow, and one of them may fail between two successful AddPortMappings; a
\* mapping that is on the router stays there.
THEOREM LeaseNeverLapses ==
  ASSUME BufferIsEnough
  PROVE  Spec => NoLapse
  <1>1. Init => OnTime
    <2> SUFFICES ASSUME Init PROVE OnTime
      OBVIOUS
    <2>1. /\ routerLeft = 0 /\ status = 0 /\ store = 0 /\ stamp = 0 /\ pc = "idle"
          /\ timer = 0 /\ faults = 0
      BY DEF Init
    <2>2. Honest
      BY <2>1, InitTypes, LeaseAssumption DEF Honest, Late, BufferIsEnough
    <2>3. StoreIsSafe /\ IdleInTime /\ AddInTime /\ AnswerInTime /\ PatchInTime
      BY <2>1 DEF StoreIsSafe, IdleInTime, AddInTime, AnswerInTime, PatchInTime
    <2> QED
      BY <2>1, <2>2, <2>3 DEF OnTime
  <1>2. OnTime /\ [Next]_vars => [routerLeft > 0 => routerLeft' > 0]_vars
    BY OnTimeNext
  <1>3. OnTime /\ [Next]_vars => OnTime'
    BY OnTimeNext
  <1> QED
    BY <1>1, <1>2, <1>3, PTL DEF Spec, NoLapse
=============================================================================
