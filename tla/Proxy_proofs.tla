---------------------------- MODULE Proxy_proofs ----------------------------
(* What holds of the ProxyManager for any number of callers, keys, targets   *)
(* and ports, whether or not callers share keys and listeners die; and of the *)
(* UDP relay, for any clients, sockets and number of faults.                  *)
EXTENDS ProxyManager, UdpRelay, TLAPS

-----------------------------------------------------------------------------
(* The manager.                                                              *)

\* A call works on a key of its caller, and carries a handle only between bind
\* and insert.
CallsAreTidy == \A c \in Callers : call[c] # None =>
    /\ call[c].key \in Uses[c]
    /\ call[c].pc # "stop" => call[c].target # None
    /\ call[c].pc = "insert" <=> call[c].handle # None

\* The handle that is about to be inserted speaks of a listener of its own.
PendingFits == \A c \in Callers : At(c, "insert") =>
    /\ Fits(call[c].handle)
    /\ \A k \in Keys : ~Holds(k, call[c].handle.chan)
    /\ \A d \in Callers : d # c => ~IsInserting(d, call[c].handle.chan)

\* What was promised to the only caller of a key is in the map.
PromiseInMap == \A c \in Callers : \A k \in Uses[c] :
    Sole(c, k) /\ (call[c] # None => call[c].key # k) /\ promised[k] # None =>
        proxies[k] = promised[k]

IInv ==
    /\ TypeOK
    /\ CallsAreTidy
    /\ PendingFits
    /\ HandlesFit
    /\ NoLeak
    /\ PromiseInMap

\* The variables start in their ranges and everything is empty.
LEMMA InitIInv == Init => IInv
  <1> SUFFICES ASSUME Init PROVE IInv
    OBVIOUS
  <1> USE ProxyAssumption DEF Init
  <1>1. TypeOK
    BY DEF TypeOK
  <1>2. CallsAreTidy /\ PendingFits /\ HandlesFit /\ NoLeak /\ PromiseInMap
    BY DEF CallsAreTidy, PendingFits, At, HandlesFit, NoLeak, PromiseInMap
  <1> QED
    BY <1>1, <1>2 DEF IInv

\* A handle, a listener and a call are never the model value None.
LEMMA NoneIsNothing ==
    /\ \A h \in Handle : h # None
    /\ \A l \in Listener : l # None
    /\ \A w \in ActiveCall : w # None
  BY ProxyAssumption

\* Telling the listener of a handle changes only whether that one was told.
LEMMA TellOne ==
  ASSUME TypeOK, NEW h \in Handle \cup {None}, Tell(h)
  PROVE  /\ listener' \in [Channels -> Listener \cup {None}]
         /\ \A ch \in Channels : (listener'[ch] = None) <=> (listener[ch] = None)
         /\ \A ch \in Channels : h = None \/ ch # h.chan => listener'[ch] = listener[ch]
         /\ \A ch \in Channels : listener[ch] # None =>
               /\ listener'[ch].port = listener[ch].port
               /\ listener'[ch].target = listener[ch].target
               /\ h # None /\ ch = h.chan => listener'[ch].told
  <1>1. \A l \in Listener : /\ [l EXCEPT !.told = TRUE] \in Listener
                            /\ [l EXCEPT !.told = TRUE].port = l.port
                            /\ [l EXCEPT !.told = TRUE].target = l.target
                            /\ [l EXCEPT !.told = TRUE].told
    BY DEF Listener
  <1>2. \A ch \in Channels : listener[ch] # None => listener[ch] \in Listener
    BY DEF TypeOK
  <1> QED
    BY <1>1, <1>2, NoneIsNothing DEF Tell

\* A caller asks.
LEMMA CallKeeps ==
  ASSUME IInv, NEW c \in Callers, Call(c)
  PROVE  IInv'
  <1> USE DEF IInv
  <1>1. PICK w \in ActiveCall :
           /\ call' = [call EXCEPT ![c] = w]
           /\ w.key \in Uses[c]
           /\ (w.pc = "check" /\ w.target # None) \/ w.pc = "stop"
           /\ w.handle = None
    <2>1. Uses[c] \subseteq Keys
      BY ProxyAssumption
    <2>2. PICK k \in Uses[c] :
             \/ \E t \in Targets : call' = [call EXCEPT ![c] =
                   [pc |-> "check", key |-> k, target |-> t, handle |-> None]]
             \/ call' = [call EXCEPT ![c] =
                   [pc |-> "stop", key |-> k, target |-> None, handle |-> None]]
      BY DEF Call
    <2>3. CASE \E t \in Targets : call' = [call EXCEPT ![c] =
                  [pc |-> "check", key |-> k, target |-> t, handle |-> None]]
      <3>1. PICK t \in Targets : call' = [call EXCEPT ![c] =
                  [pc |-> "check", key |-> k, target |-> t, handle |-> None]]
        BY <2>3
      <3> DEFINE w == [pc |-> "check", key |-> k, target |-> t, handle |-> None]
      <3>2. w \in ActiveCall /\ t # None
        BY <2>1, ProxyAssumption DEF ActiveCall, Steps
      <3> QED
        BY <3>1, <3>2
    <2>4. CASE call' = [call EXCEPT ![c] =
                  [pc |-> "stop", key |-> k, target |-> None, handle |-> None]]
      <3> DEFINE w == [pc |-> "stop", key |-> k, target |-> None, handle |-> None]
      <3>1. w \in ActiveCall
        BY <2>1 DEF ActiveCall, Steps
      <3> QED
        BY <2>4, <3>1
    <2> QED
      BY <2>2, <2>3, <2>4
  <1>2. w # None /\ UNCHANGED <<proxies, listener, died, promised>>
    BY NoneIsNothing DEF Call
  <1>3. call[c] = None
    BY DEF Call
  <1>4. TypeOK'
    BY <1>1, <1>2 DEF TypeOK
  <1>5. CallsAreTidy'
    BY <1>1, <1>2 DEF CallsAreTidy, TypeOK
  <1>6. PendingFits'
    BY <1>1, <1>2, <1>3 DEF PendingFits, TypeOK, At, Fits, Runs, Holds, IsInserting
  <1>7. HandlesFit'
    BY <1>2 DEF HandlesFit, Fits, Runs, Holds
  <1>8. NoLeak'
    BY <1>1, <1>2, <1>3 DEF NoLeak, TypeOK, At, Holds, IsInserting
  <1>9. PromiseInMap'
    BY <1>1, <1>2, <1>3 DEF PromiseInMap, TypeOK, Sole
  <1> QED
    BY <1>4, <1>5, <1>6, <1>7, <1>8, <1>9

\* What GoTo leaves of the calls.
LEMMA GoToOne ==
  ASSUME TypeOK, NEW c \in Callers, call[c] # None,
         NEW step \in Steps, NEW h \in Handle \cup {None}, GoTo(c, step, h)
  PROVE  /\ call' \in [Callers -> ActiveCall \cup {None}]
         /\ call'[c] # None /\ call'[c].pc = step /\ call'[c].handle = h
         /\ call'[c].key = call[c].key /\ call'[c].target = call[c].target
         /\ \A d \in Callers \ {c} : call'[d] = call[d]
  <1>1. call[c] \in ActiveCall
    BY DEF TypeOK
  <1> DEFINE w == [call[c] EXCEPT !.pc = step, !.handle = h]
  <1>2. /\ w \in ActiveCall /\ w.pc = step /\ w.handle = h
        /\ w.key = call[c].key /\ w.target = call[c].target
    BY <1>1 DEF ActiveCall
  <1>3. w # None
    BY <1>2, NoneIsNothing
  <1> HIDE DEF w
  <1>4. call' = [call EXCEPT ![c] = w]
    BY DEF GoTo, TypeOK, w
  <1> QED
    BY <1>2, <1>3, <1>4 DEF TypeOK

\* What Return leaves of the calls and the promises.
LEMMA ReturnOne ==
  ASSUME TypeOK, NEW c \in Callers, call[c] # None,
         NEW h \in Handle \cup {None}, Return(c, h)
  PROVE  /\ call' \in [Callers -> ActiveCall \cup {None}]
         /\ promised' \in [Keys -> Handle \cup {None}]
         /\ call'[c] = None
         /\ \A d \in Callers \ {c} : call'[d] = call[d]
         /\ call[c].key \in Keys
         /\ promised'[call[c].key] = h
         /\ \A k \in Keys \ {call[c].key} : promised'[k] = promised[k]
  <1>1. call[c].key \in Keys
    BY DEF TypeOK, ActiveCall
  <1> QED
    BY <1>1 DEF Return, TypeOK

\* The read lock section.
LEMMA CheckRunningKeeps ==
  ASSUME IInv, NEW c \in Callers, CheckRunning(c)
  PROVE  IInv'
  <1> USE DEF IInv
  <1> DEFINE k == call[c].key
             h == proxies[k]
  <1>1. call[c] # None /\ call[c].pc = "check" /\ k \in Uses[c] /\ k \in Keys
    BY DEF CheckRunning, At, CallsAreTidy, TypeOK, ActiveCall
  <1>2. call[c].handle = None /\ call[c].target # None
    BY <1>1 DEF CallsAreTidy
  <1>3. UNCHANGED <<proxies, listener, died>>
    BY DEF CheckRunning
  <1>4. HandlesFit'
    BY <1>3 DEF HandlesFit, Fits, Runs, Holds
  <1>5. CASE Return(c, h)
    <2>1. h \in Handle \cup {None}
      BY <1>1 DEF TypeOK
    <2> HIDE DEF k, h
    <2>2. /\ call' \in [Callers -> ActiveCall \cup {None}]
          /\ promised' \in [Keys -> Handle \cup {None}]
          /\ call'[c] = None
          /\ \A d \in Callers \ {c} : call'[d] = call[d]
          /\ promised'[k] = proxies[k]
          /\ \A j \in Keys \ {k} : promised'[j] = promised[j]
      BY <1>1, <1>5, <2>1, ReturnOne DEF k, h
    <2>3. TypeOK'
      BY <1>3, <2>2 DEF TypeOK
    <2>4. CallsAreTidy'
      BY <2>2 DEF CallsAreTidy
    <2>5. PendingFits'
      BY <1>3, <2>2 DEF PendingFits, At, Fits, Runs, Holds, IsInserting
    <2>6. NoLeak'
      BY <1>1, <1>3, <2>2 DEF NoLeak, At, Holds, IsInserting
    <2>7. PromiseInMap'
      <3> SUFFICES ASSUME NEW d \in Callers, NEW j \in Uses[d], Sole(d, j),
                          call'[d] # None => call'[d].key # j, promised'[j] # None
                   PROVE  proxies[j] = promised'[j]
        BY <1>3 DEF PromiseInMap, Sole
      <3>1. j \in Keys
        BY ProxyAssumption
      <3>2. CASE j = k
        BY <3>2, <2>2
      <3>3. CASE j # k
        BY <3>1, <3>3, <2>2 DEF PromiseInMap, k
      <3> QED
        BY <3>2, <3>3
    <2> QED
      BY <1>4, <2>3, <2>4, <2>5, <2>6, <2>7
  <1>6. CASE GoTo(c, "stop", None) /\ UNCHANGED promised
    <2>1. /\ call' \in [Callers -> ActiveCall \cup {None}]
          /\ call'[c] # None /\ call'[c].pc = "stop" /\ call'[c].handle = None
          /\ call'[c].key = call[c].key
          /\ \A d \in Callers \ {c} : call'[d] = call[d]
      BY <1>1, <1>6, GoToOne DEF Steps
    <2>2. TypeOK'
      BY <1>3, <1>6, <2>1 DEF TypeOK
    <2>3. CallsAreTidy'
      BY <1>1, <2>1 DEF CallsAreTidy
    <2>4. PendingFits'
      BY <1>3, <2>1 DEF PendingFits, At, Fits, Runs, Holds, IsInserting
    <2>5. NoLeak'
      BY <1>1, <1>3, <2>1 DEF NoLeak, At, Holds, IsInserting
    <2>6. PromiseInMap'
      BY <1>1, <1>3, <1>6, <2>1 DEF PromiseInMap, Sole
    <2> QED
      BY <1>4, <2>2, <2>3, <2>4, <2>5, <2>6
  <1> QED
    BY <1>5, <1>6 DEF CheckRunning

\* stop_proxy under the write lock.
LEMMA RemoveHandleKeeps ==
  ASSUME IInv, NEW c \in Callers, RemoveHandle(c)
  PROVE  IInv'
  <1> USE DEF IInv
  <1> DEFINE k == call[c].key
             h == proxies[k]
  <1>1. call[c] # None /\ call[c].pc = "stop" /\ k \in Uses[c] /\ k \in Keys
    BY DEF RemoveHandle, At, CallsAreTidy, TypeOK, ActiveCall
  <1>2. h \in Handle \cup {None} /\ Tell(h)
    BY <1>1 DEF RemoveHandle, TypeOK
  <1> HIDE DEF k, h
  <1>3. /\ listener' \in [Channels -> Listener \cup {None}]
        /\ \A ch \in Channels : (listener'[ch] = None) <=> (listener[ch] = None)
        /\ \A ch \in Channels : h = None \/ ch # h.chan => listener'[ch] = listener[ch]
        /\ \A ch \in Channels : listener[ch] # None =>
              (h # None /\ ch = h.chan => listener'[ch].told)
        /\ UNCHANGED died
    BY <1>2, TellOne DEF RemoveHandle
  <1>4. /\ proxies' \in [Keys -> Handle \cup {None}]
        /\ proxies'[k] = None
        /\ \A j \in Keys \ {k} : proxies'[j] = proxies[j]
    BY <1>1 DEF RemoveHandle, TypeOK, k
  <1>5. /\ call' \in [Callers -> ActiveCall \cup {None}]
        /\ promised' \in [Keys -> Handle \cup {None}]
        /\ \A d \in Callers \ {c} : call'[d] = call[d]
        /\ \A j \in Keys \ {k} : promised'[j] = promised[j]
        /\ \/ call'[c] = None /\ promised'[k] = None
           \/ /\ call'[c] # None /\ call'[c].pc = "bind" /\ call'[c].handle = None
              /\ call'[c].key = k /\ call'[c].target # None
              /\ promised' = promised
    <2>1. CASE call[c].target = None /\ Return(c, None)
      BY <1>1, <2>1, ReturnOne DEF k
    <2>2. CASE call[c].target # None /\ GoTo(c, "bind", None) /\ UNCHANGED promised
      <3>1. "bind" \in Steps
        BY DEF Steps
      <3> QED
        BY <1>1, <2>2, <3>1, GoToOne DEF k, TypeOK
    <2> QED
      BY <2>1, <2>2 DEF RemoveHandle
  <1>6. \A j \in Keys : proxies[j] # None => proxies[j].chan \in Channels
    BY DEF TypeOK, Handle
  <1>7. \A d \in Callers : At(d, "insert") => call[d].handle.chan \in Channels
    BY DEF TypeOK, At, CallsAreTidy, ActiveCall, Handle
  <1>8. TypeOK'
    BY <1>3, <1>4, <1>5 DEF TypeOK
  <1>9. CallsAreTidy'
    BY <1>1, <1>5 DEF CallsAreTidy
  <1>10. PendingFits'
    <2> SUFFICES ASSUME NEW d \in Callers, At(d, "insert")'
                 PROVE  /\ Fits(call[d].handle)'
                        /\ \A j \in Keys : ~Holds(j, call[d].handle.chan)'
                        /\ \A e \in Callers : e # d => ~IsInserting(e, call[d].handle.chan)'
      BY DEF PendingFits
    <2>1. d # c /\ call'[d] = call[d] /\ At(d, "insert")
      BY <1>5 DEF At
    <2>2. h # None => call[d].handle.chan # h.chan
      BY <1>1, <2>1 DEF PendingFits, Holds, h
    <2>3. Fits(call[d].handle)'
      BY <1>3, <1>7, <2>1, <2>2 DEF PendingFits, Fits, Runs
    <2>4. \A j \in Keys : ~Holds(j, call[d].handle.chan)'
      BY <1>4, <2>1 DEF PendingFits, Holds
    <2>5. \A e \in Callers : e # d => ~IsInserting(e, call[d].handle.chan)'
      BY <1>5, <2>1 DEF PendingFits, IsInserting, At
    <2> QED
      BY <2>3, <2>4, <2>5
  <1>11. HandlesFit'
    <2>1. \A j \in Keys : proxies'[j] # None => /\ j # k
                                                /\ h # None => proxies[j].chan # h.chan
      BY <1>1, <1>4 DEF HandlesFit, Holds, h
    <2>2. \A j \in Keys : proxies'[j] # None => Fits(proxies[j])'
      BY <1>3, <1>4, <1>6, <2>1 DEF HandlesFit, Fits, Runs
    <2> QED
      BY <1>4, <2>2 DEF HandlesFit, Holds, Fits, Runs
  <1>12. NoLeak'
    <2> SUFFICES ASSUME NEW ch \in Channels, listener'[ch] # None, ~listener'[ch].told
                 PROVE  \/ \E j \in Keys : Holds(j, ch)'
                        \/ \E d \in Callers : IsInserting(d, ch)'
      BY DEF NoLeak
    <2>1. listener[ch] # None /\ ~(h # None /\ ch = h.chan)
      BY <1>3
    <2>2. listener'[ch] = listener[ch]
      BY <1>3, <2>1
    <2>3. CASE \E j \in Keys : Holds(j, ch)
      <3>1. PICK j \in Keys : Holds(j, ch)
        BY <2>3
      <3>2. j # k
        BY <2>1, <3>1 DEF Holds, h
      <3> QED
        BY <1>4, <3>1, <3>2 DEF Holds
    <2>4. CASE \E d \in Callers : IsInserting(d, ch)
      BY <1>1, <1>5, <2>4 DEF IsInserting, At
    <2> QED
      BY <2>1, <2>2, <2>3, <2>4 DEF NoLeak
  <1>13. PromiseInMap'
    <2> SUFFICES ASSUME NEW d \in Callers, NEW j \in Uses[d], Sole(d, j),
                        call'[d] # None => call'[d].key # j, promised'[j] # None
                 PROVE  proxies'[j] = promised'[j]
      BY DEF PromiseInMap, Sole
    <2>1. j \in Keys
      BY ProxyAssumption
    <2>2. j # k
      BY <1>1, <1>5 DEF Sole
    <2> QED
      BY <1>1, <1>4, <1>5, <2>1, <2>2 DEF PromiseInMap, k
  <1> QED
    BY <1>8, <1>9, <1>10, <1>11, <1>12, <1>13

\* A new listener, or none.
LEMMA BindKeeps ==
  ASSUME IInv, NEW c \in Callers, Bind(c)
  PROVE  IInv'
  <1> USE DEF IInv
  <1> DEFINE k == call[c].key
  <1>1. call[c] # None /\ call[c].pc = "bind" /\ k \in Uses[c] /\ k \in Keys
    BY DEF Bind, At, CallsAreTidy, TypeOK, ActiveCall
  <1>2. call[c].target \in Targets
    BY <1>1 DEF CallsAreTidy, TypeOK, ActiveCall
  <1>3. UNCHANGED proxies
    BY DEF Bind
  <1>4. CASE Return(c, None) /\ UNCHANGED <<listener, died>>
    <2> HIDE DEF k
    <2>1. /\ call' \in [Callers -> ActiveCall \cup {None}]
          /\ promised' \in [Keys -> Handle \cup {None}]
          /\ call'[c] = None
          /\ \A d \in Callers \ {c} : call'[d] = call[d]
          /\ promised'[k] = None
          /\ \A j \in Keys \ {k} : promised'[j] = promised[j]
      BY <1>1, <1>4, ReturnOne DEF k
    <2>2. TypeOK'
      BY <1>3, <1>4, <2>1 DEF TypeOK
    <2>3. CallsAreTidy'
      BY <2>1 DEF CallsAreTidy
    <2>4. PendingFits'
      BY <1>3, <1>4, <2>1 DEF PendingFits, At, Fits, Runs, Holds, IsInserting
    <2>5. HandlesFit'
      BY <1>3, <1>4 DEF HandlesFit, Fits, Runs, Holds
    <2>6. NoLeak'
      BY <1>1, <1>3, <1>4, <2>1 DEF NoLeak, At, Holds, IsInserting
    <2>7. PromiseInMap'
      <3> SUFFICES ASSUME NEW d \in Callers, NEW j \in Uses[d], Sole(d, j),
                          call'[d] # None => call'[d].key # j, promised'[j] # None
                   PROVE  proxies[j] = promised'[j]
        BY <1>3 DEF PromiseInMap, Sole
      <3>1. j \in Keys /\ j # k
        BY <2>1, ProxyAssumption
      <3> QED
        BY <2>1, <3>1 DEF PromiseInMap, k
    <2> QED
      BY <2>2, <2>3, <2>4, <2>5, <2>6, <2>7
  <1>5. CASE ~(Return(c, None) /\ UNCHANGED <<listener, died>>)
    <2>1. PICK p \in Ports, ch \in Channels :
             /\ IsFresh(ch)
             /\ listener' = [listener EXCEPT ![ch] =
                   [port |-> p, target |-> call[c].target, told |-> FALSE]]
             /\ died' = died \ {ch}
             /\ GoTo(c, "insert", [chan |-> ch, port |-> p, target |-> call[c].target])
             /\ UNCHANGED promised
      BY <1>5 DEF Bind
    <2>2. PICK new \in Handle, l \in Listener :
            /\ new.chan = ch /\ new.port = p /\ new.target = call[c].target
            /\ l = [port |-> p, target |-> call[c].target, told |-> FALSE]
            /\ GoTo(c, "insert", new)
            /\ listener' = [listener EXCEPT ![ch] = l]
      <3> DEFINE u == [chan |-> ch, port |-> p, target |-> call[c].target]
                 v == [port |-> p, target |-> call[c].target, told |-> FALSE]
      <3>1. u \in Handle /\ v \in Listener
        BY <1>2 DEF Handle, Listener
      <3> QED
        BY <2>1, <3>1
    <2>3. "insert" \in Steps
      BY DEF Steps
    <2> HIDE DEF k
    <2>4. new # None /\ l # None
      BY <2>2, NoneIsNothing
    <2>5. /\ call' \in [Callers -> ActiveCall \cup {None}]
          /\ call'[c] # None /\ call'[c].pc = "insert" /\ call'[c].handle = new
          /\ call'[c].key = k /\ call'[c].target = call[c].target
          /\ \A d \in Callers \ {c} : call'[d] = call[d]
      BY <1>1, <2>2, <2>3, GoToOne DEF k
    <2>6. /\ listener' \in [Channels -> Listener \cup {None}]
          /\ listener'[ch] = l
          /\ \A e \in Channels \ {ch} : listener'[e] = listener[e]
      BY <2>2 DEF TypeOK
    <2>7. /\ \A j \in Keys : proxies[j] # None => proxies[j].chan # ch
          /\ \A d \in Callers : At(d, "insert") => call[d].handle.chan # ch
      BY <2>1 DEF IsFresh, At, CallsAreTidy
    <2>8. /\ \A j \in Keys : proxies[j] # None => proxies[j].chan \in Channels
          /\ \A d \in Callers : At(d, "insert") => call[d].handle.chan \in Channels
      BY DEF TypeOK, At, CallsAreTidy, ActiveCall, Handle
    <2>9. TypeOK'
      BY <1>3, <2>1, <2>5, <2>6 DEF TypeOK
    <2>10. CallsAreTidy'
      BY <1>1, <1>2, <2>4, <2>5, ProxyAssumption DEF CallsAreTidy
    <2>11. PendingFits'
      <3>1. Fits(new)'
        BY <2>2, <2>6 DEF Fits, Runs
      <3>2. \A d \in Callers \ {c} : At(d, "insert")' => Fits(call[d].handle)'
        BY <2>1, <2>5, <2>6, <2>7, <2>8 DEF PendingFits, Fits, Runs, At
      <3>3. \A d \in Callers : At(d, "insert")' => \A j \in Keys : ~Holds(j, call[d].handle.chan)'
        BY <1>3, <2>2, <2>5, <2>7 DEF PendingFits, At, Holds
      <3>4. \A d, e \in Callers : At(d, "insert")' /\ e # d =>
               ~IsInserting(e, call[d].handle.chan)'
        BY <2>2, <2>5, <2>7 DEF PendingFits, At, IsInserting
      <3> QED
        BY <2>5, <3>1, <3>2, <3>3, <3>4 DEF PendingFits
    <2>12. HandlesFit'
      BY <1>3, <2>1, <2>6, <2>7, <2>8 DEF HandlesFit, Fits, Runs, Holds
    <2>13. NoLeak'
      <3> SUFFICES ASSUME NEW e \in Channels, listener'[e] # None, ~listener'[e].told
                   PROVE  \/ \E j \in Keys : Holds(j, e)'
                          \/ \E d \in Callers : IsInserting(d, e)'
        BY DEF NoLeak
      <3>1. CASE e = ch
        BY <2>2, <2>5, <3>1 DEF IsInserting, At
      <3>2. CASE e # ch
        BY <1>1, <1>3, <2>5, <2>6, <3>2 DEF NoLeak, IsInserting, At, Holds
      <3> QED
        BY <3>1, <3>2
    <2>14. PromiseInMap'
      BY <1>1, <1>3, <2>1, <2>5 DEF PromiseInMap, Sole, k
    <2> QED
      BY <2>9, <2>10, <2>11, <2>12, <2>13, <2>14
  <1> QED
    BY <1>4, <1>5

\* The handle goes into the map and the call returns.
LEMMA InsertHandleKeeps ==
  ASSUME IInv, NEW c \in Callers, InsertHandle(c)
  PROVE  IInv'
  <1> USE DEF IInv
  <1>1. PICK k \in Keys, old \in Handle \cup {None}, new \in Handle :
          k = call[c].key /\ old = proxies[k] /\ new = call[c].handle
    BY DEF InsertHandle, At, CallsAreTidy, TypeOK, ActiveCall
  <1>2. call[c] # None /\ call[c].pc = "insert" /\ k \in Uses[c] /\ new # None
    BY <1>1, NoneIsNothing DEF InsertHandle, At, CallsAreTidy
  <1>3. Tell(old) /\ Return(c, new)
    BY <1>1 DEF InsertHandle
  <1>4. /\ listener' \in [Channels -> Listener \cup {None}]
        /\ \A ch \in Channels : (listener'[ch] = None) <=> (listener[ch] = None)
        /\ \A ch \in Channels : old = None \/ ch # old.chan => listener'[ch] = listener[ch]
        /\ \A ch \in Channels : listener[ch] # None =>
              (old # None /\ ch = old.chan => listener'[ch].told)
        /\ UNCHANGED died
    BY <1>3, TellOne DEF InsertHandle
  <1>5. /\ proxies' \in [Keys -> Handle \cup {None}]
        /\ proxies'[k] = new
        /\ \A j \in Keys \ {k} : proxies'[j] = proxies[j]
    BY <1>1 DEF InsertHandle, TypeOK
  <1>6. /\ call' \in [Callers -> ActiveCall \cup {None}]
        /\ promised' \in [Keys -> Handle \cup {None}]
        /\ call'[c] = None
        /\ \A d \in Callers \ {c} : call'[d] = call[d]
        /\ promised'[k] = new
        /\ \A j \in Keys \ {k} : promised'[j] = promised[j]
    BY <1>1, <1>2, <1>3, ReturnOne
  <1>7. /\ \A j \in Keys : proxies[j] # None => proxies[j].chan \in Channels
        /\ \A d \in Callers : At(d, "insert") => call[d].handle.chan \in Channels
    BY DEF TypeOK, At, CallsAreTidy, ActiveCall, Handle
  <1>8. /\ Fits(new) /\ new.chan \in Channels
        /\ \A j \in Keys : ~Holds(j, new.chan)
        /\ \A d \in Callers \ {c} : ~IsInserting(d, new.chan)
    BY <1>1, <1>2, <1>7 DEF PendingFits, At
  <1>9. old # None => old.chan # new.chan
    BY <1>1, <1>8 DEF Holds
  <1>10. TypeOK'
    BY <1>4, <1>5, <1>6 DEF TypeOK
  <1>11. CallsAreTidy'
    BY <1>6 DEF CallsAreTidy
  <1>12. PendingFits'
    <2> SUFFICES ASSUME NEW d \in Callers, At(d, "insert")'
                 PROVE  /\ Fits(call[d].handle)'
                        /\ \A j \in Keys : ~Holds(j, call[d].handle.chan)'
                        /\ \A e \in Callers : e # d => ~IsInserting(e, call[d].handle.chan)'
      BY DEF PendingFits
    <2>1. d # c /\ call'[d] = call[d] /\ At(d, "insert")
      BY <1>6 DEF At
    <2>2. old # None => call[d].handle.chan # old.chan
      BY <1>1, <2>1 DEF PendingFits, Holds
    <2>3. Fits(call[d].handle)'
      BY <1>4, <1>7, <2>1, <2>2 DEF PendingFits, Fits, Runs
    <2>4. \A j \in Keys : ~Holds(j, call[d].handle.chan)'
      BY <1>5, <1>8, <2>1 DEF PendingFits, Holds, IsInserting
    <2>5. \A e \in Callers : e # d => ~IsInserting(e, call[d].handle.chan)'
      BY <1>6, <2>1 DEF PendingFits, IsInserting, At
    <2> QED
      BY <2>3, <2>4, <2>5
  <1>13. HandlesFit'
    <2>1. Fits(new)'
      BY <1>4, <1>8, <1>9 DEF Fits, Runs
    <2>2. \A j \in Keys \ {k} : proxies[j] # None /\ old # None => proxies[j].chan # old.chan
      BY <1>1 DEF HandlesFit, Holds
    <2>3. \A j \in Keys \ {k} : proxies'[j] # None => Fits(proxies[j])'
      BY <1>4, <1>5, <1>7, <2>2 DEF HandlesFit, Fits, Runs
    <2>4. \A j \in Keys : proxies'[j] # None => Fits(proxies[j])'
      BY <1>5, <2>1, <2>3 DEF Fits, Runs
    <2> QED
      BY <1>5, <1>8, <2>4 DEF HandlesFit, Holds, Fits, Runs
  <1>14. NoLeak'
    <2> SUFFICES ASSUME NEW ch \in Channels, listener'[ch] # None, ~listener'[ch].told
                 PROVE  \/ \E j \in Keys : Holds(j, ch)'
                        \/ \E d \in Callers : IsInserting(d, ch)'
      BY DEF NoLeak
    <2>1. listener[ch] # None /\ ~(old # None /\ ch = old.chan)
      BY <1>4
    <2>2. listener'[ch] = listener[ch]
      BY <1>4, <2>1
    <2>3. CASE \E j \in Keys : Holds(j, ch)
      <3>1. PICK j \in Keys : Holds(j, ch)
        BY <2>3
      <3>2. j # k
        BY <1>1, <2>1, <3>1 DEF Holds
      <3> QED
        BY <1>5, <3>1, <3>2 DEF Holds
    <2>4. CASE \E d \in Callers \ {c} : IsInserting(d, ch)
      BY <1>6, <2>4 DEF IsInserting, At
    <2>5. CASE IsInserting(c, ch)
      BY <1>1, <1>2, <1>5, <2>5 DEF IsInserting, Holds
    <2> QED
      BY <2>1, <2>2, <2>3, <2>4, <2>5 DEF NoLeak
  <1>15. PromiseInMap'
    <2> SUFFICES ASSUME NEW d \in Callers, NEW j \in Uses[d], Sole(d, j),
                        call'[d] # None => call'[d].key # j, promised'[j] # None
                 PROVE  proxies'[j] = promised'[j]
      BY DEF PromiseInMap, Sole
    <2>1. j \in Keys
      BY ProxyAssumption
    <2>2. CASE j = k
      BY <1>5, <1>6, <2>2
    <2>3. CASE j # k
      BY <1>1, <1>5, <1>6, <2>1, <2>3 DEF PromiseInMap
    <2> QED
      BY <2>2, <2>3
  <1> QED
    BY <1>10, <1>11, <1>12, <1>13, <1>14, <1>15

\* A listener ends: only one that was told to, or one that dies.
LEMMA EndKeeps ==
  ASSUME IInv, NEW ch \in Channels, EndListener(ch) \/ ListenerDies(ch)
  PROVE  IInv'
  <1> USE DEF IInv
  <1>1. /\ listener' = [listener EXCEPT ![ch] = None]
        /\ (listener[ch].told /\ died' = died) \/ died' = died \cup {ch}
        /\ UNCHANGED <<proxies, call, promised>>
    BY DEF EndListener, ListenerDies
  <1>2. /\ listener' \in [Channels -> Listener \cup {None}]
        /\ \A e \in Channels : listener'[e] # None => listener'[e] = listener[e]
    BY <1>1 DEF TypeOK
  <1>3. /\ \A j \in Keys : proxies[j] # None => proxies[j].chan \in Channels
        /\ \A d \in Callers : At(d, "insert") => call[d].handle.chan \in Channels
    BY DEF TypeOK, At, CallsAreTidy, ActiveCall, Handle
  <1>4. TypeOK'
    BY <1>1, <1>2 DEF TypeOK
  <1>5. CallsAreTidy'
    BY <1>1 DEF CallsAreTidy
  <1>10. ASSUME NEW h, h.chan \in Channels, Fits(h) PROVE Fits(h)'
    <2>1. CASE h.chan \in died
      BY <1>1, <2>1 DEF Fits
    <2>2. CASE Runs(h) /\ h.chan # ch
      BY <1>1, <2>2 DEF Fits, Runs, TypeOK
    <2>3. CASE Runs(h) /\ h.chan = ch
      BY <1>1, <2>3 DEF Fits, Runs
    <2> QED
      BY <1>10, <2>1, <2>2, <2>3 DEF Fits
  <1>6. PendingFits'
    BY <1>1, <1>3, <1>10 DEF PendingFits, At, Holds, IsInserting
  <1>7. HandlesFit'
    BY <1>1, <1>3, <1>10 DEF HandlesFit, Holds
  <1>8. NoLeak'
    BY <1>1, <1>2 DEF NoLeak, At, Holds, IsInserting
  <1>9. PromiseInMap'
    BY <1>1 DEF PromiseInMap, Sole
  <1> QED
    BY <1>4, <1>5, <1>6, <1>7, <1>8, <1>9

\* The invariant is inductive.
LEMMA Inductive == IInv /\ [Next]_vars => IInv'
  <1> SUFFICES ASSUME IInv, [Next]_vars PROVE IInv'
    OBVIOUS
  <1>1. CASE \E c \in Callers : Call(c) \/ Proceed(c)
    BY <1>1, CallKeeps, CheckRunningKeeps, RemoveHandleKeeps, BindKeeps, InsertHandleKeeps
       DEF Proceed
  <1>2. CASE \E ch \in Channels : EndListener(ch) \/ ListenerDies(ch)
    BY <1>2, EndKeeps
  <1>3. CASE UNCHANGED vars
    BY <1>3 DEF vars, IInv, TypeOK, CallsAreTidy, PendingFits, HandlesFit, NoLeak,
                PromiseInMap, At, Fits, Runs, Holds, IsInserting, Sole
  <1> QED
    BY <1>1, <1>2, <1>3 DEF Next

\* Whatever the callers do, the invariant holds.
LEMMA Invariance == Spec => []IInv
  BY InitIInv, Inductive, PTL DEF Spec

\* Every variable stays in its range.
THEOREM ProxyTypes == Spec => []TypeOK
  <1>1. IInv => TypeOK
    BY DEF IInv
  <1> QED
    BY <1>1, Invariance, PTL

\* No interleaving of ensure_proxy and stop_proxy calls leaves a listener that
\* nobody can stop, not even when two owners work on one key.
THEOREM NoListenerLeaks == Spec => []NoLeak
  <1>1. IInv => NoLeak
    BY DEF IInv
  <1> QED
    BY <1>1, Invariance, PTL

\* A handle in the map always speaks of a listener of its own, which nobody has
\* told to stop: it runs with that port and that target, or died of an error.
THEOREM MapIsTruthful == Spec => []HandlesFit
  <1>1. IInv => HandlesFit
    BY DEF IInv
  <1> QED
    BY <1>1, Invariance, PTL

\* What ensure_proxy answered to the only owner of a key stays true until that
\* owner calls again or the listener dies of an error.
THEOREM PromisesAreKept == Spec => []PromiseKept
  <1>1. IInv => PromiseKept
    <2> SUFFICES ASSUME IInv, NEW c \in Callers, NEW k \in Uses[c], Sole(c, k),
                        call[c] # None => call[c].key # k, promised[k] # None
                 PROVE  proxies[k] = promised[k] /\ Fits(promised[k])
      BY DEF PromiseKept, Fits
    <2>1. k \in Keys
      BY ProxyAssumption
    <2>2. proxies[k] = promised[k]
      BY DEF IInv, PromiseInMap
    <2> QED
      BY <2>1, <2>2 DEF IInv, HandlesFit
  <1> QED
    BY <1>1, Invariance, PTL

-----------------------------------------------------------------------------
(* The UDP relay: its types, and the agreement of the client map with the    *)
(* relay tasks.                                                              *)

\* A task at another step is a task of the same client.
LEMMA TaskTurns ==
  ASSUME NEW r \in Relay, NEW step \in {"receive", "old", "leave"},
         NEW q, q = [r EXCEPT !.pc = step]
  PROVE  /\ q \in Relay
         /\ q # NoRelay
         /\ q.client = r.client
  BY UdpAssumption DEF Relay

\* Every variable of the UDP relay stays in its range.
THEOREM UdpTypes == UdpSpec => []UdpTypeOK
<1>1. UdpInit => UdpTypeOK
  <2> SUFFICES ASSUME UdpInit PROVE UdpTypeOK
    OBVIOUS
  <2>1. told \in BOOLEAN /\ quiet \in BOOLEAN /\ parses \in BOOLEAN
    BY Zenon DEF UdpInit
  <2>2. loop \in {"runs", "ended"} /\ udpFaults \in 0..MaxUdpFaults
    BY UdpAssumption DEF UdpInit
  <2>3. /\ clients \in [Clients -> Sockets \cup {NoSocket}]
        /\ relay \in [Sockets -> Relay \cup {NoRelay}]
        /\ hand \in Datagram \cup {NoDatagram}
        /\ inbox \subseteq Clients /\ waiting \subseteq Clients
        /\ asked \subseteq Sockets /\ answers \subseteq Sockets
    BY DEF UdpInit
  <2> QED
    BY <2>1, <2>2, <2>3 DEF UdpTypeOK
<1>2. ASSUME UdpTypeOK, [UdpNext]_udpVars PROVE UdpTypeOK'
  <2> USE UdpAssumption DEF UdpTypeOK, UdpFault
  <2>1. ASSUME NEW c \in Clients, Send(c) PROVE UdpTypeOK'
    BY <1>2, <2>1 DEF Send
  <2>2. ASSUME NEW s \in Sockets, TargetAnswers(s) PROVE UdpTypeOK'
    BY <1>2, <2>2 DEF TargetAnswers
  <2>3. CASE DatagramIsLost
    BY <1>2, <2>3 DEF DatagramIsLost
  <2>4. CASE Shutdown
    BY <1>2, <2>4 DEF Shutdown
  <2>5. ASSUME NEW c \in Clients, Receive(c) PROVE UdpTypeOK'
    <3>3. CASE UNCHANGED <<hand, clients, relay, udpFaults>>
      BY <1>2, <2>5, <3>3 DEF Receive
    <3>1. CASE clients[c] # NoSocket /\ TakesSocket(c, clients[c])
               /\ UNCHANGED <<clients, relay, udpFaults>>
      BY <1>2, <2>5, <3>1 DEF Receive, TakesSocket, Datagram
    <3>2. CASE NewClient(c)
      <4>2. CASE UdpFault /\ UNCHANGED <<hand, clients, relay>>
        BY <1>2, <2>5, <4>2 DEF Receive
      <4>3. ASSUME NEW s \in Sockets,
                   clients' = [clients EXCEPT ![c] = s],
                   relay' = [relay EXCEPT ![s] = [client |-> c, pc |-> "receive"]],
                   TakesSocket(c, s),
                   UNCHANGED udpFaults
            PROVE UdpTypeOK'
        BY <1>2, <2>5, <4>3 DEF Receive, TakesSocket, Datagram, Relay
      <4> QED
        BY <3>2, <4>2, <4>3 DEF NewClient
    <3> QED
      BY <2>5, <3>1, <3>2, <3>3 DEF Receive
  <2>6. CASE Forward
    BY <1>2, <2>6 DEF Forward, Datagram
  <2>7. CASE LoopEnds
    BY <1>2, <2>7 DEF LoopEnds
  <2>8. CASE LoopFails
    BY <1>2, <2>8 DEF LoopFails
  <2>9. ASSUME NEW s \in Sockets, Task(s) PROVE UdpTypeOK'
    <3>1. ASSUME NEW step \in {"receive", "old", "leave"}, Turns(s, step), relay[s] # NoRelay
          PROVE relay' \in [Sockets -> Relay \cup {NoRelay}]
      BY <1>2, <3>1, TaskTurns DEF Turns
    <3>2. CASE CarryBack(s)
      BY <1>2, <3>1, <3>2 DEF CarryBack, Reading, RelayAt
    <3>3. CASE GrowsOld(s)
      BY <1>2, <3>1, <3>3 DEF GrowsOld, RelayAt
    <3>4. CASE IdleTooLong(s)
      BY <1>2, <3>1, <3>4 DEF IdleTooLong, RelayAt
    <3>5. CASE RemoveEntry(s)
      BY <1>2, <3>5 DEF RemoveEntry, RelayAt
    <3> QED
      BY <2>9, <3>2, <3>3, <3>4, <3>5 DEF Task
  <2>10. CASE UNCHANGED udpVars
    BY <1>2, <2>10 DEF udpVars
  <2>11. CASE FallsQuiet
    BY <1>2, <2>11, Zenon DEF FallsQuiet
  <2>12. ASSUME NEW s \in Sockets, CarryUnasked(s) \/ TaskFails(s) PROVE UdpTypeOK'
    <3>1. ASSUME NEW step \in {"receive", "leave"}, Turns(s, step)
          PROVE relay' \in [Sockets -> Relay \cup {NoRelay}]
      BY <1>2, <2>12, <3>1, TaskTurns DEF Turns, CarryUnasked, TaskFails, Reading, RelayAt
    <3> QED
      BY <1>2, <2>12, <3>1 DEF CarryUnasked, TaskFails
  <2> QED
    BY <1>2, <2>1, <2>2, <2>3, <2>4, <2>5, <2>6, <2>7, <2>8, <2>9, <2>10, <2>11, <2>12
       DEF UdpNext, Loop
<1> QED
  BY <1>1, <1>2, PTL DEF UdpSpec

\* The map and the tasks agree in every step: a new client takes a socket that
\* no task reads, and a task removes the entry that leads to it.
LEMMA MapStep ==
  ASSUME UdpTypeOK, EntriesAreServed, [UdpNext]_udpVars
  PROVE  EntriesAreServed'
<1> USE DEF EntriesAreServed
<1>1. CASE UNCHANGED <<clients, relay>>
  BY <1>1
<1>2. ASSUME NEW c \in Clients, Receive(c), clients[c] = NoSocket, NEW s \in Sockets,
             relay[s] = NoRelay,
             clients' = [clients EXCEPT ![c] = s],
             relay' = [relay EXCEPT ![s] = [client |-> c, pc |-> "receive"]]
      PROVE EntriesAreServed'
  <2>1. [client |-> c, pc |-> "receive"] # NoRelay
    BY UdpAssumption DEF Relay
  <2>2. ASSUME NEW d \in Clients, clients'[d] # NoSocket
        PROVE relay'[clients'[d]] # NoRelay /\ relay'[clients'[d]].client = d
    BY <1>2, <2>1, <2>2 DEF UdpTypeOK
  <2>3. ASSUME NEW t \in Sockets, relay'[t] # NoRelay PROVE clients'[relay'[t].client] = t
    <3>1. CASE t = s
      BY <1>2, <3>1 DEF UdpTypeOK
    <3>2. CASE t # s
      <4>1. relay'[t] = relay[t]
        BY <1>2, <3>2 DEF UdpTypeOK
      <4>2. relay[t].client \in Clients
        BY <2>3, <4>1 DEF UdpTypeOK, Relay
      <4>3. clients[relay[t].client] = t
        BY <2>3, <4>1
      <4>4. relay[t].client # c
        BY <1>2, <4>3, UdpAssumption
      <4> QED
        BY <1>2, <4>1, <4>2, <4>3, <4>4 DEF UdpTypeOK
    <3> QED
      BY <3>1, <3>2
  <2> QED
    BY <2>2, <2>3
<1>3. ASSUME NEW s \in Sockets, NEW step \in {"receive", "old", "leave"}, relay[s] # NoRelay,
             Turns(s, step), UNCHANGED clients
      PROVE EntriesAreServed'
  <2>1. relay[s] \in Relay /\ relay'[s] = [relay[s] EXCEPT !.pc = step]
    BY <1>3 DEF Turns, UdpTypeOK
  <2>2. relay'[s] # NoRelay /\ relay'[s].client = relay[s].client
    <3>1. PICK r \in Relay : r = relay[s]
      BY <2>1
    <3>2. PICK q : q = relay'[s]
      OBVIOUS
    <3>3. q = [r EXCEPT !.pc = step]
      BY <2>1, <3>1, <3>2
    <3>4. q # NoRelay /\ q.client = r.client
      BY <3>3, TaskTurns, Zenon
    <3> QED
      BY <3>1, <3>2, <3>4
  <2>3. \A t \in Sockets \ {s} : relay'[t] = relay[t]
    BY <1>3 DEF Turns, UdpTypeOK
  <2> QED
    BY <1>3, <2>2, <2>3 DEF UdpTypeOK
<1>4. ASSUME NEW s \in Sockets, RemoveEntry(s) PROVE EntriesAreServed'
  <2>1. relay[s] # NoRelay /\ relay[s].client \in Clients
    BY <1>4 DEF RemoveEntry, RelayAt, UdpTypeOK, Relay
  <2>2. PICK c \in Clients : c = relay[s].client
    BY <2>1
  <2>3. /\ clients[c] = s
        /\ clients' = [clients EXCEPT ![c] = NoSocket]
        /\ relay' = [relay EXCEPT ![s] = NoRelay]
    BY <1>4, <2>1, <2>2 DEF RemoveEntry
  <2>4. ASSUME NEW d \in Clients, clients'[d] # NoSocket
        PROVE relay'[clients'[d]] # NoRelay /\ relay'[clients'[d]].client = d
    <3>1. d # c /\ clients'[d] = clients[d]
      BY <2>3, <2>4 DEF UdpTypeOK
    <3>2. clients[d] \in Sockets /\ relay[clients[d]].client = d
      BY <2>4, <3>1 DEF UdpTypeOK
    <3>3. clients[d] # s
      BY <2>2, <3>1, <3>2
    <3> QED
      BY <2>3, <2>4, <3>1, <3>2, <3>3 DEF UdpTypeOK
  <2>5. ASSUME NEW t \in Sockets, relay'[t] # NoRelay PROVE clients'[relay'[t].client] = t
    <3>1. t # s /\ relay'[t] = relay[t]
      BY <2>3, <2>5 DEF UdpTypeOK
    <3>2. relay[t].client \in Clients /\ clients[relay[t].client] = t
      BY <2>5, <3>1 DEF UdpTypeOK, Relay
    <3>3. relay[t].client # c
      BY <2>3, <3>1, <3>2
    <3> QED
      BY <2>3, <3>1, <3>2, <3>3 DEF UdpTypeOK
  <2> QED
    BY <2>4, <2>5
<1>5. ASSUME NEW c \in Clients, Receive(c) PROVE EntriesAreServed'
  <2>1. CASE UNCHANGED <<clients, relay>>
    BY <1>1, <2>1
  <2>2. CASE clients[c] = NoSocket /\ NewClient(c)
    BY <1>1, <1>2, <1>5, <2>2 DEF NewClient
  <2> QED
    BY <1>5, <2>1, <2>2 DEF Receive
<1>6. ASSUME NEW s \in Sockets, Task(s) PROVE EntriesAreServed'
  <2>1. CASE CarryBack(s)
    BY <1>3, <2>1 DEF CarryBack, Reading, RelayAt
  <2>2. CASE GrowsOld(s)
    BY <1>3, <2>2 DEF GrowsOld, RelayAt
  <2>3. CASE IdleTooLong(s)
    BY <1>3, <2>3 DEF IdleTooLong, RelayAt
  <2> QED
    BY <1>4, <1>6, <2>1, <2>2, <2>3 DEF Task
<1>7. ASSUME UNCHANGED udpVars \/ DatagramIsLost \/ Shutdown \/ Forward \/ LoopEnds \/ LoopFails
             \/ FallsQuiet
      PROVE EntriesAreServed'
  BY <1>1, <1>7 DEF udpVars, FallsQuiet, DatagramIsLost, Shutdown, Forward, LoopEnds, LoopFails
<1>8. ASSUME NEW c \in Clients, Send(c) PROVE EntriesAreServed'
  BY <1>1, <1>8 DEF Send
<1>9. ASSUME NEW s \in Sockets, TargetAnswers(s) PROVE EntriesAreServed'
  BY <1>1, <1>9 DEF TargetAnswers
<1>10. ASSUME NEW s \in Sockets, CarryUnasked(s) \/ TaskFails(s) PROVE EntriesAreServed'
  BY <1>3, <1>10 DEF CarryUnasked, TaskFails, Reading, RelayAt
<1> QED
  BY <1>5, <1>6, <1>7, <1>8, <1>9, <1>10 DEF UdpNext, Loop

\* In every reachable state the client map and the relay tasks agree.
THEOREM EntriesServed == UdpSpec => []EntriesAreServed
<1>1. UdpInit => EntriesAreServed
  BY DEF UdpInit, EntriesAreServed
<1>2. UdpTypeOK /\ EntriesAreServed /\ [UdpNext]_udpVars => EntriesAreServed'
  BY MapStep
<1> QED
  BY <1>1, <1>2, UdpTypes, PTL DEF UdpSpec

=============================================================================
