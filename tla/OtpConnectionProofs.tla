-------------------------- MODULE OtpConnectionProofs --------------------------
(***************************************************************************)
(* Proofs about OtpConnection, for any number of transports, addresses and *)
(* queued timer handlers: the types, that a stopped transport never        *)
(* reports a connection, and the four invariants of regular behaviours.    *)
(***************************************************************************)
EXTENDS OtpConnection, TLAPS

\* What the handlers of a step of the handshake move on to is a state.
LEMMA AfterSuccessType ==
  ASSUME NEW s \in DOMAIN AfterSuccess
  PROVE  /\ s \in States /\ s \notin {"CS_INIT", "CS_WAIT_RESOLVE", "CS_CONNECTED"}
         /\ AfterSuccess[s] \in States
         /\ AfterSuccess[s] \notin {"CS_INIT", "CS_WAIT_RESOLVE", "CS_CONNECTED"}
BY DEF AfterSuccess, States

\* The states that are named in the actions.
LEMMA NamedStates ==
  {"CS_INIT", "CS_WAIT_RESOLVE", "CS_WAIT_EPMD_CONNECT", "CS_WAIT_EPMD_WRITE_DONE",
   "CS_WAIT_CHALLENGE", "CS_WAIT_CHALLENGE_ACK", "CS_CONNECTED"} \subseteq States
BY DEF AfterSuccess, States

\* CheckAsserts adds nothing but the names of the two assertions.
LEMMA CheckAssertsType ==
  ASSUME TypeOK, NEW t \in Transports,
         \/ CheckAsserts({StateAssert(t)})
         \/ CheckAsserts({StateAssert(t), TransportAssert(t)})
  PROVE  asserts_failed' \subseteq {"m_state", "m_transport"}
<1>1. /\ StateAssert(t)[1] = "m_state"
      /\ TransportAssert(t)[1] = "m_transport"
  BY DEF StateAssert, TransportAssert
<1>2. asserts_failed' \subseteq asserts_failed \cup {StateAssert(t)[1], TransportAssert(t)[1]}
  BY DEF CheckAsserts
<1>3. asserts_failed \subseteq {"m_state", "m_transport"}
  BY DEF TypeOK
<1> QED
  BY <1>1, <1>2, <1>3

\* CheckAsserts adds nothing when the assertions hold.
LEMMA CheckAssertsHold ==
  ASSUME NEW t \in Transports, asserts_failed = {}, state[t] = pending[t], transport = t,
         \/ CheckAsserts({StateAssert(t)})
         \/ CheckAsserts({StateAssert(t), TransportAssert(t)})
  PROVE  asserts_failed' = {}
<1>1. StateAssert(t)[2] /\ TransportAssert(t)[2]
  BY DEF StateAssert, TransportAssert
<1> QED
  BY <1>1 DEF CheckAsserts
-----------------------------------------------------------------------------
\* A handler that fails keeps the types.
LEMMA FailType ==
  ASSUME TypeOK, NEW t \in Transports, NEW s \in States, FailIn(t, s)
  PROVE  TypeOK'
<1>1. asserts_failed' \subseteq {"m_state", "m_transport"}
  BY CheckAssertsType DEF FailIn
<1>2. pending' \in [Transports -> States] /\ state' \in [Transports -> States]
  BY NamedStates DEF FailIn, TypeOK
<1> QED
  BY <1>1, <1>2 DEF FailIn, TypeOK, on_connect_failure, reconnect

\* A handler that goes on with an operation that expects state s keeps the types of
\* what it assigns.
LEMMA ProceedType ==
  ASSUME TypeOK, NEW t \in Transports, NEW s \in States, Proceed(t, s),
         CheckAsserts({StateAssert(t)})
  PROVE  /\ state' \in [Transports -> States]
         /\ pending' \in [Transports -> States]
         /\ socket_open' \in [Transports -> BOOLEAN]
         /\ aborted' \in [Transports -> BOOLEAN]
         /\ asserts_failed' \subseteq {"m_state", "m_transport"}
<1>1. Opens(s) \in BOOLEAN
  BY DEF Opens
<1>2. socket_open' \in [Transports -> BOOLEAN]
  BY <1>1, Zenon DEF Proceed, TypeOK
<1> QED
  BY <1>2, CheckAssertsType DEF Proceed, TypeOK

\* stop() keeps the types of what it assigns.
LEMMA StopType ==
  ASSUME TypeOK, NEW t \in Transports, NEW a \in BOOLEAN, stop(t, a)
  PROVE  /\ state' \in [Transports -> States]
         /\ socket_open' \in [Transports -> BOOLEAN]
         /\ aborted' \in [Transports -> BOOLEAN]
         /\ transport' \in Transports \cup {NoTransport}
         /\ connected' \in BOOLEAN
         /\ timer_armed' \in BOOLEAN
BY NamedStates DEF stop, on_disconnect, reconnect, TypeOK

\* The types hold in every state, for every number of transports.
THEOREM TypeCorrect == Spec => []TypeOK
<1>1. ASSUME Init PROVE TypeOK
  <2>1. 0 \in 0..MaxFired /\ 0 \in 0..MaxEndpoints
    BY ConnectionAssumption
  <2>2. state \in [Transports -> States]
    BY <1>1, NamedStates DEF Init
  <2>3. regular \in BOOLEAN
    <3>1. regular = (reconnect_secs > 0)
      BY <1>1 DEF Init
    <3>2. (reconnect_secs > 0) \in BOOLEAN
      OBVIOUS
    <3> QED
      BY <3>1, <3>2, Zenon
  <2> QED
    BY <1>1, <2>1, <2>2, <2>3 DEF Init, TypeOK
<1>2. TypeOK /\ [Next]_vars => TypeOK'
  <2> SUFFICES ASSUME TypeOK, [Next]_vars
               PROVE  TypeOK'
    OBVIOUS
  <2>1. ASSUME NEW t \in Transports, handle_resolve(t)
        PROVE  TypeOK'
    <3>1. CASE Fail(t)
      BY <3>1, FailType DEF Fail, TypeOK
    <3>2. CASE /\ Proceed(t, "CS_WAIT_EPMD_CONNECT") /\ CheckAsserts({StateAssert(t)})
               /\ \E n \in 0..MaxEndpoints : endpoints' = [endpoints EXCEPT ![t] = n]
               /\ UNCHANGED <<connVars, reconnect_secs, timer_fired, regular>>
      <4>1. "CS_WAIT_EPMD_CONNECT" \in States
        BY NamedStates
      <4>2. endpoints' \in [Transports -> 0..MaxEndpoints]
        BY <3>2 DEF TypeOK
      <4> QED
        BY <3>2, <4>1, <4>2, ProceedType DEF TypeOK, connVars
    <3> QED
      BY <2>1, <3>1, <3>2 DEF handle_resolve
  <2>2. ASSUME NEW t \in Transports, handle_epmd_connect(t)
        PROVE  TypeOK'
    <3>1. CASE Fail(t)
      BY <3>1, FailType DEF Fail, TypeOK
    <3>2. CASE Proceed(t, "CS_WAIT_EPMD_WRITE_DONE") /\ CheckAsserts({StateAssert(t)})
               /\ UNCHANGED <<connVars, endpoints, reconnect_secs, timer_fired, regular>>
      <4>1. "CS_WAIT_EPMD_WRITE_DONE" \in States
        BY NamedStates
      <4> QED
        BY <3>2, <4>1, ProceedType DEF TypeOK, connVars
    <3>3. CASE /\ endpoints[t] > 0
               /\ endpoints' = [endpoints EXCEPT ![t] = @ - 1]
               /\ socket_open' = [socket_open EXCEPT ![t] = TRUE]
               /\ CheckAsserts({StateAssert(t)})
               /\ UNCHANGED <<connVars, state, aborted, pending, reconnect_secs,
                              timer_fired, regular>>
      <4>1. endpoints[t] - 1 \in 0..MaxEndpoints
        BY <3>3, ConnectionAssumption DEF TypeOK
      <4>2. endpoints' \in [Transports -> 0..MaxEndpoints]
        BY <3>3, <4>1 DEF TypeOK
      <4> QED
        BY <3>3, <4>2, CheckAssertsType DEF TypeOK, connVars
    <3> QED
      BY <2>2, <3>1, <3>2, <3>3 DEF handle_epmd_connect
  <2>3. ASSUME NEW t \in Transports, handle_step(t)
        PROVE  TypeOK'
    <3>1. CASE Fail(t)
      BY <3>1, FailType DEF Fail, TypeOK
    <3>2. CASE Proceed(t, AfterSuccess[pending[t]]) /\ CheckAsserts({StateAssert(t)})
               /\ UNCHANGED <<connVars, endpoints, reconnect_secs, timer_fired, regular>>
      <4>1. AfterSuccess[pending[t]] \in States
        BY <2>3, AfterSuccessType DEF handle_step
      <4> QED
        BY <3>2, <4>1, ProceedType DEF TypeOK, connVars
    <3> QED
      BY <2>3, <3>1, <3>2 DEF handle_step
  <2>4. ASSUME NEW t \in Transports, handle_challenge_ack(t)
        PROVE  TypeOK'
    <3>1. CASE Fail(t)
      BY <3>1, FailType DEF Fail, TypeOK
    <3>2. CASE /\ state' = [state EXCEPT ![t] = "CS_CONNECTED"]
               /\ \/ /\ pending' = [pending EXCEPT ![t] = "CS_INIT"]
                     /\ CheckAsserts({StateAssert(t)})
                     /\ UNCHANGED connVars
                  \/ /\ on_connect(t)
                     /\ pending' = [pending EXCEPT ![t] = "CS_CONNECTED"]
                     /\ CheckAsserts({StateAssert(t), TransportAssert(t)})
               /\ UNCHANGED <<aborted, socket_open, endpoints, reconnect_secs,
                              timer_fired, regular>>
      <4>1. state' \in [Transports -> States] /\ pending' \in [Transports -> States]
        BY <3>2, NamedStates DEF TypeOK
      <4>2. UNCHANGED <<transport, abort, timer_armed>> /\ connected' \in BOOLEAN
        BY <3>2 DEF on_connect, connVars, TypeOK
      <4> QED
        BY <3>2, <4>1, <4>2, CheckAssertsType DEF TypeOK
    <3> QED
      BY <2>4, <3>1, <3>2 DEF handle_challenge_ack
  <2>5. ASSUME NEW t \in Transports, handle_read_error(t)
        PROVE  TypeOK'
    <3>1. pending' \in [Transports -> States]
      BY <2>5, NamedStates DEF handle_read_error, TypeOK
    <3>2. abort \in BOOLEAN
      BY DEF TypeOK
    <3> QED
      BY <2>5, <3>1, <3>2, StopType DEF handle_read_error, TypeOK, connVars
  <2>6. ASSUME NEW a \in BOOLEAN, disconnect(a)
        PROVE  TypeOK'
    <3>1. CASE transport \in Transports /\ stop(transport, a)
      BY <2>6, <3>1, StopType DEF disconnect, TypeOK
    <3>2. CASE transport = NoTransport
      BY <2>6, <3>2 DEF disconnect, TypeOK
    <3> QED
      BY <2>6, <3>1, <3>2 DEF disconnect, TypeOK
  <2>7. ASSUME NEW secs \in Timeouts, reconnect_timeout(secs)
        PROVE  TypeOK'
    BY <2>7 DEF reconnect_timeout, TypeOK, connVars, transVars
  <2>8. CASE timer_expires
    <3>1. timer_fired' \in 0..MaxFired
      BY <2>8, ConnectionAssumption DEF timer_expires, TypeOK
    <3> QED
      BY <2>8, <3>1 DEF timer_expires, TypeOK, transVars
  <2>9. CASE timer_reconnect
    <3>1. timer_fired' \in 0..MaxFired /\ 0 \in 0..MaxEndpoints
      BY <2>9, ConnectionAssumption DEF timer_reconnect, TypeOK
    <3>2. PICK t \in Transports : create(t)
      BY <2>9 DEF timer_reconnect
    <3>3. state' \in [Transports -> States] /\ pending' \in [Transports -> States]
      BY <3>2, NamedStates DEF create, TypeOK
    <3> QED
      BY <2>9, <3>1, <3>2, <3>3 DEF timer_reconnect, create, TypeOK
  <2>10. CASE UNCHANGED vars
    BY <2>10 DEF vars, connVars, transVars, TypeOK
  <2>11. ASSUME NEW t \in Transports, handle_status_and_challenge(t)
        PROVE  TypeOK'
    <3> DEFINE s == AfterSuccess["CS_WAIT_CHALLENGE"]
    <3>1. s \in States /\ "CS_WAIT_CHALLENGE" \in States
      BY AfterSuccessType, NamedStates DEF AfterSuccess
    <3>2. CASE FailIn(t, "CS_WAIT_CHALLENGE")
      BY <3>1, <3>2, FailType
    <3>3. CASE Proceed(t, s) /\ CheckAsserts({StateAssert(t)})
               /\ UNCHANGED <<connVars, endpoints, reconnect_secs, timer_fired, regular>>
      <4> HIDE DEF s
      <4> QED
        BY <3>1, <3>3, ProceedType DEF TypeOK, connVars
    <3> QED
      BY <2>11, <3>2, <3>3 DEF handle_status_and_challenge
  <2> QED
    BY <2>1, <2>2, <2>3, <2>4, <2>5, <2>6, <2>7, <2>8, <2>9, <2>10, <2>11 DEF Next, Handlers
<1> QED
  BY <1>1, <1>2, PTL DEF Spec
-----------------------------------------------------------------------------
(***************************************************************************)
(* The invariant behind the theorems about regular behaviours.  None of    *)
(* the four properties is inductive by itself: that a failing handler      *)
(* belongs to the current transport needs Working, that a new transport    *)
(* replaces none that works needs Resting, and that m_connected is right   *)
(* after a handler of a stopped transport needs Stopped.                   *)
(***************************************************************************)
Works(t) == pending[t] # "CS_INIT"

\* A transport that works and was not stopped is the current one, and is in the
\* state that its handler asserts.
Working == \A t \in Transports :
             Works(t) /\ ~aborted[t] => t = transport /\ state[t] = pending[t]

\* Only an established transport is ever stopped, the current one was not.
Stopped == \A t \in Transports :
             aborted[t] => t # transport /\ pending[t] \in {"CS_INIT", "CS_CONNECTED"}

\* One timer at most, and only when the current transport, if any, is at rest.
Resting ==
  /\ timer_fired <= 1
  /\ timer_fired > 0 => ~timer_armed
  /\ timer_armed \/ timer_fired > 0 => transport = NoTransport \/ ~Works(transport)

Regular ==
  /\ reconnect_secs > 0
  /\ Working
  /\ Stopped
  /\ Resting
  /\ connected <=> Established(transport)
  /\ abort \/ timer_armed \/ timer_fired > 0 \/ (transport # NoTransport /\ Works(transport))
  /\ asserts_failed = {}

RegularInv == TypeOK /\ (regular => Regular)

\* A transport in the middle of its attempt is the current one and was not stopped;
\* no timer is under way, and it is not connected.
LEMMA AttemptIsCurrent ==
  ASSUME TypeOK, Regular, NEW t \in Transports, pending[t] \notin {"CS_INIT", "CS_CONNECTED"}
  PROVE  /\ t = transport
         /\ ~aborted[t]
         /\ state[t] = pending[t]
         /\ ~timer_armed /\ timer_fired = 0
         /\ ~connected
<1>1. ~aborted[t]
  BY DEF Regular, Stopped
<1>2. t = transport /\ state[t] = pending[t]
  BY <1>1 DEF Regular, Working, Works
<1>3. ~timer_armed /\ ~(timer_fired > 0)
  BY <1>2, ConnectionAssumption DEF Regular, Resting, Works
<1>4. timer_fired = 0
  BY <1>3, ConnectionAssumption DEF TypeOK
<1>5. ~connected
  BY <1>2 DEF Regular, Established
<1> QED
  BY <1>1, <1>2, <1>3, <1>4, <1>5

\* A failed attempt leaves its transport at rest and the timer armed.
LEMMA FailRegular ==
  ASSUME TypeOK, Regular, NEW t \in Transports,
         pending[t] \notin {"CS_INIT", "CS_CONNECTED"}, NEW s, FailIn(t, s)
  PROVE  Regular'
<1>1. /\ t = transport
      /\ ~aborted[t]
      /\ state[t] = pending[t]
      /\ ~timer_armed /\ timer_fired = 0
      /\ ~connected
  BY AttemptIsCurrent
<1>2. /\ pending' = [pending EXCEPT ![t] = "CS_INIT"]
      /\ state' = [state EXCEPT ![t] = s]
      /\ UNCHANGED <<aborted, timer_fired, reconnect_secs, transport, abort>>
      /\ ~connected'
      /\ timer_armed' = IF abort \/ reconnect_secs <= 0 THEN timer_armed ELSE TRUE
  BY DEF FailIn, on_connect_failure, reconnect
<1>3. asserts_failed' = {}
  BY <1>1, CheckAssertsHold DEF FailIn, Regular
<1>4. pending'[t] = "CS_INIT" /\ \A u \in Transports : u # t => pending'[u] = pending[u]
  BY <1>2 DEF TypeOK
<1>5. reconnect_secs \in Nat
  BY ConnectionAssumption DEF TypeOK
<1>6. Working' /\ Stopped'
  BY <1>2, <1>4 DEF Regular, Working, Stopped, Works
<1>7. Resting'
  BY <1>1, <1>2, <1>4 DEF Regular, Resting, Works
<1>8. ~Established(transport)'
  BY <1>1, <1>2, <1>4 DEF Established
<1>9. abort' \/ timer_armed'
  BY <1>2, <1>5 DEF Regular
<1> QED
  BY <1>2, <1>3, <1>6, <1>7, <1>8, <1>9 DEF Regular

\* An attempt that goes on stays the attempt of the current transport.
LEMMA ProceedRegular ==
  ASSUME TypeOK, Regular, NEW t \in Transports,
         pending[t] \notin {"CS_INIT", "CS_CONNECTED"}, NEW s \in States,
         s \notin {"CS_INIT", "CS_CONNECTED"},
         state' = [state EXCEPT ![t] = s], pending' = [pending EXCEPT ![t] = s],
         CheckAsserts({StateAssert(t)}),
         UNCHANGED <<connVars, aborted, timer_fired, reconnect_secs>>
  PROVE  Regular'
<1>1. /\ t = transport
      /\ ~aborted[t]
      /\ state[t] = pending[t]
      /\ ~timer_armed /\ timer_fired = 0
      /\ ~connected
  BY AttemptIsCurrent
<1>2. UNCHANGED <<transport, connected, abort, timer_armed>>
  BY DEF connVars
<1>3. asserts_failed' = {}
  BY <1>1, CheckAssertsHold DEF Regular
<1>4. /\ pending'[t] = s /\ state'[t] = s
      /\ \A u \in Transports : u # t => pending'[u] = pending[u] /\ state'[u] = state[u]
  BY DEF TypeOK
<1>5. Working' /\ Stopped'
  BY <1>1, <1>2, <1>4 DEF Regular, Working, Stopped, Works
<1>6. Resting'
  BY <1>1, <1>2 DEF Resting
<1>7. ~Established(transport)'
  BY <1>1, <1>2, <1>4 DEF Established
<1>8. transport' # NoTransport /\ Works(transport)'
  BY <1>1, <1>2, <1>4, ConnectionAssumption DEF Works
<1> QED
  BY <1>1, <1>2, <1>3, <1>5, <1>6, <1>7, <1>8 DEF Regular

\* Stopping the established transport leaves none, and a timer unless that is for good.
LEMMA StopRegular ==
  ASSUME TypeOK, Regular, Established(transport), NEW a \in BOOLEAN, abort' = a,
         stop(transport, a), UNCHANGED <<timer_fired, reconnect_secs, asserts_failed>>,
         \/ UNCHANGED pending
         \/ pending' = [pending EXCEPT ![transport] = "CS_INIT"]
  PROVE  Regular'
<1>1. /\ transport \in Transports
      /\ pending[transport] = "CS_CONNECTED"
      /\ ~aborted[transport]
  BY DEF Established, TypeOK
<1>2. ~timer_armed /\ ~(timer_fired > 0)
  BY <1>1, ConnectionAssumption DEF Regular, Resting, Works
<1>3. /\ aborted' = [aborted EXCEPT ![transport] = TRUE]
      /\ state' = [state EXCEPT ![transport] = "CS_INIT"]
      /\ transport' = NoTransport
      /\ ~connected'
      /\ timer_armed' = IF a \/ reconnect_secs <= 0 THEN timer_armed ELSE TRUE
  BY <1>1 DEF stop, on_disconnect, reconnect
<1>4. /\ aborted'[transport] /\ pending'[transport] \in {"CS_INIT", "CS_CONNECTED"}
      /\ \A u \in Transports : u # transport =>
           /\ pending'[u] = pending[u] /\ state'[u] = state[u]
           /\ aborted'[u] = aborted[u]
  BY <1>1, <1>3 DEF TypeOK
<1>5. reconnect_secs \in Nat /\ timer_fired \in Nat
  BY ConnectionAssumption DEF TypeOK
<1>6. Working'
  BY <1>3, <1>4 DEF Regular, Working, Works
<1>7. Stopped'
  BY <1>3, <1>4, ConnectionAssumption DEF Regular, Stopped
<1>8. Resting'
  BY <1>2, <1>3, <1>5 DEF Resting
<1>9. ~Established(transport)'
  BY <1>3 DEF Established
<1>10. abort' \/ timer_armed'
  BY <1>3, <1>5 DEF Regular
<1> QED
  BY <1>3, <1>6, <1>7, <1>8, <1>9, <1>10 DEF Regular

\* The peer is authenticated: the current transport becomes the established one.
LEMMA AckRegular ==
  ASSUME TypeOK, Regular, NEW t \in Transports, handle_challenge_ack(t)
  PROVE  Regular'
<1>1. pending[t] \notin {"CS_INIT", "CS_CONNECTED"}
  BY DEF handle_challenge_ack
<1>2. CASE Fail(t)
  BY <1>1, <1>2, FailRegular DEF Fail
<1>3. CASE ~Fail(t)
  <2>1. /\ t = transport
        /\ ~aborted[t]
        /\ state[t] = pending[t]
        /\ ~timer_armed /\ timer_fired = 0
    BY <1>1, AttemptIsCurrent
  <2>2. /\ state' = [state EXCEPT ![t] = "CS_CONNECTED"]
        /\ pending' = [pending EXCEPT ![t] = "CS_CONNECTED"]
        /\ on_connect(t)
        /\ CheckAsserts({StateAssert(t), TransportAssert(t)})
        /\ UNCHANGED <<aborted, reconnect_secs, timer_fired>>
    BY <1>3, <2>1 DEF handle_challenge_ack
  <2>3. connected' /\ UNCHANGED <<transport, abort, timer_armed>>
    BY <2>2 DEF on_connect
  <2>4. asserts_failed' = {}
    BY <2>1, <2>2, CheckAssertsHold DEF Regular
  <2>5. /\ pending'[t] = "CS_CONNECTED" /\ state'[t] = "CS_CONNECTED"
        /\ \A u \in Transports : u # t => pending'[u] = pending[u] /\ state'[u] = state[u]
    BY <2>2 DEF TypeOK
  <2>6. Working' /\ Stopped'
    BY <2>1, <2>2, <2>3, <2>5 DEF Regular, Working, Stopped, Works
  <2>7. Resting'
    BY <2>1, <2>2, <2>3 DEF Resting
  <2>8. Established(transport)' /\ transport' # NoTransport /\ Works(transport)'
    BY <2>1, <2>2, <2>3, <2>5, ConnectionAssumption DEF Established, Works
  <2> QED
    BY <2>2, <2>3, <2>4, <2>6, <2>7, <2>8 DEF Regular
<1> QED
  BY <1>2, <1>3

\* The handler of an expired timer creates a transport when none works.
LEMMA CreateRegular ==
  ASSUME TypeOK, Regular, timer_reconnect
  PROVE  Regular'
<1>1. PICK t \in Transports : Free(t) /\ create(t)
  BY DEF timer_reconnect
<1>2. /\ timer_fired > 0 /\ timer_fired' = timer_fired - 1
      /\ UNCHANGED <<connected, abort, timer_armed, reconnect_secs, asserts_failed>>
      /\ transport' = t
      /\ state' = [state EXCEPT ![t] = "CS_WAIT_RESOLVE"]
      /\ aborted' = [aborted EXCEPT ![t] = FALSE]
      /\ pending' = [pending EXCEPT ![t] = "CS_WAIT_RESOLVE"]
  BY <1>1 DEF timer_reconnect, create
<1>3. timer_fired' = 0 /\ ~timer_armed'
  BY <1>2, ConnectionAssumption DEF TypeOK, Regular, Resting
<1>4. /\ pending'[t] = "CS_WAIT_RESOLVE" /\ state'[t] = "CS_WAIT_RESOLVE" /\ ~aborted'[t]
      /\ \A u \in Transports : u # t =>
           /\ pending'[u] = pending[u] /\ state'[u] = state[u]
           /\ aborted'[u] = aborted[u]
  BY <1>2 DEF TypeOK
<1>5. transport = NoTransport \/ ~Works(transport)
  BY <1>2 DEF Regular, Resting
<1>6. ~connected'
  BY <1>2, <1>5 DEF Regular, Established, Works
<1>7. Working'
  BY <1>2, <1>4, <1>5, ConnectionAssumption DEF Regular, Working, Works
<1>8. Stopped'
  BY <1>2, <1>4 DEF Regular, Stopped
<1>9. Resting'
  BY <1>3 DEF Resting
<1>10. ~Established(transport)' /\ transport' # NoTransport /\ Works(transport)'
  BY <1>2, <1>4, ConnectionAssumption DEF Established, Works
<1> QED
  BY <1>2, <1>6, <1>7, <1>8, <1>9, <1>10 DEF Regular

\* Every handler, timer and call of the user keeps the invariant of regular
\* behaviours: one step of the proof per action.
LEMMA RegularStep ==
  ASSUME RegularInv, [Next]_vars, regular'
  PROVE  Regular'
<1> USE DEF RegularInv
<1>1. ASSUME NEW t \in Transports, handle_resolve(t)
      PROVE  Regular'
  <2>1. regular /\ pending[t] \notin {"CS_INIT", "CS_CONNECTED"}
    BY <1>1 DEF handle_resolve, Fail, FailIn
  <2>2. CASE Fail(t)
    BY <2>1, <2>2, FailRegular DEF Fail
  <2>3. CASE ~Fail(t)
    <3>1. /\ Proceed(t, "CS_WAIT_EPMD_CONNECT") /\ CheckAsserts({StateAssert(t)})
          /\ UNCHANGED <<connVars, timer_fired, reconnect_secs>>
      BY <1>1, <2>3 DEF handle_resolve
    <3> QED
      BY <2>1, <3>1, ProceedRegular, NamedStates DEF Proceed
  <2> QED
    BY <2>2, <2>3
<1>2. ASSUME NEW t \in Transports, handle_epmd_connect(t)
      PROVE  Regular'
  <2>1. regular /\ pending[t] = "CS_WAIT_EPMD_CONNECT"
    BY <1>2 DEF handle_epmd_connect, Fail, FailIn
  <2>2. CASE Fail(t)
    BY <2>1, <2>2, FailRegular DEF Fail
  <2>3. CASE Proceed(t, "CS_WAIT_EPMD_WRITE_DONE") /\ CheckAsserts({StateAssert(t)})
             /\ UNCHANGED <<connVars, timer_fired, reconnect_secs>>
    BY <2>1, <2>3, ProceedRegular, NamedStates DEF Proceed
  <2>4. CASE /\ CheckAsserts({StateAssert(t)})
             /\ UNCHANGED <<connVars, state, aborted, pending, reconnect_secs, timer_fired>>
    <3>1. state[t] = "CS_WAIT_EPMD_CONNECT"
      BY <2>1, AttemptIsCurrent
    <3>2. /\ state' = [state EXCEPT ![t] = "CS_WAIT_EPMD_CONNECT"]
          /\ pending' = [pending EXCEPT ![t] = "CS_WAIT_EPMD_CONNECT"]
      BY <2>1, <2>4, <3>1 DEF TypeOK
    <3> QED
      BY <2>1, <2>4, <3>2, ProceedRegular, NamedStates
  <2> QED
    BY <1>2, <2>2, <2>3, <2>4 DEF handle_epmd_connect
<1>3. ASSUME NEW t \in Transports, handle_step(t)
      PROVE  Regular'
  <2>1. regular /\ pending[t] \notin {"CS_INIT", "CS_CONNECTED"}
    BY <1>3, AfterSuccessType DEF handle_step, Fail, FailIn
  <2>2. CASE Fail(t)
    BY <2>1, <2>2, FailRegular DEF Fail
  <2>3. CASE Proceed(t, AfterSuccess[pending[t]]) /\ CheckAsserts({StateAssert(t)})
             /\ UNCHANGED <<connVars, timer_fired, reconnect_secs>>
    <3>1. /\ AfterSuccess[pending[t]] \in States
          /\ AfterSuccess[pending[t]] \notin {"CS_INIT", "CS_CONNECTED"}
      BY <1>3, AfterSuccessType DEF handle_step
    <3> QED
      BY <2>1, <2>3, <3>1, ProceedRegular DEF Proceed
  <2> QED
    BY <1>3, <2>2, <2>3 DEF handle_step
<1>4. ASSUME NEW t \in Transports, handle_challenge_ack(t)
      PROVE  Regular'
  BY <1>4, AckRegular DEF handle_challenge_ack, Fail, FailIn
<1>5. ASSUME NEW t \in Transports, handle_read_error(t)
      PROVE  Regular'
  <2>1. regular /\ pending[t] = "CS_CONNECTED" /\ pending' = [pending EXCEPT ![t] = "CS_INIT"]
        /\ UNCHANGED <<reconnect_secs, timer_fired, asserts_failed>>
    BY <1>5 DEF handle_read_error
  <2>2. CASE aborted[t]
    <3>1. UNCHANGED <<transport, connected, abort, timer_armed, state, aborted>>
      BY <1>5, <2>2 DEF handle_read_error, connVars, stop
    <3>2. t # transport /\ pending'[t] = "CS_INIT"
          /\ \A u \in Transports : u # t => pending'[u] = pending[u]
      BY <2>1, <2>2 DEF Regular, Stopped, TypeOK
    <3>3. Working' /\ Stopped'
      BY <2>1, <3>1, <3>2 DEF Regular, Working, Stopped, Works
    <3>4. transport \in Transports => pending'[transport] = pending[transport]
      BY <3>2
    <3>5. Resting'
      BY <2>1, <3>1, <3>4 DEF Regular, Resting, Works, TypeOK
    <3>6. Established(transport)' <=> Established(transport)
      BY <3>1, <3>4 DEF Established, TypeOK
    <3> QED
      BY <2>1, <3>1, <3>3, <3>4, <3>5, <3>6 DEF Regular, Works, TypeOK
  <2>3. CASE ~aborted[t]
    <3>1. stop(t, abort) /\ abort' = abort /\ abort \in BOOLEAN
      BY <1>5, <2>3 DEF handle_read_error, TypeOK
    <3>2. t = transport
      BY <2>1, <2>3 DEF Regular, Working, Works
    <3>3. Established(transport)
      BY <2>1, <2>3, <3>2, ConnectionAssumption DEF Established
    <3> QED
      BY <2>1, <3>1, <3>2, <3>3, StopRegular
  <2> QED
    BY <2>2, <2>3
<1>6. ASSUME NEW a \in BOOLEAN, disconnect(a)
      PROVE  Regular'
  <2>1. regular /\ connected
    BY <1>6 DEF disconnect
  <2>2. Established(transport)
    BY <2>1 DEF Regular
  <2> QED
    BY <1>6, <2>1, <2>2, StopRegular DEF disconnect, Established
<1>7. ASSUME NEW secs \in Timeouts, reconnect_timeout(secs)
      PROVE  Regular'
  <2>1. regular /\ reconnect_secs' > 0
        /\ UNCHANGED <<transport, connected, abort, timer_armed, timer_fired, state,
                       aborted, pending, asserts_failed>>
    BY <1>7 DEF reconnect_timeout, connVars, transVars
  <2> QED
    BY <2>1 DEF Regular, Working, Stopped, Resting, Works, Established
<1>8. CASE timer_expires
  <2>1. regular /\ timer_armed /\ ~timer_armed' /\ timer_fired' = timer_fired + 1
        /\ UNCHANGED <<transport, connected, abort, state, aborted, pending,
                       reconnect_secs, asserts_failed>>
    BY <1>8 DEF timer_expires, transVars
  <2>2. timer_fired' = 1
    BY <2>1, ConnectionAssumption DEF Regular, Resting, TypeOK
  <2> QED
    BY <2>1, <2>2 DEF Regular, Working, Stopped, Resting, Works, Established
<1>9. CASE timer_reconnect
  BY <1>9, CreateRegular DEF timer_reconnect
<1>10. CASE UNCHANGED vars
  BY <1>10 DEF vars, connVars, transVars, Regular, Working, Stopped, Resting, Works, Established
<1>11. ASSUME NEW t \in Transports, handle_status_and_challenge(t)
      PROVE  Regular'
  <2> DEFINE s == AfterSuccess["CS_WAIT_CHALLENGE"]
  <2>1. regular /\ pending[t] \notin {"CS_INIT", "CS_CONNECTED"}
    BY <1>11 DEF handle_status_and_challenge, FailIn
  <2>2. CASE FailIn(t, "CS_WAIT_CHALLENGE")
    BY <2>1, <2>2, FailRegular
  <2>3. CASE Proceed(t, s) /\ CheckAsserts({StateAssert(t)})
             /\ UNCHANGED <<connVars, timer_fired, reconnect_secs>>
    <3>1. s \in States /\ s \notin {"CS_INIT", "CS_CONNECTED"}
      BY AfterSuccessType DEF AfterSuccess
    <3> HIDE DEF s
    <3> QED
      BY <2>1, <2>3, <3>1, ProceedRegular DEF Proceed
  <2> QED
    BY <1>11, <2>2, <2>3 DEF handle_status_and_challenge
<1> QED
  BY <1>1, <1>2, <1>3, <1>4, <1>5, <1>6, <1>7, <1>8, <1>9, <1>10, <1>11 DEF Next, Handlers

\* The invariant of regular behaviours holds in every state.
LEMMA RegularCorrect == Spec => []RegularInv
<1>1. ASSUME Init, TypeOK PROVE RegularInv
  <2>1. PICK first \in Transports :
          /\ transport = first
          /\ state = [t \in Transports |-> IF t = first THEN "CS_WAIT_RESOLVE" ELSE "CS_INIT"]
          /\ aborted = [t \in Transports |-> FALSE]
          /\ pending = state
          /\ ~connected /\ ~timer_armed /\ timer_fired = 0 /\ asserts_failed = {}
          /\ regular = (reconnect_secs > 0)
    BY <1>1 DEF Init
  <2>2. regular => reconnect_secs > 0
    BY <2>1, Zenon
  <2>3. Working /\ Stopped /\ Resting
    BY <2>1, ConnectionAssumption DEF Working, Stopped, Resting, Works
  <2>4. ~Established(transport) /\ transport # NoTransport /\ Works(transport)
    BY <2>1, ConnectionAssumption DEF Works, Established
  <2> QED
    BY <1>1, <2>1, <2>2, <2>3, <2>4 DEF RegularInv, Regular
<1>2. RegularInv /\ TypeOK' /\ [Next]_vars => RegularInv'
  BY RegularStep DEF RegularInv
<1> QED
  BY <1>1, <1>2, TypeCorrect, PTL DEF Spec

(***************************************************************************)
(* m_connected, what send() does with a message and the established        *)
(* transport agree in every regular behaviour.                             *)
(***************************************************************************)
THEOREM ConnectedCorrect == Spec => []ConnectedMeansEstablished
<1>1. RegularInv => ConnectedMeansEstablished
  BY DEF RegularInv, Regular, ConnectedMeansEstablished, send, Established
<1> QED
  BY <1>1, RegularCorrect, PTL

\* No reconnect leaves an earlier transport working next to the current one.
THEOREM NoOrphanCorrect == Spec => []NoOrphan
<1>1. RegularInv => NoOrphan
  BY DEF RegularInv, Regular, Working, Works, NoOrphan
<1> QED
  BY <1>1, RegularCorrect, PTL

\* A connection that was not given up is up, under way or has a timer.
THEOREM NeverStrandedCorrect == Spec => []NeverStranded
<1>1. RegularInv => NeverStranded
  BY DEF RegularInv, Regular, Works, NeverStranded
<1> QED
  BY <1>1, RegularCorrect, PTL

\* The assertions of the handlers on m_state and m_transport never fail.
THEOREM AssertsCorrect == Spec => []AssertsHold
<1>1. RegularInv => AssertsHold
  BY DEF RegularInv, Regular, AssertsHold
<1> QED
  BY <1>1, RegularCorrect, PTL

(***************************************************************************)
(* In every behaviour, regular or not, a transport that was stopped does   *)
(* not get connected by a resolver or a handshake that comes back late.    *)
(***************************************************************************)
THEOREM SilenceCorrect == Spec => StoppedStaysSilent
<1>1. ASSUME TypeOK, [Next]_vars, NEW t \in Transports,
             aborted[t], pending[t] # "CS_CONNECTED"
      PROVE  pending'[t] # "CS_CONNECTED"
  <2>1. ASSUME NEW u \in Transports, Handlers(u)
        PROVE  pending'[t] # "CS_CONNECTED"
    <3>1. CASE Fail(u)
      BY <1>1, <3>1 DEF Fail, FailIn, TypeOK
    <3>2. CASE handle_status_and_challenge(u)
      <4>1. AfterSuccess["CS_WAIT_CHALLENGE"] # "CS_CONNECTED"
        BY DEF AfterSuccess
      <4> QED
        BY <1>1, <3>2, <4>1 DEF handle_status_and_challenge, FailIn, Proceed, TypeOK
    <3>3. CASE ~Fail(u) /\ ~handle_status_and_challenge(u)
      <4>1. AfterSuccess[pending[u]] # "CS_CONNECTED" \/ ~handle_step(u)
        BY AfterSuccessType DEF handle_step
      <4> QED
        BY <1>1, <2>1, <3>3, <4>1
        DEF Handlers, handle_resolve, handle_epmd_connect, handle_step,
            handle_challenge_ack, handle_read_error, Proceed, TypeOK
    <3> QED
      BY <3>1, <3>2, <3>3
  <2>2. ASSUME NEW a \in BOOLEAN, disconnect(a)
        PROVE  pending'[t] # "CS_CONNECTED"
    BY <1>1, <2>2 DEF disconnect
  <2>3. CASE \/ \E secs \in Timeouts : reconnect_timeout(secs)
             \/ timer_expires
             \/ UNCHANGED vars
    BY <1>1, <2>3 DEF reconnect_timeout, timer_expires, vars, transVars
  <2>4. CASE timer_reconnect
    BY <1>1, <2>4 DEF timer_reconnect, create, TypeOK
  <2> QED
    BY <1>1, <2>1, <2>2, <2>3, <2>4 DEF Next
<1>2. TypeOK /\ [Next]_vars =>
        [\A t \in Transports :
           aborted[t] /\ pending[t] # "CS_CONNECTED" => pending'[t] # "CS_CONNECTED"]_vars
  BY <1>1
<1> QED
  BY <1>2, TypeCorrect, PTL DEF Spec, StoppedStaysSilent
=============================================================================
