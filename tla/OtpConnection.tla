----------------------------- MODULE OtpConnection -----------------------------
(***************************************************************************)
(* The life of a basic_otp_connection and of the transports it creates.    *)
(*                                                                         *)
(* A connection owns at most one transport at a time (m_transport).  A     *)
(* transport starts resolving the peer's address as soon as it is created  *)
(* and goes through one asynchronous operation after the other until the   *)
(* distribution handshake is done; its completion handlers hold a shared   *)
(* pointer to it, so it outlives m_transport as long as an operation is    *)
(* outstanding.  Failures and disconnects arm a timer that creates the     *)
(* next transport.  Everything here runs on the io_service thread, so an   *)
(* action is a whole handler.                                              *)
(*                                                                         *)
(* The build modelled is the one with NDEBUG: BOOST_ASSERT does nothing.   *)
(* The assertions that would have stopped a debug build are collected in   *)
(* the history variable asserts_failed.                                    *)
(***************************************************************************)
EXTENDS Naturals, FiniteSets

CONSTANTS
  Transports,     \* transport objects; one is free again when nobody holds it
  NoTransport,    \* the null m_transport
  Timeouts,       \* values of m_reconnect_secs, the initial one included
  MaxEndpoints,   \* bound: further addresses a host name resolves to
  MaxFired        \* bound: expired reconnect timers whose handler has not run

ASSUME ConnectionAssumption ==
  /\ NoTransport \notin Transports
  /\ Transports # {}
  /\ Timeouts \subseteq Nat /\ Timeouts # {}
  /\ MaxEndpoints \in Nat
  /\ MaxFired \in Nat \ {0}

VARIABLES
  transport,          \* m_transport
  connected,          \* m_connected
  abort,              \* m_abort
  reconnect_secs,     \* m_reconnect_secs
  timer_armed,        \* m_reconnect_timer has an asynchronous wait
  timer_fired,        \* waits that expired and whose handler is queued
  state,              \* m_state of every transport
  aborted,            \* m_connection_aborted of every transport
  socket_open,
  pending,            \* m_state asserted by the handler of the outstanding
                      \* operation, CS_INIT when there is none
  endpoints,          \* addresses handle_epmd_connect may still try
  asserts_failed,     \* history: the assertions that failed so far
  regular             \* history: disconnect() was called only while connected,
                      \* and there has been a reconnect interval all the time

connVars == <<transport, connected, abort, timer_armed>>
transVars == <<state, aborted, socket_open, pending, endpoints>>
vars == <<connVars, transVars, reconnect_secs, timer_fired, asserts_failed, regular>>

\* tcp_connection::connect_state, without CS_INIT and CS_CONNECTED: the state
\* set before an operation is started and the one set when it succeeds.
AfterSuccess ==
  [CS_WAIT_EPMD_WRITE_DONE            |-> "CS_WAIT_EPMD_REPLY",
   CS_WAIT_EPMD_REPLY                 |-> "CS_WAIT_CONNECT",
   CS_WAIT_CONNECT                    |-> "CS_WAIT_WRITE_CHALLENGE_DONE",
   CS_WAIT_WRITE_CHALLENGE_DONE       |-> "CS_WAIT_STATUS",
   CS_WAIT_STATUS                     |-> "CS_WAIT_CHALLENGE",
   CS_WAIT_CHALLENGE                  |-> "CS_WAIT_WRITE_CHALLENGE_REPLY_DONE",
   CS_WAIT_WRITE_CHALLENGE_REPLY_DONE |-> "CS_WAIT_CHALLENGE_ACK"]

States == DOMAIN AfterSuccess \cup
          {"CS_INIT", "CS_WAIT_RESOLVE", "CS_WAIT_EPMD_CONNECT",
           "CS_WAIT_CHALLENGE_ACK", "CS_CONNECTED"}

\* Nobody holds a shared pointer to the transport.
Free(t) == t # transport /\ pending[t] = "CS_INIT"
-----------------------------------------------------------------------------
\* connection::create and tcp_connection::connect: a new transport t replaces
\* m_transport and starts resolving the peer's address.
create(t) ==
  /\ transport' = t
  /\ state' = [state EXCEPT ![t] = "CS_WAIT_RESOLVE"]
  /\ aborted' = [aborted EXCEPT ![t] = FALSE]
  /\ socket_open' = [socket_open EXCEPT ![t] = FALSE]
  /\ pending' = [pending EXCEPT ![t] = "CS_WAIT_RESOLVE"]
  /\ endpoints' = [endpoints EXCEPT ![t] = 0]

\* The constructor of basic_otp_connection creates the first transport.
Init ==
  \E first \in Transports :
    /\ transport = first
    /\ connected = FALSE
    /\ abort = FALSE
    /\ reconnect_secs \in Timeouts
    /\ timer_armed = FALSE
    /\ timer_fired = 0
    /\ state = [t \in Transports |-> IF t = first THEN "CS_WAIT_RESOLVE" ELSE "CS_INIT"]
    /\ aborted = [t \in Transports |-> FALSE]
    /\ socket_open = [t \in Transports |-> FALSE]
    /\ pending = state
    /\ endpoints = [t \in Transports |-> 0]
    /\ asserts_failed = {}
    /\ regular = (reconnect_secs > 0)

\* reconnect(), with m_abort = a: setting the expiry time cancels an earlier
\* wait, but not one that has expired already.
reconnect(a) ==
  timer_armed' = IF a \/ reconnect_secs <= 0 THEN timer_armed ELSE TRUE

\* BOOST_ASSERTs: each pair is an assertion and whether it held.  They are
\* collected as long as the behaviour is regular.
CheckAsserts(checks) ==
  asserts_failed' = asserts_failed \cup {c[1] : c \in {d \in checks : regular /\ ~d[2]}}

\* m_state is the state the operation was started in, and m_transport.get() == a_con.
StateAssert(t) == <<"m_state", state[t] = pending[t]>>
TransportAssert(t) == <<"m_transport", transport = t>>

\* basic_otp_connection::on_connect.
on_connect(t) ==
  /\ connected' = TRUE
  /\ UNCHANGED <<transport, abort, timer_armed>>

\* Mutant: a failed attempt is not followed by another one.
mut_no_retry(t) ==
  /\ connected' = FALSE
  /\ UNCHANGED <<transport, abort, timer_armed>>

\* basic_otp_connection::on_connect_failure; m_transport is kept.
on_connect_failure(t) ==
  /\ connected' = FALSE
  /\ reconnect(abort)
  /\ UNCHANGED <<transport, abort>>

\* Mutant: m_connected is not reset.
mut_stays_connected(a) ==
  /\ transport' = NoTransport
  /\ reconnect(a)
  /\ UNCHANGED connected

\* Mutant: a lost connection is not followed by another attempt.
mut_no_reconnect(a) ==
  /\ connected' = FALSE
  /\ transport' = NoTransport
  /\ UNCHANGED timer_armed

\* basic_otp_connection::on_disconnect, with m_abort = a; m_transport is reset
\* whichever transport calls.
on_disconnect(a) ==
  /\ connected' = FALSE
  /\ transport' = NoTransport
  /\ reconnect(a)
-----------------------------------------------------------------------------
\* The operation of t comes back without an error: the socket is open, or stop()
\* closed it (and reset m_state) when the operation had already completed.
Succeeds(t) == socket_open[t] \/ state[t] # pending[t]

\* async_connect opens a socket that is closed.
Opens(c) == c \in {"CS_WAIT_EPMD_CONNECT", "CS_WAIT_CONNECT"}

\* Mutant: m_state is not advanced.
mut_same_state(t, c) ==
  /\ pending' = [pending EXCEPT ![t] = c]
  /\ socket_open' = [socket_open EXCEPT ![t] = @ \/ Opens(c)]
  /\ UNCHANGED <<state, aborted>>

\* The outstanding operation of t ends: the handler starts the one that expects
\* state c.
Proceed(t, c) ==
  /\ state' = [state EXCEPT ![t] = c]
  /\ pending' = [pending EXCEPT ![t] = c]
  /\ socket_open' = [socket_open EXCEPT ![t] = @ \/ Opens(c)]
  /\ UNCHANGED aborted

\* The handler reports the failure in state s, closes the socket and starts nothing.
FailIn(t, s) ==
  /\ on_connect_failure(t)
  /\ state' = [state EXCEPT ![t] = s]
  /\ pending' = [pending EXCEPT ![t] = "CS_INIT"]
  /\ socket_open' = [socket_open EXCEPT ![t] = FALSE]
  /\ CheckAsserts({StateAssert(t), TransportAssert(t)})
  /\ UNCHANGED <<aborted, endpoints, reconnect_secs, timer_fired, regular>>

Fail(t) == FailIn(t, state[t])

\* handle_resolve: stop() does not cancel the resolver, so a stopped transport
\* may still get an address and go on.
handle_resolve(t) ==
  /\ pending[t] = "CS_WAIT_RESOLVE"
  /\ \/ /\ Proceed(t, "CS_WAIT_EPMD_CONNECT")
        /\ \E n \in 0..MaxEndpoints : endpoints' = [endpoints EXCEPT ![t] = n]
        /\ CheckAsserts({StateAssert(t)})
        /\ UNCHANGED <<connVars, reconnect_secs, timer_fired, regular>>
     \/ Fail(t)

\* handle_epmd_connect: an error, a cancelled operation included, moves on to
\* the next address of the host if there is one.
handle_epmd_connect(t) ==
  /\ pending[t] = "CS_WAIT_EPMD_CONNECT"
  /\ \/ /\ Succeeds(t)
        /\ Proceed(t, "CS_WAIT_EPMD_WRITE_DONE")
        /\ CheckAsserts({StateAssert(t)})
        /\ UNCHANGED <<connVars, endpoints, reconnect_secs, timer_fired, regular>>
     \/ /\ endpoints[t] > 0
        /\ endpoints' = [endpoints EXCEPT ![t] = @ - 1]
        /\ socket_open' = [socket_open EXCEPT ![t] = TRUE]
        /\ CheckAsserts({StateAssert(t)})
        /\ UNCHANGED <<connVars, state, aborted, pending, reconnect_secs, timer_fired,
                       regular>>
     \/ /\ endpoints[t] = 0
        /\ Fail(t)

\* The handlers of the EPMD exchange, the connect to the node and the handshake:
\* an error, a malformed answer or a refusal of the peer is a failure.
handle_step(t) ==
  /\ pending[t] \in DOMAIN AfterSuccess
  /\ \/ /\ Succeeds(t)
        /\ Proceed(t, AfterSuccess[pending[t]])
        /\ CheckAsserts({StateAssert(t)})
        /\ UNCHANGED <<connVars, endpoints, reconnect_secs, timer_fired, regular>>
     \/ Fail(t)

\* handle_read_status_body, when the challenge was read together with the status:
\* the handlers of the challenge are called at once.
handle_status_and_challenge(t) ==
  /\ pending[t] = "CS_WAIT_STATUS"
  /\ Succeeds(t)
  /\ \/ /\ Proceed(t, AfterSuccess["CS_WAIT_CHALLENGE"])
        /\ CheckAsserts({StateAssert(t)})
        /\ UNCHANGED <<connVars, endpoints, reconnect_secs, timer_fired, regular>>
     \/ FailIn(t, "CS_WAIT_CHALLENGE")

\* Mutant: start() does not look at m_connection_aborted.
mut_start(t) ==
  /\ pending[t] = "CS_WAIT_CHALLENGE_ACK"
  /\ Succeeds(t)
  /\ state' = [state EXCEPT ![t] = "CS_CONNECTED"]
  /\ on_connect(t)
  /\ pending' = [pending EXCEPT ![t] = "CS_CONNECTED"]
  /\ CheckAsserts({StateAssert(t), TransportAssert(t)})
  /\ UNCHANGED <<aborted, socket_open, endpoints, reconnect_secs, timer_fired, regular>>

\* handle_read_challenge_ack_body: the peer is authenticated and start() calls
\* on_connect and starts reading, unless the transport was stopped (on a socket
\* that stop() closed it throws before it gets there).
handle_challenge_ack(t) ==
  /\ pending[t] = "CS_WAIT_CHALLENGE_ACK"
  /\ \/ /\ Succeeds(t)
        /\ state' = [state EXCEPT ![t] = "CS_CONNECTED"]
        /\ \/ /\ aborted[t]
              /\ pending' = [pending EXCEPT ![t] = "CS_INIT"]
              /\ CheckAsserts({StateAssert(t)})
              /\ UNCHANGED connVars
           \/ /\ ~aborted[t]
              /\ on_connect(t)
              /\ pending' = [pending EXCEPT ![t] = "CS_CONNECTED"]
              /\ CheckAsserts({StateAssert(t), TransportAssert(t)})
        /\ UNCHANGED <<aborted, socket_open, endpoints, reconnect_secs, timer_fired,
                       regular>>
     \/ Fail(t)
-----------------------------------------------------------------------------
\* Mutant: m_connection_aborted is not set.
mut_not_aborted(t, a) ==
  /\ socket_open' = [socket_open EXCEPT ![t] = FALSE]
  /\ state' = [state EXCEPT ![t] = "CS_INIT"]
  /\ UNCHANGED aborted
  /\ on_disconnect(a)

\* tcp_connection::stop and connection::stop on transport t, with m_abort = a:
\* the second and later calls only close the socket.
stop(t, a) ==
  /\ socket_open' = [socket_open EXCEPT ![t] = FALSE]
  /\ state' = [state EXCEPT ![t] = "CS_INIT"]
  /\ \/ /\ aborted[t]
        /\ UNCHANGED <<aborted, transport, connected, timer_armed>>
     \/ /\ ~aborted[t]
        /\ aborted' = [aborted EXCEPT ![t] = TRUE]
        /\ on_disconnect(a)

\* handle_read of an established connection: the peer is gone, or the socket was
\* closed by stop() and the read comes back with an error.
handle_read_error(t) ==
  /\ pending[t] = "CS_CONNECTED"
  /\ pending' = [pending EXCEPT ![t] = "CS_INIT"]
  /\ \/ /\ aborted[t]
        /\ UNCHANGED <<connVars, state, aborted, socket_open>>
     \/ /\ ~aborted[t]
        /\ stop(t, abort)
        /\ UNCHANGED abort
  /\ UNCHANGED <<endpoints, reconnect_secs, timer_fired, asserts_failed, regular>>

\* basic_otp_connection::disconnect, by the user or by basic_otp_node::close.
disconnect(a_permanent) ==
  /\ abort' = a_permanent
  /\ regular' = (regular /\ connected)
  /\ \/ /\ transport # NoTransport
        /\ stop(transport, a_permanent)
     \/ /\ transport = NoTransport
        /\ UNCHANGED <<transport, connected, timer_armed, state, aborted, socket_open>>
  /\ UNCHANGED <<pending, endpoints, reconnect_secs, timer_fired, asserts_failed>>

reconnect_timeout(secs) ==
  /\ reconnect_secs # secs
  /\ reconnect_secs' = secs
  /\ regular' = (regular /\ secs > 0)
  /\ UNCHANGED <<connVars, transVars, timer_fired, asserts_failed>>

\* m_reconnect_timer expires: its handler is queued and cannot be cancelled.
timer_expires ==
  /\ timer_armed
  /\ timer_fired < MaxFired
  /\ timer_armed' = FALSE
  /\ timer_fired' = timer_fired + 1
  /\ UNCHANGED <<transport, connected, abort, transVars, reconnect_secs,
                 asserts_failed, regular>>

\* timer_reconnect; a wait cancelled by a later reconnect() returns at once and
\* is not modelled as a step.
timer_reconnect ==
  /\ timer_fired > 0
  /\ timer_fired' = timer_fired - 1
  /\ \E t \in Transports : Free(t) /\ create(t)
  /\ UNCHANGED <<connected, abort, timer_armed, reconnect_secs, asserts_failed, regular>>

Handlers(t) ==
  \/ handle_resolve(t)
  \/ handle_epmd_connect(t)
  \/ handle_step(t)
  \/ handle_status_and_challenge(t)
  \/ handle_challenge_ack(t)
  \/ handle_read_error(t)

Next ==
  \/ \E t \in Transports : Handlers(t)
  \/ \E a_permanent \in BOOLEAN : disconnect(a_permanent)
  \/ \E secs \in Timeouts : reconnect_timeout(secs)
  \/ timer_expires
  \/ timer_reconnect

Spec == Init /\ [][Next]_vars

\* Timers expire, and the io_service runs the handlers it has queued: those of
\* expired timers and those of reads on a socket that was closed.
Fairness ==
  /\ WF_vars(timer_expires)
  /\ WF_vars(timer_reconnect)
  /\ \A t \in Transports : WF_vars(aborted[t] /\ handle_read_error(t))

FairSpec == Spec /\ Fairness
-----------------------------------------------------------------------------
\* What basic_otp_connection::send does with a message in this state; "sent"
\* hands it to m_transport->send, which drops it if the transport was stopped.
send ==
  IF transport = NoTransport
  THEN IF abort THEN "ignored" ELSE "err_connection"
  ELSE IF connected THEN "sent" ELSE "ignored"

TypeOK ==
  /\ transport \in Transports \cup {NoTransport}
  /\ connected \in BOOLEAN
  /\ abort \in BOOLEAN
  /\ reconnect_secs \in Timeouts
  /\ timer_armed \in BOOLEAN
  /\ timer_fired \in 0..MaxFired
  /\ state \in [Transports -> States]
  /\ aborted \in [Transports -> BOOLEAN]
  /\ socket_open \in [Transports -> BOOLEAN]
  /\ pending \in [Transports -> States]
  /\ endpoints \in [Transports -> 0..MaxEndpoints]
  /\ asserts_failed \subseteq {"m_state", "m_transport"}
  /\ regular \in BOOLEAN

Established(t) == t # NoTransport /\ pending[t] = "CS_CONNECTED" /\ ~aborted[t]

\* The properties but StoppedStaysSilent are about regular behaviours.  A
\* disconnect() during an attempt leaves the handler of the attempt running next
\* to the timer that stop() has armed, and they break without that restriction.

\* connected() is true exactly while the current transport has finished its
\* handshake and was not stopped: send() never writes into a handshake and never
\* drops a message for a peer that is there.
ConnectedMeansEstablished ==
  regular => /\ connected <=> Established(transport)
             /\ send = "sent" <=> Established(transport)

\* A transport that is still working and was not stopped is the current one: a
\* reconnect never leaves an earlier transport running next to the new one.
NoOrphan ==
  regular => \A t \in Transports : pending[t] # "CS_INIT" /\ ~aborted[t] => t = transport

\* Unless it was permanently disconnected, a connection is established, under
\* way, or has a timer that will start the next attempt.
NeverStranded ==
  regular /\ ~abort => \/ transport # NoTransport /\ pending[transport] # "CS_INIT"
                       \/ timer_armed
                       \/ timer_fired > 0

\* The BOOST_ASSERTs hold: nothing changes the state of a transport behind its
\* pending operation, and only the current transport reports how its attempt
\* ended.
AssertsHold == regular => asserts_failed = {}

\* A transport that was stopped never completes a connection, however late its
\* resolver or its handshake comes back: start() reports on_connect to nobody.
StoppedStaysSilent ==
  [][\A t \in Transports :
       aborted[t] /\ pending[t] # "CS_CONNECTED" => pending'[t] # "CS_CONNECTED"]_vars

\* A lost connection is followed by a new attempt unless the user gives it up.
Reattempt ==
  (transport = NoTransport /\ ~abort /\ regular) ~> (transport # NoTransport \/ abort \/ ~regular)
=============================================================================
