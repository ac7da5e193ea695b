------------------------------- MODULE Handshake -------------------------------
(***************************************************************************)
(* The way of tcp_connection to CS_CONNECTED: resolve, ask epmd for the    *)
(* port, connect, then the distribution handshake (name, status,           *)
(* challenge, reply, ack).  Every handler is an operator on the fields of  *)
(* the connection, so that a handler that calls the next one directly, as  *)
(* the code does when it has already read enough, is one step.             *)
(* The peer and epmd are other programs: a peer is a record that says how  *)
(* it behaves.  What travels is a sequence of units, one per header byte,  *)
(* per byte of the status and per other field; a read takes any number of  *)
(* them from the least the code asks for on.                               *)
(* The local node always has a name (connect() asserts it), so the branch  *)
(* for dynamic names is not modelled.  An error of any pending operation   *)
(* ends the attempt; what happens then is in OtpConnection.                *)
(***************************************************************************)
EXTENDS Integers, Sequences, SequencesExt, FiniteSets

CONSTANTS
  Endpoints,  \* bound: addresses that the host name resolves to
  Cookie,     \* the cookie of this node
  Peers       \* the peers, with what epmd says of them

EI_DIST_5 == 5
EI_DIST_6 == 6
RequiredFlags == {"EXTENDED_REFERENCES", "EXTENDED_PIDS_PORTS", "NEW_FLOATS"}

ASSUME HandshakeAssumption ==
  /\ Endpoints \in Nat \ {0}
  /\ \A p \in Peers :
       /\ p.epmd \in {"port", "unknown", "garbage"}
       /\ p.dist_high \in Nat
       /\ p.version \in {EI_DIST_5, EI_DIST_6}
       /\ p.flags \subseteq RequiredFlags
       /\ p.status \in {"ok", "ok_simultaneous", "nok"}
       /\ p.checks \in BOOLEAN

VARIABLES
  c,       \* the fields of the connection
  left,    \* endpoints not tried yet
  peer,    \* the peer of this behaviour
  net,     \* units on the way to this node
  seen,    \* messages of c.sent that the other side has taken
  pstate,  \* where the peer is
  closed,  \* the other side has closed the socket, or the network has failed
  neterr   \* history: resolving or the network has failed

vars == <<c, left, peer, net, seen, pstate, closed, neterr>>

Garbage == 99999   \* get16be of anything that is not a length

gen_challenge(who) == <<"challenge", who>>
gen_digest(challenge, cookie) == <<"digest", challenge, cookie>>

(* A message of the node protocol: two bytes of length, then its fields.   *)
Framed(body) == <<<<"hi", Len(body)>>, <<"lo", Len(body)>>>> \o body

get16be(s) ==
  IF s[1][1] = "hi" /\ s[2] = <<"lo", s[1][2]>> THEN s[1][2] ELSE Garbage

Field(f) == <<"field", f>>

(***************************************************************************)
(* The handlers.  h is c with what has been read appended to h.buf; the    *)
(* unread units m_node_rd..m_node_wr are h.buf.                            *)
(***************************************************************************)
Fail(h) == [h EXCEPT !.failed = TRUE, !.need = 0]

\* async_read(at least n) that will call the handler named by next
Await(h, next, n) == [h EXCEPT !.next = next, !.need = n]

Pending(h) == h.expect - Len(h.buf)

Write(h, state, msgs) == [h EXCEPT !.state = state, !.sent = @ \o msgs, !.buf = <<>>]

handle_epmd_read_body(h) ==
  LET v == IF h.buf[2][2] > EI_DIST_6 THEN EI_DIST_6 ELSE h.buf[2][2]
      g == [h EXCEPT !.dist_version = v, !.buf = <<>>,
                     !.asserted = @ /\ Len(h.buf) >= 2]
  IN IF v <= 4 THEN Fail(g) ELSE [g EXCEPT !.state = "CS_WAIT_CONNECT"]

handle_epmd_read_header(h) ==
  LET g == [h EXCEPT !.buf = SubSeq(@, 3, Len(@)), !.expect = 2]
  IN IF h.buf[1] # Field("PORT2_RESP") \/ h.buf[2] # Field(0) THEN Fail(h)
     ELSE IF Pending(g) > 0 THEN Await(g, "epmd_body", Pending(g))
     ELSE handle_epmd_read_body(g)

handle_connect(h) ==
  LET new == h.dist_version # EI_DIST_5
      msg == [tag |-> IF new THEN "N" ELSE "n"]
  IN Write([h EXCEPT !.our_challenge = gen_challenge("us"), !.sent = <<>>,
                     !.dist_version = IF new THEN @ ELSE EI_DIST_5],
           "CS_WAIT_WRITE_CHALLENGE_DONE", <<msg>>)

\* Mutant: the digest of the ack is not compared.
AckTagOnly(h) ==
  IF h.buf[1] # Field("a") THEN Fail(h) ELSE [h EXCEPT !.state = "CS_CONNECTED"]

handle_read_challenge_ack_body(h) ==
  LET g == [h EXCEPT !.asserted = @ /\ Len(h.buf) >= h.expect]
  IN IF \/ h.buf[1] # Field("a")
        \/ h.buf[2] # Field(gen_digest(h.our_challenge, Cookie))
     THEN Fail(g)
     ELSE [g EXCEPT !.state = "CS_CONNECTED"]

handle_read_challenge_ack_header(h) ==
  LET g == [h EXCEPT !.expect = get16be(h.buf), !.buf = SubSeq(@, 3, Len(@))]
  IN IF g.expect = Garbage THEN Fail(g)
     ELSE IF Pending(g) > 0 THEN Await(g, "ack_body", Pending(g))
     ELSE handle_read_challenge_ack_body(g)

\* the version that the code takes from the challenge, and its fields
ChallengeVersion(b) == IF b[1] = Field("N") THEN EI_DIST_6 ELSE b[2][2]
ChallengeFlags(b) == IF b[1] = Field("N") THEN b[2][2] ELSE b[3][2]
ChallengeOf(b) == IF b[1] = Field("N") THEN b[3][2] ELSE b[4][2]

\* Mutant: the version that epmd gave is kept.
EpmdVersionKept(h) ==
  LET b == h.buf
      reply == [tag |-> "r", challenge |-> h.our_challenge,
                digest |-> gen_digest(ChallengeOf(b), Cookie)]
  IN IF RequiredFlags \subseteq ChallengeFlags(b)
     THEN Write(h, "CS_WAIT_WRITE_CHALLENGE_REPLY_DONE",
                (IF b[1] = Field("N") /\ h.dist_version = EI_DIST_5
                 THEN <<[tag |-> "c"]>> ELSE <<>>) \o <<reply>>)
     ELSE Fail(h)

\* Mutant: an upgraded version sends no complement.
ComplementForgotten(h) ==
  Write([h EXCEPT !.dist_version = ChallengeVersion(h.buf)],
        "CS_WAIT_WRITE_CHALLENGE_REPLY_DONE",
        <<[tag |-> "r", challenge |-> h.our_challenge,
           digest |-> gen_digest(ChallengeOf(h.buf), Cookie)]>>)

handle_read_challenge_body(h) ==
  LET g == [h EXCEPT !.asserted = @ /\ Len(h.buf) >= h.expect]
      b == h.buf
      v == ChallengeVersion(b)
      complement == IF v > h.dist_version THEN <<[tag |-> "c"]>> ELSE <<>>
      reply == [tag |-> "r", challenge |-> h.our_challenge,
                digest |-> gen_digest(ChallengeOf(b), Cookie)]
  IN IF \/ b[1] \notin {Field("n"), Field("N")}
        \/ b[1] = Field("n") /\ v # EI_DIST_5
        \/ ~ RequiredFlags \subseteq ChallengeFlags(b)
     THEN Fail(g)
     ELSE Write([g EXCEPT !.dist_version = v],
                "CS_WAIT_WRITE_CHALLENGE_REPLY_DONE", Append(complement, reply))

handle_read_challenge_header(h) ==
  LET g == [h EXCEPT !.expect = get16be(h.buf), !.buf = SubSeq(@, 3, Len(@))]
  IN IF g.expect = Garbage THEN Fail(g)
     ELSE IF Pending(g) > 0 THEN Await(g, "challenge_body", Pending(g))
     ELSE handle_read_challenge_body(g)

\* Mutant: bytes read with the status are thrown away.
StatusRestDropped(h) ==
  IF ~ IsPrefix(<<Field("s"), Field("o"), Field("k")>>, h.buf) THEN Fail(h)
  ELSE Await([h EXCEPT !.state = "CS_WAIT_CHALLENGE", !.buf = <<>>], "challenge_header", 2)

\* only the first three bytes are compared, and only they are skipped
handle_read_status_body(h) ==
  LET f == [h EXCEPT !.asserted = @ /\ Len(h.buf) >= 3]
      g == [f EXCEPT !.state = "CS_WAIT_CHALLENGE", !.buf = SubSeq(@, 4, Len(@))]
  IN IF ~ IsPrefix(<<Field("s"), Field("o"), Field("k")>>, h.buf) THEN Fail(f)
     ELSE IF Len(g.buf) >= 2 THEN handle_read_challenge_header(g)
     ELSE Await(g, "challenge_header", 2)

\* Mutant: one byte too few is awaited.
StatusNeedOneLess(h) ==
  LET g == [h EXCEPT !.expect = get16be(h.buf), !.buf = SubSeq(@, 3, Len(@))]
  IN IF Pending(g) > 1 THEN Await(g, "status_body", Pending(g) - 1)
     ELSE handle_read_status_body(g)

handle_read_status_header(h) ==
  LET g == [h EXCEPT !.expect = get16be(h.buf), !.buf = SubSeq(@, 3, Len(@))]
  IN IF g.expect = Garbage THEN Fail(g)
     ELSE IF Pending(g) > 0 THEN Await(g, "status_body", Pending(g))
     ELSE handle_read_status_body(g)

Handle(h) ==
  CASE h.next = "epmd_header" -> handle_epmd_read_header(h)
    [] h.next = "epmd_body" -> handle_epmd_read_body(h)
    [] h.next = "status_header" -> handle_read_status_header(h)
    [] h.next = "status_body" -> handle_read_status_body(h)
    [] h.next = "challenge_header" -> handle_read_challenge_header(h)
    [] h.next = "challenge_body" -> handle_read_challenge_body(h)
    [] h.next = "ack_header" -> handle_read_challenge_ack_header(h)
    [] h.next = "ack_body" -> handle_read_challenge_ack_body(h)

(***************************************************************************)
(* The steps of this node.                                                 *)
(***************************************************************************)
Init ==
  /\ c = [state |-> "CS_WAIT_RESOLVE", next |-> "none", need |-> 0, buf |-> <<>>,
          expect |-> 0, dist_version |-> 0, our_challenge |-> <<>>,
          sent |-> <<>>, failed |-> FALSE, asserted |-> TRUE]
  /\ left = Endpoints
  /\ peer \in Peers
  /\ net = <<>>
  /\ seen = 0
  /\ pstate = "epmd"
  /\ closed = FALSE
  /\ neterr = FALSE

handle_resolve ==
  /\ ~ c.failed /\ c.state = "CS_WAIT_RESOLVE"
  /\ \/ c' = Fail(c) /\ neterr' = TRUE /\ UNCHANGED left
     \/ c' = [c EXCEPT !.state = "CS_WAIT_EPMD_CONNECT"] /\ left' = left - 1 /\ UNCHANGED neterr
  /\ UNCHANGED <<peer, net, seen, pstate, closed>>

\* Mutant: one address too many is tried.
EpmdConnectBeyondLast ==
  /\ ~ c.failed /\ c.state = "CS_WAIT_EPMD_CONNECT"
  /\ \/ c' = Write(c, "CS_WAIT_EPMD_WRITE_DONE", <<[tag |-> "PORT2_REQ"]>>)
        /\ UNCHANGED <<left, neterr>>
     \/ left >= 0 /\ left' = left - 1 /\ UNCHANGED <<c, neterr>>
     \/ left < 0 /\ c' = Fail(c) /\ neterr' = TRUE /\ UNCHANGED left
  /\ UNCHANGED <<peer, net, seen, pstate, closed>>

handle_epmd_connect ==
  /\ ~ c.failed /\ c.state = "CS_WAIT_EPMD_CONNECT"
  /\ \/ c' = Write(c, "CS_WAIT_EPMD_WRITE_DONE", <<[tag |-> "PORT2_REQ"]>>)
        /\ UNCHANGED <<left, neterr>>
     \/ left > 0 /\ left' = left - 1 /\ UNCHANGED <<c, neterr>>
     \/ left = 0 /\ c' = Fail(c) /\ neterr' = TRUE /\ UNCHANGED left
  /\ UNCHANGED <<peer, net, seen, pstate, closed>>

\* handle_epmd_write, handle_write_name and handle_write_challenge_reply
AfterWrite ==
  [CS_WAIT_EPMD_WRITE_DONE |-> <<"CS_WAIT_EPMD_REPLY", "epmd_header">>,
   CS_WAIT_WRITE_CHALLENGE_DONE |-> <<"CS_WAIT_STATUS", "status_header">>,
   CS_WAIT_WRITE_CHALLENGE_REPLY_DONE |-> <<"CS_WAIT_CHALLENGE_ACK", "ack_header">>]

handle_write ==
  /\ ~ c.failed /\ c.state \in DOMAIN AfterWrite
  /\ \/ c' = Await([c EXCEPT !.state = AfterWrite[c.state][1]], AfterWrite[c.state][2], 2)
     \/ closed /\ c' = Fail(c)
  /\ UNCHANGED <<left, peer, net, seen, pstate, closed, neterr>>

Connect ==
  /\ ~ c.failed /\ c.state = "CS_WAIT_CONNECT"
  /\ \/ c' = handle_connect(c) /\ closed' = FALSE /\ pstate' = "name" /\ UNCHANGED neterr
     \/ c' = Fail(c) /\ neterr' = TRUE /\ UNCHANGED <<closed, pstate>>
  /\ net' = <<>> /\ seen' = 0
  /\ UNCHANGED <<left, peer>>

Read ==
  /\ ~ c.failed /\ c.need > 0 /\ Len(net) >= c.need
  /\ \E n \in c.need .. Len(net) :
       /\ c' = Handle([c EXCEPT !.buf = @ \o SubSeq(net, 1, n), !.need = 0])
       /\ net' = SubSeq(net, n + 1, Len(net))
  /\ UNCHANGED <<left, peer, seen, pstate, closed, neterr>>

ReadError ==
  /\ ~ c.failed /\ c.need > 0 /\ Len(net) < c.need /\ closed
  /\ c' = Fail(c)
  /\ UNCHANGED <<left, peer, net, seen, pstate, closed, neterr>>

(***************************************************************************)
(* epmd and the peer.                                                      *)
(***************************************************************************)
Unseen(tag) == seen < Len(c.sent) /\ c.sent[seen + 1].tag = tag

EpmdReply ==
  CASE peer.epmd = "port" ->
         <<Field("PORT2_RESP"), Field(0), Field("port"), Field(peer.dist_high)>>
    [] peer.epmd = "unknown" -> <<Field("PORT2_RESP"), Field(1)>>
    [] peer.epmd = "garbage" -> <<Field("garbage"), Field("garbage")>>

EpmdAnswers ==
  /\ ~ closed /\ pstate = "epmd" /\ Unseen("PORT2_REQ")
  /\ seen' = seen + 1
  /\ net' = EpmdReply
  /\ UNCHANGED <<c, left, peer, pstate, closed, neterr>>

Status ==
  CASE peer.status = "ok" -> <<Field("s"), Field("o"), Field("k")>>
    [] peer.status = "ok_simultaneous" ->
         <<Field("s"), Field("o"), Field("k"), Field("underscore"), Field("simultaneous")>>
    [] peer.status = "nok" -> <<Field("s"), Field("n"), Field("o"), Field("k")>>

PeerChallenge ==
  LET chal == Field(gen_challenge("peer"))
  IN IF peer.version = EI_DIST_6
     THEN <<Field("N"), Field(peer.flags), chal, Field("creation"), Field("len"), Field("name")>>
     ELSE <<Field("n"), Field(EI_DIST_5), Field(peer.flags), chal, Field("name")>>

\* a peer of version 5 does not know 'N'; one of version 6 answers 'n' with
\* 'N', as this node sets DFLAG_HANDSHAKE_23, and then expects the complement
PeerTakesName ==
  /\ ~ closed /\ pstate = "name" /\ (Unseen("n") \/ Unseen("N"))
  /\ seen' = seen + 1
  /\ IF Unseen("N") /\ peer.version = EI_DIST_5
     THEN closed' = TRUE /\ UNCHANGED <<net, pstate>>
     ELSE /\ net' = net \o Framed(Status) \o IF peer.status = "nok" THEN <<>> ELSE Framed(PeerChallenge)
          /\ closed' = (peer.status = "nok")
          /\ pstate' = IF Unseen("n") /\ peer.version = EI_DIST_6 THEN "complement" ELSE "reply"
  /\ UNCHANGED <<c, left, peer, neterr>>

PeerTakesComplement ==
  /\ ~ closed /\ pstate = "complement" /\ seen < Len(c.sent)
  /\ seen' = seen + 1
  /\ IF Unseen("c") THEN pstate' = "reply" /\ UNCHANGED closed
                    ELSE closed' = TRUE /\ UNCHANGED pstate
  /\ UNCHANGED <<c, left, peer, net, neterr>>

PeerTakesReply ==
  /\ ~ closed /\ pstate = "reply" /\ seen < Len(c.sent)
  /\ seen' = seen + 1
  /\ LET m == c.sent[seen + 1]
     IN IF /\ m.tag = "r"
           /\ peer.checks => m.digest = gen_digest(gen_challenge("peer"), peer.cookie)
        THEN /\ net' = net \o Framed(<<Field("a"), Field(gen_digest(m.challenge, peer.cookie))>>)
             /\ pstate' = "up"
             /\ UNCHANGED closed
        ELSE closed' = TRUE /\ UNCHANGED <<net, pstate>>
  /\ UNCHANGED <<c, left, peer, neterr>>

\* the network fails
Drop ==
  /\ ~ closed
  /\ closed' = TRUE
  /\ net' \in {net, <<>>}
  /\ pstate' = "lost"
  /\ neterr' = TRUE
  /\ UNCHANGED <<c, left, peer, seen>>

Done == (c.failed \/ c.state = "CS_CONNECTED") /\ UNCHANGED vars

Here == handle_resolve \/ handle_epmd_connect \/ handle_write \/ Connect \/ Read \/ ReadError
There == EpmdAnswers \/ PeerTakesName \/ PeerTakesComplement \/ PeerTakesReply

Next == Here \/ There \/ Drop \/ Done

Spec == Init /\ [][Next]_vars /\ WF_vars(Here) /\ WF_vars(There)

(***************************************************************************)
(* Properties.                                                             *)
(***************************************************************************)
States ==
  {"CS_WAIT_RESOLVE", "CS_WAIT_EPMD_CONNECT", "CS_WAIT_EPMD_WRITE_DONE",
   "CS_WAIT_EPMD_REPLY", "CS_WAIT_CONNECT", "CS_WAIT_WRITE_CHALLENGE_DONE",
   "CS_WAIT_STATUS", "CS_WAIT_CHALLENGE", "CS_WAIT_WRITE_CHALLENGE_REPLY_DONE",
   "CS_WAIT_CHALLENGE_ACK", "CS_CONNECTED"}

TypeOK ==
  /\ c.state \in States /\ c.failed \in BOOLEAN
  /\ c.need \in Nat /\ c.expect \in Nat
  /\ c.dist_version \in Nat
  /\ \A i \in DOMAIN c.buf : c.buf[i][1] \in {"hi", "lo", "field"}
  /\ left \in 0 .. Endpoints
  /\ peer \in Peers
  /\ seen \in 0 .. Len(c.sent)
  /\ pstate \in {"epmd", "name", "complement", "reply", "up", "lost"}
  /\ closed \in BOOLEAN /\ neterr \in BOOLEAN

Connected == c.state = "CS_CONNECTED" /\ ~ c.failed

\* What a peer needs for this node to take it: epmd knows it with a version
\* it can speak, it has the cookie and the flags, and plainly says ok.
Good(p) ==
  /\ p.epmd = "port" /\ p.dist_high >= EI_DIST_5
  /\ p.dist_high >= EI_DIST_6 => p.version = EI_DIST_6
  /\ p.cookie = Cookie
  /\ p.flags = RequiredFlags
  /\ p.status = "ok"

(* A connection is up only with a peer that has this node's cookie, and    *)
(* that has taken this node's reply: each side has answered the other's    *)
(* challenge, however the bytes were cut into reads.                       *)
Authenticated == Connected => peer.cookie = Cookie /\ pstate \in {"up", "lost"}

(* Once a connection is up, both sides use the same version of the         *)
(* protocol: the one in the challenge, also when epmd named another, and a *)
(* peer that answers 'n' with 'N' has got the complement it waits for.     *)
VersionsAgree == Connected => c.dist_version = peer.version

(* A good peer is refused only when the network fails: no way of cutting   *)
(* its messages into reads, or of running them together, makes a handler   *)
(* take one for something else.                                            *)
GoodPeerAccepted == c.failed => neterr \/ ~ Good(peer)

(* The BOOST_ASSERTs on got_bytes hold: every body handler has at least    *)
(* the bytes that its header announced, or that it looks at.               *)
AssertedSizes == c.asserted

\* The attempt as OtpConnection sees it: one transport, whose failure arms the
\* timer of the connection.  A handler is pending until the attempt has failed.
Conn == INSTANCE OtpConnection WITH
  Transports <- {"t"}, NoTransport <- "none", Timeouts <- {1},
  MaxEndpoints <- Endpoints - 1, MaxFired <- 1,
  transport <- "t", connected <- Connected, abort <- FALSE, reconnect_secs <- 1,
  timer_armed <- c.failed, timer_fired <- 0,
  state <- [t \in {"t"} |-> c.state],
  aborted <- [t \in {"t"} |-> FALSE],
  socket_open <- [t \in {"t"} |-> ~ c.failed /\ c.state # "CS_WAIT_RESOLVE"],
  pending <- [t \in {"t"} |-> IF c.failed THEN "CS_INIT" ELSE c.state],
  endpoints <- [t \in {"t"} |-> IF c.state = "CS_WAIT_RESOLVE" THEN 0 ELSE left],
  asserts_failed <- {}, regular <- TRUE

(* The handlers, with their reads and the peer in view, do nothing but     *)
(* what OtpConnection takes them to do: they pass through its states in    *)
(* its order, each finds m_state as it asserts, a failure is reported once *)
(* and ends the attempt, and on_connect comes after the last of them.      *)
ImplementsConnection == Conn!Spec

(* With a good peer that answers, and a network that does not fail, the    *)
(* connection comes up; nothing is left waiting for bytes that were        *)
(* already read.  There is no timer: a silent peer is waited for forever.  *)
Establishes == Good(peer) ~> (Connected \/ neterr)

================================================================================
