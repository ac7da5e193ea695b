------------------------------ MODULE NodeProofs ------------------------------
(***************************************************************************)
(* Proofs about Node, for any number of threads, mailboxes, names, peers   *)
(* and connections: the types, the registry, and how every kind of message *)
(* reads.                                                                  *)
(***************************************************************************)
EXTENDS Node, TLAPS

\* The codes that open a control tuple are visible in every step.
USE DEF ERL_LINK, ERL_SEND, ERL_EXIT, ERL_UNLINK, ERL_REG_SEND, ERL_GROUP_LEADER, ERL_EXIT2,
        ERL_SEND_TT, ERL_EXIT_TT, ERL_REG_SEND_TT, ERL_EXIT2_TT, ERL_MONITOR_P,
        ERL_DEMONITOR_P, ERL_MONITOR_P_EXIT

\* The wire keeps a message whose control tuple begins with its code and that has a
\* payload iff messages of that code have one; its type is then that code.
LEMMA WireKeeps ==
  ASSUME NEW type, NEW code, NEW cntrl, NEW msg, cntrl[1] = Code(code),
         msg # Undefined <=> code \in WithPayload
  PROVE  transport_msg_decode(OnWire(set(type, cntrl, msg))) = set(code, cntrl, msg)
BY DEF transport_msg_decode, OnWire, has_msg, set, Code

\* Which codes have a payload, and which message has none.
LEMMA Payloads ==
  /\ {ERL_SEND, ERL_REG_SEND, ERL_SEND_TT, ERL_REG_SEND_TT} \subseteq WithPayload
  /\ {ERL_LINK, ERL_UNLINK, ERL_EXIT, ERL_EXIT2, ERL_EXIT_TT, ERL_EXIT2_TT, ERL_MONITOR_P,
      ERL_DEMONITOR_P, ERL_MONITOR_P_EXIT} \cap WithPayload = {}
  /\ Payload # Undefined
BY DEF WithPayload, Payload, Undefined

\* The receiver of a message reads in it what its sender asked for: over the wire any,
\* locally any but a link or unlink, unless it is a traced message to a name.
LEMMA MessageReads ==
  ASSUME NEW r \in Requests, ~TracedToName(r), NEW tm,
         \/ tm = transport_msg_decode(OnWire(Message(r)))
         \/ tm = Message(r) /\ r.op \notin {"link", "unlink"}
  PROVE  ReadsAs(tm, r)
<1>1. ASSUME NEW code, NEW cntrl, NEW msg, cntrl[1] = Code(code),
             msg # Undefined <=> code \in WithPayload,
             \/ Message(r) = set(code, cntrl, msg)
             \/ /\ r.op \in {"link", "unlink"}
                /\ \E type : Message(r) = set(type, cntrl, msg)
      PROVE  /\ tm.type = code /\ tm.cntrl = cntrl /\ tm.msg = msg
             /\ tm.type = tm.cntrl[1].value
             /\ has_msg(tm) = (msg # Undefined)
  <2>1. tm = set(code, cntrl, msg)
    BY <1>1, WireKeeps
  <2> QED
    BY <1>1, <2>1 DEF set, has_msg, Code
<1>2. CASE r.op = "send"
  <2>1. CASE r.tracing
    <3> DEFINE c == <<Code(ERL_SEND_TT), EmptyAtom, r.to, Trace>>
    <3>1. Message(r) = set(ERL_SEND_TT, c, Payload)
      BY <1>2, <2>1 DEF Message, set_send
    <3>2. c[1] = Code(ERL_SEND_TT) /\ (Payload # Undefined <=> ERL_SEND_TT \in WithPayload)
      BY Payloads
    <3>3. /\ tm.type = ERL_SEND_TT /\ tm.cntrl = c /\ tm.msg = Payload
          /\ tm.type = tm.cntrl[1].value
          /\ has_msg(tm) = (Payload # Undefined)
      BY <1>2, <2>1, <3>1, <3>2, <1>1
    <3> QED
      BY <1>2, <2>1, <3>3, Payloads
      DEF ReadsAs, recipient, trace_token, Item, ToPid
  <2>2. CASE ~r.tracing
    <3> DEFINE c == <<Code(ERL_SEND), EmptyAtom, r.to>>
    <3>1. Message(r) = set(ERL_SEND, c, Payload)
      BY <1>2, <2>2 DEF Message, set_send
    <3>2. c[1] = Code(ERL_SEND) /\ (Payload # Undefined <=> ERL_SEND \in WithPayload)
      BY Payloads
    <3>3. /\ tm.type = ERL_SEND /\ tm.cntrl = c /\ tm.msg = Payload
          /\ tm.type = tm.cntrl[1].value
          /\ has_msg(tm) = (Payload # Undefined)
      BY <1>2, <2>2, <3>1, <3>2, <1>1
    <3> QED
      BY <1>2, <2>2, <3>3, Payloads
      DEF ReadsAs, recipient, Item, ToPid
  <2> QED
    BY <2>1, <2>2
<1>3. CASE r.op = "reg_send"
  <2> DEFINE c == <<Code(ERL_REG_SEND), From, EmptyAtom, r.to>>
  <2>1. Message(r) = set(ERL_REG_SEND, c, Payload)
    BY <1>3 DEF Message, set_reg_send, TracedToName, ByName
  <2>2. c[1] = Code(ERL_REG_SEND) /\ (Payload # Undefined <=> ERL_REG_SEND \in WithPayload)
    BY Payloads
  <2>3. /\ tm.type = ERL_REG_SEND /\ tm.cntrl = c /\ tm.msg = Payload
        /\ tm.type = tm.cntrl[1].value
        /\ has_msg(tm) = (Payload # Undefined)
    BY <1>3, <2>1, <2>2, <1>1
  <2> QED
    BY <1>3, <2>3, Payloads
    DEF ReadsAs, recipient, sender, Item, ToPid, TracedToName, ByName
<1>4. CASE r.op = "rpc"
  <2> DEFINE c == <<Code(ERL_REG_SEND), From, EmptyAtom, r.to>>
  <2>0. r.to = Atom("rex")
    BY <1>4 DEF Requests, ByPid
  <2>1. Message(r) = set(ERL_REG_SEND, c, Payload)
    BY <1>4, <2>0 DEF Message, set_send_rpc, set_reg_send, TracedToName, ByName
  <2>2. c[1] = Code(ERL_REG_SEND) /\ (Payload # Undefined <=> ERL_REG_SEND \in WithPayload)
    BY Payloads
  <2>3. /\ tm.type = ERL_REG_SEND /\ tm.cntrl = c /\ tm.msg = Payload
        /\ tm.type = tm.cntrl[1].value
        /\ has_msg(tm) = (Payload # Undefined)
    BY <1>4, <2>1, <2>2, <1>1
  <2> QED
    BY <1>4, <2>3, Payloads
    DEF ReadsAs, recipient, sender, Item, ToPid, TracedToName, ByName
<1>5. CASE r.op = "link"
  <2> DEFINE c == <<Code(ERL_LINK), From, r.to>>
  <2>1. \E type : Message(r) = set(type, c, Undefined)
    BY <1>5 DEF Message, set_link
  <2>2. c[1] = Code(ERL_LINK) /\ (Undefined # Undefined <=> ERL_LINK \in WithPayload)
    BY Payloads
  <2>3. /\ tm.type = ERL_LINK /\ tm.cntrl = c /\ tm.msg = Undefined
        /\ tm.type = tm.cntrl[1].value
        /\ has_msg(tm) = (Undefined # Undefined)
    BY <1>5, <2>1, <2>2, <1>1
  <2> QED
    BY <1>5, <2>3, Payloads
    DEF ReadsAs, recipient, sender, Item, ToPid
<1>6. CASE r.op = "unlink"
  <2> DEFINE c == <<Code(ERL_UNLINK), From, r.to>>
  <2>1. \E type : Message(r) = set(type, c, Undefined)
    BY <1>6 DEF Message, set_unlink
  <2>2. c[1] = Code(ERL_UNLINK) /\ (Undefined # Undefined <=> ERL_UNLINK \in WithPayload)
    BY Payloads
  <2>3. /\ tm.type = ERL_UNLINK /\ tm.cntrl = c /\ tm.msg = Undefined
        /\ tm.type = tm.cntrl[1].value
        /\ has_msg(tm) = (Undefined # Undefined)
    BY <1>6, <2>1, <2>2, <1>1
  <2> QED
    BY <1>6, <2>3, Payloads
    DEF ReadsAs, recipient, sender, Item, ToPid
<1>7. CASE r.op = "exit"
  <2>1. CASE r.tracing
    <3> DEFINE c == <<Code(ERL_EXIT_TT), From, r.to, Trace, Reason>>
    <3>1. Message(r) = set(ERL_EXIT_TT, c, Undefined)
      BY <1>7, <2>1 DEF Message, set_exit, set_exit_internal
    <3>2. c[1] = Code(ERL_EXIT_TT) /\ (Undefined # Undefined <=> ERL_EXIT_TT \in WithPayload)
      BY Payloads
    <3>3. /\ tm.type = ERL_EXIT_TT /\ tm.cntrl = c /\ tm.msg = Undefined
          /\ tm.type = tm.cntrl[1].value
          /\ has_msg(tm) = (Undefined # Undefined)
      BY <1>7, <2>1, <3>1, <3>2, <1>1
    <3> QED
      BY <1>7, <2>1, <3>3, Payloads
      DEF ReadsAs, recipient, sender, reason, trace_token, Item, ToPid
  <2>2. CASE ~r.tracing
    <3> DEFINE c == <<Code(ERL_EXIT), From, r.to, Reason>>
    <3>1. Message(r) = set(ERL_EXIT, c, Undefined)
      BY <1>7, <2>2 DEF Message, set_exit, set_exit_internal
    <3>2. c[1] = Code(ERL_EXIT) /\ (Undefined # Undefined <=> ERL_EXIT \in WithPayload)
      BY Payloads
    <3>3. /\ tm.type = ERL_EXIT /\ tm.cntrl = c /\ tm.msg = Undefined
          /\ tm.type = tm.cntrl[1].value
          /\ has_msg(tm) = (Undefined # Undefined)
      BY <1>7, <2>2, <3>1, <3>2, <1>1
    <3> QED
      BY <1>7, <2>2, <3>3, Payloads
      DEF ReadsAs, recipient, sender, reason, Item, ToPid
  <2> QED
    BY <2>1, <2>2
<1>8. CASE r.op = "exit2"
  <2>1. CASE r.tracing
    <3> DEFINE c == <<Code(ERL_EXIT2_TT), From, r.to, Trace, Reason>>
    <3>1. Message(r) = set(ERL_EXIT2_TT, c, Undefined)
      BY <1>8, <2>1 DEF Message, set_exit2, set_exit_internal
    <3>2. c[1] = Code(ERL_EXIT2_TT) /\ (Undefined # Undefined <=> ERL_EXIT2_TT \in WithPayload)
      BY Payloads
    <3>3. /\ tm.type = ERL_EXIT2_TT /\ tm.cntrl = c /\ tm.msg = Undefined
          /\ tm.type = tm.cntrl[1].value
          /\ has_msg(tm) = (Undefined # Undefined)
      BY <1>8, <2>1, <3>1, <3>2, <1>1
    <3> QED
      BY <1>8, <2>1, <3>3, Payloads
      DEF ReadsAs, recipient, sender, reason, trace_token, Item, ToPid
  <2>2. CASE ~r.tracing
    <3> DEFINE c == <<Code(ERL_EXIT2), From, r.to, Reason>>
    <3>1. Message(r) = set(ERL_EXIT2, c, Undefined)
      BY <1>8, <2>2 DEF Message, set_exit2, set_exit_internal
    <3>2. c[1] = Code(ERL_EXIT2) /\ (Undefined # Undefined <=> ERL_EXIT2 \in WithPayload)
      BY Payloads
    <3>3. /\ tm.type = ERL_EXIT2 /\ tm.cntrl = c /\ tm.msg = Undefined
          /\ tm.type = tm.cntrl[1].value
          /\ has_msg(tm) = (Undefined # Undefined)
      BY <1>8, <2>2, <3>1, <3>2, <1>1
    <3> QED
      BY <1>8, <2>2, <3>3, Payloads
      DEF ReadsAs, recipient, sender, reason, Item, ToPid
  <2> QED
    BY <2>1, <2>2
<1>9. CASE r.op = "monitor"
  <2> DEFINE c == <<Code(ERL_MONITOR_P), From, r.to, TheRef>>
  <2>1. Message(r) = set(ERL_MONITOR_P, c, Undefined)
    BY <1>9 DEF Message, set_monitor, set_monitor_internal
  <2>2. c[1] = Code(ERL_MONITOR_P) /\ (Undefined # Undefined <=> ERL_MONITOR_P \in WithPayload)
    BY Payloads
  <2>3. /\ tm.type = ERL_MONITOR_P /\ tm.cntrl = c /\ tm.msg = Undefined
        /\ tm.type = tm.cntrl[1].value
        /\ has_msg(tm) = (Undefined # Undefined)
    BY <1>9, <2>1, <2>2, <1>1
  <2> QED
    BY <1>9, <2>3, Payloads
    DEF ReadsAs, recipient, sender, get_ref, Item, ToPid
<1>10. CASE r.op = "demonitor"
  <2> DEFINE c == <<Code(ERL_DEMONITOR_P), From, r.to, TheRef>>
  <2>1. Message(r) = set(ERL_DEMONITOR_P, c, Undefined)
    BY <1>10 DEF Message, set_demonitor, set_monitor_internal
  <2>2. c[1] = Code(ERL_DEMONITOR_P) /\ (Undefined # Undefined <=> ERL_DEMONITOR_P \in WithPayload)
    BY Payloads
  <2>3. /\ tm.type = ERL_DEMONITOR_P /\ tm.cntrl = c /\ tm.msg = Undefined
        /\ tm.type = tm.cntrl[1].value
        /\ has_msg(tm) = (Undefined # Undefined)
    BY <1>10, <2>1, <2>2, <1>1
  <2> QED
    BY <1>10, <2>3, Payloads
    DEF ReadsAs, recipient, sender, get_ref, Item, ToPid
<1>11. CASE r.op = "monitor_exit"
  <2> DEFINE c == <<Code(ERL_MONITOR_P_EXIT), From, r.to, TheRef, Reason>>
  <2>1. Message(r) = set(ERL_MONITOR_P_EXIT, c, Undefined)
    BY <1>11 DEF Message, set_monitor_exit
  <2>2. c[1] = Code(ERL_MONITOR_P_EXIT) /\ (Undefined # Undefined <=> ERL_MONITOR_P_EXIT \in WithPayload)
    BY Payloads
  <2>3. /\ tm.type = ERL_MONITOR_P_EXIT /\ tm.cntrl = c /\ tm.msg = Undefined
        /\ tm.type = tm.cntrl[1].value
        /\ has_msg(tm) = (Undefined # Undefined)
    BY <1>11, <2>1, <2>2, <1>1
  <2> QED
    BY <1>11, <2>3, Payloads
    DEF ReadsAs, recipient, sender, reason, get_ref, Item, ToPid
<1> QED
  BY <1>2, <1>3, <1>4, <1>5, <1>6, <1>7, <1>8, <1>9, <1>10, <1>11 DEF Requests, ByPid
-----------------------------------------------------------------------------
\* A lookup yields a mailbox or none.
LEMMA GetType ==
  ASSUME TypeOK, NEW to
  PROVE  get(to) \in Mailboxes \cup {NoMailbox}
BY DEF TypeOK, get

\* 0 is neither a mailbox nor a connection that was made.
LEMMA NoneApart == NoMailbox \notin Mailboxes /\ NoName \notin Names
BY NodeAssumption DEF NoMailbox, NoName

\* The types of the registry after erase.
LEMMA EraseType ==
  ASSUME TypeOK, NEW m \in Mailboxes, erase(m)
  PROVE  /\ by_name' \in [Names -> Mailboxes \cup {NoMailbox}]
         /\ by_pid' \subseteq Mailboxes
         /\ name' \in [Mailboxes -> Names \cup {NoName}]
BY DEF TypeOK, erase

\* The type of what the node keeps of a connection.
Connection == [peer : Peers, state : {"connecting", "up", "waiting", "dead"},
               reconnect : BOOLEAN]

\* A connection that changes its state.
LEMMA BecomesType ==
  ASSUME TypeOK, NEW c \in DOMAIN con, NEW s \in {"connecting", "up", "waiting", "dead"},
         Becomes(c, s)
  PROVE  /\ con' \in Seq(Connection)
         /\ DOMAIN con' = DOMAIN con
         /\ \A d \in DOMAIN con : con'[d].peer = con[d].peer
         /\ UNCHANGED <<m_connections, closing>>
<1>1. con \in Seq(Connection) /\ con' = [con EXCEPT ![c].state = s]
      /\ UNCHANGED <<m_connections, closing>>
  BY DEF TypeOK, Becomes, Connection
<1>2. con[c] \in Connection
  BY <1>1
<1>3. [con[c] EXCEPT !.state = s] \in Connection /\ [con[c] EXCEPT !.state = s].peer = con[c].peer
  BY <1>2 DEF Connection
<1> QED
  BY <1>1, <1>3

\* What close() leaves of the connections.
LEMMA CloseConnectionsType ==
  ASSUME TypeOK, close_connections
  PROVE  /\ con' \in Seq(Connection)
         /\ m_connections' \in [Peers -> DOMAIN con' \cup {NoConn}]
<1> DEFINE End(c) == IF c \in Range(m_connections) /\ con[c].state \in {"connecting", "up"}
                     THEN [con[c] EXCEPT !.state = AfterLoss(con[c])] ELSE con[c]
<1>1. con \in Seq(Connection) /\ con' = [c \in DOMAIN con |-> End(c)]
      /\ m_connections' = [p \in Peers |-> NoConn]
  BY DEF TypeOK, close_connections, Connection
<1>2. ASSUME NEW c \in DOMAIN con PROVE End(c) \in Connection
  <2>1. con[c] \in Connection
    BY <1>1
  <2>2. AfterLoss(con[c]) \in {"waiting", "dead"}
    BY DEF AfterLoss
  <2> QED
    BY <2>1, <2>2 DEF Connection
<1> HIDE DEF End
<1>3. DOMAIN con = 1..Len(con) /\ Len(con) \in Nat
  BY <1>1
<1> QED
  BY <1>1, <1>2, <1>3

\* The types hold in every state.
THEOREM TypeCorrect == Spec => []TypeOK
<1>1. ASSUME Init PROVE TypeOK
  <2>1. con \in Seq(Connection) /\ m_connections \in [Peers -> DOMAIN con \cup {NoConn}]
    BY <1>1 DEF Init
  <2> QED
    BY <1>1, <2>1 DEF Init, TypeOK, Connection
<1>2. ASSUME TypeOK, [Next]_nodeVars PROVE TypeOK'
  <2> USE <1>2
  <2>1. ASSUME NEW n \in Names \cup {NoName}, create_mailbox(n)
        PROVE  TypeOK'
    <3>1. PICK m \in Mailboxes :
            /\ life' = [life EXCEPT ![m] = "open"]
            /\ name' = [name EXCEPT ![m] = n]
            /\ by_name' = IF n = NoName THEN by_name ELSE [by_name EXCEPT ![n] = m]
            /\ by_pid' = by_pid \cup {m}
      BY <2>1 DEF create_mailbox
    <3> QED
      BY <2>1, <3>1 DEF create_mailbox, TypeOK, NoDelivery, conVars
  <2>2. ASSUME NEW m \in Mailboxes, close_mailbox(m) \/ delete_mailbox(m)
        PROVE  TypeOK'
    <3>1. life' \in [Mailboxes -> {"none", "open", "closed", "deleted"}]
      BY <2>2 DEF close_mailbox, delete_mailbox, TypeOK
    <3> QED
      BY <2>2, <3>1, EraseType DEF close_mailbox, delete_mailbox, TypeOK, NoDelivery, conVars
  <2>3. ASSUME NEW t \in Threads, NEW to, NEW tm, NEW r \in Requests, LookUp(t, to, tm, r)
        PROVE  TypeOK'
    <3>1. holds' \in [Threads -> Mailboxes \cup {NoMailbox}]
      BY <2>3, GetType DEF LookUp, TypeOK
    <3>2. garbled' \subseteq Requests
      BY <2>3 DEF LookUp, TypeOK
    <3> QED
      BY <2>3, <3>1, <3>2 DEF LookUp, TypeOK, regVars, conVars
  <2>4. ASSUME NEW t \in Threads, mailbox_deliver(t)
        PROVE  TypeOK'
    BY <2>4 DEF mailbox_deliver, TypeOK, regVars, conVars
  <2>5. ASSUME NEW p \in Peers, NEW r \in BOOLEAN, connect(p, r)
        PROVE  TypeOK'
    <3> DEFINE new == [peer |-> p, state |-> "connecting", reconnect |-> r]
    <3>1. con \in Seq(Connection) /\ new \in Connection /\ con' = Append(con, new)
          /\ m_connections' = [m_connections EXCEPT ![p] = Len(con) + 1]
      BY <2>5 DEF TypeOK, connect, Connection
    <3> HIDE DEF new
    <3>2. con' \in Seq(Connection) /\ DOMAIN con' = DOMAIN con \cup {Len(con) + 1}
      BY <3>1
    <3>3. m_connections' \in [Peers -> DOMAIN con' \cup {NoConn}]
      BY <3>1, <3>2 DEF TypeOK
    <3> QED
      BY <2>5, <3>2, <3>3 DEF connect, NoMailboxes, regVars, TypeOK, Connection
  <2>6. ASSUME NEW c \in DOMAIN con, on_connect(c) \/ on_disconnect(c) \/ timer_reconnect(c)
        PROVE  TypeOK'
    <3>1. PICK s \in {"connecting", "up", "waiting", "dead"} : Becomes(c, s)
      BY <2>6 DEF on_connect, on_disconnect, timer_reconnect, AfterLoss
    <3>2. con' \in Seq(Connection) /\ DOMAIN con' = DOMAIN con
          /\ UNCHANGED <<m_connections, closing>>
      BY <3>1, BecomesType
    <3> QED
      BY <3>1, <3>2 DEF Becomes, NoMailboxes, regVars, TypeOK, Connection
  <2>7. CASE close
    BY <2>7 DEF close, clear, NoDelivery, TypeOK
  <2>8. CASE close_connections
    BY <2>8, CloseConnectionsType
    DEF close_connections, NoMailboxes, regVars, TypeOK, Connection
  <2>9. CASE UNCHANGED nodeVars
    BY <2>9 DEF nodeVars, regVars, conVars, TypeOK
  <2>10. io \in Threads /\ Apps \subseteq Threads
    BY DEF Threads
  <2> QED
    BY <2>1, <2>2, <2>3, <2>4, <2>5, <2>6, <2>7, <2>8, <2>9, <2>10
    DEF Next, send_local, deliver
<1> QED
  BY <1>1, <1>2, PTL DEF Spec
-----------------------------------------------------------------------------
(***************************************************************************)
(* The inductive invariant: the three properties together.  That a new     *)
(* mailbox has no name yet needs that only open ones are found.            *)
(***************************************************************************)
NodeInv == RegistryConsistent /\ FoundIffOpen /\ ReadAsWritten

\* erase keeps the registry consistent.
LEMMA EraseConsistent ==
  ASSUME TypeOK, RegistryConsistent, NEW m \in Mailboxes, erase(m)
  PROVE  RegistryConsistent'
<1>1. /\ by_pid' = by_pid \ {m}
      /\ by_name' = IF name[m] = NoName THEN by_name
                    ELSE [by_name EXCEPT ![name[m]] = NoMailbox]
      /\ name'[m] = NoName
      /\ \A k \in Mailboxes : k # m => name'[k] = name[k]
  BY DEF erase, TypeOK
<1>2. ASSUME NEW n \in Names, by_name'[n] # NoMailbox
      PROVE  name'[by_name'[n]] = n /\ by_name'[n] \in by_pid'
  BY <1>1, <1>2, NoneApart DEF RegistryConsistent, TypeOK
<1>3. ASSUME NEW k \in Mailboxes, name'[k] # NoName
      PROVE  by_name'[name'[k]] = k
  BY <1>1, <1>3, NoneApart DEF RegistryConsistent, TypeOK
<1> QED
  BY <1>2, <1>3 DEF RegistryConsistent

\* Every operation of the node keeps the invariant: one step of the proof per action.
LEMMA NodeStep ==
  ASSUME TypeOK, TypeOK', NodeInv, [Next]_nodeVars
  PROVE  NodeInv'
<1>1. ASSUME UNCHANGED regVars
      PROVE  RegistryConsistent' /\ FoundIffOpen'
  BY <1>1 DEF regVars, NodeInv, RegistryConsistent, FoundIffOpen
<1>2. ASSUME UNCHANGED garbled
      PROVE  ReadAsWritten'
  BY <1>2 DEF NodeInv, ReadAsWritten
<1>3. ASSUME NEW n \in Names \cup {NoName}, create_mailbox(n)
      PROVE  NodeInv'
  <2>1. PICK m \in Mailboxes :
          /\ life[m] = "none"
          /\ life' = [life EXCEPT ![m] = "open"]
          /\ name' = [name EXCEPT ![m] = n]
          /\ by_name' = IF n = NoName THEN by_name ELSE [by_name EXCEPT ![n] = m]
          /\ by_pid' = by_pid \cup {m}
    BY <1>3 DEF create_mailbox
  <2>2. m \notin by_pid
    BY <2>1 DEF NodeInv, FoundIffOpen
  <2>3. n # NoName => by_name[n] = NoMailbox
    BY <1>3 DEF create_mailbox
  <2>4. \A k \in Names : by_name[k] # m
    BY <2>2, NoneApart DEF NodeInv, RegistryConsistent
  <2>5. name'[m] = n /\ life'[m] = "open"
        /\ \A k \in Mailboxes : k # m => name'[k] = name[k] /\ life'[k] = life[k]
    BY <2>1 DEF TypeOK
  <2>6. ASSUME NEW k \in Names, by_name'[k] # NoMailbox
        PROVE  name'[by_name'[k]] = k /\ by_name'[k] \in by_pid'
    BY <2>1, <2>4, <2>5, <2>6, NoneApart DEF NodeInv, RegistryConsistent, TypeOK
  <2>7. ASSUME NEW k \in Mailboxes, name'[k] # NoName
        PROVE  by_name'[name'[k]] = k
    BY <2>1, <2>3, <2>5, <2>7, NoneApart DEF NodeInv, RegistryConsistent, TypeOK
  <2>8. FoundIffOpen'
    BY <2>1, <2>5 DEF NodeInv, FoundIffOpen
  <2> QED
    BY <1>3, <1>2, <2>6, <2>7, <2>8
    DEF create_mailbox, NoDelivery, NodeInv, RegistryConsistent
<1>4. ASSUME NEW m \in Mailboxes, close_mailbox(m) \/ delete_mailbox(m)
      PROVE  NodeInv'
  <2>1. erase(m) /\ UNCHANGED garbled
    BY <1>4 DEF close_mailbox, delete_mailbox, NoDelivery
  <2>2. RegistryConsistent'
    BY <2>1, EraseConsistent DEF NodeInv
  <2>3. /\ by_pid' = by_pid \ {m}
        /\ life'[m] # "open"
        /\ \A k \in Mailboxes : k # m => life'[k] = life[k]
    BY <1>4 DEF close_mailbox, delete_mailbox, erase, TypeOK
  <2>4. FoundIffOpen'
    BY <2>3 DEF NodeInv, FoundIffOpen
  <2> QED
    BY <1>2, <2>1, <2>2, <2>4 DEF NodeInv
<1>5. ASSUME NEW t, NEW to, NEW tm, NEW r \in Requests, LookUp(t, to, tm, r),
             ReadsAs(tm, r) \/ TracedToName(r) \/ LocalLink(t, r)
      PROVE  NodeInv'
  <2>1. UNCHANGED garbled /\ UNCHANGED regVars
    BY <1>5 DEF LookUp
  <2> QED
    BY <1>1, <1>2, <2>1 DEF NodeInv
<1>6. ASSUME NEW t \in Apps, NEW r \in Requests, send_local(t, r)
      PROVE  NodeInv'
  <2>1. ReadsAs(Message(r), r) \/ TracedToName(r) \/ LocalLink(t, r)
    BY MessageReads, NodeAssumption DEF LocalLink, io
  <2> QED
    BY <1>5, <1>6, <2>1 DEF send_local
<1>7. ASSUME NEW c \in DOMAIN con, NEW r \in Requests, deliver(c, r)
      PROVE  NodeInv'
  <2> DEFINE tm == transport_msg_decode(OnWire(Message(r)))
  <2>1. LookUp(io, recipient(tm), tm, r)
    BY <1>7 DEF deliver
  <2>2. ReadsAs(tm, r) \/ TracedToName(r)
    BY MessageReads
  <2> QED
    BY <1>5, <2>1, <2>2
<1>8. ASSUME NEW t \in Threads, mailbox_deliver(t)
      PROVE  NodeInv'
  BY <1>1, <1>2, <1>8 DEF mailbox_deliver, NodeInv
<1>9. ASSUME NoMailboxes
      PROVE  NodeInv'
  BY <1>1, <1>2, <1>9 DEF NoMailboxes, NodeInv
<1>10. ASSUME NEW p \in Peers, NEW r \in BOOLEAN, connect(p, r)
       PROVE  NodeInv'
  BY <1>9, <1>10 DEF connect
<1>11. ASSUME NEW c \in DOMAIN con, on_connect(c) \/ on_disconnect(c) \/ timer_reconnect(c)
       PROVE  NodeInv'
  BY <1>9, <1>11 DEF on_connect, on_disconnect, timer_reconnect, Becomes
<1>12. CASE close
  <2>1. /\ by_name' = [n \in Names |-> NoMailbox]
        /\ name' = [m \in Mailboxes |-> IF m \in by_pid THEN NoName ELSE name[m]]
        /\ life' = [m \in Mailboxes |-> IF m \in by_pid THEN "closed" ELSE life[m]]
        /\ by_pid' = {}
        /\ UNCHANGED garbled
    BY <1>12 DEF close, clear, NoDelivery
  <2>2. RegistryConsistent'
    BY <2>1, NoneApart DEF NodeInv, RegistryConsistent, TypeOK
  <2>3. FoundIffOpen'
    BY <2>1 DEF NodeInv, FoundIffOpen
  <2> QED
    BY <1>2, <2>1, <2>2, <2>3 DEF NodeInv
<1>13. CASE close_connections
  BY <1>9, <1>13 DEF close_connections
<1>14. CASE UNCHANGED nodeVars
  BY <1>14, <1>9 DEF nodeVars, NoMailboxes
<1> QED
  BY <1>3, <1>4, <1>6, <1>7, <1>8, <1>10, <1>11, <1>12, <1>13, <1>14 DEF Next

\* The invariant holds in every state.
LEMMA NodeInvCorrect == Spec => []NodeInv
<1>1. ASSUME Init PROVE NodeInv
  BY <1>1 DEF Init, NodeInv, RegistryConsistent, FoundIffOpen, ReadAsWritten
<1>2. TypeOK /\ TypeOK' /\ NodeInv /\ [Next]_nodeVars => NodeInv'
  BY NodeStep
<1> QED
  BY <1>1, <1>2, TypeCorrect, PTL DEF Spec

(***************************************************************************)
(* Whatever order mailboxes are created, closed, deleted and cleared in,   *)
(* the two tables of the registry and the mailboxes' names agree.          *)
(***************************************************************************)
THEOREM RegistryCorrect == Spec => []RegistryConsistent
<1>1. NodeInv => RegistryConsistent
  BY DEF NodeInv
<1> QED
  BY <1>1, NodeInvCorrect, PTL

\* The registry finds every mailbox that is open and none that was closed or deleted.
THEOREM FoundIffOpenCorrect == Spec => []FoundIffOpen
<1>1. NodeInv => FoundIffOpen
  BY DEF NodeInv
<1> QED
  BY <1>1, NodeInvCorrect, PTL

\* The accessors find in every kind of message what the set_ functions put there.
THEOREM ReadCorrect == Spec => []ReadAsWritten
<1>1. NodeInv => ReadAsWritten
  BY DEF NodeInv
<1> QED
  BY <1>1, NodeInvCorrect, PTL
=============================================================================
