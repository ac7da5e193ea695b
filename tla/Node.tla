--------------------------------- MODULE Node ---------------------------------
(***************************************************************************)
(* basic_otp_node: the registry of its mailboxes, its connections, and the *)
(* way of a message to a mailbox, from a peer (deliver) or from a local    *)
(* thread (send).  The registry's operations hold its lock; the pointer    *)
(* that a lookup returns is used after the lock has been given up.         *)
(* A mailbox is known by its pid; mailboxes belong to the application,     *)
(* which deletes them.                                                     *)
(***************************************************************************)
EXTENDS TransportMsg, FiniteSets, Functions

CONSTANTS
  Apps,       \* threads of the application; the io_service runs on one more
  Mailboxes,  \* bound: pids, in the order they are handed out
  Names,      \* registered names
  Peers,      \* names of other nodes
  MaxConns    \* bound: connections made

ASSUME NodeAssumption ==
  /\ Mailboxes \subseteq Nat \ {0} /\ IsFiniteSet(Mailboxes)
  /\ MaxConns \in Nat
  /\ "" \notin Names
  /\ "io" \notin Apps

NoName == ""
NoMailbox == 0
NoConn == 0
io == "io"
Threads == Apps \cup {io}

VARIABLES
  by_name,   \* m_by_name
  by_pid,    \* the pids in m_by_pid
  name,      \* m_name of each mailbox
  life,      \* "none", "open", "closed" (m_time_freed is set) or "deleted"
  holds,     \* the mailbox a thread has looked up and is about to deliver to
  m_connections,
  con,       \* the connections made so far, listed or not
  closing,   \* close() has cleared the registry and not yet the connections
  garbled    \* history: requests whose message reads otherwise than it was written

regVars == <<by_name, by_pid, name, life>>
conVars == <<m_connections, con, closing>>
nodeVars == <<regVars, holds, conVars, garbled>>

Init ==
  /\ by_name = [n \in Names |-> NoMailbox]
  /\ by_pid = {}
  /\ name = [m \in Mailboxes |-> NoName]
  /\ life = [m \in Mailboxes |-> "none"]
  /\ holds = [t \in Threads |-> NoMailbox]
  /\ m_connections = [p \in Peers |-> NoConn]
  /\ con = <<>>
  /\ closing = FALSE
  /\ garbled = {}

NoDelivery == UNCHANGED <<holds, garbled>>
-----------------------------------------------------------------------------
\* registry::create_mailbox: a name that is taken gives the mailbox that has it (and
\* then nothing changes), else there is a new mailbox with a new pid.
create_mailbox(n) ==
  /\ n # NoName => by_name[n] = NoMailbox
  /\ \E m \in Mailboxes :
       /\ life[m] = "none"
       /\ \A k \in Mailboxes : life[k] = "none" => m <= k
       /\ life' = [life EXCEPT ![m] = "open"]
       /\ name' = [name EXCEPT ![m] = n]
       /\ by_name' = IF n = NoName THEN by_name ELSE [by_name EXCEPT ![n] = m]
       /\ by_pid' = by_pid \cup {m}
  /\ NoDelivery
  /\ UNCHANGED conVars

\* registry::erase of a mailbox.
erase(m) ==
  /\ by_pid' = by_pid \ {m}
  /\ by_name' = IF name[m] = NoName THEN by_name ELSE [by_name EXCEPT ![name[m]] = NoMailbox]
  /\ name' = [name EXCEPT ![m] = NoName]

\* mailbox::close called by its owner: the mailbox is still there.
close_mailbox(m) ==
  /\ life[m] \in {"open", "closed"}
  /\ erase(m)
  /\ life' = [life EXCEPT ![m] = "closed"]
  /\ NoDelivery
  /\ UNCHANGED conVars

\* Mutant: the destructor leaves the registry alone.
mut_delete_mailbox(m) ==
  /\ life[m] \in {"open", "closed"}
  /\ life' = [life EXCEPT ![m] = "deleted"]
  /\ UNCHANGED <<by_name, by_pid, name>>
  /\ NoDelivery
  /\ UNCHANGED conVars

\* ~basic_otp_mailbox: close, then the memory is gone.
delete_mailbox(m) ==
  /\ life[m] \in {"open", "closed"}
  /\ erase(m)
  /\ life' = [life EXCEPT ![m] = "deleted"]
  /\ NoDelivery
  /\ UNCHANGED conVars

\* Mutant: the mailboxes keep their names.
mut_clear ==
  /\ by_name' = [n \in Names |-> NoMailbox]
  /\ by_pid' = {}
  /\ life' = [m \in Mailboxes |-> IF m \in by_pid THEN "closed" ELSE life[m]]
  /\ UNCHANGED name

\* registry::clear: every mailbox in it is closed and loses its name.
clear ==
  /\ by_name' = [n \in Names |-> NoMailbox]
  /\ name' = [m \in Mailboxes |-> IF m \in by_pid THEN NoName ELSE name[m]]
  /\ life' = [m \in Mailboxes |-> IF m \in by_pid THEN "closed" ELSE life[m]]
  /\ by_pid' = {}

\* registry::get: an atom is a name, a pid a pid, and anything else an error.
get(to) ==
  CASE to.type = "ATOM" -> IF to.value \in Names THEN by_name[to.value] ELSE NoMailbox
    [] to.type = "PID" -> IF to.value \in by_pid THEN to.value ELSE NoMailbox
    [] OTHER -> NoMailbox
-----------------------------------------------------------------------------
From == Pid("sender")
Reason == [type |-> "REASON"]
TheRef == Ref("ref")

ByPid == {"send", "link", "unlink", "exit", "exit2", "monitor", "demonitor", "monitor_exit"}
ByName == {"reg_send", "rpc"}

\* What a caller may ask for: the operation, its addressee, and whether the process
\* is being traced.
Requests ==
  [op : ByPid, to : {Pid(m) : m \in Mailboxes}, tracing : BOOLEAN]
    \cup [op : {"reg_send"}, to : {Atom(n) : n \in Names}, tracing : BOOLEAN]
    \cup [op : {"rpc"}, to : {Atom("rex")}, tracing : BOOLEAN]

\* The message that send(), send_rpc(), send_link() and the others make.
Message(r) ==
  CASE r.op = "send" -> set_send(r.to, Payload, r.tracing)
    [] r.op = "reg_send" -> set_reg_send(From, r.to, Payload, r.tracing)
    [] r.op = "rpc" -> set_send_rpc(From, r.tracing)
    [] r.op = "link" -> set_link(From, r.to)
    [] r.op = "unlink" -> set_unlink(From, r.to)
    [] r.op = "exit" -> set_exit(From, r.to, Reason, r.tracing)
    [] r.op = "exit2" -> set_exit2(From, r.to, Reason, r.tracing)
    [] r.op = "monitor" -> set_monitor(From, r.to, TheRef)
    [] r.op = "demonitor" -> set_demonitor(From, r.to, TheRef)
    [] r.op = "monitor_exit" -> set_monitor_exit(From, r.to, TheRef, Reason)

\* The receiver of tm reads in it what was asked for in r.
ReadsAs(tm, r) ==
  /\ tm.type = tm.cntrl[1].value
  /\ has_msg(tm) = (r.op \in {"send", "reg_send", "rpc"})
  /\ recipient(tm) = r.to
  /\ r.op # "send" => sender(tm) = From
  /\ r.op \in {"exit", "exit2", "monitor_exit"} => reason(tm) = Reason
  /\ r.op \in {"monitor", "demonitor", "monitor_exit"} => get_ref(tm) = TheRef
  /\ r.tracing /\ r.op \in {"send", "reg_send", "rpc", "exit", "exit2"} => trace_token(tm) = Trace

\* The two kinds of messages the accessors are known to misread: recipient() takes
\* the token of a traced message to a name for the name, and the type of a link or
\* unlink is the bit shifted once more until the wire corrects it.
TracedToName(r) == r.tracing /\ r.op \in ByName
LocalLink(t, r) == t # io /\ r.op \in {"link", "unlink"}

\* Thread t looks the mailbox to up for message tm that was sent with r: m is it, or
\* there is none, which deliver() reports and send() tells its caller.
LookUp(t, to, tm, r) ==
  /\ holds[t] = NoMailbox
  /\ holds' = [holds EXCEPT ![t] = get(to)]
  /\ garbled' = IF ReadsAs(tm, r) \/ TracedToName(r) \/ LocalLink(t, r) THEN garbled
                ELSE garbled \cup {r}
  /\ UNCHANGED <<regVars, conVars>>

\* node::deliver of what a peer has sent over connection c.
deliver(c, r) ==
  /\ con[c].state = "up"
  /\ LET tm == transport_msg_decode(OnWire(Message(r))) IN LookUp(io, recipient(tm), tm, r)

\* node::send to a process of this node.
send_local(t, r) == LookUp(t, r.to, Message(r), r)

\* mailbox::deliver with the pointer the lookup returned.
mailbox_deliver(t) ==
  /\ holds[t] # NoMailbox
  /\ holds' = [holds EXCEPT ![t] = NoMailbox]
  /\ UNCHANGED <<regVars, conVars, garbled>>
-----------------------------------------------------------------------------
NoMailboxes == UNCHANGED <<regVars, holds, garbled>>

\* node::connect with a reconnect interval (r) or without: a peer that is listed keeps
\* its connection, whatever state that is in.
connect(p, r) ==
  /\ m_connections[p] = NoConn
  /\ Len(con) < MaxConns
  /\ con' = Append(con, [peer |-> p, state |-> "connecting", reconnect |-> r])
  /\ m_connections' = [m_connections EXCEPT ![p] = Len(con) + 1]
  /\ UNCHANGED closing
  /\ NoMailboxes

Becomes(c, s) ==
  /\ con' = [con EXCEPT ![c].state = s]
  /\ UNCHANGED <<m_connections, closing>>
  /\ NoMailboxes

AfterLoss(k) == IF k.reconnect THEN "waiting" ELSE "dead"

\* on_connect; on_connect_failure and on_disconnect, which start the timer if there is
\* an interval; timer_reconnect.
on_connect(c) == con[c].state = "connecting" /\ Becomes(c, "up")
on_disconnect(c) == con[c].state \in {"connecting", "up"} /\ Becomes(c, AfterLoss(con[c]))
timer_reconnect(c) == con[c].state = "waiting" /\ Becomes(c, "connecting")

\* node::close, first the mailboxes ...
close ==
  /\ ~closing
  /\ clear
  /\ closing' = TRUE
  /\ UNCHANGED <<m_connections, con>>
  /\ NoDelivery

\* ... then every listed connection is disconnected, but not permanently: one that
\* has an interval, or is waiting already, is kept by its timer.
close_connections ==
  /\ closing
  /\ con' = [c \in DOMAIN con |->
               IF c \in Range(m_connections) /\ con[c].state \in {"connecting", "up"}
               THEN [con[c] EXCEPT !.state = AfterLoss(con[c])] ELSE con[c]]
  /\ m_connections' = [p \in Peers |-> NoConn]
  /\ closing' = FALSE
  /\ NoMailboxes

Next ==
  \/ \E n \in Names \cup {NoName} : create_mailbox(n)
  \/ \E m \in Mailboxes : close_mailbox(m) \/ delete_mailbox(m)
  \/ \E t \in Apps, r \in Requests : send_local(t, r)
  \/ \E c \in DOMAIN con, r \in Requests : deliver(c, r)
  \/ \E t \in Threads : mailbox_deliver(t)
  \/ \E p \in Peers, r \in BOOLEAN : ~closing /\ connect(p, r)
  \/ \E c \in DOMAIN con : on_connect(c) \/ on_disconnect(c) \/ timer_reconnect(c)
  \/ close
  \/ close_connections

Spec == Init /\ [][Next]_nodeVars
-----------------------------------------------------------------------------
TypeOK ==
  /\ by_name \in [Names -> Mailboxes \cup {NoMailbox}]
  /\ by_pid \subseteq Mailboxes
  /\ name \in [Mailboxes -> Names \cup {NoName}]
  /\ life \in [Mailboxes -> {"none", "open", "closed", "deleted"}]
  /\ holds \in [Threads -> Mailboxes \cup {NoMailbox}]
  /\ m_connections \in [Peers -> DOMAIN con \cup {NoConn}]
  /\ con \in Seq([peer : Peers, state : {"connecting", "up", "waiting", "dead"},
                  reconnect : BOOLEAN])
  /\ garbled \subseteq Requests
  /\ closing \in BOOLEAN

\* A name leads to a mailbox that has that name and is found by its pid too, and
\* whatever order mailboxes are closed, deleted, cleared and created in, a mailbox
\* that has a name is found by it.
RegistryConsistent ==
  /\ \A n \in Names : by_name[n] # NoMailbox => name[by_name[n]] = n /\ by_name[n] \in by_pid
  /\ \A m \in Mailboxes : name[m] # NoName => by_name[name[m]] = m

\* Lookups find the open mailboxes and no others: however closing, deleting, clearing and
\* using a name again interleave, no mailbox is dropped because another one was closed, and
\* none that was closed or deleted is found.  (A thread may still use a mailbox that is
\* deleted after its lookup: nothing in the code keeps it.)
FoundIffOpen == by_pid = {m \in Mailboxes : life[m] = "open"}

\* The receiver reads in a message what its sender put there, over the wire and
\* locally, unless it is a local link or unlink, or a traced message to a name.
ReadAsWritten == garbled = {}
=============================================================================
