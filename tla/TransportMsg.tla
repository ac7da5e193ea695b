----------------------------- MODULE TransportMsg -----------------------------
(***************************************************************************)
(* transport_msg: the control tuple of a distribution message, how the     *)
(* set_* functions build it, and what its accessors find in it.            *)
(* A term is a record with its type; m_type, which the code keeps as       *)
(* 1 << code, is the code itself.  Indices into the tuple are the code's,  *)
(* counted from 0.                                                         *)
(***************************************************************************)
EXTENDS Naturals, Sequences

ERL_LINK == 1
ERL_SEND == 2
ERL_EXIT == 3
ERL_UNLINK == 4
ERL_REG_SEND == 6
ERL_GROUP_LEADER == 7
ERL_EXIT2 == 8
ERL_SEND_TT == 12
ERL_EXIT_TT == 13
ERL_REG_SEND_TT == 16
ERL_EXIT2_TT == 18
ERL_MONITOR_P == 19
ERL_DEMONITOR_P == 20
ERL_MONITOR_P_EXIT == 21

\* The enumerators of transport_msg_type are bits.
LINK == 2 ^ ERL_LINK
UNLINK == 2 ^ ERL_UNLINK

Pid(p) == [type |-> "PID", value |-> p]
Atom(a) == [type |-> "ATOM", value |-> a]
Ref(r) == [type |-> "REF", value |-> r]
Trace == [type |-> "TUPLE"]
Payload == [type |-> "OTHER"]
Code(n) == [type |-> "LONG", value |-> n]
Undefined == [type |-> "UNDEFINED"]
EmptyAtom == Atom("")

\* What an accessor yields when it throws err_wrong_type.
err_wrong_type == [type |-> "err_wrong_type"]

Item(m, i) == m.cntrl[i + 1]

set(code, cntrl, msg) == [type |-> code, cntrl |-> cntrl, msg |-> msg]

set_send(to, msg, tracing) ==
  IF tracing
  THEN set(ERL_SEND_TT, <<Code(ERL_SEND_TT), EmptyAtom, to, Trace>>, msg)
  ELSE set(ERL_SEND, <<Code(ERL_SEND), EmptyAtom, to>>, msg)

set_reg_send(from, to, msg, tracing) ==
  IF tracing
  THEN set(ERL_REG_SEND_TT, <<Code(ERL_REG_SEND_TT), from, EmptyAtom, to, Trace>>, msg)
  ELSE set(ERL_REG_SEND, <<Code(ERL_REG_SEND), from, EmptyAtom, to>>, msg)

\* set_send_rpc and set_send_rpc_cast: a request to rex.
set_send_rpc(from, tracing) == set_reg_send(from, Atom("rex"), Payload, tracing)

\* set_link and set_unlink hand the bit, not the code, to set.
set_link(from, to) == set(LINK, <<Code(ERL_LINK), from, to>>, Undefined)
set_unlink(from, to) == set(UNLINK, <<Code(ERL_UNLINK), from, to>>, Undefined)

set_exit_internal(code, trace_code, from, to, reason, tracing) ==
  IF tracing
  THEN set(trace_code, <<Code(trace_code), from, to, Trace, reason>>, Undefined)
  ELSE set(code, <<Code(code), from, to, reason>>, Undefined)

set_exit(from, to, reason, tracing) ==
  set_exit_internal(ERL_EXIT, ERL_EXIT_TT, from, to, reason, tracing)

set_exit2(from, to, reason, tracing) ==
  set_exit_internal(ERL_EXIT2, ERL_EXIT2_TT, from, to, reason, tracing)

set_monitor_internal(code, from, to, ref) ==
  set(code, <<Code(code), from, to, ref>>, Undefined)

set_monitor(from, to, ref) == set_monitor_internal(ERL_MONITOR_P, from, to, ref)
set_demonitor(from, to, ref) == set_monitor_internal(ERL_DEMONITOR_P, from, to, ref)

set_monitor_exit(from, to, ref, reason) ==
  set(ERL_MONITOR_P_EXIT, <<Code(ERL_MONITOR_P_EXIT), from, to, ref, reason>>, Undefined)

ToPid == {ERL_SEND, ERL_LINK, ERL_UNLINK, ERL_EXIT, ERL_EXIT2, ERL_GROUP_LEADER, ERL_SEND_TT,
          ERL_EXIT_TT, ERL_EXIT2_TT, ERL_MONITOR_P, ERL_DEMONITOR_P, ERL_MONITOR_P_EXIT}

sender(m) ==
  IF m.type \in (ToPid \ {ERL_SEND, ERL_SEND_TT}) \cup {ERL_REG_SEND, ERL_REG_SEND_TT}
  THEN Item(m, 1) ELSE err_wrong_type

\* For a REG_SEND_TT this is the item that trace_token() returns.
recipient(m) ==
  CASE m.type = ERL_REG_SEND -> Item(m, 3)
    [] m.type = ERL_REG_SEND_TT -> Item(m, 4)
    [] m.type \in ToPid -> Item(m, 2)
    [] OTHER -> err_wrong_type

trace_token(m) ==
  CASE m.type \in {ERL_SEND_TT, ERL_EXIT_TT, ERL_EXIT2_TT} -> Item(m, 3)
    [] m.type = ERL_REG_SEND_TT -> Item(m, 4)
    [] OTHER -> err_wrong_type

get_ref(m) ==
  IF m.type \in {ERL_MONITOR_P, ERL_DEMONITOR_P, ERL_MONITOR_P_EXIT} THEN Item(m, 3)
  ELSE err_wrong_type

\* Mutant: the reason of a traced exit is looked for where an untraced one has it.
mut_reason(m) ==
  IF m.type \in {ERL_EXIT, ERL_EXIT2, ERL_EXIT_TT, ERL_EXIT2_TT} THEN Item(m, 3)
  ELSE IF m.type = ERL_MONITOR_P_EXIT THEN Item(m, 4) ELSE err_wrong_type

reason(m) ==
  CASE m.type \in {ERL_EXIT, ERL_EXIT2} -> Item(m, 3)
    [] m.type \in {ERL_EXIT_TT, ERL_EXIT2_TT, ERL_MONITOR_P_EXIT} -> Item(m, 4)
    [] OTHER -> err_wrong_type

has_msg(m) == m.msg # Undefined

\* connection::send writes the control tuple and the payload, if there is one.
OnWire(m) == <<m.cntrl, IF has_msg(m) THEN m.msg ELSE Undefined>>

WithPayload == {ERL_SEND, ERL_REG_SEND, ERL_SEND_TT, ERL_REG_SEND_TT}

\* transport_msg_decode: the type is what the tuple begins with, whatever type the
\* sender's object had.
transport_msg_decode(w) ==
  LET code == w[1][1].value
  IN set(code, w[1], IF code \in WithPayload THEN w[2] ELSE Undefined)
=============================================================================
