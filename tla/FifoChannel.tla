----------------------------- MODULE FifoChannel -----------------------------
(***************************************************************************)
(* What the transport of an Erlang connection promises its users, with no  *)
(* queue, buffer or asynchronous operation in sight: messages leave in the *)
(* order they were accepted, each one at most once, and none leaves after  *)
(* the channel was closed.  TransportWrite implements this specification.  *)
(***************************************************************************)
EXTENDS Naturals, Sequences

CONSTANT Msg

VARIABLES
  accepted,    \* every message the channel took, oldest first
  delivered,   \* every message the channel put on the wire, oldest first
  closed

chanVars == <<accepted, delivered, closed>>

ChanInit ==
  /\ accepted = <<>>
  /\ delivered = <<>>
  /\ closed = FALSE

\* A closed channel still takes messages: nobody will ever see them.
Accept(m) ==
  /\ accepted' = Append(accepted, m)
  /\ UNCHANGED <<delivered, closed>>

Transmit ==
  /\ ~closed
  /\ Len(delivered) < Len(accepted)
  /\ delivered' = Append(delivered, accepted[Len(delivered) + 1])
  /\ UNCHANGED <<accepted, closed>>

Close ==
  /\ closed' = TRUE
  /\ UNCHANGED <<accepted, delivered>>

ChanNext == (\E m \in Msg : Accept(m)) \/ Transmit \/ Close

ChanSpec == ChanInit /\ [][ChanNext]_chanVars
=============================================================================
