---------------------------- MODULE TransportWrite ----------------------------
(***************************************************************************)
(* The outgoing half of connect::connection (transport_otp_connection).    *)
(*                                                                         *)
(* Any thread may call send(): it checks the abort flag, encodes the       *)
(* message into a freshly allocated buffer and posts do_write to the       *)
(* io_service.  The single thread that runs the io_service owns the rest:  *)
(* two queues of buffers, one that collects new buffers and one whose      *)
(* buffers a pending boost::asio::async_write is putting on the socket.    *)
(* A buffer is a model of the memory holding one encoded frame; what the   *)
(* frame says does not matter here, who sent it and in which order does.   *)
(***************************************************************************)
EXTENDS Naturals, Sequences, FiniteSets

CONSTANTS
  Senders,     \* threads that call connection::send
  Io,          \* the thread that runs the io_service (it answers TICKs)
  MaxSends     \* bound: frames produced by each sender, TOCKs included

ASSUME WriteAssumption ==
  /\ Io \notin Senders
  /\ MaxSends \in Nat

Buffer == [from : Senders \cup {Io}, seq : 1..MaxSends]

VARIABLES
  sent,                \* frames each sender has asked to be written so far
  encoded,             \* senders between check_connected() and io_service.post
  posted,              \* do_write handlers waiting in the io_service, in order
  out_msg_queue,       \* m_out_msg_queue[2]
  available_queue,     \* m_available_queue
  is_writing,          \* m_is_writing
  connection_aborted,  \* m_connection_aborted
  inflight,            \* buffers the pending async_write has yet to transfer
  writing_op,          \* whether an async_write is outstanding
  socket_open,         \* whether stop() has not closed the socket yet
  wire,                \* history: buffers transferred to the socket, in order
  accepted,            \* history: buffers handed to do_write, in order
  allocated            \* buffers allocated and not yet deallocated

ioVars == <<out_msg_queue, available_queue, is_writing, inflight, writing_op>>
senderVars == <<sent, encoded>>
vars == <<senderVars, ioVars, posted, connection_aborted, socket_open, wire,
          accepted, allocated>>

Contents(s) == {s[i] : i \in DOMAIN s}

writing_queue == (available_queue + 1) % 2

Frame(s, n) == [from |-> s, seq |-> n]
-----------------------------------------------------------------------------
Init ==
  /\ sent = [s \in Senders \cup {Io} |-> 0]
  /\ encoded = {}
  /\ posted = <<>>
  /\ out_msg_queue = [q \in 0..1 |-> <<>>]
  /\ available_queue = 0
  /\ is_writing = FALSE
  /\ connection_aborted = FALSE
  /\ inflight = <<>>
  /\ writing_op = FALSE
  /\ socket_open = TRUE
  /\ wire = <<>>
  /\ accepted = <<>>
  /\ allocated = {}

(***************************************************************************)
(* connection::send, on the caller's thread.  The abort flag is read first *)
(* and the buffer posted later: stop() may come in between.                *)
(***************************************************************************)
send_check(s) ==
  /\ s \notin encoded
  /\ sent[s] < MaxSends
  /\ sent' = [sent EXCEPT ![s] = @ + 1]
  /\ \/ /\ ~connection_aborted
        /\ encoded' = encoded \cup {s}
        /\ allocated' = allocated \cup {Frame(s, sent[s] + 1)}
     \/ /\ connection_aborted        \* on_error: "Connection closed, dropped"
        /\ UNCHANGED <<encoded, allocated>>
  /\ UNCHANGED <<posted, ioVars, connection_aborted, socket_open, wire, accepted>>

send_post(s) ==
  /\ s \in encoded
  /\ encoded' = encoded \ {s}
  /\ posted' = Append(posted, Frame(s, sent[s]))
  /\ UNCHANGED <<sent, ioVars, connection_aborted, socket_open, wire, accepted,
                 allocated>>
-----------------------------------------------------------------------------
\* Mutant: the queues do not change roles when a write is started.
mut_no_flip(q, w, op) ==
  \/ /\ ~w /\ q[available_queue] # <<>>
     /\ out_msg_queue' = q
     /\ inflight' = q[available_queue]
     /\ is_writing' = TRUE
     /\ writing_op' = TRUE
     /\ UNCHANGED available_queue
  \/ /\ w \/ q[available_queue] = <<>>
     /\ out_msg_queue' = q
     /\ is_writing' = w
     /\ writing_op' = op
     /\ UNCHANGED <<available_queue, inflight>>

(***************************************************************************)
(* do_write_internal, run on queues q with m_is_writing = w and an         *)
(* outstanding async_write iff op: unless a write is outstanding, everything *)
(* collected so far goes into one gather write and the queues change roles. *)
(***************************************************************************)
do_write_internal(q, w, op) ==
  \/ /\ ~w
     /\ q[available_queue] # <<>>
     /\ out_msg_queue' = q
     /\ inflight' = q[available_queue]
     /\ is_writing' = TRUE
     /\ available_queue' = writing_queue
     /\ writing_op' = TRUE
  \/ /\ w \/ q[available_queue] = <<>>
     /\ out_msg_queue' = q
     /\ is_writing' = w
     /\ writing_op' = op
     /\ UNCHANGED <<available_queue, inflight>>

do_write(b) ==
  /\ accepted' = Append(accepted, b)
  /\ do_write_internal(
       [out_msg_queue EXCEPT ![available_queue] = Append(@, b)],
       is_writing, writing_op)

\* The io_service runs the oldest posted do_write; the abort flag is not read.
run_posted ==
  /\ posted # <<>>
  /\ do_write(Head(posted))
  /\ posted' = Tail(posted)
  /\ UNCHANGED <<senderVars, connection_aborted, socket_open, wire, allocated>>

\* handle_read got a TICK: process_message answers it with a TOCK frame, past
\* every do_write still waiting in the io_service.
process_tick ==
  /\ ~connection_aborted
  /\ sent[Io] < MaxSends
  /\ sent' = [sent EXCEPT ![Io] = @ + 1]
  /\ allocated' = allocated \cup {Frame(Io, sent[Io] + 1)}
  /\ do_write(Frame(Io, sent[Io] + 1))
  /\ UNCHANGED <<encoded, posted, connection_aborted, socket_open, wire>>
-----------------------------------------------------------------------------
\* boost::asio::async_write(..., transfer_all()): one more buffer of the
\* gather list reaches the socket.
async_write_some ==
  /\ writing_op
  /\ socket_open
  /\ inflight # <<>>
  /\ wire' = Append(wire, Head(inflight))
  /\ inflight' = Tail(inflight)
  /\ UNCHANGED <<senderVars, posted, out_msg_queue, available_queue, is_writing,
                 writing_op, connection_aborted, socket_open, accepted, allocated>>

\* Mutant: the flag is set and the socket left open, as uds_connection does,
\* which overrides stop() but not stop(e).
mut_stop ==
  /\ connection_aborted' = TRUE
  /\ UNCHANGED socket_open

\* tcp_connection::stop(e): close the socket, then connection::stop(e).
stop ==
  /\ connection_aborted' = TRUE
  /\ socket_open' = FALSE

\* Mutant: the buffers of the wrong queue are deallocated.
mut_frees_available ==
  /\ writing_op
  /\ inflight = <<>>
  /\ ~connection_aborted
  /\ allocated' = allocated \ Contents(out_msg_queue[available_queue])
  /\ do_write_internal([out_msg_queue EXCEPT ![writing_queue] = <<>>], FALSE, FALSE)
  /\ UNCHANGED <<senderVars, posted, connection_aborted, socket_open, wire, accepted>>

\* Mutant: what was collected during the write waits for the next do_write.
mut_no_restart ==
  /\ writing_op
  /\ inflight = <<>>
  /\ ~connection_aborted
  /\ allocated' = allocated \ Contents(out_msg_queue[writing_queue])
  /\ out_msg_queue' = [out_msg_queue EXCEPT ![writing_queue] = <<>>]
  /\ is_writing' = FALSE
  /\ writing_op' = FALSE
  /\ UNCHANGED <<senderVars, posted, available_queue, inflight, connection_aborted,
                 socket_open, wire, accepted>>

\* handle_write without an error: every buffer of the writing queue is
\* deallocated and whatever was collected meanwhile is written next.
handle_write ==
  /\ writing_op
  /\ inflight = <<>>
  /\ ~connection_aborted
  /\ allocated' = allocated \ Contents(out_msg_queue[writing_queue])
  /\ do_write_internal([out_msg_queue EXCEPT ![writing_queue] = <<>>], FALSE, FALSE)
  /\ UNCHANGED <<senderVars, posted, connection_aborted, socket_open, wire, accepted>>

\* handle_write with an error: the connection is stopped.
handle_write_error ==
  /\ writing_op
  /\ inflight # <<>>
  /\ ~connection_aborted
  /\ stop
  /\ writing_op' = FALSE
  /\ UNCHANGED <<senderVars, posted, out_msg_queue, available_queue, is_writing,
                 inflight, wire, accepted, allocated>>

\* handle_write of a stopped connection, whatever the outcome of the write.
handle_write_aborted ==
  /\ writing_op
  /\ connection_aborted
  /\ writing_op' = FALSE
  /\ UNCHANGED <<senderVars, posted, out_msg_queue, available_queue, is_writing,
                 inflight, connection_aborted, socket_open, wire, accepted,
                 allocated>>

\* The user disconnects, or handle_read reports that the peer is gone.
disconnect ==
  /\ ~connection_aborted
  /\ stop
  /\ UNCHANGED <<senderVars, ioVars, posted, wire, accepted, allocated>>

Next ==
  \/ \E s \in Senders : send_check(s) \/ send_post(s)
  \/ run_posted
  \/ process_tick
  \/ async_write_some
  \/ handle_write
  \/ handle_write_error
  \/ handle_write_aborted
  \/ disconnect

Spec == Init /\ [][Next]_vars

(***************************************************************************)
(* The io_service thread keeps running its handlers, the kernel keeps      *)
(* taking bytes or reports an error, and a thread inside send() returns.   *)
(***************************************************************************)
Fairness ==
  /\ \A s \in Senders : WF_vars(send_post(s))
  /\ WF_vars(run_posted)
  /\ WF_vars(async_write_some)
  /\ WF_vars(handle_write)

FairSpec == Spec /\ Fairness
-----------------------------------------------------------------------------
TypeOK ==
  /\ sent \in [Senders \cup {Io} -> 0..MaxSends]
  /\ encoded \in SUBSET Senders
  /\ \A s \in encoded : sent[s] > 0
  /\ posted \in Seq(Buffer)
  /\ out_msg_queue \in [0..1 -> Seq(Buffer)]
  /\ available_queue \in 0..1
  /\ is_writing \in BOOLEAN
  /\ connection_aborted \in BOOLEAN
  /\ inflight \in Seq(Buffer)
  /\ writing_op \in BOOLEAN
  /\ socket_open \in BOOLEAN
  /\ wire \in Seq(Buffer)
  /\ accepted \in Seq(Buffer)
  /\ allocated \in SUBSET Buffer

\* Auxiliary to the proofs: when no write is outstanding both queues are empty,
\* because do_write_internal runs after every push and every completion, and the
\* socket is closed exactly when the abort flag is set.
QueueInv ==
  /\ ~is_writing => /\ inflight = <<>>
                    /\ \A q \in 0..1 : out_msg_queue[q] = <<>>
                    /\ ~writing_op
  /\ socket_open = ~connection_aborted

\* The frames handed to do_write are, in that order and with nothing missing or
\* repeated, those already on the socket, those of the outstanding gather write
\* and those collected for the next one: changing the queues' roles and clearing
\* the written one loses and reorders nothing.
Conservation ==
  accepted = wire \o (inflight \o out_msg_queue[available_queue])

\* handle_write frees a buffer only when the socket is done with it, and, until
\* the connection stops, frees every one that is: an outstanding write never reads
\* freed memory and a live connection never leaks or frees twice.
BuffersOwned ==
  /\ Contents(inflight) \subseteq allocated
  /\ ~connection_aborted =>
       allocated = Contents(posted) \cup Contents(out_msg_queue[0])
                   \cup Contents(out_msg_queue[1])
                   \cup {Frame(s, sent[s]) : s \in encoded}

\* A frame whose do_write was posted reaches the socket unless the connection
\* stops: it is never left in a queue that no completion handler will look at.
EventuallyWritten ==
  \A b \in Buffer :
    (b \in Contents(posted)) ~> (b \in Contents(wire) \/ connection_aborted)

Channel == INSTANCE FifoChannel
             WITH Msg <- Buffer, delivered <- wire, closed <- connection_aborted

\* The two queues and the gather writes implement a FIFO channel that falls
\* silent when connection::stop is called.
ImplementsChannel == Channel!ChanSpec
=============================================================================
