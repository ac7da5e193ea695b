------------------------- MODULE TransportWriteProofs -------------------------
(***************************************************************************)
(* Proofs about TransportWrite, for any set of senders and any number of   *)
(* frames: its types, the invariant that the double queue conserves what   *)
(* was handed to do_write, that it implements FifoChannel, and that each   *)
(* buffer is freed once, when nobody holds it any more.                    *)
(***************************************************************************)
EXTENDS TransportWrite, SequenceTheorems, TLAPS

\* A frame of a sender whose counter is in range is a Buffer.
LEMMA FrameType ==
  ASSUME NEW s \in Senders \cup {Io}, NEW n \in 1..MaxSends
  PROVE  Frame(s, n) \in Buffer
BY DEF Frame, Buffer

\* The two indexes are 0 and 1 in some order.
LEMMA WritingQueue ==
  ASSUME available_queue \in 0..1
  PROVE  writing_queue \in 0..1 /\ writing_queue # available_queue
BY DEF writing_queue

\* do_write_internal keeps the types of the variables it assigns, when the
\* queues it is given are well typed.
LEMMA WriteInternalType ==
  ASSUME TypeOK, NEW q \in [0..1 -> Seq(Buffer)], NEW w \in BOOLEAN,
         NEW op \in BOOLEAN, do_write_internal(q, w, op)
  PROVE  /\ out_msg_queue' \in [0..1 -> Seq(Buffer)]
         /\ available_queue' \in 0..1
         /\ is_writing' \in BOOLEAN
         /\ inflight' \in Seq(Buffer)
         /\ writing_op' \in BOOLEAN
<1>1. CASE ~w /\ q[available_queue] # <<>>
  BY <1>1, WritingQueue DEF TypeOK, do_write_internal
<1>2. CASE w \/ q[available_queue] = <<>>
  BY <1>2, WritingQueue DEF TypeOK, do_write_internal
<1> QED
  BY <1>1, <1>2

\* What do_write assigns is well typed.
LEMMA DoWriteType ==
  ASSUME TypeOK, NEW b \in Buffer, do_write(b)
  PROVE  /\ out_msg_queue' \in [0..1 -> Seq(Buffer)]
         /\ available_queue' \in 0..1
         /\ is_writing' \in BOOLEAN
         /\ inflight' \in Seq(Buffer)
         /\ writing_op' \in BOOLEAN
         /\ accepted' \in Seq(Buffer)
<1> DEFINE q == [out_msg_queue EXCEPT ![available_queue] = Append(@, b)]
<1>1. q \in [0..1 -> Seq(Buffer)]
  BY DEF TypeOK
<1>2. do_write_internal(q, is_writing, writing_op) /\ accepted' = Append(accepted, b)
  BY DEF do_write
<1> HIDE DEF q
<1>3. is_writing \in BOOLEAN /\ writing_op \in BOOLEAN /\ accepted \in Seq(Buffer)
  BY DEF TypeOK
<1> QED
  BY <1>1, <1>2, <1>3, WriteInternalType

(***************************************************************************)
(* Every variable of the outgoing half of a connection keeps its type.     *)
(***************************************************************************)
THEOREM TypeCorrect == Spec => []TypeOK
<1>1. Init => TypeOK
  BY WriteAssumption DEF Init, TypeOK
<1>2. TypeOK /\ [Next]_vars => TypeOK'
  <2> SUFFICES ASSUME TypeOK, [Next]_vars PROVE TypeOK'
    OBVIOUS
  <2> USE WriteAssumption
  <2>1. ASSUME NEW s \in Senders, send_check(s) PROVE TypeOK'
    <3>1. sent[s] + 1 \in 1..MaxSends
      BY <2>1 DEF TypeOK, send_check
    <3>2. Frame(s, sent[s] + 1) \in Buffer
      BY <3>1, FrameType
    <3> QED
      BY <2>1, <3>1, <3>2 DEF TypeOK, send_check, ioVars
  <2>2. ASSUME NEW s \in Senders, send_post(s) PROVE TypeOK'
    <3>1. Frame(s, sent[s]) \in Buffer
      BY <2>2, FrameType DEF TypeOK, send_post
    <3> QED
      BY <2>2, <3>1 DEF TypeOK, send_post, ioVars
  <2>3. CASE run_posted
    <3>1. Head(posted) \in Buffer /\ Tail(posted) \in Seq(Buffer)
      BY <2>3, HeadTailProperties DEF TypeOK, run_posted
    <3> QED
      BY <2>3, <3>1, DoWriteType DEF TypeOK, run_posted, senderVars
  <2>4. CASE process_tick
    <3>1. sent[Io] + 1 \in 1..MaxSends
      BY <2>4 DEF TypeOK, process_tick
    <3>2. Frame(Io, sent[Io] + 1) \in Buffer
      BY <3>1, FrameType
    <3> QED
      BY <2>4, <3>1, <3>2, DoWriteType DEF TypeOK, process_tick
  <2>5. CASE async_write_some
    <3>1. Head(inflight) \in Buffer /\ Tail(inflight) \in Seq(Buffer)
      BY <2>5, HeadTailProperties DEF TypeOK, async_write_some
    <3> QED
      BY <2>5, <3>1 DEF TypeOK, async_write_some, senderVars
  <2>6. CASE handle_write
    <3>1. [out_msg_queue EXCEPT ![writing_queue] = <<>>] \in [0..1 -> Seq(Buffer)]
      BY EmptySeq DEF TypeOK
    <3>2. do_write_internal([out_msg_queue EXCEPT ![writing_queue] = <<>>], FALSE, FALSE)
      BY <2>6 DEF handle_write
    <3>3. /\ out_msg_queue' \in [0..1 -> Seq(Buffer)]
          /\ available_queue' \in 0..1
          /\ is_writing' \in BOOLEAN
          /\ inflight' \in Seq(Buffer)
          /\ writing_op' \in BOOLEAN
      BY <3>1, <3>2, WriteInternalType
    <3> QED
      BY <2>6, <3>3 DEF TypeOK, handle_write, senderVars
  <2>7. CASE handle_write_error \/ handle_write_aborted \/ disconnect
    BY <2>7 DEF TypeOK, handle_write_error, handle_write_aborted, disconnect, stop,
                senderVars, ioVars
  <2>8. CASE UNCHANGED vars
    BY <2>8 DEF TypeOK, vars, senderVars, ioVars
  <2> QED
    BY <2>1, <2>2, <2>3, <2>4, <2>5, <2>6, <2>7, <2>8 DEF Next
<1> QED
  BY <1>1, <1>2, PTL DEF Spec
-----------------------------------------------------------------------------
\* Concatenation of buffer sequences is associative.
LEMMA BufferConcat ==
  ASSUME NEW s \in Seq(Buffer), NEW t \in Seq(Buffer), NEW u \in Seq(Buffer)
  PROVE  (s \o t) \o u = s \o (t \o u)
BY ConcatAssociative

\* The elements of a concatenation of buffer sequences.
LEMMA BufferConcatElements ==
  ASSUME NEW s \in Seq(Buffer), NEW t \in Seq(Buffer)
  PROVE  /\ Len(s \o t) = Len(s) + Len(t)
         /\ \A i \in 1..Len(s) + Len(t) :
              (s \o t)[i] = IF i <= Len(s) THEN s[i] ELSE t[i - Len(s)]
BY ConcatProperties

\* Concatenating a sequence with one more element at its end.
LEMMA ConcatAppend ==
  ASSUME NEW s \in Seq(Buffer), NEW t \in Seq(Buffer), NEW e \in Buffer
  PROVE  s \o Append(t, e) = Append(s \o t, e)
<1>1. /\ s \o t \in Seq(Buffer)
      /\ Append(t, e) = t \o <<e>>
      /\ <<e>> \in Seq(Buffer)
  BY ConcatProperties, AppendIsConcat
<1>2. Append(s \o t, e) = (s \o t) \o <<e>>
  BY <1>1, AppendIsConcat
<1> QED
  BY <1>1, <1>2, BufferConcat

\* Moving the first element of a sequence to the end of the one before it.
LEMMA ConcatShift ==
  ASSUME NEW S, NEW s \in Seq(S), NEW t \in Seq(S), t # <<>>
  PROVE  Append(s, Head(t)) \o Tail(t) = s \o t
<1>1. Head(t) \in S /\ Tail(t) \in Seq(S) /\ Len(Tail(t)) = Len(t) - 1
      /\ \A i \in 1..Len(Tail(t)) : Tail(t)[i] = t[i + 1]
  BY HeadTailProperties
<1>2. Append(s, Head(t)) \in Seq(S) /\ Len(Append(s, Head(t))) = Len(s) + 1
  BY <1>1, AppendProperties
<1>3. Len(t) \in Nat \ {0} /\ Len(s) \in Nat
  BY EmptySeq, LenProperties
<1> QED
  BY <1>1, <1>2, <1>3, SeqEqual, ConcatProperties, SMTT(30)

\* do_write adds one frame at the end of what is waiting to reach the socket, and
\* leaves a write outstanding.
LEMMA DoWriteAppends ==
  ASSUME TypeOK, QueueInv, NEW b \in Buffer, do_write(b)
  PROVE  /\ inflight' \o out_msg_queue'[available_queue']
              = Append(inflight \o out_msg_queue[available_queue], b)
         /\ is_writing'
<1> DEFINE q == [out_msg_queue EXCEPT ![available_queue] = Append(@, b)]
<1> USE DEF TypeOK
<1>1. /\ q[available_queue] = Append(out_msg_queue[available_queue], b)
      /\ q[writing_queue] = out_msg_queue[writing_queue]
      /\ q[available_queue] # <<>>
  BY WritingQueue, AppendProperties
<1>2. do_write_internal(q, is_writing, writing_op)
  BY DEF do_write
<1> HIDE DEF q
<1>3. CASE is_writing
  <2>1. /\ inflight' = inflight
        /\ out_msg_queue' = q
        /\ available_queue' = available_queue
        /\ is_writing'
    BY <1>2, <1>3 DEF do_write_internal
  <2>2. inflight \in Seq(Buffer) /\ out_msg_queue[available_queue] \in Seq(Buffer)
    OBVIOUS
  <2>3. inflight \o Append(out_msg_queue[available_queue], b)
          = Append(inflight \o out_msg_queue[available_queue], b)
    BY <2>2, ConcatAppend
  <2> QED
    BY <2>1, <2>3, <1>1
<1>4. CASE ~is_writing
  <2>1. /\ inflight = <<>>
        /\ out_msg_queue[available_queue] = <<>>
        /\ out_msg_queue[writing_queue] = <<>>
    BY <1>4, WritingQueue DEF QueueInv
  <2>2. /\ inflight' = q[available_queue]
        /\ out_msg_queue' = q
        /\ available_queue' = writing_queue
        /\ is_writing'
    BY <1>1, <1>2, <1>4 DEF do_write_internal
  <2>3. Append(<<>>, b) \in Seq(Buffer) /\ <<>> \in Seq(Buffer)
    BY EmptySeq, AppendProperties
  <2>4. Append(<<>>, b) \o <<>> = Append(<<>> \o <<>>, b)
    BY <2>3, ConcatEmptySeq
  <2> QED
    BY <2>1, <2>2, <2>4, <1>1
<1> QED
  BY <1>3, <1>4

\* A completed write takes nothing from what is waiting to reach the socket, and
\* leaves both queues empty unless it starts the next write.
LEMMA HandleWriteKeeps ==
  ASSUME TypeOK, QueueInv, handle_write
  PROVE  /\ inflight' \o out_msg_queue'[available_queue']
              = inflight \o out_msg_queue[available_queue]
         /\ ~is_writing' => /\ inflight' = <<>>
                            /\ \A i \in 0..1 : out_msg_queue'[i] = <<>>
                            /\ ~writing_op'
<1> DEFINE q == [out_msg_queue EXCEPT ![writing_queue] = <<>>]
<1> USE DEF TypeOK
<1>1. /\ q[available_queue] = out_msg_queue[available_queue]
      /\ q[writing_queue] = <<>>
      /\ \A i \in 0..1 : i \in {available_queue, writing_queue}
  BY WritingQueue
<1>2. do_write_internal(q, FALSE, FALSE) /\ inflight = <<>>
  BY DEF handle_write
<1>3. out_msg_queue[available_queue] \in Seq(Buffer)
  OBVIOUS
<1> HIDE DEF q
<1>4. CASE q[available_queue] # <<>>
  <2>1. /\ inflight' = q[available_queue]
        /\ out_msg_queue' = q
        /\ available_queue' = writing_queue
        /\ is_writing'
    BY <1>2, <1>4 DEF do_write_internal
  <2> QED
    BY <2>1, <1>1, <1>2, <1>3, ConcatEmptySeq
<1>5. CASE q[available_queue] = <<>>
  <2>1. /\ inflight' = <<>>
        /\ out_msg_queue' = q
        /\ available_queue' = available_queue
        /\ ~is_writing'
        /\ ~writing_op'
    BY <1>2, <1>5 DEF do_write_internal
  <2> QED
    BY <2>1, <1>1, <1>2, <1>5
<1> QED
  BY <1>4, <1>5

(***************************************************************************)
(* The invariant behind the two main theorems.  Conservation is not        *)
(* inductive by itself: when a write starts, the queue that will collect   *)
(* new frames must be known to be empty, which is what QueueInv says.      *)
(***************************************************************************)
IInv == TypeOK /\ QueueInv /\ Conservation

\* Handing a frame to do_write keeps QueueInv and Conservation.
LEMMA DoWriteInv ==
  ASSUME IInv, NEW b \in Buffer, do_write(b),
         UNCHANGED <<wire, connection_aborted, socket_open>>
  PROVE  QueueInv' /\ Conservation'
<1>1. /\ inflight' \o out_msg_queue'[available_queue']
           = Append(inflight \o out_msg_queue[available_queue], b)
      /\ is_writing'
  BY DoWriteAppends DEF IInv
<1>2. accepted' = Append(accepted, b)
  BY DEF do_write
<1>3. /\ wire \in Seq(Buffer)
      /\ inflight \in Seq(Buffer)
      /\ out_msg_queue[available_queue] \in Seq(Buffer)
  BY DEF IInv, TypeOK
<1>4. inflight \o out_msg_queue[available_queue] \in Seq(Buffer)
  BY <1>3, ConcatProperties
<1>5. wire \o Append(inflight \o out_msg_queue[available_queue], b)
        = Append(wire \o (inflight \o out_msg_queue[available_queue]), b)
  BY <1>3, <1>4, ConcatAppend
<1>6. Conservation'
  BY <1>1, <1>2, <1>5 DEF IInv, Conservation
<1>7. QueueInv'
  BY <1>1 DEF IInv, QueueInv
<1> QED
  BY <1>6, <1>7

\* Every step of send, do_write, handle_write, the TOCK reply and stop() keeps
\* the inductive invariant: one step of the proof per action.
LEMMA IInvStep ==
  ASSUME IInv, TypeOK', [Next]_vars
  PROVE  IInv'
<1> SUFFICES QueueInv' /\ Conservation'
  BY DEF IInv
<1>1. ASSUME NEW s \in Senders, send_check(s) \/ send_post(s)
      PROVE  QueueInv' /\ Conservation'
  <2>1. UNCHANGED <<ioVars, connection_aborted, socket_open, wire, accepted>>
    BY <1>1 DEF send_check, send_post
  <2> QED
    BY <2>1 DEF IInv, QueueInv, Conservation, ioVars
<1>2. CASE run_posted
  <2>1. Head(posted) \in Buffer
    BY <1>2, HeadTailProperties DEF IInv, TypeOK, run_posted
  <2> QED
    BY <1>2, <2>1, DoWriteInv DEF run_posted
<1>3. CASE process_tick
  <2>1. Frame(Io, sent[Io] + 1) \in Buffer
    BY <1>3, WriteAssumption, FrameType DEF IInv, TypeOK, process_tick
  <2> QED
    BY <1>3, <2>1, DoWriteInv DEF process_tick
<1>4. CASE async_write_some
  <2> DEFINE q == out_msg_queue[available_queue]
  <2>1. wire \in Seq(Buffer) /\ inflight \in Seq(Buffer) /\ q \in Seq(Buffer)
    BY DEF IInv, TypeOK
  <2>2. inflight # <<>> /\ wire' = Append(wire, Head(inflight)) /\ inflight' = Tail(inflight)
        /\ UNCHANGED <<out_msg_queue, available_queue, accepted>>
    BY <1>4 DEF async_write_some
  <2>3. Head(inflight) \in Buffer /\ Tail(inflight) \in Seq(Buffer)
    BY <2>1, <2>2, HeadTailProperties
  <2>4. wire' \in Seq(Buffer)
    BY <2>1, <2>2, <2>3, AppendProperties
  <2>5. wire' \o (inflight' \o q) = (wire' \o inflight') \o q
    BY <2>1, <2>2, <2>3, <2>4, BufferConcat
  <2>6. wire' \o inflight' = wire \o inflight
    BY <2>1, <2>2, ConcatShift
  <2>7. (wire \o inflight) \o q = wire \o (inflight \o q)
    BY <2>1, BufferConcat
  <2>8. Conservation'
    BY <2>2, <2>5, <2>6, <2>7 DEF IInv, Conservation
  <2>9. QueueInv'
    BY <1>4 DEF async_write_some, IInv, QueueInv
  <2> QED
    BY <2>8, <2>9
<1>5. CASE handle_write
  <2>1. UNCHANGED <<wire, accepted, connection_aborted, socket_open>>
    BY <1>5 DEF handle_write
  <2> QED
    BY <1>5, <2>1, HandleWriteKeeps DEF IInv, QueueInv, Conservation
<1>6. CASE handle_write_error \/ handle_write_aborted \/ disconnect
  BY <1>6 DEF handle_write_error, handle_write_aborted, disconnect, stop, ioVars,
              IInv, QueueInv, Conservation, TypeOK
<1>7. CASE UNCHANGED vars
  BY <1>7 DEF vars, ioVars, IInv, QueueInv, Conservation
<1> QED
  BY <1>1, <1>2, <1>3, <1>4, <1>5, <1>6, <1>7 DEF Next

\* The inductive invariant of the two output queues holds in every state.
LEMMA IInvCorrect == Spec => []IInv
<1>1. Init => IInv
  <2>1. ASSUME Init PROVE TypeOK
    BY <2>1, WriteAssumption DEF Init, TypeOK
  <2>2. ASSUME Init PROVE QueueInv
    BY <2>2 DEF Init, QueueInv
  <2>3. ASSUME Init PROVE Conservation
    BY <2>3, EmptySeq, ConcatEmptySeq DEF Init, Conservation
  <2> QED
    BY <2>1, <2>2, <2>3 DEF IInv
<1>2. IInv /\ TypeOK' /\ [Next]_vars => IInv'
  BY IInvStep
<1> QED
  BY <1>1, <1>2, TypeCorrect, PTL DEF Spec

(***************************************************************************)
(* Whatever threads send and whenever the connection stops, the frames     *)
(* handed to do_write are the ones on the wire, followed by the ones being *)
(* written, followed by the ones collected: none lost, repeated, reordered. *)
(***************************************************************************)
THEOREM ConservationCorrect == Spec => []Conservation
<1>1. IInv => Conservation
  BY DEF IInv
<1> QED
  BY <1>1, IInvCorrect, PTL

\* The buffer async_write transfers next is the oldest accepted one that is not
\* on the wire yet.
LEMMA NextOnWire ==
  ASSUME IInv, inflight # <<>>
  PROVE  Len(wire) < Len(accepted) /\ accepted[Len(wire) + 1] = Head(inflight)
<1> DEFINE rest == inflight \o out_msg_queue[available_queue]
<1>1. /\ wire \in Seq(Buffer)
      /\ inflight \in Seq(Buffer)
      /\ out_msg_queue[available_queue] \in Seq(Buffer)
  BY DEF IInv, TypeOK
<1>2. Len(inflight) \in Nat \ {0} /\ Len(wire) \in Nat
      /\ Len(out_msg_queue[available_queue]) \in Nat
  BY <1>1, EmptySeq, LenProperties
<1>3. /\ rest \in Seq(Buffer)
      /\ Len(rest) = Len(inflight) + Len(out_msg_queue[available_queue])
      /\ rest[1] = inflight[1]
  BY <1>1, <1>2, ConcatProperties
<1>4. accepted = wire \o rest
  BY DEF IInv, Conservation
<1> HIDE DEF rest
<1>5. /\ Len(wire \o rest) = Len(wire) + Len(rest)
      /\ \A i \in 1..Len(wire) + Len(rest) :
           (wire \o rest)[i] = IF i <= Len(wire) THEN wire[i] ELSE rest[i - Len(wire)]
  BY <1>1, <1>3, BufferConcatElements
<1>6. Len(wire) + 1 \in 1..Len(wire) + Len(rest)
  BY <1>2, <1>3
<1>7. accepted[Len(wire) + 1] = rest[1]
  BY <1>2, <1>4, <1>5, <1>6
<1> QED
  BY <1>1, <1>2, <1>3, <1>4, <1>5, <1>7

(***************************************************************************)
(* The two queues, the gather writes and stop() implement FifoChannel, for *)
(* any number of senders and frames.                                       *)
(***************************************************************************)
THEOREM ChannelCorrect == Spec => ImplementsChannel
<1>1. Init => Channel!ChanInit
  BY DEF Init, Channel!ChanInit
<1>2. IInv /\ [Next]_vars => [Channel!ChanNext]_(Channel!chanVars)
  <2> SUFFICES ASSUME IInv, [Next]_vars
               PROVE  Channel!ChanNext \/ UNCHANGED <<accepted, wire, connection_aborted>>
    BY DEF Channel!chanVars
  <2>1. ASSUME NEW s \in Senders, send_check(s) \/ send_post(s)
        PROVE  UNCHANGED <<accepted, wire, connection_aborted>>
    BY <2>1 DEF send_check, send_post
  <2>2. CASE run_posted
    <3>1. Head(posted) \in Buffer
      BY <2>2, HeadTailProperties DEF IInv, TypeOK, run_posted
    <3>2. Channel!Accept(Head(posted))
      BY <2>2 DEF run_posted, do_write, Channel!Accept
    <3> QED
      BY <3>1, <3>2 DEF Channel!ChanNext
  <2>3. CASE process_tick
    <3>1. Frame(Io, sent[Io] + 1) \in Buffer
      BY <2>3, WriteAssumption, FrameType DEF IInv, TypeOK, process_tick
    <3>2. Channel!Accept(Frame(Io, sent[Io] + 1))
      BY <2>3 DEF process_tick, do_write, Channel!Accept
    <3> QED
      BY <3>1, <3>2 DEF Channel!ChanNext
  <2>4. CASE async_write_some
    <3>1. ~connection_aborted
      BY <2>4 DEF async_write_some, IInv, QueueInv, TypeOK
    <3>2. Channel!Transmit
      BY <2>4, <3>1, NextOnWire DEF async_write_some, Channel!Transmit
    <3> QED
      BY <3>2 DEF Channel!ChanNext
  <2>5. CASE handle_write \/ handle_write_aborted
    BY <2>5 DEF handle_write, handle_write_aborted
  <2>6. CASE handle_write_error \/ disconnect
    <3>1. Channel!Close
      BY <2>6 DEF handle_write_error, disconnect, stop, Channel!Close
    <3> QED
      BY <3>1 DEF Channel!ChanNext
  <2>7. CASE UNCHANGED vars
    BY <2>7 DEF vars
  <2> QED
    BY <2>1, <2>2, <2>3, <2>4, <2>5, <2>6, <2>7 DEF Next
<1> QED
  BY <1>1, <1>2, IInvCorrect, PTL DEF Spec, ImplementsChannel, Channel!ChanSpec
-----------------------------------------------------------------------------
(***************************************************************************)
(* Who owns a buffer.  BuffersOwned is not inductive by itself:            *)
(* handle_write subtracts the written queue's buffers from the allocated   *)
(* ones, which is right only if none of them is anywhere else too.  They   *)
(* are not, because a sender's counter has passed every frame that is on   *)
(* its way and a posted frame leaves the io_service when it enters a queue. *)
(***************************************************************************)
Posted == Contents(posted)
Queued(k) == Contents(out_msg_queue[k])
Encoded == {Frame(s, sent[s]) : s \in encoded}

\* A frame on its way is not the one its sender will make, or is making, next.
Passed == \A b \in Posted \cup Queued(0) \cup Queued(1) :
            /\ b.seq <= sent[b.from]
            /\ b.from \in encoded => b.seq # sent[b.from]

\* A buffer is in one place.
Apart ==
  /\ \A i, j \in DOMAIN posted : posted[i] = posted[j] => i = j
  /\ Posted \cap Queued(0) = {}
  /\ Posted \cap Queued(1) = {}
  /\ Queued(0) \cap Queued(1) = {}

\* What the outstanding write has yet to transfer is kept by the queue being written.
Pinned == Contents(inflight) \subseteq Queued(writing_queue)

Held == Posted \cup Queued(0) \cup Queued(1) \cup Encoded

OwnedInv ==
  /\ Passed
  /\ Apart
  /\ Pinned
  /\ Held \subseteq allocated
  /\ ~connection_aborted => allocated \subseteq Held

\* The contents of sequences of buffers.
LEMMA ContentsFacts ==
  ASSUME NEW s \in Seq(Buffer)
  PROVE  /\ Contents(s) \subseteq Buffer
         /\ Contents(<<>>) = {}
         /\ \A b \in Buffer : Contents(Append(s, b)) = Contents(s) \cup {b}
         /\ s # <<>> => /\ Head(s) \in Contents(s)
                        /\ Contents(s) = {Head(s)} \cup Contents(Tail(s))
<1>1. Contents(s) \subseteq Buffer /\ Contents(<<>>) = {}
  BY DEF Contents
<1>2. ASSUME NEW b \in Buffer
      PROVE  Contents(Append(s, b)) = Contents(s) \cup {b}
  <2>1. /\ DOMAIN Append(s, b) = 1..Len(s) + 1 /\ DOMAIN s = 1..Len(s) /\ Len(s) \in Nat
        /\ Append(s, b)[Len(s) + 1] = b
        /\ \A i \in 1..Len(s) : Append(s, b)[i] = s[i]
    BY AppendProperties, LenProperties
  <2>2. 1..Len(s) + 1 = (1..Len(s)) \cup {Len(s) + 1}
    BY <2>1
  <2> QED
    BY <2>1, <2>2 DEF Contents
<1>3. ASSUME s # <<>>
      PROVE  /\ Head(s) \in Contents(s)
             /\ Contents(s) = {Head(s)} \cup Contents(Tail(s))
  <2>1. /\ Len(Tail(s)) = Len(s) - 1 /\ Tail(s) \in Seq(Buffer)
        /\ Head(s) = s[1]
        /\ \A i \in 1..Len(Tail(s)) : Tail(s)[i] = s[i + 1]
        /\ Len(s) \in Nat \ {0}
    BY <1>3, HeadTailProperties, EmptySeq, LenProperties
  <2>2. ASSUME NEW x \in Contents(s)
        PROVE  x = Head(s) \/ x \in Contents(Tail(s))
    <3>1. PICK i \in 1..Len(s) : x = s[i]
      BY DEF Contents
    <3>2. i = 1 \/ (i - 1 \in 1..Len(Tail(s)) /\ Tail(s)[i - 1] = s[i])
      BY <2>1
    <3>3. CASE i = 1
      BY <2>1, <3>1, <3>3
    <3>4. CASE i - 1 \in 1..Len(Tail(s)) /\ Tail(s)[i - 1] = s[i]
      <4>1. DOMAIN Tail(s) = 1..Len(Tail(s))
        BY <2>1
      <4> QED
        BY <3>1, <3>4, <4>1 DEF Contents
    <3> QED
      BY <3>2, <3>3, <3>4
  <2>3. ASSUME NEW x \in Contents(Tail(s))
        PROVE  x \in Contents(s)
    <3>1. PICK i \in 1..Len(Tail(s)) : x = Tail(s)[i]
      BY <2>1 DEF Contents
    <3>2. i + 1 \in 1..Len(s) /\ x = s[i + 1]
      BY <2>1, <3>1
    <3> QED
      BY <3>2 DEF Contents
  <2> QED
    BY <2>1, <2>2, <2>3 DEF Contents
<1> QED
  BY <1>1, <1>2, <1>3

\* The elements of an injective sequence of buffers without its first one.
LEMMA InjectiveTail ==
  ASSUME NEW s \in Seq(Buffer), s # <<>>,
         \A i, j \in DOMAIN s : s[i] = s[j] => i = j
  PROVE  /\ \A i, j \in DOMAIN Tail(s) : Tail(s)[i] = Tail(s)[j] => i = j
         /\ Head(s) \notin Contents(Tail(s))
<1>1. /\ Len(Tail(s)) = Len(s) - 1 /\ Tail(s) \in Seq(Buffer)
      /\ Head(s) = s[1]
      /\ \A i \in 1..Len(Tail(s)) : Tail(s)[i] = s[i + 1]
      /\ Len(s) \in Nat \ {0}
  BY HeadTailProperties, EmptySeq, LenProperties
<1>2. ASSUME NEW i \in DOMAIN Tail(s), NEW j \in DOMAIN Tail(s), Tail(s)[i] = Tail(s)[j]
      PROVE  i = j
  BY <1>1, <1>2
<1>3. ASSUME NEW i \in DOMAIN Tail(s) PROVE Tail(s)[i] # s[1]
  BY <1>1
<1> QED
  BY <1>1, <1>2, <1>3 DEF Contents

\* do_write puts the frame into one of the queues, and what is being written is in
\* the other queue afterwards.
LEMMA DoWriteOwned ==
  ASSUME TypeOK, QueueInv, Pinned,
         Queued(0) \cap Queued(1) = {}, NEW b \in Buffer,
         b \notin Queued(0) \cup Queued(1), do_write(b)
  PROVE  /\ Queued(0)' \cup Queued(1)' = Queued(0) \cup Queued(1) \cup {b}
         /\ Queued(0)' \cap Queued(1)' = {}
         /\ Pinned'
<1> DEFINE q == [out_msg_queue EXCEPT ![available_queue] = Append(@, b)]
<1>1. /\ available_queue \in 0..1 /\ writing_queue \in 0..1
      /\ writing_queue # available_queue
      /\ out_msg_queue \in [0..1 -> Seq(Buffer)]
  BY WritingQueue DEF TypeOK
<1>2. /\ Contents(q[available_queue]) = Queued(available_queue) \cup {b}
      /\ Contents(q[writing_queue]) = Queued(writing_queue)
      /\ q[available_queue] # <<>>
  BY <1>1, ContentsFacts, AppendProperties DEF Queued
<1>3. do_write_internal(q, is_writing, writing_op)
  BY DEF do_write
<1> HIDE DEF q
<1>4. out_msg_queue' = q
  BY <1>3 DEF do_write_internal
<1>5. \/ available_queue = 0 /\ writing_queue = 1
      \/ available_queue = 1 /\ writing_queue = 0
  BY <1>1
<1>6. /\ Queued(0)' \cup Queued(1)' = Queued(0) \cup Queued(1) \cup {b}
      /\ Queued(0)' \cap Queued(1)' = {}
  BY <1>2, <1>4, <1>5 DEF Queued
<1>7. CASE is_writing
  <2>1. inflight' = inflight /\ available_queue' = available_queue
    BY <1>3, <1>7 DEF do_write_internal
  <2>2. writing_queue' = writing_queue
    BY <2>1 DEF writing_queue
  <2> QED
    BY <1>2, <1>4, <1>6, <2>1, <2>2 DEF Queued, Pinned
<1>8. CASE ~is_writing
  <2>1. inflight' = q[available_queue] /\ available_queue' = writing_queue
    BY <1>2, <1>3, <1>8 DEF do_write_internal
  <2>2. writing_queue' = available_queue
    BY <1>5, <2>1 DEF writing_queue
  <2> QED
    BY <1>4, <1>6, <2>1, <2>2 DEF Queued, Pinned
<1> QED
  BY <1>7, <1>8

\* A completed write empties the queue that was written and, if there is more,
\* starts on the other.
LEMMA HandleWriteOwned ==
  ASSUME TypeOK, handle_write
  PROVE  /\ Queued(0)' \cup Queued(1)' = Queued(available_queue)
         /\ Queued(0)' \cap Queued(1)' = {}
         /\ Pinned'
<1> DEFINE q == [out_msg_queue EXCEPT ![writing_queue] = <<>>]
<1>1. /\ available_queue \in 0..1 /\ writing_queue \in 0..1
      /\ writing_queue # available_queue
      /\ out_msg_queue \in [0..1 -> Seq(Buffer)]
  BY WritingQueue DEF TypeOK
<1>2. /\ q[available_queue] = out_msg_queue[available_queue]
      /\ q[writing_queue] = <<>>
  BY <1>1
<1>3. do_write_internal(q, FALSE, FALSE) /\ inflight = <<>>
  BY DEF handle_write
<1> HIDE DEF q
<1>4. out_msg_queue' = q
  BY <1>3 DEF do_write_internal
<1>5. \/ available_queue = 0 /\ writing_queue = 1
      \/ available_queue = 1 /\ writing_queue = 0
  BY <1>1
<1>6. Contents(<<>>) = {}
  BY DEF Contents
<1>7. /\ Queued(0)' \cup Queued(1)' = Queued(available_queue)
      /\ Queued(0)' \cap Queued(1)' = {}
  BY <1>2, <1>4, <1>5, <1>6 DEF Queued
<1>8. CASE q[available_queue] # <<>>
  <2>1. inflight' = q[available_queue] /\ available_queue' = writing_queue
    BY <1>3, <1>8 DEF do_write_internal
  <2>2. writing_queue' = available_queue
    BY <1>5, <2>1 DEF writing_queue
  <2> QED
    BY <1>4, <1>7, <2>1, <2>2 DEF Queued, Pinned
<1>9. CASE q[available_queue] = <<>>
  <2>1. inflight' = <<>> /\ available_queue' = available_queue
    BY <1>3, <1>9 DEF do_write_internal
  <2> QED
    BY <1>6, <1>7, <2>1 DEF Pinned
<1> QED
  BY <1>8, <1>9

\* What is posted or queued are frames of the senders.
LEMMA OnTheWay ==
  ASSUME TypeOK
  PROVE  \A b \in Posted \cup Queued(0) \cup Queued(1) :
           b \in Buffer /\ b.from \in Senders \cup {Io} /\ b.seq \in Nat
<1>1. Posted \cup Queued(0) \cup Queued(1) \subseteq Buffer
  BY ContentsFacts DEF Posted, Queued, TypeOK
<1> QED
  BY <1>1, WriteAssumption DEF Buffer

\* A frame that was just made, or is about to be posted, is not on its way.
LEMMA NotOnTheWay ==
  ASSUME TypeOK, Passed, NEW s \in Senders \cup {Io}, NEW n \in Nat,
         n > sent[s] \/ (n = sent[s] /\ s \in encoded)
  PROVE  Frame(s, n) \notin Posted \cup Queued(0) \cup Queued(1)
<1> SUFFICES ASSUME Frame(s, n) \in Posted \cup Queued(0) \cup Queued(1)
             PROVE  FALSE
  OBVIOUS
<1>1. Frame(s, n).from = s /\ Frame(s, n).seq = n
  BY DEF Frame
<1>2. n <= sent[s] /\ (s \in encoded => n # sent[s])
  BY <1>1 DEF Passed
<1>3. sent[s] \in Nat
  BY WriteAssumption DEF TypeOK
<1> QED
  BY <1>2, <1>3

\* Every step keeps each buffer in one place and allocated as long as it is there.
LEMMA OwnedStep ==
  ASSUME IInv, OwnedInv, TypeOK', [Next]_vars
  PROVE  OwnedInv'
<1> USE DEF IInv
<1>1. ASSUME NEW s \in Senders, send_check(s)
      PROVE  OwnedInv'
  <2>1. /\ s \notin encoded
        /\ sent' = [sent EXCEPT ![s] = @ + 1]
        /\ UNCHANGED <<posted, out_msg_queue, available_queue, inflight, connection_aborted>>
    BY <1>1 DEF send_check, ioVars
  <2>2. /\ UNCHANGED <<Posted, Queued(0), Queued(1)>>
        /\ Pinned'
    BY <2>1 DEF OwnedInv, Pinned, Posted, Queued, writing_queue
  <2>3. /\ sent[s] \in Nat /\ sent'[s] = sent[s] + 1
        /\ \A u \in Senders \cup {Io} : u # s => sent'[u] = sent[u]
    BY <2>1, WriteAssumption DEF TypeOK
  <2>4. \A b \in Posted \cup Queued(0) \cup Queued(1) :
          b \in Buffer /\ b.from \in Senders \cup {Io} /\ b.seq \in Nat
    BY OnTheWay
  <2>5. Passed'
    <3> SUFFICES ASSUME NEW b \in Posted \cup Queued(0) \cup Queued(1)
                 PROVE  /\ b.seq <= sent'[b.from]
                        /\ b.from \in encoded' => b.seq # sent'[b.from]
      BY <2>2 DEF Passed
    <3>1. encoded' \subseteq encoded \cup {s}
      BY <1>1 DEF send_check
    <3>2. b.seq <= sent[b.from] /\ (b.from \in encoded => b.seq # sent[b.from])
      BY DEF OwnedInv, Passed
    <3> QED
      BY <2>3, <2>4, <3>1, <3>2
  <2>6. Apart'
    BY <2>1, <2>2 DEF OwnedInv, Apart
  <2>7. \A u \in encoded : Frame(u, sent'[u]) = Frame(u, sent[u])
    BY <2>1, <2>3 DEF TypeOK
  <2>8. CASE ~connection_aborted
    <3>1. encoded' = encoded \cup {s} /\ allocated' = allocated \cup {Frame(s, sent[s] + 1)}
      BY <1>1, <2>8 DEF send_check
    <3>2. Encoded' = Encoded \cup {Frame(s, sent[s] + 1)}
      BY <2>3, <2>7, <3>1 DEF Encoded
    <3> QED
      BY <2>1, <2>2, <2>5, <2>6, <3>1, <3>2 DEF OwnedInv, Held
  <2>9. CASE connection_aborted
    <3>1. encoded' = encoded /\ allocated' = allocated
      BY <1>1, <2>9 DEF send_check
    <3>2. Encoded' = Encoded
      BY <2>7, <3>1 DEF Encoded
    <3> QED
      BY <2>1, <2>2, <2>5, <2>6, <3>1, <3>2 DEF OwnedInv, Held
  <2> QED
    BY <2>8, <2>9
<1>2. ASSUME NEW s \in Senders, send_post(s)
      PROVE  OwnedInv'
  <2> DEFINE f == Frame(s, sent[s])
  <2>1. /\ s \in encoded /\ encoded' = encoded \ {s}
        /\ posted' = Append(posted, f)
        /\ UNCHANGED <<sent, out_msg_queue, available_queue, inflight,
                       connection_aborted, allocated>>
    BY <1>2 DEF send_post, ioVars
  <2>2. sent[s] \in 1..MaxSends /\ f \in Buffer /\ posted \in Seq(Buffer)
    <3>1. sent[s] \in 1..MaxSends
      BY <2>1, WriteAssumption DEF TypeOK
    <3> QED
      BY <3>1, FrameType DEF TypeOK
  <2>3. /\ UNCHANGED <<Queued(0), Queued(1)>>
        /\ Pinned'
    BY <2>1 DEF OwnedInv, Pinned, Queued, writing_queue
  <2>4. Posted' = Posted \cup {f}
    BY <2>1, <2>2, ContentsFacts DEF Posted
  <2>5. f \notin Posted \cup Queued(0) \cup Queued(1)
    BY <2>1, <2>2, NotOnTheWay DEF OwnedInv
  <2>6. f.from = s /\ f.seq = sent[s]
    BY DEF Frame
  <2>7. Encoded' \subseteq Encoded /\ Encoded \subseteq Encoded' \cup {f}
    BY <2>1 DEF Encoded
  <2>8. f \in Encoded
    BY <2>1 DEF Encoded
  <2> HIDE DEF f
  <2>9. Passed'
    <3> SUFFICES ASSUME NEW b \in Posted \cup {f} \cup Queued(0) \cup Queued(1)
                 PROVE  /\ b.seq <= sent[b.from]
                        /\ b.from \in encoded \ {s} => b.seq # sent[b.from]
      BY <2>1, <2>3, <2>4 DEF Passed
    <3>1. CASE b = f
      BY <2>2, <2>6, <3>1
    <3>2. CASE b # f
      BY <3>2 DEF OwnedInv, Passed
    <3> QED
      BY <3>1, <3>2
  <2>10. Apart'
    <3>1. /\ DOMAIN posted' = 1..Len(posted) + 1 /\ Len(posted) \in Nat
          /\ posted'[Len(posted) + 1] = f
          /\ \A i \in 1..Len(posted) : posted'[i] = posted[i] /\ posted[i] \in Posted
      BY <2>1, <2>2, AppendProperties, LenProperties DEF Posted, Contents
    <3>2. \A i, j \in 1..Len(posted) : posted[i] = posted[j] => i = j
      BY <2>2 DEF OwnedInv, Apart
    <3>3. \A i, j \in DOMAIN posted' : posted'[i] = posted'[j] => i = j
      BY <2>5, <3>1, <3>2
    <3> QED
      BY <2>3, <2>4, <2>5, <3>3 DEF OwnedInv, Apart
  <2> QED
    BY <2>1, <2>3, <2>4, <2>7, <2>8, <2>9, <2>10 DEF OwnedInv, Held
<1>3. CASE run_posted
  <2> DEFINE b == Head(posted)
  <2>1. /\ posted # <<>> /\ posted \in Seq(Buffer) /\ b \in Buffer
        /\ posted' = Tail(posted)
        /\ do_write(b)
        /\ UNCHANGED <<sent, encoded, connection_aborted, allocated>>
    BY <1>3, HeadTailProperties DEF run_posted, TypeOK, senderVars
  <2>2. Posted = {b} \cup Posted' /\ b \notin Posted'
        /\ \A i, j \in DOMAIN posted' : posted'[i] = posted'[j] => i = j
    BY <2>1, ContentsFacts, InjectiveTail DEF Posted, OwnedInv, Apart
  <2> HIDE DEF b
  <2>3. b \notin Queued(0) \cup Queued(1)
    BY <2>2 DEF OwnedInv, Apart
  <2>4. /\ Queued(0)' \cup Queued(1)' = Queued(0) \cup Queued(1) \cup {b}
        /\ Queued(0)' \cap Queued(1)' = {}
        /\ Pinned'
    BY <2>1, <2>3, DoWriteOwned DEF OwnedInv, Apart
  <2>5. Apart'
    BY <2>2, <2>4 DEF OwnedInv, Apart
  <2>6. Posted' \cup Queued(0)' \cup Queued(1)' = Posted \cup Queued(0) \cup Queued(1)
    BY <2>2, <2>4
  <2>7. Passed'
    BY <2>1, <2>6 DEF OwnedInv, Passed
  <2>8. Held' = Held
    BY <2>1, <2>6 DEF Held, Encoded
  <2> QED
    BY <2>1, <2>4, <2>5, <2>7, <2>8 DEF OwnedInv
<1>4. CASE process_tick
  <2> DEFINE b == Frame(Io, sent[Io] + 1)
  <2>1. /\ ~connection_aborted
        /\ sent' = [sent EXCEPT ![Io] = @ + 1]
        /\ allocated' = allocated \cup {b}
        /\ do_write(b)
        /\ UNCHANGED <<encoded, posted, connection_aborted>>
    BY <1>4 DEF process_tick
  <2>2. /\ sent[Io] + 1 \in 1..MaxSends /\ sent[Io] \in Nat
        /\ sent'[Io] = sent[Io] + 1
        /\ \A u \in Senders : sent'[u] = sent[u]
        /\ Io \notin encoded /\ encoded \subseteq Senders
    BY <1>4, <2>1, WriteAssumption DEF process_tick, TypeOK
  <2>3. b \in Buffer /\ b.from = Io /\ b.seq = sent[Io] + 1
    BY <2>2, FrameType DEF Frame
  <2>4. b \notin Posted \cup Queued(0) \cup Queued(1)
    BY <2>2, NotOnTheWay DEF OwnedInv
  <2> HIDE DEF b
  <2>5. /\ Queued(0)' \cup Queued(1)' = Queued(0) \cup Queued(1) \cup {b}
        /\ Queued(0)' \cap Queued(1)' = {}
        /\ Pinned'
    BY <2>1, <2>3, <2>4, DoWriteOwned DEF OwnedInv, Apart
  <2>6. Posted' = Posted
    BY <2>1 DEF Posted
  <2>7. Apart'
    BY <2>1, <2>4, <2>5, <2>6 DEF OwnedInv, Apart
  <2>8. Passed'
    <3> SUFFICES ASSUME NEW d \in Posted \cup Queued(0) \cup Queued(1) \cup {b}
                 PROVE  /\ d.seq <= sent'[d.from]
                        /\ d.from \in encoded => d.seq # sent'[d.from]
      BY <2>1, <2>5, <2>6 DEF Passed
    <3>1. CASE d = b
      BY <2>2, <2>3, <3>1
    <3>2. CASE d # b
      <4>1. d.from \in Senders \cup {Io} /\ d.seq \in Nat
        BY <3>2, OnTheWay
      <4>2. d.seq <= sent[d.from] /\ (d.from \in encoded => d.seq # sent[d.from])
        BY <3>2 DEF OwnedInv, Passed
      <4> QED
        BY <2>2, <4>1, <4>2
    <3> QED
      BY <3>1, <3>2
  <2>9. Encoded' = Encoded
    BY <2>1, <2>2 DEF Encoded
  <2>10. Held' = Held \cup {b}
    BY <2>5, <2>6, <2>9 DEF Held
  <2> QED
    BY <2>1, <2>5, <2>7, <2>8, <2>10 DEF OwnedInv
<1>5. CASE async_write_some
  <2>1. /\ inflight # <<>> /\ inflight' = Tail(inflight)
        /\ UNCHANGED <<sent, encoded, posted, out_msg_queue, available_queue,
                       connection_aborted, allocated>>
    BY <1>5 DEF async_write_some, senderVars
  <2>2. Contents(inflight') \subseteq Contents(inflight)
    BY <2>1, ContentsFacts DEF TypeOK
  <2>3. Pinned'
    BY <2>1, <2>2 DEF OwnedInv, Pinned, Queued, writing_queue
  <2>4. Passed' /\ Apart' /\ Held' = Held
    BY <2>1 DEF OwnedInv, Passed, Apart, Held, Posted, Queued, Encoded
  <2> QED
    BY <2>1, <2>3, <2>4 DEF OwnedInv
<1>6. CASE handle_write
  <2>1. /\ ~connection_aborted
        /\ allocated' = allocated \ Queued(writing_queue)
        /\ UNCHANGED <<sent, encoded, posted, connection_aborted>>
    BY <1>6 DEF handle_write, senderVars, Queued
  <2>2. /\ Queued(0)' \cup Queued(1)' = Queued(available_queue)
        /\ Queued(0)' \cap Queued(1)' = {}
        /\ Pinned'
    BY <1>6, HandleWriteOwned
  <2>3. \/ available_queue = 0 /\ writing_queue = 1
        \/ available_queue = 1 /\ writing_queue = 0
    BY WritingQueue DEF TypeOK
  <2>4. Posted' = Posted /\ Encoded' = Encoded
    BY <2>1 DEF Posted, Encoded
  <2>5. Encoded \cap (Queued(0) \cup Queued(1)) = {}
    <3> SUFFICES ASSUME NEW s \in encoded
                 PROVE  Frame(s, sent[s]) \notin Queued(0) \cup Queued(1)
      BY DEF Encoded
    <3>1. s \in Senders /\ sent[s] \in Nat
      BY WriteAssumption DEF TypeOK
    <3> QED
      BY <3>1, NotOnTheWay DEF OwnedInv
  <2>6. Passed'
    BY <2>1, <2>2, <2>3, <2>4 DEF OwnedInv, Passed
  <2>7. Apart'
    BY <2>1, <2>2, <2>3, <2>4 DEF OwnedInv, Apart
  <2>8. allocated = Held
    BY <2>1 DEF OwnedInv
  <2>9. allocated' = Held'
    BY <2>1, <2>2, <2>3, <2>4, <2>5, <2>8 DEF OwnedInv, Apart, Held
  <2> QED
    BY <2>2, <2>6, <2>7, <2>9 DEF OwnedInv
<1>7. CASE handle_write_error \/ handle_write_aborted \/ disconnect
  <2>1. /\ connection_aborted'
        /\ UNCHANGED <<sent, encoded, posted, out_msg_queue, available_queue, inflight,
                       allocated>>
    BY <1>7 DEF handle_write_error, handle_write_aborted, disconnect, stop, senderVars, ioVars
  <2> QED
    BY <2>1 DEF OwnedInv, Passed, Apart, Pinned, Held, Posted, Queued, Encoded, writing_queue
<1>8. CASE UNCHANGED vars
  BY <1>8 DEF vars, senderVars, ioVars, OwnedInv, Passed, Apart, Pinned, Held, Posted, Queued,
              Encoded, writing_queue
<1> QED
  BY <1>1, <1>2, <1>3, <1>4, <1>5, <1>6, <1>7, <1>8 DEF Next

(***************************************************************************)
(* Whatever threads send and whenever the connection stops, an outstanding *)
(* write never reads a buffer that handle_write has freed, and a live      *)
(* connection has allocated exactly the buffers that are on their way.     *)
(***************************************************************************)
THEOREM BuffersOwnedCorrect == Spec => []BuffersOwned
<1>1. ASSUME Init PROVE OwnedInv
  <2>1. /\ posted = <<>> /\ encoded = {} /\ inflight = <<>> /\ allocated = {}
        /\ out_msg_queue[0] = <<>> /\ out_msg_queue[1] = <<>>
    BY <1>1 DEF Init
  <2>2. Contents(<<>>) = {} /\ DOMAIN <<>> = {}
    BY DEF Contents
  <2>3. Posted = {} /\ Queued(0) = {} /\ Queued(1) = {} /\ Encoded = {}
    BY <2>1, <2>2 DEF Posted, Queued, Encoded
  <2> QED
    BY <2>1, <2>2, <2>3 DEF OwnedInv, Passed, Apart, Pinned, Held
<1>2. IInv /\ OwnedInv /\ TypeOK' /\ [Next]_vars => OwnedInv'
  BY OwnedStep
<1>3. IInv /\ OwnedInv => BuffersOwned
  <2> SUFFICES ASSUME IInv, OwnedInv
               PROVE  BuffersOwned
    OBVIOUS
  <2>1. writing_queue \in 0..1
    BY WritingQueue DEF IInv, TypeOK
  <2>2. Contents(inflight) \subseteq Queued(0) \cup Queued(1)
    BY <2>1 DEF OwnedInv, Pinned
  <2>3. Contents(inflight) \subseteq allocated
    BY <2>2 DEF OwnedInv, Held
  <2> QED
    BY <2>3 DEF OwnedInv, Held, Posted, Queued, Encoded, BuffersOwned
<1> QED
  BY <1>1, <1>2, <1>3, IInvCorrect, TypeCorrect, PTL DEF Spec
=============================================================================
