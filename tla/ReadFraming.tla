------------------------------ MODULE ReadFraming ------------------------------
(***************************************************************************)
(* connection::handle_read: the read buffer of an established connection   *)
(* and the cutting of the byte stream into length-prefixed frames.         *)
(*                                                                         *)
(* A byte is the pair of the number of its frame and its offset in it, so  *)
(* bytes that are lost, repeated or taken for something else show.  The    *)
(* sizes of the code (a header of 4 bytes, a buffer of 16K, a 64-bit       *)
(* size_t) are parameters.  Read errors are in OtpConnection.              *)
(***************************************************************************)
EXTENDS Naturals, Sequences, FiniteSetsExt

CONSTANTS
  s_header_size,  \* bytes of a frame's length prefix
  BufferSize,     \* initial size of m_rd_buf
  WordRange,      \* size_t is the integers modulo this number
  PacketSizes,    \* sizes of the frames the peer sends; 0 is a TICK
  MaxFrames,      \* bound: frames the peer sends
  Pipelined       \* whether the peer sends a frame before its last one is handled

ASSUME FramingAssumption ==
  /\ {s_header_size, BufferSize, MaxFrames, WordRange} \subseteq Nat \ {0}
  /\ s_header_size <= BufferSize
  /\ PacketSizes \subseteq Nat
  /\ \A n \in PacketSizes : 2 * (n + s_header_size) < WordRange
  /\ 2 * BufferSize < WordRange
  /\ Pipelined \in BOOLEAN

VARIABLES
  sent,         \* history: sizes of the frames the peer sent
  wire,         \* bytes sent and not yet read
  rd_buf,       \* m_rd_buf: its memory, capacity() bytes of it
  rd_ptr,       \* m_rd_ptr and m_rd_end, as offsets
  rd_end,
  packet_size,  \* m_packet_size
  got_header,   \* m_got_header
  need,         \* transfer_at_least() of the outstanding async_read
  dispatched    \* payloads given to process_message so far

vars == <<sent, wire, rd_buf, rd_ptr, rd_end, packet_size, got_header, need, dispatched>>

\* A byte of memory that holds nothing of the stream.
Garbage == <<0, 0>>

Frame(i, n) == [k \in 1..(s_header_size + n) |-> <<i, k>>]
Payload(i) == [k \in 1..sent[i] |-> <<i, s_header_size + k>>]

\* cast_be<uint32_t>: the length found at offset p.
LengthAt(buf, p) == sent[buf[p + 1][1]]

rd_length == rd_end - rd_ptr

rd_capacity == Len(rd_buf) - rd_length

\* need_bytes, an unsigned difference.
NeedBytes(size, len) == (WordRange + size + s_header_size - len) % WordRange
-----------------------------------------------------------------------------
Init ==
  /\ sent = <<>>
  /\ wire = <<>>
  /\ rd_buf = [p \in 1..BufferSize |-> Garbage]
  /\ rd_ptr = 0
  /\ rd_end = 0
  /\ packet_size = s_header_size
  /\ got_header = FALSE
  /\ need = s_header_size
  /\ dispatched = <<>>

\* The peer sends a frame of n bytes.
peer_sends(n) ==
  /\ Len(sent) < MaxFrames
  /\ Pipelined \/ Len(dispatched) = Len(sent)
  /\ sent' = Append(sent, n)
  /\ wire' = wire \o Frame(Len(sent) + 1, n)
  /\ UNCHANGED <<rd_buf, rd_ptr, rd_end, packet_size, got_header, need, dispatched>>

\* The buffer after bytes_transferred = k more bytes were read into it.
Filled(k) ==
  [p \in 1..Len(rd_buf) |->
     IF p > rd_end /\ p <= rd_end + k THEN wire[p - rd_end] ELSE rd_buf[p]]

\* Mutant: the header is forgotten in the size of the buffer.
mut_reserved(buf, size) ==
  IF size > Len(buf) - s_header_size
  THEN [p \in 1..(rd_ptr + size) |-> IF p <= BufferSize THEN buf[p] ELSE Garbage]
  ELSE buf

\* m_rd_buf.reserve for a frame of the given size: the vector has BufferSize
\* elements whatever its capacity, and only the elements are moved.
Reserved(buf, size) ==
  IF size > Len(buf) - s_header_size
  THEN [p \in 1..(rd_ptr + size + s_header_size) |->
          IF p <= BufferSize THEN buf[p] ELSE Garbage]
  ELSE buf

RECURSIVE mut_process_all(_, _, _)
\* Mutant: the header is not skipped.
mut_process_all(s, buf, end) ==
  IF ~(s.header /\ s.need <= 0) THEN s ELSE
  LET next == s.ptr + s_header_size + s.size
      more == end - next >= s_header_size
      size == IF more THEN LengthAt(buf, next) ELSE s.size
  IN mut_process_all(
       [ptr |-> next, size |-> size, header |-> more,
        need |-> IF more THEN NeedBytes(size, end - next) ELSE s.need,
        out |-> Append(s.out, SubSeq(buf, s.ptr + 1, s.ptr + s.size))],
       buf, end)

RECURSIVE ProcessAll(_, _, _)
\* The loop over the messages in the buffer: process_message gets the bytes
\* after the header, then the next header is looked at.
ProcessAll(s, buf, end) ==
  IF ~(s.header /\ s.need <= 0) THEN s ELSE
  LET body == s.ptr + s_header_size
      next == body + s.size
      more == end - next >= s_header_size
      size == IF more THEN LengthAt(buf, next) ELSE s.size
  IN ProcessAll(
       [ptr |-> next, size |-> size, header |-> more,
        need |-> IF more THEN NeedBytes(size, end - next) ELSE s.need,
        out |-> Append(s.out, SubSeq(buf, body + 1, next))],
       buf, end)

\* The end of handle_read: an empty buffer starts over, and leftover bytes that
\* are further in than a header are moved to its beginning.
Restart(s, buf, end) ==
  LET empty == s.ptr = end
      move == IF empty \/ s.ptr > s_header_size THEN s.ptr ELSE 0
  IN /\ rd_ptr' = s.ptr - move
     /\ rd_end' = end - move
     /\ rd_buf' = [p \in 1..Len(buf) |->
                     IF p <= end - s.ptr THEN buf[p + move] ELSE buf[p]]
     /\ packet_size' = IF empty THEN s_header_size ELSE s.size
     /\ need' = IF empty THEN s_header_size ELSE s.need

\* handle_read after async_read transferred k bytes: at least as many as were
\* asked for, unless the buffer is full before that.
handle_read ==
  \E k \in 0..Len(wire) :
    LET filled == Filled(k)
        end == rd_end + k
        len == end - rd_ptr
        header == got_header \/ len >= s_header_size
        fresh == ~got_header /\ header
        size == IF fresh THEN LengthAt(filled, rd_ptr) ELSE packet_size
        buf == IF fresh THEN Reserved(filled, size) ELSE filled
        s == ProcessAll([ptr |-> rd_ptr, size |-> size, header |-> header,
                         need |-> NeedBytes(size, len), out |-> <<>>], buf, end)
    IN /\ k <= rd_capacity
       /\ k >= need \/ k = rd_capacity
       /\ wire' = SubSeq(wire, k + 1, Len(wire))
       /\ got_header' = s.header
       /\ dispatched' = dispatched \o s.out
       /\ Restart(s, buf, end)
       /\ UNCHANGED sent

Next ==
  \/ \E n \in PacketSizes : peer_sends(n)
  \/ handle_read

Spec == Init /\ [][Next]_vars

\* The io_service runs the handler of a read that is complete.
FairSpec == Spec /\ WF_vars(handle_read)
-----------------------------------------------------------------------------
Bytes == (1..MaxFrames) \X (1..(s_header_size + Max(PacketSizes)))

TypeOK ==
  /\ sent \in Seq(PacketSizes) /\ Len(sent) <= MaxFrames
  /\ wire \in Seq(Bytes)
  /\ rd_buf \in Seq(Bytes \cup {Garbage})
  /\ 0 <= rd_ptr /\ rd_ptr <= rd_end /\ rd_end <= Len(rd_buf)
  /\ packet_size \in PacketSizes \cup {s_header_size}
  /\ got_header \in BOOLEAN
  /\ need \in 0..(WordRange - 1)
  /\ dispatched \in Seq(Seq(Bytes \cup {Garbage}))

\* Frame i makes the buffer grow although an earlier frame did already.
GrowsAgain(i) ==
  LET large == {j \in 1..(i - 1) : sent[j] + s_header_size > BufferSize}
  IN large # {} /\ \A j \in large : sent[i] > sent[j]

\* "The message must be fully stored in mbuf": what process_message is given is the
\* payload of the next frame of the stream, byte for byte, whatever the boundaries of the
\* reads and when the buffer grows in the middle of it.  Only if the buffer has grown before
\* can bytes be lost, and then only those that were read beyond its initial size: reserve()
\* does not move them.  The space async_read is given ends where the memory of m_rd_buf ends.
FullyStored ==
  /\ Len(dispatched) <= Len(sent)
  /\ \A i \in 1..Len(dispatched) :
       /\ Len(dispatched[i]) = sent[i]
       /\ \A k \in 1..sent[i] :
            \/ dispatched[i][k] = Payload(i)[k]
            \/ /\ GrowsAgain(i)
               /\ s_header_size + k > BufferSize
               /\ dispatched[i][k] = Garbage
  /\ rd_end + rd_capacity <= Len(rd_buf)

\* "Process all messages in the buffer": every frame the peer sent is handled.
EventuallyDispatched ==
  \A i \in 1..MaxFrames : [](Len(sent) >= i => <>(Len(dispatched) >= i))
=============================================================================
