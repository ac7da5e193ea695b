--------------------------- MODULE AsyncQueueProofs ---------------------------
(***************************************************************************)
(* Proofs about AsyncQueue for any number of messages, writers and         *)
(* receives, any waits and repeat counts, and any size of a batch: a       *)
(* receive is in one place at a time, and one without limit is in a place  *)
(* until its handler returns false.                                        *)
(*                                                                         *)
(* Both are about the concatenation of the four places.  The lemmas of the *)
(* first part turn it into sets of receives, the second part follows the   *)
(* receives through the actions.                                           *)
(***************************************************************************)
EXTENDS AsyncQueue, TLAPS, FiniteSetTheorems

\* The receives of a place, their names, and that no name is there twice.
Elems(s) == {s[k] : k \in 1..Len(s)}
Ids(s) == {s[k].id : k \in 1..Len(s)}
Once(s) == \A j, k \in 1..Len(s) : s[j].id = s[k].id => j = k

\* What the two properties say of a concatenation is said of its parts.
LEMMA ConcatParts ==
  ASSUME NEW S, NEW s \in Seq(S), NEW t \in Seq(S)
  PROVE  /\ s \o t \in Seq(S)
         /\ Elems(s \o t) = Elems(s) \cup Elems(t)
         /\ Ids(s \o t) = Ids(s) \cup Ids(t)
         /\ Once(s \o t) <=> Once(s) /\ Once(t) /\ Ids(s) \cap Ids(t) = {}
<1> DEFINE u == s \o t
<1>1. /\ u \in Seq(S) /\ Len(s) \in Nat /\ Len(t) \in Nat
      /\ Len(u) = Len(s) + Len(t)
      /\ \A k \in 1..Len(s) : k \in 1..Len(u) /\ u[k] = s[k]
      /\ \A k \in 1..Len(t) : k + Len(s) \in 1..Len(u) /\ u[k + Len(s)] = t[k]
  OBVIOUS
<1>2. \A k \in 1..Len(u) : \/ k \in 1..Len(s) /\ u[k] = s[k]
                           \/ k - Len(s) \in 1..Len(t) /\ u[k] = t[k - Len(s)]
  OBVIOUS
<1> HIDE DEF u
<1>3. Elems(u) = Elems(s) \cup Elems(t)
  <2>1. Elems(u) \subseteq Elems(s) \cup Elems(t)
    BY <1>2 DEF Elems
  <2>2. \A k \in 1..Len(t) : t[k] \in Elems(u)
    BY <1>1 DEF Elems
  <2>3. \A k \in 1..Len(s) : s[k] \in Elems(u)
    BY <1>1 DEF Elems
  <2> QED BY <2>1, <2>2, <2>3 DEF Elems
<1>4. Ids(u) = Ids(s) \cup Ids(t)
  <2>1. Ids(u) \subseteq Ids(s) \cup Ids(t)
    BY <1>2 DEF Ids
  <2>2. \A k \in 1..Len(t) : t[k].id \in Ids(u)
    BY <1>1 DEF Ids
  <2>3. \A k \in 1..Len(s) : s[k].id \in Ids(u)
    BY <1>1 DEF Ids
  <2> QED BY <2>1, <2>2, <2>3 DEF Ids
<1>5. ASSUME Once(u) PROVE Once(s) /\ Once(t) /\ Ids(s) \cap Ids(t) = {}
  <2>1. Once(s)
    BY <1>1, <1>5 DEF Once
  <2>2. Once(t)
    <3> SUFFICES ASSUME NEW j \in 1..Len(t), NEW k \in 1..Len(t), t[j].id = t[k].id
                 PROVE  j = k
      BY DEF Once
    <3>1. j + Len(s) = k + Len(s)
      BY <1>1, <1>5 DEF Once
    <3> QED BY <3>1, <1>1
  <2>3. ASSUME NEW j \in 1..Len(s), NEW k \in 1..Len(t), s[j].id = t[k].id
        PROVE  FALSE
    <3>1. j = k + Len(s)
      BY <1>1, <1>5, <2>3 DEF Once
    <3> QED BY <3>1, <1>1
  <2> QED BY <2>1, <2>2, <2>3 DEF Ids
<1>6. ASSUME Once(s), Once(t), Ids(s) \cap Ids(t) = {} PROVE Once(u)
  <2> SUFFICES ASSUME NEW j \in 1..Len(u), NEW k \in 1..Len(u), u[j].id = u[k].id
               PROVE  j = k
    BY DEF Once
  <2>1. CASE j \in 1..Len(s) /\ u[j] = s[j] /\ k \in 1..Len(s) /\ u[k] = s[k]
    BY <2>1, <1>6 DEF Once
  <2>2. CASE /\ j - Len(s) \in 1..Len(t) /\ u[j] = t[j - Len(s)]
             /\ k - Len(s) \in 1..Len(t) /\ u[k] = t[k - Len(s)]
    <3>1. j - Len(s) = k - Len(s)
      BY <2>2, <1>6 DEF Once
    <3> QED BY <3>1, <1>1
  <2>3. ASSUME NEW a \in 1..Len(s), NEW b \in 1..Len(t) PROVE s[a].id # t[b].id
    BY <1>6 DEF Ids
  <2> QED BY <1>2, <2>1, <2>2, <2>3
<1> QED BY <1>1, <1>3, <1>4, <1>5, <1>6 DEF u

LEMMA EmptyPlace == Elems(<<>>) = {} /\ Ids(<<>>) = {} /\ Once(<<>>)
BY DEF Elems, Ids, Once

LEMMA OneReceive ==
  ASSUME NEW r PROVE Elems(<<r>>) = {r} /\ Ids(<<r>>) = {r.id} /\ Once(<<r>>)
BY DEF Elems, Ids, Once

LEMMA AppendParts ==
  ASSUME NEW S, NEW s \in Seq(S), NEW r \in S
  PROVE  /\ Append(s, r) \in Seq(S)
         /\ Elems(Append(s, r)) = Elems(s) \cup {r}
         /\ Ids(Append(s, r)) = Ids(s) \cup {r.id}
         /\ Once(Append(s, r)) <=> Once(s) /\ r.id \notin Ids(s)
<1> DEFINE u == s \o <<r>>
<1>1. Append(s, r) = u /\ <<r>> \in Seq(S)
  OBVIOUS
<1>2. /\ u \in Seq(S)
      /\ Elems(u) = Elems(s) \cup {r}
      /\ Ids(u) = Ids(s) \cup {r.id}
      /\ Once(u) <=> Once(s) /\ Ids(s) \cap {r.id} = {}
  <2>1. /\ u \in Seq(S)
        /\ Elems(u) = Elems(s) \cup Elems(<<r>>)
        /\ Ids(u) = Ids(s) \cup Ids(<<r>>)
        /\ Once(u) <=> Once(s) /\ Once(<<r>>) /\ Ids(s) \cap Ids(<<r>>) = {}
    BY <1>1, ConcatParts, Zenon
  <2> QED BY <2>1, OneReceive, Zenon
<1> HIDE DEF u
<1>3. Once(u) <=> Once(s) /\ r.id \notin Ids(s)
  BY <1>2
<1> QED BY <1>1, <1>2, <1>3, Zenon

LEMMA TailParts ==
  ASSUME NEW S, NEW s \in Seq(S), s # <<>>
  PROVE  /\ Head(s) \in S /\ Tail(s) \in Seq(S)
         /\ Elems(s) = {Head(s)} \cup Elems(Tail(s))
         /\ Ids(s) = {Head(s).id} \cup Ids(Tail(s))
         /\ Once(s) <=> Once(Tail(s)) /\ Head(s).id \notin Ids(Tail(s))
<1> DEFINE h == <<Head(s)>>
           w == Tail(s)
           u == h \o w
<1>1. s = u /\ Head(s) \in S /\ w \in Seq(S) /\ h \in Seq(S)
  OBVIOUS
<1>2. Elems(h) = {Head(s)} /\ Ids(h) = {Head(s).id} /\ Once(h)
  BY OneReceive, Zenon
<1> HIDE DEF h, w
<1>3. /\ Elems(u) = Elems(h) \cup Elems(w)
      /\ Ids(u) = Ids(h) \cup Ids(w)
      /\ Once(u) <=> Once(h) /\ Once(w) /\ Ids(h) \cap Ids(w) = {}
  BY <1>1, ConcatParts
<1> HIDE DEF u
<1>4. Once(u) <=> Once(w) /\ Head(s).id \notin Ids(w)
  BY <1>2, <1>3
<1> QED BY <1>1, <1>2, <1>3, <1>4, Zenon DEF w
-----------------------------------------------------------------------------
\* A receive that was started without limit, and how it is kept wherever it is:
\* with a count that never goes down and a time to wait.
Unlimited(id) == asked[id].count < 0 /\ asked[id].wait # 0
Kept(r) == asked[r.id].count # 0 /\ (Unlimited(r.id) => r.count = INT_MAX /\ r.wait > 0)

\* No receive is given more messages than were pushed and are not queued.
Accounted == \A id \in Receives : handled[id] + Len(queue) <= pushed

\* No name is twice in a place or in two places.
Apart ==
  /\ Once(ready)
  /\ Ids(timer) \cap Ids(ready) = {}
  /\ Ids(timer) \cap Ids(running) = {}
  /\ Ids(timer) \cap Ids(arming) = {}
  /\ Ids(ready) \cap Ids(running) = {}
  /\ Ids(ready) \cap Ids(arming) = {}
  /\ Ids(running) \cap Ids(arming) = {}

AllElems == Elems(timer) \cup Elems(ready) \cup Elems(running) \cup Elems(arming)
AllIds == Ids(timer) \cup Ids(ready) \cup Ids(running) \cup Ids(arming)

QueueInv ==
  /\ TypeOK
  /\ Accounted
  /\ Apart
  /\ running = <<>> \/ arming = <<>>
  /\ \A r \in AllElems : Kept(r)
  /\ \A id \in Receives : Unlimited(id) /\ id \notin refused => id \in AllIds

LEMMA AtMostOneIs ==
  ASSUME NEW s \in AtMostOne
  PROVE  /\ s \in Seq(Receive) /\ Once(s)
         /\ s # <<>> => /\ s[1] \in Receive /\ s = <<s[1]>>
                        /\ Elems(s) = {s[1]} /\ Ids(s) = {s[1].id}
<1>1. CASE s = <<>>
  BY <1>1, EmptyPlace
<1>2. ASSUME NEW r \in Receive, s = <<r>>
      PROVE  /\ s \in Seq(Receive) /\ Once(s)
             /\ s[1] \in Receive /\ s = <<s[1]>>
             /\ Elems(s) = {s[1]} /\ Ids(s) = {s[1].id}
  <2>1. s[1] = r /\ s \in Seq(Receive)
    BY <1>2
  <2> QED BY <2>1, <1>2, OneReceive
<1> QED BY <1>1, <1>2 DEF AtMostOne

\* The invariant is about the properties of the runs.
LEMMA InvGives ==
  ASSUME QueueInv PROVE OnePlace /\ StillListening
<1>1. /\ timer \in Seq(Receive) /\ ready \in Seq(Receive)
      /\ running \in Seq(Receive) /\ arming \in Seq(Receive)
      /\ Once(timer) /\ Once(running) /\ Once(arming)
  BY AtMostOneIs DEF QueueInv, TypeOK
<1> DEFINE s == timer \o ready
           t == s \o running
           e == t \o arming
<1>2. s \in Seq(Receive) /\ Ids(s) = Ids(timer) \cup Ids(ready) /\ Once(s)
  BY <1>1, ConcatParts DEF QueueInv, Apart
<1> HIDE DEF s
<1>3. t \in Seq(Receive) /\ Ids(t) = Ids(s) \cup Ids(running)
      /\ (Once(t) <=> Once(s) /\ Once(running) /\ Ids(s) \cap Ids(running) = {})
  BY <1>1, <1>2, ConcatParts
<1>4. Once(t)
  BY <1>1, <1>2, <1>3 DEF QueueInv, Apart
<1> HIDE DEF t
<1>5. e \in Seq(Receive) /\ Ids(e) = Ids(t) \cup Ids(arming)
      /\ (Once(e) <=> Once(t) /\ Once(arming) /\ Ids(t) \cap Ids(arming) = {})
  BY <1>1, <1>3, ConcatParts
<1>6. Once(e) /\ Ids(e) = AllIds
  BY <1>1, <1>2, <1>3, <1>4, <1>5 DEF QueueInv, Apart, AllIds
<1>7. e = Everywhere
  BY DEF e, t, s, Everywhere
<1> HIDE DEF e
<1>8. \A id : Places(id) = {k \in 1..Len(e) : e[k].id = id}
  BY <1>7 DEF Places
<1>9. OnePlace
  <2> SUFFICES ASSUME NEW id \in Receives PROVE Cardinality(Places(id)) <= 1
    BY DEF OnePlace
  <2>1. CASE Places(id) = {}
    BY <2>1, FS_EmptySet
  <2>2. ASSUME NEW k \in Places(id) PROVE Cardinality(Places(id)) <= 1
    <3>1. Places(id) = {k}
      BY <2>2, <1>6, <1>8 DEF Once
    <3>2. Cardinality({k}) = 1
      BY FS_Singleton
    <3> QED BY <3>1, <3>2
  <2> QED BY <2>1, <2>2
<1>10. StillListening
  <2> SUFFICES ASSUME NEW id \in Receives, Unlimited(id), id \notin refused
               PROVE  Places(id) # {}
    BY DEF StillListening, Unlimited
  <2>1. id \in Ids(e)
    BY <1>6 DEF QueueInv
  <2> QED BY <2>1, <1>8 DEF Ids
<1> QED BY <1>9, <1>10
-----------------------------------------------------------------------------
\* The names of a place are those of its receives.
LEMMA IdsOfElems == ASSUME NEW s PROVE Ids(s) = {r.id : r \in Elems(s)}
BY DEF Ids, Elems

\* The end of a wait moves the receive from m_timer to the io_service.
LEMMA CancelParts ==
  ASSUME QueueInv, cancel_timer
  PROVE  /\ timer' \in AtMostOne /\ ready' \in Seq(Receive)
         /\ Elems(timer)' = {} /\ Ids(timer)' = {}
         /\ Elems(ready)' = Elems(ready) \cup Elems(timer)
         /\ Ids(ready)' = Ids(ready) \cup Ids(timer)
         /\ Once(ready)'
<1>1. timer \in Seq(Receive) /\ Once(timer) /\ ready \in Seq(Receive) /\ Once(ready)
      /\ Ids(ready) \cap Ids(timer) = {}
  BY AtMostOneIs DEF QueueInv, TypeOK, Apart
<1>2. timer' = <<>> /\ ready' = ready \o timer
  BY DEF cancel_timer
<1>3. timer' \in AtMostOne /\ Elems(timer)' = {} /\ Ids(timer)' = {}
  BY <1>2, EmptyPlace DEF AtMostOne
<1> QED BY <1>1, <1>2, <1>3, ConcatParts

\* A new wait ends the one before it.
LEMMA WaitParts ==
  ASSUME QueueInv, NEW r \in Receive, async_wait(r)
  PROVE  /\ timer' \in AtMostOne /\ ready' \in Seq(Receive)
         /\ Elems(timer)' = {r} /\ Ids(timer)' = {r.id}
         /\ Elems(ready)' = Elems(ready) \cup Elems(timer)
         /\ Ids(ready)' = Ids(ready) \cup Ids(timer)
         /\ Once(ready)'
<1>1. timer \in Seq(Receive) /\ Once(timer) /\ ready \in Seq(Receive) /\ Once(ready)
      /\ Ids(ready) \cap Ids(timer) = {}
  BY AtMostOneIs DEF QueueInv, TypeOK, Apart
<1>2. timer' = <<r>> /\ ready' = ready \o timer
  BY DEF async_wait
<1>3. timer' \in AtMostOne /\ Elems(timer)' = {r} /\ Ids(timer)' = {r.id}
  BY <1>2, OneReceive DEF AtMostOne
<1> QED BY <1>1, <1>2, <1>3, ConcatParts

\* A step that moves receives without changing what was asked keeps the
\* invariant, if those that leave have a limit or have refused.
LEMMA Moved ==
  ASSUME QueueInv, TypeOK', Accounted', Apart', running' = <<>> \/ arming' = <<>>,
         UNCHANGED asked, refused \subseteq refused',
         \A r \in AllElems' : Kept(r),
         \A id \in AllIds : Unlimited(id) => id \in AllIds' \cup refused'
  PROVE  QueueInv'
<1>1. \A r : Kept(r)' <=> Kept(r)
  BY DEF Kept, Unlimited
<1>2. \A id : Unlimited(id)' <=> Unlimited(id)
  BY DEF Unlimited
<1>3. \A id \in Receives : Unlimited(id) /\ id \notin refused' => id \in AllIds'
  BY DEF QueueInv
<1>4. (\A r \in AllElems : Kept(r))'
  BY <1>1
<1>5. (\A id \in Receives : Unlimited(id) /\ id \notin refused => id \in AllIds)'
  BY <1>2, <1>3
<1> QED BY <1>4, <1>5 DEF QueueInv

\* The end of a wait keeps the invariant, whatever becomes of the queue.
LEMMA CancelStep ==
  ASSUME QueueInv, cancel_timer, UNCHANGED <<pushed, loopVars, history>>,
         queue' \in {queue, <<>>}, notifying' \in 0..MaxWriters
  PROVE  QueueInv'
<1>1. TypeOK' /\ Accounted'
  <2>1. /\ queue' \in Seq(1..MaxMessages) /\ Len(queue') <= Len(queue)
        /\ Len(queue') \in Nat /\ Len(queue) \in Nat
    <3>1. queue \in Seq(1..MaxMessages) /\ Len(queue) \in Nat
      BY DEF QueueInv, TypeOK
    <3>2. CASE queue' = <<>>
      BY <3>1, <3>2
    <3> QED BY <3>1, <3>2
  <2>2. TypeOK'
    BY <2>1, CancelParts DEF QueueInv, TypeOK, loopVars, history
  <2>3. Accounted'
    BY <2>1 DEF QueueInv, TypeOK, Accounted, history
  <2> QED BY <2>2, <2>3
<1>2. Apart'
  BY CancelParts DEF QueueInv, Apart, loopVars
<1>3. AllElems' = AllElems /\ AllIds' = AllIds
  BY CancelParts DEF AllElems, AllIds, loopVars
<1> QED BY <1>1, <1>2, <1>3, Moved DEF QueueInv, history, loopVars

\* A handler takes the first message of the queue.
LEMMA HandleParts ==
  ASSUME QueueInv, queue # <<>>, NEW id \in Receives, NEW v \in BOOLEAN, Handle(id, v),
         UNCHANGED pushed
  PROVE  /\ queue' \in Seq(1..MaxMessages)
         /\ handled' \in [Receives -> 0..MaxMessages]
         /\ refused' \subseteq Receives /\ refused \subseteq refused'
         /\ ~ v => id \in refused'
         /\ Accounted'
<1>1. /\ queue' \in Seq(1..MaxMessages) /\ Len(queue) \in Nat /\ Len(queue') = Len(queue) - 1
      /\ Len(queue) > 0
  BY DEF QueueInv, TypeOK, Handle
<1>2. /\ handled \in [Receives -> 0..MaxMessages] /\ pushed \in 0..MaxMessages
      /\ MaxMessages \in Nat
      /\ \A d \in Receives : handled[d] + Len(queue) <= pushed
  BY QueueAssumption DEF QueueInv, TypeOK, Accounted
<1>3. /\ DOMAIN handled' = Receives
      /\ handled' = [d \in Receives |-> IF d = id THEN handled[d] + 1 ELSE handled[d]]
  BY <1>2 DEF Handle
<1>4. \A d \in Receives : handled'[d] \in 0..MaxMessages
  BY <1>1, <1>2, <1>3
<1>5. Accounted'
  BY <1>1, <1>2, <1>3 DEF Accounted
<1>6. refused' \subseteq Receives /\ refused \subseteq refused' /\ (~ v => id \in refused')
  BY DEF QueueInv, TypeOK, Handle
<1> QED BY <1>1, <1>3, <1>4, <1>5, <1>6

\* The steps of writers and of dequeue leave the receives alone.
LEMMA QueueStep ==
  ASSUME QueueInv, UNCHANGED <<timer, ready, loopVars, history>>,
         (\E notify \in BOOLEAN : enqueue(notify)) \/ dequeue
  PROVE  QueueInv'
<1>1. /\ queue \in Seq(1..MaxMessages) /\ Len(queue) \in Nat
      /\ pushed \in 0..MaxMessages /\ notifying \in 0..MaxWriters
      /\ MaxWriters \in Nat /\ MaxMessages \in Nat
      /\ handled \in [Receives -> 0..MaxMessages]
      /\ \A d \in Receives : handled[d] + Len(queue) <= pushed
  BY QueueAssumption DEF QueueInv, TypeOK, Accounted
<1>2. /\ queue' \in Seq(1..MaxMessages)
      /\ pushed' \in 0..MaxMessages /\ notifying' \in 0..MaxWriters
      /\ Accounted'
  <2>1. ASSUME NEW notify \in BOOLEAN, enqueue(notify) PROVE  /\ queue' \in Seq(1..MaxMessages)
               /\ pushed' \in 0..MaxMessages /\ notifying' \in 0..MaxWriters
               /\ Accounted'
    <3>1. pushed + 1 \in 1..MaxMessages /\ pushed' = pushed + 1 /\ queue' = Append(queue, pushed + 1)
      BY <1>1, <2>1 DEF enqueue
    <3>2. queue' \in Seq(1..MaxMessages) /\ Len(queue') = Len(queue) + 1
      BY <1>1, <3>1
    <3>3. notifying' \in 0..MaxWriters
      BY <1>1, <2>1 DEF enqueue
    <3> QED BY <1>1, <3>1, <3>2, <3>3 DEF Accounted, history
  <2>2. CASE dequeue
    <3>1. queue' \in Seq(1..MaxMessages) /\ Len(queue') = Len(queue) - 1
      BY <1>1, <2>2 DEF dequeue
    <3> QED BY <1>1, <2>2, <3>1 DEF Accounted, history, dequeue
  <2> QED BY <2>1, <2>2
<1>3. TypeOK'
  BY <1>2 DEF QueueInv, TypeOK, loopVars, history
<1>4. Apart' /\ AllElems' = AllElems /\ AllIds' = AllIds
  BY DEF QueueInv, Apart, AllElems, AllIds, loopVars
<1> QED BY <1>2, <1>3, <1>4, Moved DEF QueueInv, history, loopVars
-----------------------------------------------------------------------------
\* A round of the loop takes the count of a receive down within its range, and
\* never that of a receive without limit.
LEMMA CountDown ==
  ASSUME NEW k \in 0..INT_MAX
  PROVE  dec_repeat_count(k) \in 0..INT_MAX /\ dec_repeat_count(INT_MAX) = INT_MAX
BY QueueAssumption DEF dec_repeat_count

LEMMA KeptAgain ==
  ASSUME NEW r \in Receive, Kept(r), NEW i \in 0..m_batch_size
  PROVE  LET s == [r EXCEPT !.count = dec_repeat_count(@), !.i = i]
         IN s \in Receive /\ s.id = r.id /\ Kept(s)
<1> DEFINE s == [r EXCEPT !.count = dec_repeat_count(@), !.i = i]
<1>1. s \in Receive /\ s.id = r.id /\ s.wait = r.wait /\ s.count = dec_repeat_count(r.count)
  BY CountDown DEF Receive
<1>2. r.count = INT_MAX => s.count = INT_MAX
  BY <1>1, CountDown DEF Receive
<1> HIDE DEF s
<1>3. Kept(s)
  BY <1>1, <1>2 DEF Kept
<1> QED BY <1>1, <1>3 DEF s

LEMMA KeptInNewBatch ==
  ASSUME NEW r \in Receive, Kept(r)
  PROVE  LET s == [r EXCEPT !.i = 0]
         IN s \in Receive /\ s.id = r.id /\ Kept(s)
<1> DEFINE s == [r EXCEPT !.i = 0]
<1>1. s \in Receive /\ s.id = r.id /\ s.wait = r.wait /\ s.count = r.count
  BY QueueAssumption DEF Receive
<1> HIDE DEF s
<1>2. Kept(s)
  BY <1>1 DEF Kept
<1> QED BY <1>1, <1>2 DEF s

\* operator(): the first handler of the io_service runs.
LEMMA ProcessQueueStep == ASSUME QueueInv, process_queue PROVE QueueInv'
<1>1. ready \in Seq(Receive) /\ ready # <<>> /\ Once(ready)
      /\ running = <<>> /\ running' = <<Head(ready)>> /\ ready' = Tail(ready) /\ arming = <<>>
      /\ UNCHANGED <<queue, pushed, notifying, timer, arming, history>>
  BY DEF QueueInv, TypeOK, Apart, process_queue
<1> DEFINE r == Head(ready)
<1>2. /\ r \in Receive /\ ready' \in Seq(Receive)
      /\ Elems(ready) = {r} \cup Elems(ready)'
      /\ Ids(ready) = {r.id} \cup Ids(ready)'
      /\ Once(ready)' /\ r.id \notin Ids(ready)'
  BY <1>1, TailParts
<1>3. running' \in AtMostOne /\ Elems(running)' = {r} /\ Ids(running)' = {r.id}
  BY <1>1, <1>2, OneReceive DEF AtMostOne
<1>4. Elems(running) = {} /\ Ids(running) = {}
  BY <1>1, EmptyPlace
<1> HIDE DEF r
<1>5. TypeOK' /\ Accounted'
  BY <1>1, <1>2, <1>3 DEF QueueInv, TypeOK, Accounted, history
<1>6. Apart'
  BY <1>1, <1>2, <1>3 DEF QueueInv, Apart
<1>7. AllElems' = AllElems /\ AllIds' = AllIds
  BY <1>1, <1>2, <1>3, <1>4 DEF AllElems, AllIds
<1> QED BY <1>1, <1>5, <1>6, <1>7, Moved DEF QueueInv, history

\* A message is handled: the receive goes on, or has refused.
LEMMA ProcessPopStep == ASSUME QueueInv, process_pop PROVE QueueInv'
<1> DEFINE r == running[1]
           s == [r EXCEPT !.i = @ + 1, !.count = dec_repeat_count(@)]
<1>1. /\ running # <<>> /\ queue # <<>> /\ r.i < m_batch_size
      /\ UNCHANGED <<pushed, notifying, timer, ready, arming, asked>>
  BY DEF process_pop
<1>2. PICK v \in BOOLEAN : Handle(r.id, v) /\ running' = IF v THEN <<s>> ELSE <<>>
  BY DEF process_pop
<1>3. r \in Receive /\ Elems(running) = {r} /\ Ids(running) = {r.id}
  BY <1>1, AtMostOneIs DEF QueueInv, TypeOK
<1>4. Kept(r)
  BY <1>3 DEF QueueInv, AllElems
<1>5. s \in Receive /\ s.id = r.id /\ Kept(s)
  <2>1. r.i + 1 \in 0..m_batch_size
    BY <1>1, <1>3, QueueAssumption DEF Receive
  <2> DEFINE q == [r EXCEPT !.count = dec_repeat_count(@), !.i = r.i + 1]
  <2>2. s = q
    BY <1>3 DEF Receive
  <2>3. q \in Receive /\ q.id = r.id /\ Kept(q)
    BY <2>1, <1>3, <1>4, KeptAgain
  <2> HIDE DEF q, s
  <2> QED BY <2>2, <2>3, Zenon
<1>6. r.id \in Receives
  BY <1>3 DEF Receive
<1> HIDE DEF r, s
<1>7. /\ queue' \in Seq(1..MaxMessages)
      /\ handled' \in [Receives -> 0..MaxMessages]
      /\ refused' \subseteq Receives /\ refused \subseteq refused'
      /\ (~ v => r.id \in refused')
      /\ Accounted'
  BY <1>1, <1>2, <1>6, HandleParts
<1>8. CASE v
  <2>1. running' \in AtMostOne /\ Elems(running)' = {s} /\ Ids(running)' = {r.id}
    BY <1>2, <1>5, <1>8, OneReceive DEF AtMostOne
  <2>2. TypeOK'
    BY <1>1, <1>7, <2>1 DEF QueueInv, TypeOK
  <2>3. Apart'
    BY <1>1, <1>3, <2>1 DEF QueueInv, Apart
  <2>4. AllElems' \subseteq AllElems \cup {s} /\ AllIds' = AllIds
    BY <1>1, <1>3, <2>1 DEF AllElems, AllIds
  <2> QED BY <1>1, <1>5, <1>7, <2>2, <2>3, <2>4, Moved DEF QueueInv
<1>9. CASE ~ v
  <2>1. running' \in AtMostOne /\ Elems(running)' = {} /\ Ids(running)' = {}
    BY <1>2, <1>9, EmptyPlace DEF AtMostOne
  <2>2. TypeOK'
    BY <1>1, <1>7, <2>1 DEF QueueInv, TypeOK
  <2>3. Apart'
    BY <1>1, <1>3, <2>1 DEF QueueInv, Apart
  <2>4. AllElems' \subseteq AllElems /\ AllIds \subseteq AllIds' \cup refused'
    BY <1>1, <1>3, <1>7, <1>9, <2>1 DEF AllElems, AllIds
  <2> QED BY <1>1, <1>7, <2>2, <2>3, <2>4, Moved DEF QueueInv
<1> QED BY <1>8, <1>9

\* The receive goes from the loop to the io_service.
LEMMA ProcessMoreStep == ASSUME QueueInv, process_more PROVE QueueInv'
<1> DEFINE r == running[1]
           s == [r EXCEPT !.i = 0]
<1>1. /\ running # <<>> /\ ready' = Append(ready, s) /\ running' = <<>>
      /\ UNCHANGED <<queue, pushed, notifying, timer, arming, history>>
  BY DEF process_more
<1>2. r \in Receive /\ Elems(running) = {r} /\ Ids(running) = {r.id}
  BY <1>1, AtMostOneIs DEF QueueInv, TypeOK
<1>3. s \in Receive /\ s.id = r.id /\ Kept(s)
  BY <1>2, KeptInNewBatch DEF QueueInv, AllElems
<1> HIDE DEF r, s
<1>4. ready \in Seq(Receive) /\ Once(ready) /\ r.id \notin Ids(ready)
  BY <1>2 DEF QueueInv, TypeOK, Apart
<1>5. /\ ready' \in Seq(Receive) /\ Once(ready)'
      /\ Elems(ready)' = Elems(ready) \cup {s}
      /\ Ids(ready)' = Ids(ready) \cup {r.id}
  BY <1>1, <1>3, <1>4, AppendParts
<1>6. running' \in AtMostOne /\ Elems(running)' = {} /\ Ids(running)' = {}
  BY <1>1, EmptyPlace DEF AtMostOne
<1>7. TypeOK' /\ Accounted'
  BY <1>1, <1>5, <1>6 DEF QueueInv, TypeOK, Accounted, history
<1>8. Apart'
  BY <1>1, <1>2, <1>5, <1>6 DEF QueueInv, Apart
<1>9. AllElems' \subseteq AllElems \cup {s} /\ AllIds' = AllIds
  BY <1>1, <1>2, <1>5, <1>6 DEF AllElems, AllIds
<1> QED BY <1>1, <1>3, <1>7, <1>8, <1>9, Moved DEF QueueInv, history

\* The receive goes from the loop to the next wait, or ends: because of its count,
\* or because the handler that was told of a timeout has refused.
LEMMA ProcessEndStep == ASSUME QueueInv, process_end PROVE QueueInv'
<1> DEFINE r == running[1]
           s == [r EXCEPT !.count = dec_repeat_count(@), !.i = 0]
<1>1. /\ running # <<>> /\ running' = <<>>
      /\ UNCHANGED <<queue, pushed, notifying, timer, ready, asked, handled>>
      /\ \/ arming' = (IF r.wait > 0 /\ dec_repeat_count(r.count) > 0 THEN <<s>> ELSE <<>>)
            /\ UNCHANGED refused
         \/ refused' = refused \cup {r.id} /\ UNCHANGED arming
  <2>1. s = [r EXCEPT !.count = dec_repeat_count(r.count), !.i = 0]
    OBVIOUS
  <2> HIDE DEF s
  <2> QED BY <2>1 DEF process_end, Rewait
<1>2. r \in Receive /\ Elems(running) = {r} /\ Ids(running) = {r.id}
  BY <1>1, AtMostOneIs DEF QueueInv, TypeOK
<1>3. Kept(r)
  BY <1>2 DEF QueueInv, AllElems
<1>4. s \in Receive /\ s.id = r.id /\ Kept(s)
  <2>1. 0 \in 0..m_batch_size
    BY QueueAssumption
  <2> QED BY <1>2, <1>3, <2>1, KeptAgain
<1>5. Unlimited(r.id) => r.wait > 0 /\ dec_repeat_count(r.count) > 0
  BY <1>2, <1>3, QueueAssumption DEF Kept, dec_repeat_count
<1>6. r.id \in Receives
  BY <1>2 DEF Receive
<1> HIDE DEF r, s
<1>7. running' \in AtMostOne /\ Elems(running)' = {} /\ Ids(running)' = {}
  BY <1>1, EmptyPlace DEF AtMostOne
<1>8. Accounted'
  BY <1>1 DEF QueueInv, Accounted
<1>9. Elems(arming) = {} /\ Ids(arming) = {} /\ arming = <<>>
  BY <1>1, EmptyPlace DEF QueueInv
<1>10. CASE arming' = <<s>> /\ UNCHANGED refused
  <2>1. arming' \in AtMostOne /\ Elems(arming)' = {s} /\ Ids(arming)' = {r.id}
    BY <1>4, <1>10, OneReceive DEF AtMostOne
  <2>2. TypeOK'
    BY <1>1, <1>7, <1>10, <2>1 DEF QueueInv, TypeOK
  <2>3. Apart'
    BY <1>1, <1>2, <1>7, <2>1 DEF QueueInv, Apart
  <2>4. AllElems' \subseteq AllElems \cup {s} /\ AllIds \subseteq AllIds'
    BY <1>1, <1>2, <1>7, <1>9, <2>1 DEF AllElems, AllIds
  <2> QED BY <1>1, <1>4, <1>8, <1>10, <2>2, <2>3, <2>4, Moved DEF QueueInv
<1>11. CASE arming' = <<>> /\ UNCHANGED refused /\ ~ Unlimited(r.id)
  <2>1. arming' \in AtMostOne /\ Elems(arming)' = {} /\ Ids(arming)' = {}
    BY <1>11, EmptyPlace DEF AtMostOne
  <2>2. TypeOK'
    BY <1>1, <1>7, <1>11, <2>1 DEF QueueInv, TypeOK
  <2>3. Apart'
    BY <1>1, <1>7, <2>1 DEF QueueInv, Apart
  <2>4. AllElems' \subseteq AllElems /\ AllIds \subseteq AllIds' \cup {r.id}
    BY <1>1, <1>2, <1>7, <1>9, <2>1 DEF AllElems, AllIds
  <2> QED BY <1>1, <1>8, <1>11, <2>2, <2>3, <2>4, Moved DEF QueueInv
<1>12. CASE refused' = refused \cup {r.id} /\ UNCHANGED arming
  <2>1. TypeOK'
    BY <1>1, <1>6, <1>7, <1>12 DEF QueueInv, TypeOK
  <2>2. Apart'
    BY <1>1, <1>7, <1>12 DEF QueueInv, Apart
  <2>3. AllElems' \subseteq AllElems /\ AllIds \subseteq AllIds' \cup refused'
    BY <1>1, <1>2, <1>7, <1>12 DEF AllElems, AllIds
  <2> QED BY <1>1, <1>8, <1>12, <2>1, <2>2, <2>3, Moved DEF QueueInv
<1> QED BY <1>1, <1>5, <1>10, <1>11, <1>12

\* The receive goes from the end of process_queue to m_timer.
LEMMA ProcessRearmStep == ASSUME QueueInv, process_rearm PROVE QueueInv'
<1> DEFINE r == arming[1]
<1>1. /\ arming # <<>> /\ async_wait(r) /\ arming' = <<>>
      /\ UNCHANGED <<queue, pushed, notifying, running, history>>
  BY DEF process_rearm
<1>2. r \in Receive /\ Elems(arming) = {r} /\ Ids(arming) = {r.id}
  BY <1>1, AtMostOneIs DEF QueueInv, TypeOK
<1> HIDE DEF r
<1>3. /\ timer' \in AtMostOne /\ ready' \in Seq(Receive)
      /\ Elems(timer)' = {r} /\ Ids(timer)' = {r.id}
      /\ Elems(ready)' = Elems(ready) \cup Elems(timer)
      /\ Ids(ready)' = Ids(ready) \cup Ids(timer)
      /\ Once(ready)'
  BY <1>1, <1>2, WaitParts
<1>4. arming' \in AtMostOne /\ Elems(arming)' = {} /\ Ids(arming)' = {}
  BY <1>1, EmptyPlace DEF AtMostOne
<1>5. TypeOK' /\ Accounted'
  BY <1>1, <1>3, <1>4 DEF QueueInv, TypeOK, Accounted, history
<1>6. Apart'
  BY <1>1, <1>2, <1>3, <1>4 DEF QueueInv, Apart
<1>7. AllElems' = AllElems /\ AllIds' = AllIds
  BY <1>1, <1>2, <1>3, <1>4 DEF AllElems, AllIds
<1> QED BY <1>1, <1>5, <1>6, <1>7, Moved DEF QueueInv, history
-----------------------------------------------------------------------------
\* A new receive that has to wait was in no place before.
LEMMA AwaitStep ==
  ASSUME QueueInv,
         NEW id \in Receives, NEW w \in Waits, NEW c \in RepeatCounts, NEW k \in Int,
         c # 0, k # 0, k < INT_MAX, c < 0 => k < 0,
         asked[id] = NotAsked, Await(id, w, k),
         asked' = [asked EXCEPT ![id] = [wait |-> w, count |-> c]],
         queue' \in Seq(1..MaxMessages), handled' \in [Receives -> 0..MaxMessages],
         refused' \subseteq Receives, refused \subseteq refused',
         Accounted', UNCHANGED <<pushed, notifying, loopVars>>
  PROVE  QueueInv'
<1> DEFINE r == [id |-> id, wait |-> timeout(w), count |-> IF k < 0 THEN INT_MAX ELSE k,
                 i |-> 0]
<1>1. r \in Receive /\ r.id = id
  BY QueueAssumption DEF Receive
<1>2. \/ ready' = Append(ready, r) /\ UNCHANGED timer
      \/ async_wait(r)
  BY DEF Await
<1>3. c < 0 /\ w # 0 => r.count = INT_MAX /\ r.wait > 0
  BY QueueAssumption DEF timeout
<1> HIDE DEF r
<1>4. /\ asked \in [Receives -> [wait : Waits \cup {0}, count : RepeatCounts \cup {0}]]
      /\ asked' \in [Receives -> [wait : Waits \cup {0}, count : RepeatCounts \cup {0}]]
      /\ asked'[id].count = c /\ asked'[id].wait = w
      /\ \A d \in Receives \ {id} : asked'[d] = asked[d]
  BY DEF QueueInv, TypeOK
<1>5. /\ timer \in Seq(Receive) /\ ready \in Seq(Receive)
      /\ running \in Seq(Receive) /\ arming \in Seq(Receive)
  BY AtMostOneIs DEF QueueInv, TypeOK
<1>6. \A q \in AllElems : q \in Receive /\ q.id \in Receives \ {id}
  <2>1. \A q \in AllElems : q \in Receive
    BY <1>5 DEF AllElems, Elems
  <2>2. \A q \in AllElems : q.id # id
    BY DEF QueueInv, Kept, NotAsked
  <2> QED BY <2>1, <2>2 DEF Receive
<1>7. id \notin AllIds
  BY <1>6, IdsOfElems DEF AllIds, AllElems
<1>8. /\ timer' \in AtMostOne /\ ready' \in Seq(Receive)
      /\ Elems(timer)' \cup Elems(ready)' = Elems(timer) \cup Elems(ready) \cup {r}
      /\ Ids(timer)' \cup Ids(ready)' = Ids(timer) \cup Ids(ready) \cup {id}
      /\ Once(ready)' /\ Ids(timer)' \cap Ids(ready)' = {}
  <2>1. CASE async_wait(r)
    <3>1. id \notin Ids(timer) /\ id \notin Ids(ready)
      BY <1>7 DEF AllIds
    <3>2. /\ timer' \in AtMostOne /\ ready' \in Seq(Receive)
          /\ Elems(timer)' = {r} /\ Ids(timer)' = {r.id}
          /\ Elems(ready)' = Elems(ready) \cup Elems(timer)
          /\ Ids(ready)' = Ids(ready) \cup Ids(timer)
          /\ Once(ready)'
      BY <1>1, <2>1, WaitParts
    <3> QED BY <1>1, <3>1, <3>2
  <2>2. CASE ready' = Append(ready, r) /\ UNCHANGED timer
    <3>1. id \notin Ids(timer) /\ id \notin Ids(ready)
      BY <1>7 DEF AllIds
    <3>2. /\ ready' \in Seq(Receive)
          /\ Elems(ready)' = Elems(ready) \cup {r}
          /\ Ids(ready)' = Ids(ready) \cup {id}
          /\ Once(ready)' <=> Once(ready)
      BY <1>1, <1>5, <2>2, <3>1, AppendParts
    <3>3. timer' \in AtMostOne /\ Once(ready) /\ Ids(timer) \cap Ids(ready) = {}
          /\ Elems(timer)' = Elems(timer) /\ Ids(timer)' = Ids(timer)
      BY <2>2 DEF QueueInv, TypeOK, Apart
    <3> QED BY <3>1, <3>2, <3>3
  <2> QED BY <1>2, <2>1, <2>2
<1>9. TypeOK'
  BY <1>4, <1>8 DEF QueueInv, TypeOK, loopVars
<1>10. Ids(running)' = Ids(running) /\ Ids(arming)' = Ids(arming)
       /\ Elems(running)' = Elems(running) /\ Elems(arming)' = Elems(arming)
       /\ (running' = <<>> \/ arming' = <<>>)
  BY DEF QueueInv, loopVars
<1>11. Apart'
  <2>1. id \notin Ids(running) /\ id \notin Ids(arming)
    BY <1>7 DEF AllIds
  <2> QED BY <1>8, <1>10, <2>1 DEF QueueInv, Apart
<1>12. AllElems' = AllElems \cup {r} /\ AllIds' = AllIds \cup {id}
  BY <1>8, <1>10 DEF AllElems, AllIds
<1>13. \A d \in Receives \ {id} : Unlimited(d)' <=> Unlimited(d)
  BY <1>4 DEF Unlimited
<1>14. Kept(r)'
  BY <1>1, <1>3, <1>4 DEF Kept, Unlimited
<1>15. \A q \in AllElems : Kept(q)'
  BY <1>4, <1>6, <1>13 DEF QueueInv, Kept
<1>16. (\A q \in AllElems : Kept(q))'
  BY <1>12, <1>14, <1>15
<1>17. (\A d \in Receives : Unlimited(d) /\ d \notin refused => d \in AllIds)'
  BY <1>12, <1>13 DEF QueueInv
<1> QED BY <1>9, <1>10, <1>11, <1>16, <1>17 DEF QueueInv

LEMMA AsyncDequeueStep ==
  ASSUME QueueInv, NEW id \in Receives, NEW w \in Waits, NEW c \in RepeatCounts,
         async_dequeue(id, w, c)
  PROVE  QueueInv'
<1>1. asked[id] = NotAsked /\ UNCHANGED <<pushed, notifying, loopVars>>
  BY DEF async_dequeue
<1>2. c \in Int /\ c < INT_MAX /\ INT_MAX \in Nat
  BY QueueAssumption
<1>3. CASE /\ c # 0 /\ Await(id, w, c)
           /\ asked' = [asked EXCEPT ![id] = [wait |-> w, count |-> c]]
           /\ UNCHANGED <<queue, handled, refused>>
  <2>1. /\ queue' \in Seq(1..MaxMessages) /\ handled' \in [Receives -> 0..MaxMessages]
        /\ refused' \subseteq Receives /\ refused \subseteq refused' /\ Accounted'
    BY <1>1, <1>3 DEF QueueInv, TypeOK, Accounted
  <2> QED BY <1>1, <1>2, <1>3, <2>1, AwaitStep
<1>4. ASSUME queue # <<>>, NEW v \in BOOLEAN, Handle(id, v),
             LET k == IF c > 0 THEN c - 1 ELSE c
             IN \/ /\ v /\ k # 0
                   /\ Await(id, w, k)
                   /\ asked' = [asked EXCEPT ![id] = [wait |-> w, count |-> c]]
                \/ UNCHANGED <<timer, ready, asked>>
      PROVE  QueueInv'
  <2>1. /\ queue' \in Seq(1..MaxMessages) /\ handled' \in [Receives -> 0..MaxMessages]
        /\ refused' \subseteq Receives /\ refused \subseteq refused' /\ Accounted'
    BY <1>1, <1>4, HandleParts
  <2> DEFINE k == IF c > 0 THEN c - 1 ELSE c
  <2>2. k \in Int /\ k < INT_MAX /\ (c < 0 => k < 0) /\ (k # 0 => c # 0)
    BY <1>2
  <2>3. CASE /\ k # 0 /\ Await(id, w, k)
             /\ asked' = [asked EXCEPT ![id] = [wait |-> w, count |-> c]]
    <3> HIDE DEF k
    <3> QED BY <1>1, <2>1, <2>2, <2>3, AwaitStep
  <2>4. CASE UNCHANGED <<timer, ready, asked>>
    <3>1. TypeOK'
      BY <1>1, <2>1, <2>4 DEF QueueInv, TypeOK, loopVars
    <3>2. Apart' /\ AllElems' = AllElems /\ AllIds' = AllIds
      BY <1>1, <2>4 DEF QueueInv, Apart, AllElems, AllIds, loopVars
    <3> QED BY <1>1, <2>1, <2>4, <3>1, <3>2, Moved DEF QueueInv, loopVars
  <2> QED BY <1>4, <2>3, <2>4
<1> QED BY <1>3, <1>4 DEF async_dequeue
-----------------------------------------------------------------------------
\* The inductive invariant: the types, that no receive is given more messages than
\* were taken from the queue, the places, and how receives without limit are kept.
THEOREM QueueInvCorrect == Spec => []QueueInv
<1>1. Init => QueueInv
  <2> SUFFICES ASSUME Init PROVE QueueInv
    OBVIOUS
  <2>1. TypeOK
    BY QueueAssumption DEF Init, TypeOK, AtMostOne, NotAsked
  <2>2. Accounted
    BY DEF Init, Accounted
  <2>3. Apart /\ AllElems = {}
    BY EmptyPlace DEF Init, Apart, AllElems
  <2>4. \A id \in Receives : ~ Unlimited(id)
    BY DEF Init, Unlimited, NotAsked
  <2>5. running = <<>>
    BY DEF Init
  <2> QED BY <2>1, <2>2, <2>3, <2>4, <2>5 DEF QueueInv
<1>2. QueueInv /\ [Next]_vars => QueueInv'
  <2> SUFFICES ASSUME QueueInv, [Next]_vars PROVE QueueInv'
    OBVIOUS
  <2>1. CASE \E notify \in BOOLEAN : enqueue(notify)
    <3>1. UNCHANGED <<timer, ready, loopVars, history>>
      BY <2>1 DEF enqueue
    <3> QED BY <2>1, <3>1, QueueStep
  <2>2. CASE dequeue
    <3>1. UNCHANGED <<timer, ready, loopVars, history>>
      BY <2>2 DEF dequeue
    <3> QED BY <2>2, <3>1, QueueStep
  <2>3. CASE enqueue_notify
    <3>1. notifying' \in 0..MaxWriters
      BY <2>3, QueueAssumption DEF enqueue_notify, QueueInv, TypeOK
    <3> QED BY <2>3, <3>1, CancelStep DEF enqueue_notify
  <2>4. CASE cancel \/ reset \/ timer_expires
    <3>1. notifying' \in 0..MaxWriters /\ cancel_timer /\ queue' \in {queue, <<>>}
          /\ UNCHANGED <<pushed, loopVars, history>>
      BY <2>4 DEF cancel, reset, timer_expires, QueueInv, TypeOK
    <3> QED BY <3>1, CancelStep
  <2>5. CASE \E id \in Receives, w \in Waits, c \in RepeatCounts : async_dequeue(id, w, c)
    BY <2>5, AsyncDequeueStep
  <2>6. CASE Loop
    BY <2>6, ProcessQueueStep, ProcessPopStep, ProcessMoreStep, ProcessEndStep,
       ProcessRearmStep DEF Loop
  <2>7. CASE UNCHANGED vars
    <3>1. TypeOK'
      BY <2>7 DEF vars, QueueInv, TypeOK, loopVars, history
    <3>2. Apart' /\ AllElems' = AllElems /\ AllIds' = AllIds /\ Accounted'
      BY <2>7 DEF vars, QueueInv, Apart, AllElems, AllIds, Accounted, loopVars, history
    <3> QED BY <2>7, <3>1, <3>2, Moved DEF vars, QueueInv, loopVars, history
  <2> QED BY <2>1, <2>2, <2>3, <2>4, <2>5, <2>6, <2>7 DEF Next
<1> QED BY <1>1, <1>2, PTL DEF Spec

\* The types.
THEOREM TypeCorrect == Spec => []TypeOK
<1>1. QueueInv => TypeOK
  BY DEF QueueInv
<1> QED BY <1>1, QueueInvCorrect, PTL

\* A receive is never in two places: its handler is called once for one wake-up.
THEOREM OnePlaceCorrect == Spec => []OnePlace
<1>1. QueueInv => OnePlace
  BY InvGives
<1> QED BY <1>1, QueueInvCorrect, PTL

\* A receive without limit is in a place until its handler returns false.
THEOREM StillListeningCorrect == Spec => []StillListening
<1>1. QueueInv => StillListening
  BY InvGives
<1> QED BY <1>1, QueueInvCorrect, PTL

=============================================================================
