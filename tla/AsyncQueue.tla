------------------------------ MODULE AsyncQueue ------------------------------
(***************************************************************************)
(* util::async_queue: a lock-free queue that any thread may push to, and   *)
(* receives that run on the io_service thread.                             *)
(*                                                                         *)
(* A receive started with async_dequeue lives in exactly one place at a    *)
(* time: it waits on m_timer, or its handler is queued in the io_service,  *)
(* or process_queue is running for it.  A writer wakes a waiting receive   *)
(* by cancelling m_timer, in a step of its own after the push.  Messages   *)
(* are numbered in the order in which they are pushed.                     *)
(***************************************************************************)
EXTENDS Integers, Sequences, FiniteSets

CONSTANTS
  MaxMessages,    \* bound: messages pushed
  MaxWriters,     \* bound: writers between their push and their cancel
  Receives,       \* calls of async_dequeue
  Waits,          \* values of a_wait_duration, in ms: -1, 0 and positive ones
  RepeatCounts,   \* values of repeat_count: -1 for ever, 0 none
  m_batch_size,
  INT_MAX,
  MaxDuration,    \* the largest value of a duration, of ms and of clock ticks
  TicksPerMs      \* clock ticks in a millisecond

ASSUME QueueAssumption ==
  /\ {m_batch_size, INT_MAX, MaxDuration, TicksPerMs, MaxWriters} \subseteq Nat \ {0}
  /\ MaxMessages \in Nat
  /\ Waits \subseteq Int
  /\ RepeatCounts \subseteq Int
  /\ \A w \in Waits : w * TicksPerMs < MaxDuration
  /\ \A c \in RepeatCounts : c < INT_MAX

VARIABLES
  queue,       \* m_queue
  pushed,      \* messages pushed so far
  notifying,   \* writers that have pushed and not yet cancelled m_timer
  timer,       \* the receive that waits on m_timer, if any
  ready,       \* receives whose handler is queued in the io_service
  running,     \* the receive that is in the loop of process_queue, if any
  arming,      \* the receive that process_queue is about to wait for again, if any
  asked,       \* history: the arguments of each async_dequeue that did not return
               \* at once
  handled,     \* history: messages given to the handler of each receive
  refused      \* history: receives whose handler returned false

loopVars == <<running, arming>>
history == <<asked, handled, refused>>
vars == <<queue, pushed, notifying, timer, ready, loopVars, history>>

NotAsked == [wait |-> 0, count |-> 0]
-----------------------------------------------------------------------------
Init ==
  /\ queue = <<>>
  /\ pushed = 0
  /\ notifying = 0
  /\ timer = <<>>
  /\ ready = <<>>
  /\ running = <<>>
  /\ arming = <<>>
  /\ asked = [r \in Receives |-> NotAsked]
  /\ handled = [r \in Receives |-> 0]
  /\ refused = {}

dec_repeat_count(k) == IF k = INT_MAX \/ k = 0 THEN k ELSE k - 1

\* The conversion of a duration in ms to the ticks of the clock, which wraps
\* around like the signed multiplication of the build.
to_ticks(ms) ==
  LET range == 2 * (MaxDuration + 1)
      t == (ms * TicksPerMs) % range
  IN IF t > MaxDuration THEN t - range ELSE t

\* The wait that async_dequeue makes of its argument.
timeout(wait) == IF wait < 0 THEN MaxDuration ELSE wait

\* m_timer.cancel(): the handler of the wait, if there is one, is queued.
cancel_timer ==
  /\ ready' = ready \o timer
  /\ timer' = <<>>

\* Mutant: the earlier wait is forgotten.
mut_async_wait(r) ==
  /\ ready' = ready
  /\ timer' = <<r>>

\* m_timer.cancel(), expires_from_now() and async_wait() for receive r.
async_wait(r) ==
  /\ ready' = ready \o timer
  /\ timer' = <<r>>

\* enqueue, first half: the push.  A push that finds no memory for its node makes
\* enqueue return false before the wake-up: it changes nothing, a stuttering step.
enqueue(notify) ==
  /\ pushed < MaxMessages
  /\ pushed' = pushed + 1
  /\ queue' = Append(queue, pushed + 1)
  /\ \/ /\ notify
        /\ notifying < MaxWriters
        /\ notifying' = notifying + 1
     \/ /\ ~notify
        /\ UNCHANGED notifying
  /\ UNCHANGED <<timer, ready, loopVars, history>>

\* enqueue, second half: the wake-up of a receive that is waiting.
enqueue_notify ==
  /\ notifying > 0
  /\ notifying' = notifying - 1
  /\ cancel_timer
  /\ UNCHANGED <<queue, pushed, loopVars, history>>

cancel ==
  /\ cancel_timer
  /\ UNCHANGED <<queue, pushed, notifying, loopVars, history>>

\* reset: cancel and throw away what is in the queue.
reset ==
  /\ cancel_timer
  /\ queue' = <<>>
  /\ UNCHANGED <<pushed, notifying, loopVars, history>>

\* dequeue: the reader polls the queue.
dequeue ==
  /\ queue # <<>>
  /\ queue' = Tail(queue)
  /\ UNCHANGED <<pushed, notifying, timer, ready, loopVars, history>>

\* The handler of the receive is called with the first message and returns v.
Handle(id, v) ==
  /\ handled' = [handled EXCEPT ![id] = @ + 1]
  /\ refused' = IF v THEN refused ELSE refused \cup {id}
  /\ queue' = Tail(queue)

\* The rest of async_dequeue when it waits for k more messages (for ever if k
\* is negative): with no time to wait the handler is posted, otherwise it waits.
Await(id, wait, k) ==
  LET rep == IF k < 0 THEN INT_MAX ELSE k
      r == [id |-> id, wait |-> timeout(wait), count |-> rep, i |-> 0]
  IN IF wait = 0 THEN ready' = Append(ready, r) /\ UNCHANGED timer
                 ELSE async_wait(r)

\* async_dequeue: a message that is there is handled at once.  It runs on the
\* io_service thread: between handlers, or from the handler of another receive.
async_dequeue(id, wait, repeat_count) ==
  /\ asked[id] = NotAsked /\ handled[id] = 0
  /\ arming = <<>>
  /\ \A k \in 1..Len(running) : running[k].i > 0
  /\ \/ /\ queue = <<>>
        /\ repeat_count # 0
        /\ Await(id, wait, repeat_count)
        /\ asked' = [asked EXCEPT ![id] = [wait |-> wait, count |-> repeat_count]]
        /\ UNCHANGED <<queue, handled, refused>>
     \/ /\ queue # <<>>
        /\ \E v \in BOOLEAN :
             LET k == IF repeat_count > 0 THEN repeat_count - 1 ELSE repeat_count
             IN /\ Handle(id, v)
                /\ \/ /\ v /\ k # 0
                      /\ Await(id, wait, k)
                      /\ asked' = [asked EXCEPT ![id] = [wait |-> wait,
                                                         count |-> repeat_count]]
                   \/ /\ ~v \/ k = 0
                      /\ UNCHANGED <<timer, ready, asked>>
  /\ UNCHANGED <<pushed, notifying, loopVars>>

\* The wait on m_timer is over.  A duration the clock cannot represent would not
\* be; it wraps around to a time in the past.
timer_expires ==
  /\ timer # <<>>
  /\ to_ticks(timer[1].wait) < MaxDuration
  /\ cancel_timer
  /\ UNCHANGED <<queue, pushed, notifying, loopVars, history>>
-----------------------------------------------------------------------------
\* The io_service calls operator(), whatever ended the wait.
process_queue ==
  /\ ready # <<>> /\ running = <<>> /\ arming = <<>>
  /\ running' = <<Head(ready)>>
  /\ ready' = Tail(ready)
  /\ UNCHANGED <<queue, pushed, notifying, timer, arming, history>>

\* One round of the loop: a message is popped and handled.
process_pop ==
  /\ running # <<>>
  /\ running[1].i < m_batch_size
  /\ queue # <<>>
  /\ \E v \in BOOLEAN :
       /\ Handle(running[1].id, v)
       /\ running' = IF v THEN <<[running[1] EXCEPT !.i = @ + 1,
                                                    !.count = dec_repeat_count(@)]>>
                          ELSE <<>>
  /\ UNCHANGED <<pushed, notifying, timer, ready, arming, asked>>

\* Mutant: the handler is not posted again.
mut_process_more ==
  /\ running # <<>>
  /\ running[1].i = m_batch_size
  /\ queue # <<>>
  /\ running' = <<>>
  /\ UNCHANGED <<queue, pushed, notifying, timer, ready, arming, history>>

\* The batch is full and there is more: the handler is posted again.
process_more ==
  /\ running # <<>>
  /\ running[1].i = m_batch_size
  /\ queue # <<>>
  /\ ready' = Append(ready, [running[1] EXCEPT !.i = 0])
  /\ running' = <<>>
  /\ UNCHANGED <<queue, pushed, notifying, timer, arming, history>>

\* Mutant: the receive is waited for again and also posted.
mut_rewait(r) ==
  IF r.wait > 0 /\ dec_repeat_count(r.count) > 0
  THEN /\ arming' = <<[r EXCEPT !.count = dec_repeat_count(@), !.i = 0]>>
       /\ ready' = Append(ready, r)
  ELSE UNCHANGED <<arming, ready>>

\* Whether process_queue waits again at its end, with the count taken down once
\* more.
Rewait(r) ==
  LET c == dec_repeat_count(r.count)
  IN /\ arming' = IF r.wait > 0 /\ c > 0
                  THEN <<[r EXCEPT !.count = c, !.i = 0]>> ELSE <<>>
     /\ UNCHANGED ready

\* Nothing is left: the handler is told of a timeout if no message was handled.
process_end ==
  /\ running # <<>>
  /\ queue = <<>>
  /\ running' = <<>>
  /\ \/ /\ running[1].i > 0
        /\ Rewait(running[1])
        /\ UNCHANGED refused
     \/ /\ running[1].i = 0
        /\ \/ /\ Rewait(running[1])
              /\ UNCHANGED refused
           \/ /\ refused' = refused \cup {running[1].id}
              /\ UNCHANGED <<ready, arming>>
  /\ UNCHANGED <<queue, pushed, notifying, timer, asked, handled>>

\* The wait is started, after other threads may have pushed and notified.
process_rearm ==
  /\ arming # <<>>
  /\ async_wait(arming[1])
  /\ arming' = <<>>
  /\ UNCHANGED <<queue, pushed, notifying, running, history>>

Loop ==
  \/ process_queue
  \/ process_pop
  \/ process_more
  \/ process_end
  \/ process_rearm

Next ==
  \/ \E notify \in BOOLEAN : enqueue(notify)
  \/ enqueue_notify
  \/ cancel
  \/ reset
  \/ dequeue
  \/ \E id \in Receives, wait \in Waits, c \in RepeatCounts : async_dequeue(id, wait, c)
  \/ timer_expires
  \/ Loop

Spec == Init /\ [][Next]_vars

\* The io_service thread keeps running and its timer expires.
FairSpec == Spec /\ WF_vars(Loop) /\ WF_vars(timer_expires)
-----------------------------------------------------------------------------
Receive ==
  [id : Receives,
   wait : {timeout(w) : w \in Waits},
   count : 0..INT_MAX,
   i : 0..m_batch_size]

AtMostOne == {<<>>} \cup {<<r>> : r \in Receive}

TypeOK ==
  /\ queue \in Seq(1..MaxMessages)
  /\ pushed \in 0..MaxMessages
  /\ notifying \in 0..MaxWriters
  /\ timer \in AtMostOne
  /\ ready \in Seq(Receive)
  /\ running \in AtMostOne
  /\ arming \in AtMostOne
  /\ asked \in [Receives -> [wait : Waits \cup {0}, count : RepeatCounts \cup {0}]]
  /\ handled \in [Receives -> 0..MaxMessages]
  /\ refused \subseteq Receives

Everywhere == timer \o ready \o running \o arming
Places(id) == {k \in 1..Len(Everywhere) : Everywhere[k].id = id}

\* A receive is never in two places, however wake-ups, expirations, posts and
\* new waits meet: its handler is never called twice for one wake-up.
OnePlace == \A id \in Receives : Cardinality(Places(id)) <= 1

\* A receive without limit ends only when its handler returns false: no
\* interleaving of writers, timer and batches loses it.
StillListening ==
  \A id \in Receives :
    asked[id].count < 0 /\ asked[id].wait # 0 /\ id \notin refused => Places(id) # {}

Listening == {id \in Receives : asked[id].count < 0 /\ asked[id].wait # 0} \ refused

\* A message pushed while somebody listens without limit is taken from the queue,
\* also when its wake-up came before the wait it should have ended.
EventuallyHandled ==
  \A m \in 1..MaxMessages :
    (\E k \in 1..Len(queue) : queue[k] = m) /\ Listening # {}
      ~> (\A k \in 1..Len(queue) : queue[k] # m) \/ Listening = {}

=============================================================================
