-------------------------------- MODULE Mailbox --------------------------------
(***************************************************************************)
(* basic_otp_mailbox: the async_queue of its messages, and the handler     *)
(* that async_receive wraps around the user's.  Links and monitors are     *)
(* left out: nothing in the code adds one.                                 *)
(***************************************************************************)
EXTENDS AsyncQueue

VARIABLES
  time_freed,  \* m_time_freed is set, which is what close() does
  lost         \* history: messages taken for a receive and not given to anybody

mailboxVars == <<vars, time_freed, lost>>

MailboxInit ==
  /\ Init
  /\ time_freed = FALSE
  /\ lost = {}

KeepOpen == UNCHANGED time_freed

\* The handler async_receive passes to the queue, called for receive id with
\* message m or, if there is none, with an error: it returns false without calling
\* the user's handler as long as m_time_freed is not set.
OnReceive(id, m) ==
  /\ ~time_freed => id \in refused'
  /\ lost' = IF time_freed THEN lost ELSE lost \cup m

NotCalled == UNCHANGED lost

\* deliver, in the two steps of enqueue.
deliver == enqueue(TRUE) /\ KeepOpen /\ NotCalled
deliver_notify == enqueue_notify /\ KeepOpen /\ NotCalled

\* receive: the caller polls.
receive == dequeue /\ KeepOpen /\ NotCalled

async_receive(id, wait, c) ==
  /\ async_dequeue(id, wait, c)
  /\ IF queue = <<>> THEN NotCalled ELSE OnReceive(id, {Head(queue)})
  /\ KeepOpen

cancel_async_receive == cancel /\ KeepOpen /\ NotCalled

clear == reset /\ KeepOpen /\ NotCalled

\* close: the mailbox may still be delivered to by who holds a pointer to it.
close ==
  /\ reset
  /\ time_freed' = TRUE
  /\ NotCalled

\* The io_service runs process_queue.
serve ==
  /\ \/ process_pop /\ OnReceive(running[1].id, {Head(queue)})
     \/ process_end /\ running[1].i = 0 /\ OnReceive(running[1].id, {})
     \/ process_end /\ running[1].i > 0 /\ NotCalled
     \/ process_queue /\ NotCalled
     \/ process_more /\ NotCalled
     \/ process_rearm /\ NotCalled
  /\ KeepOpen

MailboxNext ==
  \/ deliver
  \/ deliver_notify
  \/ receive
  \/ \E id \in Receives, wait \in Waits, c \in RepeatCounts : async_receive(id, wait, c)
  \/ cancel_async_receive
  \/ clear
  \/ close
  \/ timer_expires /\ KeepOpen /\ NotCalled
  \/ serve

MailboxSpec == MailboxInit /\ [][MailboxNext]_mailboxVars
-----------------------------------------------------------------------------
\* "Upon timeout or delivery of a message to the mailbox the handler h will be
\* invoked": a message that a receive takes is given to its handler.
HandlerInvoked == lost = {}
=============================================================================
