----------------------------- MODULE IdAllocator -----------------------------
(***************************************************************************)
(* The identifiers basic_otp_node hands out: process and port numbers of   *)
(* 28 bits from two atomic counters, and references of a high and a low    *)
(* word.  Any thread may ask for one at any time; every atomic operation   *)
(* is a step of its own.                                                   *)
(***************************************************************************)
EXTENDS Naturals, Sequences, SequencesExt

CONSTANTS
  Threads,
  Limit,      \* 0x0fffffff: the first number that is not handed out
  LowWords,   \* the values of m_refid0, 2^64
  HighWords   \* the values of m_refid1, 0x40000

ASSUME IdAssumption ==
  /\ Limit \in Nat /\ Limit > 1
  /\ LowWords \in Nat /\ LowWords > 1
  /\ HighWords \in Nat \ {0}

Kinds == {"pid", "port"}

VARIABLES
  count,    \* m_pid_count and m_port_count
  refid0, refid1,
  at,       \* what a thread is about to do, and what it remembers
  recent,   \* history: the last Limit - 1 numbers handed out, by kind
  raced,    \* history: kinds for which a thread reached the limit while another was there
  lows,     \* history: the low words of the last LowWords - 1 references in which it is not 0
  highs     \* history: the high words of the last HighWords references in which it is

idVars == <<count, refid0, refid1, at, recent, raced, lows, highs>>

Idle == [pc |-> "idle"]

\* basic_otp_node: the counters the constructor sets.
Init ==
  /\ count = [k \in Kinds |-> 1]
  /\ refid0 = 1
  /\ refid1 = 0
  /\ at = [t \in Threads |-> Idle]
  /\ recent = [k \in Kinds |-> <<>>]
  /\ raced = {}
  /\ lows = <<>>
  /\ highs = <<>>

NoRef == UNCHANGED <<refid0, refid1, lows, highs>>
NoNumber == UNCHANGED <<count, recent, raced>>

\* The last n elements of s with x after them.
Window(s, x, n) == IF Len(s) < n THEN Append(s, x) ELSE Tail(Append(s, x))

\* The caller has number n of kind k.
Give(t, k, n) ==
  /\ at' = [at EXCEPT ![t] = Idle]
  /\ recent' = [recent EXCEPT ![k] = Window(@, n, Limit - 1)]

\* fetch_add of the loops of create_pid and create_port: a number below the limit
\* is the caller's.
next_number(t, k) ==
  /\ at[t] = Idle \/ at[t] = [pc |-> "retry", kind |-> k]
  /\ count' = [count EXCEPT ![k] = @ + 1]
  /\ IF count[k] < Limit
     THEN Give(t, k, count[k]) /\ UNCHANGED raced
     ELSE /\ at' = [at EXCEPT ![t] = [pc |-> "limit", kind |-> k]]
          /\ raced' = IF \E u \in Threads : at[u] = [pc |-> "limit", kind |-> k]
                      THEN raced \cup {k} ELSE raced
          /\ UNCHANGED recent
  /\ NoRef

\* Mutant: the thread that reset the counter takes 1 itself, and leaves 1 there.
mut_restart(t, k) ==
  /\ at[t] = [pc |-> "limit", kind |-> k]
  /\ count' = [count EXCEPT ![k] = 1]
  /\ Give(t, k, 1)
  /\ UNCHANGED raced
  /\ NoRef

\* exchange(1) at the limit: whoever finds 1 there takes it, the others try again.
restart(t, k) ==
  /\ at[t] = [pc |-> "limit", kind |-> k]
  /\ count' = [count EXCEPT ![k] = 1]
  /\ IF count[k] = 1
     THEN Give(t, k, 1)
     ELSE at' = [at EXCEPT ![t] = [pc |-> "retry", kind |-> k]] /\ UNCHANGED recent
  /\ UNCHANGED raced
  /\ NoRef

create_pid(t) == next_number(t, "pid") \/ restart(t, "pid")
create_port(t) == next_number(t, "port") \/ restart(t, "port")

\* create_ref reads the high word ...
ref_high(t) ==
  /\ at[t] = Idle \/ at[t] = [pc |-> "reload"]
  /\ at' = [at EXCEPT ![t] = [pc |-> "low", mo |-> refid1]]
  /\ NoRef
  /\ NoNumber

\* ... takes a low word, which with the high word it has read is the reference ...
ref_low(t) ==
  /\ at[t].pc = "low"
  /\ refid0' = (refid0 + 1) % LowWords
  /\ IF refid0 # 0
     THEN at' = [at EXCEPT ![t] = Idle] /\ lows' = Window(lows, refid0, LowWords - 1)
     ELSE at' = [at EXCEPT ![t].pc = "carry"] /\ UNCHANGED lows
  /\ UNCHANGED <<refid1, highs>>
  /\ NoNumber

\* Mutant: the carry is stored without a look at what is there.
mut_ref_carry(t) ==
  /\ at[t].pc = "carry"
  /\ refid1' = (at[t].mo + 1) % HighWords
  /\ highs' = Window(highs, at[t].mo, HighWords)
  /\ at' = [at EXCEPT ![t] = Idle]
  /\ UNCHANGED <<refid0, lows>>
  /\ NoNumber

\* ... and when that is 0 carries into the high word; the reference is made with the
\* high word as it was before.  If that has changed the thread begins again.  It may also
\* do so if it has not: compare_exchange_weak fails when it likes, and the low words are
\* then gone through once more under the same high word.
ref_carry(t) ==
  /\ at[t].pc = "carry"
  /\ \/ /\ refid1 = at[t].mo
        /\ refid1' = (refid1 + 1) % HighWords
        /\ highs' = Window(highs, at[t].mo, HighWords)
        /\ at' = [at EXCEPT ![t] = Idle]
     \/ at' = [at EXCEPT ![t] = [pc |-> "reload"]] /\ UNCHANGED <<refid1, highs>>
  /\ UNCHANGED <<refid0, lows>>
  /\ NoNumber

create_ref(t) == ref_high(t) \/ ref_low(t) \/ ref_carry(t)

Next == \E t \in Threads : create_pid(t) \/ create_port(t) \/ create_ref(t)

Spec == Init /\ [][Next]_idVars
-----------------------------------------------------------------------------
At == [pc : {"idle", "reload"}] \cup [pc : {"limit", "retry"}, kind : Kinds]
        \cup [pc : {"low", "carry"}, mo : 0..(HighWords - 1)]

\* Type correctness; a number that is handed out fits in 28 bits and is never 0.
TypeOK ==
  /\ count \in [Kinds -> Nat \ {0}]
  /\ refid0 \in 0..(LowWords - 1) /\ refid1 \in 0..(HighWords - 1)
  /\ at \in [Threads -> At]
  /\ \A k \in Kinds : ToSet(recent[k]) \subseteq 1..(Limit - 1)
  /\ raced \subseteq Kinds
  /\ ToSet(lows) \subseteq 1..(LowWords - 1) /\ ToSet(highs) \subseteq 0..(HighWords - 1)

\* "Create a new unique pid": all numbers are used before one is used again, as
\* long as no two threads were at the limit at the same time.
FreshNumbers == \A k \in Kinds \ raced : IsInjective(recent[k])

\* "Create a new unique ref": whatever order threads read, take and carry in, and however
\* often a carry fails, a reference is not handed out again before all other low words
\* were or, if its low word is 0, all other high words with it.
FreshRefs == IsInjective(lows) /\ IsInjective(highs)
=============================================================================
