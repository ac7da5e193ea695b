-------------------------- MODULE IdAllocatorProofs --------------------------
(***************************************************************************)
(* Proofs about IdAllocator for any number of threads and any width of the *)
(* numbers and words: the last Limit - 1 numbers differ unless two threads *)
(* were at the limit at once, and a reference comes again only after all   *)
(* other low words or, if its low word is 0, all other high words.         *)
(***************************************************************************)
EXTENDS IdAllocator, TLAPS

(***************************************************************************)
(* Counters that go round.  A window onto what a counter has handed out    *)
(* ends with the newest value, and the newest value says what each of      *)
(* those before it was.  The counter goes through b, b + 1 .. b + m - 1.   *)
(***************************************************************************)

\* The value d before x.
Before(x, d, b, m) == IF d <= x - b THEN x - d ELSE x - d + m

\* The value after x.
After(x, b, m) == IF x = b + m - 1 THEN b ELSE x + 1

\* The elements of s are the last values up to x.
Trails(s, x, b, m) ==
  /\ Len(s) <= m
  /\ \A i \in 1..Len(s) : s[i] = Before(x, Len(s) - i, b, m)

(***************************************************************************)
(* Numbers.  Without a race the numbers handed out are consecutive, and    *)
(* after Limit - 1 comes 1.                                                *)
(***************************************************************************)
AtLimit(t, k) == at[t] = [pc |-> "limit", kind |-> k]

\* The number handed out last.
Newest(k) == IF count[k] = 1 \/ count[k] = Limit + 1 THEN Limit - 1 ELSE count[k] - 1

Consecutive(k) == Trails(recent[k], Newest(k), 1, Limit - 1)

\* One thread at the limit has moved the counter past it; the others that come
\* there would race.
OneAtLimit(k) ==
  /\ \A t, u \in Threads : AtLimit(t, k) /\ AtLimit(u, k) => t = u
  /\ count[k] <= Limit + 1
  /\ count[k] = Limit + 1 <=> \E t \in Threads : AtLimit(t, k)

Numbers ==
  /\ count \in [Kinds -> Nat \ {0}]
  /\ recent \in [Kinds -> Seq(1..(Limit - 1))]
  /\ \A k \in Kinds \ raced : Consecutive(k) /\ OneAtLimit(k)

(***************************************************************************)
(* References.  Low words come from one counter and high words are carried *)
(* into by whoever finds the one it read, so each are consecutive whatever *)
(* the threads do; the pairs need not be.                                  *)
(***************************************************************************)
NewestLow == IF refid0 <= 1 THEN LowWords - 1 ELSE refid0 - 1
NewestHigh == IF refid1 = 0 THEN HighWords - 1 ELSE refid1 - 1

InSequence ==
  /\ lows \in Seq(1..(LowWords - 1)) /\ Trails(lows, NewestLow, 1, LowWords - 1)
  /\ highs \in Seq(0..(HighWords - 1)) /\ Trails(highs, NewestHigh, 0, HighWords)

IdInv == TypeOK /\ Numbers /\ InSequence
-----------------------------------------------------------------------------
\* Values that are consecutive up to going round differ.
LEMMA BeforeDiffers ==
  ASSUME NEW m \in Nat \ {0}, NEW b \in Nat, NEW x \in b..(b + m - 1),
         NEW c \in 0..(m - 1), NEW d \in 0..(m - 1), Before(x, c, b, m) = Before(x, d, b, m)
  PROVE  c = d
BY DEF Before

LEMMA TrailsDiffer ==
  ASSUME NEW m \in Nat \ {0}, NEW b \in Nat, NEW x \in b..(b + m - 1),
         NEW s \in Seq(b..(b + m - 1)), Trails(s, x, b, m)
  PROVE  IsInjective(s)
<1> SUFFICES ASSUME NEW i \in DOMAIN s, NEW j \in DOMAIN s, s[i] = s[j]
             PROVE  i = j
  BY DEF IsInjective
<1> DEFINE n == Len(s)
<1>1. n \in Nat /\ n <= m /\ i \in 1..n /\ j \in 1..n
  BY DEF Trails
<1>2. Before(x, n - i, b, m) = Before(x, n - j, b, m)
  BY <1>1 DEF Trails
<1> HIDE DEF n
<1>3. n - i \in 0..(m - 1) /\ n - j \in 0..(m - 1)
  BY <1>1
<1>4. n - i = n - j
  BY <1>2, <1>3, BeforeDiffers
<1> QED BY <1>1, <1>4

\* The next value keeps them consecutive: those before it move by one.
LEMMA NextBefore ==
  ASSUME NEW m \in Nat \ {0}, NEW b \in Nat, NEW x \in b..(b + m - 1),
         NEW d \in 0..(m - 1), d < m - 1
  PROVE  Before(x, d, b, m) = Before(After(x, b, m), d + 1, b, m)
BY DEF Before, After

LEMMA TrailsNext ==
  ASSUME NEW m \in Nat \ {0}, NEW b \in Nat, NEW x \in b..(b + m - 1), NEW y,
         y = After(x, b, m),
         NEW r \in Seq(b..(b + m - 1)), Trails(r, x, b, m)
  PROVE  Window(r, y, m) \in Seq(b..(b + m - 1)) /\ Trails(Window(r, y, m), y, b, m)
<1> DEFINE n == Len(r)
           s == Append(r, y)
           q == IF n < m THEN s ELSE Tail(s)
<1>1. n \in Nat /\ n <= m /\ y \in b..(b + m - 1)
      /\ \A i \in 1..n : r[i] = Before(x, n - i, b, m)
  BY DEF Trails, After
<1>2. /\ s \in Seq(b..(b + m - 1)) /\ Len(s) = n + 1 /\ s[n + 1] = y
      /\ \A i \in 1..n : s[i] = r[i]
  BY <1>1
<1>3. Before(y, 0, b, m) = y
  BY <1>1 DEF Before
<1> HIDE DEF n, s
<1>4. ASSUME NEW i \in 1..n, n - i < m - 1 PROVE s[i] = Before(y, n + 1 - i, b, m)
  <2>1. s[i] = Before(x, n - i, b, m)
    BY <1>1, <1>2
  <2>2. PICK d \in 0..(m - 1) : d = n - i
    BY <1>1
  <2>3. d < m - 1
    BY <1>4, <2>2
  <2>4. Before(x, d, b, m) = Before(y, d + 1, b, m)
    BY <2>3, NextBefore
  <2>5. d + 1 = n + 1 - i
    BY <1>1, <2>2
  <2> QED BY <2>1, <2>2, <2>4, <2>5
<1>5. s[n + 1] = Before(y, n + 1 - (n + 1), b, m)
  BY <1>1, <1>2, <1>3
<1>6. q \in Seq(b..(b + m - 1)) /\ Len(q) <= m
      /\ \A i \in 1..Len(q) : q[i] = Before(y, Len(q) - i, b, m)
  <2>1. CASE n < m
    <3>1. q = s /\ Len(q) = n + 1
      BY <2>1, <1>2
    <3>2. \A i \in 1..n : n - i < m - 1
      BY <2>1, <1>1
    <3>3. \A i \in 1..(n + 1) : i = n + 1 \/ i \in 1..n
      BY <1>1
    <3>4. \A i \in 1..(n + 1) : s[i] = Before(y, n + 1 - i, b, m)
      BY <3>2, <3>3, <1>4, <1>5
    <3> QED BY <2>1, <3>1, <3>4, <1>1, <1>2
  <2>2. CASE ~ (n < m)
    <3>1. q = Tail(s) /\ n = m
      BY <2>2, <1>1
    <3>2. q \in Seq(b..(b + m - 1)) /\ Len(q) = n /\ \A i \in 1..n : q[i] = s[i + 1]
      <4>1. s # <<>> /\ Len(s) - 1 = n
        BY <1>1, <1>2
      <4>2. Tail(s) \in Seq(b..(b + m - 1)) /\ Len(Tail(s)) = Len(s) - 1
        BY <4>1, <1>2
      <4>3. \A i \in 1..(Len(s) - 1) : Tail(s)[i] = s[i + 1]
        BY <4>1, <1>2
      <4> HIDE DEF q
      <4> QED BY <3>1, <4>1, <4>2, <4>3
    <3>3. ASSUME NEW i \in 1..n PROVE q[i] = Before(y, n - i, b, m)
      <4>1. CASE i = n
        <5>1. n + 1 - (n + 1) = n - i
          BY <4>1, <1>1
        <5> QED BY <4>1, <3>2, <1>5, <5>1
      <4>2. CASE i # n
        <5>1. i + 1 \in 1..n /\ n - (i + 1) < m - 1 /\ n + 1 - (i + 1) = n - i
          BY <4>2, <3>1, <1>1
        <5>2. s[i + 1] = Before(y, n + 1 - (i + 1), b, m)
          BY <5>1, <1>4
        <5> QED BY <5>1, <5>2, <3>2
      <4> QED BY <4>1, <4>2
    <3> QED BY <3>1, <3>2, <3>3, <1>1
  <2> QED BY <2>1, <2>2
<1>7. q = Window(r, y, m)
  BY DEF Window, n, s
<1> HIDE DEF q
<1> QED BY <1>6, <1>7 DEF Trails
-----------------------------------------------------------------------------
LEMMA NewestIs ==
  ASSUME Numbers, NEW k \in Kinds \ raced
  PROVE  Newest(k) \in 1..(Limit - 1) /\ count[k] \in 1..(Limit + 1)
BY IdAssumption DEF Numbers, OneAtLimit, Newest

LEMMA ConsecutiveDiffer ==
  ASSUME Numbers PROVE FreshNumbers
<1> SUFFICES ASSUME NEW k \in Kinds \ raced PROVE IsInjective(recent[k])
  BY DEF FreshNumbers
<1>1. recent[k] \in Seq(1..(Limit - 1)) /\ Trails(recent[k], Newest(k), 1, Limit - 1)
  BY DEF Numbers, Consecutive
<1>2. Limit - 1 \in Nat \ {0} /\ 1 + (Limit - 1) - 1 = Limit - 1
  BY IdAssumption
<1>3. Newest(k) \in 1..(1 + (Limit - 1) - 1) /\ recent[k] \in Seq(1..(1 + (Limit - 1) - 1))
  BY <1>1, <1>2, NewestIs
<1> QED BY <1>1, <1>2, <1>3, TrailsDiffer

\* fetch_add below the limit hands out the number after the newest one.
LEMMA GiveConsecutive ==
  ASSUME Numbers, NEW t \in Threads, NEW k \in Kinds, Give(t, k, count[k]),
         count[k] < Limit, count' = [count EXCEPT ![k] = @ + 1],
         k \notin raced
  PROVE  Consecutive(k)'
<1> DEFINE x == Newest(k)
           y == count[k]
           m == Limit - 1
<1>1. m \in Nat \ {0} /\ 1 + m - 1 = m /\ y \in 1..m /\ x \in 1..m /\ m = Limit - 1
  BY NewestIs, IdAssumption
<1>2. y = After(x, 1, m)
  BY <1>1, IdAssumption DEF Newest, After
<1>3. count'[k] = y + 1
  BY DEF Numbers
<1>4. Newest(k)' = y
  BY <1>1, <1>3, IdAssumption DEF Newest
<1>5. recent'[k] = Window(recent[k], y, m)
  BY DEF Numbers, Give
<1>6. recent[k] \in Seq(1..m) /\ Trails(recent[k], x, 1, m)
  BY DEF Numbers, Consecutive
<1> HIDE DEF x, y, m
<1>7. Trails(Window(recent[k], y, m), y, 1, m)
  BY <1>1, <1>2, <1>6, TrailsNext
<1> QED BY <1>1, <1>4, <1>5, <1>7 DEF Consecutive
-----------------------------------------------------------------------------
\* What a thread is about to do says where it is.
LEMMA AtIs ==
  ASSUME TypeOK, NEW t \in Threads
  PROVE  /\ at[t] \in At
         /\ at[t] = Idle => at[t].pc = "idle"
         /\ at[t] = [pc |-> "reload"] => at[t].pc = "reload"
         /\ \A k \in Kinds : at[t] = [pc |-> "retry", kind |-> k] => at[t].pc = "retry"
         /\ \A k \in Kinds : AtLimit(t, k) => at[t].pc = "limit" /\ at[t].kind = k
BY DEF TypeOK, Idle, AtLimit

\* A thread that is elsewhere, before and after, leaves the limit as it is.
LEMMA LimitSame ==
  ASSUME TypeOK, NEW t \in Threads, NEW a, at' = [at EXCEPT ![t] = a],
         NEW k \in Kinds, ~ AtLimit(t, k), a # [pc |-> "limit", kind |-> k],
         OneAtLimit(k), count'[k] = count[k]
  PROVE  OneAtLimit(k)'
<1>1. \A u \in Threads : AtLimit(u, k)' <=> AtLimit(u, k)
  BY DEF TypeOK, AtLimit
<1> QED BY <1>1 DEF OneAtLimit

LEMMA ConsecutiveSame ==
  ASSUME NEW k, Consecutive(k), count'[k] = count[k], recent'[k] = recent[k]
  PROVE  Consecutive(k)'
BY DEF Consecutive, Newest

\* What is kept of the numbers are numbers.
LEMMA WindowType ==
  ASSUME NEW S, NEW r \in Seq(S), NEW x \in S
  PROVE  Window(r, x, Limit - 1) \in Seq(S)
<1> DEFINE s == Append(r, x)
<1>1. s \in Seq(S) /\ Len(s) = Len(r) + 1 /\ Len(r) \in Nat
  OBVIOUS
<1> HIDE DEF s
<1>2. Tail(s) \in Seq(S)
  BY <1>1
<1> QED BY <1>1, <1>2 DEF s, Window

LEMMA ToSetType == ASSUME NEW S, NEW s \in Seq(S) PROVE ToSet(s) \subseteq S
<1>1. \A i \in DOMAIN s : s[i] \in S
  OBVIOUS
<1> QED BY <1>1 DEF ToSet

\* The numbers of one kind change, of a thread that asks for that kind.
LEMMA NumbersOf ==
  ASSUME TypeOK, Numbers, NEW t \in Threads, NEW k \in Kinds,
         NEW a \in At, at' = [at EXCEPT ![t] = a],
         \A j \in Kinds \ {k} : ~ AtLimit(t, j) /\ a # [pc |-> "limit", kind |-> j],
         NEW n \in Nat \ {0}, count' = [count EXCEPT ![k] = n],
         NEW s \in Seq(1..(Limit - 1)), recent' = [recent EXCEPT ![k] = s],
         raced' \in {raced, raced \cup {k}},
         k \notin raced' => Consecutive(k)' /\ OneAtLimit(k)',
         UNCHANGED <<refid0, refid1, lows, highs>>
  PROVE  TypeOK' /\ Numbers'
<1>1. count' \in [Kinds -> Nat \ {0}] /\ recent' \in [Kinds -> Seq(1..(Limit - 1))]
  BY DEF Numbers
<1>2. ASSUME NEW j \in Kinds \ raced' PROVE Consecutive(j)' /\ OneAtLimit(j)'
  <2>1. CASE j = k
    BY <2>1, <1>2
  <2>2. CASE j # k
    <3>1. j \notin raced /\ count'[j] = count[j] /\ recent'[j] = recent[j]
      BY <2>2, <1>2 DEF Numbers
    <3>2. Consecutive(j) /\ OneAtLimit(j)
      BY <3>1 DEF Numbers
    <3>3. ~ AtLimit(t, j) /\ a # [pc |-> "limit", kind |-> j]
      BY <2>2
    <3> QED BY <3>1, <3>2, <3>3, LimitSame, ConsecutiveSame
  <2> QED BY <2>1, <2>2
<1>3. Numbers'
  BY <1>1, <1>2 DEF Numbers
<1>4. \A j \in Kinds : ToSet(recent'[j]) \subseteq 1..(Limit - 1)
  <2> SUFFICES ASSUME NEW j \in Kinds PROVE ToSet(recent'[j]) \subseteq 1..(Limit - 1)
    OBVIOUS
  <2>1. recent'[j] \in Seq(1..(Limit - 1))
    BY <1>1
  <2> QED BY <2>1, ToSetType
<1>5. at' \in [Threads -> At] /\ raced' \subseteq Kinds
  BY DEF TypeOK
<1> QED BY <1>1, <1>3, <1>4, <1>5 DEF TypeOK

\* fetch_add of the counter.
LEMMA NextNumberStep ==
  ASSUME TypeOK, Numbers, NEW t \in Threads, NEW k \in Kinds, next_number(t, k)
  PROVE  TypeOK' /\ Numbers'
<1>1. \A j \in Kinds : ~ AtLimit(t, j)
  BY AtIs DEF next_number
<1>2. /\ count[k] \in Nat \ {0} /\ count' = [count EXCEPT ![k] = count[k] + 1]
      /\ count'[k] = count[k] + 1 /\ count[k] + 1 \in Nat \ {0}
      /\ recent[k] \in Seq(1..(Limit - 1)) /\ Limit \in Nat /\ Limit > 1
      /\ UNCHANGED <<refid0, refid1, lows, highs>>
  BY IdAssumption DEF Numbers, next_number, NoRef
<1>3. CASE count[k] < Limit
  <2> DEFINE s == Window(recent[k], count[k], Limit - 1)
  <2>1. Give(t, k, count[k]) /\ raced' = raced
    BY <1>3 DEF next_number
  <2>2. recent' = [recent EXCEPT ![k] = s] /\ at' = [at EXCEPT ![t] = Idle]
    BY <2>1 DEF Give
  <2>3. s \in Seq(1..(Limit - 1))
    <3>1. count[k] \in 1..(Limit - 1)
      BY <1>2, <1>3
    <3> QED BY <1>2, <3>1, WindowType
  <2>4. Idle \in At /\ \A j \in Kinds : Idle # [pc |-> "limit", kind |-> j]
    BY DEF At, Idle
  <2>5. k \notin raced' => Consecutive(k)'
    BY <1>2, <1>3, <2>1, GiveConsecutive
  <2>6. k \notin raced' => OneAtLimit(k)'
    <3> SUFFICES ASSUME k \notin raced PROVE OneAtLimit(k)'
      BY <2>1
    <3>1. OneAtLimit(k)
      BY DEF Numbers
    <3>2. \A u \in Threads : ~ AtLimit(u, k)
      BY <3>1, <1>2, <1>3 DEF OneAtLimit
    <3>3. \A u \in Threads : ~ AtLimit(u, k)'
      BY <3>2, <2>2, <2>4 DEF TypeOK, AtLimit
    <3>4. count'[k] <= Limit + 1 /\ count'[k] # Limit + 1
      BY <1>2, <1>3
    <3> QED BY <3>3, <3>4 DEF OneAtLimit
  <2>7. \A j \in Kinds \ {k} : ~ AtLimit(t, j) /\ Idle # [pc |-> "limit", kind |-> j]
    BY <1>1, <2>4
  <2>8. raced' \in {raced, raced \cup {k}}
    BY <2>1
  <2> HIDE DEF s
  <2> QED BY <1>2, <2>2, <2>3, <2>4, <2>5, <2>6, <2>7, <2>8, NumbersOf
<1>4. CASE ~ (count[k] < Limit)
  <2> DEFINE a == [pc |-> "limit", kind |-> k]
  <2>1. /\ at' = [at EXCEPT ![t] = a] /\ recent' = recent
        /\ raced' = IF \E u \in Threads : AtLimit(u, k) THEN raced \cup {k} ELSE raced
    BY <1>4 DEF next_number, AtLimit
  <2>2. a \in At /\ \A j \in Kinds \ {k} : a # [pc |-> "limit", kind |-> j]
    BY DEF At
  <2>3. recent' = [recent EXCEPT ![k] = recent[k]]
    BY <2>1 DEF Numbers
  <2>4. k \notin raced' => Consecutive(k)' /\ OneAtLimit(k)'
    <3> SUFFICES ASSUME k \notin raced' PROVE Consecutive(k)' /\ OneAtLimit(k)'
      OBVIOUS
    <3>1. k \notin raced /\ \A u \in Threads : ~ AtLimit(u, k)
      BY <2>1
    <3>2. Consecutive(k) /\ OneAtLimit(k)
      BY <3>1 DEF Numbers
    <3>3. count[k] = Limit
      BY <3>1, <3>2, <1>2, <1>4 DEF OneAtLimit
    <3>4. Newest(k)' = Newest(k)
      BY <3>3, <1>2 DEF Newest
    <3>5. Consecutive(k)'
      BY <3>2, <3>4, <2>1 DEF Consecutive
    <3>6. \A u \in Threads : AtLimit(u, k)' <=> u = t
      BY <3>1, <2>1 DEF TypeOK, AtLimit
    <3> QED BY <3>3, <3>5, <3>6, <1>2 DEF OneAtLimit
  <2>5. \A j \in Kinds \ {k} : ~ AtLimit(t, j) /\ a # [pc |-> "limit", kind |-> j]
    BY <1>1, <2>2
  <2>6. raced' \in {raced, raced \cup {k}}
    BY <2>1
  <2> HIDE DEF a
  <2> QED BY <1>2, <2>1, <2>2, <2>3, <2>4, <2>5, <2>6, NumbersOf
<1> QED BY <1>3, <1>4

\* exchange(1) at the limit.
LEMMA RestartStep ==
  ASSUME TypeOK, Numbers, NEW t \in Threads, NEW k \in Kinds, restart(t, k)
  PROVE  TypeOK' /\ Numbers'
<1>1. AtLimit(t, k) /\ \A j \in Kinds \ {k} : ~ AtLimit(t, j)
  BY AtIs DEF restart, AtLimit
<1>2. /\ count[k] \in Nat \ {0} /\ count' = [count EXCEPT ![k] = 1] /\ count'[k] = 1
      /\ recent[k] \in Seq(1..(Limit - 1)) /\ Limit \in Nat /\ Limit > 1
      /\ raced' = raced
      /\ UNCHANGED <<refid0, refid1, lows, highs>>
  BY IdAssumption DEF Numbers, restart, NoRef
<1>3. k \notin raced => count[k] = Limit + 1
  BY <1>1 DEF Numbers, OneAtLimit
<1>4. CASE count[k] = 1
  <2> DEFINE s == Window(recent[k], 1, Limit - 1)
  <2>1. recent' = [recent EXCEPT ![k] = s] /\ at' = [at EXCEPT ![t] = Idle]
    BY <1>4 DEF restart, Give
  <2>2. s \in Seq(1..(Limit - 1))
    <3>1. 1 \in 1..(Limit - 1)
      BY <1>2
    <3> QED BY <1>2, <3>1, WindowType
  <2>3. Idle \in At /\ \A j \in Kinds : Idle # [pc |-> "limit", kind |-> j]
    BY DEF At, Idle
  <2>4. k \in raced
    BY <1>2, <1>3, <1>4
  <2>5. \A j \in Kinds \ {k} : ~ AtLimit(t, j) /\ Idle # [pc |-> "limit", kind |-> j]
    BY <1>1, <2>3
  <2>6. raced' \in {raced, raced \cup {k}}
    BY <1>2
  <2>7. 1 \in Nat \ {0}
    OBVIOUS
  <2> HIDE DEF s
  <2> QED BY <1>2, <2>1, <2>2, <2>3, <2>4, <2>5, <2>6, <2>7, NumbersOf
<1>5. CASE count[k] # 1
  <2> DEFINE a == [pc |-> "retry", kind |-> k]
  <2>1. at' = [at EXCEPT ![t] = a] /\ recent' = recent
    BY <1>5 DEF restart
  <2>2. a \in At /\ \A j \in Kinds : a # [pc |-> "limit", kind |-> j]
    BY DEF At
  <2>3. recent' = [recent EXCEPT ![k] = recent[k]]
    BY <2>1 DEF Numbers
  <2>4. k \notin raced' => Consecutive(k)' /\ OneAtLimit(k)'
    <3> SUFFICES ASSUME k \notin raced PROVE Consecutive(k)' /\ OneAtLimit(k)'
      BY <1>2
    <3>1. Consecutive(k) /\ OneAtLimit(k)
      BY DEF Numbers
    <3>2. Newest(k)' = Newest(k)
      BY <1>2, <1>3 DEF Newest
    <3>3. Consecutive(k)'
      BY <3>1, <3>2, <2>1 DEF Consecutive
    <3>4. \A u \in Threads : ~ AtLimit(u, k)'
      BY <3>1, <1>1, <2>1, <2>2 DEF TypeOK, AtLimit, OneAtLimit
    <3> QED BY <3>3, <3>4, <1>2 DEF OneAtLimit
  <2>5. \A j \in Kinds \ {k} : ~ AtLimit(t, j) /\ a # [pc |-> "limit", kind |-> j]
    BY <1>1, <2>2
  <2>6. raced' \in {raced, raced \cup {k}}
    BY <1>2
  <2>7. 1 \in Nat \ {0}
    OBVIOUS
  <2>8. at' = [at EXCEPT ![t] = a] /\ a \in At
    BY <2>1, <2>2
  <2> HIDE DEF a
  <2> QED BY <1>2, <2>3, <2>4, <2>5, <2>6, <2>7, <2>8, NumbersOf
<1> QED BY <1>4, <1>5
-----------------------------------------------------------------------------
\* The counters wrap around to 0.
LEMMA WrapsAround ==
  ASSUME NEW n \in Nat \ {0}, NEW x \in 0..(n - 1)
  PROVE  (x + 1) % n = IF x = n - 1 THEN 0 ELSE x + 1
<1>1. CASE x = n - 1
  <2>1. x + 1 = n
    BY <1>1
  <2>2. n % n = 0
    OBVIOUS
  <2> QED BY <1>1, <2>1, <2>2
<1>2. CASE x # n - 1
  <2>1. x + 1 \in 1..(n - 1)
    BY <1>2
  <2> QED BY <1>2, <2>1
<1> QED BY <1>1, <1>2

\* The steps of create_ref leave the numbers alone.
LEMMA NumbersSame ==
  ASSUME TypeOK, Numbers, NEW t \in Threads, NEW a \in At, at' = [at EXCEPT ![t] = a],
         at[t].pc # "limit", a.pc # "limit", NoNumber
  PROVE  Numbers'
<1>1. \A k \in Kinds : ~ AtLimit(t, k) /\ a # [pc |-> "limit", kind |-> k]
  BY AtIs
<1>2. \A k \in Kinds : count'[k] = count[k] /\ recent'[k] = recent[k]
  BY DEF NoNumber
<1>3. ASSUME NEW k \in Kinds \ raced' PROVE Consecutive(k)' /\ OneAtLimit(k)'
  <2>1. k \in Kinds \ raced /\ Consecutive(k) /\ OneAtLimit(k)
    BY <1>3 DEF Numbers, NoNumber
  <2> QED BY <1>1, <1>2, <2>1, LimitSame, ConsecutiveSame
<1> QED BY <1>3 DEF Numbers, NoNumber

\* The other steps leave the references alone.
LEMMA SequenceSame ==
  ASSUME InSequence, UNCHANGED <<refid0, refid1, lows, highs>>
  PROVE  InSequence'
BY DEF InSequence, NewestLow, NewestHigh

LEMMA AtRef ==
  ASSUME TypeOK, NEW t \in Threads
  PROVE  /\ at[t].pc \in {"low", "carry"} =>
              /\ at[t].mo \in 0..(HighWords - 1)
              /\ \A p \in {"low", "carry"} : [at[t] EXCEPT !.pc = p] \in At
         /\ refid0 \in 0..(LowWords - 1) /\ refid1 \in 0..(HighWords - 1)
BY DEF TypeOK, At

\* What a step of create_ref leaves to show: the types and the sequences.
LEMMA RefStep ==
  ASSUME IdInv, NEW t \in Threads, NEW a \in At, at' = [at EXCEPT ![t] = a],
         at[t].pc # "limit", a.pc # "limit", NoNumber, InSequence',
         refid0' \in 0..(LowWords - 1), refid1' \in 0..(HighWords - 1)
  PROVE  IdInv'
<1>1. Numbers'
  BY NumbersSame DEF IdInv
<1>2. ToSet(lows') \subseteq 1..(LowWords - 1) /\ ToSet(highs') \subseteq 0..(HighWords - 1)
  BY ToSetType DEF InSequence
<1>3. TypeOK'
  BY <1>2 DEF IdInv, TypeOK, NoNumber
<1> QED BY <1>1, <1>3 DEF IdInv

\* fetch_add of the low word.
LEMMA RefLowStep ==
  ASSUME IdInv, NEW t \in Threads, ref_low(t)
  PROVE  IdInv'
<1> DEFINE m == LowWords - 1
<1>1. /\ at[t].pc = "low" /\ refid0 \in 0..m /\ refid1 \in 0..(HighWords - 1)
      /\ NoNumber /\ UNCHANGED <<refid1, highs>>
  BY AtRef DEF IdInv, ref_low
<1>2. /\ LowWords \in Nat \ {0} /\ m \in Nat \ {0} /\ 1 + m - 1 = m /\ LowWords = m + 1
      /\ refid0' = IF refid0 = m THEN 0 ELSE refid0 + 1
  <2>1. LowWords \in Nat \ {0} /\ m \in Nat \ {0} /\ 1 + m - 1 = m /\ LowWords = m + 1
    BY IdAssumption
  <2>2. (refid0 + 1) % LowWords = IF refid0 = LowWords - 1 THEN 0 ELSE refid0 + 1
    BY <1>1, <2>1, WrapsAround
  <2>3. refid0' = (refid0 + 1) % LowWords
    BY DEF ref_low
  <2> QED BY <2>1, <2>2, <2>3
<1>3. /\ lows \in Seq(1..m) /\ Trails(lows, NewestLow, 1, m)
      /\ highs' \in Seq(0..(HighWords - 1)) /\ Trails(highs', NewestHigh', 0, HighWords)
  BY <1>1 DEF IdInv, InSequence, NewestHigh
<1>4. NewestLow = IF refid0 <= 1 THEN m ELSE refid0 - 1
  BY DEF NewestLow
<1>5. NewestLow' = IF refid0' <= 1 THEN m ELSE refid0' - 1
  BY DEF NewestLow
<1>6. CASE refid0 # 0
  <2>1. at' = [at EXCEPT ![t] = Idle] /\ lows' = Window(lows, refid0, m)
    BY <1>6 DEF ref_low
  <2>2. Idle \in At /\ Idle.pc # "limit"
    BY DEF At, Idle
  <2> HIDE DEF m
  <2>3. NewestLow \in 1..m /\ refid0 = After(NewestLow, 1, m)
    BY <1>1, <1>2, <1>4, <1>6 DEF After
  <2>4. NewestLow' = refid0
    BY <1>1, <1>2, <1>5, <1>6
  <2>5. lows' \in Seq(1..m) /\ Trails(lows', refid0, 1, m)
    BY <1>2, <1>3, <2>1, <2>3, TrailsNext
  <2>6. InSequence'
    BY <1>3, <2>4, <2>5 DEF InSequence, m
  <2>7. refid0' \in 0..(LowWords - 1) /\ refid1' \in 0..(HighWords - 1)
    BY <1>1, <1>2
  <2> QED BY <1>1, <2>1, <2>2, <2>6, <2>7, RefStep
<1>7. CASE refid0 = 0
  <2> DEFINE a == [at[t] EXCEPT !.pc = "carry"]
  <2>1. at' = [at EXCEPT ![t] = a] /\ lows' = lows
    BY <1>7 DEF ref_low
  <2>2. a \in At /\ a.pc # "limit"
    <3>1. a \in At
      BY <1>1, AtRef DEF IdInv
    <3>2. at[t] \in [pc : {"low", "carry"}, mo : 0..(HighWords - 1)]
      BY <1>1 DEF IdInv, TypeOK, At
    <3> QED BY <3>1, <3>2
  <2> HIDE DEF a, m
  <2>3. NewestLow' = NewestLow
    BY <1>2, <1>4, <1>5, <1>7
  <2>4. InSequence'
    BY <1>3, <2>1, <2>3 DEF InSequence, m
  <2>5. refid0' \in 0..(LowWords - 1) /\ refid1' \in 0..(HighWords - 1)
    BY <1>1, <1>2, <1>7
  <2> QED BY <1>1, <2>1, <2>2, <2>4, <2>5, RefStep
<1> QED BY <1>6, <1>7

\* The high word is read.
LEMMA RefHighStep ==
  ASSUME IdInv, NEW t \in Threads, ref_high(t)
  PROVE  IdInv'
<1> DEFINE a == [pc |-> "low", mo |-> refid1]
<1>1. at' = [at EXCEPT ![t] = a] /\ NoNumber /\ UNCHANGED <<refid0, refid1, lows, highs>>
  BY DEF ref_high, NoRef
<1>2. a \in At /\ a.pc # "limit"
  BY DEF At, IdInv, TypeOK
<1>3. at[t].pc # "limit"
  BY AtIs DEF ref_high, IdInv
<1>4. refid0 \in 0..(LowWords - 1) /\ refid1 \in 0..(HighWords - 1)
  BY DEF IdInv, TypeOK
<1> HIDE DEF a
<1>5. InSequence'
  BY <1>1, SequenceSame DEF IdInv
<1> QED BY <1>1, <1>2, <1>3, <1>4, <1>5, RefStep

\* compare_exchange_weak of the high word: it succeeds, or it fails.
LEMMA RefCarryStep ==
  ASSUME IdInv, NEW t \in Threads, ref_carry(t)
  PROVE  IdInv'
<1>1. /\ at[t].pc = "carry" /\ at[t].pc # "limit" /\ refid0 \in 0..(LowWords - 1)
      /\ refid1 \in 0..(HighWords - 1)
      /\ NoNumber /\ UNCHANGED <<refid0, lows>> /\ HighWords \in Nat \ {0}
  BY AtRef, IdAssumption DEF IdInv, ref_carry
<1>2. /\ lows' \in Seq(1..(LowWords - 1)) /\ Trails(lows', NewestLow', 1, LowWords - 1)
      /\ highs \in Seq(0..(HighWords - 1)) /\ Trails(highs, NewestHigh, 0, HighWords)
  BY <1>1 DEF IdInv, InSequence, NewestLow
<1>3. CASE /\ refid1 = at[t].mo
           /\ refid1' = (refid1 + 1) % HighWords
           /\ highs' = Window(highs, at[t].mo, HighWords)
           /\ at' = [at EXCEPT ![t] = Idle]
  <2>1. Idle \in At /\ Idle.pc # "limit"
    BY DEF At, Idle
  <2>2. refid1' = IF refid1 = HighWords - 1 THEN 0 ELSE refid1 + 1
    BY <1>1, <1>3, WrapsAround
  <2>3. refid1' \in 0..(HighWords - 1) /\ refid0' \in 0..(LowWords - 1)
    BY <1>1, <2>2
  <2>4. 0 + HighWords - 1 = HighWords - 1
    BY <1>1
  <2>5. NewestHigh \in 0..(HighWords - 1)
        /\ refid1 = After(NewestHigh, 0, HighWords)
    BY <1>1, <2>4 DEF NewestHigh, After
  <2>6. NewestHigh' = refid1
    BY <1>1, <2>2 DEF NewestHigh
  <2>7. highs' \in Seq(0..(HighWords - 1)) /\ Trails(highs', refid1, 0, HighWords)
    BY <1>1, <1>2, <1>3, <2>4, <2>5, TrailsNext
  <2>8. InSequence'
    BY <1>2, <2>6, <2>7 DEF InSequence
  <2> QED BY <1>1, <1>3, <2>1, <2>3, <2>8, RefStep
<1>4. CASE at' = [at EXCEPT ![t] = [pc |-> "reload"]] /\ UNCHANGED <<refid1, highs>>
  <2>1. [pc |-> "reload"] \in At /\ [pc |-> "reload"].pc # "limit"
    BY DEF At
  <2>2. InSequence'
    BY <1>1, <1>4, SequenceSame DEF IdInv
  <2> QED BY <1>1, <1>4, <2>1, <2>2, RefStep
<1> QED BY <1>3, <1>4 DEF ref_carry
-----------------------------------------------------------------------------
\* The inductive invariant: numbers without a race, low words and high words are each
\* handed out in order.
THEOREM IdInvCorrect == Spec => []IdInv
<1>1. Init => IdInv
  <2> SUFFICES ASSUME Init PROVE IdInv
    OBVIOUS
  <2>1. TypeOK
    <3>1. \A k \in Kinds : ToSet(recent[k]) \subseteq 1..(Limit - 1)
      <4>1. \A k \in Kinds : recent[k] \in Seq(1..(Limit - 1))
        BY DEF Init
      <4> QED BY <4>1, ToSetType
    <3>2. at \in [Threads -> At]
      BY DEF Init, At, Idle
    <3>3. refid0 \in 0..(LowWords - 1) /\ refid1 \in 0..(HighWords - 1)
      BY IdAssumption DEF Init
    <3>4. count \in [Kinds -> Nat \ {0}]
      BY DEF Init
    <3>5. ToSet(lows) \subseteq 1..(LowWords - 1) /\ ToSet(highs) \subseteq 0..(HighWords - 1)
      BY DEF Init, ToSet
    <3> QED BY <3>1, <3>2, <3>3, <3>4, <3>5 DEF Init, TypeOK
  <2>2. Numbers
    <3>1. \A t \in Threads, k \in Kinds : ~ AtLimit(t, k)
      BY DEF Init, Idle, AtLimit
    <3>2. \A k \in Kinds : count[k] = 1 /\ recent[k] = <<>>
      BY DEF Init
    <3>3. \A k \in Kinds : OneAtLimit(k)
      BY <3>1, <3>2, IdAssumption DEF OneAtLimit
    <3>4. \A k \in Kinds : Consecutive(k)
      BY <3>2, IdAssumption DEF Consecutive, Trails
    <3>5. count \in [Kinds -> Nat \ {0}] /\ recent \in [Kinds -> Seq(1..(Limit - 1))]
      BY DEF Init
    <3> QED BY <3>3, <3>4, <3>5 DEF Numbers
  <2>3. InSequence
    BY IdAssumption DEF Init, InSequence, Trails
  <2> QED BY <2>1, <2>2, <2>3 DEF IdInv
<1>2. IdInv /\ [Next]_idVars => IdInv'
  <2> SUFFICES ASSUME IdInv, [Next]_idVars PROVE IdInv'
    OBVIOUS
  <2>1. ASSUME NEW t \in Threads, NEW k \in Kinds, next_number(t, k) \/ restart(t, k)
        PROVE  IdInv'
    <3>1. TypeOK' /\ Numbers'
      BY <2>1, NextNumberStep, RestartStep DEF IdInv
    <3>2. InSequence'
      BY <2>1, SequenceSame DEF IdInv, next_number, restart, NoRef
    <3> QED BY <3>1, <3>2 DEF IdInv
  <2>2. CASE UNCHANGED idVars
    <3>1. TypeOK'
      BY <2>2 DEF idVars, IdInv, TypeOK
    <3>2. Numbers'
      BY <2>2 DEF idVars, IdInv, Numbers, Consecutive, OneAtLimit, Newest, AtLimit
    <3>3. InSequence'
      BY <2>2, SequenceSame DEF idVars, IdInv
    <3> QED BY <3>1, <3>2, <3>3 DEF IdInv
  <2> QED BY <2>1, <2>2, RefHighStep, RefLowStep, RefCarryStep
          DEF Next, create_pid, create_port, create_ref, Kinds
<1> QED BY <1>1, <1>2, PTL DEF Spec

\* Type correctness; a number that is handed out fits in its bits and is never 0.
THEOREM TypeCorrect == Spec => []TypeOK
<1>1. IdInv => TypeOK
  BY DEF IdInv
<1> QED BY <1>1, IdInvCorrect, PTL

\* The last Limit - 1 numbers of a kind differ, unless two threads were at the limit
\* of that kind at the same time.
THEOREM FreshNumbersCorrect == Spec => []FreshNumbers
<1>1. IdInv => FreshNumbers
  BY ConsecutiveDiffer DEF IdInv
<1> QED BY <1>1, IdInvCorrect, PTL

\* A reference comes again only after all other low words or, if its low word is 0, all
\* other high words, whatever threads do and however often a carry fails.
THEOREM FreshRefsCorrect == Spec => []FreshRefs
<1>1. IdInv => FreshRefs
  <2> SUFFICES ASSUME IdInv PROVE IsInjective(lows) /\ IsInjective(highs)
    BY DEF FreshRefs
  <2>1. /\ LowWords - 1 \in Nat \ {0} /\ 1 + (LowWords - 1) - 1 = LowWords - 1
        /\ HighWords \in Nat \ {0} /\ 0 + HighWords - 1 = HighWords - 1
    BY IdAssumption
  <2>2. NewestLow \in 1..(LowWords - 1) /\ NewestHigh \in 0..(HighWords - 1)
    BY IdAssumption DEF IdInv, TypeOK, NewestLow, NewestHigh
  <2>3. /\ lows \in Seq(1..(LowWords - 1)) /\ Trails(lows, NewestLow, 1, LowWords - 1)
        /\ highs \in Seq(0..(HighWords - 1)) /\ Trails(highs, NewestHigh, 0, HighWords)
    BY DEF IdInv, InSequence
  <2>4. IsInjective(lows)
    BY <2>1, <2>2, <2>3, TrailsDiffer
  <2>5. IsInjective(highs)
    BY <2>1, <2>2, <2>3, TrailsDiffer
  <2> QED BY <2>4, <2>5
<1> QED BY <1>1, IdInvCorrect, PTL
=============================================================================
