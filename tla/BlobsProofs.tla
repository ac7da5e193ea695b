------------------------------- MODULE BlobsProofs -------------------------------
(***************************************************************************)
(* Proofs about Blobs, for any number of threads, handles and blobs and    *)
(* any sizes: the counts are exact, and a blob is freed once and when      *)
(* nothing points to it, also where tuples, lists and maps are changed     *)
(* while several terms share them.                                         *)
(*                                                                         *)
(* The first part says what a change in one place does to the number of    *)
(* references, the second what each operation does to each blob.           *)
(***************************************************************************)
EXTENDS Blobs, TLAPS, FiniteSetTheorems

(***************************************************************************)
(* Counting                                                                *)
(***************************************************************************)
\* One if two things are the same, otherwise none.
One(u, v) == IF u = v THEN 1 ELSE 0

\* The pairs of an index and a member of its set.
Pairs(K, F) == UNION {{k} \X F[k] : k \in K}

LEMMA PairIs ==
  ASSUME NEW K, NEW F
  PROVE  \A p : p \in Pairs(K, F) <=> \E k \in K : \E i \in F[k] : p = <<k, i>>
BY DEF Pairs

\* The pairs of one index are as many as the members of its set.
LEMMA CountOfIndex ==
  ASSUME NEW k, NEW S, IsFiniteSet(S)
  PROVE  /\ IsFiniteSet({k} \X S) /\ IsFiniteSet(S)
         /\ Cardinality({k} \X S) = Cardinality(S)
         /\ Cardinality(S) \in Nat
<1>1. IsFiniteSet({k}) /\ Cardinality({k}) = 1
  BY FS_Singleton
<1>2. Cardinality(S) \in Nat
  BY FS_CardinalityType
<1>3. IsFiniteSet({k} \X S) /\ Cardinality({k} \X S) = Cardinality({k}) * Cardinality(S)
  BY <1>1, FS_Product
<1> QED BY <1>1, <1>2, <1>3

\* Disjoint sets are counted together.
LEMMA CountDisjoint ==
  ASSUME NEW S, NEW T, IsFiniteSet(S), IsFiniteSet(T), S \cap T = {}
  PROVE  /\ IsFiniteSet(S \cup T)
         /\ Cardinality(S \cup T) = Cardinality(S) + Cardinality(T)
<1>1. /\ IsFiniteSet(S \cup T)
      /\ Cardinality(S \cup T) = Cardinality(S) + Cardinality(T) - Cardinality(S \cap T)
  BY FS_Union
<1>2. Cardinality(S \cap T) = 0
  BY FS_EmptySet
<1>3. Cardinality(S) \in Nat /\ Cardinality(T) \in Nat
  BY FS_CardinalityType
<1> QED BY <1>1, <1>2, <1>3

\* When the set of one index changes, the pairs are as many more as it grows.
LEMMA PairsChange ==
  ASSUME NEW K, NEW F, NEW G, NEW k \in K, \A j \in K \ {k} : F[j] = G[j],
         IsFiniteSet(F[k]), IsFiniteSet(G[k]), IsFiniteSet(Pairs(K, F))
  PROVE  /\ IsFiniteSet(Pairs(K, G))
         /\ Cardinality(Pairs(K, G)) =
              Cardinality(Pairs(K, F)) - Cardinality(F[k]) + Cardinality(G[k])
         /\ Cardinality(Pairs(K, F)) \in Nat
         /\ Cardinality(F[k]) \in Nat /\ Cardinality(G[k]) \in Nat
<1> DEFINE R == Pairs(K, F) \ ({k} \X F[k])
           f == {k} \X F[k]
           g == {k} \X G[k]
<1>1. Pairs(K, F) = R \cup f /\ R \cap f = {}
  BY PairIs
<1>2. Pairs(K, G) = R \cup g /\ R \cap g = {}
  <2>1. \A p : p \in R <=> \E j \in K \ {k} : \E i \in F[j] : p = <<j, i>>
    BY PairIs
  <2>2. \A p : p \in g <=> \E i \in G[k] : p = <<k, i>>
    OBVIOUS
  <2> HIDE DEF R, g
  <2>3. ASSUME NEW p PROVE p \in Pairs(K, G) <=> p \in R \/ p \in g
    BY <2>1, <2>2, PairIs
  <2>4. R \cap g = {}
    BY <2>1, <2>2
  <2> QED BY <2>3, <2>4
<1>3. IsFiniteSet(R) /\ IsFiniteSet(f) /\ IsFiniteSet(g)
  BY FS_Difference, CountOfIndex
<1>4. Cardinality(f) = Cardinality(F[k]) /\ Cardinality(g) = Cardinality(G[k])
  BY CountOfIndex
<1>5. /\ Cardinality(R) \in Nat /\ Cardinality(F[k]) \in Nat /\ Cardinality(G[k]) \in Nat
      /\ Cardinality(Pairs(K, F)) \in Nat
  BY <1>3, FS_CardinalityType
<1> HIDE DEF R, f, g
<1>6. Cardinality(Pairs(K, F)) = Cardinality(R) + Cardinality(f)
  BY <1>1, <1>3, CountDisjoint
<1>7. IsFiniteSet(Pairs(K, G)) /\ Cardinality(Pairs(K, G)) = Cardinality(R) + Cardinality(g)
  BY <1>2, <1>3, CountDisjoint
<1> QED BY <1>4, <1>5, <1>6, <1>7

\* The members of a finite set are counted.
LEMMA CountMember ==
  ASSUME NEW S, IsFiniteSet(S), NEW x \in S
  PROVE  Cardinality(S) \in Nat /\ Cardinality(S) > 0
BY FS_CardinalityType, FS_EmptySet

\* A handle that changes what it points to.
At(f, x) == {k \in Handles : f[k] = x}
OnlyAt(h, f, g) == \A k \in Handles \ {h} : g[k] = f[k]

LEMMA PointerChange ==
  ASSUME NEW f, NEW g, NEW h \in Handles, OnlyAt(h, f, g), NEW x,
         IsFiniteSet(At(f, x))
  PROVE  /\ IsFiniteSet(At(g, x))
         /\ Cardinality(At(g, x)) = Cardinality(At(f, x)) - One(f[h], x) + One(g[h], x)
         /\ Cardinality(At(f, x)) \in Nat
<1> DEFINE R == At(f, x) \ {h}
<1>1. IsFiniteSet(R) /\ Cardinality(R) = Cardinality(At(f, x)) - One(f[h], x)
  <2>1. h \in At(f, x) <=> f[h] = x
    BY DEF At
  <2>2. /\ IsFiniteSet(R)
        /\ Cardinality(R) = IF h \in At(f, x) THEN Cardinality(At(f, x)) - 1
                            ELSE Cardinality(At(f, x))
    BY FS_RemoveElement
  <2>3. Cardinality(At(f, x)) \in Nat
    BY FS_CardinalityType
  <2> QED BY <2>1, <2>2, <2>3 DEF One
<1>2. h \notin R /\ At(g, x) = IF g[h] = x THEN R \cup {h} ELSE R
  BY DEF At, OnlyAt
<1> HIDE DEF R
<1>3. IsFiniteSet(At(g, x)) /\ Cardinality(At(g, x)) = Cardinality(R) + One(g[h], x)
  <2>1. IsFiniteSet(R \cup {h}) /\ Cardinality(R \cup {h}) = Cardinality(R) + 1
    BY <1>1, <1>2, FS_AddElement
  <2>2. Cardinality(R) \in Nat
    BY <1>1, FS_CardinalityType
  <2> QED BY <1>1, <1>2, <2>1, <2>2 DEF One
<1> QED BY <1>1, <1>3, FS_CardinalityType

\* The tasks and the elements of a sequence are finitely many.
Task ==
  [task : {"release"}, b : Blob \cup {Nil}] \cup [task : {"free"}, b : Blob \ {EmptyList}]
    \cup [task : {"copy"}, h : Handles, g : Handles, i : Nat]

Storage ==
  [type : Types, rc : Nat, elems : Seq(Blob \cup {Nil}), full : BOOLEAN,
   mem : {"none", "live", "dying", "freed"}]

LEMMA FiniteTasks ==
  ASSUME NEW s \in Seq(Task), NEW k, NEW x
  PROVE  IsFiniteSet(TasksIn(s, k, x)) /\ Cardinality(TasksIn(s, k, x)) \in Nat
<1>1. IsFiniteSet(1..Len(s)) /\ TasksIn(s, k, x) \in SUBSET (1..Len(s))
  BY FS_Interval DEF TasksIn
<1> QED BY <1>1, FS_Subset, FS_CardinalityType

LEMMA FiniteSlots ==
  ASSUME NEW r \in Storage, NEW x
  PROVE  IsFiniteSet(SlotsIn(r, x)) /\ Cardinality(SlotsIn(r, x)) \in Nat
<1>1. Len(r.elems) \in Nat /\ DOMAIN r.elems = 1..Len(r.elems)
  BY DEF Storage
<1>2. IsFiniteSet(1..Len(r.elems)) /\ SlotsIn(r, x) \in SUBSET (1..Len(r.elems))
  BY <1>1, FS_Interval DEF SlotsIn
<1> QED BY <1>2, FS_Subset, FS_CardinalityType

\* The last task is done.
LEMMA TaskDone ==
  ASSUME NEW s \in Seq(Task), s # <<>>, NEW k, NEW x
  PROVE  /\ Front(s) \in Seq(Task) /\ Len(Front(s)) = Len(s) - 1
         /\ \A i \in 1..(Len(s) - 1) : Front(s)[i] = s[i]
         /\ Len(s) \in Nat \ {0} /\ Last(s) = s[Len(s)] /\ Last(s) \in Task
         /\ Cardinality(TasksIn(Front(s), k, x)) =
              Cardinality(TasksIn(s, k, x)) - (IF Last(s).task = k THEN One(Last(s).b, x) ELSE 0)
<1>1. Len(s) \in Nat \ {0} /\ DOMAIN s = 1..Len(s)
  OBVIOUS
<1>2. /\ Front(s) \in Seq(Task) /\ Len(Front(s)) = Len(s) - 1
      /\ \A i \in 1..(Len(s) - 1) : Front(s)[i] = s[i]
      /\ DOMAIN Front(s) = 1..(Len(s) - 1)
  BY <1>1 DEF Front
<1>3. Last(s) = s[Len(s)] /\ Last(s) \in Task
  BY <1>1 DEF Last
<1>4. TasksIn(Front(s), k, x) = TasksIn(s, k, x) \ {Len(s)}
  BY <1>1, <1>2 DEF TasksIn
<1>5. Len(s) \in TasksIn(s, k, x) <=> Last(s).task = k /\ Last(s).b = x
  BY <1>1, <1>3 DEF TasksIn
<1>6. IsFiniteSet(TasksIn(s, k, x)) /\ Cardinality(TasksIn(s, k, x)) \in Nat
  BY FiniteTasks
<1>7. Cardinality(TasksIn(s, k, x) \ {Len(s)}) =
        IF Len(s) \in TasksIn(s, k, x) THEN Cardinality(TasksIn(s, k, x)) - 1
        ELSE Cardinality(TasksIn(s, k, x))
  BY <1>6, FS_RemoveElement
<1>8. Cardinality(TasksIn(Front(s), k, x)) =
        Cardinality(TasksIn(s, k, x)) - (IF Last(s).task = k THEN One(Last(s).b, x) ELSE 0)
  BY <1>4, <1>5, <1>6, <1>7 DEF One
<1> QED BY <1>1, <1>2, <1>3, <1>8

\* The tasks of a thread that was idle.
LEMMA NoTasks ==
  ASSUME NEW k, NEW x
  PROVE  TasksIn(<<>>, k, x) = {} /\ Cardinality(TasksIn(<<>>, k, x)) = 0
BY FS_EmptySet DEF TasksIn

LEMMA FirstTask ==
  ASSUME NEW v \in Blob \cup {Nil}, NEW c \in Task, c.task = "copy", NEW k, NEW x
  PROVE  /\ <<Release(v)>> \in Seq(Task)
         /\ <<c, Release(v)>> \in Seq(Task)
         /\ Cardinality(TasksIn(<<Release(v)>>, k, x)) = (IF k = "release" THEN One(v, x) ELSE 0)
         /\ k # "copy" => Cardinality(TasksIn(<<c, Release(v)>>, k, x))
                            = (IF k = "release" THEN One(v, x) ELSE 0)
<1>1. Release(v) \in Task /\ Release(v).task = "release" /\ Release(v).b = v
  BY DEF Release, Task
<1> HIDE DEF Release
<1>2. TasksIn(<<Release(v)>>, k, x) = IF k = "release" /\ v = x THEN {1} ELSE {}
  BY <1>1 DEF TasksIn
<1>3. k # "copy" => TasksIn(<<c, Release(v)>>, k, x) = IF k = "release" /\ v = x THEN {2} ELSE {}
  BY <1>1 DEF TasksIn
<1>4. Cardinality({}) = 0 /\ Cardinality({1}) = 1 /\ Cardinality({2}) = 1
  BY FS_EmptySet, FS_Singleton
<1>5. Cardinality(TasksIn(<<Release(v)>>, k, x)) = (IF k = "release" THEN One(v, x) ELSE 0)
  BY <1>2, <1>4 DEF One
<1>6. k # "copy" => Cardinality(TasksIn(<<c, Release(v)>>, k, x)) = (IF k = "release" THEN One(v, x) ELSE 0)
  BY <1>3, <1>4 DEF One
<1> QED BY <1>1, <1>5, <1>6

\* The last release of a blob leaves a task to free it and one for each element.
Occurs(e, x) == {i \in DOMAIN e : e[i] = x}

Destroying(s, b, e) ==
  Front(s) \o <<Free(b)>> \o Reverse([i \in DOMAIN e |-> Release(e[i])])

LEMMA ConcatIs ==
  ASSUME NEW S, NEW u \in Seq(S), NEW v \in Seq(S)
  PROVE  /\ u \o v \in Seq(S) /\ Len(u \o v) = Len(u) + Len(v)
         /\ \A i \in 1..Len(u) : (u \o v)[i] = u[i]
         /\ \A i \in 1..Len(v) : (u \o v)[Len(u) + i] = v[i]
OBVIOUS

LEMMA DestroyingIs ==
  ASSUME NEW s \in Seq(Task), s # <<>>, NEW b \in Blob \ {EmptyList},
         NEW e \in Seq(Blob \cup {Nil})
  PROVE  /\ Destroying(s, b, e) \in Seq(Task)
         /\ Len(Destroying(s, b, e)) = Len(s) + Len(e)
         /\ \A i \in 1..(Len(s) - 1) : Destroying(s, b, e)[i] = s[i]
         /\ Destroying(s, b, e)[Len(s)] = Free(b)
         /\ \A i \in 1..Len(e) : Destroying(s, b, e)[Len(s) + Len(e) + 1 - i] = Release(e[i])
<1> DEFINE d == [i \in DOMAIN e |-> Release(e[i])]
           r == Reverse(d)
           f == Front(s)
           u == <<Free(b)>>
<1>1. Len(e) \in Nat /\ DOMAIN e = 1..Len(e) /\ \A i \in 1..Len(e) : e[i] \in Blob \cup {Nil}
  OBVIOUS
<1>2. \A v \in Blob \cup {Nil} : Release(v) \in Task
  BY DEF Release, Task
<1>3. d \in Seq(Task) /\ Len(d) = Len(e) /\ \A i \in 1..Len(e) : d[i] = Release(e[i])
  BY <1>1, <1>2
<1> HIDE DEF d
<1>4. /\ r \in Seq(Task) /\ Len(r) = Len(e)
      /\ \A i \in 1..Len(e) : r[i] = d[Len(e) - i + 1]
  BY <1>1, <1>3 DEF Reverse
<1>5. /\ f \in Seq(Task) /\ Len(f) = Len(s) - 1 /\ Len(s) \in Nat \ {0}
      /\ \A i \in 1..(Len(s) - 1) : f[i] = s[i]
  BY TaskDone
<1>6. Free(b) \in Task
  BY DEF Free, Task
<1>7. u \in Seq(Task) /\ Len(u) = 1 /\ u[1] = Free(b)
  BY <1>6
<1> HIDE DEF r, f, u
<1>8. /\ f \o u \in Seq(Task) /\ Len(f \o u) = Len(s)
      /\ \A i \in 1..(Len(s) - 1) : (f \o u)[i] = s[i]
      /\ (f \o u)[Len(s)] = Free(b)
  <2>1. Len(f) + 1 = Len(s) /\ 1 \in 1..Len(u)
    BY <1>5, <1>7
  <2>2. /\ f \o u \in Seq(Task) /\ Len(f \o u) = Len(f) + Len(u)
        /\ \A i \in 1..Len(f) : (f \o u)[i] = f[i]
        /\ \A i \in 1..Len(u) : (f \o u)[Len(f) + i] = u[i]
    <3>1. f \in Seq(Task) /\ u \in Seq(Task)
      BY <1>5, <1>7
    <3> QED BY <3>1, ConcatIs
  <2>3. (f \o u)[Len(f) + 1] = u[1]
    BY <2>1, <2>2
  <2> QED BY <1>5, <1>7, <2>1, <2>2, <2>3
<1> DEFINE w == f \o u
<1>9. w \in Seq(Task) /\ Len(w) = Len(s) /\ (\A i \in 1..(Len(s) - 1) : w[i] = s[i])
      /\ w[Len(s)] = Free(b)
  BY <1>8
<1> HIDE DEF w
<1>10. /\ w \o r \in Seq(Task) /\ Len(w \o r) = Len(s) + Len(e)
       /\ \A i \in 1..Len(s) : (w \o r)[i] = w[i]
       /\ \A i \in 1..Len(e) : (w \o r)[Len(s) + i] = r[i]
  <2>1. w \in Seq(Task) /\ r \in Seq(Task)
    BY <1>4, <1>9
  <2>2. /\ w \o r \in Seq(Task) /\ Len(w \o r) = Len(w) + Len(r)
        /\ \A i \in 1..Len(w) : (w \o r)[i] = w[i]
        /\ \A i \in 1..Len(r) : (w \o r)[Len(w) + i] = r[i]
    BY <2>1, ConcatIs
  <2>3. Len(w) = Len(s) /\ Len(r) = Len(e)
    BY <1>4, <1>9
  <2> QED BY <2>2, <2>3
<1>11. ASSUME NEW i \in 1..Len(e)
       PROVE  (w \o r)[Len(s) + Len(e) + 1 - i] = Release(e[i])
  <2> DEFINE j == Len(e) + 1 - i
  <2>1. j \in 1..Len(e) /\ Len(s) + Len(e) + 1 - i = Len(s) + j /\ Len(e) - j + 1 = i
    BY <1>1, <1>5
  <2> HIDE DEF j
  <2>2. (w \o r)[Len(s) + j] = r[j] /\ r[j] = d[Len(e) - j + 1] /\ d[i] = Release(e[i])
    BY <2>1, <1>3, <1>4, <1>10
  <2> QED BY <2>1, <2>2
<1>12. Destroying(s, b, e) = w \o r
  BY DEF Destroying, w, r, f, u, d
<1> QED BY <1>5, <1>9, <1>10, <1>11, <1>12

\* They are no copies.
LEMMA DestroyingIsNoCopy ==
  ASSUME NEW s \in Seq(Task), s # <<>>, NEW b \in Blob \ {EmptyList},
         NEW e \in Seq(Blob \cup {Nil}), NEW i \in DOMAIN Destroying(s, b, e),
         Destroying(s, b, e)[i].task = "copy"
  PROVE  i \in DOMAIN s /\ Destroying(s, b, e)[i] = s[i]
<1> PICK q : q = Destroying(s, b, e)
  OBVIOUS
<1> PICK n : n = Len(s)
  OBVIOUS
<1> PICK m : m = Len(e)
  OBVIOUS
<1>1. n \in Nat \ {0} /\ m \in Nat /\ DOMAIN s = 1..n
  OBVIOUS
<1>2. /\ Destroying(s, b, e) \in Seq(Task)
      /\ Len(Destroying(s, b, e)) = Len(s) + Len(e)
      /\ \A j \in 1..(Len(s) - 1) : Destroying(s, b, e)[j] = s[j]
      /\ Destroying(s, b, e)[Len(s)] = Free(b)
      /\ \A j \in 1..Len(e) : Destroying(s, b, e)[Len(s) + Len(e) + 1 - j] = Release(e[j])
  BY DestroyingIs
<1>3. /\ q \in Seq(Task) /\ Len(q) = n + m /\ \A j \in 1..(n - 1) : q[j] = s[j]
      /\ q[n] = Free(b) /\ \A j \in 1..m : q[n + m + 1 - j] = Release(e[j])
  BY <1>2
<1>4. Free(b).task = "free" /\ \A v : Release(v).task = "release"
  BY DEF Free, Release
<1>5. i \in 1..(n + m) /\ q[i].task = "copy"
  BY <1>1, <1>3
<1>6. i # n
  BY <1>3, <1>4, <1>5
<1>7. ASSUME i > n PROVE FALSE
  <2> PICK j : j = n + m + 1 - i
    OBVIOUS
  <2>1. j \in 1..m /\ i = n + m + 1 - j
    BY <1>1, <1>5, <1>7
  <2>2. q[i] = Release(e[j])
    BY <1>3, <2>1
  <2> QED BY <1>4, <1>5, <2>2
<1>8. i \in 1..(n - 1)
  BY <1>1, <1>5, <1>6, <1>7
<1> QED BY <1>1, <1>3, <1>8

LEMMA DestroyingCounts ==
  ASSUME NEW s \in Seq(Task), s # <<>>, NEW b \in Blob \ {EmptyList},
         NEW e \in Seq(Blob \cup {Nil}), NEW x
  PROVE  /\ Cardinality(TasksIn(Destroying(s, b, e), "release", x)) =
              Cardinality(TasksIn(Front(s), "release", x)) + Cardinality(Occurs(e, x))
         /\ Cardinality(TasksIn(Destroying(s, b, e), "free", x)) =
              Cardinality(TasksIn(Front(s), "free", x)) + One(b, x)
         /\ IsFiniteSet(Occurs(e, x)) /\ Cardinality(Occurs(e, x)) \in Nat
<1> DEFINE q == Destroying(s, b, e)
           n == Len(s)
           m == Len(e)
<1>1. n \in Nat \ {0} /\ m \in Nat /\ DOMAIN e = 1..m
  OBVIOUS
<1>2. /\ q \in Seq(Task) /\ Len(q) = n + m
      /\ \A i \in 1..(n - 1) : q[i] = s[i]
      /\ q[n] = Free(b)
      /\ \A i \in 1..m : q[n + m + 1 - i] = Release(e[i])
  BY DestroyingIs
<1>3. /\ Front(s) \in Seq(Task) /\ Len(Front(s)) = n - 1
      /\ \A i \in 1..(n - 1) : Front(s)[i] = s[i]
  BY TaskDone
<1>4. /\ Free(b).task = "free" /\ Free(b).b = b
      /\ \A v : Release(v).task = "release" /\ Release(v).b = v
  BY DEF Free, Release
<1> HIDE DEF q, n, m
<1>5. DOMAIN q = 1..(n + m) /\ DOMAIN Front(s) = 1..(n - 1)
  BY <1>1, <1>2, <1>3
<1>6. \A j \in (n + 1)..(n + m) : q[j] = Release(e[n + m + 1 - j]) /\ n + m + 1 - j \in 1..m
  <2> TAKE j \in (n + 1)..(n + m)
  <2> DEFINE i == n + m + 1 - j
  <2>1. i \in 1..m /\ j = n + m + 1 - i
    BY <1>1
  <2> HIDE DEF i
  <2>2. q[j] = Release(e[i])
    BY <1>2, <2>1
  <2> QED BY <2>1, <2>2 DEF i
<1> DEFINE f(k) == TasksIn(Front(s), k, x)
           d == {j \in (n + 1)..(n + m) : e[n + m + 1 - j] = x}
<1>7. TasksIn(q, "release", x) = f("release") \cup d /\ f("release") \cap d = {}
  <2>1. ASSUME NEW j PROVE j \in TasksIn(q, "release", x) <=> j \in f("release") \/ j \in d
    <3>1. CASE j \in 1..(n - 1)
      BY <3>1, <1>1, <1>2, <1>3, <1>5 DEF TasksIn
    <3>2. CASE j = n
      BY <3>2, <1>1, <1>2, <1>4, <1>5 DEF TasksIn
    <3>3. CASE j \in (n + 1)..(n + m)
      BY <3>3, <1>1, <1>4, <1>5, <1>6 DEF TasksIn
    <3>4. CASE j \notin 1..(n + m)
      BY <3>4, <1>1, <1>5 DEF TasksIn
    <3> QED BY <3>1, <3>2, <3>3, <3>4, <1>1
  <2>2. f("release") \subseteq 1..(n - 1)
    BY <1>5 DEF TasksIn
  <2> QED BY <1>1, <2>1, <2>2
<1>8. TasksIn(q, "free", x) = IF b = x THEN f("free") \cup {n} ELSE f("free")
  <2>1. ASSUME NEW j PROVE j \in TasksIn(q, "free", x) <=> j \in f("free") \/ (b = x /\ j = n)
    <3>1. CASE j \in 1..(n - 1)
      <4>1. j # n /\ j \in DOMAIN q /\ j \in DOMAIN Front(s) /\ q[j] = Front(s)[j]
        BY <3>1, <1>1, <1>2, <1>3, <1>5
      <4> QED BY <4>1 DEF TasksIn
    <3>2. CASE j = n
      BY <3>2, <1>1, <1>2, <1>4, <1>5 DEF TasksIn
    <3>3. CASE j \in (n + 1)..(n + m)
      BY <3>3, <1>1, <1>4, <1>5, <1>6 DEF TasksIn
    <3>4. CASE j \notin 1..(n + m)
      BY <3>4, <1>1, <1>5 DEF TasksIn
    <3> QED BY <3>1, <3>2, <3>3, <3>4, <1>1
  <2> QED BY <2>1
<1>9. n \notin f("free")
  BY <1>1, <1>5 DEF TasksIn
<1>10. IsFiniteSet(Occurs(e, x)) /\ Cardinality(Occurs(e, x)) \in Nat
  <2>1. IsFiniteSet(1..m) /\ Occurs(e, x) \in SUBSET (1..m)
    BY <1>1, FS_Interval DEF Occurs
  <2> QED BY <2>1, FS_Subset, FS_CardinalityType
<1>11. IsFiniteSet(d) /\ Cardinality(d) = Cardinality(Occurs(e, x))
  <2> DEFINE g == [i \in Occurs(e, x) |-> n + m + 1 - i]
  <2>1. \A i \in Occurs(e, x) : i \in 1..m /\ e[i] = x
    BY <1>1 DEF Occurs
  <2>2. g \in [Occurs(e, x) -> d]
    <3>1. ASSUME NEW i \in Occurs(e, x) PROVE n + m + 1 - i \in d
      <4>1. n + m + 1 - i \in (n + 1)..(n + m) /\ n + m + 1 - (n + m + 1 - i) = i
        BY <2>1, <1>1
      <4> QED BY <4>1, <2>1
    <3> QED BY <3>1
  <2>3. \A i, j \in Occurs(e, x) : g[i] = g[j] => i = j
    BY <2>1, <1>1
  <2>4. \A j \in d : \E i \in Occurs(e, x) : g[i] = j
    <3> TAKE j \in d
    <3> DEFINE i == n + m + 1 - j
    <3>1. i \in 1..m /\ e[i] = x /\ n + m + 1 - i = j
      BY <1>1
    <3>2. i \in Occurs(e, x)
      BY <3>1, <1>1 DEF Occurs
    <3> QED BY <3>1, <3>2
  <2> HIDE DEF g, d
  <2>5. g \in Bijection(Occurs(e, x), d)
    BY <2>2, <2>3, <2>4 DEF Bijection, Injection, Surjection, IsInjective
  <2> QED BY <2>5, <1>10, FS_Bijection DEF ExistsBijection
<1> HIDE DEF d
<1>12. \A k : IsFiniteSet(f(k)) /\ Cardinality(f(k)) \in Nat
  BY <1>3, FiniteTasks
<1> HIDE DEF f
<1>13. Cardinality(TasksIn(q, "release", x)) = Cardinality(f("release")) + Cardinality(Occurs(e, x))
  BY <1>7, <1>11, <1>12, CountDisjoint
<1>14. Cardinality(TasksIn(q, "free", x)) = Cardinality(f("free")) + One(b, x)
  <2>1. Cardinality(f("free") \cup {n}) = Cardinality(f("free")) + 1
    BY <1>9, <1>12, FS_AddElement
  <2>2. CASE b = x
    BY <1>8, <2>1, <2>2 DEF One
  <2>3. CASE b # x
    BY <1>8, <1>12, <2>3 DEF One
  <2> QED BY <2>2, <2>3
<1> QED BY <1>10, <1>13, <1>14 DEF f, q

\* The elements of a live blob, of another, and one more element.
LEMMA SlotsAre ==
  ASSUME NEW r, NEW x
  PROVE  /\ r.mem = "live" => SlotsIn(r, x) = Occurs(r.elems, x)
         /\ r.mem # "live" => SlotsIn(r, x) = {} /\ Cardinality(SlotsIn(r, x)) = 0
BY FS_EmptySet DEF SlotsIn, Occurs

LEMMA OccursMore ==
  ASSUME NEW e \in Seq(Blob \cup {Nil}), NEW v \in Blob \cup {Nil}, NEW x
  PROVE  /\ IsFiniteSet(Occurs(e, x)) /\ Cardinality(Occurs(e, x)) \in Nat
         /\ Cardinality(Occurs(Append(e, v), x)) = Cardinality(Occurs(e, x)) + One(v, x)
         /\ Cardinality(Occurs(<<v>>, x)) = One(v, x)
<1> DEFINE n == Len(e) + 1
           o == Occurs(e, x)
<1>1. /\ DOMAIN e = 1..Len(e) /\ Len(e) \in Nat
      /\ DOMAIN Append(e, v) = 1..n /\ Append(e, v)[n] = v
      /\ \A i \in 1..Len(e) : Append(e, v)[i] = e[i]
  OBVIOUS
<1>2. IsFiniteSet(1..Len(e)) /\ o \in SUBSET (1..Len(e))
  BY <1>1, FS_Interval DEF Occurs
<1>3. IsFiniteSet(o) /\ Cardinality(o) \in Nat
  BY <1>2, FS_Subset, FS_CardinalityType
<1>4. n \notin o
  BY <1>1, <1>2
<1>5. Occurs(Append(e, v), x) = IF v = x THEN o \cup {n} ELSE o
  BY <1>1 DEF Occurs
<1>6. Occurs(<<v>>, x) = IF v = x THEN {1} ELSE {}
  BY DEF Occurs
<1> HIDE DEF o, n
<1>7. Cardinality(o \cup {n}) = Cardinality(o) + 1
  BY <1>3, <1>4, FS_AddElement
<1>8. Cardinality({1}) = 1 /\ Cardinality({}) = 0
  BY FS_Singleton, FS_EmptySet
<1>9. CASE v = x
  <2>1. Occurs(Append(e, v), x) = o \cup {n} /\ Occurs(<<v>>, x) = {1} /\ One(v, x) = 1
    BY <1>5, <1>6, <1>9 DEF One
  <2> QED BY <1>3, <1>7, <1>8, <2>1 DEF o
<1>10. CASE v # x
  <2>1. Occurs(Append(e, v), x) = o /\ Occurs(<<v>>, x) = {} /\ One(v, x) = 0
    BY <1>5, <1>6, <1>10 DEF One
  <2>2. Cardinality(o) = Cardinality(o) + 0
    BY <1>3
  <2>3. Cardinality(Occurs(Append(e, v), x)) = Cardinality(o) + One(v, x)
    BY <2>1, <2>2
  <2> QED BY <1>3, <1>8, <2>1, <2>3 DEF o
<1> QED BY <1>9, <1>10

LEMMA FiniteOccurs ==
  ASSUME NEW e \in Seq(Blob \cup {Nil}), NEW x
  PROVE  IsFiniteSet(Occurs(e, x)) /\ Cardinality(Occurs(e, x)) \in Nat
<1>1. Nil \in Blob \cup {Nil}
  OBVIOUS
<1> QED BY <1>1, OccursMore

\* inc_rc counts, and changes nothing but the counts.
LEMMA Increment ==
  ASSUME NEW bs \in [Blob -> Storage], NEW e \in Seq(Blob \cup {Nil})
  PROVE  /\ inc_rc(bs, e) \in [Blob -> Storage]
         /\ \A x \in Blob :
              /\ inc_rc(bs, e)[x].type = bs[x].type /\ inc_rc(bs, e)[x].elems = bs[x].elems
              /\ inc_rc(bs, e)[x].full = bs[x].full /\ inc_rc(bs, e)[x].mem = bs[x].mem
              /\ x = EmptyList => inc_rc(bs, e)[x] = bs[x]
              /\ x # EmptyList =>
                   inc_rc(bs, e)[x].rc = bs[x].rc + Cardinality(Occurs(e, x))
<1> DEFINE n(x) == IF x = EmptyList THEN bs[x].rc ELSE bs[x].rc + Cardinality(Occurs(e, x))
<1>1. inc_rc(bs, e) = [x \in Blob |-> [bs[x] EXCEPT !.rc = n(x)]]
  <2>1. \A x \in Blob : {i \in DOMAIN e : e[i] = x} = Occurs(e, x)
    BY DEF Occurs
  <2>2. \A x \in Blob :
          (IF x = EmptyList THEN bs[x].rc
           ELSE bs[x].rc + Cardinality({i \in DOMAIN e : e[i] = x})) = n(x)
    BY <2>1
  <2> QED BY <2>2 DEF inc_rc
<1>2. ASSUME NEW x \in Blob
      PROVE  /\ n(x) \in Nat
             /\ x = EmptyList => n(x) = bs[x].rc
             /\ x # EmptyList => n(x) = bs[x].rc + Cardinality(Occurs(e, x))
  <2>1. bs[x].rc \in Nat
    BY DEF Storage
  <2>2. Cardinality(Occurs(e, x)) \in Nat
    BY FiniteOccurs
  <2> QED BY <2>1, <2>2
<1> HIDE DEF n
<1>3. ASSUME NEW x \in Blob
      PROVE  /\ [bs[x] EXCEPT !.rc = n(x)] \in Storage
             /\ [bs[x] EXCEPT !.rc = n(x)].type = bs[x].type
             /\ [bs[x] EXCEPT !.rc = n(x)].elems = bs[x].elems
             /\ [bs[x] EXCEPT !.rc = n(x)].full = bs[x].full
             /\ [bs[x] EXCEPT !.rc = n(x)].mem = bs[x].mem
             /\ [bs[x] EXCEPT !.rc = n(x)].rc = n(x)
             /\ n(x) = bs[x].rc => [bs[x] EXCEPT !.rc = n(x)] = bs[x]
  BY <1>2 DEF Storage
<1> QED BY <1>1, <1>2, <1>3

(***************************************************************************)
(* What a step does to the references of a blob                            *)
(***************************************************************************)
LEMMA TypesAre ==
  TypeOK <=> /\ blob \in [Blob -> Storage]
             /\ handle \in [Handles -> Blob \cup {Nil}]
             /\ todo \in [Threads -> Seq(Task)]
BY DEF TypeOK, Storage, Task

LEMMA TypesAreNext ==
  TypeOK' <=> /\ blob' \in [Blob -> Storage]
              /\ handle' \in [Handles -> Blob \cup {Nil}]
              /\ todo' \in [Threads -> Seq(Task)]
BY DEF TypeOK, Storage, Task

\* A handle is set to v.
LEMMA PointersStep ==
  ASSUME TypeOK, NEW h \in Handles, NEW v, handle' = [handle EXCEPT ![h] = v],
         NEW x, IsFiniteSet(Pointers(x))
  PROVE  /\ IsFiniteSet(Pointers(x)')
         /\ Cardinality(Pointers(x)') =
              Cardinality(Pointers(x)) - One(handle[h], x) + One(v, x)
         /\ Cardinality(Pointers(x)) \in Nat
<1> DEFINE n == handle'
<1>1. n[h] = v /\ OnlyAt(h, handle, n)
  BY DEF TypeOK, OnlyAt
<1>2. Pointers(x) = At(handle, x) /\ Pointers(x)' = At(n, x)
  BY DEF Pointers, At
<1> HIDE DEF n
<1>3. IsFiniteSet(At(handle, x))
  BY <1>2
<1>4. /\ IsFiniteSet(At(n, x)) /\ Cardinality(At(handle, x)) \in Nat
      /\ Cardinality(At(n, x)) =
           Cardinality(At(handle, x)) - One(handle[h], x) + One(n[h], x)
  BY <1>1, <1>3, PointerChange
<1> QED BY <1>1, <1>2, <1>4

\* What g points to is moved to h.
LEMMA PointersMove ==
  ASSUME TypeOK, NEW h \in Handles, NEW g \in Handles, h # g,
         handle' = [handle EXCEPT ![h] = handle[g], ![g] = Nil],
         NEW x, x # Nil, IsFiniteSet(Pointers(x))
  PROVE  /\ IsFiniteSet(Pointers(x)')
         /\ Cardinality(Pointers(x)') = Cardinality(Pointers(x)) - One(handle[h], x)
         /\ Cardinality(Pointers(x)) \in Nat
<1> DEFINE m == [handle EXCEPT ![h] = handle[g]]
           n == handle'
<1>1. /\ m[h] = handle[g] /\ m[g] = handle[g]
      /\ OnlyAt(h, handle, m)
  BY DEF TypeOK, OnlyAt
<1>2. n[g] = Nil /\ OnlyAt(g, m, n)
  BY DEF TypeOK, OnlyAt
<1>3. Pointers(x) = At(handle, x) /\ Pointers(x)' = At(n, x)
  BY DEF Pointers, At
<1> HIDE DEF m, n
<1> IsFiniteSet(At(handle, x))
  BY <1>3
<1>4. /\ IsFiniteSet(At(m, x)) /\ Cardinality(At(handle, x)) \in Nat
      /\ Cardinality(At(m, x)) =
           Cardinality(At(handle, x)) - One(handle[h], x) + One(m[h], x)
  BY <1>1, <1>3, PointerChange
<1>5. /\ IsFiniteSet(At(n, x))
      /\ Cardinality(At(n, x)) = Cardinality(At(m, x)) - One(m[g], x) + One(n[g], x)
  BY <1>2, <1>4, PointerChange
<1>6. One(n[g], x) = 0 /\ One(m[h], x) = One(m[g], x)
      /\ One(m[h], x) \in Nat /\ One(handle[h], x) \in Nat
  BY <1>1, <1>2 DEF One
<1> QED BY <1>3, <1>4, <1>5, <1>6

\* No other blob than c begins or ends to live, or gets other elements.
Elsewhere(c) ==
  \A d \in Blob \ {c} : blob'[d].elems = blob[d].elems /\ blob'[d].mem = blob[d].mem

LEMMA SlotsStep ==
  ASSUME blob \in [Blob -> Storage], blob' \in [Blob -> Storage],
         NEW c \in Blob, Elsewhere(c), NEW x, IsFiniteSet(Slots(x))
  PROVE  /\ IsFiniteSet(Slots(x)')
         /\ Cardinality(Slots(x)') =
              Cardinality(Slots(x)) - Cardinality(SlotsIn(blob[c], x))
                + Cardinality(SlotsIn(blob'[c], x))
         /\ Cardinality(Slots(x)) \in Nat
         /\ Cardinality(SlotsIn(blob[c], x)) \in Nat
         /\ Cardinality(SlotsIn(blob'[c], x)) \in Nat
<1> DEFINE f == [d \in Blob |-> SlotsIn(blob[d], x)]
           g == [d \in Blob |-> SlotsIn(blob'[d], x)]
<1>1. Slots(x) = Pairs(Blob, f) /\ Slots(x)' = Pairs(Blob, g)
  BY DEF Slots, Pairs
<1>2. \A d \in Blob \ {c} : f[d] = g[d]
  BY DEF Elsewhere, SlotsIn
<1>3. f[c] = SlotsIn(blob[c], x) /\ g[c] = SlotsIn(blob'[c], x)
  OBVIOUS
<1>4. IsFiniteSet(f[c]) /\ IsFiniteSet(g[c])
  BY <1>3, FiniteSlots
<1> HIDE DEF f, g
<1> QED BY <1>1, <1>2, <1>3, <1>4, PairsChange

LEMMA SlotsSame ==
  ASSUME \A d \in Blob : blob'[d].elems = blob[d].elems /\ (blob'[d].mem = "live" <=> blob[d].mem = "live")
  PROVE  \A x : Slots(x)' = Slots(x)
<1>1. \A d \in Blob : \A x : SlotsIn(blob'[d], x) = SlotsIn(blob[d], x)
  BY DEF SlotsIn
<1> QED BY <1>1 DEF Slots

\* The tasks of a thread become s.
NowToDo(t, s) == todo' = [todo EXCEPT ![t] = s]

LEMMA PendingStep ==
  ASSUME todo \in [Threads -> Seq(Task)], NEW t \in Threads, NEW s \in Seq(Task),
         NowToDo(t, s), NEW k, NEW x, IsFiniteSet(Pending(k, x))
  PROVE  /\ IsFiniteSet(Pending(k, x)')
         /\ Cardinality(Pending(k, x)') =
              Cardinality(Pending(k, x)) - Cardinality(TasksIn(todo[t], k, x))
                + Cardinality(TasksIn(s, k, x))
         /\ Cardinality(Pending(k, x)) \in Nat
         /\ Cardinality(TasksIn(todo[t], k, x)) \in Nat
         /\ Cardinality(TasksIn(s, k, x)) \in Nat
<1> DEFINE f == [u \in Threads |-> TasksIn(todo[u], k, x)]
           g == [u \in Threads |-> TasksIn(todo'[u], k, x)]
<1>1. Pending(k, x) = Pairs(Threads, f) /\ Pending(k, x)' = Pairs(Threads, g)
  BY DEF Pending, Pairs
<1>2. f[t] = TasksIn(todo[t], k, x) /\ g[t] = TasksIn(s, k, x)
  BY DEF NowToDo
<1>3. \A u \in Threads \ {t} : f[u] = g[u]
  BY DEF NowToDo
<1>4. IsFiniteSet(f[t]) /\ IsFiniteSet(g[t])
  BY <1>2, FiniteTasks
<1> HIDE DEF f, g
<1>5. IsFiniteSet(Pairs(Threads, f))
  BY <1>1
<1>6. /\ IsFiniteSet(Pairs(Threads, g))
      /\ Cardinality(Pairs(Threads, g)) =
           Cardinality(Pairs(Threads, f)) - Cardinality(f[t]) + Cardinality(g[t])
      /\ Cardinality(Pairs(Threads, f)) \in Nat
      /\ Cardinality(f[t]) \in Nat /\ Cardinality(g[t]) \in Nat
  BY <1>3, <1>4, <1>5, PairsChange
<1> QED BY <1>1, <1>2, <1>6

(***************************************************************************)
(* The invariant.  That the counts are exact is not inductive: a copy that *)
(* is still to be made must find its source alive (Copies), and it may not *)
(* share what is still being filled (OpenUnshared, ElementsComplete).      *)
(***************************************************************************)
Real == Blob \ {EmptyList}

\* The count of a blob is right, it lives while it is counted, and one task will free it
\* after that.
Exact(b) ==
  /\ IsFiniteSet(Pointers(b)) /\ IsFiniteSet(Slots(b))
  /\ IsFiniteSet(Pending("release", b)) /\ IsFiniteSet(Pending("free", b))
  /\ blob[b].rc = References(b)
  /\ blob[b].mem = "live" <=> blob[b].rc > 0
  /\ Cardinality(Pending("free", b)) = IF blob[b].mem = "dying" THEN 1 ELSE 0

Counted == \A b \in Real : Exact(b)

EmptyKept ==
  blob[EmptyList] = [type |-> "LIST", rc |-> 1, elems |-> <<>>, full |-> TRUE, mem |-> "live"]

\* What is still being built has one reference.
OpenUnshared == \A b \in Real : blob[b].mem = "live" /\ ~ blob[b].full => blob[b].rc = 1

\* The elements of terms are complete.
ElementsComplete ==
  \A b \in Real : blob[b].mem = "live" =>
    \A i \in DOMAIN blob[b].elems : blob[b].elems[i] # Nil => blob[blob[b].elems[i]].full

\* A copy is the last thing to do, into an empty term and from one that is there.
CopyReady(t, c) ==
  /\ Owner[c.h] = t /\ Owner[c.g] = t /\ c.h # c.g
  /\ handle[c.h] = Nil /\ Complete(c.g)
  /\ c.i # 0 => c.i \in DOMAIN blob[handle[c.g]].elems /\ blob[handle[c.g]].elems[c.i] # Nil

TasksReady(t) ==
  \A i \in DOMAIN todo[t] : todo[t][i].task = "copy" => i = 1 /\ CopyReady(t, todo[t][i])

Copies == \A t \in Threads : TasksReady(t)

BlobsInv ==
  /\ TypeOK
  /\ EmptyKept
  /\ Counted
  /\ OpenUnshared
  /\ ElementsComplete
  /\ Copies
-----------------------------------------------------------------------------
LEMMA EmptyListIsBlob == EmptyList \in Blob /\ Nil \notin Blob
BY BlobsAssumption DEF EmptyList, Nil, Blob

\* The numbers behind a count.
LEMMA CountsAreNumbers ==
  ASSUME NEW x, Exact(x)
  PROVE  /\ Cardinality(Pointers(x)) \in Nat /\ Cardinality(Slots(x)) \in Nat
         /\ Cardinality(Pending("release", x)) \in Nat
         /\ Cardinality(Pending("free", x)) \in Nat
         /\ blob[x].rc = Cardinality(Pointers(x)) + Cardinality(Slots(x))
                           + Cardinality(Pending("release", x))
BY FS_CardinalityType DEF Exact, References

\* What a handle points to is there.
LEMMA PointedIsLive ==
  ASSUME BlobsInv, NEW h \in Handles, handle[h] # Nil
  PROVE  handle[h] \in Blob /\ blob[handle[h]].mem = "live"
<1> DEFINE x == handle[h]
<1>1. x \in Blob
  BY DEF BlobsInv, TypeOK
<1>2. CASE x = EmptyList
  BY <1>1, <1>2 DEF BlobsInv, EmptyKept
<1>3. CASE x # EmptyList
  <2>1. Exact(x) /\ h \in Pointers(x)
    BY <1>1, <1>3 DEF BlobsInv, Counted, Real, Pointers
  <2> HIDE DEF x
  <2>2. Cardinality(Pointers(x)) > 0
    BY <2>1, CountMember DEF Exact
  <2>3. blob[x].rc > 0
    BY <2>1, <2>2, CountsAreNumbers
  <2> QED BY <1>1, <2>1, <2>3 DEF Exact, x
<1> QED BY <1>2, <1>3

\* The elements of what is there are there.
LEMMA ElementIsLive ==
  ASSUME BlobsInv, NEW c \in Blob, blob[c].mem = "live", NEW i \in DOMAIN blob[c].elems,
         blob[c].elems[i] # Nil
  PROVE  /\ blob[c].elems[i] \in Blob /\ blob[blob[c].elems[i]].mem = "live"
         /\ blob[blob[c].elems[i]].full
<1> DEFINE x == blob[c].elems[i]
<1>1. x \in Blob
  BY TypesAre DEF BlobsInv, Storage
<1>2. blob[x].full
  <2>1. CASE c = EmptyList
    BY <2>1 DEF BlobsInv, EmptyKept
  <2>2. CASE c # EmptyList
    BY <2>2 DEF BlobsInv, ElementsComplete, Real
  <2> QED BY <2>1, <2>2
<1>3. CASE x = EmptyList
  BY <1>1, <1>2, <1>3 DEF BlobsInv, EmptyKept
<1>4. CASE x # EmptyList
  <2>1. Exact(x)
    BY <1>1, <1>4 DEF BlobsInv, Counted, Real
  <2>2. <<c, i>> \in Slots(x)
    BY DEF Slots, SlotsIn
  <2> HIDE DEF x
  <2>3. Cardinality(Slots(x)) > 0
    BY <2>1, <2>2, CountMember DEF Exact
  <2>4. blob[x].rc > 0
    BY <2>1, <2>3, CountsAreNumbers
  <2> QED BY <1>1, <1>2, <2>1, <2>4 DEF Exact, x
<1> QED BY <1>3, <1>4

\* What is to be released is there, what is to be freed is dying.
LEMMA TaskIsDue ==
  ASSUME BlobsInv, NEW t \in Threads, NEW i \in DOMAIN todo[t],
         todo[t][i].b \in Real
  PROVE  /\ todo[t][i].task = "release" => /\ blob[todo[t][i].b].mem = "live"
                                           /\ blob[todo[t][i].b].rc > 0
         /\ todo[t][i].task = "free" => /\ blob[todo[t][i].b].mem = "dying"
                                        /\ blob[todo[t][i].b].rc = 0
<1> DEFINE x == todo[t][i].b
           k == todo[t][i].task
<1>1. Exact(x) /\ <<t, i>> \in Pending(k, x)
  BY DEF BlobsInv, Counted, Pending, TasksIn
<1>2. blob[x].rc \in Nat
  BY TypesAre DEF BlobsInv, Real, Storage
<1> HIDE DEF x, k
<1>3. CASE k = "release"
  <2>1. Cardinality(Pending(k, x)) > 0
    BY <1>1, <1>3, CountMember DEF Exact
  <2>2. blob[x].rc > 0
    BY <1>1, <1>3, <2>1, CountsAreNumbers
  <2> QED BY <1>1, <1>3, <2>2 DEF Exact, x, k
<1>4. CASE k = "free"
  <2>1. Cardinality(Pending(k, x)) > 0
    BY <1>1, <1>4, CountMember DEF Exact
  <2>2. blob[x].mem = "dying"
    BY <1>1, <1>4, <2>1 DEF Exact
  <2>3. blob[x].rc = 0
    BY <1>1, <1>2, <2>2 DEF Exact
  <2> QED BY <1>4, <2>2, <2>3 DEF x, k
<1>5. CASE k \notin {"release", "free"}
  BY <1>5 DEF k
<1> QED BY <1>3, <1>4, <1>5

(***************************************************************************)
(* What all steps have in common                                           *)
(***************************************************************************)
\* A complete term loses no element.
Kept ==
  \A x \in Blob : blob[x].mem = "live" /\ blob[x].full =>
    /\ blob'[x].full
    /\ \A i \in DOMAIN blob[x].elems :
         i \in DOMAIN blob'[x].elems /\ blob'[x].elems[i] = blob[x].elems[i]

\* The same of the terms that other threads than t hold.
KeptFor(t) ==
  \A x \in Blob : blob[x].mem = "live" /\ blob[x].full =>
    /\ blob'[x].full
    /\ (\E k \in Handles : Owner[k] # t /\ handle[k] = x) =>
         \A i \in DOMAIN blob[x].elems :
           i \in DOMAIN blob'[x].elems /\ blob'[x].elems[i] = blob[x].elems[i]

\* What is new in a term comes from a complete one.
Grown ==
  \A x \in Real : blob'[x].mem = "live" =>
    \A i \in DOMAIN blob'[x].elems :
      \/ blob'[x].elems[i] = Nil
      \/ /\ blob[x].mem = "live" /\ i \in DOMAIN blob[x].elems
         /\ blob'[x].elems[i] = blob[x].elems[i]
      \/ \E g \in Handles : Complete(g) /\ blob'[x].elems[i] = handle[g]

\* The terms of the other threads that are busy stay.
OthersStay(t) ==
  \A k \in Handles : Owner[k] # t /\ todo[Owner[k]] # <<>> => handle'[k] = handle[k]

LEMMA PreserveFor ==
  ASSUME BlobsInv, TypeOK', blob'[EmptyList] = blob[EmptyList], Counted', OpenUnshared', Grown,
         NEW t \in Threads, KeptFor(t), \A u \in Threads \ {t} : todo'[u] = todo[u],
         OthersStay(t), TasksReady(t)'
  PROVE  BlobsInv'
<1>1. EmptyKept'
  BY DEF BlobsInv, EmptyKept
<1>2. ElementsComplete'
  <2> SUFFICES ASSUME NEW b \in Real, blob'[b].mem = "live", NEW i \in DOMAIN blob'[b].elems,
                      blob'[b].elems[i] # Nil
               PROVE  blob'[blob'[b].elems[i]].full
    BY DEF ElementsComplete
  <2> DEFINE v == blob'[b].elems[i]
  <2>1. v \in Blob /\ blob[v].mem = "live" /\ blob[v].full
    <3>1. CASE /\ blob[b].mem = "live" /\ i \in DOMAIN blob[b].elems
               /\ v = blob[b].elems[i]
      BY <3>1, ElementIsLive DEF Real
    <3>2. CASE \E g \in Handles : Complete(g) /\ v = handle[g]
      BY <3>2, PointedIsLive DEF Complete
    <3> QED BY <3>1, <3>2 DEF Grown
  <2> QED BY <2>1 DEF KeptFor
<1>3. Copies'
  <2> SUFFICES ASSUME NEW u \in Threads, u # t PROVE TasksReady(u)'
    BY DEF Copies
  <2>1. todo'[u] = todo[u]
    OBVIOUS
  <2> SUFFICES ASSUME NEW i \in DOMAIN todo[u], NEW c, c = todo[u][i], c.task = "copy"
               PROVE  i = 1 /\ CopyReady(u, c)'
    BY <2>1 DEF TasksReady, CopyReady, Complete
  <2>2. todo[u] # <<>> /\ todo[u] \in Seq(Task)
    BY TypesAre DEF BlobsInv
  <2>3. c \in Task
    BY <2>2
  <2>4. c.h \in Handles /\ c.g \in Handles
    BY <2>3 DEF Task
  <2>5. i = 1 /\ CopyReady(u, c)
    BY DEF BlobsInv, Copies, TasksReady
  <2>6. handle'[c.h] = handle[c.h] /\ handle'[c.g] = handle[c.g]
    BY <2>2, <2>4, <2>5 DEF OthersStay, CopyReady
  <2> PICK x : x = handle[c.g]
    OBVIOUS
  <2>7. x \in Blob /\ blob[x].mem = "live" /\ blob[x].full
    BY <2>4, <2>5, PointedIsLive DEF CopyReady, Complete
  <2>8. /\ blob'[x].full
        /\ \A j \in DOMAIN blob[x].elems :
             j \in DOMAIN blob'[x].elems /\ blob'[x].elems[j] = blob[x].elems[j]
    <3>1. Owner[c.g] # t /\ handle[c.g] = x
      BY <2>5 DEF CopyReady
    <3> QED BY <2>4, <2>7, <3>1 DEF KeptFor
  <2>9. handle'[c.h] = Nil /\ handle'[c.g] = x /\ x # Nil
    BY <2>5, <2>6 DEF CopyReady, Complete
  <2>10. ASSUME c.i # 0
         PROVE  c.i \in DOMAIN blob'[x].elems /\ blob'[x].elems[c.i] # Nil
    <3>1. c.i \in DOMAIN blob[x].elems /\ blob[x].elems[c.i] # Nil
      BY <2>5, <2>10 DEF CopyReady
    <3> QED BY <3>1, <2>8
  <2>11. Owner[c.h] = u /\ Owner[c.g] = u /\ c.h # c.g
    BY <2>5 DEF CopyReady
  <2>12. Complete(c.g)'
    BY <2>8, <2>9 DEF Complete
  <2> QED BY <2>5, <2>9, <2>10, <2>11, <2>12 DEF CopyReady
<1> QED BY <1>1, <1>2, <1>3 DEF BlobsInv

LEMMA Preserve ==
  ASSUME BlobsInv, TypeOK', blob'[EmptyList] = blob[EmptyList], Counted', OpenUnshared',
         Kept, Grown,
         NEW t \in Threads, \A u \in Threads \ {t} : todo'[u] = todo[u],
         OthersStay(t), TasksReady(t)'
  PROVE  BlobsInv'
<1>1. KeptFor(t)
  BY DEF Kept, KeptFor
<1> QED BY <1>1, PreserveFor

\* What does not change its references.
LEMMA SamePointers ==
  ASSUME handle' = handle
  PROVE  \A x : Pointers(x)' = Pointers(x)
BY DEF Pointers

LEMMA SameTasks ==
  ASSUME todo' = todo
  PROVE  \A k, x : Pending(k, x)' = Pending(k, x)
BY DEF Pending

\* The number of things that are the same is small.
LEMMA OneIs ==
  ASSUME NEW u, NEW v
  PROVE  One(u, v) \in Nat /\ (u = v => One(u, v) = 1) /\ (u # v => One(u, v) = 0)
BY DEF One

\* What has one reference stays so unless it gets complete.
LEMMA StillUnshared ==
  ASSUME BlobsInv,
         \A b \in Real : blob'[b].mem = "live" /\ ~ blob'[b].full =>
           \/ blob[b].mem = "live" /\ ~ blob[b].full /\ blob'[b].rc = blob[b].rc
           \/ blob'[b].rc = 1
  PROVE  OpenUnshared'
BY DEF BlobsInv, OpenUnshared

LEMMA InitInv == Init => BlobsInv
<1> SUFFICES ASSUME Init PROVE BlobsInv
  OBVIOUS
<1> USE EmptyListIsBlob
<1>1. TypeOK
  BY DEF Init, TypeOK, Unused, Types
<1>2. EmptyKept
  BY DEF Init, EmptyKept
<1>3. \A x \in Real : blob[x] = Unused
  BY DEF Init, Real
<1>4. Counted
  <2> SUFFICES ASSUME NEW x \in Real PROVE Exact(x)
    BY DEF Counted
  <2>1. x # Nil /\ x # EmptyList
    BY DEF Real
  <2>2. Pointers(x) = {}
    BY <2>1 DEF Pointers, Init
  <2>3. \A c \in Blob : SlotsIn(blob[c], x) = {}
    BY <1>2, <1>3 DEF SlotsIn, EmptyKept, Real, Unused
  <2>4. Slots(x) = {}
    BY <2>3 DEF Slots
  <2>5. \A k : Pending(k, x) = {}
    BY NoTasks DEF Pending, Init
  <2>6. IsFiniteSet({}) /\ Cardinality({}) = 0
    BY FS_EmptySet
  <2>7. blob[x].rc = 0 /\ blob[x].mem = "none"
    BY <1>3 DEF Unused
  <2> QED BY <2>2, <2>4, <2>5, <2>6, <2>7 DEF Exact, References
<1>5. OpenUnshared /\ ElementsComplete
  BY <1>3 DEF OpenUnshared, ElementsComplete, Unused
<1>6. Copies
  BY DEF Copies, TasksReady, Init
<1> QED BY <1>1, <1>2, <1>4, <1>5, <1>6 DEF BlobsInv

\* One more reference.
LEMMA IncrementOne ==
  ASSUME blob \in [Blob -> Storage], NEW y \in Blob \cup {Nil}
  PROVE  /\ inc_rc(blob, <<y>>) \in [Blob -> Storage]
         /\ \A x \in Blob :
              /\ inc_rc(blob, <<y>>)[x].type = blob[x].type
              /\ inc_rc(blob, <<y>>)[x].elems = blob[x].elems
              /\ inc_rc(blob, <<y>>)[x].full = blob[x].full
              /\ inc_rc(blob, <<y>>)[x].mem = blob[x].mem
              /\ x = EmptyList => inc_rc(blob, <<y>>)[x] = blob[x]
              /\ x # EmptyList => inc_rc(blob, <<y>>)[x].rc = blob[x].rc + One(y, x)
<1> DEFINE e == <<y>>
<1>1. e \in Seq(Blob \cup {Nil})
  OBVIOUS
<1>2. \A x : Cardinality(Occurs(e, x)) = One(y, x)
  BY OccursMore, <1>1
<1> HIDE DEF e
<1>3. /\ inc_rc(blob, e) \in [Blob -> Storage]
      /\ \A x \in Blob :
           /\ inc_rc(blob, e)[x].type = blob[x].type
           /\ inc_rc(blob, e)[x].elems = blob[x].elems
           /\ inc_rc(blob, e)[x].full = blob[x].full
           /\ inc_rc(blob, e)[x].mem = blob[x].mem
           /\ x = EmptyList => inc_rc(blob, e)[x] = blob[x]
           /\ x # EmptyList => inc_rc(blob, e)[x].rc = blob[x].rc + Cardinality(Occurs(e, x))
  BY <1>1, Increment
<1> QED BY <1>2, <1>3 DEF e

\* A handle that was empty now shares what is complete.
LEMMA Shares ==
  ASSUME BlobsInv, NEW h \in Handles, handle[h] = Nil,
         NEW y \in Blob, blob[y].mem = "live", blob[y].full,
         handle' = [handle EXCEPT ![h] = y], blob' = inc_rc(blob, <<y>>),
         NEW x \in Real
  PROVE  /\ IsFiniteSet(Pointers(x)') /\ IsFiniteSet(Slots(x)')
         /\ Cardinality(Pointers(x)') = Cardinality(Pointers(x)) + One(y, x)
         /\ Cardinality(Slots(x)') = Cardinality(Slots(x))
         /\ blob'[x].rc = blob[x].rc + One(y, x) /\ blob'[x].mem = blob[x].mem
         /\ blob'[x].rc > 0 <=> blob[x].rc > 0
<1>1. x \in Blob /\ x # EmptyList /\ x # Nil /\ Exact(x)
  BY EmptyListIsBlob DEF Real, BlobsInv, Counted
<1>2. blob \in [Blob -> Storage] /\ blob[x].rc \in Nat
  BY <1>1, TypesAre DEF BlobsInv, Storage
<1>3. \A d \in Blob : blob'[d].elems = blob[d].elems /\ blob'[d].mem = blob[d].mem
  BY <1>2, IncrementOne
<1>4. blob'[x].rc = blob[x].rc + One(y, x)
  BY <1>1, <1>2, IncrementOne
<1>5. Slots(x)' = Slots(x) /\ IsFiniteSet(Slots(x))
  BY <1>1, <1>3, SlotsSame DEF Exact
<1>6. /\ IsFiniteSet(Pointers(x)') /\ Cardinality(Pointers(x)) \in Nat
      /\ Cardinality(Pointers(x)') = Cardinality(Pointers(x)) - One(handle[h], x) + One(y, x)
  BY <1>1, PointersStep DEF BlobsInv, Exact
<1>7. One(handle[h], x) = 0 /\ One(y, x) \in Nat /\ (One(y, x) # 0 => y = x)
  BY <1>1, OneIs
<1>8. y = x => blob[x].rc > 0
  BY <1>1 DEF Exact
<1> QED BY <1>1, <1>2, <1>3, <1>4, <1>5, <1>6, <1>7, <1>8

\* The rest of what a step that only counts does.
LEMMA OnlyCounts ==
  ASSUME BlobsInv, NEW y \in Blob, blob[y].mem = "live", blob[y].full,
         blob' = inc_rc(blob, <<y>>)
  PROVE  /\ blob' \in [Blob -> Storage] /\ blob'[EmptyList] = blob[EmptyList]
         /\ Kept /\ Grown /\ OpenUnshared'
<1>1. blob \in [Blob -> Storage] /\ EmptyList \in Blob
  BY TypesAre, EmptyListIsBlob DEF BlobsInv
<1>2. /\ blob' \in [Blob -> Storage] /\ blob'[EmptyList] = blob[EmptyList]
      /\ \A x \in Blob : /\ blob'[x].elems = blob[x].elems /\ blob'[x].full = blob[x].full
                         /\ blob'[x].mem = blob[x].mem
                         /\ x # EmptyList => blob'[x].rc = blob[x].rc + One(y, x)
  BY <1>1, IncrementOne
<1>3. Kept
  BY <1>2 DEF Kept
<1>4. Grown
  BY <1>2 DEF Grown, Real
<1>5. OpenUnshared'
  <2>1. \A b \in Real : blob'[b].mem = "live" /\ ~ blob'[b].full =>
           blob[b].mem = "live" /\ ~ blob[b].full /\ blob'[b].rc = blob[b].rc
    <3> SUFFICES ASSUME NEW b \in Real, blob'[b].mem = "live", ~ blob'[b].full
                 PROVE  blob[b].mem = "live" /\ ~ blob[b].full /\ blob'[b].rc = blob[b].rc
      OBVIOUS
    <3>1. blob[b].mem = "live" /\ ~ blob[b].full /\ b # y /\ blob[b].rc \in Nat
      BY <1>1, <1>2 DEF Real, Storage
    <3>2. blob'[b].rc = blob[b].rc + One(y, b) /\ One(y, b) = 0
      BY <1>2, <3>1, OneIs DEF Real
    <3> QED BY <3>1, <3>2
  <2> QED BY <2>1, StillUnshared
<1> QED BY <1>2, <1>3, <1>4, <1>5

LEMMA CopyConstructStep ==
  ASSUME BlobsInv, NEW h \in Handles, NEW g \in Handles, CopyConstruct(h, g)
  PROVE  BlobsInv'
<1> PICK y : y = handle[g]
  OBVIOUS
<1> PICK t : t = Owner[h]
  OBVIOUS
<1>1. y \in Blob /\ blob[y].mem = "live" /\ blob[y].full
  BY PointedIsLive DEF CopyConstruct, Complete
<1>2. /\ handle[h] = Nil /\ handle' = [handle EXCEPT ![h] = y]
      /\ blob' = inc_rc(blob, <<y>>) /\ todo' = todo
  BY DEF CopyConstruct
<1>3. t \in Threads /\ todo[t] = <<>>
  BY BlobsAssumption DEF CopyConstruct, Idle
<1>4. /\ blob' \in [Blob -> Storage] /\ blob'[EmptyList] = blob[EmptyList]
      /\ Kept /\ Grown /\ OpenUnshared'
  BY <1>1, <1>2, OnlyCounts
<1>5. TypeOK'
  <2>1. handle' \in [Handles -> Blob \cup {Nil}] /\ todo' \in [Threads -> Seq(Task)]
    BY <1>1, <1>2, TypesAre DEF BlobsInv
  <2> QED BY <1>4, <2>1, TypesAreNext
<1>6. Counted'
  <2> SUFFICES ASSUME NEW x \in Real PROVE Exact(x)'
    BY DEF Counted
  <2>1. Exact(x)
    BY DEF BlobsInv, Counted
  <2>2. /\ IsFiniteSet(Pointers(x)') /\ IsFiniteSet(Slots(x)')
        /\ Cardinality(Pointers(x)') = Cardinality(Pointers(x)) + One(y, x)
        /\ Cardinality(Slots(x)') = Cardinality(Slots(x))
        /\ blob'[x].rc = blob[x].rc + One(y, x) /\ blob'[x].mem = blob[x].mem
        /\ blob'[x].rc > 0 <=> blob[x].rc > 0
    BY <1>1, <1>2, Shares
  <2> QED BY <1>2, <2>1, <2>2, SameTasks, OneIs, CountsAreNumbers DEF Exact, References
<1>7. OthersStay(t) /\ TasksReady(t)'
  BY <1>2, <1>3 DEF OthersStay, TasksReady, BlobsInv, TypeOK
<1> QED BY <1>2, <1>3, <1>4, <1>5, <1>6, <1>7, Preserve

\* The elements of a new term, and what they do to the other blobs.
FromTerms(e) == \A i \in DOMAIN e : e[i] = Nil \/ \E g \in Handles : Complete(g) /\ e[i] = handle[g]

CountedBy(b, e) ==
  \A x \in Blob \ {b} :
    /\ blob'[x].elems = blob[x].elems /\ blob'[x].full = blob[x].full
    /\ blob'[x].mem = blob[x].mem
    /\ x = EmptyList => blob'[x] = blob[x]
    /\ x # EmptyList => blob'[x].rc = blob[x].rc + Cardinality(Occurs(e, x))

\* What a term is made of is there.
LEMMA PartIsLive ==
  ASSUME BlobsInv, NEW e, FromTerms(e), NEW i \in DOMAIN e, e[i] # Nil
  PROVE  e[i] \in Blob /\ blob[e[i]].mem = "live" /\ blob[e[i]].full
BY PointedIsLive DEF FromTerms, Complete

\* A blob that was not used yet has no references.
LEMMA FreshIsFree ==
  ASSUME BlobsInv, NEW b \in Fresh
  PROVE  /\ b \in Real /\ blob[b].mem = "none" /\ blob[b].rc = 0 /\ Exact(b)
         /\ Cardinality(Pointers(b)) = 0 /\ Cardinality(Slots(b)) = 0
         /\ Cardinality(Pending("release", b)) = 0 /\ Cardinality(Pending("free", b)) = 0
<1>1. b \in Real /\ blob[b].mem = "none"
  BY DEF BlobsInv, EmptyKept, Fresh, Real
<1>2. Exact(b) /\ blob[b].rc \in Nat
  BY <1>1, TypesAre DEF BlobsInv, Counted, Real, Storage
<1>3. blob[b].rc = 0 /\ Cardinality(Pending("free", b)) = 0
  BY <1>1, <1>2 DEF Exact
<1>4. /\ Cardinality(Pointers(b)) \in Nat /\ Cardinality(Slots(b)) \in Nat
      /\ Cardinality(Pending("release", b)) \in Nat
      /\ blob[b].rc = Cardinality(Pointers(b)) + Cardinality(Slots(b))
                        + Cardinality(Pending("release", b))
  BY <1>2, CountsAreNumbers
<1> QED BY <1>1, <1>2, <1>3, <1>4

LEMMA Allocates ==
  ASSUME BlobsInv, TypeOK', NEW h \in Handles, Idle(h), handle[h] = Nil, NEW b \in Fresh,
         NEW e \in Seq(Blob \cup {Nil}), FromTerms(e), CountedBy(b, e),
         blob'[b].rc = 1, blob'[b].elems = e, blob'[b].mem = "live",
         handle' = [handle EXCEPT ![h] = b], todo' = todo
  PROVE  BlobsInv'
<1> PICK t : t = Owner[h]
  OBVIOUS
<1>1. /\ b \in Real /\ b \in Blob /\ b # EmptyList
      /\ blob[b].mem = "none" /\ blob[b].rc = 0 /\ Exact(b)
      /\ Cardinality(Pointers(b)) = 0 /\ Cardinality(Slots(b)) = 0
      /\ Cardinality(Pending("release", b)) = 0 /\ Cardinality(Pending("free", b)) = 0
  BY FreshIsFree DEF Real
<1>2. t \in Threads /\ todo[t] = <<>>
  BY BlobsAssumption DEF Idle
<1>3. blob'[EmptyList] = blob[EmptyList]
  BY <1>1, EmptyListIsBlob DEF CountedBy
<1>4. blob \in [Blob -> Storage] /\ blob' \in [Blob -> Storage]
  BY TypesAre, TypesAreNext DEF BlobsInv
<1>5. \A x : IsFiniteSet(Occurs(e, x)) /\ Cardinality(Occurs(e, x)) \in Nat
  BY FiniteOccurs
<1>6. ASSUME NEW x \in Real, Cardinality(Occurs(e, x)) # 0
      PROVE  blob[x].mem = "live" /\ blob[x].full
  <2>1. PICK i : i \in Occurs(e, x)
    BY <1>6, FS_EmptySet
  <2>2. i \in DOMAIN e /\ e[i] = x /\ x # Nil
    BY <2>1, EmptyListIsBlob DEF Occurs, Real
  <2> QED BY <2>2, PartIsLive
<1>7. Counted'
  <2> SUFFICES ASSUME NEW x \in Real PROVE Exact(x)'
    BY DEF Counted
  <2>1. Exact(x) /\ x # Nil /\ x # EmptyList /\ x \in Blob /\ blob[x].rc \in Nat
    BY <1>4, EmptyListIsBlob DEF BlobsInv, Counted, Real, Storage
  <2>2. /\ IsFiniteSet(Pointers(x)') /\ Cardinality(Pointers(x)) \in Nat
        /\ Cardinality(Pointers(x)') = Cardinality(Pointers(x)) - One(handle[h], x) + One(b, x)
    BY <2>1, PointersStep DEF BlobsInv, Exact
  <2>3. One(handle[h], x) = 0
    BY <2>1, OneIs
  <2>4. Elsewhere(b)
    BY DEF CountedBy, Elsewhere
  <2>5. /\ IsFiniteSet(Slots(x)') /\ Cardinality(Slots(x)) \in Nat
        /\ Cardinality(Slots(x)') = Cardinality(Slots(x)) - Cardinality(SlotsIn(blob[b], x))
                                      + Cardinality(SlotsIn(blob'[b], x))
    BY <1>1, <1>4, <2>1, <2>4, SlotsStep DEF Exact
  <2>6. Cardinality(SlotsIn(blob[b], x)) = 0 /\ SlotsIn(blob'[b], x) = Occurs(e, x)
    BY <1>1, SlotsAre
  <2>7. Cardinality(Slots(x)') = Cardinality(Slots(x)) + Cardinality(Occurs(e, x))
    BY <1>5, <2>5, <2>6
  <2>8. /\ Pending("release", x)' = Pending("release", x)
        /\ Pending("free", x)' = Pending("free", x)
    BY SameTasks
  <2>9. CASE x = b
    <3>1. Cardinality(Occurs(e, x)) = 0
      BY <1>1, <1>6, <2>9
    <3>2. One(b, x) = 1
      BY <2>9, OneIs
    <3>3. Cardinality(Pointers(x)') = 1 /\ Cardinality(Slots(x)') = 0
      BY <1>1, <2>2, <2>3, <2>7, <2>9, <3>1, <3>2
    <3>4. /\ Cardinality(Pending("release", x)') = 0 /\ Cardinality(Pending("free", x)') = 0
          /\ IsFiniteSet(Pending("release", x)') /\ IsFiniteSet(Pending("free", x)')
      BY <1>1, <2>1, <2>8, <2>9 DEF Exact
    <3>5. blob'[x].rc = 1 /\ blob'[x].mem = "live"
      BY <2>9
    <3> QED BY <2>2, <2>5, <3>3, <3>4, <3>5 DEF Exact, References
  <2>10. CASE x # b
    <3>1. One(b, x) = 0
      BY <2>10, OneIs
    <3>2. Cardinality(Pointers(x)') = Cardinality(Pointers(x))
      BY <2>2, <2>3, <3>1
    <3>3. blob'[x].rc = blob[x].rc + Cardinality(Occurs(e, x)) /\ blob'[x].mem = blob[x].mem
      BY <2>1, <2>10 DEF CountedBy
    <3>4. blob'[x].rc > 0 <=> blob[x].rc > 0
      BY <1>5, <1>6, <2>1, <3>3 DEF Exact
    <3> QED BY <1>5, <2>1, <2>2, <2>5, <2>7, <2>8, <3>2, <3>3, <3>4, CountsAreNumbers
            DEF Exact, References
  <2> QED BY <2>9, <2>10
<1>8. OpenUnshared'
  <2> SUFFICES ASSUME NEW x \in Real, blob'[x].mem = "live", ~ blob'[x].full, x # b
               PROVE  blob[x].mem = "live" /\ ~ blob[x].full /\ blob'[x].rc = blob[x].rc
    BY StillUnshared
  <2>1. /\ blob[x].mem = "live" /\ ~ blob[x].full /\ blob[x].rc \in Nat
        /\ blob'[x].rc = blob[x].rc + Cardinality(Occurs(e, x))
    BY <1>4 DEF CountedBy, Real, Storage
  <2>2. Cardinality(Occurs(e, x)) = 0
    BY <1>6, <2>1
  <2> QED BY <2>1, <2>2
<1>9. Kept
  BY <1>1 DEF Kept, CountedBy
<1>10. Grown
  BY <1>1 DEF Grown, CountedBy, FromTerms, Real
<1>11. OthersStay(t) /\ TasksReady(t)'
  BY <1>2 DEF OthersStay, TasksReady, BlobsInv, TypeOK
<1> QED BY <1>2, <1>3, <1>7, <1>8, <1>9, <1>10, <1>11, Preserve

LEMMA ConstructStep ==
  ASSUME BlobsInv, NEW h \in Handles, NEW type \in Types, NEW n \in 0 .. MaxElems,
         NEW items \in [1 .. n -> MyHandles(h) \cup {AScalar}], Construct(h, type, items)
  PROVE  BlobsInv'
<1> DEFINE elems == [i \in DOMAIN items |-> IF items[i] = AScalar THEN Nil ELSE handle[items[i]]]
           new(e) == [type |-> type, rc |-> 1, elems |-> e, full |-> TRUE, mem |-> "live"]
<1>1. Idle(h) /\ handle[h] = Nil /\ todo' = todo
  BY DEF Construct
<1>2. \A i \in DOMAIN items : items[i] # AScalar => Complete(items[i])
  BY DEF Construct
<1>3. PICK b \in Fresh : /\ blob' = [inc_rc(blob, elems) EXCEPT ![b] = new(elems)]
                         /\ handle' = [handle EXCEPT ![h] = b]
  BY DEF Construct
<1>4. PICK e : e = elems
  OBVIOUS
<1>5. /\ DOMAIN e = 1..n
      /\ \A i \in 1..n : e[i] = IF items[i] = AScalar THEN Nil ELSE handle[items[i]]
  BY <1>4
<1>6. \A i \in 1..n : items[i] = AScalar \/ (items[i] \in Handles /\ Complete(items[i]))
  BY <1>2 DEF MyHandles
<1>7. FromTerms(e)
  BY <1>5, <1>6 DEF FromTerms
<1>8. e \in Seq(Blob \cup {Nil})
  <2>1. n \in Nat
    BY BlobsAssumption
  <2>2. \A i \in 1..n : e[i] \in Blob \cup {Nil}
    BY <1>5, <1>7, PartIsLive
  <2>3. e = [i \in 1..n |-> e[i]]
    BY <1>4, <1>5
  <2> QED BY <2>1, <2>2, <2>3
<1>9. blob' = [inc_rc(blob, e) EXCEPT ![b] = new(e)]
  BY <1>3, <1>4
<1> HIDE DEF elems
<1>10. b \in Blob /\ b # EmptyList
  BY FreshIsFree DEF Real
<1>11. blob \in [Blob -> Storage] /\ handle \in [Handles -> Blob \cup {Nil}]
       /\ todo \in [Threads -> Seq(Task)]
  BY TypesAre DEF BlobsInv
<1>12. PICK m : m = inc_rc(blob, e)
  OBVIOUS
<1>13. /\ m \in [Blob -> Storage]
       /\ \A x \in Blob : /\ m[x].elems = blob[x].elems /\ m[x].full = blob[x].full
                          /\ m[x].mem = blob[x].mem
                          /\ x = EmptyList => m[x] = blob[x]
                          /\ x # EmptyList => m[x].rc = blob[x].rc + Cardinality(Occurs(e, x))
  BY <1>8, <1>11, <1>12, Increment
<1>14. blob'[b] = new(e) /\ \A x \in Blob \ {b} : blob'[x] = m[x]
  BY <1>9, <1>10, <1>12, <1>13
<1>15. new(e) \in Storage
  BY <1>8 DEF Storage
<1>16. TypeOK'
  <2>1. blob' \in [Blob -> Storage]
    BY <1>9, <1>12, <1>13, <1>15
  <2>2. handle' \in [Handles -> Blob \cup {Nil}]
    BY <1>3, <1>10, <1>11
  <2> QED BY <1>1, <1>11, <2>1, <2>2, TypesAreNext
<1>17. CountedBy(b, e)
  BY <1>13, <1>14 DEF CountedBy
<1>18. blob'[b].rc = 1 /\ blob'[b].elems = e /\ blob'[b].mem = "live"
  BY <1>14
<1> QED BY <1>1, <1>3, <1>7, <1>8, <1>16, <1>17, <1>18, Allocates

LEMMA ConstructOpenStep ==
  ASSUME BlobsInv, NEW h \in Handles, NEW type \in Types, ConstructOpen(h, type)
  PROVE  BlobsInv'
<1> DEFINE new(e) == [type |-> type, rc |-> 1, elems |-> e, full |-> FALSE, mem |-> "live"]
<1>1. Idle(h) /\ handle[h] = Nil /\ todo' = todo
  BY DEF ConstructOpen
<1>2. PICK b \in Fresh : /\ blob' = [blob EXCEPT ![b] = new(<<>>)]
                         /\ handle' = [handle EXCEPT ![h] = b]
  BY DEF ConstructOpen
<1>3. b \in Blob /\ b # EmptyList
  BY FreshIsFree DEF Real
<1>4. blob \in [Blob -> Storage] /\ handle \in [Handles -> Blob \cup {Nil}]
       /\ todo \in [Threads -> Seq(Task)]
  BY TypesAre DEF BlobsInv
<1>5. PICK e : e = <<>>
  OBVIOUS
<1>6. e \in Seq(Blob \cup {Nil}) /\ FromTerms(e)
  BY <1>5 DEF FromTerms
<1>7. \A x : Cardinality(Occurs(e, x)) = 0
  BY <1>5, FS_EmptySet DEF Occurs
<1>8. blob'[b] = new(e) /\ \A x \in Blob \ {b} : blob'[x] = blob[x] /\ blob[x].rc \in Nat
  BY <1>2, <1>3, <1>4, <1>5 DEF Storage
<1>9. new(e) \in Storage
  BY <1>6 DEF Storage
<1>10. TypeOK'
  <2>1. blob' \in [Blob -> Storage]
    BY <1>2, <1>4, <1>5, <1>9
  <2>2. handle' \in [Handles -> Blob \cup {Nil}]
    BY <1>2, <1>3, <1>4
  <2> QED BY <1>1, <1>4, <2>1, <2>2, TypesAreNext
<1>11. CountedBy(b, e)
  BY <1>7, <1>8 DEF CountedBy
<1>12. blob'[b].rc = 1 /\ blob'[b].elems = e /\ blob'[b].mem = "live"
  BY <1>8
<1> QED BY <1>1, <1>2, <1>6, <1>10, <1>11, <1>12, Allocates

\* A step that leaves the blobs alone moves references from handles to tasks.
ShuffledFor(x) ==
  /\ IsFiniteSet(Pointers(x)') /\ IsFiniteSet(Pending("release", x)')
  /\ IsFiniteSet(Pending("free", x)')
  /\ Cardinality(Pointers(x)') + Cardinality(Pending("release", x)') =
       Cardinality(Pointers(x)) + Cardinality(Pending("release", x))
  /\ Cardinality(Pending("free", x)') = Cardinality(Pending("free", x))

Shuffled == \A x \in Real : ShuffledFor(x)

LEMMA Shuffles ==
  ASSUME BlobsInv, TypeOK', blob' = blob, Shuffled,
         NEW t \in Threads, \A u \in Threads \ {t} : todo'[u] = todo[u],
         OthersStay(t), TasksReady(t)'
  PROVE  BlobsInv'
<1>1. Counted'
  <2> SUFFICES ASSUME NEW x \in Real PROVE Exact(x)'
    BY DEF Counted
  <2>1. Exact(x)
    BY DEF BlobsInv, Counted
  <2>2. Slots(x)' = Slots(x)
    BY SlotsSame
  <2>3. /\ Cardinality(Pointers(x)) \in Nat /\ Cardinality(Slots(x)) \in Nat
        /\ Cardinality(Pending("release", x)) \in Nat
    BY <2>1, CountsAreNumbers
  <2>4. /\ IsFiniteSet(Pointers(x)') /\ IsFiniteSet(Pending("release", x)')
        /\ IsFiniteSet(Pending("free", x)')
        /\ Cardinality(Pointers(x)') + Cardinality(Pending("release", x)') =
             Cardinality(Pointers(x)) + Cardinality(Pending("release", x))
        /\ Cardinality(Pending("free", x)') = Cardinality(Pending("free", x))
    BY DEF Shuffled, ShuffledFor
  <2>5. Cardinality(Pointers(x)') \in Nat /\ Cardinality(Pending("release", x)') \in Nat
    BY <2>4, FS_CardinalityType
  <2>6. References(x)' = References(x)
    BY <2>2, <2>3, <2>4, <2>5 DEF References
  <2> QED BY <2>1, <2>2, <2>4, <2>6 DEF Exact
<1>2. OpenUnshared' /\ Kept /\ Grown
  BY DEF BlobsInv, OpenUnshared, Kept, Grown
<1> QED BY <1>1, <1>2, Preserve

LEMMA ConstructNilStep ==
  ASSUME BlobsInv, NEW h \in Handles, ConstructNil(h)
  PROVE  BlobsInv'
<1> PICK t : t = Owner[h]
  OBVIOUS
<1>1. /\ handle[h] = Nil /\ handle' = [handle EXCEPT ![h] = EmptyList]
      /\ blob' = blob /\ todo' = todo
  BY DEF ConstructNil
<1>2. t \in Threads /\ todo[t] = <<>>
  BY BlobsAssumption DEF ConstructNil, Idle
<1>3. TypeOK'
  BY <1>1, TypesAre, TypesAreNext, EmptyListIsBlob DEF BlobsInv
<1>4. Shuffled
  <2> SUFFICES ASSUME NEW x \in Real PROVE ShuffledFor(x)
    BY DEF Shuffled
  <2>1. Exact(x) /\ x # Nil /\ x # EmptyList
    BY EmptyListIsBlob DEF BlobsInv, Counted, Real
  <2>2. /\ IsFiniteSet(Pointers(x)') /\ Cardinality(Pointers(x)) \in Nat
        /\ Cardinality(Pointers(x)') =
             Cardinality(Pointers(x)) - One(handle[h], x) + One(EmptyList, x)
    BY <1>1, <2>1, PointersStep DEF BlobsInv, Exact
  <2>3. One(handle[h], x) = 0 /\ One(EmptyList, x) = 0
    BY <1>1, <2>1, OneIs
  <2> QED BY <1>1, <2>1, <2>2, <2>3, SameTasks DEF Exact, ShuffledFor
<1>5. OthersStay(t) /\ TasksReady(t)'
  BY <1>1, <1>2 DEF OthersStay, TasksReady, BlobsInv, TypeOK
<1> QED BY <1>1, <1>2, <1>3, <1>4, <1>5, Shuffles

LEMMA MoveConstructStep ==
  ASSUME BlobsInv, NEW h \in Handles, NEW g \in Handles, MoveConstruct(h, g)
  PROVE  BlobsInv'
<1> PICK t : t = Owner[h]
  OBVIOUS
<1>1. /\ handle[h] = Nil /\ handle' = [handle EXCEPT ![h] = handle[g], ![g] = Nil]
      /\ blob' = blob /\ todo' = todo /\ h # g
  BY DEF MoveConstruct
<1>2. t \in Threads /\ todo[t] = <<>> /\ todo[Owner[g]] = <<>>
  BY BlobsAssumption DEF MoveConstruct, Idle
<1>3. TypeOK'
  BY <1>1, TypesAre, TypesAreNext DEF BlobsInv
<1>4. Shuffled
  <2> SUFFICES ASSUME NEW x \in Real PROVE ShuffledFor(x)
    BY DEF Shuffled
  <2>1. Exact(x) /\ x # Nil
    BY EmptyListIsBlob DEF BlobsInv, Counted, Real
  <2>2. /\ IsFiniteSet(Pointers(x)') /\ Cardinality(Pointers(x)) \in Nat
        /\ Cardinality(Pointers(x)') = Cardinality(Pointers(x)) - One(handle[h], x)
    BY <1>1, <2>1, PointersMove DEF BlobsInv, Exact
  <2>3. One(handle[h], x) = 0
    BY <1>1, <2>1, OneIs
  <2> QED BY <1>1, <2>1, <2>2, <2>3, SameTasks DEF Exact, ShuffledFor
<1>5. OthersStay(t) /\ TasksReady(t)'
  BY <1>1, <1>2 DEF OthersStay, TasksReady, BlobsInv, TypeOK
<1> QED BY <1>1, <1>2, <1>3, <1>4, <1>5, Shuffles

\* One more release of v is to be done.
MoreReleases(v) ==
  \A x \in Real :
    /\ IsFiniteSet(Pending("release", x)') /\ IsFiniteSet(Pending("free", x)')
    /\ Cardinality(Pending("release", x)') = Cardinality(Pending("release", x)) + One(v, x)
    /\ Cardinality(Pending("free", x)') = Cardinality(Pending("free", x))
    /\ Cardinality(Pending("release", x)) \in Nat

\* A thread that was idle has a term to destroy, and perhaps a copy to make after that.
LEMMA Begins ==
  ASSUME BlobsInv, NEW t \in Threads, todo[t] = <<>>, NEW v \in Blob \cup {Nil},
         NEW c \in Task, c.task = "copy",
         NEW s, s = <<Release(v)>> \/ s = <<c, Release(v)>>,
         NowToDo(t, s)
  PROVE  /\ todo' \in [Threads -> Seq(Task)]
         /\ \A u \in Threads \ {t} : todo'[u] = todo[u]
         /\ MoreReleases(v)
<1>1. todo \in [Threads -> Seq(Task)]
  BY TypesAre DEF BlobsInv
<1>2. s = <<Release(v)>> \/ s = <<c, Release(v)>>
  OBVIOUS
<1>3. NowToDo(t, s)
  OBVIOUS
<1>4. s \in Seq(Task)
  <2>1. "release" = "release"
    OBVIOUS
  <2> QED BY <1>2, <2>1, FirstTask
<1>5. \A x : /\ Cardinality(TasksIn(s, "release", x)) = One(v, x)
             /\ Cardinality(TasksIn(s, "free", x)) = 0
  <2> TAKE x
  <2>1. /\ Cardinality(TasksIn(<<Release(v)>>, "release", x)) = One(v, x)
        /\ Cardinality(TasksIn(<<c, Release(v)>>, "release", x)) = One(v, x)
    BY FirstTask
  <2>2. /\ Cardinality(TasksIn(<<Release(v)>>, "free", x)) = 0
        /\ Cardinality(TasksIn(<<c, Release(v)>>, "free", x)) = 0
    BY FirstTask
  <2> QED BY <1>2, <2>1, <2>2
<1>6. ASSUME NEW x \in Real
      PROVE  /\ IsFiniteSet(Pending("release", x)') /\ IsFiniteSet(Pending("free", x)')
             /\ Cardinality(Pending("release", x)') = Cardinality(Pending("release", x)) + One(v, x)
             /\ Cardinality(Pending("free", x)') = Cardinality(Pending("free", x))
             /\ Cardinality(Pending("release", x)) \in Nat
  <2>1. IsFiniteSet(Pending("release", x)) /\ IsFiniteSet(Pending("free", x))
    BY DEF BlobsInv, Counted, Exact
  <2>2. /\ Cardinality(TasksIn(todo[t], "release", x)) = 0
        /\ Cardinality(TasksIn(todo[t], "free", x)) = 0
    BY NoTasks
  <2>3. /\ IsFiniteSet(Pending("release", x)')
        /\ Cardinality(Pending("release", x)') =
             Cardinality(Pending("release", x)) - Cardinality(TasksIn(todo[t], "release", x))
               + Cardinality(TasksIn(s, "release", x))
        /\ Cardinality(Pending("release", x)) \in Nat
    BY <1>1, <1>3, <1>4, <2>1, PendingStep
  <2>4. /\ IsFiniteSet(Pending("free", x)')
        /\ Cardinality(Pending("free", x)') =
             Cardinality(Pending("free", x)) - Cardinality(TasksIn(todo[t], "free", x))
               + Cardinality(TasksIn(s, "free", x))
        /\ Cardinality(Pending("free", x)) \in Nat
    BY <1>1, <1>3, <1>4, <2>1, PendingStep
  <2>5. One(v, x) \in Nat
    BY OneIs
  <2> QED BY <1>5, <2>2, <2>3, <2>4, <2>5
<1>7. todo' \in [Threads -> Seq(Task)] /\ \A u \in Threads \ {t} : todo'[u] = todo[u]
  BY <1>1, <1>3, <1>4 DEF NowToDo
<1> QED BY <1>6, <1>7 DEF MoreReleases

\* A task to copy, and the tasks of an operation that begins.
LEMMA CopyIs ==
  ASSUME NEW h \in Handles, NEW g \in Handles, NEW i \in Nat
  PROVE  /\ Copy(h, g, i) \in Task /\ Copy(h, g, i).task = "copy"
         /\ Copy(h, g, i).h = h /\ Copy(h, g, i).g = g /\ Copy(h, g, i).i = i
BY DEF Copy, Task

LEMMA DestroyStep ==
  ASSUME BlobsInv, NEW h \in Handles, Destroy(h)
  PROVE  BlobsInv'
<1> PICK t : t = Owner[h]
  OBVIOUS
<1> PICK v : v = handle[h]
  OBVIOUS
<1>1. /\ handle' = [handle EXCEPT ![h] = Nil] /\ blob' = blob
      /\ NowToDo(t, <<Release(v)>>)
  BY DEF Destroy, NowToDo
<1>2. t \in Threads /\ todo[t] = <<>> /\ v \in Blob \cup {Nil}
  BY BlobsAssumption DEF Destroy, Idle, BlobsInv, TypeOK
<1>3. PICK c : c \in Task /\ c.task = "copy"
  BY CopyIs, 0 \in Nat
<1>4. /\ todo' \in [Threads -> Seq(Task)]
      /\ \A u \in Threads \ {t} : todo'[u] = todo[u]
      /\ MoreReleases(v)
  BY <1>1, <1>2, <1>3, Begins
<1>5. TypeOK'
  BY <1>1, <1>4, TypesAre, TypesAreNext DEF BlobsInv
<1>6. Shuffled
  <2> SUFFICES ASSUME NEW x \in Real PROVE ShuffledFor(x)
    BY DEF Shuffled
  <2>1. Exact(x) /\ x # Nil
    BY EmptyListIsBlob DEF BlobsInv, Counted, Real
  <2>2. /\ IsFiniteSet(Pointers(x)') /\ Cardinality(Pointers(x)) \in Nat
        /\ Cardinality(Pointers(x)') = Cardinality(Pointers(x)) - One(v, x) + One(Nil, x)
    BY <1>1, <2>1, PointersStep DEF BlobsInv, Exact
  <2>3. One(Nil, x) = 0 /\ One(v, x) \in Nat
    BY <2>1, OneIs
  <2> QED BY <1>4, <2>2, <2>3 DEF ShuffledFor, MoreReleases
<1>7. OthersStay(t)
  BY <1>1 DEF OthersStay, BlobsInv, TypeOK
<1>8. TasksReady(t)'
  <2>1. todo'[t] = <<Release(v)>> /\ Release(v).task = "release"
    BY <1>1, <1>2 DEF BlobsInv, TypeOK, Release, NowToDo
  <2> QED BY <2>1 DEF TasksReady
<1> QED BY <1>1, <1>2, <1>4, <1>5, <1>6, <1>7, <1>8, Shuffles

LEMMA AssignStep ==
  ASSUME BlobsInv, NEW h \in Handles, NEW g \in Handles, NEW i \in 0 .. MaxElems, Assign(h, g, i)
  PROVE  BlobsInv'
<1> PICK t : t = Owner[h]
  OBVIOUS
<1> PICK v : v = handle[h]
  OBVIOUS
<1> PICK c : c = Copy(h, g, i)
  OBVIOUS
<1>1. /\ handle' = [handle EXCEPT ![h] = Nil] /\ blob' = blob
      /\ NowToDo(t, <<c, Release(v)>>)
  BY DEF Assign, NowToDo
<1>2. t \in Threads /\ todo[t] = <<>> /\ v \in Blob \cup {Nil}
  BY BlobsAssumption DEF Assign, Idle, BlobsInv, TypeOK
<1>3. c \in Task /\ c.task = "copy" /\ c.h = h /\ c.g = g /\ c.i = i
  <2>1. i \in Nat
    BY BlobsAssumption
  <2> QED BY <2>1, CopyIs
<1>4. /\ todo' \in [Threads -> Seq(Task)]
      /\ \A u \in Threads \ {t} : todo'[u] = todo[u]
      /\ MoreReleases(v)
  BY <1>1, <1>2, <1>3, Begins
<1>5. TypeOK'
  BY <1>1, <1>4, TypesAre, TypesAreNext DEF BlobsInv
<1>6. Shuffled
  <2> SUFFICES ASSUME NEW x \in Real PROVE ShuffledFor(x)
    BY DEF Shuffled
  <2>1. Exact(x) /\ x # Nil
    BY EmptyListIsBlob DEF BlobsInv, Counted, Real
  <2>2. /\ IsFiniteSet(Pointers(x)') /\ Cardinality(Pointers(x)) \in Nat
        /\ Cardinality(Pointers(x)') = Cardinality(Pointers(x)) - One(v, x) + One(Nil, x)
    BY <1>1, <2>1, PointersStep DEF BlobsInv, Exact
  <2>3. One(Nil, x) = 0 /\ One(v, x) \in Nat
    BY <2>1, OneIs
  <2> QED BY <1>4, <2>2, <2>3 DEF ShuffledFor, MoreReleases
<1>7. OthersStay(t)
  BY <1>1 DEF OthersStay, BlobsInv, TypeOK
<1>8. TasksReady(t)'
  <2>1. todo'[t] = <<c, Release(v)>> /\ Release(v).task = "release"
    BY <1>1, <1>2 DEF BlobsInv, TypeOK, Release, NowToDo
  <2>2. handle'[h] = Nil /\ handle'[g] = handle[g] /\ Complete(g) /\ h # g /\ Owner[g] = t
    BY <1>1 DEF Assign, MyHandles, BlobsInv, TypeOK
  <2>3. Complete(g)'
    BY <1>1, <2>2 DEF Complete
  <2>4. i # 0 => i \in DOMAIN blob'[handle'[g]].elems /\ blob'[handle'[g]].elems[i] # Nil
    BY <1>1, <2>2 DEF Assign
  <2>5. CopyReady(t, c)'
    BY <1>3, <2>2, <2>3, <2>4 DEF CopyReady
  <2> QED BY <1>3, <2>1, <2>5 DEF TasksReady
<1> QED BY <1>1, <1>2, <1>4, <1>5, <1>6, <1>7, <1>8, Shuffles

LEMMA MoveAssignStep ==
  ASSUME BlobsInv, NEW h \in Handles, NEW g \in Handles, MoveAssign(h, g)
  PROVE  BlobsInv'
<1> PICK t : t = Owner[h]
  OBVIOUS
<1> PICK v : v = handle[h]
  OBVIOUS
<1>1. /\ handle' = [handle EXCEPT ![h] = handle[g], ![g] = Nil] /\ blob' = blob
      /\ NowToDo(t, <<Release(v)>>) /\ h # g /\ Owner[g] = t
  BY DEF MoveAssign, NowToDo, MyHandles
<1>2. t \in Threads /\ todo[t] = <<>> /\ v \in Blob \cup {Nil}
  BY BlobsAssumption DEF MoveAssign, Idle, BlobsInv, TypeOK
<1>3. PICK c : c \in Task /\ c.task = "copy"
  BY CopyIs, 0 \in Nat
<1>4. /\ todo' \in [Threads -> Seq(Task)]
      /\ \A u \in Threads \ {t} : todo'[u] = todo[u]
      /\ MoreReleases(v)
  BY <1>1, <1>2, <1>3, Begins
<1>5. TypeOK'
  BY <1>1, <1>4, TypesAre, TypesAreNext DEF BlobsInv
<1>6. Shuffled
  <2> SUFFICES ASSUME NEW x \in Real PROVE ShuffledFor(x)
    BY DEF Shuffled
  <2>1. Exact(x) /\ x # Nil
    BY EmptyListIsBlob DEF BlobsInv, Counted, Real
  <2>2. /\ IsFiniteSet(Pointers(x)') /\ Cardinality(Pointers(x)) \in Nat
        /\ Cardinality(Pointers(x)') = Cardinality(Pointers(x)) - One(handle[h], x)
    BY <1>1, <2>1, PointersMove DEF BlobsInv, Exact
  <2>3. One(v, x) \in Nat
    BY OneIs
  <2> QED BY <1>4, <2>2, <2>3 DEF ShuffledFor, MoreReleases
<1>7. OthersStay(t)
  BY <1>1 DEF OthersStay, BlobsInv, TypeOK
<1>8. TasksReady(t)'
  <2>1. todo'[t] = <<Release(v)>> /\ Release(v).task = "release"
    BY <1>1, <1>2 DEF BlobsInv, TypeOK, Release, NowToDo
  <2> QED BY <2>1 DEF TasksReady
<1> QED BY <1>1, <1>2, <1>4, <1>5, <1>6, <1>7, <1>8, Shuffles

LEMMA AssignTupleStep ==
  ASSUME BlobsInv, NEW h \in Handles, NEW g \in Handles, AssignTuple(h, g)
  PROVE  BlobsInv'
<1> PICK t : t = Owner[h]
  OBVIOUS
<1> PICK v : v = handle[h]
  OBVIOUS
<1> PICK y : y = handle[g]
  OBVIOUS
<1>1. /\ handle' = [handle EXCEPT ![h] = y] /\ blob' = inc_rc(blob, <<y>>)
      /\ NowToDo(t, <<Release(v)>>)
  BY DEF AssignTuple, NowToDo
<1>2. t \in Threads /\ todo[t] = <<>> /\ v \in Blob \cup {Nil}
  BY BlobsAssumption DEF AssignTuple, Idle, BlobsInv, TypeOK
<1>3. y \in Blob /\ blob[y].mem = "live" /\ blob[y].full
  BY PointedIsLive DEF AssignTuple, Complete
<1>4. PICK c : c \in Task /\ c.task = "copy"
  BY CopyIs, 0 \in Nat
<1>5. /\ todo' \in [Threads -> Seq(Task)]
      /\ \A u \in Threads \ {t} : todo'[u] = todo[u]
      /\ MoreReleases(v)
  BY <1>1, <1>2, <1>4, Begins
<1>6. /\ blob' \in [Blob -> Storage] /\ blob'[EmptyList] = blob[EmptyList]
      /\ Kept /\ Grown /\ OpenUnshared'
  BY <1>1, <1>3, OnlyCounts
<1>7. TypeOK'
  <2>1. handle' \in [Handles -> Blob \cup {Nil}]
    BY <1>1, <1>3, TypesAre DEF BlobsInv
  <2> QED BY <1>5, <1>6, <2>1, TypesAreNext
<1>8. Counted'
  <2> SUFFICES ASSUME NEW x \in Real PROVE Exact(x)'
    BY DEF Counted
  <2>1. /\ Exact(x) /\ x \in Blob /\ x # EmptyList
        /\ blob \in [Blob -> Storage] /\ blob[x].rc \in Nat
    BY TypesAre DEF BlobsInv, Counted, Real, Storage
  <2>2. /\ IsFiniteSet(Pointers(x)') /\ Cardinality(Pointers(x)) \in Nat
        /\ Cardinality(Pointers(x)') = Cardinality(Pointers(x)) - One(v, x) + One(y, x)
    BY <1>1, <2>1, PointersStep DEF BlobsInv, Exact
  <2>3. blob'[x].rc = blob[x].rc + One(y, x)
    BY <1>1, <1>3, <2>1, IncrementOne
  <2>4. \A d \in Blob : blob'[d].elems = blob[d].elems /\ blob'[d].mem = blob[d].mem
    BY <1>1, <1>3, <2>1, IncrementOne
  <2>5. Slots(x)' = Slots(x)
    BY <2>4, SlotsSame
  <2>6. One(v, x) \in Nat /\ One(y, x) \in Nat /\ (One(y, x) # 0 => y = x)
    BY OneIs
  <2>7. y = x => blob[x].rc > 0
    BY <1>3, <2>1 DEF Exact
  <2>8. blob'[x].rc > 0 <=> blob[x].rc > 0
    BY <2>1, <2>3, <2>6, <2>7
  <2>9. /\ IsFiniteSet(Pending("release", x)') /\ IsFiniteSet(Pending("free", x)')
        /\ Cardinality(Pending("release", x)') = Cardinality(Pending("release", x)) + One(v, x)
        /\ Cardinality(Pending("free", x)') = Cardinality(Pending("free", x))
    BY <1>5 DEF MoreReleases
  <2>10. blob'[x].rc = References(x)'
    BY <2>1, <2>2, <2>3, <2>5, <2>6, <2>9, CountsAreNumbers DEF References
  <2> QED BY <2>1, <2>2, <2>4, <2>5, <2>8, <2>9, <2>10 DEF Exact
<1>9. OthersStay(t)
  BY <1>1 DEF OthersStay, BlobsInv, TypeOK
<1>10. TasksReady(t)'
  <2>1. todo'[t] = <<Release(v)>> /\ Release(v).task = "release"
    BY <1>1, <1>2 DEF BlobsInv, TypeOK, Release, NowToDo
  <2> QED BY <2>1 DEF TasksReady
<1> QED BY <1>2, <1>5, <1>6, <1>7, <1>8, <1>9, <1>10, Preserve

\* A list is closed.
LEMMA CloseStep ==
  ASSUME BlobsInv, NEW h \in Handles, close(h)
  PROVE  BlobsInv'
<1> PICK t : t = Owner[h]
  OBVIOUS
<1> PICK b : b = handle[h]
  OBVIOUS
<1>1. blob' = [blob EXCEPT ![b].full = TRUE] /\ handle' = handle /\ todo' = todo
  BY DEF close
<1>2. t \in Threads /\ todo[t] = <<>>
  BY BlobsAssumption DEF close, Idle
<1>3. b \in Real /\ blob \in [Blob -> Storage]
  BY PointedIsLive, TypesAre DEF close, BlobsInv, Real
<1>4. [blob[b] EXCEPT !.full = TRUE] \in Storage
  BY <1>3 DEF Storage, Real
<1>5. TypeOK'
  <2>1. blob' \in [Blob -> Storage]
    BY <1>1, <1>3, <1>4
  <2> QED BY <1>1, <2>1, TypesAre, TypesAreNext DEF BlobsInv
<1>6. /\ \A x \in Blob : /\ blob'[x].elems = blob[x].elems /\ blob'[x].mem = blob[x].mem
                         /\ blob'[x].rc = blob[x].rc /\ (x # b => blob'[x] = blob[x])
      /\ blob'[b].full
  BY <1>1, <1>3 DEF Storage, Real
<1>7. blob'[EmptyList] = blob[EmptyList]
  BY <1>3, <1>6, EmptyListIsBlob DEF Real
<1>8. Counted'
  <2> SUFFICES ASSUME NEW x \in Real PROVE Exact(x)'
    BY DEF Counted
  <2>1. Exact(x) /\ blob'[x].mem = blob[x].mem /\ blob'[x].rc = blob[x].rc
    BY <1>6 DEF BlobsInv, Counted, Real
  <2>2. /\ Slots(x)' = Slots(x) /\ Pointers(x)' = Pointers(x)
        /\ Pending("release", x)' = Pending("release", x) /\ Pending("free", x)' = Pending("free", x)
    BY <1>1, <1>6, SlotsSame, SamePointers, SameTasks
  <2>3. References(x)' = References(x)
    BY <2>2 DEF References
  <2> QED BY <2>1, <2>2, <2>3 DEF Exact
<1>9. OpenUnshared'
  BY <1>6 DEF BlobsInv, OpenUnshared, Real
<1>10. Kept /\ Grown
  BY <1>6 DEF Kept, Grown, Real
<1>11. OthersStay(t) /\ TasksReady(t)'
  BY <1>1, <1>2 DEF OthersStay, TasksReady
<1> QED BY <1>1, <1>2, <1>5, <1>7, <1>8, <1>9, <1>10, <1>11, Preserve

\* What g holds becomes the last element of the blob b.
Appended(b, y, full) ==
  /\ \A x \in Blob : /\ blob'[x].mem = blob[x].mem /\ blob'[x].type = blob[x].type
                     /\ x = EmptyList => blob'[x] = blob[x]
                     /\ x # EmptyList => blob'[x].rc = blob[x].rc + One(y, x)
  /\ \A x \in Blob \ {b} : blob'[x].elems = blob[x].elems /\ blob'[x].full = blob[x].full
  /\ blob'[b].elems = Append(blob[b].elems, y) /\ blob'[b].full = full

LEMMA Appends ==
  ASSUME BlobsInv, TypeOK', NEW h \in Handles, Idle(h), NEW b \in Real, blob[b].mem = "live",
         NEW g \in Handles, Complete(g), NEW y, y = handle[g], NEW full,
         blob[b].full => full, Appended(b, y, full), handle' = handle, todo' = todo
  PROVE  BlobsInv'
<1> PICK t : t = Owner[h]
  OBVIOUS
<1>1. t \in Threads /\ todo[t] = <<>>
  BY BlobsAssumption DEF Idle
<1>2. b \in Blob /\ b # EmptyList
  BY DEF Real
<1>3. y \in Blob /\ blob[y].mem = "live" /\ blob[y].full
  BY PointedIsLive DEF Complete
<1>4. /\ blob \in [Blob -> Storage] /\ blob' \in [Blob -> Storage]
      /\ blob[b].elems \in Seq(Blob \cup {Nil})
  BY <1>2, TypesAre, TypesAreNext DEF BlobsInv, Storage
<1>5. blob'[EmptyList] = blob[EmptyList]
  BY EmptyListIsBlob DEF Appended
<1>6. Counted'
  <2> SUFFICES ASSUME NEW x \in Real PROVE Exact(x)'
    BY DEF Counted
  <2>1. /\ Exact(x) /\ x \in Blob /\ blob[x].rc \in Nat
        /\ blob'[x].rc = blob[x].rc + One(y, x) /\ blob'[x].mem = blob[x].mem
    BY <1>4 DEF BlobsInv, Counted, Real, Storage, Appended
  <2>2. Elsewhere(b) /\ blob'[b].mem = "live" /\ blob'[b].elems = Append(blob[b].elems, y)
    BY <1>2 DEF Elsewhere, Appended
  <2>3. /\ IsFiniteSet(Slots(x)')
        /\ Cardinality(Slots(x)') =
             Cardinality(Slots(x)) - Cardinality(SlotsIn(blob[b], x))
               + Cardinality(SlotsIn(blob'[b], x))
        /\ Cardinality(Slots(x)) \in Nat
    BY <1>2, <1>4, <2>1, <2>2, SlotsStep DEF Exact
  <2>4. /\ SlotsIn(blob[b], x) = Occurs(blob[b].elems, x)
        /\ SlotsIn(blob'[b], x) = Occurs(Append(blob[b].elems, y), x)
    BY <2>2, SlotsAre
  <2>5. /\ Cardinality(Occurs(blob[b].elems, x)) \in Nat
        /\ Cardinality(Occurs(Append(blob[b].elems, y), x))
             = Cardinality(Occurs(blob[b].elems, x)) + One(y, x)
    BY <1>3, <1>4, OccursMore
  <2>6. One(y, x) \in Nat /\ (One(y, x) # 0 => y = x)
    BY OneIs
  <2>7. Cardinality(Slots(x)') = Cardinality(Slots(x)) + One(y, x)
    BY <2>3, <2>4, <2>5, <2>6
  <2>8. y = x => blob[x].rc > 0
    BY <1>3, <2>1 DEF Exact
  <2>9. blob'[x].rc > 0 <=> blob[x].rc > 0
    BY <2>1, <2>6, <2>8
  <2>10. /\ Pointers(x)' = Pointers(x) /\ Pending("release", x)' = Pending("release", x)
         /\ Pending("free", x)' = Pending("free", x)
    BY SamePointers, SameTasks
  <2>11. blob'[x].rc = References(x)'
    BY <2>1, <2>6, <2>7, <2>10, CountsAreNumbers DEF References
  <2> QED BY <2>1, <2>3, <2>9, <2>10, <2>11 DEF Exact
<1>7. OpenUnshared'
  <2>1. \A x \in Real : blob'[x].mem = "live" /\ ~ blob'[x].full =>
           blob[x].mem = "live" /\ ~ blob[x].full /\ blob'[x].rc = blob[x].rc
    <3> SUFFICES ASSUME NEW x \in Real, blob'[x].mem = "live", ~ blob'[x].full
                 PROVE  blob[x].mem = "live" /\ ~ blob[x].full /\ blob'[x].rc = blob[x].rc
      OBVIOUS
    <3>1. /\ blob[x].mem = "live" /\ ~ blob[x].full /\ blob[x].rc \in Nat
          /\ blob'[x].rc = blob[x].rc + One(y, x)
      BY <1>4 DEF Real, Storage, Appended
    <3>2. One(y, x) = 0
      BY <1>3, <3>1, OneIs
    <3> QED BY <3>1, <3>2
  <2> QED BY <2>1, StillUnshared
<1>8. /\ \A i \in DOMAIN blob[b].elems : /\ i \in DOMAIN Append(blob[b].elems, y)
                                         /\ Append(blob[b].elems, y)[i] = blob[b].elems[i]
      /\ \A i \in DOMAIN Append(blob[b].elems, y) :
           \/ i \in DOMAIN blob[b].elems
           \/ Append(blob[b].elems, y)[i] = y
  BY <1>3, <1>4
<1>9. Kept
  <2> SUFFICES ASSUME NEW x \in Blob, blob[x].mem = "live", blob[x].full
               PROVE  /\ blob'[x].full
                      /\ \A i \in DOMAIN blob[x].elems :
                           i \in DOMAIN blob'[x].elems /\ blob'[x].elems[i] = blob[x].elems[i]
    BY DEF Kept
  <2>1. CASE x = b
    BY <1>8, <2>1 DEF Appended
  <2>2. CASE x # b
    BY <2>2 DEF Appended
  <2> QED BY <2>1, <2>2
<1>10. Grown
  <2> SUFFICES ASSUME NEW x \in Real, blob'[x].mem = "live", NEW i \in DOMAIN blob'[x].elems
               PROVE  \/ /\ blob[x].mem = "live" /\ i \in DOMAIN blob[x].elems
                         /\ blob'[x].elems[i] = blob[x].elems[i]
                      \/ blob'[x].elems[i] = handle[g]
    BY DEF Grown
  <2>1. CASE x = b
    BY <1>8, <2>1 DEF Appended
  <2>2. CASE x # b
    BY <2>2 DEF Appended, Real
  <2> QED BY <2>1, <2>2
<1>11. OthersStay(t) /\ TasksReady(t)'
  BY <1>1 DEF OthersStay, TasksReady
<1> QED BY <1>1, <1>5, <1>6, <1>7, <1>9, <1>10, <1>11, Preserve

\* The count of what is appended goes up, then the blob changes.
LEMMA AppendedIs ==
  ASSUME BlobsInv, NEW b \in Real, NEW y \in Blob, NEW full \in BOOLEAN,
         NEW m, m = inc_rc(blob, <<y>>),
         \/ blob' = [m EXCEPT ![b].elems = Append(@, y), ![b].full = full]
         \/ blob' = [m EXCEPT ![b].elems = Append(@, y)] /\ full = blob[b].full
  PROVE  Appended(b, y, full) /\ blob' \in [Blob -> Storage]
<1>1. blob \in [Blob -> Storage] /\ b \in Blob /\ b # EmptyList
  BY TypesAre DEF BlobsInv, Real
<1>2. /\ m \in [Blob -> Storage]
      /\ \A x \in Blob : /\ m[x].elems = blob[x].elems /\ m[x].full = blob[x].full
                         /\ m[x].mem = blob[x].mem /\ m[x].type = blob[x].type
                         /\ x = EmptyList => m[x] = blob[x]
                         /\ x # EmptyList => m[x].rc = blob[x].rc + One(y, x)
  BY <1>1, IncrementOne
<1> PICK r : r = [m[b] EXCEPT !.elems = Append(m[b].elems, y), !.full = full]
  OBVIOUS
<1>3. m[b] \in Storage /\ m[b].elems \in Seq(Blob \cup {Nil})
  BY <1>1, <1>2 DEF Storage
<1>4. Append(m[b].elems, y) \in Seq(Blob \cup {Nil})
  BY <1>3
<1>5. /\ r \in Storage /\ r.elems = Append(m[b].elems, y) /\ r.full = full
      /\ r.mem = m[b].mem /\ r.type = m[b].type /\ r.rc = m[b].rc
  BY <1>3, <1>4 DEF Storage
<1>6. blob' = [m EXCEPT ![b] = r]
  <2>1. CASE blob' = [m EXCEPT ![b].elems = Append(@, y), ![b].full = full]
    BY <1>1, <1>2, <1>3, <2>1 DEF Storage
  <2>2. CASE blob' = [m EXCEPT ![b].elems = Append(@, y)] /\ full = blob[b].full
    <3>1. full = m[b].full
      BY <1>1, <1>2, <2>2
    <3>2. r = [m[b] EXCEPT !.elems = Append(m[b].elems, y)]
      BY <1>3, <3>1 DEF Storage
    <3> QED BY <2>2, <3>2
  <2> QED BY <2>1, <2>2
<1>7. blob'[b] = r /\ \A x \in Blob \ {b} : blob'[x] = m[x]
  BY <1>1, <1>2, <1>6
<1>8. blob' \in [Blob -> Storage]
  BY <1>1, <1>2, <1>5, <1>6
<1>9. Appended(b, y, full)
  <2>1. blob'[b].elems = Append(blob[b].elems, y) /\ blob'[b].full = full
    BY <1>1, <1>2, <1>5, <1>7
  <2>2. \A x \in Blob \ {b} : blob'[x].elems = blob[x].elems /\ blob'[x].full = blob[x].full
    BY <1>2, <1>7
  <2>3. \A x \in Blob : /\ blob'[x].mem = blob[x].mem /\ blob'[x].type = blob[x].type
                        /\ x = EmptyList => blob'[x] = blob[x]
                        /\ x # EmptyList => blob'[x].rc = blob[x].rc + One(y, x)
    <3> TAKE x \in Blob
    <3>1. CASE x = b
      <4>1. blob'[x].mem = m[x].mem /\ blob'[x].type = m[x].type /\ blob'[x].rc = m[x].rc
        BY <1>5, <1>7, <3>1
      <4> QED BY <1>1, <1>2, <3>1, <4>1
    <3>2. CASE x # b
      <4>1. blob'[x] = m[x]
        BY <1>7, <3>2
      <4> QED BY <1>2, <4>1
    <3> QED BY <3>1, <3>2
  <2> QED BY <2>1, <2>2, <2>3 DEF Appended
<1> QED BY <1>8, <1>9

LEMMA PushBackStep ==
  ASSUME BlobsInv, NEW h \in Handles, NEW g \in Handles, push_back(h, g)
  PROVE  BlobsInv'
<1> PICK b : b = handle[h]
  OBVIOUS
<1> PICK y : y = handle[g]
  OBVIOUS
<1> PICK full : full = (blob[b].full \/ (blob[b].type = "TUPLE" /\ Len(blob[b].elems) + 1 = Arity))
  OBVIOUS
<1> PICK m : m = inc_rc(blob, <<y>>)
  OBVIOUS
<1>1. /\ Idle(h) /\ Complete(g) /\ handle[h] # Nil /\ b # EmptyList
      /\ handle' = handle /\ todo' = todo
      /\ blob' = [m EXCEPT ![b].elems = Append(@, y), ![b].full = full]
  BY DEF push_back
<1>2. y \in Blob /\ b \in Blob /\ blob[b].mem = "live"
  BY <1>1, PointedIsLive DEF Complete
<1>3. b \in Real /\ full \in BOOLEAN /\ (blob[b].full => full)
  BY <1>1, <1>2, TypesAre DEF BlobsInv, Real, Storage
<1>4. Appended(b, y, full) /\ blob' \in [Blob -> Storage]
  BY <1>1, <1>2, <1>3, AppendedIs
<1>5. TypeOK'
  BY <1>1, <1>4, TypesAre, TypesAreNext DEF BlobsInv
<1> QED BY <1>1, <1>2, <1>3, <1>4, <1>5, Appends

LEMMA InsertStep ==
  ASSUME BlobsInv, NEW h \in Handles, NEW g \in Handles, insert(h, g)
  PROVE  BlobsInv'
<1> PICK b : b = handle[h]
  OBVIOUS
<1> PICK y : y = handle[g]
  OBVIOUS
<1> PICK full : full = blob[b].full
  OBVIOUS
<1> PICK m : m = inc_rc(blob, <<y>>)
  OBVIOUS
<1>1. /\ Idle(h) /\ Complete(g) /\ handle[h] # Nil /\ blob[b].type = "MAP"
      /\ handle' = handle /\ todo' = todo
      /\ blob' = [m EXCEPT ![b].elems = Append(@, y)]
  BY DEF insert
<1>2. y \in Blob /\ b \in Blob /\ blob[b].mem = "live"
  BY <1>1, PointedIsLive DEF Complete
<1>3. b \in Real /\ full \in BOOLEAN
  BY <1>1, <1>2, TypesAre DEF BlobsInv, EmptyKept, Real, Storage
<1>4. Appended(b, y, full) /\ blob' \in [Blob -> Storage]
  BY <1>1, <1>2, <1>3, AppendedIs
<1>5. TypeOK'
  BY <1>1, <1>4, TypesAre, TypesAreNext DEF BlobsInv
<1> QED BY <1>1, <1>2, <1>3, <1>4, <1>5, Appends

\* One element is replaced.
Replaced(e, i, v, f) == f = [e EXCEPT ![i] = v]

LEMMA OccursReplaced ==
  ASSUME NEW e \in Seq(Blob \cup {Nil}), NEW i \in DOMAIN e, NEW v \in Blob \cup {Nil}, NEW x,
         NEW f, Replaced(e, i, v, f)
  PROVE  /\ Cardinality(Occurs(f, x)) = Cardinality(Occurs(e, x)) - One(e[i], x) + One(v, x)
         /\ Cardinality(Occurs(e, x)) \in Nat
<1>1. /\ f \in Seq(Blob \cup {Nil}) /\ DOMAIN f = DOMAIN e
      /\ f[i] = v /\ \A j \in DOMAIN e \ {i} : f[j] = e[j]
  BY DEF Replaced
<1>2. IsFiniteSet(Occurs(e, x)) /\ Cardinality(Occurs(e, x)) \in Nat
  BY FiniteOccurs
<1> DEFINE r == Occurs(e, x) \ {i}
<1>3. IsFiniteSet(r) /\ Cardinality(r) = Cardinality(Occurs(e, x)) - One(e[i], x)
  <2>1. i \in Occurs(e, x) <=> e[i] = x
    BY DEF Occurs
  <2>2. /\ IsFiniteSet(r)
        /\ Cardinality(r) = IF i \in Occurs(e, x) THEN Cardinality(Occurs(e, x)) - 1
                            ELSE Cardinality(Occurs(e, x))
    BY <1>2, FS_RemoveElement
  <2> QED BY <1>2, <2>1, <2>2 DEF One
<1>4. i \notin r /\ Occurs(f, x) = IF v = x THEN r \cup {i} ELSE r
  BY <1>1 DEF Occurs
<1> HIDE DEF r
<1>5. Cardinality(Occurs(f, x)) = Cardinality(r) + One(v, x)
  <2>1. Cardinality(r \cup {i}) = Cardinality(r) + 1
    BY <1>3, <1>4, FS_AddElement
  <2>2. Cardinality(r) \in Nat
    BY <1>3, FS_CardinalityType
  <2> QED BY <1>4, <2>1, <2>2 DEF One
<1> QED BY <1>2, <1>3, <1>5

Elements == Seq(Blob \cup {Nil})

\* f has one v less than e and one y more.
Exchanged(e, f, v, y) ==
  \A x : /\ Cardinality(Occurs(f, x)) = Cardinality(Occurs(e, x)) - One(v, x) + One(y, x)
         /\ Cardinality(Occurs(e, x)) \in Nat

LEMMA CountReplaced ==
  ASSUME NEW e, e \in Elements, NEW i, i \in DOMAIN e, NEW v, v = e[i],
         NEW y, y \in Blob \cup {Nil}, NEW f, Replaced(e, i, y, f)
  PROVE  Exchanged(e, f, v, y)
<1> SUFFICES ASSUME NEW x
             PROVE  /\ Cardinality(Occurs(f, x)) = Cardinality(Occurs(e, x)) - One(v, x) + One(y, x)
                    /\ Cardinality(Occurs(e, x)) \in Nat
  BY DEF Exchanged
<1> QED BY OccursReplaced DEF Elements

\* What is changed is held by no other thread.
LEMMA OnlyOwn ==
  ASSUME BlobsInv, NEW h \in Handles, handle[h] \in Real, Unraced(h),
         NEW k \in Handles, handle[k] = handle[h]
  PROVE  Owner[k] = Owner[h]
<1> PICK b : b = handle[h]
  OBVIOUS
<1> DEFINE own == {j \in MyHandles(h) : handle[j] = b}
<1>1. Exact(b)
  BY DEF BlobsInv, Counted
<1>2. own \in SUBSET Pointers(b) /\ IsFiniteSet(Pointers(b))
  BY <1>1 DEF Exact, Pointers, MyHandles
<1>3. /\ Cardinality(own) <= Cardinality(Pointers(b)) /\ Cardinality(own) \in Nat
      /\ Cardinality(own) = Cardinality(Pointers(b)) => own = Pointers(b)
  BY <1>2, FS_Subset, FS_CardinalityType
<1>4. blob[b].rc = Cardinality(own)
  BY DEF Unraced
<1> HIDE DEF own
<1>5. own = Pointers(b)
  BY <1>1, <1>3, <1>4, CountsAreNumbers
<1> QED BY <1>5 DEF own, Pointers, MyHandles

LEMMA UpdateStep ==
  ASSUME BlobsInv, NEW h \in Handles, NEW g \in Handles, NEW i \in 0 .. MaxElems, Update(h, g, i)
  PROVE  BlobsInv'
<1> PICK t : t = Owner[h]
  OBVIOUS
<1> PICK b : b = handle[h]
  OBVIOUS
<1> PICK y : y = handle[g]
  OBVIOUS
<1> PICK e : e = blob[b].elems
  OBVIOUS
<1> PICK v : v = e[i]
  OBVIOUS
<1> PICK f : Replaced(e, i, y, f)
  BY DEF Replaced
<1>1. /\ b # Nil /\ Unraced(h) /\ (y # Nil => Complete(g)) /\ i \in DOMAIN e
      /\ blob' = [blob EXCEPT ![b].elems = f] /\ handle' = [handle EXCEPT ![g] = Nil]
      /\ NowToDo(t, <<Release(v)>>) /\ Owner[g] = t
  BY DEF Update, NowToDo, MyHandles, Replaced
<1>2. b \in Blob /\ blob[b].mem = "live" /\ y \in Blob \cup {Nil}
  BY <1>1, PointedIsLive DEF BlobsInv, TypeOK
<1>3. b \in Real
  BY <1>1, <1>2 DEF BlobsInv, EmptyKept, Real
<1>4. blob \in [Blob -> Storage] /\ blob[b] \in Storage /\ e \in Seq(Blob \cup {Nil})
  BY <1>2, TypesAre DEF BlobsInv, Storage
<1>5. v \in Blob \cup {Nil}
  BY <1>1, <1>4
<1>6. /\ f \in Seq(Blob \cup {Nil}) /\ DOMAIN f = DOMAIN e /\ f[i] = y
      /\ \A j \in DOMAIN e \ {i} : f[j] = e[j]
  BY <1>1, <1>2, <1>4 DEF Replaced
<1>6a. e \in Elements
  BY <1>4 DEF Elements
<1>6b. Exchanged(e, f, v, y)
  BY <1>1, <1>2, <1>6a, CountReplaced
<1> PICK r : r = [blob[b] EXCEPT !.elems = f]
  OBVIOUS
<1>7. /\ r \in Storage /\ r.elems = f /\ r.full = blob[b].full /\ r.mem = blob[b].mem
      /\ r.rc = blob[b].rc
  BY <1>4, <1>6 DEF Storage
<1>8. blob' \in [Blob -> Storage] /\ blob'[b] = r /\ \A x \in Blob \ {b} : blob'[x] = blob[x]
  BY <1>1, <1>2, <1>4, <1>7
<1>9. /\ \A x \in Blob : /\ blob'[x].rc = blob[x].rc /\ blob'[x].mem = blob[x].mem
                         /\ blob'[x].full = blob[x].full
      /\ blob'[b].elems = f /\ Elsewhere(b)
  BY <1>7, <1>8 DEF Elsewhere
<1>10. t \in Threads /\ todo[t] = <<>>
  BY BlobsAssumption DEF Update, Idle
<1>11. PICK c : c \in Task /\ c.task = "copy"
  BY CopyIs, 0 \in Nat
<1>12. /\ todo' \in [Threads -> Seq(Task)]
       /\ \A u \in Threads \ {t} : todo'[u] = todo[u]
       /\ MoreReleases(v)
  BY <1>1, <1>5, <1>10, <1>11, Begins
<1>13. TypeOK'
  <2>1. handle' \in [Handles -> Blob \cup {Nil}]
    BY <1>1, TypesAre DEF BlobsInv
  <2> QED BY <1>8, <1>12, <2>1, TypesAreNext
<1>14. Counted'
  <2> SUFFICES ASSUME NEW x \in Real PROVE Exact(x)'
    BY DEF Counted
  <2>1. Exact(x) /\ x \in Blob /\ x # Nil
    BY EmptyListIsBlob DEF BlobsInv, Counted, Real
  <2>2. /\ IsFiniteSet(Pointers(x)') /\ Cardinality(Pointers(x)) \in Nat
        /\ Cardinality(Pointers(x)') = Cardinality(Pointers(x)) - One(y, x) + One(Nil, x)
    BY <1>1, <2>1, PointersStep DEF BlobsInv, Exact
  <2>3. /\ IsFiniteSet(Slots(x)')
        /\ Cardinality(Slots(x)') =
             Cardinality(Slots(x)) - Cardinality(SlotsIn(blob[b], x))
               + Cardinality(SlotsIn(blob'[b], x))
        /\ Cardinality(Slots(x)) \in Nat
    BY <1>2, <1>4, <1>8, <1>9, <2>1, SlotsStep DEF Exact
  <2>4. /\ SlotsIn(blob[b], x) = Occurs(e, x)
        /\ SlotsIn(blob'[b], x) = Occurs(f, x)
    BY <1>2, <1>9, SlotsAre
  <2>5. /\ Cardinality(Occurs(f, x)) = Cardinality(Occurs(e, x)) - One(v, x) + One(y, x)
        /\ Cardinality(Occurs(e, x)) \in Nat
    BY <1>6b DEF Exchanged
  <2>6. One(v, x) \in Nat /\ One(y, x) \in Nat /\ One(Nil, x) = 0
    BY <2>1, OneIs
  <2>7. Cardinality(Slots(x)') = Cardinality(Slots(x)) - One(v, x) + One(y, x)
    BY <2>3, <2>4, <2>5, <2>6
  <2>8. /\ IsFiniteSet(Pending("release", x)') /\ IsFiniteSet(Pending("free", x)')
        /\ Cardinality(Pending("release", x)') = Cardinality(Pending("release", x)) + One(v, x)
        /\ Cardinality(Pending("free", x)') = Cardinality(Pending("free", x))
        /\ Cardinality(Pending("release", x)) \in Nat
    BY <1>12 DEF MoreReleases
  <2>9. References(x)' = References(x)
    BY <2>2, <2>3, <2>6, <2>7, <2>8 DEF References
  <2>10. blob'[x].rc = blob[x].rc /\ blob'[x].mem = blob[x].mem
    BY <1>9, <2>1
  <2> QED BY <2>1, <2>2, <2>3, <2>8, <2>9, <2>10 DEF Exact
<1>15. blob'[EmptyList] = blob[EmptyList]
  BY <1>3, <1>8, EmptyListIsBlob DEF Real
<1>16. OpenUnshared'
  BY <1>9 DEF BlobsInv, OpenUnshared, Real
<1>17. KeptFor(t)
  <2> SUFFICES ASSUME NEW x \in Blob, blob[x].full, NEW k \in Handles, Owner[k] # t, handle[k] = x
               PROVE  blob'[x].elems = blob[x].elems
    BY <1>9 DEF KeptFor
  <2>1. x # b
    BY <1>1, <1>3, OnlyOwn
  <2> QED BY <1>8, <2>1
<1>18. Grown
  <2> SUFFICES ASSUME NEW x \in Real, blob'[x].mem = "live", NEW j \in DOMAIN blob'[x].elems
               PROVE  \/ blob'[x].elems[j] = Nil
                      \/ /\ blob[x].mem = "live" /\ j \in DOMAIN blob[x].elems
                         /\ blob'[x].elems[j] = blob[x].elems[j]
                      \/ Complete(g) /\ blob'[x].elems[j] = handle[g]
    BY DEF Grown
  <2>1. CASE x = b
    BY <1>1, <1>2, <1>6, <1>9, <2>1
  <2>2. CASE x # b
    BY <1>8, <1>9, <2>2 DEF Real
  <2> QED BY <2>1, <2>2
<1>19. OthersStay(t)
  BY <1>1 DEF OthersStay, BlobsInv, TypeOK
<1>20. TasksReady(t)'
  <2>1. todo'[t] = <<Release(v)>> /\ Release(v).task = "release"
    BY <1>1, <1>10 DEF BlobsInv, TypeOK, Release, NowToDo
  <2> QED BY <2>1 DEF TasksReady
<1> QED BY <1>10, <1>12, <1>13, <1>14, <1>15, <1>16, <1>17, <1>18, <1>19, <1>20, PreserveFor

\* A task is done: the tasks of the thread become s.
DoneFor(d, x) ==
  /\ IsFiniteSet(Pending("release", x)') /\ IsFiniteSet(Pending("free", x)')
  /\ Cardinality(Pending("release", x)') =
       Cardinality(Pending("release", x)) - (IF d.task = "release" THEN One(d.b, x) ELSE 0)
  /\ Cardinality(Pending("free", x)') =
       Cardinality(Pending("free", x)) - (IF d.task = "free" THEN One(d.b, x) ELSE 0)
  /\ Cardinality(Pending("release", x)) \in Nat /\ Cardinality(Pending("free", x)) \in Nat

LEMMA Finishes ==
  ASSUME BlobsInv, NEW t \in Threads, todo[t] # <<>>, NEW d, d = Last(todo[t]),
         NEW s, s = Front(todo[t])
  PROVE  /\ d \in Task /\ s \in Seq(Task) /\ Len(todo[t]) \in Nat \ {0}
         /\ d = todo[t][Len(todo[t])] /\ Len(s) = Len(todo[t]) - 1
         /\ \A i \in DOMAIN s : i \in DOMAIN todo[t] /\ s[i] = todo[t][i]
         /\ NowToDo(t, s) =>
              /\ todo' \in [Threads -> Seq(Task)] /\ todo'[t] = s
              /\ \A u \in Threads \ {t} : todo'[u] = todo[u]
              /\ \A x \in Real : DoneFor(d, x)
<1> PICK q : q = todo[t]
  OBVIOUS
<1>1. q \in Seq(Task) /\ q # <<>> /\ todo \in [Threads -> Seq(Task)]
  BY TypesAre DEF BlobsInv
<1>2. /\ s \in Seq(Task) /\ Len(s) = Len(q) - 1
      /\ \A i \in 1..(Len(q) - 1) : s[i] = q[i]
      /\ Len(q) \in Nat \ {0} /\ d = q[Len(q)] /\ d \in Task
  BY <1>1, TaskDone
<1>3. \A i \in DOMAIN s : i \in DOMAIN q /\ s[i] = q[i]
  BY <1>1, <1>2
<1>4. ASSUME NowToDo(t, s), NEW x \in Real PROVE DoneFor(d, x)
  <2>1. IsFiniteSet(Pending("release", x)) /\ IsFiniteSet(Pending("free", x))
    BY DEF BlobsInv, Counted, Exact
  <2>2. \A k : Cardinality(TasksIn(s, k, x)) =
                 Cardinality(TasksIn(q, k, x)) - (IF d.task = k THEN One(d.b, x) ELSE 0)
    BY <1>1, TaskDone
  <2>3. /\ IsFiniteSet(Pending("release", x)')
        /\ Cardinality(Pending("release", x)') =
             Cardinality(Pending("release", x)) - Cardinality(TasksIn(q, "release", x))
               + Cardinality(TasksIn(s, "release", x))
        /\ Cardinality(Pending("release", x)) \in Nat
        /\ Cardinality(TasksIn(q, "release", x)) \in Nat
    BY <1>1, <1>2, <1>4, <2>1, PendingStep
  <2>4. /\ IsFiniteSet(Pending("free", x)')
        /\ Cardinality(Pending("free", x)') =
             Cardinality(Pending("free", x)) - Cardinality(TasksIn(q, "free", x))
               + Cardinality(TasksIn(s, "free", x))
        /\ Cardinality(Pending("free", x)) \in Nat
        /\ Cardinality(TasksIn(q, "free", x)) \in Nat
    BY <1>1, <1>2, <1>4, <2>1, PendingStep
  <2>5. One(d.b, x) \in Nat
    BY OneIs
  <2> QED BY <2>2, <2>3, <2>4, <2>5 DEF DoneFor
<1>5. ASSUME NowToDo(t, s)
      PROVE  /\ todo' \in [Threads -> Seq(Task)] /\ todo'[t] = s
             /\ \A u \in Threads \ {t} : todo'[u] = todo[u]
  BY <1>1, <1>2, <1>5 DEF NowToDo
<1> QED BY <1>2, <1>3, <1>4, <1>5

\* The copies that were ready stay so while the blobs keep their elements and the handles stay.
LEMMA FewerTasks ==
  ASSUME BlobsInv, NEW t \in Threads, handle' = handle, Kept,
         \A i \in DOMAIN todo'[t] : todo'[t][i].task = "copy" =>
           i \in DOMAIN todo[t] /\ todo'[t][i] = todo[t][i]
  PROVE  TasksReady(t)'
<1> SUFFICES ASSUME NEW i \in DOMAIN todo'[t], NEW c, c = todo'[t][i], c.task = "copy"
             PROVE  i = 1 /\ CopyReady(t, c)'
  BY DEF TasksReady, CopyReady, Complete
<1>1. i \in DOMAIN todo[t] /\ c = todo[t][i]
  OBVIOUS
<1>2. i = 1 /\ CopyReady(t, c)
  BY <1>1 DEF BlobsInv, Copies, TasksReady
<1>3. c.g \in Handles
  BY <1>1, TypesAre DEF BlobsInv, Task
<1> PICK x : x = handle[c.g]
  OBVIOUS
<1>4. x \in Blob /\ blob[x].mem = "live" /\ blob[x].full
  BY <1>2, <1>3, PointedIsLive DEF CopyReady, Complete
<1>5. /\ blob'[x].full
      /\ \A j \in DOMAIN blob[x].elems :
           j \in DOMAIN blob'[x].elems /\ blob'[x].elems[j] = blob[x].elems[j]
  BY <1>4 DEF Kept
<1>6. ASSUME c.i # 0
      PROVE  c.i \in DOMAIN blob'[x].elems /\ blob'[x].elems[c.i] # Nil
  <2>1. c.i \in DOMAIN blob[x].elems /\ blob[x].elems[c.i] # Nil
    BY <1>2, <1>6 DEF CopyReady
  <2> QED BY <2>1, <1>5
<1>7. /\ Owner[c.h] = t /\ Owner[c.g] = t /\ c.h # c.g /\ handle'[c.h] = Nil
      /\ handle'[c.g] = x /\ x # Nil
  BY <1>2 DEF CopyReady, Complete
<1>8. Complete(c.g)'
  BY <1>5, <1>7 DEF Complete
<1> QED BY <1>2, <1>6, <1>7, <1>8 DEF CopyReady

LEMMA SkipReleaseStep ==
  ASSUME BlobsInv, NEW t \in Threads, SkipRelease(t)
  PROVE  BlobsInv'
<1> PICK d : d = Last(todo[t])
  OBVIOUS
<1> PICK s : s = Front(todo[t])
  OBVIOUS
<1>1. /\ todo[t] # <<>> /\ d.task = "release" /\ d.b \in {Nil, EmptyList}
      /\ blob' = blob /\ handle' = handle /\ NowToDo(t, s)
  BY DEF SkipRelease, Doing, NowToDo
<1>2. /\ \A i \in DOMAIN s : i \in DOMAIN todo[t] /\ s[i] = todo[t][i]
      /\ todo' \in [Threads -> Seq(Task)] /\ todo'[t] = s
      /\ \A u \in Threads \ {t} : todo'[u] = todo[u]
      /\ \A x \in Real : DoneFor(d, x)
  BY <1>1, Finishes
<1>3. TypeOK'
  BY <1>1, <1>2, TypesAre, TypesAreNext DEF BlobsInv
<1>4. Shuffled
  <2> SUFFICES ASSUME NEW x \in Real PROVE ShuffledFor(x)
    BY DEF Shuffled
  <2>1. x # d.b
    BY <1>1, EmptyListIsBlob DEF Real
  <2>2. One(d.b, x) = 0
    BY <2>1, OneIs
  <2>3. IsFiniteSet(Pointers(x)) /\ Pointers(x)' = Pointers(x)
    BY <1>1, SamePointers DEF BlobsInv, Counted, Exact
  <2>4. DoneFor(d, x)
    BY <1>2
  <2> QED BY <1>1, <2>2, <2>3, <2>4 DEF ShuffledFor, DoneFor
<1>5. Kept
  BY <1>1 DEF Kept
<1>6. TasksReady(t)'
  BY <1>1, <1>2, <1>5, FewerTasks
<1>7. OthersStay(t)
  BY <1>1 DEF OthersStay
<1> QED BY <1>1, <1>2, <1>3, <1>4, <1>6, <1>7, Shuffles

LEMMA DoCopyStep ==
  ASSUME BlobsInv, NEW t \in Threads, DoCopy(t)
  PROVE  BlobsInv'
<1> PICK d : d = Last(todo[t])
  OBVIOUS
<1> PICK s : s = Front(todo[t])
  OBVIOUS
<1> PICK y : y = Source(d)
  OBVIOUS
<1>1. /\ todo[t] # <<>> /\ d.task = "copy" /\ NowToDo(t, s)
      /\ handle' = [handle EXCEPT ![d.h] = y] /\ blob' = inc_rc(blob, <<y>>)
  BY DEF DoCopy, Doing, NowToDo
<1>2. /\ d \in Task /\ s \in Seq(Task) /\ Len(todo[t]) \in Nat \ {0}
      /\ d = todo[t][Len(todo[t])] /\ Len(s) = Len(todo[t]) - 1
      /\ todo' \in [Threads -> Seq(Task)] /\ todo'[t] = s
      /\ \A u \in Threads \ {t} : todo'[u] = todo[u]
      /\ \A x \in Real : DoneFor(d, x)
  BY <1>1, Finishes
<1>3. Len(todo[t]) = 1 /\ CopyReady(t, d)
  <2>1. Len(todo[t]) \in DOMAIN todo[t]
    BY <1>2, TypesAre DEF BlobsInv
  <2> QED BY <1>1, <1>2, <2>1 DEF BlobsInv, Copies, TasksReady
<1>4. d.h \in Handles /\ d.g \in Handles /\ handle[d.h] = Nil /\ Owner[d.h] = t
  BY <1>1, <1>2, <1>3 DEF Task, CopyReady
<1>5. y \in Blob /\ blob[y].mem = "live" /\ blob[y].full
  <2> PICK z : z = handle[d.g]
    OBVIOUS
  <2>1. z \in Blob /\ blob[z].mem = "live" /\ blob[z].full
    BY <1>3, <1>4, PointedIsLive DEF CopyReady, Complete
  <2>2. CASE d.i = 0
    BY <2>1, <2>2 DEF Source
  <2>3. CASE d.i # 0
    <3>1. d.i \in DOMAIN blob[z].elems /\ blob[z].elems[d.i] # Nil /\ y = blob[z].elems[d.i]
      BY <1>3, <2>3 DEF CopyReady, Source
    <3> QED BY <2>1, <3>1, ElementIsLive
  <2> QED BY <2>2, <2>3
<1>6. /\ blob' \in [Blob -> Storage] /\ blob'[EmptyList] = blob[EmptyList]
      /\ Kept /\ Grown /\ OpenUnshared'
  BY <1>1, <1>5, OnlyCounts
<1>7. TypeOK'
  <2>1. handle' \in [Handles -> Blob \cup {Nil}]
    BY <1>1, <1>5, TypesAre DEF BlobsInv
  <2> QED BY <1>2, <1>6, <2>1, TypesAreNext
<1>8. Counted'
  <2> SUFFICES ASSUME NEW x \in Real PROVE Exact(x)'
    BY DEF Counted
  <2>1. Exact(x)
    BY DEF BlobsInv, Counted
  <2>2. /\ IsFiniteSet(Pointers(x)') /\ IsFiniteSet(Slots(x)')
        /\ Cardinality(Pointers(x)') = Cardinality(Pointers(x)) + One(y, x)
        /\ Cardinality(Slots(x)') = Cardinality(Slots(x))
        /\ blob'[x].rc = blob[x].rc + One(y, x) /\ blob'[x].mem = blob[x].mem
        /\ blob'[x].rc > 0 <=> blob[x].rc > 0
    BY <1>1, <1>4, <1>5, Shares
  <2>3. /\ IsFiniteSet(Pending("release", x)') /\ IsFiniteSet(Pending("free", x)')
        /\ Cardinality(Pending("release", x)') = Cardinality(Pending("release", x))
        /\ Cardinality(Pending("free", x)') = Cardinality(Pending("free", x))
    BY <1>1, <1>2 DEF DoneFor
  <2>4. One(y, x) \in Nat
    BY OneIs
  <2>5. blob'[x].rc = References(x)'
    BY <2>1, <2>2, <2>3, <2>4, CountsAreNumbers DEF References
  <2> QED BY <2>1, <2>2, <2>3, <2>5 DEF Exact
<1>9. OthersStay(t)
  BY <1>1, <1>4 DEF OthersStay, BlobsInv, TypeOK
<1>10. TasksReady(t)'
  BY <1>2, <1>3 DEF TasksReady
<1> QED BY <1>2, <1>6, <1>7, <1>8, <1>9, <1>10, Preserve

LEMMA DoFreeStep ==
  ASSUME BlobsInv, NEW t \in Threads, DoFree(t)
  PROVE  BlobsInv'
<1> PICK d : d = Last(todo[t])
  OBVIOUS
<1> PICK s : s = Front(todo[t])
  OBVIOUS
<1> PICK b : b = d.b
  OBVIOUS
<1> PICK f : f = [Unused EXCEPT !.mem = "freed"]
  OBVIOUS
<1>1. /\ todo[t] # <<>> /\ d.task = "free" /\ NowToDo(t, s)
      /\ handle' = handle /\ blob' = [blob EXCEPT ![b] = f]
  BY DEF DoFree, Doing, NowToDo
<1>2. /\ d \in Task /\ Len(todo[t]) \in Nat \ {0} /\ d = todo[t][Len(todo[t])]
      /\ \A i \in DOMAIN s : i \in DOMAIN todo[t] /\ s[i] = todo[t][i]
      /\ todo' \in [Threads -> Seq(Task)] /\ todo'[t] = s
      /\ \A u \in Threads \ {t} : todo'[u] = todo[u]
      /\ \A x \in Real : DoneFor(d, x)
  BY <1>1, Finishes
<1>3. b \in Real /\ b \in Blob /\ b # EmptyList
  BY <1>1, <1>2 DEF Task, Real
<1>4. blob[b].mem = "dying" /\ blob[b].rc = 0
  <2>1. Len(todo[t]) \in DOMAIN todo[t]
    BY <1>2, TypesAre DEF BlobsInv
  <2> QED BY <1>1, <1>2, <1>3, <2>1, TaskIsDue
<1>5. f \in Storage /\ f.mem = "freed" /\ f.rc = 0
  <2> PICK e : e = <<>>
    OBVIOUS
  <2>1. e \in Seq(Blob \cup {Nil})
    OBVIOUS
  <2>2. f = [type |-> "STRING", rc |-> 0, elems |-> e, full |-> FALSE, mem |-> "freed"]
    BY DEF Unused
  <2>3. [type |-> "STRING", rc |-> 0, elems |-> e, full |-> FALSE, mem |-> "freed"] \in Storage
    BY <2>1 DEF Storage, Types
  <2>4. f \in Storage
    BY <2>2, <2>3
  <2>5. f.mem = "freed"
    BY <2>2
  <2>6. f.rc = 0
    BY <2>2
  <2> QED BY <2>4, <2>5, <2>6
<1>6. blob \in [Blob -> Storage] /\ blob' \in [Blob -> Storage]
  BY <1>1, <1>3, <1>5, TypesAre DEF BlobsInv
<1>7. blob'[b] = f /\ \A x \in Blob \ {b} : blob'[x] = blob[x]
  BY <1>1, <1>3, <1>6
<1>8. TypeOK'
  BY <1>1, <1>2, <1>6, TypesAre, TypesAreNext DEF BlobsInv
<1>9. blob'[EmptyList] = blob[EmptyList]
  BY <1>3, <1>7, EmptyListIsBlob
<1>10. Counted'
  <2> SUFFICES ASSUME NEW x \in Real PROVE Exact(x)'
    BY DEF Counted
  <2>1. Exact(x) /\ x \in Blob
    BY DEF BlobsInv, Counted, Real
  <2>2. DoneFor(d, x)
    BY <1>2
  <2>3. Pointers(x)' = Pointers(x) /\ Elsewhere(b)
    BY <1>1, <1>7, SamePointers DEF Elsewhere
  <2>4. /\ IsFiniteSet(Slots(x)') /\ Cardinality(Slots(x)) \in Nat
        /\ Cardinality(Slots(x)') = Cardinality(Slots(x)) - Cardinality(SlotsIn(blob[b], x))
                                      + Cardinality(SlotsIn(blob'[b], x))
    BY <1>3, <1>6, <2>1, <2>3, SlotsStep DEF Exact
  <2>5. Cardinality(SlotsIn(blob[b], x)) = 0 /\ Cardinality(SlotsIn(blob'[b], x)) = 0
    <3>1. blob[b].mem # "live" /\ blob'[b].mem # "live"
      BY <1>4, <1>5, <1>7
    <3> QED BY <3>1, SlotsAre
  <2>6. Cardinality(Slots(x)') = Cardinality(Slots(x))
    BY <2>4, <2>5
  <2>7. Cardinality(Pending("release", x)') = Cardinality(Pending("release", x))
    BY <1>1, <2>2 DEF DoneFor
  <2>8. References(x)' = References(x)
    BY <2>3, <2>6, <2>7 DEF References
  <2>9. CASE x = b
    <3>1. blob'[x].rc = 0 /\ blob'[x].mem = "freed" /\ blob[x].rc = 0 /\ blob[x].mem = "dying"
      BY <1>4, <1>5, <1>7, <2>9
    <3>2. One(d.b, x) = 1
      BY <2>9, OneIs
    <3>3. Cardinality(Pending("free", x)') = 0
      BY <1>1, <2>1, <2>2, <3>1, <3>2 DEF DoneFor, Exact
    <3> QED BY <2>1, <2>2, <2>3, <2>4, <2>8, <3>1, <3>3 DEF Exact, DoneFor
  <2>10. CASE x # b
    <3>1. One(d.b, x) = 0 /\ blob'[x] = blob[x]
      BY <1>7, <2>1, <2>10, OneIs
    <3>2. Cardinality(Pending("free", x)') = Cardinality(Pending("free", x))
      BY <2>2, <3>1 DEF DoneFor
    <3> QED BY <2>1, <2>2, <2>3, <2>4, <2>8, <3>1, <3>2 DEF Exact, DoneFor
  <2> QED BY <2>9, <2>10
<1>11. OpenUnshared'
  BY <1>5, <1>7 DEF BlobsInv, OpenUnshared, Real
<1>12. Kept
  BY <1>4, <1>7 DEF Kept
<1>13. Grown
  BY <1>5, <1>7 DEF Grown, Real
<1>14. OthersStay(t)
  BY <1>1 DEF OthersStay
<1>15. TasksReady(t)'
  BY <1>1, <1>2, <1>12, FewerTasks
<1> QED BY <1>2, <1>8, <1>9, <1>10, <1>11, <1>12, <1>13, <1>14, <1>15, Preserve

\* The count of b goes down; with the last reference b is dying, and e, its elements, are
\* to be released.
Released(b, mem) ==
  /\ \A x \in Blob : /\ blob'[x].elems = blob[x].elems /\ blob'[x].full = blob[x].full
                     /\ x # b => blob'[x] = blob[x]
  /\ blob'[b].rc = blob[b].rc - 1 /\ blob'[b].mem = mem

LEMMA ReleasedIs ==
  ASSUME BlobsInv, NEW b \in Real, blob[b].rc > 0,
         NEW mem \in {"none", "live", "dying", "freed"},
         blob' = [blob EXCEPT ![b].rc = @ - 1, ![b].mem = mem]
  PROVE  Released(b, mem) /\ blob' \in [Blob -> Storage]
<1>1. blob \in [Blob -> Storage] /\ b \in Blob
  BY TypesAre DEF BlobsInv, Real
<1> PICK r : r = [blob[b] EXCEPT !.rc = blob[b].rc - 1, !.mem = mem]
  OBVIOUS
<1>2. blob[b] \in Storage /\ blob[b].rc - 1 \in Nat
  BY <1>1 DEF Storage
<1>3. /\ r \in Storage /\ r.elems = blob[b].elems /\ r.full = blob[b].full
      /\ r.rc = blob[b].rc - 1 /\ r.mem = mem
  BY <1>2 DEF Storage
<1>4. blob' = [blob EXCEPT ![b] = r]
  BY <1>1, <1>2 DEF Storage
<1>5. blob'[b] = r /\ \A x \in Blob \ {b} : blob'[x] = blob[x]
  BY <1>1, <1>4
<1>6. blob' \in [Blob -> Storage]
  BY <1>1, <1>3, <1>4
<1>7. Released(b, mem)
  BY <1>1, <1>3, <1>5 DEF Released
<1> QED BY <1>6, <1>7

\* What a release changes besides the counts and the tasks.
LEMMA ReleaseKeeps ==
  ASSUME BlobsInv, NEW b \in Real, blob[b].mem = "live", NEW mem, Released(b, mem),
         blob[b].rc = 1 => mem = "dying", blob[b].rc # 1 => mem = "live"
  PROVE  blob'[EmptyList] = blob[EmptyList] /\ OpenUnshared' /\ Kept /\ Grown
<1>1. blob'[EmptyList] = blob[EmptyList]
  BY EmptyListIsBlob DEF Released, Real
<1>2. OpenUnshared'
  <2> SUFFICES ASSUME NEW x \in Real, blob'[x].mem = "live", ~ blob'[x].full
               PROVE  blob'[x].rc = 1
    BY DEF OpenUnshared
  <2>1. ~ blob[x].full /\ x \in Blob
    BY DEF Released, Real
  <2>2. CASE x = b
    <3>1. blob[b].rc = 1
      BY <2>1, <2>2 DEF BlobsInv, OpenUnshared
    <3>2. blob'[b].mem = "dying"
      BY <3>1 DEF Released
    <3> QED BY <2>2, <3>2
  <2>3. CASE x # b
    BY <2>1, <2>3 DEF Released, BlobsInv, OpenUnshared
  <2> QED BY <2>2, <2>3
<1>3. Kept
  BY DEF Kept, Released
<1>4. Grown
  <2> SUFFICES ASSUME NEW x \in Real, blob'[x].mem = "live"
               PROVE  blob[x].mem = "live" /\ blob'[x].elems = blob[x].elems
    BY DEF Grown
  <2>1. x \in Blob
    BY DEF Real
  <2> QED BY <2>1 DEF Released
<1> QED BY <1>1, <1>2, <1>3, <1>4

\* A release that is not the last.
LEMMA ReleaseShared ==
  ASSUME BlobsInv, NEW t \in Threads, DoRelease(t), blob[Last(todo[t]).b].rc # 1
  PROVE  BlobsInv'
<1> PICK d : d = Last(todo[t])
  OBVIOUS
<1> PICK s : s = Front(todo[t])
  OBVIOUS
<1> PICK b : b = d.b
  OBVIOUS
<1>1. /\ todo[t] # <<>> /\ d.task = "release" /\ b \notin {Nil, EmptyList}
      /\ NowToDo(t, s) /\ handle' = handle
      /\ blob' = [blob EXCEPT ![b].rc = @ - 1, ![b].mem = @]
  BY DEF DoRelease, Doing, NowToDo
<1>2. /\ d \in Task /\ Len(todo[t]) \in Nat \ {0} /\ d = todo[t][Len(todo[t])]
      /\ \A i \in DOMAIN s : i \in DOMAIN todo[t] /\ s[i] = todo[t][i]
      /\ todo' \in [Threads -> Seq(Task)] /\ todo'[t] = s
      /\ \A u \in Threads \ {t} : todo'[u] = todo[u]
      /\ \A x \in Real : DoneFor(d, x)
  BY <1>1, Finishes
<1>3. b \in Real /\ b \in Blob
  BY <1>1, <1>2 DEF Task, Real
<1>4. blob[b].mem = "live" /\ blob[b].rc > 0
  <2>1. Len(todo[t]) \in DOMAIN todo[t]
    BY <1>2, TypesAre DEF BlobsInv
  <2> QED BY <1>1, <1>2, <1>3, <2>1, TaskIsDue
<1>5. blob' = [blob EXCEPT ![b].rc = @ - 1, ![b].mem = "live"]
  BY <1>1, <1>3, <1>4, TypesAre DEF BlobsInv, Storage
<1>6. Released(b, "live") /\ blob' \in [Blob -> Storage]
  BY <1>3, <1>4, <1>5, ReleasedIs
<1>7. blob'[EmptyList] = blob[EmptyList] /\ OpenUnshared' /\ Kept /\ Grown
  BY <1>3, <1>4, <1>6, ReleaseKeeps
<1>8. TypeOK'
  BY <1>1, <1>2, <1>6, TypesAre, TypesAreNext DEF BlobsInv
<1>9. Counted'
  <2> SUFFICES ASSUME NEW x \in Real PROVE Exact(x)'
    BY DEF Counted
  <2>1. Exact(x) /\ x \in Blob /\ blob[x].rc \in Nat /\ blob[b].rc \in Nat
    BY <1>3, TypesAre DEF BlobsInv, Counted, Real, Storage
  <2>2. DoneFor(d, x)
    BY <1>2
  <2>3. blob'[x].rc = blob[x].rc - One(b, x) /\ blob'[x].mem = blob[x].mem
    <3>1. CASE x = b
      BY <1>4, <1>6, <3>1, OneIs DEF Released
    <3>2. CASE x # b
      <4>1. blob'[x] = blob[x] /\ One(b, x) = 0
        BY <1>6, <2>1, <3>2, OneIs DEF Released
      <4> QED BY <2>1, <4>1
    <3> QED BY <3>1, <3>2
  <2>4. blob'[x].rc > 0 <=> blob[x].rc > 0
    BY <1>4, <2>1, <2>3, OneIs
  <2>5. Pointers(x)' = Pointers(x)
    BY <1>1, SamePointers
  <2>6. Slots(x)' = Slots(x)
    <3>1. \A c \in Blob : blob'[c].elems = blob[c].elems /\ (blob'[c].mem = "live" <=> blob[c].mem = "live")
      BY <1>4, <1>6 DEF Released
    <3> QED BY <3>1, SlotsSame
  <2>7. /\ Cardinality(Pending("release", x)') = Cardinality(Pending("release", x)) - One(b, x)
        /\ Cardinality(Pending("free", x)') = Cardinality(Pending("free", x))
        /\ IsFiniteSet(Pending("release", x)') /\ IsFiniteSet(Pending("free", x)')
    BY <1>1, <2>2 DEF DoneFor
  <2>8. blob'[x].rc = References(x)'
    BY <2>1, <2>3, <2>5, <2>6, <2>7, OneIs, CountsAreNumbers DEF References
  <2> QED BY <2>1, <2>3, <2>4, <2>5, <2>6, <2>7, <2>8 DEF Exact
<1>10. OthersStay(t)
  BY <1>1 DEF OthersStay
<1>11. TasksReady(t)'
  BY <1>1, <1>2, <1>7, FewerTasks
<1> QED BY <1>2, <1>7, <1>8, <1>9, <1>10, <1>11, Preserve

\* The last release: the references of the elements turn into tasks.
LEMMA ReleaseLast ==
  ASSUME BlobsInv, NEW t \in Threads, DoRelease(t), blob[Last(todo[t]).b].rc = 1
  PROVE  BlobsInv'
<1> PICK d : d = Last(todo[t])
  OBVIOUS
<1> PICK q : q = todo[t]
  OBVIOUS
<1> PICK b : b = d.b
  OBVIOUS
<1> PICK e : e = blob[b].elems
  OBVIOUS
<1> PICK s : s = Destroying(q, b, e)
  OBVIOUS
<1>1. /\ q # <<>> /\ d.task = "release" /\ b \notin {Nil, EmptyList}
      /\ NowToDo(t, s) /\ handle' = handle
      /\ blob' = [blob EXCEPT ![b].rc = @ - 1, ![b].mem = "dying"]
  BY DEF DoRelease, Doing, NowToDo, Destroying
<1>2. q \in Seq(Task) /\ todo \in [Threads -> Seq(Task)] /\ blob \in [Blob -> Storage]
  BY TypesAre DEF BlobsInv
<1>3. /\ d \in Task /\ Len(q) \in Nat \ {0} /\ d = q[Len(q)]
  BY <1>1, <1>2, TaskDone
<1>4. b \in Real /\ b \in Blob /\ b \in Blob \ {EmptyList}
  BY <1>1, <1>3 DEF Task, Real
<1>5. blob[b].mem = "live" /\ blob[b].rc > 0
  <2>1. Len(todo[t]) \in DOMAIN todo[t]
    BY <1>2, <1>3
  <2> QED BY <1>1, <1>3, <1>4, <2>1, TaskIsDue
<1>6. e \in Seq(Blob \cup {Nil}) /\ Len(e) \in Nat
  BY <1>2, <1>4 DEF Storage
<1>7. s \in Seq(Task)
  <2>1. q \in Seq(Task) /\ q # <<>> /\ b \in Blob \ {EmptyList} /\ e \in Seq(Blob \cup {Nil})
    BY <1>1, <1>2, <1>4, <1>6
  <2>2. Destroying(q, b, e) \in Seq(Task)
    BY <2>1, DestroyingIs
  <2> QED BY <2>2
<1>8. /\ todo' \in [Threads -> Seq(Task)] /\ todo'[t] = s
      /\ \A u \in Threads \ {t} : todo'[u] = todo[u]
  BY <1>1, <1>2, <1>7 DEF NowToDo
<1>9. Released(b, "dying") /\ blob' \in [Blob -> Storage]
  BY <1>1, <1>4, <1>5, ReleasedIs
<1>10. blob'[EmptyList] = blob[EmptyList] /\ OpenUnshared' /\ Kept /\ Grown
  BY <1>4, <1>5, <1>9, ReleaseKeeps
<1>11. TypeOK'
  BY <1>1, <1>8, <1>9, TypesAre, TypesAreNext DEF BlobsInv
<1>12. Counted'
  <2> SUFFICES ASSUME NEW x \in Real PROVE Exact(x)'
    BY DEF Counted
  <2>1. Exact(x) /\ x \in Blob /\ blob[x].rc \in Nat
    BY <1>2 DEF BlobsInv, Counted, Real, Storage
  <2> PICK o : o = Cardinality(Occurs(e, x))
    OBVIOUS
  <2>2. o \in Nat
    BY <1>6, FiniteOccurs
  <2>3. blob'[x].rc = blob[x].rc - One(b, x)
    <3>1. CASE x = b
      BY <1>9, <3>1, OneIs DEF Released
    <3>2. CASE x # b
      <4>1. blob'[x] = blob[x] /\ One(b, x) = 0
        BY <1>9, <2>1, <3>2, OneIs DEF Released
      <4> QED BY <2>1, <4>1
    <3> QED BY <3>1, <3>2
  <2>4. Pointers(x)' = Pointers(x)
    BY <1>1, SamePointers
  <2>5. IsFiniteSet(Slots(x)') /\ Cardinality(Slots(x)') = Cardinality(Slots(x)) - o
    <3>1. Elsewhere(b)
      BY <1>9 DEF Elsewhere, Released
    <3>2. /\ IsFiniteSet(Slots(x)') /\ Cardinality(Slots(x)) \in Nat
          /\ Cardinality(Slots(x)') = Cardinality(Slots(x)) - Cardinality(SlotsIn(blob[b], x))
                                        + Cardinality(SlotsIn(blob'[b], x))
      BY <1>2, <1>4, <1>9, <2>1, <3>1, SlotsStep DEF Exact
    <3>3. blob'[b].mem # "live"
      BY <1>9 DEF Released
    <3>4. SlotsIn(blob[b], x) = Occurs(e, x) /\ Cardinality(SlotsIn(blob'[b], x)) = 0
      BY <1>5, <3>3, SlotsAre
    <3> QED BY <2>2, <3>2, <3>4
  <2>6. /\ IsFiniteSet(Pending("release", x)')
        /\ Cardinality(Pending("release", x)') =
             Cardinality(Pending("release", x)) - One(b, x) + o
    <3>1. /\ IsFiniteSet(Pending("release", x)')
          /\ Cardinality(Pending("release", x)') =
               Cardinality(Pending("release", x)) - Cardinality(TasksIn(q, "release", x))
                 + Cardinality(TasksIn(s, "release", x))
          /\ Cardinality(Pending("release", x)) \in Nat
          /\ Cardinality(TasksIn(q, "release", x)) \in Nat
      BY <1>1, <1>2, <1>7, <2>1, PendingStep DEF Exact
    <3>2. Cardinality(TasksIn(s, "release", x)) = Cardinality(TasksIn(Front(q), "release", x)) + o
      <4>1. Cardinality(TasksIn(Destroying(q, b, e), "release", x)) =
              Cardinality(TasksIn(Front(q), "release", x)) + Cardinality(Occurs(e, x))
        <5>1. q \in Seq(Task) /\ q # <<>> /\ b \in Blob \ {EmptyList} /\ e \in Seq(Blob \cup {Nil})
          BY <1>1, <1>2, <1>4, <1>6
        <5> QED BY <5>1, DestroyingCounts
      <4> QED BY <4>1
    <3>3. Cardinality(TasksIn(Front(q), "release", x)) =
            Cardinality(TasksIn(q, "release", x)) - (IF d.task = "release" THEN One(d.b, x) ELSE 0)
      BY <1>1, <1>2, TaskDone
    <3>4. One(d.b, x) \in Nat
      BY OneIs
    <3> QED BY <1>1, <2>2, <3>1, <3>2, <3>3, <3>4
  <2>7. /\ IsFiniteSet(Pending("free", x)')
        /\ Cardinality(Pending("free", x)') = Cardinality(Pending("free", x)) + One(b, x)
    <3>1. /\ IsFiniteSet(Pending("free", x)')
          /\ Cardinality(Pending("free", x)') =
               Cardinality(Pending("free", x)) - Cardinality(TasksIn(q, "free", x))
                 + Cardinality(TasksIn(s, "free", x))
          /\ Cardinality(Pending("free", x)) \in Nat
          /\ Cardinality(TasksIn(q, "free", x)) \in Nat
      BY <1>1, <1>2, <1>7, <2>1, PendingStep DEF Exact
    <3>2. Cardinality(TasksIn(s, "free", x)) = Cardinality(TasksIn(Front(q), "free", x)) + One(b, x)
      BY <1>1, <1>2, <1>4, <1>6, DestroyingCounts
    <3>3. Cardinality(TasksIn(Front(q), "free", x)) =
            Cardinality(TasksIn(q, "free", x)) - (IF d.task = "free" THEN One(d.b, x) ELSE 0)
      BY <1>1, <1>2, TaskDone
    <3>4. d.task # "free" /\ One(b, x) \in Nat
      BY <1>1, OneIs
    <3> QED BY <3>1, <3>2, <3>3, <3>4
  <2>8. blob'[x].rc = References(x)'
    BY <2>1, <2>2, <2>3, <2>4, <2>5, <2>6, OneIs, CountsAreNumbers DEF References
  <2>9. CASE x = b
    <3>1. blob'[x].mem = "dying" /\ blob'[x].rc = 0 /\ blob[x].mem = "live" /\ One(b, x) = 1
      BY <1>5, <1>9, <2>9, OneIs DEF Released
    <3>2. Cardinality(Pending("free", x)') = 1
      BY <2>1, <2>7, <3>1 DEF Exact
    <3> QED BY <2>1, <2>4, <2>5, <2>6, <2>7, <2>8, <3>1, <3>2 DEF Exact
  <2>10. CASE x # b
    <3>1. blob'[x] = blob[x] /\ One(b, x) = 0
      BY <1>9, <2>1, <2>10, OneIs DEF Released
    <3>2. Cardinality(Pending("free", x)') = Cardinality(Pending("free", x))
      BY <2>1, <2>7, <3>1, CountsAreNumbers
    <3> QED BY <2>1, <2>4, <2>5, <2>6, <2>7, <2>8, <3>1, <3>2 DEF Exact
  <2> QED BY <2>9, <2>10
<1>13. OthersStay(t)
  BY <1>1 DEF OthersStay
<1>14. TasksReady(t)'
  <2>1. \A i \in DOMAIN s : s[i].task = "copy" => i \in DOMAIN q /\ s[i] = q[i]
    <3> SUFFICES ASSUME NEW i \in DOMAIN s, s[i].task = "copy"
                 PROVE  i \in DOMAIN q /\ s[i] = q[i]
      OBVIOUS
    <3>1. i \in DOMAIN Destroying(q, b, e) /\ Destroying(q, b, e)[i].task = "copy"
      OBVIOUS
    <3>2. q \in Seq(Task) /\ q # <<>> /\ b \in Blob \ {EmptyList} /\ e \in Seq(Blob \cup {Nil})
      BY <1>1, <1>2, <1>4, <1>6
    <3>3. i \in DOMAIN q /\ Destroying(q, b, e)[i] = q[i]
      BY <3>1, <3>2, DestroyingIsNoCopy
    <3> QED BY <3>3
  <2> QED BY <1>1, <1>8, <1>10, <2>1, FewerTasks
<1> QED BY <1>8, <1>10, <1>11, <1>12, <1>13, <1>14, Preserve

(***************************************************************************)
(* The theorems                                                            *)
(***************************************************************************)
LEMMA OperationInv ==
  ASSUME BlobsInv, NEW h \in Handles, Operation(h)
  PROVE  BlobsInv'
<1>1. CASE \E type \in Types, n \in 0 .. MaxElems :
             \E items \in [1 .. n -> MyHandles(h) \cup {AScalar}] : Construct(h, type, items)
  BY <1>1, ConstructStep
<1>2. CASE \E type \in Types : ConstructOpen(h, type)
  BY <1>2, ConstructOpenStep
<1>3. CASE ConstructNil(h)
  BY <1>3, ConstructNilStep
<1>4. CASE close(h)
  BY <1>4, CloseStep
<1>5. CASE Destroy(h)
  BY <1>5, DestroyStep
<1>6. ASSUME NEW g \in Handles, CopyConstruct(h, g) PROVE BlobsInv'
  BY <1>6, CopyConstructStep
<1>7. ASSUME NEW g \in Handles, MoveConstruct(h, g) PROVE BlobsInv'
  BY <1>7, MoveConstructStep
<1>8. ASSUME NEW g \in Handles, push_back(h, g) PROVE BlobsInv'
  BY <1>8, PushBackStep
<1>9. ASSUME NEW g \in Handles, insert(h, g) PROVE BlobsInv'
  BY <1>9, InsertStep
<1>10. ASSUME NEW g \in Handles, MoveAssign(h, g) PROVE BlobsInv'
  BY <1>10, MoveAssignStep
<1>11. ASSUME NEW g \in Handles, AssignTuple(h, g) PROVE BlobsInv'
  BY <1>11, AssignTupleStep
<1>12. ASSUME NEW g \in Handles, NEW i \in 0 .. MaxElems, Assign(h, g, i) PROVE BlobsInv'
  BY <1>12, AssignStep
<1>13. ASSUME NEW g \in Handles, NEW i \in 0 .. MaxElems, Update(h, g, i) PROVE BlobsInv'
  BY <1>13, UpdateStep
<1> QED BY <1>1, <1>2, <1>3, <1>4, <1>5, <1>6, <1>7, <1>8, <1>9, <1>10, <1>11, <1>12, <1>13
        DEF Operation

LEMMA NextInv == BlobsInv /\ [Next]_vars => BlobsInv'
<1> SUFFICES ASSUME BlobsInv, [Next]_vars PROVE BlobsInv'
  OBVIOUS
<1>1. ASSUME NEW h \in Handles, Operation(h) PROVE BlobsInv'
  BY <1>1, OperationInv
<1>2. ASSUME NEW t \in Threads, SkipRelease(t) PROVE BlobsInv'
  BY <1>2, SkipReleaseStep
<1>3. ASSUME NEW t \in Threads, DoRelease(t) PROVE BlobsInv'
  BY <1>3, ReleaseShared, ReleaseLast
<1>4. ASSUME NEW t \in Threads, DoFree(t) PROVE BlobsInv'
  BY <1>4, DoFreeStep
<1>5. ASSUME NEW t \in Threads, DoCopy(t) PROVE BlobsInv'
  BY <1>5, DoCopyStep
<1>6. CASE UNCHANGED vars
  <2>1. blob' = blob /\ handle' = handle /\ todo' = todo
    BY <1>6 DEF vars
  <2>2. TypeOK' /\ EmptyKept' /\ OpenUnshared' /\ ElementsComplete'
    BY <2>1 DEF BlobsInv, TypeOK, EmptyKept, OpenUnshared, ElementsComplete
  <2>3. Counted'
    <3> SUFFICES ASSUME NEW x \in Real PROVE Exact(x)'
      BY DEF Counted
    <3>1. /\ Exact(x) /\ Pointers(x)' = Pointers(x) /\ Slots(x)' = Slots(x)
          /\ Pending("release", x)' = Pending("release", x)
          /\ Pending("free", x)' = Pending("free", x)
      BY <2>1, SamePointers, SlotsSame, SameTasks DEF BlobsInv, Counted
    <3>2. References(x)' = References(x)
      BY <3>1 DEF References
    <3> QED BY <2>1, <3>1, <3>2 DEF Exact
  <2>4. Copies'
    <3> SUFFICES ASSUME NEW t \in Threads PROVE TasksReady(t)'
      BY DEF Copies
    <3>1. Kept
      BY <2>1 DEF Kept
    <3> QED BY <2>1, <3>1, FewerTasks
  <2> QED BY <2>2, <2>3, <2>4 DEF BlobsInv
<1> QED BY <1>1, <1>2, <1>3, <1>4, <1>5, <1>6 DEF Next

(* The counts are exact, what is open is not shared, and a copy that an    *)
(* assignment has still to make finds its source alive, in every state of  *)
(* the constructors, assignments and destructors of terms.                 *)
THEOREM BlobsInvCorrect == Spec => []BlobsInv
BY InitInv, NextInv, PTL DEF Spec

(* The blobs, the terms and the tasks of the threads are of their types.   *)
THEOREM TypeCorrect == Spec => []TypeOK
<1>1. BlobsInv => TypeOK
  BY DEF BlobsInv
<1> QED BY <1>1, BlobsInvCorrect, PTL

(* The count of a blob is the number of terms, elements and releases under *)
(* way that point to it, it is freed once and by the thread that brought   *)
(* its count to zero, and list::empty_list() is never freed.               *)
THEOREM RefCountExactCorrect == Spec => []RefCountExact
<1>1. ASSUME BlobsInv PROVE RefCountExact
  <2>1. blob[EmptyList].mem = "live" /\ blob[EmptyList].rc > 0
    BY <1>1 DEF BlobsInv, EmptyKept
  <2>2. ASSUME NEW b \in Blob \ {EmptyList}
        PROVE  /\ blob[b].rc = References(b)
               /\ (blob[b].mem = "live") = (blob[b].rc > 0)
               /\ Cardinality(Pending("free", b)) = IF blob[b].mem = "dying" THEN 1 ELSE 0
    <3>1. Exact(b)
      BY <1>1 DEF BlobsInv, Counted, Real
    <3> QED BY <3>1 DEF Exact
  <2> QED BY <2>1, <2>2 DEF RefCountExact
<1> QED BY <1>1, BlobsInvCorrect, PTL
=============================================================================
