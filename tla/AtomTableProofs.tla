---------------------------- MODULE AtomTableProofs ----------------------------
(***************************************************************************)
(* Proofs about AtomTable, for any number of threads and names and any     *)
(* capacity: TableInv is an inductive invariant, and from it follows that  *)
(* the table implements Interning.                                         *)
(***************************************************************************)
EXTENDS AtomTable, SequenceTheorems, TLAPS

Atom == Names \cup {EmptyAtom}

\* The constructor of the atom table establishes the invariant: only the empty
\* atom is stored, and nobody holds the lock.
LEMMA TableInvInit == Init => TableInv
<1> SUFFICES ASSUME Init PROVE TableInv
  OBVIOUS
<1> USE AtomTableAssumption DEF Init
<1>1. atoms \in Seq(Names \cup {EmptyAtom}) /\ Len(atoms) = 1 /\ atoms[1] = EmptyAtom
  OBVIOUS
<1>2. TypeOK
  BY <1>1 DEF TypeOK, Steps
<1>3. Unique /\ AnswersRight /\ IndexRight /\ IndexComplete
  BY <1>1 DEF Unique, AnswersRight, IndexRight, IndexComplete
<1>4. LockRight /\ HolderRight
  BY DEF LockRight, HolderRight, Locked
<1> QED
  BY <1>1, <1>2, <1>3, <1>4 DEF TableInv

\* A thread that starts a lookup() leaves the table alone.
LEMMA LookupStep ==
  ASSUME TableInv, NEW t \in Threads, NEW a \in Names \cup {EmptyAtom}, lookup(t, a)
  PROVE  TableInv'
<1> USE AtomTableAssumption DEF lookup
<1>1. TypeOK'
  BY DEF TableInv, TypeOK, Steps
<1>2. Unique' /\ AnswersRight' /\ IndexRight'
  BY DEF TableInv, Unique, AnswersRight, IndexRight
<1>3. LockRight' /\ HolderRight'
  BY DEF TableInv, TypeOK, LockRight, HolderRight, Locked
<1>4. IndexComplete'
  BY DEF TableInv, TypeOK, IndexComplete
<1> QED
  BY <1>1, <1>2, <1>3, <1>4 DEF TableInv

\* The unlocked search answers only what IndexRight says is stored.
LEMMA TryStep ==
  ASSUME TableInv, NEW t \in Threads, try_lookup(t)
  PROVE  TableInv'
<1> USE AtomTableAssumption DEF try_lookup, Returns
<1>1. TypeOK'
  <2>1. pc' \in [Threads -> Steps]
    BY DEF TableInv, TypeOK, Steps
  <2>2. answered' \subseteq (Names \cup {EmptyAtom}) \X (0..(Capacity - 1))
    <3>1. \A a \in Names : index[a] \in 0..(Capacity - 1)
      BY DEF TableInv, TypeOK
    <3>2. 0 \in 0..(Capacity - 1)
      OBVIOUS
    <3>3. \/ answered' = answered
          \/ \E k \in 0..(Capacity - 1) : answered' = answered \cup {<<arg[t], k>>}
      BY <3>1, <3>2
    <3> QED
      BY <3>3 DEF TableInv, TypeOK
  <2> QED
    BY <2>1, <2>2 DEF TableInv, TypeOK
<1>2. Unique' /\ IndexRight'
  BY DEF TableInv, Unique, IndexRight
<1>3. AnswersRight'
  <2>1. AnswersRight /\ IndexRight /\ TypeOK /\ atoms[1] = EmptyAtom
    BY DEF TableInv
  <2>2. UNCHANGED <<atoms, index>>
    OBVIOUS
  <2>3. CASE answered' = answered
    BY <2>1, <2>2, <2>3 DEF AnswersRight
  <2>4. CASE arg[t] = EmptyAtom /\ answered' = answered \cup {<<arg[t], 0>>}
    BY <2>1, <2>2, <2>4 DEF AnswersRight, TypeOK
  <2>5. CASE /\ arg[t] \in Names /\ index[arg[t]] > 0
             /\ answered' = answered \cup {<<arg[t], index[arg[t]]>>}
    BY <2>1, <2>2, <2>5 DEF AnswersRight, IndexRight
  <2> QED
    BY <2>3, <2>4, <2>5
<1>4. LockRight' /\ HolderRight'
  BY DEF TableInv, TypeOK, LockRight, HolderRight, Locked
<1>5. IndexComplete'
  BY DEF TableInv, TypeOK, IndexComplete
<1> QED
  BY <1>1, <1>2, <1>3, <1>4, <1>5 DEF TableInv

\* Taking the lock.
LEMMA AcquireStep ==
  ASSUME TableInv, NEW t \in Threads, acquire(t)
  PROVE  TableInv'
<1> USE AtomTableAssumption DEF acquire
<1>1. TypeOK'
  BY DEF TableInv, TypeOK, Steps
<1>2. Unique' /\ AnswersRight' /\ IndexRight'
  BY DEF TableInv, Unique, AnswersRight, IndexRight
<1>3. LockRight' /\ HolderRight'
  BY DEF TableInv, TypeOK, LockRight, HolderRight, Locked
<1>4. IndexComplete'
  BY DEF TableInv, TypeOK, IndexComplete
<1> QED
  BY <1>1, <1>2, <1>3, <1>4 DEF TableInv

\* The locked search: it answers, or remembers the place of the new name, or
\* refuses it.
LEMMA FindStep ==
  ASSUME TableInv, NEW t \in Threads, find(t)
  PROVE  TableInv'
<1> USE AtomTableAssumption DEF find, Returns
<1>0. arg[t] \in Names /\ lock = t
  BY DEF TableInv, HolderRight, LockRight, Locked
<1>1. TypeOK'
  <2>1. /\ pc' \in [Threads -> Steps]
        /\ lock' \in Threads \cup {NoThread}
        /\ refused' \subseteq Names
    BY <1>0 DEF TableInv, TypeOK, Steps
  <2>2. n' \in [Threads -> 0..(Capacity - 1)]
    BY DEF TableInv, TypeOK
  <2>3. answered' \subseteq (Names \cup {EmptyAtom}) \X (0..(Capacity - 1))
    <3>1. index[arg[t]] \in 0..(Capacity - 1)
      BY <1>0 DEF TableInv, TypeOK
    <3>2. \/ answered' = answered
          \/ answered' = answered \cup {<<arg[t], index[arg[t]]>>}
      OBVIOUS
    <3> QED
      BY <1>0, <3>1, <3>2 DEF TableInv, TypeOK
  <2> QED
    BY <2>1, <2>2, <2>3 DEF TableInv, TypeOK
<1>2. Unique' /\ IndexRight'
  BY DEF TableInv, Unique, IndexRight
<1>3. AnswersRight'
  BY <1>0 DEF TableInv, AnswersRight, IndexRight
<1>4. LockRight'
  BY <1>0 DEF TableInv, TypeOK, LockRight, Locked
<1>5. HolderRight'
  BY <1>0 DEF TableInv, TypeOK, HolderRight, Locked
<1>6. IndexComplete'
  BY DEF TableInv, TypeOK, IndexComplete
<1> QED
  BY <1>1, <1>2, <1>3, <1>4, <1>5, <1>6 DEF TableInv

\* A name that the index does not give is not stored: this is what the second
\* search is for.
LEMMA AbsentName ==
  ASSUME TableInv, NEW t \in Threads, pc[t] \in Locked \ {"index"}, index[arg[t]] = 0
  PROVE  \A i \in 1..Len(atoms) : atoms[i] # arg[t]
<1>1. arg[t] \in Names /\ lock = t
  BY DEF TableInv, HolderRight, LockRight, Locked
<1>2. \A u \in Threads : pc[u] # "index"
  BY <1>1 DEF TableInv, LockRight, Locked
<1>3. \A i \in 2..Len(atoms) : index[atoms[i]] = i - 1
  BY <1>2 DEF TableInv, IndexComplete
<1>4. atoms[1] # arg[t]
  BY <1>1, AtomTableAssumption DEF TableInv
<1> QED
  BY <1>1, <1>3, <1>4 DEF TableInv, TypeOK

\* Storing the name: it goes to the end of the table and was not there before.
LEMMA PushStep ==
  ASSUME TableInv, NEW t \in Threads, push_back(t)
  PROVE  TableInv'
<1> USE AtomTableAssumption DEF push_back
<1>0. /\ arg[t] \in Names /\ lock = t
      /\ index[arg[t]] = 0 /\ n[t] = Len(atoms) /\ n[t] < Capacity
      /\ atoms \in Seq(Atom) /\ Len(atoms) \in Nat \ {0}
  BY DEF TableInv, HolderRight, LockRight, Locked, TypeOK, Atom
<1>1. /\ atoms' \in Seq(Atom) /\ Len(atoms') = Len(atoms) + 1
      /\ atoms'[Len(atoms')] = arg[t]
      /\ \A i \in 1..Len(atoms) : atoms'[i] = atoms[i]
  BY <1>0 DEF Atom
<1>2. \A i \in 1..Len(atoms) : atoms[i] # arg[t]
  BY <1>0, AbsentName DEF Locked
<1>3. TypeOK'
  BY <1>0, <1>1 DEF TableInv, TypeOK, Steps, Atom
<1>4. Unique'
  BY <1>0, <1>1, <1>2 DEF TableInv, Unique
<1>5. AnswersRight'
  <2> SUFFICES ASSUME NEW r \in answered
               PROVE  r[2] < Len(atoms') /\ atoms'[r[2] + 1] = r[1]
    BY DEF AnswersRight
  <2>1. r[2] \in Nat /\ r[2] < Len(atoms) /\ atoms[r[2] + 1] = r[1]
    BY DEF TableInv, AnswersRight, TypeOK
  <2> QED
    BY <2>1, <1>0, <1>1
<1>6. IndexRight'
  BY <1>0, <1>1 DEF TableInv, IndexRight, TypeOK
<1>7. LockRight'
  BY <1>0 DEF TableInv, TypeOK, LockRight, Locked
<1>8. HolderRight'
  <2>1. \A u \in Threads \ {t} : pc[u] \notin Locked
    BY <1>0 DEF TableInv, LockRight
  <2> QED
    BY <1>0, <1>1, <2>1 DEF TableInv, TypeOK, HolderRight, Locked
<1>9. IndexComplete'
  <2>1. \A i \in 2..Len(atoms) : index[atoms[i]] = i - 1
    BY <1>0 DEF TableInv, IndexComplete, LockRight, Locked
  <2>2. pc'[t] = "index"
    BY DEF TableInv, TypeOK
  <2> QED
    BY <2>1, <2>2, <1>0, <1>1 DEF IndexComplete
<1> QED
  BY <1>0, <1>1, <1>3, <1>4, <1>5, <1>6, <1>7, <1>8, <1>9 DEF TableInv

\* Publishing the number in the index, and giving up the lock.
LEMMA IndexStep ==
  ASSUME TableInv, NEW t \in Threads, set_index(t)
  PROVE  TableInv'
<1> USE AtomTableAssumption DEF set_index, Returns
<1>0. /\ arg[t] \in Names /\ lock = t
      /\ n[t] = Len(atoms) - 1 /\ atoms[Len(atoms)] = arg[t] /\ n[t] > 0
      /\ n[t] \in Nat /\ Len(atoms) \in Nat
      /\ index \in [Names -> 0..(Capacity - 1)]
  BY DEF TableInv, HolderRight, LockRight, Locked, TypeOK
<1>1. TypeOK'
  BY <1>0 DEF TableInv, TypeOK, Steps
<1>2. Unique'
  BY DEF TableInv, Unique
<1>3. AnswersRight'
  BY <1>0 DEF TableInv, AnswersRight
<1>4. IndexRight'
  BY <1>0 DEF TableInv, IndexRight
<1>5. LockRight'
  BY <1>0 DEF TableInv, TypeOK, LockRight, Locked
<1>6. HolderRight'
  <2>1. \A u \in Threads \ {t} : pc[u] \notin Locked
    BY <1>0 DEF TableInv, LockRight
  <2> QED
    BY <1>0, <2>1 DEF TableInv, TypeOK, HolderRight, Locked
<1>7. IndexComplete'
  <2> SUFFICES ASSUME NEW i \in 2..Len(atoms)
               PROVE  index'[atoms[i]] = i - 1
    BY DEF IndexComplete
  <2>1. CASE i = Len(atoms)
    BY <1>0, <2>1
  <2>2. CASE i # Len(atoms)
    <3>1. index[atoms[i]] = i - 1
      BY <2>2 DEF TableInv, IndexComplete
    <3>2. atoms[i] # arg[t]
      BY <1>0, <2>2 DEF TableInv, Unique
    <3> QED
      BY <1>0, <3>1, <3>2
  <2> QED
    BY <2>1, <2>2
<1> QED
  BY <1>1, <1>2, <1>3, <1>4, <1>5, <1>6, <1>7 DEF TableInv

\* Every step of every thread preserves the invariant of the atom table.
LEMMA TableInvStep == TableInv /\ [Next]_vars => TableInv'
<1> SUFFICES ASSUME TableInv, [Next]_vars PROVE TableInv'
  OBVIOUS
<1>1. ASSUME NEW t \in Threads, NEW a \in Names \cup {EmptyAtom}, lookup(t, a)
      PROVE  TableInv'
  BY <1>1, LookupStep
<1>2. ASSUME NEW t \in Threads, Step(t) PROVE TableInv'
  BY <1>2, TryStep, AcquireStep, FindStep, PushStep, IndexStep DEF Step
<1>3. CASE UNCHANGED vars
  BY <1>3 DEF vars, TableInv, TypeOK, Unique, AnswersRight, IndexRight, LockRight,
     HolderRight, IndexComplete
<1> QED
  BY <1>1, <1>2, <1>3 DEF Next

\* The invariant holds in every reachable state: the unlocked search of
\* basic_atom_table::lookup never makes the table or the index wrong.
THEOREM TableInvCorrect == Spec => []TableInv
<1> QED
  BY TableInvInit, TableInvStep, PTL DEF Spec

\* An atom is its number: no name is ever stored twice, for any number of
\* threads calling lookup().
THEOREM UniqueCorrect == Spec => []Unique
<1>1. TableInv => Unique
  BY DEF TableInv
<1> QED
  BY TableInvCorrect, <1>1, PTL

\* Every number lookup() has given for a name gives that name back in get().
THEOREM AnswersCorrect == Spec => []AnswersRight
<1>1. TableInv => AnswersRight
  BY DEF TableInv
<1> QED
  BY TableInvCorrect, <1>1, PTL

\* What lookup() does, step by step and interleaved, is what an atomic table
\* would do: the unlocked search, the locked one and the two writes of an
\* insertion are steps of Interning or change nothing it shows.
THEOREM InterningCorrect == Spec => ImplementsInterning
<1> USE DEF Promise!internVars, Promise!Known
<1>1. Init => Promise!InternInit
  BY DEF Init, Promise!InternInit
<1>2. ASSUME TableInv, [Next]_vars
      PROVE  [Promise!InternNext]_(Promise!internVars)
  <2> USE <1>2, AtomTableAssumption
  <2>1. ASSUME NEW t \in Threads, NEW k \in 0..(Capacity - 1),
               NEW a \in Names \cup {EmptyAtom},
               k < Len(atoms), atoms[k + 1] = a,
               answered' = answered \cup {<<a, k>>}, UNCHANGED <<atoms, refused>>
        PROVE  Promise!InternNext
    <3>1. Promise!Answer(a, k)
      BY <2>1 DEF Promise!Answer
    <3> QED
      BY <3>1 DEF Promise!InternNext
  <2>2. ASSUME NEW t \in Threads, NEW a \in Names \cup {EmptyAtom}, lookup(t, a)
        PROVE  UNCHANGED Promise!internVars
    BY <2>2 DEF lookup
  <2>3. ASSUME NEW t \in Threads, try_lookup(t)
        PROVE  [Promise!InternNext]_(Promise!internVars)
    <3>1. UNCHANGED <<atoms, refused>>
      BY <2>3 DEF try_lookup
    <3>2. CASE answered' = answered
      BY <3>1, <3>2
    <3>3. CASE arg[t] = EmptyAtom /\ answered' = answered \cup {<<arg[t], 0>>}
      <4>1. 0 \in 0..(Capacity - 1) /\ 0 < Len(atoms) /\ atoms[0 + 1] = EmptyAtom
        BY DEF TableInv, TypeOK
      <4> QED
        BY <2>1, <3>1, <3>3, <4>1
    <3>4. CASE /\ arg[t] \in Names /\ index[arg[t]] > 0
               /\ answered' = answered \cup {<<arg[t], index[arg[t]]>>}
      <4>1. /\ index[arg[t]] \in 0..(Capacity - 1)
            /\ index[arg[t]] < Len(atoms) /\ atoms[index[arg[t]] + 1] = arg[t]
        BY <3>4 DEF TableInv, TypeOK, IndexRight
      <4> QED
        BY <2>1, <3>1, <3>4, <4>1
    <3> QED
      BY <2>3, <3>2, <3>3, <3>4 DEF try_lookup, Returns
  <2>4. ASSUME NEW t \in Threads, acquire(t)
        PROVE  UNCHANGED Promise!internVars
    BY <2>4 DEF acquire
  <2>5. ASSUME NEW t \in Threads, find(t)
        PROVE  [Promise!InternNext]_(Promise!internVars)
    <3>0. arg[t] \in Names /\ UNCHANGED atoms
      BY <2>5 DEF find, TableInv, HolderRight, Locked
    <3>1. CASE /\ index[arg[t]] > 0 /\ UNCHANGED refused
               /\ answered' = answered \cup {<<arg[t], index[arg[t]]>>}
      <4>1. /\ index[arg[t]] \in 0..(Capacity - 1)
            /\ index[arg[t]] < Len(atoms) /\ atoms[index[arg[t]] + 1] = arg[t]
        BY <3>0, <3>1 DEF TableInv, TypeOK, IndexRight
      <4> QED
        BY <2>1, <3>0, <3>1, <4>1
    <3>2. CASE UNCHANGED <<answered, refused>>
      BY <3>0, <3>2
    <3>3. CASE /\ index[arg[t]] = 0 /\ Len(atoms) = Capacity /\ UNCHANGED answered
               /\ refused' = refused \cup {arg[t]}
      <4>1. pc[t] \in Locked \ {"index"}
        BY <2>5 DEF find, Locked
      <4>2. Promise!Refuse(arg[t])
        BY <3>0, <3>3, <4>1, AbsentName DEF Promise!Refuse
      <4> QED
        BY <3>0, <4>2 DEF Promise!InternNext
    <3> QED
      BY <2>5, <3>1, <3>2, <3>3 DEF find, Returns
  <2>6. ASSUME NEW t \in Threads, push_back(t)
        PROVE  Promise!InternNext
    <3>1. /\ pc[t] \in Locked \ {"index"} /\ arg[t] \in Names
          /\ index[arg[t]] = 0 /\ Len(atoms) < Capacity
      BY <2>6 DEF push_back, Locked, TableInv, HolderRight
    <3>2. Promise!Add(arg[t])
      BY <2>6, <3>1, AbsentName DEF push_back, Promise!Add
    <3> QED
      BY <3>1, <3>2 DEF Promise!InternNext
  <2>7. ASSUME NEW t \in Threads, set_index(t)
        PROVE  Promise!InternNext
    <3>1. /\ arg[t] \in Names /\ n[t] = Len(atoms) - 1 /\ atoms[Len(atoms)] = arg[t]
          /\ n[t] \in 0..(Capacity - 1) /\ Len(atoms) \in Nat
      BY <2>7 DEF set_index, TableInv, HolderRight, Locked, TypeOK
    <3>2. n[t] < Len(atoms) /\ atoms[n[t] + 1] = arg[t]
      BY <3>1
    <3> QED
      BY <2>1, <2>7, <3>1, <3>2 DEF set_index, Returns
  <2>8. CASE UNCHANGED vars
    BY <2>8 DEF vars
  <2> QED
    BY <2>2, <2>3, <2>4, <2>5, <2>6, <2>7, <2>8 DEF Next, Step
<1> QED
  BY <1>1, <1>2, TableInvCorrect, PTL DEF Spec, ImplementsInterning, Promise!InternSpec
=============================================================================
