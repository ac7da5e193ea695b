------------------------------- MODULE AtomTable -------------------------------
(***************************************************************************)
(* util::basic_atom_table, used by any number of threads.                  *)
(*                                                                         *)
(* lookup() first looks for the name without the lock, then again under    *)
(* it, and only then appends it: a vector of names that never moves        *)
(* (reserve in the constructor) and an index from names to places in it.   *)
(* The unlocked search races with the insertions of other threads; it may  *)
(* miss a name that is there.  find_value gives 0, the number of the empty *)
(* atom, for a name that it does not find, so a name whose number is not   *)
(* yet assigned looks like one that is absent.                             *)
(***************************************************************************)
EXTENDS Naturals, Sequences

CONSTANTS
  Threads,
  NoThread,
  Names,      \* names an atom may have, the empty one aside
  TooLong,    \* names longer than MAXATOMLEN
  EmptyAtom,
  Capacity    \* m_atoms.capacity(): EI_ATOM_TABLE_SIZE

ASSUME AtomTableAssumption ==
  /\ NoThread \notin Threads
  /\ EmptyAtom \notin Names
  /\ Capacity \in Nat \ {0}

VARIABLES
  atoms,      \* m_atoms; atom number n is at place n + 1
  index,      \* m_index: what find_value gives for a name
  lock,       \* the holder of m_lock
  pc,         \* where each thread is in lookup()
  arg,        \* a_name of its call
  n,          \* its local n
  answered,   \* history: pairs of a name and the number lookup() gave for it
  refused     \* history: names refused with "Atom hash table is full!"

vars == <<atoms, index, lock, pc, arg, n, answered, refused>>

Steps == {"idle", "try_lookup", "lock", "find", "push_back", "index"}
Locked == {"find", "push_back", "index"}
-----------------------------------------------------------------------------
Init ==
  /\ atoms = <<EmptyAtom>>
  /\ index = [a \in Names |-> 0]
  /\ lock = NoThread
  /\ pc = [t \in Threads |-> "idle"]
  /\ arg = [t \in Threads |-> EmptyAtom]
  /\ n = [t \in Threads |-> 0]
  /\ answered = {}
  /\ refused = {}

\* The call returns number k for its name.
Returns(t, k) ==
  /\ answered' = answered \cup {<<arg[t], k>>}
  /\ pc' = [pc EXCEPT ![t] = "idle"]

\* A thread calls lookup(a).
lookup(t, a) ==
  /\ pc[t] = "idle"
  /\ pc' = [pc EXCEPT ![t] = "try_lookup"]
  /\ arg' = [arg EXCEPT ![t] = a]
  /\ UNCHANGED <<atoms, index, lock, n, answered, refused>>

\* try_lookup: the empty atom is number 0, a name that is too long throws
\* err_bad_argument, and the index is searched without the lock.
try_lookup(t) ==
  /\ pc[t] = "try_lookup"
  /\ \/ /\ arg[t] = EmptyAtom
        /\ Returns(t, 0)
     \/ /\ arg[t] \in TooLong
        /\ pc' = [pc EXCEPT ![t] = "idle"]
        /\ UNCHANGED answered
     \/ /\ arg[t] \in Names \ TooLong
        /\ index[arg[t]] > 0
        /\ Returns(t, index[arg[t]])
     \/ /\ arg[t] \in Names \ TooLong
        /\ pc' = [pc EXCEPT ![t] = "lock"]
        /\ UNCHANGED answered
  /\ UNCHANGED <<atoms, index, lock, arg, n, refused>>

\* lock_guard takes m_lock.
acquire(t) ==
  /\ pc[t] = "lock"
  /\ lock = NoThread
  /\ lock' = t
  /\ pc' = [pc EXCEPT ![t] = "find"]
  /\ UNCHANGED <<atoms, index, arg, n, answered, refused>>

\* Mutant: the second search is left out.
mut_find(t) ==
  /\ pc[t] = "find"
  /\ \/ /\ Len(atoms) < Capacity
        /\ n' = [n EXCEPT ![t] = Len(atoms)]
        /\ pc' = [pc EXCEPT ![t] = "push_back"]
        /\ UNCHANGED <<lock, answered, refused>>
     \/ /\ Len(atoms) = Capacity
        /\ refused' = refused \cup {arg[t]}
        /\ pc' = [pc EXCEPT ![t] = "idle"]
        /\ lock' = NoThread
        /\ UNCHANGED <<n, answered>>
  /\ UNCHANGED <<atoms, index, arg>>

\* Mutant: the lock is kept when the table is full.
mut_full_locked(t) ==
  /\ pc[t] = "find"
  /\ \/ /\ index[arg[t]] > 0
        /\ Returns(t, index[arg[t]])
        /\ lock' = NoThread
        /\ UNCHANGED <<n, refused>>
     \/ /\ index[arg[t]] = 0
        /\ Len(atoms) < Capacity
        /\ n' = [n EXCEPT ![t] = Len(atoms)]
        /\ pc' = [pc EXCEPT ![t] = "push_back"]
        /\ UNCHANGED <<lock, answered, refused>>
     \/ /\ index[arg[t]] = 0
        /\ Len(atoms) = Capacity
        /\ refused' = refused \cup {arg[t]}
        /\ pc' = [pc EXCEPT ![t] = "idle"]
        /\ UNCHANGED <<lock, n, answered>>
  /\ UNCHANGED <<atoms, index, arg>>

\* Under the lock: the second search, and the test for a full table.
find(t) ==
  /\ pc[t] = "find"
  /\ \/ /\ index[arg[t]] > 0
        /\ Returns(t, index[arg[t]])
        /\ lock' = NoThread
        /\ UNCHANGED <<n, refused>>
     \/ /\ index[arg[t]] = 0
        /\ Len(atoms) < Capacity
        /\ n' = [n EXCEPT ![t] = Len(atoms)]
        /\ pc' = [pc EXCEPT ![t] = "push_back"]
        /\ UNCHANGED <<lock, answered, refused>>
     \/ /\ index[arg[t]] = 0
        /\ Len(atoms) = Capacity
        /\ refused' = refused \cup {arg[t]}
        /\ pc' = [pc EXCEPT ![t] = "idle"]
        /\ lock' = NoThread
        /\ UNCHANGED <<n, answered>>
  /\ UNCHANGED <<atoms, index, arg>>

\* Mutant: the index is written before the name is stored.
mut_push_back(t) ==
  /\ pc[t] = "push_back"
  /\ index' = [index EXCEPT ![arg[t]] = n[t]]
  /\ pc' = [pc EXCEPT ![t] = "index"]
  /\ UNCHANGED <<atoms, lock, arg, n, answered, refused>>

push_back(t) ==
  /\ pc[t] = "push_back"
  /\ atoms' = Append(atoms, arg[t])
  /\ pc' = [pc EXCEPT ![t] = "index"]
  /\ UNCHANGED <<index, lock, arg, n, answered, refused>>

\* The number is stored in the index; the guard unlocks and n is returned.
set_index(t) ==
  /\ pc[t] = "index"
  /\ index' = [index EXCEPT ![arg[t]] = n[t]]
  /\ lock' = NoThread
  /\ Returns(t, n[t])
  /\ UNCHANGED <<atoms, arg, n, refused>>

Step(t) ==
  \/ try_lookup(t)
  \/ acquire(t)
  \/ find(t)
  \/ push_back(t)
  \/ set_index(t)

Next == \E t \in Threads :
          \/ \E a \in Names \cup {EmptyAtom} : lookup(t, a)
          \/ Step(t)

Spec == Init /\ [][Next]_vars

\* A thread in the middle of a lookup() goes on.
FairSpec == Spec /\ \A t \in Threads : WF_vars(Step(t))
-----------------------------------------------------------------------------
TypeOK ==
  /\ atoms \in Seq(Names \cup {EmptyAtom})
  /\ Len(atoms) \in 1..Capacity
  /\ index \in [Names -> 0..(Capacity - 1)]
  /\ lock \in Threads \cup {NoThread}
  /\ pc \in [Threads -> Steps]
  /\ arg \in [Threads -> Names \cup {EmptyAtom}]
  /\ n \in [Threads -> 0..(Capacity - 1)]
  /\ answered \subseteq (Names \cup {EmptyAtom}) \X (0..(Capacity - 1))
  /\ refused \subseteq Names

\* An atom is its number: no name is stored twice, so equal atoms always have
\* equal numbers, whichever threads created them.
Unique ==
  \A i, j \in 1..Len(atoms) : atoms[i] = atoms[j] => i = j

\* A number that lookup() gave for a name is the place of that name in the
\* table, for good: get(n) gives the name back.
AnswersRight ==
  \A r \in answered : r[2] < Len(atoms) /\ atoms[r[2] + 1] = r[1]

\* Searching the index finds only names that are already stored.
IndexRight ==
  \A a \in Names : index[a] > 0 => index[a] < Len(atoms) /\ atoms[index[a] + 1] = a

\* A thread holds the lock exactly in the locked part of lookup().
LockRight == \A t \in Threads : pc[t] \in Locked <=> lock = t

\* In the locked part the name is one that may be added, and n is its place.
HolderRight ==
  \A t \in Threads :
    /\ pc[t] \in {"lock"} \cup Locked => arg[t] \in Names
    /\ pc[t] = "push_back" => index[arg[t]] = 0 /\ n[t] = Len(atoms) /\ n[t] < Capacity
    /\ pc[t] = "index" => n[t] = Len(atoms) - 1 /\ atoms[Len(atoms)] = arg[t] /\ n[t] > 0

\* A stored name is in the index, but for the one being added.
IndexComplete ==
  \A i \in 2..Len(atoms) :
    \/ index[atoms[i]] = i - 1
    \/ i = Len(atoms) /\ \E t \in Threads : pc[t] = "index"

\* The inductive invariant behind the table's promise.
TableInv ==
  /\ TypeOK
  /\ Unique
  /\ AnswersRight
  /\ IndexRight
  /\ LockRight
  /\ HolderRight
  /\ IndexComplete
  /\ atoms[1] = EmptyAtom

\* The two searches and the append, interleaved with those of other threads, act
\* like one atomic table: names are added once and at the end, every answer is
\* right when it is given, and only a name that is not in a full table is refused.
Promise == INSTANCE Interning WITH table <- atoms
ImplementsInterning == Promise!InternSpec

\* Every lookup() that holds the lock gives it up, also when it throws.
LockReleased == \A t \in Threads : lock = t ~> lock # t
=============================================================================
