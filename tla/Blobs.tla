---------------------------------- MODULE Blobs ----------------------------------
(***************************************************************************)
(* The storage of terms.  The terms of the types STRING, TUPLE, LIST and   *)
(* MAP (STRING stands for PORT and REF too) are pointers to blobs with an  *)
(* atomic count of references; copies share the blob.  A handle is a       *)
(* variable of type eterm that one thread uses; an element of a blob is    *)
(* again a pointer, or Nil for a term without storage.                     *)
(*                                                                         *)
(* A release is not one step: the count goes down, and the thread that     *)
(* brought it to zero destroys the elements, one by one and each with the  *)
(* elements it has, and then frees the blob; other threads go on meanwhile.*)
(* todo is what a thread has still to do before its operation returns, the *)
(* next task at the end.                                                   *)
(***************************************************************************)
EXTENDS Integers, SequencesExt

CONSTANTS
  Threads,
  Handles,     \* variables that hold a term
  Owner,       \* the thread that uses a handle
  MaxBlobs,    \* bound on the blobs that are allocated
  Arity,       \* size of every tuple
  MaxElems     \* bound on the elements of a list or a map

ASSUME BlobsAssumption ==
  /\ Owner \in [Handles -> Threads]
  /\ MaxBlobs \in Nat \ {0} /\ Arity \in Nat \ {0} /\ MaxElems \in Nat

VARIABLES
  blob,     \* [type, rc, elems, full, mem] of each blob
  handle,   \* the blob a handle points to, or Nil
  todo      \* sequence of tasks of each thread

vars == <<blob, handle, todo>>

Nil == 0
AScalar == "scalar"   \* in place of a handle: a term without storage
EmptyList == 1   \* the blob of list::empty_list()
Blob == 1 .. MaxBlobs
Types == {"STRING", "TUPLE", "LIST", "MAP"}

Unused == [type |-> "STRING", rc |-> 0, elems |-> <<>>, full |-> FALSE, mem |-> "none"]

\* The tasks: release the blob b; free it; copy into h what the handle g, or
\* its element i, points to.
Release(b) == [task |-> "release", b |-> b]
Free(b) == [task |-> "free", b |-> b]
Copy(h, g, i) == [task |-> "copy", h |-> h, g |-> g, i |-> i]

Init ==
  /\ blob = [b \in Blob |->
               IF b = EmptyList
               THEN [type |-> "LIST", rc |-> 1, elems |-> <<>>, full |-> TRUE, mem |-> "live"]
               ELSE Unused]
  /\ handle = [h \in Handles |-> Nil]
  /\ todo = [t \in Threads |-> <<>>]

(***************************************************************************)
(* Blobs                                                                   *)
(***************************************************************************)
Fresh == {b \in Blob : blob[b].mem = "none" /\ \A c \in 1 .. b - 1 : blob[c].mem # "none"}

\* ++m_rc, once for each place of s that points to the blob; the count of
\* the empty list only grows and is never looked at, so it is left out
inc_rc(bs, s) ==
  [b \in Blob |-> [bs[b] EXCEPT !.rc =
     IF b = EmptyList THEN @ ELSE @ + Cardinality({i \in DOMAIN s : s[i] = b})]]

\* tuples and lists can be copied and put into terms when they are complete
Complete(g) == handle[g] # Nil /\ blob[handle[g]].full

Idle(h) == todo[Owner[h]] = <<>>

MyHandles(h) == {g \in Handles : Owner[g] = Owner[h]}

(***************************************************************************)
(* Constructors                                                            *)
(***************************************************************************)
\* from the terms that the handles in items hold, or with scalar elements
Construct(h, type, items) ==
  /\ Idle(h) /\ handle[h] = Nil
  /\ \A i \in DOMAIN items : items[i] # AScalar => Complete(items[i])
  /\ Len(items) = CASE type = "STRING" -> 0 [] type = "TUPLE" -> Arity [] OTHER -> Len(items)
  /\ \E b \in Fresh :
       LET elems == [i \in DOMAIN items |-> IF items[i] = AScalar THEN Nil ELSE handle[items[i]]]
           new == [type |-> type, rc |-> 1, elems |-> elems, full |-> TRUE, mem |-> "live"]
       IN /\ blob' = [inc_rc(blob, elems) EXCEPT ![b] = new]
          /\ handle' = [handle EXCEPT ![h] = b]
  /\ UNCHANGED todo

\* tuple(arity), list(estimated size): to be filled with push_back
ConstructOpen(h, type) ==
  /\ Idle(h) /\ handle[h] = Nil /\ type \in {"TUPLE", "LIST"}
  /\ \E b \in Fresh :
       /\ blob' = [blob EXCEPT ![b] = [type |-> type, rc |-> 1, elems |-> <<>>, full |-> FALSE,
                                       mem |-> "live"]]
       /\ handle' = [handle EXCEPT ![h] = b]
  /\ UNCHANGED todo

\* list(nullptr), list(0): the count of the empty list is left alone
ConstructNil(h) ==
  /\ Idle(h) /\ handle[h] = Nil
  /\ handle' = [handle EXCEPT ![h] = EmptyList]
  /\ UNCHANGED <<blob, todo>>

CopyConstruct(h, g) ==
  /\ Idle(h) /\ handle[h] = Nil /\ g \in MyHandles(h) /\ Complete(g)
  /\ handle' = [handle EXCEPT ![h] = handle[g]]
  /\ blob' = inc_rc(blob, <<handle[g]>>)
  /\ UNCHANGED todo

\* the move constructor, also of a term that another thread is handed
MoveConstruct(h, g) ==
  /\ Idle(h) /\ Idle(g) /\ handle[h] = Nil /\ handle[g] # Nil
  /\ handle' = [handle EXCEPT ![h] = handle[g], ![g] = Nil]
  /\ UNCHANGED <<blob, todo>>

(***************************************************************************)
(* Elements                                                                *)
(***************************************************************************)
\* All references to the blob are terms of this thread.  That another thread
\* uses what is changed is left out: it would be a data race.
Unraced(h) == blob[handle[h]].rc = Cardinality({k \in MyHandles(h) : handle[k] = handle[h]})

\* A tuple is complete with its last element, a list when it is closed.  A
\* tuple that is complete throws; a list takes more, also when it is shared
\* (BOOST_ASSERT, which a release build does not have).
push_back(h, g) ==
  /\ Idle(h) /\ g \in MyHandles(h) /\ Complete(g) /\ handle[h] \notin {Nil, EmptyList}
  /\ Unraced(h)
  /\ LET b == handle[h]
         room == IF blob[b].type = "TUPLE" THEN Arity ELSE MaxElems
     IN /\ blob[b].type = "LIST" \/ (blob[b].type = "TUPLE" /\ ~ blob[b].full)
        /\ Len(blob[b].elems) < room
        /\ blob' = [inc_rc(blob, <<handle[g]>>) EXCEPT
                      ![b].elems = Append(@, handle[g]),
                      ![b].full = blob[b].full \/ (blob[b].type = "TUPLE" /\ Len(blob[b].elems) + 1 = Arity)]
  /\ UNCHANGED <<handle, todo>>

close(h) ==
  /\ Idle(h) /\ handle[h] \notin {Nil, EmptyList} /\ blob[handle[h]].type = "LIST"
  /\ ~ blob[handle[h]].full
  /\ blob' = [blob EXCEPT ![handle[h]].full = TRUE]
  /\ UNCHANGED <<handle, todo>>

\* a map takes elements also when it is shared, and even itself
insert(h, g) ==
  /\ Idle(h) /\ g \in MyHandles(h) /\ Complete(g) /\ handle[h] # Nil
  /\ blob[handle[h]].type = "MAP" /\ Len(blob[handle[h]].elems) < MaxElems
  /\ Unraced(h)
  /\ blob' = [inc_rc(blob, <<handle[g]>>) EXCEPT ![handle[h]].elems = Append(@, handle[g])]
  /\ UNCHANGED <<handle, todo>>

(***************************************************************************)
(* Assignment and destruction: the pointers change at once, the counts in  *)
(* the tasks that follow.                                                  *)
(***************************************************************************)
Destroy(h) ==
  /\ Idle(h) /\ handle[h] # Nil
  /\ handle' = [handle EXCEPT ![h] = Nil]
  /\ todo' = [todo EXCEPT ![Owner[h]] = <<Release(handle[h])>>]
  /\ UNCHANGED blob

\* h = g (i = 0) or h = g[i]: the old term is destroyed, then the copy is made
Assign(h, g, i) ==
  /\ Idle(h) /\ g \in MyHandles(h) \ {h} /\ Complete(g)
  /\ i # 0 => i \in DOMAIN blob[handle[g]].elems /\ blob[handle[g]].elems[i] # Nil
  /\ handle' = [handle EXCEPT ![h] = Nil]
  /\ todo' = [todo EXCEPT ![Owner[h]] = <<Copy(h, g, i), Release(handle[h])>>]
  /\ UNCHANGED blob

\* h = std::move(g); and h = g for a variable g that is not const, since the
\* template of operator= takes it before the one that copies does
MoveAssign(h, g) ==
  /\ Idle(h) /\ g \in MyHandles(h) \ {h} /\ handle[h] # Nil
  /\ handle' = [handle EXCEPT ![h] = handle[g], ![g] = Nil]
  /\ todo' = [todo EXCEPT ![Owner[h]] = <<Release(handle[h])>>]
  /\ UNCHANGED blob

\* h[i] = std::move(g) for a tuple, *it = std::move(g) for a list: also what
\* is complete and shared is changed in place
Update(h, g, i) ==
  /\ Idle(h) /\ g \in MyHandles(h) /\ handle[h] # Nil /\ Unraced(h)
  /\ handle[g] # Nil => Complete(g)
  /\ LET b == handle[h]
     IN /\ blob[b].type \in {"TUPLE", "LIST"} /\ i \in DOMAIN blob[b].elems
        /\ blob' = [blob EXCEPT ![b].elems = [@ EXCEPT ![i] = handle[g]]]
        /\ handle' = [handle EXCEPT ![g] = Nil]
        /\ todo' = [todo EXCEPT ![Owner[h]] = <<Release(blob[b].elems[i])>>]

\* tuple::operator=: the new blob is taken first.  The loop over the elements
\* of the old one then uses the size of the new one; here they are the same.
AssignTuple(h, g) ==
  /\ Idle(h) /\ g \in MyHandles(h) \ {h} /\ Complete(g) /\ handle[h] # Nil
  /\ blob[handle[h]].type = "TUPLE" /\ blob[handle[g]].type = "TUPLE"
  /\ handle' = [handle EXCEPT ![h] = handle[g]]
  /\ blob' = inc_rc(blob, <<handle[g]>>)
  /\ todo' = [todo EXCEPT ![Owner[h]] = <<Release(handle[h])>>]

(***************************************************************************)
(* Tasks                                                                   *)
(***************************************************************************)
Doing(t, task) == todo[t] # <<>> /\ Last(todo[t]).task = task

\* a term without storage has nothing to release, and the empty list is left alone
SkipRelease(t) ==
  /\ Doing(t, "release") /\ Last(todo[t]).b \in {Nil, EmptyList}
  /\ todo' = [todo EXCEPT ![t] = Front(@)]
  /\ UNCHANGED <<blob, handle>>

\* blob::release(false), and if the count is zero the loop over the elements
\* and then blob::free
DoRelease(t) ==
  /\ Doing(t, "release") /\ Last(todo[t]).b \notin {Nil, EmptyList}
  /\ LET b == Last(todo[t]).b
         last == blob[b].rc = 1
         elements == [i \in DOMAIN blob[b].elems |-> Release(blob[b].elems[i])]
     IN /\ blob' = [blob EXCEPT ![b].rc = @ - 1, ![b].mem = IF last THEN "dying" ELSE @]
        /\ todo' = [todo EXCEPT ![t] =
                      IF last THEN Front(@) \o <<Free(b)>> \o Reverse(elements) ELSE Front(@)]
  /\ UNCHANGED handle

DoFree(t) ==
  /\ Doing(t, "free")
  /\ blob' = [blob EXCEPT ![Last(todo[t]).b] = [Unused EXCEPT !.mem = "freed"]]
  /\ todo' = [todo EXCEPT ![t] = Front(@)]
  /\ UNCHANGED handle

Source(c) == IF c.i = 0 THEN handle[c.g] ELSE blob[handle[c.g]].elems[c.i]

\* Mutant: as epid::operator= does it, a blob that is there is not counted.
DoCopyUncounted(t) ==
  /\ Doing(t, "copy")
  /\ handle' = [handle EXCEPT ![Last(todo[t]).h] = Source(Last(todo[t]))]
  /\ todo' = [todo EXCEPT ![t] = Front(@)]
  /\ UNCHANGED blob

DoCopy(t) ==
  /\ Doing(t, "copy")
  /\ LET b == Source(Last(todo[t]))
     IN /\ handle' = [handle EXCEPT ![Last(todo[t]).h] = b]
        /\ blob' = inc_rc(blob, <<b>>)
  /\ todo' = [todo EXCEPT ![t] = Front(@)]

Operation(h) ==
  \/ \E type \in Types, n \in 0 .. MaxElems :
       \E items \in [1 .. n -> MyHandles(h) \cup {AScalar}] : Construct(h, type, items)
  \/ \E type \in Types : ConstructOpen(h, type)
  \/ ConstructNil(h) \/ close(h) \/ Destroy(h)
  \/ \E g \in Handles :
       \/ CopyConstruct(h, g) \/ MoveConstruct(h, g) \/ push_back(h, g) \/ insert(h, g)
       \/ MoveAssign(h, g) \/ AssignTuple(h, g)
       \/ \E i \in 0 .. MaxElems : Assign(h, g, i) \/ Update(h, g, i)

Next ==
  \/ \E h \in Handles : Operation(h)
  \/ \E t \in Threads : SkipRelease(t) \/ DoRelease(t) \/ DoFree(t) \/ DoCopy(t)

Spec == Init /\ [][Next]_vars

(***************************************************************************)
(* Properties                                                              *)
(***************************************************************************)
TypeOK ==
  /\ blob \in [Blob -> [type : Types, rc : Nat, elems : Seq(Blob \cup {Nil}), full : BOOLEAN,
                        mem : {"none", "live", "dying", "freed"}]]
  /\ handle \in [Handles -> Blob \cup {Nil}]
  /\ todo \in [Threads -> Seq([task : {"release"}, b : Blob \cup {Nil}]
                             \cup [task : {"free"}, b : Blob \ {EmptyList}]
                             \cup [task : {"copy"}, h : Handles, g : Handles, i : Nat])]

\* What points to a blob: handles, elements of blobs, releases that are still to come.
Pointers(b) == {h \in Handles : handle[h] = b}

SlotsIn(r, b) == {i \in DOMAIN r.elems : r.mem = "live" /\ r.elems[i] = b}
Slots(b) == UNION {{c} \X SlotsIn(blob[c], b) : c \in Blob}

TasksIn(s, task, b) == {i \in DOMAIN s : s[i].task = task /\ s[i].b = b}
Pending(task, b) == UNION {{t} \X TasksIn(todo[t], task, b) : t \in Threads}

References(b) ==
  Cardinality(Pointers(b)) + Cardinality(Slots(b)) + Cardinality(Pending("release", b))

(* The count of a blob is the number of terms that point to it, counting   *)
(* those a thread is about to destroy; the blob is freed once, by the      *)
(* thread that brought the count to zero, and after that no term, no       *)
(* element and no copy under way points to it.  The empty list is never    *)
(* freed.  Tuples that are assigned to each other have the same size.      *)
RefCountExact ==
  /\ blob[EmptyList].mem = "live" /\ blob[EmptyList].rc > 0
  /\ \A b \in Blob \ {EmptyList} :
       /\ blob[b].rc = References(b)
       /\ (blob[b].mem = "live") = (blob[b].rc > 0)
       /\ Cardinality(Pending("free", b)) = IF blob[b].mem = "dying" THEN 1 ELSE 0
==================================================================================
