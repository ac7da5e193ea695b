------------------------------- MODULE Interning -------------------------------
(***************************************************************************)
(* What an atom table promises: a list of distinct names that only grows   *)
(* at its end, answers that give the place of a name in it, and a refusal  *)
(* only of a name that is not in a full table.                             *)
(***************************************************************************)
EXTENDS Naturals, Sequences

CONSTANTS Names, EmptyAtom, Capacity

VARIABLES
  table,     \* the names, the one of atom number n at place n + 1
  answered,  \* pairs of a name and the number given for it
  refused    \* names that were refused because the table was full

internVars == <<table, answered, refused>>

Known(a) == \E i \in 1..Len(table) : table[i] = a

InternInit ==
  /\ table = <<EmptyAtom>>
  /\ answered = {}
  /\ refused = {}

Add(a) ==
  /\ ~Known(a)
  /\ Len(table) < Capacity
  /\ table' = Append(table, a)
  /\ UNCHANGED <<answered, refused>>

Answer(a, n) ==
  /\ n < Len(table)
  /\ table[n + 1] = a
  /\ answered' = answered \cup {<<a, n>>}
  /\ UNCHANGED <<table, refused>>

Refuse(a) ==
  /\ ~Known(a)
  /\ Len(table) = Capacity
  /\ refused' = refused \cup {a}
  /\ UNCHANGED <<table, answered>>

InternNext ==
  \E a \in Names \cup {EmptyAtom} :
    \/ Add(a)
    \/ \E n \in 0..(Capacity - 1) : Answer(a, n)
    \/ Refuse(a)

InternSpec == InternInit /\ [][InternNext]_internVars
=============================================================================
