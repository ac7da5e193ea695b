--------------------------------- MODULE Term ---------------------------------
(***************************************************************************)
(* Terms (eterm) as values, and their operators == and <.  A term is a     *)
(* tuple that starts with its type:                                        *)
(*   LONG, ATOM, STRING <<type, n>>   DOUBLE <<type, thousandths>>         *)
(*   BOOL <<type, b>>                                                      *)
(*   BINARY <<type, size, n>>      VAR <<type, name, type of its values>>  *)
(*   PID <<type, node, id, serial, creation>>                              *)
(*   PORT <<type, node, id, creation>>                                     *)
(*   REF <<type, node, ids, creation, padding>>                            *)
(*   TUPLE, LIST <<type, elements>>   MAP <<type, pairs, in key order>>    *)
(* The text of an atom or a string is a number that stands for its place   *)
(* in the order of strcmp.  The padding of a ref is what the two bytes     *)
(* after its length held in the fresh blob: memcmp looks at them too.      *)
(***************************************************************************)
EXTENDS Integers, Sequences, SequencesExt, FiniteSets

Type(t) == t[1]

(* The table of operator<; the order is not that of Erlang.                *)
type_precedence ==
  [UNDEFINED |-> 9, LONG |-> 0, DOUBLE |-> 0, BOOL |-> 1, ATOM |-> 2, VAR |-> 13,
   STRING |-> 10, BINARY |-> 11, PID |-> 6, PORT |-> 5, REF |-> 3, TUPLE |-> 7,
   LIST |-> 10, MAP |-> 8, TRACE |-> 12]

(* Comparison of two sequences of numbers, as a chain of if (a < b) return *)
(* true; if (a > b) return false; makes it.                                *)
FirstDifference(s, t) ==
  {i \in 1 .. Len(s) : i <= Len(t) /\ s[i] # t[i] /\ \A j \in 1 .. i - 1 : s[j] = t[j]}

LessChain(s, t) == \E i \in FirstDifference(s, t) : s[i] < t[i]

\* the chain of epid: a greater serial is not looked for
PidLess(a, b) ==
  LET s == <<a[2], a[3]>>  t == <<b[2], b[3]>>
  IN IF s # t THEN LessChain(s, t) ELSE a[4] < b[4] \/ a[5] < b[5]

\* Mutant: as epid does it, a greater id does not end the comparison.
PortLessAsPid(a, b) ==
  IF a[2] # b[2] THEN a[2] > b[2] ELSE a[3] < b[3] \/ a[4] < b[4]

\* the nodes of ports are compared the other way round
PortLess(a, b) == LessChain(<<b[2], a[3], a[4]>>, <<a[2], b[3], b[4]>>)

RefLess(a, b) ==
  LET common == IF Len(a[3]) < Len(b[3]) THEN Len(a[3]) ELSE Len(b[3])
      key(r) == <<r[2]>> \o SubSeq(r[3], 1, common) \o <<Len(r[3]), r[4]>>
  IN LessChain(key(a), key(b))

BinaryLess(a, b) == LessChain(<<a[2], a[3]>>, <<b[2], b[3]>>)

RECURSIVE Less(_, _)

\* every element has to be less; {} < {} holds
TupleLess(a, b) ==
  \/ Len(a[2]) < Len(b[2])
  \/ Len(a[2]) = Len(b[2]) /\ \A i \in DOMAIN a[2] : Less(a[2][i], b[2][i])

\* every common element has to be less, and the right list to be longer
ListLess(a, b) ==
  Len(a[2]) < Len(b[2]) /\ \A i \in DOMAIN a[2] : Less(a[2][i], b[2][i])

MapLess(a, b) ==
  LET flat(m) == [i \in 1 .. 2 * Len(m[2]) |-> m[2][(i + 1) \div 2][2 - (i % 2)]]
      f == flat(a)  g == flat(b)
      differ(i) == Less(f[i], g[i]) \/ Less(g[i], f[i])
  IN \/ Len(f) < Len(g)
     \/ Len(f) = Len(g) /\ Len(f) = 0
     \/ /\ Len(f) = Len(g)
        /\ \E i \in DOMAIN f : Less(f[i], g[i]) /\ \A j \in 1 .. i - 1 : ~ differ(j)

Thousandths(t) == IF Type(t) = "LONG" THEN 1000 * t[2] ELSE t[2]

Less(a, b) ==
  IF type_precedence[Type(a)] # type_precedence[Type(b)]
  THEN type_precedence[Type(a)] < type_precedence[Type(b)]
  ELSE CASE Type(a) \in {"LONG", "DOUBLE"} -> Thousandths(a) < Thousandths(b)
         [] Type(a) \in {"ATOM", "STRING"} -> a[2] < b[2]
         [] Type(a) = "BOOL" -> ~ a[2] /\ b[2]
         [] Type(a) = "VAR" -> FALSE
         [] Type(a) = "BINARY" -> BinaryLess(a, b)
         [] Type(a) = "PID" -> PidLess(a, b)
         [] Type(a) = "PORT" -> PortLess(a, b)
         [] Type(a) = "REF" -> RefLess(a, b)
         [] Type(a) \in {"TUPLE", "TRACE"} -> TupleLess(a, b)
         [] Type(a) = "LIST" -> ListLess(a, b)
         [] Type(a) = "MAP" -> MapLess(a, b)

RECURSIVE Equal(_, _)

TupleEqual(s, t) == Len(s) = Len(t) /\ \A i \in DOMAIN s : Equal(s[i], t[i])

MapEqual(s, t) ==
  Len(s) = Len(t) /\ \A i \in DOMAIN s : Equal(s[i][1], t[i][1]) /\ Equal(s[i][2], t[i][2])

\* a variable is equal to nothing, not even to itself
Equal(a, b) ==
  /\ Type(a) = Type(b)
  /\ CASE Type(a) \in {"TUPLE", "LIST", "TRACE"} -> TupleEqual(a[2], b[2])
       [] Type(a) = "MAP" -> MapEqual(a[2], b[2])
       [] Type(a) = "VAR" -> FALSE
       [] OTHER -> a = b

Equivalent(a, b) == ~ Less(a, b) /\ ~ Less(b, a)

(* map.insert: std::map keeps the first of several keys that its order     *)
(* takes for the same.                                                     *)
MapInsert(pairs, k, v) ==
  LET before == SelectSeq(pairs, LAMBDA p : Less(p[1], k))
      after == SelectSeq(pairs, LAMBDA p : ~ Less(p[1], k))
  IN IF \E i \in DOMAIN pairs : Equivalent(pairs[i][1], k)
     THEN pairs
     ELSE before \o <<<<k, v>>>> \o after

MapOf(pairs) == <<"MAP", FoldLeft(LAMBDA m, p : MapInsert(m, p[1], p[2]), <<>>, pairs)>>
================================================================================
