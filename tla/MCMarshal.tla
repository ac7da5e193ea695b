------------------------------- MODULE MCMarshal -------------------------------
(* Values for Marshal.  Texts: 0 is empty, 1 and 2 are true and false, 3 is *)
(* a word, 4 needs quotes; 5 to 8 have the lengths of the limits.  9 and 10 *)
(* are two parts of 11, as n@host and dom of n@host.dom; 12 needs quotes    *)
(* and has quoted 9 in its middle; 13 has 9 within double quotes.           *)
EXTENDS Marshal

TextSizeVal ==
  [x \in 0 .. 13 |-> <<0, 4, 5, 3, 7, 255, 256, 65535, 65536, 6, 3, 10, 14, 12>>[x + 1]]
BareVal == {1, 2, 3, 5, 6, 9, 10, 11}
SplitVal ==
  [tok \in {<<"word", 11>>, <<"quoted", 12>>, <<"string", 13>>} |->
     CASE tok[2] = 11 -> <<<<"word", 9>>, <<".">>, <<"word", 10>>>>
       [] tok[2] = 12 -> <<<<"quoted", 4>>, <<"word", 9>>, <<"quoted", 4>>>>
       [] tok[2] = 13 -> <<<<"string", 3>>, <<"word", 9>>, <<"string", 3>>>>]

Atom(x) == <<"ATOM", x>>
Long(n) == <<"LONG", n>>
Str(x) == <<"STRING", x>>
Tup(s) == <<"TUPLE", s>>
Lst(s) == <<"LIST", s>>
Var(n, type) == <<"VAR", n, type>>
Pid(id, serial, creation) == <<"PID", 3, id, serial, creation>>
Port(node, id, creation) == <<"PORT", node, id, creation>>
Ref(ids, creation) == <<"REF", 3, ids, creation, 0>>

AtomVals == {Atom(x) : x \in {0, 1, 2, 3, 5, 6}}
StringVals == {Str(x) : x \in {0, 3, 5, 6, 7, 8}}
NumberVals == {Long(n) : n \in {-1, 0, 255, 256}} \cup {<<"DOUBLE", 1>>, <<"BOOL", TRUE>>, <<"BOOL", FALSE>>}
PidVals == {Pid(1, 0, 0), Pid(1, 2, 3)}
RefVals == {Ref(<<1, 2, 3>>, 1), Ref(<<1, 2, 3, 4, 5>>, 0)}
PortVals == {Port(3, 1, 1), Port(3, 268435455, 0), Port(3, 268435456, 0)}
BinaryVals == {<<"BINARY", 0, 0>>, <<"BINARY", 255, 1>>, <<"BINARY", 65536, 1>>}
Scalars == AtomVals \cup StringVals \cup NumberVals \cup PidVals \cup RefVals \cup PortVals \cup BinaryVals

Long256 == [i \in 1 .. 256 |-> Long(i)]
CompoundVals ==
  {Tup(<<>>), Lst(<<>>), Tup(SubSeq(Long256, 1, 255)), Tup(Long256), Lst(Long256),
   MapOf(<<>>), MapOf(<<<<Atom(3), Str(0)>>, <<Long(1), Tup(<<>>)>>, <<Ref(<<1, 2, 3>>, 1), Atom(1)>>>>),
   MapOf(<<<<Str(3), Long(1)>>, <<Atom(5), Lst(<<Str(5)>>)>>>>), <<"TRACE", <<Long(1), Atom(1)>>>>}
  \cup {Tup(<<a, b>>) : a, b \in {Atom(1), Str(0), Pid(1, 2, 3), Str(5)}}
  \cup {Lst(<<a, Tup(<<b>>)>>) : a, b \in {Long(256), Str(0), Ref(<<1, 2, 3>>, 1), Atom(6)}}
ValuesVal == Scalars \cup CompoundVals
FollowsVal == Atom(3)

OrderedVal ==
  {Long(0), Long(1), <<"DOUBLE", 0>>, <<"DOUBLE", 500>>, <<"DOUBLE", 1000>>, <<"BOOL", TRUE>>, <<"BOOL", FALSE>>, Atom(3), Atom(5),
   Pid(1, 0, 0), Pid(1, 2, 3), Pid(1, 3, 1), Pid(2, 0, 0),
   Ref(<<1, 2, 3>>, 1), Ref(<<1, 2, 3, 4>>, 0), Ref(<<1, 2, 4>>, 0), Port(3, 1, 0), Port(5, 0, 1), Port(3, 0, 1),
   Str(3), Str(5), <<"BINARY", 1, 2>>, <<"BINARY", 2, 1>>, <<"BINARY", 1, 1>>}

Tokens == {<<x>> : x \in {"{", "}", "[", "]", ",", "|"}}
          \cup {<<"word", 3>>, <<"Var", "X", "binary">>, <<"~", "i">>}
TextsVal == UNION {[1 .. n -> Tokens] : n \in 1 .. 5}
CallTokens == {<<",">>, <<")">>, <<" ">>, <<"digits", 1>>, <<".">>}
CallTextsVal ==
  {<<<<"word", 3>>, <<":">>, <<"word", 5>>, <<"(">>>> \o s : s \in UNION {[1 .. n -> CallTokens] : n \in 0 .. 5}}
  \cup {<<<<"word", 3>>, <<"(">>, <<")">>>>, <<<<"word", 3>>, <<":">>, <<")">>>>}
ArgumentsVal == [i \in 1 .. 5 |-> Long(100 + i)]

Typed == {Var("X", type) : type \in DOMAIN type_to_type_string} \cup {Var("_", "UNDEFINED")}
Leaves == {Long(1), Long(-1), Atom(11), Atom(12), Str(13), <<"DOUBLE", 1500>>, <<"BOOL", TRUE>>, Atom(3), Atom(4), Str(3), <<"BINARY", 2, 1>>, Var("Y", "UNDEFINED")}
WrittenVal ==
  {<<"DOUBLE", n>> : n \in 990 .. 1130} \cup Typed \cup Leaves \cup {Tup(s) : s \in UNION {[1 .. n -> Leaves] : n \in 0 .. 2}}
  \cup {Lst(<<a, Tup(<<Var("X", "ATOM"), b>>)>>) : a, b \in Leaves}
  \cup {Tup(<<Lst(<<>>), a>>) : a \in Leaves \cup Typed}

SubjectsVal ==
  {Atom(3), Atom(5), Lst(<<>>), Tup(<<Atom(3), Atom(3)>>), Tup(<<Atom(3), Atom(5)>>),
   Tup(<<Atom(5), Lst(<<>>)>>), Lst(<<Atom(3), Tup(<<Atom(5), Atom(3)>>)>>)}
PatternsVal ==
  {Atom(3), Var("X", "UNDEFINED"), Var("X", "STRING"), Var("_", "UNDEFINED"), Tup(<<Var("X", "UNDEFINED"), Var("X", "UNDEFINED")>>),
   Tup(<<Var("X", "ATOM"), Var("Y", "UNDEFINED")>>), Tup(<<Var("X", "ATOM"), Var("Y", "STRING")>>),
   Tup(<<Var("_", "UNDEFINED"), Var("X", "ATOM")>>),
   Lst(<<Var("X", "ATOM"), Tup(<<Var("Y", "UNDEFINED"), Var("X", "UNDEFINED")>>)>>),
   Tup(<<Var("X", "LIST"), Atom(5)>>)}
RulesVal ==
  {Var("X", "ATOM"), Tup(<<Var("X", "UNDEFINED"), Var("X", "UNDEFINED")>>), Tup(<<Var("X", "UNDEFINED"), Var("Y", "UNDEFINED")>>)}
================================================================================
