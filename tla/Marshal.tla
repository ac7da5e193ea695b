-------------------------------- MODULE Marshal --------------------------------
(***************************************************************************)
(* A user of the terms: terms are encoded and decoded, compared, read from *)
(* text and written, matched with a binding that the calls share, and run  *)
(* through a list of patterns.  last is the call made last, with what it   *)
(* gave; a call without lasting effect starts when none is pending.        *)
(***************************************************************************)
EXTENDS TermFormat

CONSTANTS
  Values,        \* terms that are encoded
  Follows,       \* the term that follows in the buffer
  Ordered,       \* terms that are compared
  Texts,         \* texts that are read
  CallTexts,     \* texts Module:Function(Args)
  Arguments,     \* the arguments of the directives
  Written,       \* terms that are written
  Subjects,      \* terms without variables that are matched
  Patterns,      \* patterns they are matched with
  Rules,         \* patterns that are registered
  MaxRules       \* bound on the list of patterns

ASSUME MarshalAssumption == MaxRules \in Nat /\ Subjects # {} /\ Follows \in Values

VARIABLES
  last,
  binding,   \* varbind
  rules      \* eterm_pattern_matcher: [pattern, accepts, storage]

vars == <<last, binding, rules>>

None == <<"none">>
Idle == last = None
Fresh == Idle /\ binding = Empty /\ rules = <<>>

Init == last = None /\ binding = Empty /\ rules = <<>>

Done == ~ Idle /\ last' = None /\ UNCHANGED <<binding, rules>>

(***************************************************************************)
(* External format                                                         *)
(***************************************************************************)
\* Mutant: the version byte is left out of the size.
EncodeSizeNoVersion(t, header, version) == header + encode_size(t)

EncodeSize(t, header, version) == header + encode_size(t) + (IF version THEN 1 ELSE 0)

\* store_be of the size of what follows: as wide as the header
StoreBe(header, n) ==
  CASE header = 0 -> 0 [] header = 1 -> n % 256 [] header = 2 -> n % 65536 [] header = 4 -> n

EncodeCall(t, header, version, v4) ==
  LET size == EncodeSize(t, header, version)
      fields == (IF version THEN <<tag("VERSION")>> ELSE <<>>) \o encode(t, v4)
  IN [size |-> size, prefix |-> StoreBe(header, size - header), fields |-> fields,
      offset |-> header + Width(fields)]

Encode(t, header, version, v4) ==
  /\ Fresh
  /\ last' = <<"encode", t, header, v4, EncodeCall(t, header, version, v4)>>
  /\ UNCHANGED <<binding, rules>>

RECURSIVE Parts(_)
\* the term and all terms within it
Parts(t) ==
  {t} \cup (CASE Type(t) \in {"TUPLE", "LIST", "TRACE"} -> UNION {Parts(x) : x \in Range(t[2])}
             [] Type(t) = "MAP" -> UNION {Parts(x[1]) \cup Parts(x[2]) : x \in Range(t[2])}
             [] OTHER -> {})

Holds(t, Test(_)) == \E x \in Parts(t) : Test(x)

LongString(t) == Type(t) = "STRING" /\ TextSize[t[2]] > 65535

\* What was encoded is read back from a buffer where more follows, after the
\* version if there is one.  A string of more than 65535 bytes, which is a
\* list then, is not followed.
Decode(pad) ==
  /\ last[1] = "encode" /\ ~ Holds(last[2], LongString)
  /\ LET f == last[5].fields
         skip == IF f[1] = tag("VERSION") THEN 1 ELSE 0
     IN last' = <<"decode", last[2], last[4], pad, decode(Rest(f, skip) \o encode(Follows, last[4]), pad)>>
  /\ UNCHANGED <<binding, rules>>

(***************************************************************************)
(* Order                                                                   *)
(***************************************************************************)
Compare(a, b, c) ==
  /\ Fresh
  /\ last' = <<"compare", <<a, b, c>>, [i, j \in 1 .. 3 |-> Less(<<a, b, c>>[i], <<a, b, c>>[j])]>>
  /\ UNCHANGED <<binding, rules>>

(***************************************************************************)
(* Text                                                                    *)
(***************************************************************************)
Read(text) ==
  /\ Fresh
  /\ last' = <<"read", text, eformat(text, Arguments)>>
  /\ UNCHANGED <<binding, rules>>

ReadCall(text) ==
  /\ Fresh
  /\ last' = <<"call", text, eformat_mfa(text, Arguments)>>
  /\ UNCHANGED <<binding, rules>>

Write(t) ==
  /\ Idle /\ rules = <<>>
  /\ last' = <<"write", t, dump(t, binding)>>
  /\ UNCHANGED <<binding, rules>>

ReadBack ==
  /\ last[1] = "write"
  /\ last' = <<"readback", last[2], eformat(last[3], <<>>)>>
  /\ UNCHANGED <<binding, rules>>

(***************************************************************************)
(* Matching                                                                *)
(***************************************************************************)
\* term.match(pattern) or pattern.match(term)
Match(t, p, swapped) ==
  /\ Idle /\ rules = <<>>
  /\ LET r == IF swapped THEN match(p, t, binding) ELSE match(t, p, binding)
     IN /\ binding' = r[2]
        /\ last' = <<"match", t, p, binding, r[1]>>
  /\ UNCHANGED rules

Bind(name, t) ==
  /\ Idle /\ rules = <<>>
  /\ binding' = bind(binding, name, t)
  /\ last' = <<"bind">>
  /\ UNCHANGED rules

ClearBinding == Idle /\ binding' = Empty /\ last' = <<"clear">> /\ UNCHANGED rules

AddRule(r, front) ==
  /\ Idle /\ Len(rules) < MaxRules
  /\ rules' = IF front THEN push_front(rules, r) ELSE push_back(rules, r)
  /\ last' = <<"rule">>
  /\ UNCHANGED binding

EraseRule(r) == Idle /\ rules' = erase(rules, r) /\ last' = <<"rule">> /\ UNCHANGED binding

ClearRules == Idle /\ rules' = <<>> /\ last' = <<"rule">> /\ UNCHANGED binding

RunRules(t) ==
  /\ Idle
  /\ LET r == PatternMatch(rules, t, binding)
     IN /\ last' = <<"rules", t, binding, r>>
        /\ binding' = r.binding
  /\ UNCHANGED rules

\* a compound pattern is in one of two blobs
Rule ==
  {r \in [pattern : Rules, accepts : BOOLEAN, storage : {1, 2}] : Compound(r.pattern) \/ r.storage = 1}

\* calls without effect on the binding and the rules
PureCall ==
  \/ \E t \in Values, h \in {0, 1, 2, 4}, v, v4 \in BOOLEAN : Encode(t, h, v, v4)
  \/ \E a, b, c \in Ordered : Compare(a, b, c)
  \/ \E s \in Texts : Read(s)
  \/ \E s \in CallTexts : ReadCall(s)

BindingCall ==
  \/ \E t \in Written : Write(t)
  \/ \E t \in Subjects, p \in Patterns, b \in BOOLEAN : Match(t, p, b)
  \/ \E n \in {"X", "Y"}, t \in Subjects : Bind(n, t)
  \/ ClearBinding

RulesCall ==
  \/ \E r \in Rule, b \in BOOLEAN : AddRule(r, b)
  \/ \E r \in Rule : EraseRule(r)
  \/ \E t \in Subjects : RunRules(t)
  \/ ClearRules

Next ==
  \/ Done \/ ReadBack \/ \E pad \in {0, 1} : Decode(pad)
  \/ Fresh /\ PureCall
  \/ Idle /\ (BindingCall \/ RulesCall)

Spec == Init /\ [][Next]_vars

(***************************************************************************)
(* Properties                                                              *)
(***************************************************************************)
(* What encode writes ends where encode_size said the buffer ends          *)
(* (BOOST_ASSERT offset == size in eterm::encode), for every type, at the  *)
(* limits of 255, 256, 65535 and 65536 bytes, in both builds, but for two  *)
(* kinds of ports, for which the two always differ: the size of one with   *)
(* an id of more than 28 bits lacks its node (this needs a node name of    *)
(* other than 4 bytes), and with ERL_V4_PORT_EXT one with a smaller id is  *)
(* written without its tag, id and creation.  The size in front is the one *)
(* of what follows whenever the header is wide enough for it.              *)
LargePort(t) == Type(t) = "PORT" /\ t[3] > MaxPortId
SmallPort(t) == Type(t) = "PORT" /\ t[3] <= MaxPortId

EncodeSizeExact ==
  last[1] = "encode" =>
    LET t == last[2]  v4 == last[4]  r == last[5]
        body == Width(r.fields)
        fits == <<last[3] = 1 /\ body < 256, last[3] = 2 /\ body < 65536, last[3] = 4>>
    IN /\ (r.offset = r.size) = ~ (Holds(t, LargePort) \/ (v4 /\ Holds(t, SmallPort)))
       /\ r.offset = r.size /\ TRUE \in Range(fits) => r.prefix = body

(* A term comes back from its encoding, and exactly its bytes are used: the *)
(* next term of the buffer is still there.  Three things come back as what *)
(* Erlang has for them: the atoms true and false as booleans, the empty    *)
(* string as the empty list, a trace as a tuple.  The padding of a ref is  *)
(* the new blob's, so that it may differ from the one sent (operator==     *)
(* compares it).  Ports come back only in the build that was made for      *)
(* them: an id of more than 28 bits never does without ERL_V4_PORT_EXT, as *)
(* it is cut off, and with it a smaller one never does, having no tag.     *)
RECURSIVE Norm(_, _)
Norm(t, pad) ==
  LET all(s) == [i \in DOMAIN s |-> Norm(s[i], pad)]
  IN CASE Type(t) = "ATOM" /\ t[2] = TrueText -> <<"BOOL", TRUE>>
       [] Type(t) = "ATOM" /\ t[2] = FalseText -> <<"BOOL", FALSE>>
       [] Type(t) = "STRING" /\ TextSize[t[2]] = 0 -> <<"LIST", <<>>>>
       [] Type(t) = "REF" -> [t EXCEPT ![5] = pad]
       [] Type(t) \in {"TUPLE", "TRACE"} -> <<"TUPLE", all(t[2])>>
       [] Type(t) = "LIST" -> <<"LIST", all(t[2])>>
       [] Type(t) = "MAP" -> <<"MAP", [i \in DOMAIN t[2] |-> all(t[2][i])]>>
       [] OTHER -> t

RoundTrip ==
  last[1] = "decode" =>
    LET t == last[2]  v4 == last[3]
    IN (last[5] = <<Norm(t, last[4]), encode(Follows, v4)>>)
         = ~ (IF v4 THEN Holds(t, SmallPort) ELSE Holds(t, LargePort))

(* operator< is fit for the keys of a std::map on terms that are not       *)
(* compound: no term is less than itself, less is transitive, and so is    *)
(* being equivalent.  Only two pids of one node with the same id, one with *)
(* the greater serial and the other with the greater creation, are each    *)
(* less than the other.                                                    *)
Crossed(a, b) ==
  /\ Type(a) = "PID" /\ Type(b) = "PID" /\ a[2] = b[2] /\ a[3] = b[3]
  /\ (a[4] < b[4] /\ a[5] > b[5]) \/ (a[4] > b[4] /\ a[5] < b[5])

StrictWeakOrder ==
  last[1] = "compare" =>
    LET L == last[3]
        same(i, j) == ~ L[i, j] /\ ~ L[j, i]
        crossed(i, j) == Crossed(last[2][i], last[2][j])
    IN /\ ~ L[1, 1]
       /\ (L[1, 2] /\ L[2, 1]) = crossed(1, 2)
       /\ ~ (crossed(1, 2) \/ crossed(2, 3) \/ crossed(1, 3)) =>
            /\ L[1, 2] /\ L[2, 3] => L[1, 3]
            /\ same(1, 2) /\ same(2, 3) => same(1, 3)

(* What to_string writes with a binding is the text of the substituted     *)
(* term, and format reads it as that term, to the end of the text and with *)
(* the types of its variables, exactly if the term has none of these:      *)
(* booleans, which are read as atoms; doubles with a zero between their    *)
(* decimals, which are cut off there; atoms and strings with characters at *)
(* which the reader stops; and what has no notation that is read.          *)
InnerZero(t) == Type(t) = "DOUBLE" /\ (t[2] \div 10) % 10 = 0 /\ t[2] % 10 # 0
Broken(t) ==
  (Type(t) = "ATOM" /\ WordOf(t[2]) \in DOMAIN Split) \/ (Type(t) = "STRING" /\ <<"string", t[2]>> \in DOMAIN Split)
Readable(t) ==
  ~ Holds(t, LAMBDA x : InnerZero(x) \/ Broken(x) \/ Type(x) \in {"BOOL", "PID", "PORT", "REF", "MAP"})


(* The tokens of a text without commas and blanks, arguments filled in.    *)
TokensOf(text) ==
  LET seen == SelectSeq(text, LAMBDA tok : Kind(tok) \notin {",", " "})
      nth(i) == Cardinality({j \in 1 .. i : Kind(seen[j]) = "~"})
      plain(i) == CASE Kind(seen[i]) = "~" -> dump(Arguments[nth(i)], Empty)[1]
                    [] Kind(seen[i]) = "quoted" -> <<"word", seen[i][2]>>
                    [] OTHER -> seen[i]
  IN [i \in DOMAIN seen |-> plain(i)]

(* A text that format takes is the text of the term it gives, but for      *)
(* commas and blanks: no token is dropped, added or moved, and the i-th    *)
(* directive stands for the i-th argument (texts with | are left out); and *)
(* a call is read only if the whole text is one: a module, a function, the *)
(* arguments with single commas between them, and at most a dot after.     *)
ReadFaithful ==
  /\ last[1] = "read" /\ last[3] # Throw /\ <<"|">> \notin Range(last[2]) =>
       LET used == SubSeq(last[2], 1, Len(last[2]) - Len(last[3][2]))
       IN TokensOf(used) = TokensOf(dump(last[3][1], Empty))
  /\ last[1] = "call" /\ last[3] # Throw =>
       LET r == last[3]
           inner == WithCommas([i \in DOMAIN r[3] |-> dump(r[3][i], Empty)])
           call == r[1] \o <<<<":">>>> \o r[2] \o <<<<"(">>>> \o inner \o <<<<")">>>>
           noBlank(text) == SelectSeq(text, LAMBDA tok : tok # Blank)
       IN noBlank(last[2]) \in {noBlank(call), noBlank(call) \o <<<<".">>>>}

(* A match succeeds exactly if the places of the pattern's variables agree *)
(* with each other, with the binding and with their types, whichever side  *)
(* the pattern is on; it binds the new names to what stands there, so that *)
(* the pattern then stands for the term; and it binds nothing if it fails. *)
MatchMeaning ==
  last[1] = "match" =>
    LET t == last[2]  p == last[3]  before == last[4]
    IN /\ (last[5] = "yes") = MatchMeans(p, t, before)
       /\ binding = IF last[5] = "yes" THEN Meaning(p, t, before) ELSE before
       /\ last[5] = "yes" /\ ~ Holds(p, LAMBDA x : IsVar(x) /\ IsAny(x)) => subst(p, binding) = <<TRUE, t>>

(* The list of patterns gives the index of the first rule whose pattern    *)
(* matches under the caller's binding and whose functor accepts, whatever  *)
(* the rules tried before it have matched: that functor is called with     *)
(* what its own pattern and the caller's binding say, and the caller's     *)
(* binding is afterwards what it was.                                      *)
FirstRuleWins ==
  last[1] = "rules" =>
    LET t == last[2]  before == last[3]  r == last[4]
        takes(i) == rules[i].accepts /\ MatchMeans(rules[i].pattern, t, before)
    IN /\ binding = before
       /\ \A i \in DOMAIN rules : takes(i) => r.index \in 1 .. i
       /\ r.index # 0 => takes(r.index) /\ r.given = Meaning(rules[r.index].pattern, t, before)
================================================================================
