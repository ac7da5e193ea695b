------------------------------ MODULE TermFormat ------------------------------
(***************************************************************************)
(* eterm::format, which reads a term from text, and dump, which writes     *)
(* one.  A text is a sequence of tokens, each a tuple that starts with its *)
(* kind: <<"{">>, <<"}">>, <<"[">>, <<"]">>, <<",">>, <<"|">>, <<" ">> (a  *)
(* run of blanks or a comment), <<"word", x>>, <<"quoted", x>>,            *)
(* <<"digits", n>>, <<"float", n>>, <<"string", x>>, <<"<<", size, n>>,    *)
(* <<"Var", name, word of its type>> and <<"~", letter>>; calls also have  *)
(* <<":">>, <<"(">>, <<")">> and <<".">>.  Tokens are what the reader      *)
(* takes at once: a word has letters, digits, _ and @ (patom), a quoted    *)
(* atom and a string end at the next quote without a backslash before it.  *)
(***************************************************************************)
EXTENDS ExtFormat, TermMatch

CONSTANTS
  BareText,   \* texts that start with a small letter and have no blank
  Split       \* the tokens that are read where a text is not read as one:
              \* <<"word", n@host.dom>> |-> n@host . dom, and texts with quotes

Kind(tok) == tok[1]
Blank == <<" ">>

(* The words that type_string_to_type knows; what it takes are also their  *)
(* prefixes of three letters or more, of which bin stands for all.         *)
type_string_to_type ==
  [int |-> "LONG", integer |-> "LONG", byte |-> "LONG", char |-> "LONG", double |-> "DOUBLE",
   float |-> "DOUBLE", bool |-> "BOOL", boolean |-> "BOOL", binary |-> "BINARY", bin |-> "BINARY",
   atom |-> "ATOM", string |-> "STRING", pid |-> "PID", port |-> "PORT", ref |-> "REF",
   reference |-> "REF", var |-> "VAR", tuple |-> "TUPLE", trace |-> "TRACE", list |-> "LIST",
   map |-> "MAP"]

type_to_type_string ==
  [LONG |-> "int", DOUBLE |-> "float", BOOL |-> "bool", ATOM |-> "atom", STRING |-> "string",
   BINARY |-> "binary", PID |-> "pid", PORT |-> "port", REF |-> "ref", VAR |-> "var",
   TUPLE |-> "tuple", LIST |-> "list", MAP |-> "map", TRACE |-> "trace", UNDEFINED |-> ""]

(***************************************************************************)
(* Reading: <<term, tokens that are left, arguments that are left>>, or    *)
(* Throw for err_format_exception.                                         *)
(***************************************************************************)
Throw == <<>>

RECURSIVE skip_ws_and_comments(_)
skip_ws_and_comments(s) ==
  IF s # <<>> /\ Head(s) = Blank THEN skip_ws_and_comments(Tail(s)) ELSE s

\* the variable _ has no type
pvariable(tok, s, args) ==
  LET type == IF tok[2] = AnyName \/ tok[3] = "" THEN "UNDEFINED" ELSE type_string_to_type[tok[3]]
  IN IF tok[3] # "" /\ tok[3] \notin DOMAIN type_string_to_type THEN Throw
     ELSE <<<<"VAR", tok[2], type>>, s, args>>

\* Mutant: the arguments are not moved on.
pformatStuck(letter, s, args) ==
  IF letter \in {"v", "w", "a", "s", "i", "l", "u", "f"} THEN <<Head(args), s, args>> ELSE Throw

\* the next argument, which has the type of the letter, is taken
pformat(letter, s, args) ==
  IF letter \in {"v", "w", "a", "s", "i", "l", "u", "f"} THEN <<Head(args), s, Tail(args)>>
  ELSE Throw

\* what is neither a tuple nor a list, after its token
ReadScalar(tok, s, args) ==
  CASE Kind(tok) = "Var" -> pvariable(tok, s, args)
    [] Kind(tok) = "~" -> pformat(tok[2], s, args)
    [] Kind(tok) \in {"word", "quoted"} -> <<<<"ATOM", tok[2]>>, s, args>>
    [] Kind(tok) = "digits" -> <<<<"LONG", tok[2]>>, s, args>>
    [] Kind(tok) = "float" -> <<<<"DOUBLE", tok[2]>>, s, args>>
    [] Kind(tok) = "string" -> <<<<"STRING", tok[2]>>, s, args>>
    [] Kind(tok) = "<<" -> <<<<"BINARY", tok[2], tok[3]>>, s, args>>
    [] OTHER -> Throw

RECURSIVE eformat(_, _)
RECURSIVE ptuple(_, _, _)
RECURSIVE plist(_, _, _)

\* commas are skipped wherever they stand
ptuple(text, args, v) ==
  LET s == skip_ws_and_comments(text)
  IN IF s # <<>> /\ Kind(Head(s)) = "}" THEN <<v, Tail(s), args>>
     ELSE IF s # <<>> /\ Kind(Head(s)) = "," THEN ptuple(Tail(s), args, v)
     ELSE LET r == eformat(s, args)
          IN IF r = Throw THEN Throw ELSE ptuple(r[2], r[3], Append(v, r[1]))

\* after | comes a variable, which is made the last element; the ] that has
\* to follow is left to be read
plistTail(text, args, v) ==
  LET s == skip_ws_and_comments(text)
      r == IF s # <<>> /\ Kind(Head(s)) = "Var" THEN pvariable(Head(s), Tail(s), args) ELSE Throw
      rest == IF r = Throw THEN <<>> ELSE skip_ws_and_comments(r[2])
  IN IF rest # <<>> /\ Kind(Head(rest)) = "]" THEN <<Append(v, r[1]), rest, args>> ELSE Throw

plist(text, args, v) ==
  LET s == skip_ws_and_comments(text)
      kind == IF s = <<>> THEN "" ELSE Kind(Head(s))
  IN CASE kind = "]" -> <<v, Tail(s), args>>
       [] kind = "," -> plist(Tail(s), args, v)
       [] kind = "|" -> plistTail(Tail(s), args, v)
       [] OTHER -> LET r == eformat(s, args)
                   IN IF r = Throw THEN Throw ELSE plist(r[2], r[3], Append(v, r[1]))

eformat(text, args) ==
  LET s == skip_ws_and_comments(text)
      made(type, r) == IF r = Throw THEN Throw ELSE <<<<type, r[1]>>, r[2], r[3]>>
  IN IF s = <<>> THEN Throw
     ELSE CASE Kind(Head(s)) = "{" -> made("TUPLE", ptuple(Tail(s), args, <<>>))
            [] Kind(Head(s)) = "[" -> made("LIST", plist(Tail(s), args, <<>>))
            [] OTHER -> ReadScalar(Head(s), Tail(s), args)

\* the arguments of a call, up to the bracket
RECURSIVE MfaArguments(_, _, _)
MfaArguments(s, args, v) ==
  LET r == eformat(s, args)
      rest == IF r = Throw THEN <<>> ELSE skip_ws_and_comments(r[2])
      kind == IF rest = <<>> THEN "" ELSE Kind(Head(rest))
  IN CASE kind = ")" -> <<Append(v, r[1]), Tail(rest), r[3]>>
       [] kind = "," -> MfaArguments(Tail(rest), r[3], Append(v, r[1]))
       [] OTHER -> Throw

\* Module:Function(Args...): the tokens of the two names and the arguments;
\* the names are all that stands before the first : and then before the (
eformat_mfa(text, args) ==
  LET s == skip_ws_and_comments(text)
      colon == SelectInSeq(s, LAMBDA tok : Kind(tok) = ":")
      open == SelectInSeq(SubSeq(s, colon + 1, Len(s)), LAMBDA tok : Kind(tok) = "(") + colon
      p == skip_ws_and_comments(SubSeq(s, open + 1, Len(s)))
      r == IF p = <<>> THEN Throw
           ELSE IF Kind(Head(p)) = ")" THEN <<<<>>, Tail(p), args>>
           ELSE MfaArguments(p, args, <<>>)
      after == IF r = Throw THEN <<>> ELSE skip_ws_and_comments(r[2])
      end == IF after # <<>> /\ Kind(Head(after)) = "." THEN skip_ws_and_comments(Tail(after)) ELSE after
  IN IF colon = 0 \/ open = colon \/ r = Throw \/ end # <<>> THEN Throw
     ELSE <<SubSeq(s, 1, colon - 1), SubSeq(s, colon + 1, open - 1), r[1]>>

(***************************************************************************)
(* Writing, with the binding given to to_string                            *)
(***************************************************************************)
\* a text is written as it is, without escapes: quotes within it end it
AsRead(tok) == IF tok \in DOMAIN Split THEN Split[tok] ELSE <<tok>>

\* only the first character and blanks are looked at
WordOf(x) == IF x \in BareText THEN <<"word", x>> ELSE <<"quoted", x>>

\* the elements with commas between them
WithCommas(s) ==
  FlattenSeq([i \in DOMAIN s |-> IF i = 1 THEN s[i] ELSE <<<<",">>>> \o s[i]])

(* Of the decimals of a double (three here) those before the first zero    *)
(* are written; the first decimal always is.                               *)
Decimals(n) == IF (n \div 10) % 10 = 0 THEN n - (n % 100) ELSE n

RECURSIVE dump(_, _)


DumpVar(v, b) ==
  IF v[2] \in DOMAIN b /\ check_type(v, b[v[2]]) THEN dump(b[v[2]], b)
  ELSE <<<<"Var", v[2], type_to_type_string[v[3]]>>>>

dump(t, b) ==
  LET all(s) == WithCommas([i \in DOMAIN s |-> dump(s[i], b)])
  IN CASE Type(t) = "TUPLE" -> <<<<"{">>>> \o all(t[2]) \o <<<<"}">>>>
       [] Type(t) = "LIST" -> <<<<"[">>>> \o all(t[2]) \o <<<<"]">>>>
       [] Type(t) = "MAP" ->
            <<<<"#{">>>>
            \o WithCommas([i \in DOMAIN t[2] |->
                             dump(t[2][i][1], b) \o <<<<"=>">>>> \o dump(t[2][i][2], b)])
            \o <<<<"}">>>>
       [] Type(t) = "VAR" -> DumpVar(t, b)
       [] Type(t) = "ATOM" -> AsRead(WordOf(t[2]))
       [] Type(t) = "BOOL" -> <<<<"word", IF t[2] THEN TrueText ELSE FalseText>>>>
       [] Type(t) = "LONG" -> <<<<"digits", t[2]>>>>
       [] Type(t) = "DOUBLE" -> <<<<"float", Decimals(t[2])>>>>
       [] Type(t) = "STRING" -> AsRead(<<"string", t[2]>>)
       [] Type(t) = "BINARY" -> <<<<"<<", t[2], t[3]>>>>
       [] OTHER -> <<<<"#">> \o t>>
================================================================================
