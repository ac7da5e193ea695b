------------------------------- MODULE TermMatch -------------------------------
(***************************************************************************)
(* Pattern matching (eterm::match), variable bindings (varbind) and        *)
(* substitution.  A binding is a function from the names that are bound;   *)
(* a match gives <<"yes" | "no" | "unbound", binding>>, where unbound is   *)
(* the exception err_unbound_variable.                                     *)
(***************************************************************************)
EXTENDS Term, Functions

AnyName == "_"
IsAny(v) == v[2] = AnyName
IsVar(t) == Type(t) = "VAR"

Empty == [x \in {} |-> <<>>]

(* varbind::bind ignores a name that is bound.                             *)
bind(b, name, t) ==
  IF name \in DOMAIN b THEN b
  ELSE [x \in DOMAIN b \cup {name} |-> IF x = name THEN t ELSE b[x]]

merge(b, c) == [x \in DOMAIN b \cup DOMAIN c |-> IF x \in DOMAIN b THEN b[x] ELSE c[x]]

(* var::check_type: an empty list passes for a string.                     *)
check_type(v, t) ==
  \/ IsAny(v)
  \/ v[3] \in {"UNDEFINED", Type(t)}
  \/ v[3] = "STRING" /\ t = <<"LIST", <<>>>>

(***************************************************************************)
(* subst: <<ok, term>>.  Variables within maps are left alone.             *)
(***************************************************************************)
RECURSIVE subst(_, _)
subst(t, b) ==
  CASE IsVar(t) ->
         IF t[2] \in DOMAIN b /\ check_type(t, b[t[2]]) THEN <<TRUE, b[t[2]]>> ELSE <<FALSE, t>>
    [] Type(t) \in {"TUPLE", "LIST"} ->
         LET s == [i \in DOMAIN t[2] |-> subst(t[2][i], b)]
         IN <<\A i \in DOMAIN s : s[i][1], <<t[1], [i \in DOMAIN s |-> s[i][2]]>>>>
    [] OTHER -> <<TRUE, t>>

(***************************************************************************)
(* match                                                                   *)
(***************************************************************************)
RECURSIVE match(_, _, _)
RECURSIVE MatchAll(_, _, _, _)

\* the elements one after the other, with the bindings of those before
MatchAll(s, t, i, b) ==
  IF i > Len(s) THEN <<"yes", b>>
  ELSE LET r == match(s[i], t[i], b)
       IN IF r[1] = "yes" THEN MatchAll(s, t, i + 1, r[2]) ELSE r

\* Mutant: a variable that is bound is bound again.
VarMatchRebinds(v, t, b) ==
  IF IsAny(v) THEN <<"yes", b>>
  ELSE IF ~ check_type(v, t) THEN <<"no", b>>
  ELSE <<"yes", bind(b, v[2], t)>>

VarMatch(v, t, b) ==
  IF IsAny(v) THEN <<"yes", b>>
  ELSE IF v[2] \in DOMAIN b
  THEN IF check_type(v, b[v[2]]) THEN match(b[v[2]], t, b) ELSE <<"no", b>>
  ELSE IF ~ check_type(v, t) THEN <<"no", b>>
  ELSE LET s == subst(t, b)
       IN IF s[1] THEN <<"yes", bind(b, v[2], s[2])>> ELSE <<"unbound", b>>

CompoundMatch(a, p, b) ==
  IF Type(a) # Type(p) \/ Len(a[2]) # Len(p[2]) THEN <<"no", b>>
  ELSE MatchAll(a[2], p[2], 1, b)

\* visit_eterm_match, applied to a
VisitMatch(a, p, b) ==
  CASE IsVar(a) -> VarMatch(a, p, b)
    [] ~ IsVar(a) /\ IsVar(p) -> match(p, a, b)
    [] ~ IsVar(a) /\ ~ IsVar(p) /\ Type(a) \in {"TUPLE", "LIST"} -> CompoundMatch(a, p, b)
    [] ~ IsVar(a) /\ ~ IsVar(p) /\ Type(a) \notin {"TUPLE", "LIST"} ->
         <<IF Equal(a, p) THEN "yes" ELSE "no", b>>

\* works on a copy of the binding, and merges it when the match succeeds
match(a, p, b) ==
  LET r == VisitMatch(a, p, b)
  IN IF r[1] = "yes" THEN <<"yes", merge(b, r[2])>> ELSE <<r[1], b>>

(***************************************************************************)
(* eterm_pattern_matcher: a list of actions [pattern, accepts, storage],   *)
(* where accepts is what the functor returns and storage the blob that a   *)
(* compound pattern is in.                                                 *)
(***************************************************************************)
push_back(list, a) == Append(list, a)
push_front(list, a) == <<a>> \o list

Compound(t) == Type(t) \in {"TUPLE", "LIST", "MAP"}

\* eterm::equals: the same value or, for what has a blob, the same blob
equals(a, c) == a.pattern = c.pattern /\ (Compound(a.pattern) => a.storage = c.storage)

\* std::find with the operator== of actions
erase(list, a) ==
  IF \E i \in DOMAIN list : equals(list[i], a)
  THEN RemoveAt(list, SelectInSeq(list, LAMBDA x : equals(x, a)))
  ELSE list

\* Mutant: the pattern is matched with the caller's binding itself.
ActionLeaks(a, t, b) ==
  LET r == match(a.pattern, t, b)
  IN [takes |-> r[1] = "yes" /\ a.accepts, given |-> r[2], binding |-> r[2]]

\* eterm_pattern_action::operator(): a binding of its own, merged with the
\* caller's, is used for the match and given to the functor
Action(a, t, b) ==
  LET own == merge(Empty, b)
      r == match(a.pattern, t, own)
  IN [takes |-> r[1] = "yes" /\ a.accepts, given |-> r[2], binding |-> b]

RECURSIVE MatchFrom(_, _, _, _)
\* the actions from the i-th on, each with the caller's binding as the one
\* before has left it
MatchFrom(list, t, b, i) ==
  IF i > Len(list) THEN [index |-> 0, given |-> Empty, binding |-> b]
  ELSE LET r == Action(list[i], t, b)
       IN IF r.takes THEN [index |-> i, given |-> r.given, binding |-> r.binding]
          ELSE MatchFrom(list, t, r.binding, i + 1)

\* index of the first action that takes the term, or 0
PatternMatch(list, t, b) == MatchFrom(list, t, b, 1)

(***************************************************************************)
(* What a match means: the terms at the places of a variable are all the   *)
(* same, and the one it is bound to.  For a term without variables.        *)
(***************************************************************************)
RECURSIVE Places(_, _)
\* the pairs of a variable of the pattern and what stands there in the term;
\* a pair whose first is no variable says that the shapes differ
Places(p, t) ==
  IF IsVar(p) THEN {<<p, t>>}
  ELSE IF Type(p) \in {"TUPLE", "LIST"} /\ Type(t) = Type(p) /\ Len(p[2]) = Len(t[2])
  THEN UNION {Places(p[2][i], t[2][i]) : i \in DOMAIN p[2]}
  ELSE IF Equal(p, t) THEN {} ELSE {<<p, t>>}

Named(places) == {x \in places : ~ IsAny(x[1])}

MatchMeans(p, t, b) ==
  LET places == Places(p, t)
  IN /\ \A x \in places : IsVar(x[1]) /\ check_type(x[1], x[2])
     /\ \A x, y \in Named(places) : x[1][2] = y[1][2] => Equal(x[2], y[2])
     /\ \A x \in Named(places) : x[1][2] \in DOMAIN b => Equal(x[2], b[x[1][2]])

Meaning(p, t, b) ==
  LET places == Named(Places(p, t))
  IN [n \in DOMAIN b \cup {x[1][2] : x \in places} |->
        IF n \in DOMAIN b THEN b[n] ELSE (CHOOSE x \in places : x[1][2] = n)[2]]
================================================================================
