------------------------------- MODULE ExtFormat -------------------------------
(***************************************************************************)
(* The external term format: encode_size, encode and decode of every type. *)
(* What is written is a sequence of fields <<width in bytes, value>>; the  *)
(* offset that encode leaves is the sum of the widths.  A text has the     *)
(* length that TextSize gives it, so that the limits of 255 and 65535      *)
(* bytes are the real ones.  The ei library writes booleans, numbers and   *)
(* headers of tuples.  Integers of more than 32 bits are left out.  v4     *)
(* says whether ei.h defines ERL_V4_PORT_EXT (OTP 24 and later).           *)
(***************************************************************************)
EXTENDS Term

CONSTANTS
  TextSize,   \* length in bytes of each text
  TrueText, FalseText

ASSUME ExtFormatAssumption ==
  /\ {TrueText, FalseText} \subseteq DOMAIN TextSize
  /\ \A x \in DOMAIN TextSize : TextSize[x] \in 0 .. 70000

tag(x) == <<1, x>>
put8(n) == <<1, n % 256>>
put16be(n) == <<2, n % 65536>>
put32be(n) == <<4, n>>
put64be(n) == <<8, n>>
chars(x, n) == <<n, x>>

\* Sequences are gone through by halves, which keeps the recursion shallow.
Upper(s) == SubSeq(s, Len(s) \div 2 + 1, Len(s))
Lower(s) == SubSeq(s, 1, Len(s) \div 2)

RECURSIVE Width(_)
Width(fields) ==
  CASE Len(fields) = 0 -> 0
    [] Len(fields) = 1 -> fields[1][1]
    [] Len(fields) > 1 -> Width(Lower(fields)) + Width(Upper(fields))

Failed == <<>>   \* decode has thrown
\* A byte that encode skips has the value the buffer had.  Whatever tag that is, what
\* decode makes of it is not the term that was written: it takes it for no tag at all.
UnsetTag == tag("UNSET")
MaxPortId == 268435455   \* 0x0fffffff
MaxAtomLen == 1021       \* MAXATOMLEN_UTF8

(***************************************************************************)
(* encode_size                                                             *)
(***************************************************************************)
AtomEncodeSize(x) == (IF TextSize[x] > 255 THEN 3 ELSE 2) + TextSize[x]

StringEncodeSize(x) ==
  LET n == TextSize[x]
  IN IF n = 0 THEN 1 ELSE n + (IF n <= 65535 THEN 3 ELSE 5 + n + 1)

PidEncodeSize(t) == 16 + TextSize[t[2]]

\* the node's length is added to the smaller size only
PortEncodeSize(t) == IF t[3] > MaxPortId THEN 16 ELSE 12 + TextSize[t[2]]

RefEncodeSize(t) == 1 + 2 + (3 + TextSize[t[2]]) + 4 * Len(t[3]) + 4

RECURSIVE encode_size(_)
RECURSIVE SumSizes(_)

SumSizes(s) ==
  CASE Len(s) = 0 -> 0
    [] Len(s) = 1 -> encode_size(s[1])
    [] Len(s) > 1 -> SumSizes(Lower(s)) + SumSizes(Upper(s))

TupleEncodeSize(s) == (IF Len(s) <= 255 THEN 2 ELSE 5) + SumSizes(s)

ListEncodeSize(s) == IF s = <<>> THEN 1 ELSE 5 + 1 + SumSizes(s)

MapEncodeSize(s) == 5 + FoldLeft(LAMBDA n, p : n + SumSizes(p), 0, s)

encode_size(t) ==
  CASE Type(t) = "BOOL" -> 2 + (IF t[2] THEN 4 ELSE 5)
    [] Type(t) = "DOUBLE" -> 9
    [] Type(t) = "LONG" -> IF t[2] \in 0 .. 255 THEN 2 ELSE 5
    [] Type(t) = "ATOM" -> AtomEncodeSize(t[2])
    [] Type(t) = "STRING" -> StringEncodeSize(t[2])
    [] Type(t) = "BINARY" -> 5 + t[2]
    [] Type(t) = "PID" -> PidEncodeSize(t)
    [] Type(t) = "PORT" -> PortEncodeSize(t)
    [] Type(t) = "REF" -> RefEncodeSize(t)
    [] Type(t) \in {"TUPLE", "TRACE"} -> TupleEncodeSize(t[2])
    [] Type(t) = "LIST" -> ListEncodeSize(t[2])
    [] Type(t) = "MAP" -> MapEncodeSize(t[2])

(***************************************************************************)
(* encode                                                                  *)
(***************************************************************************)
\* Mutant: the short form is used up to 256 bytes.
AtomEncodeShort256(x) ==
  LET n == Min({MaxAtomLen, TextSize[x]})
  IN (IF n > 256 THEN <<tag("ATOM_UTF8_EXT"), put16be(n)>>
                 ELSE <<tag("SMALL_ATOM_UTF8_EXT"), put8(n)>>) \o <<chars(x, n)>>

AtomEncode(x) ==
  LET n == Min({MaxAtomLen, TextSize[x]})
  IN (IF n > 255 THEN <<tag("ATOM_UTF8_EXT"), put16be(n)>>
                 ELSE <<tag("SMALL_ATOM_UTF8_EXT"), put8(n)>>) \o <<chars(x, n)>>

\* ei_encode_boolean, ei_encode_longlong, ei_encode_double
NumberEncode(t) ==
  CASE Type(t) = "BOOL" -> AtomEncode(IF t[2] THEN TrueText ELSE FalseText)
    [] Type(t) = "DOUBLE" -> <<tag("NEW_FLOAT_EXT"), <<8, t[2]>>>>
    [] Type(t) = "LONG" -> IF t[2] \in 0 .. 255 THEN <<tag("SMALL_INTEGER_EXT"), put8(t[2])>>
                                                ELSE <<tag("INTEGER_EXT"), put32be(t[2])>>

\* ei_encode_string_len: a long string is a list of small integers
StringEncode(x) ==
  LET n == TextSize[x]
  IN CASE n = 0 -> <<tag("NIL_EXT")>>
       [] n \in 1 .. 65535 -> <<tag("STRING_EXT"), put16be(n), chars(x, n)>>
       [] n > 65535 -> <<tag("LIST_EXT"), put32be(n), chars(x, 2 * n), tag("NIL_EXT")>>

BinaryEncode(t) == <<tag("BINARY_EXT"), put32be(t[2]), chars(t[3], t[2])>>

\* the node of a pid, a port or a ref always has the long form
NodeEncode(x) == <<tag("ATOM_UTF8_EXT"), put16be(TextSize[x]), chars(x, TextSize[x])>>

PidEncode(t) ==
  <<tag("NEW_PID_EXT")>> \o NodeEncode(t[2]) \o <<put32be(t[3]), put32be(t[4]), put32be(t[5])>>

\* with ERL_V4_PORT_EXT nothing follows the node of a small id, and the tag
\* is whatever the buffer held
PortEncode(t, v4) ==
  CASE v4 /\ t[3] > MaxPortId ->
         <<tag("V4_PORT_EXT")>> \o NodeEncode(t[2]) \o <<put64be(t[3]), put32be(t[4])>>
    [] v4 /\ t[3] <= MaxPortId -> <<UnsetTag>> \o NodeEncode(t[2])
    [] ~ v4 ->
         <<tag("NEW_PORT_EXT")>> \o NodeEncode(t[2])
         \o <<put32be(t[3] % (MaxPortId + 1)), put32be(t[4])>>

RefEncode(t) ==
  <<tag("NEWER_REFERENCE_EXT"), put16be(Len(t[3]))>> \o NodeEncode(t[2]) \o <<put32be(t[4])>>
  \o [i \in DOMAIN t[3] |-> put32be(t[3][i])]

RECURSIVE encode(_, _)
RECURSIVE EncodeAll(_, _)

EncodeAll(s, v4) ==
  CASE Len(s) = 0 -> <<>>
    [] Len(s) = 1 -> encode(s[1], v4)
    [] Len(s) > 1 -> EncodeAll(Lower(s), v4) \o EncodeAll(Upper(s), v4)

\* ei_encode_tuple_header
TupleEncode(s, v4) ==
  (IF Len(s) <= 255 THEN <<tag("SMALL_TUPLE_EXT"), put8(Len(s))>>
                    ELSE <<tag("LARGE_TUPLE_EXT"), put32be(Len(s))>>) \o EncodeAll(s, v4)

ListEncode(s, v4) ==
  IF s = <<>> THEN <<tag("NIL_EXT")>>
  ELSE <<tag("LIST_EXT"), put32be(Len(s))>> \o EncodeAll(s, v4) \o <<tag("NIL_EXT")>>

MapEncode(s, v4) ==
  <<tag("MAP_EXT"), put32be(Len(s))>> \o FlattenSeq([i \in DOMAIN s |-> EncodeAll(s[i], v4)])

encode(t, v4) ==
  CASE Type(t) \in {"BOOL", "DOUBLE", "LONG"} -> NumberEncode(t)
    [] Type(t) = "ATOM" -> AtomEncode(t[2])
    [] Type(t) = "STRING" -> StringEncode(t[2])
    [] Type(t) = "BINARY" -> BinaryEncode(t)
    [] Type(t) = "PID" -> PidEncode(t)
    [] Type(t) = "PORT" -> PortEncode(t, v4)
    [] Type(t) = "REF" -> RefEncode(t)
    [] Type(t) \in {"TUPLE", "TRACE"} -> TupleEncode(t[2], v4)
    [] Type(t) = "LIST" -> ListEncode(t[2], v4)
    [] Type(t) = "MAP" -> MapEncode(t[2], v4)

(***************************************************************************)
(* decode: <<term, fields that are left>>.  The tag of the next term       *)
(* chooses the type; an atom true or false becomes a BOOL.  The padding of *)
(* a new ref blob is not initialised: it holds pad.                        *)
(***************************************************************************)
Rest(f, n) == SubSeq(f, n + 1, Len(f))

AtomDecode(f) ==
  LET x == f[3][2]
      t == IF x = TrueText THEN <<"BOOL", TRUE>>
           ELSE IF x = FalseText THEN <<"BOOL", FALSE>>
           ELSE <<"ATOM", x>>
  IN IF f[3][1] = f[2][2] THEN <<t, Rest(f, 3)>> ELSE Failed

StringDecode(f) == <<<<"STRING", f[3][2]>>, Rest(f, 3)>>

BinaryDecode(f) == <<<<"BINARY", f[2][2], f[3][2]>>, Rest(f, 3)>>

PidDecode(f) == <<<<"PID", f[4][2], f[5][2], f[6][2], f[7][2]>>, Rest(f, 7)>>

PortDecode(f) == <<<<"PORT", f[4][2], f[5][2], f[6][2]>>, Rest(f, 6)>>

\* up to five ids
RefDecode(f, pad) ==
  LET n == f[2][2]
  IN IF n > 5 THEN Failed
     ELSE <<<<"REF", f[5][2], [i \in 1 .. n |-> f[6 + i][2]], f[6][2], pad>>, Rest(f, 6 + n)>>

RECURSIVE decode(_, _)
RECURSIVE DecodeN(_, _, _)

\* n terms, one after the other
DecodeN(n, f, pad) ==
  CASE n = 0 -> <<<<>>, f>>
    [] n = 1 -> LET r == decode(f, pad) IN IF r = Failed THEN Failed ELSE <<<<r[1]>>, r[2]>>
    [] n > 1 -> LET r == DecodeN(n \div 2, f, pad)
                    q == IF r = Failed THEN Failed ELSE DecodeN(n - n \div 2, r[2], pad)
                IN IF q = Failed THEN Failed ELSE <<r[1] \o q[1], q[2]>>

TupleDecode(f, pad) ==
  LET r == DecodeN(f[2][2], Rest(f, 2), pad)
  IN IF r = Failed THEN Failed ELSE <<<<"TUPLE", r[1]>>, r[2]>>

ListDecode(f, pad) ==
  LET r == DecodeN(f[2][2], Rest(f, 2), pad)
  IN IF r = Failed \/ Head(r[2]) # tag("NIL_EXT") THEN Failed
     ELSE <<<<"LIST", r[1]>>, Rest(r[2], 1)>>

MapDecode(f, pad) ==
  LET r == DecodeN(2 * f[2][2], Rest(f, 2), pad)
  IN IF r = Failed THEN Failed
     ELSE <<MapOf([i \in 1 .. f[2][2] |-> <<r[1][2 * i - 1], r[1][2 * i]>>]), r[2]>>

decode(f, pad) ==
  LET x == f[1][2]
  IN CASE x \in {"SMALL_ATOM_UTF8_EXT", "ATOM_UTF8_EXT"} -> AtomDecode(f)
       [] x \in {"SMALL_TUPLE_EXT", "LARGE_TUPLE_EXT"} -> TupleDecode(f, pad)
       [] x = "STRING_EXT" -> StringDecode(f)
       [] x = "LIST_EXT" -> ListDecode(f, pad)
       [] x = "NIL_EXT" -> <<<<"LIST", <<>>>>, Rest(f, 1)>>
       [] x \in {"SMALL_INTEGER_EXT", "INTEGER_EXT"} -> <<<<"LONG", f[2][2]>>, Rest(f, 2)>>
       [] x = "NEW_FLOAT_EXT" -> <<<<"DOUBLE", f[2][2]>>, Rest(f, 2)>>
       [] x = "BINARY_EXT" -> BinaryDecode(f)
       [] x = "NEW_PID_EXT" -> PidDecode(f)
       [] x = "NEWER_REFERENCE_EXT" -> RefDecode(f, pad)
       [] x \in {"NEW_PORT_EXT", "V4_PORT_EXT"} -> PortDecode(f)
       [] x = "MAP_EXT" -> MapDecode(f, pad)
       [] OTHER -> Failed
================================================================================
