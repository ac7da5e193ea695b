----------------------------- MODULE HandshakeProofs -----------------------------
(***************************************************************************)
(* Proofs about Handshake, for any set of peers and any number of          *)
(* addresses: however what epmd and the peer send is cut into reads, no    *)
(* handler takes one message for another.                                  *)
(*                                                                         *)
(* The invariant says for every state of the connection what has been read *)
(* and not used and what is on the way: always a piece of the answer of    *)
(* that part of the handshake, from a known place on.                      *)
(***************************************************************************)
EXTENDS Handshake, TLAPS

(***************************************************************************)
(* What the other side sends in the three parts of the handshake.          *)
(***************************************************************************)
NameAnswer == Framed(Status) \o IF peer.status = "nok" THEN <<>> ELSE Framed(PeerChallenge)
Ack == <<Field("a"), Field(gen_digest(gen_challenge("us"), peer.cookie))>>
AckAnswer == Framed(Ack)

Plain(tag) == [tag |-> tag]
Reply == [tag |-> "r", challenge |-> gen_challenge("us"),
          digest |-> gen_digest(gen_challenge("peer"), Cookie)]

\* The units b that are read and not yet used and the units m that are on the way
\* are those of the answer w from the place off on; the connection may be lost
\* before the rest of w.
Along(b, m, w, off) ==
  /\ off + Len(b) + Len(m) <= Len(w)
  /\ \A i \in 1..Len(b) : b[i] = w[off + i]
  /\ \A i \in 1..Len(m) : m[i] = w[off + Len(b) + i]

\* A read that waits for the rest of what a header has announced.
AwaitsBody(h, next, n) ==
  h.next = next /\ h.expect = n /\ h.need > 0 /\ h.need = n - Len(h.buf)

AwaitsHeader(h, next) == h.next = next /\ h.need = 2 /\ h.buf = <<>>

Writes(h) == h.need = 0 /\ h.buf = <<>>

\* epmd has been asked, and has answered if anything is there.
Asking(h, m) ==
  /\ h.sent = <<Plain("PORT2_REQ")>> /\ pstate \in {"epmd", "lost"}
  /\ seen \in 0..1
  /\ seen = 0 => m = <<>>

\* The version epmd gave, of a peer that it knows.
EpmdVersion == IF peer.dist_high > EI_DIST_6 THEN EI_DIST_6 ELSE peer.dist_high

\* The name was sent in the form of the version; the peer has not seen it, or has
\* answered and waits for the complement or for the reply.
Named(h, m) ==
  /\ peer.epmd = "port" /\ h.dist_version = EpmdVersion
  /\ h.dist_version \in {EI_DIST_5, EI_DIST_6}
  /\ h.our_challenge = gen_challenge("us")
  /\ h.sent = <<Plain(IF h.dist_version = EI_DIST_5 THEN "n" ELSE "N")>>
  /\ \/ closed
     \/ pstate = "name" /\ seen = 0 /\ m = <<>> /\ Along(h.buf, m, NameAnswer, 0)
     \/ pstate = "complement" /\ seen = 1 /\ peer.version > h.dist_version
     \/ pstate = "reply" /\ seen = 1 /\ peer.version = h.dist_version

\* The reply was sent, after the complement if the version has changed.
Replied(h, m) ==
  /\ h.dist_version = peer.version
  /\ h.our_challenge = gen_challenge("us")
  /\ Len(h.buf) + Len(m) > 0 => pstate \in {"up", "lost"}
  /\ \/ closed
     \/ pstate = "up"
     \/ /\ pstate \in {"complement", "reply"}
        /\ seen = IF pstate = "complement" THEN 1 ELSE Len(h.sent) - 1
        /\ h.sent \in {<<Plain("n"), Reply>>, <<Plain("N"), Reply>>,
                       <<Plain("n"), Plain("c"), Reply>>}
        /\ pstate = "complement" => Len(h.sent) = 3

\* Where a connection h that has not failed is, with the units m on the way to it.
Phase(h, m) ==
  /\ h.state \in {"CS_WAIT_RESOLVE", "CS_WAIT_EPMD_CONNECT"} =>
       Writes(h) /\ h.sent = <<>> /\ m = <<>> /\ seen = 0 /\ pstate \in {"epmd", "lost"}
  /\ h.state = "CS_WAIT_EPMD_WRITE_DONE" =>
       Writes(h) /\ Asking(h, m) /\ Along(h.buf, m, EpmdReply, 0)
  /\ h.state = "CS_WAIT_EPMD_REPLY" =>
       /\ Asking(h, m)
       /\ \/ AwaitsHeader(h, "epmd_header") /\ Along(h.buf, m, EpmdReply, 0)
          \/ /\ AwaitsBody(h, "epmd_body", 2) /\ Along(h.buf, m, EpmdReply, 2)
             /\ peer.epmd = "port" /\ seen = 1
  /\ h.state = "CS_WAIT_CONNECT" =>
       /\ Writes(h) /\ pstate \in {"epmd", "lost"}
       /\ peer.epmd = "port" /\ h.dist_version = EpmdVersion /\ h.dist_version > 4
  /\ h.state = "CS_WAIT_WRITE_CHALLENGE_DONE" =>
       Writes(h) /\ Named(h, m) /\ Along(h.buf, m, NameAnswer, 0)
  /\ h.state = "CS_WAIT_STATUS" =>
       /\ Named(h, m)
       /\ \/ AwaitsHeader(h, "status_header") /\ Along(h.buf, m, NameAnswer, 0)
          \/ /\ AwaitsBody(h, "status_body", Len(Status))
             /\ Along(h.buf, m, NameAnswer, 2)
             /\ closed \/ pstate # "name"
  /\ h.state = "CS_WAIT_CHALLENGE" =>
       /\ Named(h, m) /\ (closed \/ pstate # "name")
       /\ \/ /\ h.next = "challenge_header" /\ h.need = 2 /\ Len(h.buf) < 2
             /\ peer.status # "nok" /\ Along(h.buf, m, NameAnswer, 5)
          \/ /\ AwaitsBody(h, "challenge_body", Len(PeerChallenge))
             /\ peer.status = "ok" /\ Along(h.buf, m, NameAnswer, 7)
  /\ h.state = "CS_WAIT_WRITE_CHALLENGE_REPLY_DONE" =>
       Writes(h) /\ Replied(h, m) /\ Along(h.buf, m, AckAnswer, 0)
  /\ h.state = "CS_WAIT_CHALLENGE_ACK" =>
       /\ Replied(h, m)
       /\ \/ AwaitsHeader(h, "ack_header") /\ Along(h.buf, m, AckAnswer, 0)
          \/ /\ AwaitsBody(h, "ack_body", 2) /\ Along(h.buf, m, AckAnswer, 2)
             /\ pstate \in {"up", "lost"}
  /\ h.state = "CS_CONNECTED" =>
       /\ h.need = 0
       /\ peer.cookie = Cookie /\ pstate \in {"up", "lost"}
       /\ h.dist_version = peer.version

\* The types of what is sent.
UnitsOf(s) == {s[i] : i \in 1..Len(s)}

Unit ==
  ({"hi", "lo"} \X Nat) \cup UnitsOf(EpmdReply) \cup UnitsOf(Status)
    \cup UnitsOf(PeerChallenge) \cup UnitsOf(Ack)

Message == {Plain(tag) : tag \in {"PORT2_REQ", "n", "N", "c"}} \cup {Reply}

Handlers ==
  {"none", "epmd_header", "epmd_body", "status_header", "status_body",
   "challenge_header", "challenge_body", "ack_header", "ack_body"}

Challenges == {<<>>, gen_challenge("us")}

Connection ==
  [state : States, next : Handlers, need : Nat, buf : Seq(Unit), expect : Nat,
   dist_version : Nat, our_challenge : Challenges, sent : Seq(Message),
   failed : BOOLEAN, asserted : BOOLEAN]

Types ==
  /\ c \in Connection /\ net \in Seq(Unit)
  /\ left \in 0..Endpoints /\ (c.state = "CS_WAIT_RESOLVE" => left = Endpoints)
  /\ peer \in Peers
  /\ seen \in 0..Len(c.sent)
  /\ pstate \in {"epmd", "name", "complement", "reply", "up", "lost"}
  /\ closed \in BOOLEAN /\ neterr \in BOOLEAN

Excused == neterr \/ ~ Good(peer)

Progress ==
  /\ c.asserted
  /\ c.failed \/ closed => Excused
  /\ ~ c.failed => Phase(c, net)

HandshakeInv == Types /\ Progress
-----------------------------------------------------------------------------
(***************************************************************************)
(* Units and answers.                                                      *)
(***************************************************************************)
LEMMA FieldIs ==
  ASSUME NEW x, NEW y
  PROVE  /\ Field(x)[1] = "field" /\ Field(x)[2] = x
         /\ Field(x) = Field(y) <=> x = y
BY DEF Field

LEMMA PrefixIs ==
  ASSUME NEW a, NEW b, NEW c3, NEW S, NEW t \in Seq(S)
  PROVE  IsPrefix(<<a, b, c3>>, t) <=> Len(t) >= 3 /\ t[1] = a /\ t[2] = b /\ t[3] = c3
BY DEF IsPrefix

LEMMA HeaderIs ==
  ASSUME NEW n \in Nat, NEW S, NEW s \in Seq(S), Len(s) >= 2, s[1] = <<"hi", n>>, s[2] = <<"lo", n>>
  PROVE  get16be(s) = n
BY DEF get16be

LEMMA GarbageIs ==
  ASSUME NEW x, NEW s, s[1] = Field(x)
  PROVE  get16be(s) = Garbage
BY DEF get16be, Field

LEMMA FramedIs ==
  ASSUME NEW S, NEW b \in Seq(S), ({"hi", "lo"} \X Nat) \subseteq S
  PROVE  /\ Framed(b) \in Seq(S) /\ Len(Framed(b)) = Len(b) + 2
         /\ Framed(b)[1] = <<"hi", Len(b)>> /\ Framed(b)[2] = <<"lo", Len(b)>>
         /\ \A i \in 1..Len(b) : Framed(b)[i + 2] = b[i]
<1> DEFINE h == <<<<"hi", Len(b)>>, <<"lo", Len(b)>>>>
<1>1. h \in Seq(S) /\ Len(h) = 2 /\ h[1] = <<"hi", Len(b)>> /\ h[2] = <<"lo", Len(b)>>
  <2>1. <<"hi", Len(b)>> \in S /\ <<"lo", Len(b)>> \in S
    OBVIOUS
  <2> QED BY <2>1
<1> HIDE DEF h
<1> QED BY <1>1 DEF Framed, h

LEMMA OwnUnits ==
  ASSUME NEW S, NEW s \in Seq(S), NEW T, \A i \in 1..Len(s) : s[i] \in T
  PROVE  s \in Seq(T)
OBVIOUS

\* What the answers consist of.
LEMMA EpmdReplyIs ==
  ASSUME peer \in Peers
  PROVE  /\ EpmdReply \in Seq(Unit)
         /\ IF peer.epmd = "port"
            THEN /\ Len(EpmdReply) = 4
                 /\ EpmdReply[1] = Field("PORT2_RESP") /\ EpmdReply[2] = Field(0)
                 /\ EpmdReply[4] = Field(peer.dist_high)
            ELSE /\ Len(EpmdReply) = 2
                 /\ ~ (EpmdReply[1] = Field("PORT2_RESP") /\ EpmdReply[2] = Field(0))
<1>1. peer.epmd \in {"port", "unknown", "garbage"}
  BY HandshakeAssumption
<1>2. \A i \in 1..Len(EpmdReply) : EpmdReply[i] \in Unit
  BY DEF Unit, UnitsOf
<1>3. CASE peer.epmd = "port"
  <2> DEFINE s == <<Field("PORT2_RESP"), Field(0), Field("port"), Field(peer.dist_high)>>
  <2>1. EpmdReply = s
    BY <1>3 DEF EpmdReply
  <2>2. s \in Seq({Field("PORT2_RESP"), Field(0), Field("port"), Field(peer.dist_high)})
        /\ Len(s) = 4 /\ s[1] = Field("PORT2_RESP") /\ s[2] = Field(0)
        /\ s[4] = Field(peer.dist_high)
    OBVIOUS
  <2> HIDE DEF s
  <2> QED BY <1>2, <1>3, <2>1, <2>2, OwnUnits
<1>4. CASE peer.epmd = "unknown"
  <2> DEFINE s == <<Field("PORT2_RESP"), Field(1)>>
  <2>1. EpmdReply = s
    BY <1>4 DEF EpmdReply
  <2>2. s \in Seq({Field("PORT2_RESP"), Field(1)}) /\ Len(s) = 2 /\ s[2] = Field(1)
    OBVIOUS
  <2>3. Field(1) # Field(0)
    BY FieldIs
  <2> HIDE DEF s
  <2> QED BY <1>2, <1>4, <2>1, <2>2, <2>3, OwnUnits
<1>5. CASE peer.epmd = "garbage"
  <2> DEFINE s == <<Field("garbage"), Field("garbage")>>
  <2>1. EpmdReply = s
    BY <1>5 DEF EpmdReply
  <2>2. s \in Seq({Field("garbage")}) /\ Len(s) = 2 /\ s[1] = Field("garbage")
    OBVIOUS
  <2>3. Field("garbage") # Field("PORT2_RESP")
    BY FieldIs
  <2> HIDE DEF s
  <2> QED BY <1>2, <1>5, <2>1, <2>2, <2>3, OwnUnits
<1> QED BY <1>1, <1>3, <1>4, <1>5

LEMMA StatusIs ==
  ASSUME peer \in Peers
  PROVE  /\ Status \in Seq(Unit)
         /\ peer.status \in {"ok", "ok_simultaneous", "nok"}
         /\ peer.status = "ok" => Len(Status) = 3
         /\ peer.status = "ok_simultaneous" =>
              Len(Status) = 5 /\ Status[4] = Field("underscore")
         /\ peer.status = "nok" => Len(Status) = 4 /\ Status[2] = Field("n")
         /\ peer.status # "nok" =>
              Status[1] = Field("s") /\ Status[2] = Field("o") /\ Status[3] = Field("k")
<1>1. peer.status \in {"ok", "ok_simultaneous", "nok"}
  BY HandshakeAssumption
<1>2. \A i \in 1..Len(Status) : Status[i] \in Unit
  BY DEF Unit, UnitsOf
<1>3. CASE peer.status = "ok"
  <2> DEFINE s == <<Field("s"), Field("o"), Field("k")>>
  <2>1. Status = s
    BY <1>3 DEF Status
  <2>2. s \in Seq({Field("s"), Field("o"), Field("k")}) /\ Len(s) = 3
        /\ s[1] = Field("s") /\ s[2] = Field("o") /\ s[3] = Field("k")
    OBVIOUS
  <2> HIDE DEF s
  <2> QED BY <1>2, <1>3, <2>1, <2>2, OwnUnits
<1>4. CASE peer.status = "ok_simultaneous"
  <2> DEFINE s == <<Field("s"), Field("o"), Field("k"), Field("underscore"),
                    Field("simultaneous")>>
  <2>1. Status = s
    BY <1>4 DEF Status
  <2>2. s \in Seq({Field("s"), Field("o"), Field("k"), Field("underscore"),
                   Field("simultaneous")})
        /\ Len(s) = 5 /\ s[4] = Field("underscore")
        /\ s[1] = Field("s") /\ s[2] = Field("o") /\ s[3] = Field("k")
    OBVIOUS
  <2> HIDE DEF s
  <2> QED BY <1>2, <1>4, <2>1, <2>2, OwnUnits
<1>5. CASE peer.status = "nok"
  <2> DEFINE s == <<Field("s"), Field("n"), Field("o"), Field("k")>>
  <2>1. Status = s
    BY <1>5 DEF Status
  <2>2. s \in Seq({Field("s"), Field("n"), Field("o"), Field("k")})
        /\ Len(s) = 4 /\ s[2] = Field("n")
    OBVIOUS
  <2> HIDE DEF s
  <2> QED BY <1>2, <1>5, <2>1, <2>2, OwnUnits
<1> QED BY <1>1, <1>3, <1>4, <1>5

LEMMA PeerChallengeIs ==
  ASSUME peer \in Peers
  PROVE  LET b == PeerChallenge
         IN /\ b \in Seq(Unit) /\ Len(b) \in 5..6
            /\ b[1] = Field("N") <=> peer.version = EI_DIST_6
            /\ b[1] \in {Field("n"), Field("N")}
            /\ ChallengeVersion(b) = peer.version
            /\ ChallengeFlags(b) = peer.flags
            /\ ChallengeOf(b) = gen_challenge("peer")
<1> DEFINE chal == Field(gen_challenge("peer"))
           r == <<Field("N"), Field(peer.flags), chal, Field("creation"), Field("len"),
                  Field("name")>>
           s == <<Field("n"), Field(EI_DIST_5), Field(peer.flags), chal, Field("name")>>
<1>1. peer.version \in {EI_DIST_5, EI_DIST_6} /\ EI_DIST_5 # EI_DIST_6
  BY HandshakeAssumption DEF EI_DIST_5, EI_DIST_6
<1>2. \A i \in 1..Len(PeerChallenge) : PeerChallenge[i] \in Unit
  BY DEF Unit, UnitsOf
<1>3. Field("N") # Field("n") /\ \A x : Field(x)[2] = x
  BY FieldIs
<1>4. CASE peer.version = EI_DIST_6
  <2>1. PeerChallenge = r
    BY <1>4 DEF PeerChallenge
  <2>2. r \in Seq({Field("N"), Field(peer.flags), chal, Field("creation"), Field("len"),
                   Field("name")})
        /\ Len(r) = 6
        /\ r[1] = Field("N") /\ r[2] = Field(peer.flags) /\ r[3] = chal
    OBVIOUS
  <2> HIDE DEF r
  <2>3. r \in Seq(Unit)
    BY <1>2, <2>1, <2>2, OwnUnits
  <2> QED BY <1>3, <1>4, <2>1, <2>2, <2>3 DEF ChallengeVersion, ChallengeFlags, ChallengeOf
<1>5. CASE peer.version = EI_DIST_5
  <2>1. PeerChallenge = s
    BY <1>1, <1>5 DEF PeerChallenge
  <2>2. s \in Seq({Field("n"), Field(EI_DIST_5), Field(peer.flags), chal, Field("name")})
        /\ Len(s) = 5
        /\ s[1] = Field("n") /\ s[2] = Field(EI_DIST_5) /\ s[3] = Field(peer.flags)
        /\ s[4] = chal
    OBVIOUS
  <2> HIDE DEF s
  <2>3. s \in Seq(Unit)
    BY <1>2, <2>1, <2>2, OwnUnits
  <2> QED BY <1>1, <1>3, <1>5, <2>1, <2>2, <2>3 DEF ChallengeVersion, ChallengeFlags, ChallengeOf
<1> QED BY <1>1, <1>4, <1>5

LEMMA ConcatIs ==
  ASSUME NEW S, NEW s \in Seq(S), NEW w \in Seq(S), NEW u, u = s \o w
  PROVE  /\ u \in Seq(S) /\ Len(u) = Len(s) + Len(w)
         /\ \A i \in 1..Len(s) : u[i] = s[i]
         /\ \A i \in 1..Len(w) : u[Len(s) + i] = w[i]
OBVIOUS

LEMMA AckAnswerIs ==
  /\ AckAnswer \in Seq(Unit) /\ Len(AckAnswer) = 4
  /\ AckAnswer[1] = <<"hi", 2>> /\ AckAnswer[2] = <<"lo", 2>>
  /\ AckAnswer[3] = Field("a")
  /\ AckAnswer[4] = Field(gen_digest(gen_challenge("us"), peer.cookie))
<1> DEFINE x == Field("a")
           y == Field(gen_digest(gen_challenge("us"), peer.cookie))
<1>1. Ack = <<x, y>>
  BY DEF Ack
<1> HIDE DEF x, y
<1>2. Ack \in Seq({x, y}) /\ Len(Ack) = 2 /\ Ack[1] = x /\ Ack[2] = y
  BY <1>1
<1>3. Ack \in Seq(Unit)
  <2>1. \A i \in 1..Len(Ack) : Ack[i] \in Unit
    BY DEF Unit, UnitsOf
  <2> QED BY <1>2, <2>1, OwnUnits
<1>4. ({"hi", "lo"} \X Nat) \subseteq Unit
  BY DEF Unit
<1>5. /\ Framed(Ack) \in Seq(Unit) /\ Len(Framed(Ack)) = Len(Ack) + 2
      /\ Framed(Ack)[1] = <<"hi", Len(Ack)>> /\ Framed(Ack)[2] = <<"lo", Len(Ack)>>
      /\ \A i \in 1..Len(Ack) : Framed(Ack)[i + 2] = Ack[i]
  BY <1>3, <1>4, FramedIs
<1>6. Framed(Ack)[1 + 2] = x /\ Framed(Ack)[2 + 2] = y
  BY <1>2, <1>5
<1> QED BY <1>2, <1>5, <1>6 DEF AckAnswer, x, y

LEMMA NameAnswerIs ==
  ASSUME peer \in Peers
  PROVE  /\ NameAnswer \in Seq(Unit)
         /\ NameAnswer[1] = <<"hi", Len(Status)>> /\ NameAnswer[2] = <<"lo", Len(Status)>>
         /\ \A i \in 1..Len(Status) : NameAnswer[2 + i] = Status[i]
         /\ Len(NameAnswer) >= Len(Status) + 2
         /\ peer.status = "ok" =>
              /\ Len(NameAnswer) = 7 + Len(PeerChallenge)
              /\ NameAnswer[6] = <<"hi", Len(PeerChallenge)>>
              /\ NameAnswer[7] = <<"lo", Len(PeerChallenge)>>
              /\ \A i \in 1..Len(PeerChallenge) : NameAnswer[7 + i] = PeerChallenge[i]
<1> DEFINE s == Framed(Status)
           w == IF peer.status = "nok" THEN <<>> ELSE Framed(PeerChallenge)
<1>1. ({"hi", "lo"} \X Nat) \subseteq Unit
  BY DEF Unit
<1>2. /\ s \in Seq(Unit) /\ Len(s) = Len(Status) + 2 /\ Len(Status) \in Nat
      /\ s[1] = <<"hi", Len(Status)>> /\ s[2] = <<"lo", Len(Status)>>
      /\ \A i \in 1..Len(Status) : s[i + 2] = Status[i]
  BY <1>1, StatusIs, FramedIs
<1>3. PeerChallenge \in Seq(Unit) /\ Len(PeerChallenge) \in 5..6
  BY PeerChallengeIs
<1>4. /\ w \in Seq(Unit) /\ Len(w) \in Nat
      /\ peer.status # "nok" =>
           /\ Len(w) = Len(PeerChallenge) + 2
           /\ w[1] = <<"hi", Len(PeerChallenge)>> /\ w[2] = <<"lo", Len(PeerChallenge)>>
           /\ \A i \in 1..Len(PeerChallenge) : w[i + 2] = PeerChallenge[i]
  <2>1. CASE peer.status = "nok"
    BY <2>1
  <2>2. CASE peer.status # "nok"
    <3>1. w = Framed(PeerChallenge)
      BY <2>2
    <3> HIDE DEF w
    <3> QED BY <1>1, <1>3, <2>2, <3>1, FramedIs
  <2> QED BY <2>1, <2>2
<1>5. NameAnswer = s \o w
  BY DEF NameAnswer
<1> HIDE DEF s, w
<1>6. /\ NameAnswer \in Seq(Unit) /\ Len(NameAnswer) = Len(s) + Len(w)
      /\ \A i \in 1..Len(s) : NameAnswer[i] = s[i]
      /\ \A i \in 1..Len(w) : NameAnswer[Len(s) + i] = w[i]
  <2>1. s \in Seq(Unit) /\ w \in Seq(Unit)
    BY <1>2, <1>4
  <2> QED BY <1>5, <2>1, ConcatIs
<1>7. NameAnswer[1] = <<"hi", Len(Status)>> /\ NameAnswer[2] = <<"lo", Len(Status)>>
  BY <1>2, <1>6
<1>8. \A i \in 1..Len(Status) : NameAnswer[2 + i] = Status[i]
  <2> SUFFICES ASSUME NEW i \in 1..Len(Status) PROVE NameAnswer[2 + i] = Status[i]
    OBVIOUS
  <2>1. i + 2 \in 1..Len(s) /\ 2 + i = i + 2
    BY <1>2
  <2> QED BY <1>2, <1>6, <2>1
<1>9. ASSUME peer.status = "ok"
      PROVE  /\ Len(NameAnswer) = 7 + Len(PeerChallenge)
             /\ NameAnswer[6] = <<"hi", Len(PeerChallenge)>>
             /\ NameAnswer[7] = <<"lo", Len(PeerChallenge)>>
             /\ \A i \in 1..Len(PeerChallenge) : NameAnswer[7 + i] = PeerChallenge[i]
  <2>1. Len(s) = 5 /\ Len(w) = Len(PeerChallenge) + 2
    <3>1. Len(Status) = 3 /\ peer.status # "nok"
      BY <1>9, StatusIs
    <3> QED BY <1>2, <1>4, <3>1
  <2>2. NameAnswer[5 + 1] = w[1] /\ NameAnswer[5 + 2] = w[2]
    BY <1>3, <1>6, <2>1
  <2>3. ASSUME NEW i \in 1..Len(PeerChallenge)
        PROVE  NameAnswer[7 + i] = PeerChallenge[i]
    <3>1. i + 2 \in 1..Len(w) /\ 5 + (i + 2) = 7 + i
      BY <1>3, <2>1
    <3> QED BY <1>4, <1>6, <1>9, <2>1, <3>1
  <2> QED BY <1>3, <1>4, <1>6, <1>9, <2>1, <2>2, <2>3
<1> QED BY <1>2, <1>4, <1>6, <1>7, <1>8, <1>9
-----------------------------------------------------------------------------
(***************************************************************************)
(* Reads.  Reading more, and using up what was read, stays along the       *)
(* answer.                                                                 *)
(***************************************************************************)
Taken(b, m, n) == b \o SubSeq(m, 1, n)
Rest(b, k) == SubSeq(b, k + 1, Len(b))

LEMMA ReadAlong ==
  ASSUME NEW S, NEW b \in Seq(S), NEW m \in Seq(S), NEW w \in Seq(S), NEW off \in Nat,
         NEW n \in 0..Len(m), Along(b, m, w, off)
  PROVE  /\ Taken(b, m, n) \in Seq(S) /\ Rest(m, n) \in Seq(S)
         /\ Len(Taken(b, m, n)) = Len(b) + n
         /\ Along(Taken(b, m, n), Rest(m, n), w, off)
<1> DEFINE r == SubSeq(m, 1, n)
           b2 == b \o r
           m2 == SubSeq(m, n + 1, Len(m))
<1>1. /\ r \in Seq(S) /\ Len(r) = n /\ \A i \in 1..n : r[i] = m[i]
      /\ m2 \in Seq(S) /\ Len(m2) = Len(m) - n
      /\ \A i \in 1..Len(m2) : m2[i] = m[n + i]
      /\ Len(m) \in Nat /\ Len(b) \in Nat
  OBVIOUS
<1> HIDE DEF r, m2
<1>2. /\ b2 \in Seq(S) /\ Len(b2) = Len(b) + n
      /\ \A i \in 1..Len(b) : b2[i] = b[i]
      /\ \A i \in 1..n : b2[Len(b) + i] = m[i]
  <2>1. /\ b2 \in Seq(S) /\ Len(b2) = Len(b) + Len(r)
        /\ \A i \in 1..Len(b) : b2[i] = b[i]
        /\ \A i \in 1..Len(r) : b2[Len(b) + i] = r[i]
    <3>1. b2 = b \o r
      OBVIOUS
    <3> HIDE DEF b2
    <3>2. r \in Seq(S)
      BY <1>1
    <3> QED BY <3>1, <3>2, ConcatIs
  <2> HIDE DEF b2
  <2> QED BY <1>1, <2>1
<1> HIDE DEF b2
<1>3. ASSUME NEW i \in 1..Len(b2) PROVE b2[i] = w[off + i]
  <2>1. CASE i \in 1..Len(b)
    BY <1>2, <2>1 DEF Along
  <2>2. CASE i \notin 1..Len(b)
    <3> DEFINE k == i - Len(b)
    <3>1. k \in 1..n /\ i = Len(b) + k /\ off + i = off + Len(b) + k /\ k \in 1..Len(m)
      BY <1>1, <1>2, <2>2
    <3> HIDE DEF k
    <3> QED BY <1>2, <3>1 DEF Along
  <2> QED BY <2>1, <2>2
<1>4. ASSUME NEW i \in 1..Len(m2) PROVE m2[i] = w[off + Len(b2) + i]
  <2>1. n + i \in 1..Len(m) /\ off + Len(b) + (n + i) = off + Len(b2) + i
    BY <1>1, <1>2
  <2> QED BY <1>1, <2>1 DEF Along
<1>5. off + Len(b2) + Len(m2) <= Len(w)
  BY <1>1, <1>2 DEF Along
<1> QED BY <1>1, <1>2, <1>3, <1>4, <1>5 DEF Along, Taken, Rest, r, b2, m2

LEMMA RestIs ==
  ASSUME NEW S, NEW b \in Seq(S), NEW k \in 0..Len(b)
  PROVE  /\ Rest(b, k) \in Seq(S) /\ Len(Rest(b, k)) = Len(b) - k
         /\ \A i \in 1..Len(Rest(b, k)) : Rest(b, k)[i] = b[k + i]
BY DEF Rest

LEMMA UseAlong ==
  ASSUME NEW S, NEW b \in Seq(S), NEW m \in Seq(S), NEW w \in Seq(S), NEW off \in Nat,
         NEW k \in 0..Len(b), Along(b, m, w, off)
  PROVE  /\ Rest(b, k) \in Seq(S) /\ Len(Rest(b, k)) = Len(b) - k /\ Len(Rest(b, k)) \in Nat
         /\ Along(Rest(b, k), m, w, off + k)
<1> DEFINE r == Rest(b, k)
<1>1. /\ r \in Seq(S) /\ Len(r) = Len(b) - k /\ \A i \in 1..Len(r) : r[i] = b[k + i]
  BY RestIs
<1> HIDE DEF r
<1>2. Len(m) \in Nat /\ Len(b) \in Nat /\ Len(r) \in Nat
  BY <1>1
<1>3. ASSUME NEW i \in 1..Len(r) PROVE r[i] = w[(off + k) + i]
  <2>1. k + i \in 1..Len(b) /\ off + (k + i) = (off + k) + i
    BY <1>1, <1>2
  <2> QED BY <1>1, <2>1 DEF Along
<1>4. ASSUME NEW i \in 1..Len(m) PROVE m[i] = w[(off + k) + Len(r) + i]
  <2>1. (off + k) + Len(r) + i = off + Len(b) + i
    BY <1>1, <1>2
  <2> QED BY <2>1 DEF Along
<1>5. (off + k) + Len(r) + Len(m) <= Len(w)
  BY <1>1, <1>2 DEF Along
<1> QED BY <1>1, <1>2, <1>3, <1>4, <1>5 DEF Along, r

-----------------------------------------------------------------------------
(***************************************************************************)
(* Handlers.  A handler that is called with what it expects fails only if  *)
(* the peer is to be refused, and otherwise leaves the connection where    *)
(* the rest of the answer is what it waits for.                            *)
(***************************************************************************)
Ready(h, m) ==
  /\ h \in Connection /\ m \in Seq(Unit) /\ peer \in Peers
  /\ ~ h.failed /\ h.asserted /\ h.need = 0
  /\ seen \in 0..Len(h.sent)

Handled(g, m) ==
  /\ g \in Connection /\ g.asserted /\ g.state # "CS_WAIT_RESOLVE"
  /\ seen \in 0..Len(g.sent)
  /\ g.failed => ~ Good(peer)
  /\ ~ g.failed => Phase(g, m)

\* A handler that gives up.
LEMMA FailHandled ==
  ASSUME NEW h \in Connection, h.asserted, h.state # "CS_WAIT_RESOLVE",
         seen \in 0..Len(h.sent), NEW m, ~ Good(peer)
  PROVE  Handled(Fail(h), m)
<1>1. /\ Fail(h) \in Connection /\ Fail(h).failed /\ Fail(h).asserted
      /\ Fail(h).state = h.state /\ Fail(h).sent = h.sent
  BY DEF Fail, Connection
<1> HIDE DEF Fail
<1> QED BY <1>1 DEF Handled

\* What has been read lies along an answer: its first units are known.
LEMMA FirstUnits ==
  ASSUME NEW b, NEW m, NEW w, NEW off \in Nat, Along(b, m, w, off), Len(b) \in Nat,
         NEW i \in 1..Len(b)
  PROVE  b[i] = w[off + i]
BY DEF Along

LEMMA EpmdBodyHandled ==
  ASSUME NEW h, NEW m, Ready(h, m), h.state = "CS_WAIT_EPMD_REPLY",
         peer.epmd = "port", pstate \in {"epmd", "lost"}, Len(h.buf) >= 2,
         Along(h.buf, m, EpmdReply, 2)
  PROVE  Handled(handle_epmd_read_body(h), m)
<1> DEFINE v == IF h.buf[2][2] > EI_DIST_6 THEN EI_DIST_6 ELSE h.buf[2][2]
           a == h.asserted /\ Len(h.buf) >= 2
           e == <<>>
           g == [h EXCEPT !.dist_version = v, !.buf = e, !.asserted = a]
           k == [g EXCEPT !.state = "CS_WAIT_CONNECT"]
<1>1. h \in Connection /\ h.buf \in Seq(Unit) /\ Len(h.buf) \in Nat /\ h.asserted
      /\ h.need = 0 /\ ~ h.failed
  BY DEF Ready, Connection
<1>2. h.buf[2] = EpmdReply[2 + 2]
  BY <1>1, FirstUnits
<1>3. h.buf[2][2] = peer.dist_high /\ peer.dist_high \in Nat
  BY <1>2, EpmdReplyIs, FieldIs, HandshakeAssumption DEF Ready
<1>4. v = EpmdVersion /\ v \in Nat
  BY <1>3 DEF EpmdVersion, EI_DIST_6
<1>5. handle_epmd_read_body(h) = IF v <= 4 THEN Fail(g) ELSE k
  BY DEF handle_epmd_read_body
<1>6. a = TRUE /\ e \in Seq(Unit)
  BY <1>1
<1> HIDE DEF v, a, e
<1>7. /\ g \in Connection /\ g.asserted /\ g.state = h.state /\ g.sent = h.sent
      /\ g.need = 0 /\ g.buf = e /\ g.dist_version = v /\ ~ g.failed
  BY <1>1, <1>4, <1>6 DEF Connection
<1>8. CASE v <= 4
  <2>1. ~ Good(peer)
    BY <1>3, <1>4, <1>8 DEF Good, EpmdVersion, EI_DIST_5, EI_DIST_6
  <2> HIDE DEF g
  <2> QED BY <1>5, <1>7, <1>8, <2>1, FailHandled DEF Ready
<1>9. CASE ~ (v <= 4)
  <2> HIDE DEF g
  <2>1. /\ k \in Connection /\ k.asserted /\ k.state = "CS_WAIT_CONNECT" /\ k.sent = h.sent
        /\ k.need = 0 /\ k.buf = e /\ k.dist_version = v /\ ~ k.failed
    BY <1>7 DEF Connection, States
  <2> HIDE DEF k
  <2>2. Phase(k, m)
    BY <1>4, <1>9, <2>1 DEF Phase, Writes, e
  <2> QED BY <1>5, <1>9, <2>1, <2>2 DEF Handled, Ready
<1> QED BY <1>8, <1>9

\* h and g differ at most in what was read, what is awaited and the assertions.
SameSession(h, g) ==
  /\ g.state = h.state /\ g.sent = h.sent
  /\ g.dist_version = h.dist_version /\ g.our_challenge = h.our_challenge

\* A header, that announces n, is used up.
Beheaded(h, n) == [h EXCEPT !.expect = n, !.buf = Rest(h.buf, 2)]

LEMMA BeheadedBy ==
  ASSUME NEW h, NEW n
  PROVE  [h EXCEPT !.expect = n, !.buf = SubSeq(@, 3, Len(@))] = Beheaded(h, n)
<1>1. 2 + 1 = 3
  OBVIOUS
<1>2. Rest(h.buf, 2) = SubSeq(h.buf, 3, Len(h.buf))
  BY <1>1 DEF Rest
<1> QED BY <1>2 DEF Beheaded

LEMMA BeheadedIs ==
  ASSUME NEW h, NEW m, Ready(h, m), NEW w \in Seq(Unit), NEW off \in Nat, NEW n \in Nat,
         Len(h.buf) >= 2, Along(h.buf, m, w, off)
  PROVE  /\ Ready(Beheaded(h, n), m) /\ SameSession(h, Beheaded(h, n))
         /\ Beheaded(h, n).expect = n /\ Len(Beheaded(h, n).buf) \in Nat
         /\ Along(Beheaded(h, n).buf, m, w, off + 2)
<1> DEFINE b == h.buf
           r == Rest(b, 2)
           g == [h EXCEPT !.expect = n, !.buf = r]
<1>1. h \in Connection /\ b \in Seq(Unit) /\ m \in Seq(Unit)
  BY DEF Ready, Connection
<1>2. Along(b, m, w, off) /\ Len(b) >= 2
  OBVIOUS
<1>3. g = Beheaded(h, n)
  BY DEF Beheaded
<1>4. r \in Seq(Unit) /\ Along(r, m, w, off + 2) /\ Len(r) \in Nat
  <2> HIDE DEF b
  <2>1. 2 \in 0..Len(b)
    BY <1>1, <1>2
  <2> QED BY <1>1, <1>2, <2>1, UseAlong
<1> HIDE DEF r
<1>5. g \in Connection /\ g.buf = r /\ g.expect = n
  BY <1>1, <1>4 DEF Connection
<1>6. /\ g.failed = h.failed /\ g.asserted = h.asserted /\ g.need = h.need
      /\ g.state = h.state /\ g.sent = h.sent
      /\ g.dist_version = h.dist_version /\ g.our_challenge = h.our_challenge
  BY <1>1 DEF Connection
<1> HIDE DEF b, g
<1>7. Ready(g, m)
  BY <1>1, <1>5, <1>6 DEF Ready
<1> QED BY <1>3, <1>4, <1>5, <1>6, <1>7 DEF SameSession

\* The rest of what a header announced is awaited.
LEMMA AwaitIs ==
  ASSUME NEW h \in Connection, NEW next \in Handlers, NEW n \in Nat
  PROVE  LET g == Await(h, next, n)
         IN /\ g \in Connection /\ SameSession(h, g)
            /\ g.next = next /\ g.need = n /\ g.buf = h.buf /\ g.expect = h.expect
            /\ g.failed = h.failed /\ g.asserted = h.asserted
<1> DEFINE g == [h EXCEPT !.next = next, !.need = n]
<1>1. /\ g \in Connection
      /\ g.next = next /\ g.need = n /\ g.buf = h.buf /\ g.expect = h.expect
      /\ g.failed = h.failed /\ g.asserted = h.asserted
      /\ g.state = h.state /\ g.sent = h.sent
      /\ g.dist_version = h.dist_version /\ g.our_challenge = h.our_challenge
  BY DEF Connection
<1>2. Await(h, next, n) = g
  BY DEF Await
<1> HIDE DEF g
<1> QED BY <1>1, <1>2 DEF SameSession

LEMMA EpmdHeaderHandled ==
  ASSUME NEW h, NEW m, Ready(h, m), h.state = "CS_WAIT_EPMD_REPLY", Asking(h, m), seen = 1,
         Len(h.buf) >= 2, Along(h.buf, m, EpmdReply, 0)
  PROVE  Handled(handle_epmd_read_header(h), m)
<1> DEFINE g == Beheaded(h, 2)
           bad == h.buf[1] # Field("PORT2_RESP") \/ h.buf[2] # Field(0)
<1>1. h \in Connection /\ Len(h.buf) \in Nat /\ peer \in Peers /\ seen \in 0..Len(h.sent)
      /\ h.asserted
  BY DEF Ready, Connection
<1>2. h.buf[1] = EpmdReply[0 + 1] /\ h.buf[2] = EpmdReply[0 + 2]
  BY <1>1, FirstUnits
<1>3. bad <=> peer.epmd # "port"
  BY <1>1, <1>2, EpmdReplyIs
<1>4. handle_epmd_read_header(h) =
        IF bad THEN Fail(h)
        ELSE IF Pending(g) > 0 THEN Await(g, "epmd_body", Pending(g))
        ELSE handle_epmd_read_body(g)
  BY BeheadedBy DEF handle_epmd_read_header
<1>5. /\ Ready(g, m) /\ SameSession(h, g) /\ g.expect = 2
      /\ Len(g.buf) \in Nat /\ Along(g.buf, m, EpmdReply, 2)
  <2>1. EpmdReply \in Seq(Unit)
    BY <1>1, EpmdReplyIs
  <2>2. Along(g.buf, m, EpmdReply, 0 + 2) /\ 0 + 2 = 2
    BY <2>1, BeheadedIs
  <2> QED BY <2>1, <2>2, BeheadedIs
<1> HIDE DEF g, bad
<1>6. CASE peer.epmd # "port"
  <2>1. ~ Good(peer)
    BY <1>6 DEF Good
  <2> QED BY <1>1, <1>3, <1>4, <1>6, <2>1, FailHandled
<1>7. CASE peer.epmd = "port" /\ Pending(g) > 0
  <2> DEFINE k == Await(g, "epmd_body", Pending(g))
  <2>1. Pending(g) = 2 - Len(g.buf) /\ Pending(g) \in Nat /\ "epmd_body" \in Handlers
    BY <1>5, <1>7 DEF Pending, Handlers
  <2>2. /\ k \in Connection /\ SameSession(g, k)
        /\ k.next = "epmd_body" /\ k.need = Pending(g) /\ k.buf = g.buf /\ k.expect = 2
        /\ k.failed = g.failed /\ k.asserted = g.asserted
    <3>1. g \in Connection
      BY <1>5 DEF Ready
    <3> QED BY <1>5, <2>1, <3>1, AwaitIs
  <2> HIDE DEF k
  <2>3. Phase(k, m)
    BY <1>5, <1>7, <2>1, <2>2 DEF Phase, AwaitsBody, Asking, SameSession
  <2> QED BY <1>3, <1>4, <1>5, <1>7, <2>2, <2>3 DEF Handled, Ready, SameSession, k
<1>8. CASE peer.epmd = "port" /\ ~ (Pending(g) > 0)
  <2>1. Len(g.buf) >= 2 /\ g.state = "CS_WAIT_EPMD_REPLY"
    BY <1>5, <1>8 DEF Pending, SameSession
  <2>2. pstate \in {"epmd", "lost"}
    BY DEF Asking
  <2> QED BY <1>3, <1>4, <1>5, <1>8, <2>1, <2>2, EpmdBodyHandled
<1> QED BY <1>6, <1>7, <1>8

\* An assertion that holds changes nothing.
LEMMA AssertedSame ==
  ASSUME NEW h \in Connection, h.asserted, NEW a, a = TRUE
  PROVE  [h EXCEPT !.asserted = a] = h
<1>1. h.asserted = TRUE
  BY DEF Connection
<1> QED BY <1>1 DEF Connection

\* Once the peer has taken the name, what is read does not change Named.
LEMMA NamedSame ==
  ASSUME NEW h, NEW m, NEW g, NEW n, Named(h, m), closed \/ pstate # "name",
         g.sent = h.sent, g.dist_version = h.dist_version, g.our_challenge = h.our_challenge
  PROVE  Named(g, n)
BY DEF Named

LEMMA ChallengeRead ==
  ASSUME NEW b \in Seq(Unit), NEW m \in Seq(Unit), peer \in Peers, peer.status = "ok",
         Len(b) >= Len(PeerChallenge), Along(b, m, NameAnswer, 7)
  PROVE  b = PeerChallenge /\ m = <<>>
<1>1. /\ NameAnswer \in Seq(Unit) /\ Len(NameAnswer) = 7 + Len(PeerChallenge)
      /\ \A i \in 1..Len(PeerChallenge) : NameAnswer[7 + i] = PeerChallenge[i]
  BY NameAnswerIs
<1>2. PeerChallenge \in Seq(Unit)
  BY PeerChallengeIs
<1>3. Len(b) = Len(PeerChallenge) /\ Len(m) = 0
  BY <1>1, <1>2 DEF Along
<1>4. \A i \in 1..Len(b) : b[i] = PeerChallenge[i]
  BY <1>1, <1>3 DEF Along
<1>5. b = PeerChallenge
  BY <1>2, <1>3, <1>4
<1> QED BY <1>3, <1>5

LEMMA SameSequence ==
  ASSUME NEW S, NEW s \in Seq(S), NEW t \in Seq(S), Len(s) = Len(t),
         \A i \in 1..Len(s) : s[i] = t[i]
  PROVE  s = t
OBVIOUS

LEMMA AppendIs ==
  ASSUME NEW S, NEW s \in Seq(S), NEW x \in S, NEW u, u = Append(s, x)
  PROVE  /\ u \in Seq(S) /\ Len(u) = Len(s) + 1
         /\ \A i \in 1..Len(s) : u[i] = s[i]
         /\ u[Len(s) + 1] = x
OBVIOUS

\* Short sequences put together.
LEMMA Short ==
  ASSUME NEW x, NEW y, NEW z
  PROVE  /\ Append(<<>>, y) = <<y>> /\ Append(<<x>>, y) = <<x, y>>
         /\ <<x>> \o <<y>> = <<x, y>> /\ <<x>> \o <<y, z>> = <<x, y, z>>
         /\ Len(<<x>>) = 1 /\ Len(<<x, y>>) = 2 /\ Len(<<x, y, z>>) = 3
<1> DEFINE S == {x, y, z}
           a == <<x>>
           b == <<y>>
           d == <<x, y>>
           f == <<y, z>>
           t == <<x, y, z>>
<1>1. Append(<<>>, y) = b
  OBVIOUS
<1>2. a \in Seq(S) /\ b \in Seq(S) /\ d \in Seq(S) /\ f \in Seq(S) /\ t \in Seq(S)
  OBVIOUS
<1>3. /\ Len(a) = 1 /\ a[1] = x
      /\ Len(b) = 1 /\ b[1] = y
      /\ Len(d) = 2 /\ d[1] = x /\ d[2] = y
      /\ Len(f) = 2 /\ f[1] = y /\ f[2] = z
      /\ Len(t) = 3 /\ t[1] = x /\ t[2] = y /\ t[3] = z
  OBVIOUS
<1>4. x \in S /\ y \in S /\ z \in S
  OBVIOUS
<1> HIDE DEF S, a, b, d, f, t
<1>5. Append(a, y) = d
  <2> DEFINE u == Append(a, y)
  <2>1. u = Append(a, y)
    OBVIOUS
  <2> HIDE DEF u
  <2>2. /\ u \in Seq(S) /\ Len(u) = Len(a) + 1
        /\ \A i \in 1..Len(a) : u[i] = a[i]
        /\ u[Len(a) + 1] = y
    BY <1>2, <1>4, <2>1, AppendIs
  <2>3. Len(u) = 2 /\ u[1] = x /\ u[1 + 1] = y
    BY <1>3, <2>2
  <2>4. \A i \in 1..Len(u) : u[i] = d[i]
    BY <1>3, <2>3
  <2>5. u = d
    BY <1>2, <1>3, <2>2, <2>3, <2>4, SameSequence
  <2> QED BY <2>5 DEF u
<1>6. a \o b = d
  <2> DEFINE u == a \o b
  <2>1. u = a \o b
    OBVIOUS
  <2> HIDE DEF u
  <2>2. /\ u \in Seq(S) /\ Len(u) = Len(a) + Len(b)
        /\ \A i \in 1..Len(a) : u[i] = a[i]
        /\ \A i \in 1..Len(b) : u[Len(a) + i] = b[i]
    BY <1>2, <1>4, <2>1, ConcatIs
  <2>3. Len(u) = 2 /\ u[1] = x /\ u[1 + 1] = y
    BY <1>3, <2>2
  <2>4. \A i \in 1..Len(u) : u[i] = d[i]
    BY <1>3, <2>3
  <2>5. u = d
    BY <1>2, <1>3, <2>2, <2>3, <2>4, SameSequence
  <2> QED BY <2>5 DEF u
<1>7. a \o f = t
  <2> DEFINE u == a \o f
  <2>1. u = a \o f
    OBVIOUS
  <2> HIDE DEF u
  <2>2. /\ u \in Seq(S) /\ Len(u) = Len(a) + Len(f)
        /\ \A i \in 1..Len(a) : u[i] = a[i]
        /\ \A i \in 1..Len(f) : u[Len(a) + i] = f[i]
    BY <1>2, <1>4, <2>1, ConcatIs
  <2>3. Len(u) = 3 /\ u[1] = x /\ u[1 + 1] = y /\ u[1 + 2] = z
    BY <1>3, <2>2
  <2>4. \A i \in 1..Len(u) : u[i] = t[i]
    BY <1>3, <2>3
  <2>5. u = t
    BY <1>2, <1>3, <2>2, <2>3, <2>4, SameSequence
  <2> QED BY <2>5 DEF u
<1> QED BY <1>1, <1>3, <1>5, <1>6, <1>7 DEF a, b, d, f, t

LEMMA ShortIn ==
  ASSUME NEW S, NEW x \in S, NEW y \in S, NEW z \in S
  PROVE  <<x>> \in Seq(S) /\ <<x, y>> \in Seq(S) /\ <<x, y, z>> \in Seq(S)
OBVIOUS

LEMMA ChallengeBodyHandled ==
  ASSUME NEW h, NEW m, Ready(h, m), h.state = "CS_WAIT_CHALLENGE", Named(h, m),
         closed \/ pstate # "name", peer.status = "ok", h.expect = Len(PeerChallenge),
         Len(h.buf) >= Len(PeerChallenge), Along(h.buf, m, NameAnswer, 7)
  PROVE  Handled(handle_read_challenge_body(h), m)
<1> DEFINE p == PeerChallenge
           complement == IF peer.version > h.dist_version THEN <<Plain("c")>> ELSE <<>>
           msgs == Append(complement, Reply)
           s == h.sent \o msgs
           st == "CS_WAIT_WRITE_CHALLENGE_REPLY_DONE"
           e == <<>>
           k == [h EXCEPT !.dist_version = peer.version, !.state = st, !.sent = s, !.buf = e]
           a == h.asserted /\ Len(h.buf) >= h.expect
<1>1. /\ h \in Connection /\ h.buf \in Seq(Unit) /\ m \in Seq(Unit) /\ peer \in Peers
      /\ h.asserted /\ ~ h.failed /\ h.need = 0 /\ seen \in 0..Len(h.sent)
  BY DEF Ready, Connection
<1>2. h.buf = p /\ m = <<>>
  BY <1>1, ChallengeRead
<1>3. /\ p[1] \in {Field("n"), Field("N")} /\ (p[1] = Field("n") => peer.version = EI_DIST_5)
      /\ ChallengeVersion(p) = peer.version /\ ChallengeFlags(p) = peer.flags
      /\ ChallengeOf(p) = gen_challenge("peer")
      /\ peer.version \in {EI_DIST_5, EI_DIST_6}
  <2>1. Field("n") # Field("N")
    BY FieldIs
  <2> QED BY <1>1, <2>1, PeerChallengeIs, HandshakeAssumption
<1>4. [h EXCEPT !.asserted = a] = h
  <2>1. a = TRUE
    BY <1>1, <1>2
  <2> QED BY <1>1, <2>1, AssertedSame
<1>5. h.our_challenge = gen_challenge("us")
  BY DEF Named
<1>6. handle_read_challenge_body(h) =
        IF ~ RequiredFlags \subseteq peer.flags THEN Fail(h) ELSE k
  <2> DEFINE w(r) == Write([h EXCEPT !.dist_version = peer.version], st, Append(complement, r))
  <2>1. handle_read_challenge_body(h) =
          IF \/ p[1] \notin {Field("n"), Field("N")}
             \/ p[1] = Field("n") /\ peer.version # EI_DIST_5
             \/ ~ RequiredFlags \subseteq peer.flags
          THEN Fail(h)
          ELSE w([tag |-> "r", challenge |-> h.our_challenge,
                  digest |-> gen_digest(gen_challenge("peer"), Cookie)])
    BY <1>2, <1>3, <1>4 DEF handle_read_challenge_body, Plain
  <2>2. w([tag |-> "r", challenge |-> h.our_challenge,
           digest |-> gen_digest(gen_challenge("peer"), Cookie)]) = w(Reply)
    BY <1>5 DEF Reply
  <2>3. w(Reply) = k
    BY <1>1 DEF Write, Connection
  <2> HIDE DEF w
  <2> QED BY <1>3, <2>1, <2>2, <2>3
<1>7. CASE ~ RequiredFlags \subseteq peer.flags
  <2>1. ~ Good(peer)
    BY <1>7 DEF Good
  <2> QED BY <1>1, <1>6, <1>7, <2>1, FailHandled
<1>8. CASE RequiredFlags \subseteq peer.flags
  <2>1. /\ h.dist_version \in {EI_DIST_5, EI_DIST_6}
        /\ h.sent = <<Plain(IF h.dist_version = EI_DIST_5 THEN "n" ELSE "N")>>
        /\ Len(h.sent) = 1
    BY DEF Named
  <2>2. /\ Plain("n") \in Message /\ Plain("N") \in Message /\ Plain("c") \in Message
        /\ Reply \in Message
    BY DEF Message
  <2>3. IF peer.version > h.dist_version
        THEN s = <<Plain("n"), Plain("c"), Reply>>
        ELSE s \in {<<Plain("n"), Reply>>, <<Plain("N"), Reply>>}
    <3> DEFINE x == Plain("n")
               X == Plain("N")
               y == Plain("c")
               z == Reply
    <3> HIDE DEF x, X, y, z
    <3>1. CASE peer.version > h.dist_version
      <4>1. h.dist_version = EI_DIST_5
        BY <1>3, <2>1, <3>1 DEF EI_DIST_5, EI_DIST_6
      <4>2. h.sent = <<x>> /\ complement = <<y>>
        BY <2>1, <3>1, <4>1 DEF x, y
      <4>3. msgs = <<y, z>>
        BY <4>2, Short DEF z
      <4> HIDE DEF msgs
      <4>4. s = <<x, y, z>>
        BY <4>2, <4>3, Short
      <4> QED BY <3>1, <4>4 DEF x, y, z
    <3>2. CASE ~ (peer.version > h.dist_version)
      <4>1. complement = <<>>
        BY <3>2
      <4>2. msgs = <<z>>
        BY <4>1, Short DEF z
      <4>3. h.sent = <<x>> \/ h.sent = <<X>>
        BY <2>1 DEF x, X
      <4> HIDE DEF msgs
      <4>4. s = <<x, z>> \/ s = <<X, z>>
        BY <4>2, <4>3, Short
      <4> QED BY <3>2, <4>4 DEF x, X, z
    <3> QED BY <3>1, <3>2
  <2>4. /\ s \in Seq(Message)
        /\ Len(s) = IF peer.version > h.dist_version THEN 3 ELSE 2
    <3> HIDE DEF s
    <3> QED BY <2>2, <2>3, Short, ShortIn
  <2>5. e \in Seq(Unit) /\ st \in States /\ peer.version \in Nat
    BY <1>3 DEF States, EI_DIST_5, EI_DIST_6
  <2> HIDE DEF s, e, st
  <2>6. /\ k \in Connection /\ k.state = st /\ k.sent = s /\ k.buf = e
        /\ k.dist_version = peer.version /\ k.our_challenge = h.our_challenge
        /\ k.need = h.need /\ k.asserted = h.asserted /\ k.failed = h.failed
    BY <1>1, <2>4, <2>5 DEF Connection
  <2> HIDE DEF k
  <2>7. seen \in 0..Len(s)
    BY <1>1, <2>1, <2>4
  <2>8. Replied(k, m)
    <3>1. Len(k.buf) + Len(m) = 0
      BY <1>2, <2>6 DEF e
    <3>2. ASSUME ~ closed, pstate = "complement"
          PROVE  /\ seen = 1 /\ Len(s) = 3
                 /\ s = <<Plain("n"), Plain("c"), Reply>>
      BY <2>3, <2>4, <3>2 DEF Named
    <3>3. ASSUME ~ closed, pstate # "complement"
          PROVE  /\ pstate = "reply" /\ seen = Len(s) - 1
                 /\ s \in {<<Plain("n"), Reply>>, <<Plain("N"), Reply>>}
      <4>1. peer.version = h.dist_version /\ seen = 1 /\ pstate = "reply"
        BY <3>3 DEF Named
      <4>2. ~ (peer.version > h.dist_version)
        BY <2>5, <4>1
      <4>3. Len(s) = 2 /\ s \in {<<Plain("n"), Reply>>, <<Plain("N"), Reply>>}
        BY <2>3, <2>4, <4>2
      <4> QED BY <4>1, <4>3
    <3> QED BY <1>5, <2>6, <3>1, <3>2, <3>3 DEF Replied
  <2>9. Writes(k) /\ Along(k.buf, m, AckAnswer, 0)
    <3>1. Len(AckAnswer) = 4
      BY AckAnswerIs
    <3> QED BY <1>1, <1>2, <2>6, <3>1 DEF Writes, Along, e
  <2>10. Phase(k, m)
    BY <2>6, <2>8, <2>9 DEF Phase, st
  <2> QED BY <1>1, <1>6, <1>8, <2>6, <2>7, <2>10 DEF Handled, st
<1> QED BY <1>7, <1>8

LEMMA ChallengeHeaderHandled ==
  ASSUME NEW h, NEW m, Ready(h, m), h.state = "CS_WAIT_CHALLENGE", Named(h, m),
         closed \/ pstate # "name", peer.status # "nok",
         Len(h.buf) >= 2, Along(h.buf, m, NameAnswer, 5)
  PROVE  Handled(handle_read_challenge_header(h), m)
<1> DEFINE n == get16be(h.buf)
           g == Beheaded(h, n)
<1>1. /\ h \in Connection /\ h.buf \in Seq(Unit) /\ Len(h.buf) \in Nat /\ peer \in Peers
      /\ seen \in 0..Len(h.sent) /\ h.asserted
  BY DEF Ready, Connection
<1>2. h.buf[1] = NameAnswer[5 + 1] /\ h.buf[2] = NameAnswer[5 + 2]
  BY <1>1, FirstUnits
<1>3. handle_read_challenge_header(h) =
        IF g.expect = Garbage THEN Fail(g)
        ELSE IF Pending(g) > 0 THEN Await(g, "challenge_body", Pending(g))
        ELSE handle_read_challenge_body(g)
  BY BeheadedBy DEF handle_read_challenge_header
<1>4. NameAnswer \in Seq(Unit)
  BY <1>1, NameAnswerIs
<1>5. ASSUME n \in Nat
      PROVE  /\ Ready(g, m) /\ SameSession(h, g) /\ g.expect = n
             /\ Len(g.buf) \in Nat /\ Along(g.buf, m, NameAnswer, 7)
  <2> HIDE DEF n
  <2>1. Along(g.buf, m, NameAnswer, 5 + 2) /\ 5 + 2 = 7
    BY <1>4, <1>5, BeheadedIs
  <2> QED BY <1>4, <1>5, <2>1, BeheadedIs
<1> HIDE DEF n, g
<1>6. CASE peer.status = "ok_simultaneous"
  <2>1. NameAnswer[2 + 4] = Field("underscore")
    <3>1. Len(Status) = 5 /\ Status[4] = Field("underscore")
      BY <1>1, <1>6, StatusIs
    <3>2. \A i \in 1..Len(Status) : NameAnswer[2 + i] = Status[i]
      BY <1>1, NameAnswerIs
    <3> QED BY <3>1, <3>2
  <2>2. n = Garbage
    BY <1>2, <2>1, GarbageIs DEF n
  <2>3. ~ Good(peer)
    BY <1>6 DEF Good
  <2>4. n \in Nat
    BY <2>2 DEF Garbage
  <2>5. g \in Connection /\ g.asserted /\ g.state # "CS_WAIT_RESOLVE" /\ seen \in 0..Len(g.sent)
    BY <1>5, <2>4 DEF Ready, SameSession
  <2> QED BY <1>3, <1>5, <2>2, <2>3, <2>4, <2>5, FailHandled
<1>7. CASE peer.status = "ok"
  <2>1. Len(PeerChallenge) \in 5..6
    BY <1>1, PeerChallengeIs
  <2>2. n = Len(PeerChallenge)
    <3>1. h.buf[1] = <<"hi", Len(PeerChallenge)>> /\ h.buf[2] = <<"lo", Len(PeerChallenge)>>
      BY <1>1, <1>2, <1>7, NameAnswerIs
    <3> QED BY <1>1, <2>1, <3>1, HeaderIs DEF n
  <2>3. n \in Nat /\ n # Garbage
    <3>1. n \in 5..6
      BY <2>1, <2>2
    <3> QED BY <3>1 DEF Garbage
  <2>4. Named(g, m)
    BY <1>5, <2>3, NamedSame DEF SameSession
  <2>5. CASE Pending(g) > 0
    <3> DEFINE k == Await(g, "challenge_body", Pending(g))
    <3>1. Pending(g) = n - Len(g.buf) /\ Pending(g) \in Nat /\ "challenge_body" \in Handlers
      BY <1>5, <2>3, <2>5 DEF Pending, Handlers
    <3>2. g \in Connection
      BY <1>5, <2>3 DEF Ready
    <3>3. /\ k \in Connection /\ SameSession(g, k)
          /\ k.next = "challenge_body" /\ k.need = Pending(g) /\ k.buf = g.buf
          /\ k.expect = g.expect /\ k.failed = g.failed /\ k.asserted = g.asserted
      <4>1. Pending(g) \in Nat /\ "challenge_body" \in Handlers
        BY <3>1
      <4> QED BY <3>2, <4>1, AwaitIs, ZenonT(40)
    <3> HIDE DEF k
    <3>4. Named(k, m)
      BY <2>4, <3>3, NamedSame DEF SameSession
    <3>5. AwaitsBody(k, "challenge_body", Len(PeerChallenge))
      BY <1>5, <2>2, <2>3, <2>5, <3>1, <3>3 DEF AwaitsBody
    <3>6. k.state = "CS_WAIT_CHALLENGE" /\ Along(k.buf, m, NameAnswer, 7)
      BY <1>5, <2>3, <3>3 DEF SameSession
    <3>7. Phase(k, m)
      BY <1>7, <3>4, <3>5, <3>6 DEF Phase
    <3>8. handle_read_challenge_header(h) = k
      BY <1>3, <1>5, <2>3, <2>5 DEF k
    <3> QED BY <1>5, <2>3, <3>3, <3>6, <3>7, <3>8 DEF Handled, Ready, SameSession
  <2>6. CASE ~ (Pending(g) > 0)
    <3>1. /\ Len(g.buf) >= Len(PeerChallenge) /\ g.state = "CS_WAIT_CHALLENGE"
          /\ g.expect = Len(PeerChallenge)
      BY <1>5, <2>1, <2>2, <2>3, <2>6 DEF Pending, SameSession
    <3>2. Handled(handle_read_challenge_body(g), m)
      BY <1>5, <1>7, <2>3, <2>4, <3>1, ChallengeBodyHandled
    <3> QED BY <1>3, <1>5, <2>3, <2>6, <3>2
  <2> QED BY <2>5, <2>6
<1> QED BY <1>1, <1>6, <1>7, StatusIs

\* The three bytes of the status that are compared are used up.
LEMMA StatusBodyHandled ==
  ASSUME NEW h, NEW m, Ready(h, m), h.state = "CS_WAIT_STATUS", Named(h, m),
         closed \/ pstate # "name", Len(h.buf) >= Len(Status), Along(h.buf, m, NameAnswer, 2)
  PROVE  Handled(handle_read_status_body(h), m)
<1> DEFINE b == h.buf
           r == Rest(b, 3)
           a == h.asserted /\ Len(h.buf) >= 3
           st == "CS_WAIT_CHALLENGE"
           f == [h EXCEPT !.asserted = a]
           g == [f EXCEPT !.state = st, !.buf = r]
           ok == IsPrefix(<<Field("s"), Field("o"), Field("k")>>, h.buf)
<1>1. /\ h \in Connection /\ b \in Seq(Unit) /\ Len(b) \in Nat /\ peer \in Peers
      /\ seen \in 0..Len(h.sent) /\ h.asserted /\ ~ h.failed /\ h.need = 0 /\ m \in Seq(Unit)
  BY DEF Ready, Connection
<1>2. Len(Status) \in 3..5 /\ Len(b) >= 3
  <2>1. Len(Status) \in 3..5
    BY <1>1, StatusIs
  <2> DEFINE x == Len(b)
             y == Len(Status)
  <2>2. x >= y /\ x \in Nat /\ y \in 3..5
    BY <1>1, <2>1
  <2> HIDE DEF x, y
  <2>3. x >= 3
    BY <2>2
  <2> QED BY <2>2, <2>3 DEF x, y
<1>3. b[1] = Status[1] /\ b[2] = Status[2] /\ b[3] = Status[3]
  <2>1. Along(b, m, NameAnswer, 2) /\ Len(b) \in Nat
        /\ 1 \in 1..Len(b) /\ 2 \in 1..Len(b) /\ 3 \in 1..Len(b)
    BY <1>1, <1>2
  <2> HIDE DEF b
  <2>2. \A i \in 1..Len(b) : b[i] = NameAnswer[2 + i]
    BY <2>1 DEF Along
  <2>3. \A i \in 1..Len(Status) : NameAnswer[2 + i] = Status[i]
    BY <1>1, NameAnswerIs
  <2> QED BY <1>2, <2>1, <2>2, <2>3
<1>4. ok <=> peer.status # "nok"
  <2>1. ok <=> b[1] = Field("s") /\ b[2] = Field("o") /\ b[3] = Field("k")
    BY <1>1, <1>2, PrefixIs
  <2>2. Field("n") # Field("o")
    BY FieldIs
  <2> QED BY <1>1, <1>3, <2>1, <2>2, StatusIs
<1>5. handle_read_status_body(h) =
        IF ~ ok THEN Fail(f)
        ELSE IF Len(g.buf) >= 2 THEN handle_read_challenge_header(g)
        ELSE Await(g, "challenge_header", 2)
  <2>1. r = SubSeq(h.buf, 4, Len(h.buf))
    <3>1. 3 + 1 = 4
      OBVIOUS
    <3> QED BY <3>1 DEF Rest
  <2>2. f.buf = h.buf
    BY <1>1 DEF Connection
  <2>3. r = SubSeq(f.buf, 4, Len(f.buf))
    BY <2>1, <2>2
  <2> HIDE DEF r
  <2> QED BY <2>3 DEF handle_read_status_body
<1>6. r \in Seq(Unit) /\ Len(r) \in Nat /\ Along(r, m, NameAnswer, 5)
  <2>1. NameAnswer \in Seq(Unit) /\ 3 \in 0..Len(b) /\ 2 + 3 = 5
    BY <1>1, <1>2, NameAnswerIs
  <2>2. Along(b, m, NameAnswer, 2)
    OBVIOUS
  <2> HIDE DEF b
  <2>3. r \in Seq(Unit) /\ Len(r) \in Nat /\ Along(r, m, NameAnswer, 2 + 3)
    BY <1>1, <2>1, <2>2, UseAlong
  <2> QED BY <2>1, <2>3
<1>7. a = TRUE /\ st \in States
  BY <1>1, <1>2 DEF States
<1> HIDE DEF r, a, b, st, ok
<1>8. /\ f \in Connection /\ f.asserted /\ f.state = h.state /\ f.sent = h.sent
      /\ g \in Connection /\ g.asserted /\ g.state = st /\ g.buf = r
      /\ g.failed = h.failed /\ g.need = h.need /\ g.sent = h.sent
      /\ g.dist_version = h.dist_version /\ g.our_challenge = h.our_challenge
  BY <1>1, <1>6, <1>7 DEF Connection
<1> HIDE DEF f, g
<1>9. Named(g, m)
  BY <1>8, NamedSame
<1>10. CASE peer.status = "nok"
  <2>1. ~ Good(peer)
    BY <1>10 DEF Good
  <2>2. f.state # "CS_WAIT_RESOLVE"
    BY <1>8
  <2> QED BY <1>1, <1>4, <1>5, <1>8, <1>10, <2>1, <2>2, FailHandled
<1>11. CASE peer.status # "nok" /\ Len(g.buf) >= 2
  <2>1. Ready(g, m) /\ g.state = "CS_WAIT_CHALLENGE" /\ Along(g.buf, m, NameAnswer, 5)
    BY <1>1, <1>6, <1>8 DEF Ready, st
  <2>2. Handled(handle_read_challenge_header(g), m)
    BY <1>9, <1>11, <2>1, ChallengeHeaderHandled
  <2> QED BY <1>4, <1>5, <1>11, <2>2
<1>12. CASE peer.status # "nok" /\ ~ (Len(g.buf) >= 2)
  <2> DEFINE k == Await(g, "challenge_header", 2)
  <2>1. "challenge_header" \in Handlers /\ 2 \in Nat
    BY DEF Handlers
  <2>2. /\ k \in Connection /\ SameSession(g, k)
        /\ k.next = "challenge_header" /\ k.need = 2 /\ k.buf = g.buf
        /\ k.failed = g.failed /\ k.asserted = g.asserted
    BY <1>8, <2>1, AwaitIs
  <2> HIDE DEF k
  <2>3. Named(k, m)
    BY <1>9, <2>2, NamedSame DEF SameSession
  <2>4. Len(k.buf) < 2 /\ Along(k.buf, m, NameAnswer, 5)
    BY <1>6, <1>8, <1>12, <2>2
  <2>5. k.state = "CS_WAIT_CHALLENGE"
    BY <1>8, <2>2 DEF SameSession, st
  <2>6. Phase(k, m)
    BY <1>12, <2>2, <2>3, <2>4, <2>5 DEF Phase
  <2>7. handle_read_status_body(h) = k
    BY <1>4, <1>5, <1>12 DEF k
  <2> QED BY <1>1, <1>8, <2>2, <2>5, <2>6, <2>7 DEF Handled, SameSession
<1> QED BY <1>10, <1>11, <1>12

LEMMA StatusHeaderHandled ==
  ASSUME NEW h, NEW m, Ready(h, m), h.state = "CS_WAIT_STATUS", Named(h, m),
         closed \/ pstate # "name", Len(h.buf) >= 2, Along(h.buf, m, NameAnswer, 0)
  PROVE  Handled(handle_read_status_header(h), m)
<1> DEFINE n == get16be(h.buf)
           g == Beheaded(h, n)
<1>1. /\ h \in Connection /\ h.buf \in Seq(Unit) /\ Len(h.buf) \in Nat /\ peer \in Peers
      /\ seen \in 0..Len(h.sent) /\ h.asserted
  BY DEF Ready, Connection
<1>2. h.buf[1] = NameAnswer[0 + 1] /\ h.buf[2] = NameAnswer[0 + 2]
  BY <1>1, FirstUnits
<1>3. handle_read_status_header(h) =
        IF g.expect = Garbage THEN Fail(g)
        ELSE IF Pending(g) > 0 THEN Await(g, "status_body", Pending(g))
        ELSE handle_read_status_body(g)
  BY BeheadedBy DEF handle_read_status_header
<1>4. Len(Status) \in 3..5 /\ NameAnswer \in Seq(Unit)
  BY <1>1, StatusIs, NameAnswerIs
<1>5. n = Len(Status)
  <2>1. h.buf[1] = <<"hi", Len(Status)>> /\ h.buf[2] = <<"lo", Len(Status)>>
    BY <1>1, <1>2, NameAnswerIs
  <2> QED BY <1>1, <1>4, <2>1, HeaderIs
<1>6. n \in Nat /\ n # Garbage
  <2> HIDE DEF n
  <2>1. n \in 3..5
    BY <1>4, <1>5
  <2> QED BY <2>1 DEF Garbage
<1> HIDE DEF n
<1>7. /\ Ready(g, m) /\ SameSession(h, g) /\ g.expect = n
      /\ Len(g.buf) \in Nat /\ Along(g.buf, m, NameAnswer, 2)
  <2>1. Along(g.buf, m, NameAnswer, 0 + 2) /\ 0 + 2 = 2
    BY <1>4, <1>6, BeheadedIs
  <2> QED BY <1>4, <1>6, <2>1, BeheadedIs
<1> HIDE DEF g
<1>8. Named(g, m)
  BY <1>7, NamedSame DEF SameSession
<1>9. CASE Pending(g) > 0
  <2> DEFINE k == Await(g, "status_body", Pending(g))
  <2>1. Pending(g) = n - Len(g.buf) /\ Pending(g) \in Nat /\ "status_body" \in Handlers
    BY <1>6, <1>7, <1>9 DEF Pending, Handlers
  <2>2. g \in Connection
    BY <1>7 DEF Ready
  <2>3. /\ k \in Connection /\ SameSession(g, k)
        /\ k.next = "status_body" /\ k.need = Pending(g) /\ k.buf = g.buf
        /\ k.expect = g.expect /\ k.failed = g.failed /\ k.asserted = g.asserted
    <3>1. Pending(g) \in Nat /\ "status_body" \in Handlers
      BY <2>1
    <3> QED BY <2>2, <3>1, AwaitIs, ZenonT(40)
  <2> HIDE DEF k
  <2>4. Named(k, m)
    BY <1>8, <2>3, NamedSame DEF SameSession
  <2>5. AwaitsBody(k, "status_body", Len(Status))
    BY <1>5, <1>7, <1>9, <2>1, <2>3 DEF AwaitsBody
  <2>6. k.state = "CS_WAIT_STATUS" /\ Along(k.buf, m, NameAnswer, 2)
    BY <1>7, <2>3 DEF SameSession
  <2>7. Phase(k, m)
    BY <2>4, <2>5, <2>6 DEF Phase
  <2>8. handle_read_status_header(h) = k
    BY <1>3, <1>6, <1>7, <1>9 DEF k
  <2> QED BY <1>7, <2>3, <2>6, <2>7, <2>8 DEF Handled, Ready, SameSession
<1>10. CASE ~ (Pending(g) > 0)
  <2>1. Len(g.buf) >= n /\ g.state = "CS_WAIT_STATUS"
    BY <1>6, <1>7, <1>10 DEF Pending, SameSession
  <2>2. Handled(handle_read_status_body(g), m)
    BY <1>5, <1>7, <1>8, <2>1, StatusBodyHandled
  <2> QED BY <1>3, <1>6, <1>7, <1>10, <2>2
<1> QED BY <1>9, <1>10

\* The digest of the challenge is the peer's only if the cookies are the same.
LEMMA DigestIs ==
  ASSUME NEW x, NEW y, NEW z
  PROVE  Field(gen_digest(x, y)) = Field(gen_digest(x, z)) <=> y = z
<1>1. gen_digest(x, y) = gen_digest(x, z) <=> y = z
  BY DEF gen_digest
<1> QED BY <1>1, FieldIs

LEMMA AckBodyHandled ==
  ASSUME NEW h, NEW m, Ready(h, m), h.state = "CS_WAIT_CHALLENGE_ACK", Replied(h, m),
         h.expect = 2, Len(h.buf) >= 2, Along(h.buf, m, AckAnswer, 2)
  PROVE  Handled(handle_read_challenge_ack_body(h), m)
<1> DEFINE a == h.asserted /\ Len(h.buf) >= h.expect
           st == "CS_CONNECTED"
           k == [h EXCEPT !.state = st]
<1>1. /\ h \in Connection /\ h.buf \in Seq(Unit) /\ Len(h.buf) \in Nat /\ peer \in Peers
      /\ seen \in 0..Len(h.sent) /\ h.asserted /\ ~ h.failed /\ h.need = 0 /\ m \in Seq(Unit)
  BY DEF Ready, Connection
<1>2. /\ h.buf[1] = Field("a")
      /\ h.buf[2] = Field(gen_digest(gen_challenge("us"), peer.cookie))
  <2>1. h.buf[1] = AckAnswer[2 + 1] /\ h.buf[2] = AckAnswer[2 + 2]
    BY <1>1, FirstUnits
  <2> QED BY <2>1, AckAnswerIs
<1>3. [h EXCEPT !.asserted = a] = h
  <2>1. a = TRUE
    BY <1>1
  <2> QED BY <1>1, <2>1, AssertedSame
<1>4. h.our_challenge = gen_challenge("us")
  BY DEF Replied
<1>5. handle_read_challenge_ack_body(h) = IF peer.cookie = Cookie THEN k ELSE Fail(h)
  <2>1. handle_read_challenge_ack_body(h) =
          IF \/ h.buf[1] # Field("a")
             \/ h.buf[2] # Field(gen_digest(h.our_challenge, Cookie))
          THEN Fail(h) ELSE k
    BY <1>3 DEF handle_read_challenge_ack_body
  <2>2. h.buf[2] = Field(gen_digest(h.our_challenge, Cookie)) <=> peer.cookie = Cookie
    BY <1>2, <1>4, DigestIs
  <2> HIDE DEF k
  <2> QED BY <1>2, <2>1, <2>2
<1>6. CASE peer.cookie # Cookie
  <2>1. ~ Good(peer)
    BY <1>6 DEF Good
  <2> QED BY <1>1, <1>5, <1>6, <2>1, FailHandled
<1>7. CASE peer.cookie = Cookie
  <2>1. st \in States
    BY DEF States
  <2> HIDE DEF st
  <2>2. /\ k \in Connection /\ k.state = st /\ k.sent = h.sent /\ k.need = h.need
        /\ k.dist_version = h.dist_version /\ k.asserted = h.asserted /\ k.failed = h.failed
    BY <1>1, <2>1 DEF Connection
  <2> HIDE DEF k
  <2>3. Len(h.buf) + Len(m) > 0
    BY <1>1
  <2>4. pstate \in {"up", "lost"} /\ h.dist_version = peer.version
    BY <2>3 DEF Replied
  <2>5. Phase(k, m)
    BY <1>1, <1>7, <2>2, <2>4 DEF Phase, st
  <2> QED BY <1>1, <1>5, <1>7, <2>2, <2>5 DEF Handled, st
<1> QED BY <1>6, <1>7

LEMMA AckHeaderHandled ==
  ASSUME NEW h, NEW m, Ready(h, m), h.state = "CS_WAIT_CHALLENGE_ACK", Replied(h, m),
         Len(h.buf) >= 2, Along(h.buf, m, AckAnswer, 0)
  PROVE  Handled(handle_read_challenge_ack_header(h), m)
<1> DEFINE n == get16be(h.buf)
           g == Beheaded(h, n)
<1>1. /\ h \in Connection /\ h.buf \in Seq(Unit) /\ Len(h.buf) \in Nat /\ peer \in Peers
      /\ seen \in 0..Len(h.sent) /\ h.asserted /\ m \in Seq(Unit)
  BY DEF Ready, Connection
<1>2. h.buf[1] = AckAnswer[0 + 1] /\ h.buf[2] = AckAnswer[0 + 2]
  BY <1>1, FirstUnits
<1>3. handle_read_challenge_ack_header(h) =
        IF g.expect = Garbage THEN Fail(g)
        ELSE IF Pending(g) > 0 THEN Await(g, "ack_body", Pending(g))
        ELSE handle_read_challenge_ack_body(g)
  BY BeheadedBy DEF handle_read_challenge_ack_header
<1>4. n = 2
  <2>1. h.buf[1] = <<"hi", 2>> /\ h.buf[2] = <<"lo", 2>>
    BY <1>2, AckAnswerIs
  <2> QED BY <1>1, <2>1, HeaderIs
<1>5. n \in Nat /\ n # Garbage
  <2> HIDE DEF n
  <2> QED BY <1>4 DEF Garbage
<1> HIDE DEF n
<1>6. AckAnswer \in Seq(Unit)
  BY AckAnswerIs
<1>7. /\ Ready(g, m) /\ SameSession(h, g) /\ g.expect = n
      /\ Len(g.buf) \in Nat /\ Along(g.buf, m, AckAnswer, 2)
  <2>1. Along(g.buf, m, AckAnswer, 0 + 2) /\ 0 + 2 = 2
    BY <1>5, <1>6, BeheadedIs
  <2> QED BY <1>5, <1>6, <2>1, BeheadedIs
<1> HIDE DEF g
<1>8. Len(h.buf) + Len(m) > 0
  BY <1>1
<1>9. ASSUME NEW f, SameSession(h, f) PROVE Replied(f, m)
  BY <1>8, <1>9 DEF Replied, SameSession
<1>10. CASE Pending(g) > 0
  <2> DEFINE k == Await(g, "ack_body", Pending(g))
  <2>1. Pending(g) = n - Len(g.buf) /\ Pending(g) \in Nat /\ "ack_body" \in Handlers
    BY <1>5, <1>7, <1>10 DEF Pending, Handlers
  <2>2. g \in Connection
    BY <1>7 DEF Ready
  <2>3. /\ k \in Connection /\ SameSession(g, k)
        /\ k.next = "ack_body" /\ k.need = Pending(g) /\ k.buf = g.buf
        /\ k.expect = g.expect /\ k.failed = g.failed /\ k.asserted = g.asserted
    <3>1. Pending(g) \in Nat /\ "ack_body" \in Handlers
      BY <2>1
    <3> QED BY <2>2, <3>1, AwaitIs, ZenonT(40)
  <2> HIDE DEF k
  <2>4. SameSession(h, k)
    BY <1>7, <2>3 DEF SameSession
  <2>5. AwaitsBody(k, "ack_body", 2)
    BY <1>4, <1>7, <1>10, <2>1, <2>3 DEF AwaitsBody
  <2>6. k.state = "CS_WAIT_CHALLENGE_ACK" /\ Along(k.buf, m, AckAnswer, 2)
    BY <1>7, <2>3 DEF SameSession
  <2>7. Phase(k, m)
    <3>1. pstate \in {"up", "lost"}
      BY <1>8 DEF Replied
    <3> QED BY <1>9, <2>4, <2>5, <2>6, <3>1 DEF Phase
  <2>8. handle_read_challenge_ack_header(h) = k
    BY <1>3, <1>5, <1>7, <1>10 DEF k
  <2> QED BY <1>1, <1>7, <2>3, <2>4, <2>6, <2>7, <2>8 DEF Handled, Ready, SameSession
<1>11. CASE ~ (Pending(g) > 0)
  <2>1. Len(g.buf) >= 2 /\ g.state = "CS_WAIT_CHALLENGE_ACK"
    BY <1>4, <1>7, <1>11 DEF Pending, SameSession
  <2>2. Handled(handle_read_challenge_ack_body(g), m)
    BY <1>4, <1>7, <1>9, <2>1, AckBodyHandled
  <2> QED BY <1>3, <1>5, <1>7, <1>11, <2>2
<1> QED BY <1>10, <1>11

-----------------------------------------------------------------------------
(***************************************************************************)
(* Steps.  What the peer is never changes, and so neither do its answers.  *)
(***************************************************************************)
LEMMA SamePeer ==
  ASSUME peer' = peer
  PROVE  /\ EpmdReply' = EpmdReply /\ Status' = Status /\ PeerChallenge' = PeerChallenge
         /\ NameAnswer' = NameAnswer /\ AckAnswer' = AckAnswer /\ EpmdVersion' = EpmdVersion
         /\ Connection' = Connection /\ Unit' = Unit /\ Good(peer)' = Good(peer)
<1>1. /\ EpmdReply' = EpmdReply /\ Status' = Status /\ PeerChallenge' = PeerChallenge
      /\ EpmdVersion' = EpmdVersion /\ Ack' = Ack /\ Good(peer)' = Good(peer)
  BY DEF EpmdReply, Status, PeerChallenge, EpmdVersion, Ack, Good
<1>2. NameAnswer' = NameAnswer /\ AckAnswer' = AckAnswer
  BY <1>1 DEF NameAnswer, AckAnswer
<1>3. Unit' = Unit
  BY <1>1 DEF Unit, UnitsOf
<1>4. Connection' = Connection
  BY <1>3 DEF Connection
<1> QED BY <1>1, <1>2, <1>3, <1>4

\* A step of this node alone: the other side stays where it is.
LEMMA SamePhase ==
  ASSUME peer' = peer, seen' = seen, pstate' = pstate, closed' = closed, Phase(c', net')
  PROVE  Phase(c, net)'
BY SamePeer DEF Phase, Asking, Named, Replied

\* A handler of this node that has done its work.
LEMMA HandledStep ==
  ASSUME HandshakeInv, peer' = peer, seen' = seen, pstate' = pstate, closed' = closed,
         neterr' = neterr, left' = left, Handled(c', net'), net' \in Seq(Unit)
  PROVE  HandshakeInv'
<1>1. Types'
  BY SamePeer DEF HandshakeInv, Types, Handled
<1>2. c'.failed \/ closed' => Excused'
  BY SamePeer DEF HandshakeInv, Progress, Handled, Excused
<1>3. ~ c'.failed => Phase(c, net)'
  BY SamePhase DEF Handled
<1> QED BY <1>1, <1>2, <1>3 DEF HandshakeInv, Progress, Handled

\* The attempt ends: the network has failed, or the other side has closed.
LEMMA FailStep ==
  ASSUME HandshakeInv, c' = Fail(c), peer' = peer, closed' = closed, left' = left,
         pstate' = pstate, neterr' \in BOOLEAN, neterr => neterr', neterr' \/ closed,
         net' \in Seq(Unit), seen' \in 0..Len(c.sent)
  PROVE  HandshakeInv'
<1>1. c \in Connection /\ c.asserted
  BY DEF HandshakeInv, Types, Progress
<1>2. /\ c' \in Connection /\ c'.failed /\ c'.asserted
      /\ c'.state = c.state /\ c'.sent = c.sent
  BY <1>1 DEF Fail, Connection
<1>3. Types'
  BY <1>2, SamePeer DEF HandshakeInv, Types
<1>4. Excused'
  BY SamePeer DEF HandshakeInv, Progress, Excused
<1> QED BY <1>2, <1>3, <1>4 DEF HandshakeInv, Progress

\* The units of the network that the handler gets, and those that stay.
Received(n) == [c EXCEPT !.buf = Taken(@, net, n), !.need = 0]

LEMMA ReceivedIs ==
  ASSUME HandshakeInv, ~ c.failed, NEW n \in 0..Len(net),
         NEW w \in Seq(Unit), NEW off \in Nat, Along(c.buf, net, w, off)
  PROVE  /\ Ready(Received(n), Rest(net, n)) /\ SameSession(c, Received(n))
         /\ Received(n).expect = c.expect /\ Received(n).next = c.next
         /\ Len(Received(n).buf) = Len(c.buf) + n
         /\ Along(Received(n).buf, Rest(net, n), w, off)
<1> DEFINE b == Taken(c.buf, net, n)
           m == Rest(net, n)
           h == [c EXCEPT !.buf = b, !.need = 0]
<1>1. /\ c \in Connection /\ c.buf \in Seq(Unit) /\ net \in Seq(Unit) /\ peer \in Peers
      /\ seen \in 0..Len(c.sent) /\ c.asserted
  BY DEF HandshakeInv, Types, Progress, Connection
<1>2. /\ b \in Seq(Unit) /\ m \in Seq(Unit) /\ Len(b) = Len(c.buf) + n
      /\ Along(b, m, w, off)
  <2> DEFINE u == c.buf
  <2>1. u \in Seq(Unit) /\ net \in Seq(Unit) /\ Along(u, net, w, off)
    BY <1>1
  <2> HIDE DEF u
  <2>2. /\ Taken(u, net, n) \in Seq(Unit) /\ Rest(net, n) \in Seq(Unit)
        /\ Len(Taken(u, net, n)) = Len(u) + n
        /\ Along(Taken(u, net, n), Rest(net, n), w, off)
    BY <2>1, ReadAlong
  <2> QED BY <2>2 DEF u
<1>3. h = Received(n)
  BY DEF Received
<1> HIDE DEF b, m
<1>4. /\ h \in Connection /\ h.buf = b /\ h.need = 0 /\ h.expect = c.expect
      /\ h.next = c.next /\ h.state = c.state /\ h.sent = c.sent
      /\ h.dist_version = c.dist_version /\ h.our_challenge = c.our_challenge
      /\ h.asserted = c.asserted /\ h.failed = c.failed
  <2>1. c \in Connection /\ b \in Seq(Unit)
    BY <1>1, <1>2
  <2>2. h \in Connection
    BY <2>1 DEF Connection
  <2> QED BY <2>1, <2>2 DEF Connection
<1> HIDE DEF h
<1>5. Ready(h, m)
  BY <1>1, <1>2, <1>4 DEF Ready
<1> QED BY <1>2, <1>3, <1>4, <1>5 DEF SameSession, m

LEMMA ReadStep ==
  ASSUME HandshakeInv, Read
  PROVE  HandshakeInv'
<1>1. /\ ~ c.failed /\ c.need > 0
      /\ peer' = peer /\ seen' = seen /\ pstate' = pstate /\ closed' = closed
      /\ neterr' = neterr /\ left' = left
  BY DEF Read
<1>2. PICK n \in c.need .. Len(net) : c' = Handle(Received(n)) /\ net' = Rest(net, n)
  BY DEF Read, Received, Taken, Rest
<1> DEFINE h == Received(n)
           m == Rest(net, n)
<1>3. /\ c \in Connection /\ net \in Seq(Unit) /\ peer \in Peers /\ c.need \in Nat
      /\ Len(net) \in Nat /\ Len(c.buf) \in Nat
  BY DEF HandshakeInv, Types, Connection
<1>4. n \in 0..Len(net) /\ n >= c.need /\ Len(net) > 0 /\ net # <<>>
  BY <1>1, <1>3
<1>5. Phase(c, net)
  BY <1>1 DEF HandshakeInv, Progress
<1>6. /\ EpmdReply \in Seq(Unit) /\ NameAnswer \in Seq(Unit) /\ AckAnswer \in Seq(Unit)
  BY <1>3, EpmdReplyIs, NameAnswerIs, AckAnswerIs
<1>7. ASSUME NEW w \in Seq(Unit), NEW off \in Nat, Along(c.buf, net, w, off)
      PROVE  /\ Ready(h, m) /\ SameSession(c, h) /\ h.expect = c.expect /\ h.next = c.next
             /\ Len(h.buf) = Len(c.buf) + n /\ Along(h.buf, m, w, off)
  BY <1>1, <1>4, <1>7, ReceivedIs
<1> HIDE DEF h, m
<1>8. c.state \in {"CS_WAIT_EPMD_REPLY", "CS_WAIT_STATUS", "CS_WAIT_CHALLENGE",
                   "CS_WAIT_CHALLENGE_ACK"}
  <2>1. c.state \in States /\ c.need # 0
    BY <1>1, <1>3 DEF Connection
  <2> QED BY <1>5, <2>1 DEF Phase, Writes, States
<1>9. ASSUME c.state = "CS_WAIT_EPMD_REPLY"
      PROVE  Handled(Handle(h), m)
  <2>1. Asking(c, net) /\ seen = 1
    BY <1>4, <1>5, <1>9 DEF Phase, Asking
  <2>2. CASE AwaitsHeader(c, "epmd_header") /\ Along(c.buf, net, EpmdReply, 0)
    <3>1. /\ Ready(h, m) /\ h.state = "CS_WAIT_EPMD_REPLY" /\ h.sent = c.sent
          /\ h.next = "epmd_header" /\ Along(h.buf, m, EpmdReply, 0)
          /\ Len(h.buf) = Len(c.buf) + n
      BY <1>6, <1>7, <1>9, <2>2 DEF SameSession, AwaitsHeader
    <3>2. Asking(h, m)
      BY <2>1, <3>1 DEF Asking
    <3>3. Len(h.buf) >= 2
      BY <1>3, <1>4, <2>2, <3>1 DEF AwaitsHeader
    <3>4. Handled(handle_epmd_read_header(h), m)
      BY <2>1, <3>1, <3>2, <3>3, EpmdHeaderHandled
    <3> QED BY <3>1, <3>4 DEF Handle
  <2>3. CASE /\ AwaitsBody(c, "epmd_body", 2) /\ Along(c.buf, net, EpmdReply, 2)
             /\ peer.epmd = "port"
    <3>1. /\ Ready(h, m) /\ h.state = "CS_WAIT_EPMD_REPLY"
          /\ h.next = "epmd_body" /\ Along(h.buf, m, EpmdReply, 2)
          /\ Len(h.buf) = Len(c.buf) + n
      BY <1>6, <1>7, <1>9, <2>3 DEF SameSession, AwaitsBody
    <3>2. Len(h.buf) >= 2
      BY <1>3, <1>4, <2>3, <3>1 DEF AwaitsBody
    <3>3. pstate \in {"epmd", "lost"}
      BY <2>1 DEF Asking
    <3>4. Handled(handle_epmd_read_body(h), m)
      BY <2>3, <3>1, <3>2, <3>3, EpmdBodyHandled
    <3> QED BY <3>1, <3>4 DEF Handle
  <2> QED BY <1>5, <1>9, <2>2, <2>3 DEF Phase
<1>10. ASSUME c.state \in {"CS_WAIT_STATUS", "CS_WAIT_CHALLENGE"}
       PROVE  Named(c, net) /\ (closed \/ pstate # "name")
  BY <1>4, <1>5, <1>10 DEF Phase, Named
<1>11. ASSUME c.state = "CS_WAIT_STATUS"
       PROVE  Handled(Handle(h), m)
  <2>1. CASE AwaitsHeader(c, "status_header") /\ Along(c.buf, net, NameAnswer, 0)
    <3>1. /\ Ready(h, m) /\ SameSession(c, h) /\ h.state = "CS_WAIT_STATUS"
          /\ h.next = "status_header" /\ Along(h.buf, m, NameAnswer, 0)
          /\ Len(h.buf) = Len(c.buf) + n
      BY <1>6, <1>7, <1>11, <2>1 DEF SameSession, AwaitsHeader
    <3>2. Named(h, m)
      BY <1>10, <1>11, <3>1, NamedSame DEF SameSession
    <3>3. Len(h.buf) >= 2
      BY <1>3, <1>4, <2>1, <3>1 DEF AwaitsHeader
    <3>4. Handled(handle_read_status_header(h), m)
      BY <1>10, <1>11, <3>1, <3>2, <3>3, StatusHeaderHandled
    <3> QED BY <3>1, <3>4 DEF Handle
  <2>2. CASE AwaitsBody(c, "status_body", Len(Status)) /\ Along(c.buf, net, NameAnswer, 2)
    <3>1. /\ Ready(h, m) /\ SameSession(c, h) /\ h.state = "CS_WAIT_STATUS"
          /\ h.next = "status_body" /\ Along(h.buf, m, NameAnswer, 2)
          /\ Len(h.buf) = Len(c.buf) + n
      BY <1>6, <1>7, <1>11, <2>2 DEF SameSession, AwaitsBody
    <3>2. Named(h, m)
      BY <1>10, <1>11, <3>1, NamedSame DEF SameSession
    <3>3. Len(h.buf) >= Len(Status)
      <4>1. Status \in Seq(Unit)
        BY <1>3, StatusIs
      <4> QED BY <1>3, <1>4, <2>2, <3>1, <4>1 DEF AwaitsBody
    <3>4. Handled(handle_read_status_body(h), m)
      BY <1>10, <1>11, <3>1, <3>2, <3>3, StatusBodyHandled
    <3> QED BY <3>1, <3>4 DEF Handle
  <2> QED BY <1>5, <1>11, <2>1, <2>2 DEF Phase
<1>12. ASSUME c.state = "CS_WAIT_CHALLENGE"
       PROVE  Handled(Handle(h), m)
  <2>1. CASE /\ c.next = "challenge_header" /\ c.need = 2
             /\ peer.status # "nok" /\ Along(c.buf, net, NameAnswer, 5)
    <3>1. /\ Ready(h, m) /\ SameSession(c, h) /\ h.state = "CS_WAIT_CHALLENGE"
          /\ h.next = "challenge_header" /\ Along(h.buf, m, NameAnswer, 5)
          /\ Len(h.buf) = Len(c.buf) + n
      BY <1>6, <1>7, <1>12, <2>1 DEF SameSession
    <3>2. Named(h, m)
      BY <1>10, <1>12, <3>1, NamedSame DEF SameSession
    <3>3. Len(h.buf) >= 2
      BY <1>3, <1>4, <2>1, <3>1
    <3>4. Handled(handle_read_challenge_header(h), m)
      BY <1>10, <1>12, <2>1, <3>1, <3>2, <3>3, ChallengeHeaderHandled
    <3> QED BY <3>1, <3>4 DEF Handle
  <2>2. CASE /\ AwaitsBody(c, "challenge_body", Len(PeerChallenge))
             /\ peer.status = "ok" /\ Along(c.buf, net, NameAnswer, 7)
    <3>1. /\ Ready(h, m) /\ SameSession(c, h) /\ h.state = "CS_WAIT_CHALLENGE"
          /\ h.next = "challenge_body" /\ Along(h.buf, m, NameAnswer, 7)
          /\ Len(h.buf) = Len(c.buf) + n /\ h.expect = Len(PeerChallenge)
      BY <1>6, <1>7, <1>12, <2>2 DEF SameSession, AwaitsBody
    <3>2. Named(h, m)
      BY <1>10, <1>12, <3>1, NamedSame DEF SameSession
    <3>3. Len(h.buf) >= Len(PeerChallenge)
      <4>1. PeerChallenge \in Seq(Unit)
        BY <1>3, PeerChallengeIs
      <4> QED BY <1>3, <1>4, <2>2, <3>1, <4>1 DEF AwaitsBody
    <3>4. Handled(handle_read_challenge_body(h), m)
      BY <1>10, <1>12, <2>2, <3>1, <3>2, <3>3, ChallengeBodyHandled
    <3> QED BY <3>1, <3>4 DEF Handle
  <2> QED BY <1>5, <1>12, <2>1, <2>2 DEF Phase
<1>13. ASSUME c.state = "CS_WAIT_CHALLENGE_ACK"
       PROVE  Handled(Handle(h), m)
  <2>1. Replied(c, net) /\ pstate \in {"up", "lost"}
    BY <1>3, <1>4, <1>5, <1>13 DEF Phase, Replied
  <2>2. ASSUME SameSession(c, h) PROVE Replied(h, m)
    BY <2>1, <2>2 DEF Replied, SameSession
  <2>3. CASE AwaitsHeader(c, "ack_header") /\ Along(c.buf, net, AckAnswer, 0)
    <3>1. /\ Ready(h, m) /\ SameSession(c, h) /\ h.state = "CS_WAIT_CHALLENGE_ACK"
          /\ h.next = "ack_header" /\ Along(h.buf, m, AckAnswer, 0)
          /\ Len(h.buf) = Len(c.buf) + n
      BY <1>6, <1>7, <1>13, <2>3 DEF SameSession, AwaitsHeader
    <3>2. Len(h.buf) >= 2
      BY <1>3, <1>4, <2>3, <3>1 DEF AwaitsHeader
    <3>3. Handled(handle_read_challenge_ack_header(h), m)
      BY <2>2, <3>1, <3>2, AckHeaderHandled
    <3> QED BY <3>1, <3>3 DEF Handle
  <2>4. CASE AwaitsBody(c, "ack_body", 2) /\ Along(c.buf, net, AckAnswer, 2)
    <3>1. /\ Ready(h, m) /\ SameSession(c, h) /\ h.state = "CS_WAIT_CHALLENGE_ACK"
          /\ h.next = "ack_body" /\ Along(h.buf, m, AckAnswer, 2)
          /\ Len(h.buf) = Len(c.buf) + n /\ h.expect = 2
      BY <1>6, <1>7, <1>13, <2>4 DEF SameSession, AwaitsBody
    <3>2. Len(h.buf) >= 2
      BY <1>3, <1>4, <2>4, <3>1 DEF AwaitsBody
    <3>3. Handled(handle_read_challenge_ack_body(h), m)
      BY <2>2, <3>1, <3>2, AckBodyHandled
    <3> QED BY <3>1, <3>3 DEF Handle
  <2> QED BY <1>5, <1>13, <2>3, <2>4 DEF Phase
<1>14. Handled(c', net')
  BY <1>2, <1>8, <1>9, <1>11, <1>12, <1>13 DEF h, m
<1>15. net' \in Seq(Unit)
  BY <1>2, <1>3, <1>4, RestIs
<1> QED BY <1>1, <1>14, <1>15, HandledStep

\* Nothing has been read and nothing is on the way.
LEMMA NothingYet ==
  ASSUME NEW w, Len(w) \in Nat
  PROVE  Along(<<>>, <<>>, w, 0)
BY DEF Along

LEMMA ResolveStep ==
  ASSUME HandshakeInv, handle_resolve
  PROVE  HandshakeInv'
<1> DEFINE st == "CS_WAIT_EPMD_CONNECT"
           k == [c EXCEPT !.state = st]
<1>1. /\ ~ c.failed /\ c.state = "CS_WAIT_RESOLVE" /\ peer' = peer /\ net' = net
      /\ seen' = seen /\ pstate' = pstate /\ closed' = closed
  BY DEF handle_resolve
<1>2. /\ c \in Connection /\ left = Endpoints /\ Endpoints \in Nat \ {0} /\ c.asserted
      /\ Phase(c, net) /\ net \in Seq(Unit) /\ seen \in 0..Len(c.sent) /\ neterr \in BOOLEAN
  BY <1>1, HandshakeAssumption DEF HandshakeInv, Types, Progress
<1>3. CASE c' = Fail(c) /\ neterr' = TRUE /\ left' = left
  BY <1>1, <1>2, <1>3, FailStep
<1>4. CASE c' = k /\ left' = left - 1 /\ neterr' = neterr
  <2>1. st \in States
    BY DEF States
  <2> HIDE DEF st
  <2>2. /\ k \in Connection /\ k.state = st /\ k.sent = c.sent /\ k.need = c.need
        /\ k.buf = c.buf /\ k.asserted = c.asserted /\ k.failed = c.failed
    BY <1>2, <2>1 DEF Connection
  <2> HIDE DEF k
  <2>3. Phase(c', net')
    BY <1>1, <1>2, <1>4, <2>2 DEF Phase, Writes, st
  <2>4. Phase(c, net)'
    BY <1>1, <2>3, SamePhase
  <2>5. left' \in 0..Endpoints /\ c'.state # "CS_WAIT_RESOLVE"
    BY <1>2, <1>4, <2>2 DEF st
  <2>6. Types'
    BY <1>1, <1>2, <1>4, <2>2, <2>5, SamePeer DEF HandshakeInv, Types
  <2>7. c'.asserted /\ (c'.failed \/ closed' => Excused')
    BY <1>1, <1>2, <1>4, <2>2, SamePeer DEF HandshakeInv, Progress, Excused
  <2> QED BY <2>4, <2>6, <2>7 DEF HandshakeInv, Progress
<1> QED BY <1>3, <1>4 DEF handle_resolve

LEMMA EpmdConnectStep ==
  ASSUME HandshakeInv, handle_epmd_connect
  PROVE  HandshakeInv'
<1> DEFINE st == "CS_WAIT_EPMD_WRITE_DONE"
           e == <<>>
           s == <<Plain("PORT2_REQ")>>
           k == [c EXCEPT !.state = st, !.sent = s, !.buf = e]
<1>1. /\ ~ c.failed /\ c.state = "CS_WAIT_EPMD_CONNECT" /\ peer' = peer /\ net' = net
      /\ seen' = seen /\ pstate' = pstate /\ closed' = closed
  BY DEF handle_epmd_connect
<1>2. /\ c \in Connection /\ left \in 0..Endpoints /\ Endpoints \in Nat /\ c.asserted
      /\ Phase(c, net) /\ net \in Seq(Unit) /\ seen \in 0..Len(c.sent) /\ neterr \in BOOLEAN
      /\ peer \in Peers
  BY <1>1, HandshakeAssumption DEF HandshakeInv, Types, Progress
<1>3. /\ c.need = 0 /\ c.sent = <<>> /\ net = <<>> /\ seen = 0 /\ pstate \in {"epmd", "lost"}
  BY <1>1, <1>2 DEF Phase, Writes
<1>4. CASE /\ c' = Write(c, "CS_WAIT_EPMD_WRITE_DONE", <<[tag |-> "PORT2_REQ"]>>)
           /\ left' = left /\ neterr' = neterr
  <2>1. st \in States /\ e \in Seq(Unit) /\ s \in Seq(Message) /\ Len(s) = 1
    <3>1. Plain("PORT2_REQ") \in Message
      BY DEF Message
    <3> QED BY <3>1 DEF States
  <2>2. c' = k
    <3>1. c.sent \o <<[tag |-> "PORT2_REQ"]>> = s
      BY <1>3 DEF Plain
    <3> HIDE DEF s
    <3> QED BY <1>4, <3>1 DEF Write
  <2> HIDE DEF st, s, e
  <2>3. /\ k \in Connection /\ k.state = st /\ k.sent = s /\ k.need = c.need
        /\ k.buf = e /\ k.asserted = c.asserted /\ k.failed = c.failed
    BY <1>2, <2>1 DEF Connection
  <2> HIDE DEF k
  <2>4. Along(k.buf, net', EpmdReply, 0) /\ Writes(k)
    <3>1. EpmdReply \in Seq(Unit)
      BY <1>2, EpmdReplyIs
    <3> QED BY <1>1, <1>3, <2>3, <3>1, NothingYet DEF Writes, e
  <2>5. Asking(k, net')
    BY <1>1, <1>3, <2>3 DEF Asking, s
  <2>6. Phase(c', net')
    BY <2>2, <2>3, <2>4, <2>5 DEF Phase, st
  <2>7. Handled(c', net')
    BY <1>1, <1>2, <1>3, <2>1, <2>2, <2>3, <2>6 DEF Handled, st
  <2> QED BY <1>1, <1>2, <1>4, <2>7, HandledStep
<1>5. CASE left > 0 /\ left' = left - 1 /\ c' = c /\ neterr' = neterr
  <2>1. left' \in 0..Endpoints
    BY <1>2, <1>5
  <2>2. Types'
    BY <1>1, <1>2, <1>5, <2>1, SamePeer DEF HandshakeInv, Types
  <2>3. c'.asserted /\ (c'.failed \/ closed' => Excused')
    BY <1>1, <1>2, <1>5, SamePeer DEF HandshakeInv, Progress, Excused
  <2>4. Phase(c, net)'
    BY <1>1, <1>2, <1>5, SamePhase
  <2> QED BY <2>2, <2>3, <2>4 DEF HandshakeInv, Progress
<1>6. CASE c' = Fail(c) /\ neterr' = TRUE /\ left' = left
  BY <1>1, <1>2, <1>6, FailStep
<1> QED BY <1>4, <1>5, <1>6 DEF handle_epmd_connect

LEMMA WriteStep ==
  ASSUME HandshakeInv, handle_write
  PROVE  HandshakeInv'
<1>1. /\ ~ c.failed /\ peer' = peer /\ net' = net /\ left' = left /\ neterr' = neterr
      /\ seen' = seen /\ pstate' = pstate /\ closed' = closed
  BY DEF handle_write
<1>2. /\ c \in Connection /\ c.asserted /\ Phase(c, net) /\ net \in Seq(Unit)
      /\ seen \in 0..Len(c.sent) /\ neterr \in BOOLEAN
  BY <1>1 DEF HandshakeInv, Types, Progress
<1>3. CASE closed /\ c' = Fail(c)
  BY <1>1, <1>2, <1>3, FailStep
<1>4. ASSUME NEW st \in States, NEW next \in Handlers,
             c' = Await([c EXCEPT !.state = st], next, 2)
      PROVE  /\ c' \in Connection /\ c'.state = st /\ c'.next = next /\ c'.need = 2
             /\ c'.buf = c.buf /\ c'.sent = c.sent /\ c'.dist_version = c.dist_version
             /\ c'.our_challenge = c.our_challenge /\ c'.asserted = c.asserted
             /\ c'.failed = c.failed
  <2> DEFINE g == [c EXCEPT !.state = st]
  <2>1. /\ g \in Connection /\ g.state = st /\ g.buf = c.buf /\ g.sent = c.sent
        /\ g.dist_version = c.dist_version /\ g.our_challenge = c.our_challenge
        /\ g.asserted = c.asserted /\ g.failed = c.failed
    BY <1>2 DEF Connection
  <2>2. c' = Await(g, next, 2)
    BY <1>4
  <2> HIDE DEF g
  <2>3. /\ c' \in Connection /\ SameSession(g, c') /\ c'.next = next /\ c'.need = 2
        /\ c'.buf = g.buf /\ c'.failed = g.failed /\ c'.asserted = g.asserted
    BY <2>1, <2>2, AwaitIs
  <2> QED BY <2>1, <2>3 DEF SameSession
<1>5. ASSUME c.state \in DOMAIN AfterWrite,
             c' = Await([c EXCEPT !.state = AfterWrite[c.state][1]], AfterWrite[c.state][2], 2)
      PROVE  Handled(c', net')
  <2>1. CASE c.state = "CS_WAIT_EPMD_WRITE_DONE"
    <3>1. c' = Await([c EXCEPT !.state = "CS_WAIT_EPMD_REPLY"], "epmd_header", 2)
      BY <1>5, <2>1 DEF AfterWrite
    <3>2. /\ c' \in Connection /\ c'.state = "CS_WAIT_EPMD_REPLY" /\ c'.next = "epmd_header"
          /\ c'.need = 2 /\ c'.buf = c.buf /\ c'.sent = c.sent
          /\ c'.asserted = c.asserted /\ c'.failed = c.failed
      <4>1. "CS_WAIT_EPMD_REPLY" \in States /\ "epmd_header" \in Handlers
        BY DEF States, Handlers
      <4> QED BY <1>4, <3>1, <4>1
    <3>3. c.buf = <<>> /\ Asking(c, net) /\ Along(c.buf, net, EpmdReply, 0)
      BY <1>2, <2>1 DEF Phase, Writes
    <3>4. Phase(c', net')
      BY <1>1, <3>2, <3>3 DEF Phase, Asking, AwaitsHeader
    <3> QED BY <1>1, <1>2, <3>2, <3>4 DEF Handled
  <2>2. CASE c.state = "CS_WAIT_WRITE_CHALLENGE_DONE"
    <3>1. c' = Await([c EXCEPT !.state = "CS_WAIT_STATUS"], "status_header", 2)
      BY <1>5, <2>2 DEF AfterWrite
    <3>2. /\ c' \in Connection /\ c'.state = "CS_WAIT_STATUS" /\ c'.next = "status_header"
          /\ c'.need = 2 /\ c'.buf = c.buf /\ c'.sent = c.sent
          /\ c'.dist_version = c.dist_version /\ c'.our_challenge = c.our_challenge
          /\ c'.asserted = c.asserted /\ c'.failed = c.failed
      <4>1. "CS_WAIT_STATUS" \in States /\ "status_header" \in Handlers
        BY DEF States, Handlers
      <4> QED BY <1>4, <3>1, <4>1
    <3>3. c.buf = <<>> /\ Named(c, net) /\ Along(c.buf, net, NameAnswer, 0)
      BY <1>2, <2>2 DEF Phase, Writes
    <3>4. Named(c', net')
      BY <1>1, <3>2, <3>3 DEF Named
    <3>5. Phase(c', net')
      BY <1>1, <3>2, <3>3, <3>4 DEF Phase, AwaitsHeader
    <3> QED BY <1>1, <1>2, <3>2, <3>5 DEF Handled
  <2>3. CASE c.state = "CS_WAIT_WRITE_CHALLENGE_REPLY_DONE"
    <3>1. c' = Await([c EXCEPT !.state = "CS_WAIT_CHALLENGE_ACK"], "ack_header", 2)
      BY <1>5, <2>3 DEF AfterWrite
    <3>2. /\ c' \in Connection /\ c'.state = "CS_WAIT_CHALLENGE_ACK" /\ c'.next = "ack_header"
          /\ c'.need = 2 /\ c'.buf = c.buf /\ c'.sent = c.sent
          /\ c'.dist_version = c.dist_version /\ c'.our_challenge = c.our_challenge
          /\ c'.asserted = c.asserted /\ c'.failed = c.failed
      <4>1. "CS_WAIT_CHALLENGE_ACK" \in States /\ "ack_header" \in Handlers
        BY DEF States, Handlers
      <4> QED BY <1>4, <3>1, <4>1
    <3>3. c.buf = <<>> /\ Replied(c, net) /\ Along(c.buf, net, AckAnswer, 0)
      BY <1>2, <2>3 DEF Phase, Writes
    <3>4. Replied(c', net')
      BY <1>1, <3>2, <3>3 DEF Replied
    <3>5. Phase(c', net')
      BY <1>1, <3>2, <3>3, <3>4 DEF Phase, AwaitsHeader
    <3> QED BY <1>1, <1>2, <3>2, <3>5 DEF Handled
  <2> QED BY <1>5, <2>1, <2>2, <2>3 DEF AfterWrite
<1>6. CASE ~ (closed /\ c' = Fail(c))
  <2>1. Handled(c', net')
    BY <1>5, <1>6 DEF handle_write
  <2> QED BY <1>1, <1>2, <2>1, HandledStep
<1> QED BY <1>3, <1>6

LEMMA ConnectStep ==
  ASSUME HandshakeInv, Connect
  PROVE  HandshakeInv'
<1> DEFINE new == c.dist_version # EI_DIST_5
           x == Plain(IF new THEN "N" ELSE "n")
           s == <<x>>
           e == <<>>
           st == "CS_WAIT_WRITE_CHALLENGE_DONE"
           o == gen_challenge("us")
           k == [c EXCEPT !.our_challenge = o, !.state = st, !.sent = s, !.buf = e]
<1>1. /\ ~ c.failed /\ c.state = "CS_WAIT_CONNECT" /\ peer' = peer /\ net' = <<>>
      /\ seen' = 0 /\ left' = left
  BY DEF Connect
<1>2. /\ c \in Connection /\ c.asserted /\ Phase(c, net) /\ peer \in Peers
      /\ seen \in 0..Len(c.sent) /\ neterr \in BOOLEAN /\ c.sent \in Seq(Message)
  BY <1>1 DEF HandshakeInv, Types, Progress, Connection
<1>3. CASE c' = Fail(c) /\ neterr' = TRUE /\ closed' = closed /\ pstate' = pstate
  <2>1. net' \in Seq(Unit) /\ seen' \in 0..Len(c.sent)
    BY <1>1, <1>2
  <2> QED BY <1>1, <1>2, <1>3, <2>1, FailStep
<1>4. CASE c' = handle_connect(c) /\ closed' = FALSE /\ pstate' = "name" /\ neterr' = neterr
  <2>1. /\ c.need = 0 /\ peer.epmd = "port" /\ c.dist_version = EpmdVersion
        /\ c.dist_version \in {EI_DIST_5, EI_DIST_6}
    <3>1. /\ c.need = 0 /\ peer.epmd = "port" /\ c.dist_version = EpmdVersion
          /\ c.dist_version > 4
      BY <1>1, <1>2 DEF Phase, Writes
    <3>2. peer.dist_high \in Nat
      BY <1>2, HandshakeAssumption
    <3> QED BY <3>1, <3>2 DEF EpmdVersion, EI_DIST_5, EI_DIST_6
  <2>2. x \in Message /\ st \in States /\ o \in Challenges
    BY DEF Message, States, Challenges
  <2>3. c' = k
    <3>1. <<>> \o <<[tag |-> IF new THEN "N" ELSE "n"]>> = s
      BY DEF Plain
    <3>2. (IF new THEN c.dist_version ELSE EI_DIST_5) = c.dist_version
      OBVIOUS
    <3> DEFINE f == [c EXCEPT !.our_challenge = o, !.sent = <<>>,
                              !.dist_version = c.dist_version]
    <3>3. handle_connect(c) = Write(f, st, <<[tag |-> IF new THEN "N" ELSE "n"]>>)
      BY <3>2 DEF handle_connect
    <3>4. f.sent = <<>>
      BY <1>2 DEF Connection
    <3>5. Write(f, st, <<[tag |-> IF new THEN "N" ELSE "n"]>>)
            = [f EXCEPT !.state = st, !.sent = s, !.buf = e]
      <4> HIDE DEF f, s
      <4> QED BY <3>1, <3>4 DEF Write
    <3>6. [f EXCEPT !.state = st, !.sent = s, !.buf = e] = k
      <4> HIDE DEF s, e, st, o
      <4> QED BY <1>2 DEF Connection
    <3> QED BY <1>4, <3>3, <3>5, <3>6
  <2>4. s \in Seq(Message) /\ Len(s) = 1 /\ e \in Seq(Unit)
    <3> HIDE DEF x
    <3> QED BY <2>2
  <2> HIDE DEF st, s, e, o
  <2>5. /\ k \in Connection /\ k.state = st /\ k.sent = s /\ k.need = c.need
        /\ k.buf = e /\ k.asserted = c.asserted /\ k.failed = c.failed
        /\ k.dist_version = c.dist_version /\ k.our_challenge = o
    BY <1>2, <2>2, <2>4 DEF Connection
  <2> HIDE DEF k
  <2>6. Along(k.buf, net', NameAnswer, 0)
    <3>1. NameAnswer \in Seq(Unit)
      BY <1>2, NameAnswerIs
    <3> QED BY <1>1, <2>5, <3>1, NothingYet DEF e
  <2>7. k.sent = <<Plain(IF k.dist_version = EI_DIST_5 THEN "n" ELSE "N")>>
    BY <2>5 DEF s
  <2>8. Named(c, net)'
    <3>1. Along(c.buf, net, NameAnswer, 0)'
      BY <1>1, <2>3, <2>6, SamePeer
    <3>2. EpmdVersion' = EpmdVersion
      BY <1>1, SamePeer
    <3> QED BY <1>1, <1>4, <2>1, <2>3, <2>5, <2>7, <3>1, <3>2 DEF Named, o
  <2>9. Phase(c, net)'
    <3>1. Along(c.buf, net, NameAnswer, 0)'
      BY <1>1, <2>3, <2>6, SamePeer
    <3>2. Writes(c')
      BY <2>1, <2>3, <2>5 DEF Writes, e
    <3>3. c'.state = "CS_WAIT_WRITE_CHALLENGE_DONE"
      BY <2>3, <2>5 DEF st
    <3> QED BY <2>8, <3>1, <3>2, <3>3 DEF Phase
  <2>10. Types'
    <3>1. c' \in Connection' /\ net' \in Seq(Unit') /\ peer' \in Peers
      BY <1>1, <1>2, <2>3, <2>5, SamePeer
    <3>2. c'.state # "CS_WAIT_RESOLVE" /\ seen' \in 0..Len(c'.sent)
      BY <1>1, <2>3, <2>4, <2>5 DEF st
    <3> QED BY <1>1, <1>2, <1>4, <3>1, <3>2 DEF HandshakeInv, Types
  <2>11. c'.asserted /\ ~ c'.failed /\ ~ closed'
    BY <1>1, <1>2, <1>4, <2>3, <2>5
  <2> QED BY <2>9, <2>10, <2>11 DEF HandshakeInv, Progress
<1> QED BY <1>3, <1>4 DEF Connect

LEMMA ReadErrorStep ==
  ASSUME HandshakeInv, ReadError
  PROVE  HandshakeInv'
BY FailStep DEF ReadError, HandshakeInv, Types

\* A step of the other side: the connection of this node stays as it is.
LEMMA PeerStep ==
  ASSUME HandshakeInv, c' = c, left' = left, peer' = peer, net' \in Seq(Unit),
         seen' \in 0..Len(c.sent), closed' \in BOOLEAN, neterr' \in BOOLEAN,
         pstate' \in {"epmd", "name", "complement", "reply", "up", "lost"},
         neterr => neterr', closed' => closed \/ neterr' \/ ~ Good(peer),
         ~ c.failed => Phase(c, net)'
  PROVE  HandshakeInv'
<1>1. Types'
  BY SamePeer DEF HandshakeInv, Types
<1>2. c'.failed \/ closed' => Excused'
  BY SamePeer DEF HandshakeInv, Progress, Excused
<1> QED BY <1>1, <1>2 DEF HandshakeInv, Progress

\* All of an answer is on the way.
LEMMA AllOnTheWay ==
  ASSUME NEW w, Len(w) \in Nat
  PROVE  Along(<<>>, w, w, 0)
BY DEF Along

LEMMA EpmdAnswersStep ==
  ASSUME HandshakeInv, EpmdAnswers
  PROVE  HandshakeInv'
<1>1. /\ ~ closed /\ pstate = "epmd" /\ seen < Len(c.sent) /\ seen' = seen + 1
      /\ net' = EpmdReply /\ c' = c /\ left' = left /\ peer' = peer /\ pstate' = pstate
      /\ closed' = closed /\ neterr' = neterr
  BY DEF EpmdAnswers, Unseen
<1>2. /\ peer \in Peers /\ seen \in 0..Len(c.sent) /\ closed \in BOOLEAN /\ neterr \in BOOLEAN
      /\ c \in Connection /\ c.sent \in Seq(Message)
  BY DEF HandshakeInv, Types, Connection
<1>3. EpmdReply \in Seq(Unit)
  BY <1>2, EpmdReplyIs
<1>4. ASSUME ~ c.failed PROVE Phase(c, net)'
  <2>1. Phase(c, net)
    BY <1>4 DEF HandshakeInv, Progress
  <2>2. Along(<<>>, EpmdReply, EpmdReply, 0)
    BY <1>3, AllOnTheWay
  <2>3. Len(c.sent) > 0 /\ (Len(c.sent) = 1 => seen = 0 /\ seen' = 1)
    <3> DEFINE n == Len(c.sent)
    <3>1. n \in Nat /\ seen \in 0..n /\ seen < n /\ seen' = seen + 1
      BY <1>1, <1>2
    <3> HIDE DEF n
    <3>2. n > 0 /\ (n = 1 => seen = 0 /\ seen' = 1)
      BY <3>1
    <3> QED BY <3>2 DEF n
  <2>4. CASE c.state \in {"CS_WAIT_EPMD_WRITE_DONE", "CS_WAIT_EPMD_REPLY"}
    <3>1. Asking(c, net) /\ Len(c.sent) = 1
      BY <2>1, <2>4 DEF Phase, Asking
    <3>2. Asking(c, net)'
      BY <1>1, <2>3, <3>1 DEF Asking
    <3>3. c.buf = <<>> /\ (c.state = "CS_WAIT_EPMD_REPLY" => AwaitsHeader(c, "epmd_header"))
          /\ (c.state = "CS_WAIT_EPMD_WRITE_DONE" => Writes(c))
      BY <2>1, <2>3, <2>4, <3>1 DEF Phase, Writes, AwaitsHeader
    <3>4. Along(c.buf, net, EpmdReply, 0)'
      BY <1>1, <2>2, <3>3, SamePeer
    <3> QED BY <1>1, <2>4, <3>2, <3>3, <3>4 DEF Phase
  <2>5. CASE c.state = "CS_WAIT_CONNECT"
    BY <1>1, <2>1, <2>5, SamePeer DEF Phase
  <2> QED BY <1>1, <1>2, <2>1, <2>3, <2>4, <2>5 DEF Phase, Named, Replied
<1>5. seen' \in 0..Len(c.sent)
  BY <1>1, <1>2
<1> QED BY <1>1, <1>2, <1>3, <1>4, <1>5, PeerStep

\* The states in which the name has been sent, and the reply.
NamedStates == {"CS_WAIT_WRITE_CHALLENGE_DONE", "CS_WAIT_STATUS", "CS_WAIT_CHALLENGE"}
RepliedStates == {"CS_WAIT_WRITE_CHALLENGE_REPLY_DONE", "CS_WAIT_CHALLENGE_ACK"}

\* Which phase of the connection goes with which state of the peer.
LEMMA WhereAreWe ==
  ASSUME HandshakeInv, ~ c.failed, ~ closed
  PROVE  /\ pstate = "name" => c.state \in NamedStates
         /\ pstate \in {"complement", "reply"} => c.state \in NamedStates \cup RepliedStates
         /\ c.state \in NamedStates => Named(c, net)
         /\ c.state \in RepliedStates => Replied(c, net)
<1>1. c.state \in States /\ Phase(c, net)
  BY DEF HandshakeInv, Types, Progress, Connection
<1>2. c.state \in NamedStates => Named(c, net)
  BY <1>1 DEF Phase, NamedStates
<1>3. c.state \in RepliedStates => Replied(c, net) /\ pstate # "name"
  BY <1>1 DEF Phase, RepliedStates, Replied
<1>4. c.state \notin NamedStates \cup RepliedStates => pstate \in {"epmd", "up", "lost"}
  BY <1>1 DEF Phase, Asking, States, NamedStates, RepliedStates
<1> QED BY <1>2, <1>3, <1>4

LEMMA PeerTakesNameStep ==
  ASSUME HandshakeInv, PeerTakesName
  PROVE  HandshakeInv'
<1>1. /\ ~ closed /\ pstate = "name" /\ seen < Len(c.sent) /\ seen' = seen + 1
      /\ c' = c /\ left' = left /\ peer' = peer /\ neterr' = neterr
  BY DEF PeerTakesName, Unseen
<1>2. /\ peer \in Peers /\ seen \in 0..Len(c.sent) /\ closed \in BOOLEAN /\ neterr \in BOOLEAN
      /\ c \in Connection /\ c.sent \in Seq(Message) /\ net \in Seq(Unit)
  BY DEF HandshakeInv, Types, Connection
<1>3. seen' \in 0..Len(c.sent)
  BY <1>1, <1>2
<1>4. NameAnswer \in Seq(Unit)
  BY <1>2, NameAnswerIs
<1>5. peer.version \in {EI_DIST_5, EI_DIST_6}
  BY <1>2, HandshakeAssumption
<1>6. c.failed => Excused
  BY DEF HandshakeInv, Progress
<1>7. ASSUME ~ c.failed
      PROVE  /\ Named(c, net) /\ seen = 0 /\ net = <<>> /\ Phase(c, net)
             /\ Unseen("N") <=> c.dist_version = EI_DIST_6
             /\ Unseen("n") <=> c.dist_version = EI_DIST_5
             /\ c.dist_version \in {EI_DIST_5, EI_DIST_6}
             /\ peer.epmd = "port" /\ c.dist_version = EpmdVersion
  <2>1. Named(c, net) /\ seen = 0 /\ net = <<>> /\ Phase(c, net)
    <3>1. Named(c, net) /\ Phase(c, net)
      BY <1>1, <1>7, WhereAreWe DEF HandshakeInv, Progress
    <3> QED BY <1>1, <3>1 DEF Named
  <2>2. /\ c.sent = <<Plain(IF c.dist_version = EI_DIST_5 THEN "n" ELSE "N")>>
        /\ c.dist_version \in {EI_DIST_5, EI_DIST_6}
        /\ peer.epmd = "port" /\ c.dist_version = EpmdVersion
    BY <2>1 DEF Named
  <2>3. EI_DIST_5 # EI_DIST_6
    BY DEF EI_DIST_5, EI_DIST_6
  <2>4. c.sent[seen + 1].tag = IF c.dist_version = EI_DIST_5 THEN "n" ELSE "N"
    <3>1. seen + 1 = 1
      BY <2>1
    <3> QED BY <2>2, <3>1 DEF Plain
  <2> QED BY <1>1, <2>1, <2>2, <2>3, <2>4 DEF Unseen
<1>8. CASE Unseen("N") /\ peer.version = EI_DIST_5
  <2>1. closed' = TRUE /\ net' = net /\ pstate' = pstate
    BY <1>8 DEF PeerTakesName
  <2>2. ASSUME ~ c.failed PROVE ~ Good(peer)
    <3>1. EpmdVersion = EI_DIST_6 /\ peer.dist_high \in Nat
      BY <1>2, <1>7, <1>8, <2>2, HandshakeAssumption
    <3>2. peer.dist_high >= EI_DIST_6
      BY <3>1 DEF EpmdVersion, EI_DIST_6
    <3> QED BY <1>8, <3>2 DEF Good, EI_DIST_5, EI_DIST_6
  <2>3. ASSUME ~ c.failed PROVE Phase(c, net)'
    <3>1. Named(c, net) /\ Phase(c, net) /\ c.state \in NamedStates
      BY <1>1, <1>7, <2>3, WhereAreWe
    <3>2. Named(c, net)'
      BY <1>1, <2>1, <3>1, SamePeer DEF Named
    <3> QED BY <1>1, <2>1, <3>1, <3>2, SamePeer DEF Phase, NamedStates
  <2>4. closed' => closed \/ neterr' \/ ~ Good(peer)
    BY <1>1, <1>6, <2>2 DEF Excused
  <2> QED BY <1>1, <1>2, <1>3, <2>1, <2>3, <2>4, PeerStep
<1>9. CASE ~ (Unseen("N") /\ peer.version = EI_DIST_5)
  <2> DEFINE w == IF peer.status = "nok" THEN <<>> ELSE Framed(PeerChallenge)
  <2>1. /\ net' = net \o Framed(Status) \o w
        /\ closed' = (peer.status = "nok")
        /\ pstate' = IF Unseen("n") /\ peer.version = EI_DIST_6 THEN "complement" ELSE "reply"
    BY <1>9 DEF PeerTakesName
  <2>2. w \in Seq(Unit) /\ Framed(Status) \in Seq(Unit)
    <3>1. ({"hi", "lo"} \X Nat) \subseteq Unit
      BY DEF Unit
    <3>2. Framed(Status) \in Seq(Unit) /\ Framed(PeerChallenge) \in Seq(Unit)
      BY <1>2, <3>1, StatusIs, PeerChallengeIs, FramedIs
    <3> QED BY <3>2
  <2>3. NameAnswer = Framed(Status) \o w
    BY DEF NameAnswer
  <2> HIDE DEF w
  <2>4. net' \in Seq(Unit)
    BY <1>2, <2>1, <2>2
  <2>5. peer.status = "nok" => ~ Good(peer)
    BY DEF Good
  <2>6. ASSUME ~ c.failed PROVE Phase(c, net)'
    <3>1. net' = NameAnswer
      <4>1. net = <<>>
        BY <1>7, <2>6
      <4> DEFINE u == Framed(Status)
      <4>2. u \in Seq(Unit) /\ net' = net \o u \o w /\ NameAnswer = u \o w
        BY <2>1, <2>2, <2>3
      <4> HIDE DEF u
      <4>3. <<>> \o u = u
        BY <4>2
      <4> QED BY <4>1, <4>2, <4>3
    <3>2. Named(c, net) /\ Phase(c, net) /\ c.state \in NamedStates
      BY <1>1, <1>7, <2>6, WhereAreWe
    <3>3. seen' = 1
      BY <1>1, <1>7, <2>6
    <3>4. Named(c, net)'
      <4>1. /\ pstate' = "complement" => peer.version > c.dist_version
            /\ pstate' # "complement" => pstate' = "reply" /\ peer.version = c.dist_version
        BY <1>5, <1>7, <1>9, <2>1, <2>6 DEF EI_DIST_5, EI_DIST_6
      <4>2. EpmdVersion' = EpmdVersion
        BY <1>1, SamePeer
      <4> QED BY <1>1, <3>2, <3>3, <4>1, <4>2 DEF Named
    <3>5. c.state # "CS_WAIT_CHALLENGE" /\ c.buf = <<>>
          /\ (c.state = "CS_WAIT_STATUS" => AwaitsHeader(c, "status_header"))
          /\ (c.state = "CS_WAIT_WRITE_CHALLENGE_DONE" => Writes(c))
      BY <1>1, <3>2 DEF Phase, NamedStates, Writes, AwaitsHeader
    <3>6. Along(c.buf, net, NameAnswer, 0)'
      <4>1. Along(<<>>, NameAnswer, NameAnswer, 0)
        BY <1>4, AllOnTheWay
      <4> QED BY <1>1, <3>1, <3>5, <4>1, SamePeer
    <3> QED BY <1>1, <3>2, <3>4, <3>5, <3>6 DEF Phase, NamedStates
  <2>7. pstate' \in {"complement", "reply"} /\ closed' \in BOOLEAN
    BY <2>1
  <2> QED BY <1>1, <1>2, <1>3, <2>1, <2>4, <2>5, <2>6, <2>7, PeerStep
<1> QED BY <1>8, <1>9

LEMMA PeerTakesComplementStep ==
  ASSUME HandshakeInv, PeerTakesComplement
  PROVE  HandshakeInv'
<1>1. /\ ~ closed /\ pstate = "complement" /\ seen < Len(c.sent) /\ seen' = seen + 1
      /\ c' = c /\ left' = left /\ peer' = peer /\ net' = net /\ neterr' = neterr
  BY DEF PeerTakesComplement
<1>2. /\ peer \in Peers /\ seen \in 0..Len(c.sent) /\ closed \in BOOLEAN /\ neterr \in BOOLEAN
      /\ c \in Connection /\ c.sent \in Seq(Message) /\ net \in Seq(Unit)
  BY DEF HandshakeInv, Types, Connection
<1>3. seen' \in 0..Len(c.sent)
  BY <1>1, <1>2
<1>4. /\ pstate' \in {"complement", "reply"} /\ closed' \in BOOLEAN
      /\ IF Unseen("c") THEN pstate' = "reply" /\ closed' = closed
                        ELSE closed' = TRUE /\ pstate' = pstate
  BY <1>1, <1>2 DEF PeerTakesComplement
<1>5. c.failed => Excused
  BY DEF HandshakeInv, Progress
<1>6. ASSUME ~ c.failed
      PROVE  /\ c.state \in RepliedStates /\ Replied(c, net) /\ Phase(c, net)
             /\ seen = 1 /\ Len(c.sent) = 3 /\ Unseen("c")
  <2>1. c.state \notin NamedStates
    <3>1. ASSUME Named(c, net) PROVE FALSE
      <4>1. seen = 1 /\ Len(c.sent) = 1
        BY <1>1, <3>1 DEF Named
      <4> QED BY <1>1, <4>1
    <3> QED BY <1>1, <1>6, <3>1, WhereAreWe
  <2>2. c.state \in RepliedStates /\ Replied(c, net) /\ Phase(c, net)
    BY <1>1, <1>6, <2>1, WhereAreWe DEF HandshakeInv, Progress
  <2>3. /\ seen = 1 /\ Len(c.sent) = 3
        /\ c.sent \in {<<Plain("n"), Reply>>, <<Plain("N"), Reply>>,
                       <<Plain("n"), Plain("c"), Reply>>}
    BY <1>1, <2>2 DEF Replied
  <2>4. c.sent = <<Plain("n"), Plain("c"), Reply>>
    <3> DEFINE x == Plain("n")
               X == Plain("N")
               z == Reply
    <3> HIDE DEF x, X, z
    <3>1. Len(<<x, z>>) = 2 /\ Len(<<X, z>>) = 2
      OBVIOUS
    <3> QED BY <2>3, <3>1 DEF x, X, z
  <2>5. c.sent[seen + 1] = Plain("c")
    <3>1. seen + 1 = 2
      BY <2>3
    <3> DEFINE x == Plain("n")
               y == Plain("c")
               z == Reply
    <3>2. c.sent = <<x, y, z>>
      BY <2>4
    <3> HIDE DEF x, y, z
    <3>3. c.sent[2] = y
      BY <3>2
    <3> QED BY <3>1, <3>3 DEF y
  <2> QED BY <1>1, <2>2, <2>3, <2>5 DEF Unseen, Plain
<1>7. ASSUME ~ c.failed PROVE Phase(c, net)'
  <2>1. pstate' = "reply" /\ closed' = closed /\ seen' = 2
    BY <1>1, <1>4, <1>6, <1>7
  <2>2. Replied(c, net)'
    <3>1. ~ (Len(c.buf) + Len(net) > 0)
      BY <1>1, <1>6, <1>7 DEF Replied
    <3>2. seen' = Len(c.sent) - 1
      BY <1>6, <1>7, <2>1
    <3>3. /\ c.dist_version = peer.version /\ c.our_challenge = gen_challenge("us")
          /\ c.sent \in {<<Plain("n"), Reply>>, <<Plain("N"), Reply>>,
                         <<Plain("n"), Plain("c"), Reply>>}
      BY <1>1, <1>6, <1>7 DEF Replied
    <3>4. pstate' # "complement"
      BY <2>1
    <3> QED BY <1>1, <2>1, <3>1, <3>2, <3>3, <3>4 DEF Replied
  <2>3. c.state = "CS_WAIT_CHALLENGE_ACK" => AwaitsHeader(c, "ack_header")
    BY <1>1, <1>6, <1>7 DEF Phase
  <2> QED BY <1>1, <1>6, <1>7, <2>2, <2>3, SamePeer DEF Phase, RepliedStates
<1>8. closed' => closed \/ neterr' \/ ~ Good(peer)
  BY <1>1, <1>4, <1>5, <1>6 DEF Excused
<1> QED BY <1>1, <1>2, <1>3, <1>4, <1>7, <1>8, PeerStep

LEMMA PeerTakesReplyStep ==
  ASSUME HandshakeInv, PeerTakesReply
  PROVE  HandshakeInv'
<1> DEFINE m == c.sent[seen + 1]
           accepted == /\ m.tag = "r"
                       /\ peer.checks =>
                            m.digest = gen_digest(gen_challenge("peer"), peer.cookie)
           answer == <<Field("a"), Field(gen_digest(m.challenge, peer.cookie))>>
<1>1. /\ ~ closed /\ pstate = "reply" /\ seen < Len(c.sent) /\ seen' = seen + 1
      /\ c' = c /\ left' = left /\ peer' = peer /\ neterr' = neterr
  BY DEF PeerTakesReply
<1>2. /\ peer \in Peers /\ seen \in 0..Len(c.sent) /\ closed \in BOOLEAN /\ neterr \in BOOLEAN
      /\ c \in Connection /\ c.sent \in Seq(Message) /\ net \in Seq(Unit)
  BY DEF HandshakeInv, Types, Connection
<1>3. seen' \in 0..Len(c.sent)
  BY <1>1, <1>2
<1>4. IF accepted THEN net' = net \o Framed(answer) /\ pstate' = "up" /\ closed' = closed
                  ELSE closed' = TRUE /\ net' = net /\ pstate' = pstate
  BY DEF PeerTakesReply
<1>5. c.failed => Excused
  BY DEF HandshakeInv, Progress
<1>6. m \in Message
  <2>1. seen + 1 \in 1..Len(c.sent)
    BY <1>1, <1>2
  <2> QED BY <1>2, <2>1
<1>7. m.tag = "r" => m = Reply
  BY <1>6 DEF Message, Plain
<1>8. accepted => Framed(answer) = AckAnswer
  <2>1. accepted => m.challenge = gen_challenge("us")
    BY <1>7 DEF Reply
  <2> QED BY <2>1 DEF AckAnswer, Ack
<1>9. AckAnswer \in Seq(Unit)
  BY AckAnswerIs
<1> HIDE DEF m, accepted, answer
<1>10. net' \in Seq(Unit)
  <2>1. net \in Seq(Unit) /\ net \o AckAnswer \in Seq(Unit)
    BY <1>2, <1>9
  <2>2. net' = net \/ net' = net \o AckAnswer
    BY <1>4, <1>8
  <2> QED BY <2>1, <2>2
<1>11. ASSUME ~ c.failed
       PROVE  /\ c.state \in RepliedStates /\ Replied(c, net) /\ Phase(c, net)
              /\ c.buf = <<>> /\ net = <<>>
              /\ m.tag = "r" /\ m = Reply
  <2>1. c.state \notin NamedStates
    <3>1. ASSUME Named(c, net) PROVE FALSE
      <4>1. seen = 1 /\ Len(c.sent) = 1
        BY <1>1, <3>1 DEF Named
      <4> QED BY <1>1, <4>1
    <3> QED BY <1>1, <1>11, <3>1, WhereAreWe
  <2>2. c.state \in RepliedStates /\ Replied(c, net) /\ Phase(c, net)
    BY <1>1, <1>11, <2>1, WhereAreWe DEF HandshakeInv, Progress
  <2>3. /\ seen = Len(c.sent) - 1 /\ ~ (Len(c.buf) + Len(net) > 0)
        /\ c.sent \in {<<Plain("n"), Reply>>, <<Plain("N"), Reply>>,
                       <<Plain("n"), Plain("c"), Reply>>}
    BY <1>1, <2>2 DEF Replied
  <2>4. c.buf = <<>> /\ net = <<>>
    <3>1. c.buf \in Seq(Unit)
      BY <1>2 DEF Connection
    <3> QED BY <1>2, <2>3, <3>1
  <2>5. c.sent[seen + 1] = Reply
    <3> DEFINE x == Plain("n")
               X == Plain("N")
               y == Plain("c")
               z == Reply
    <3>1. c.sent = <<x, z>> \/ c.sent = <<X, z>> \/ c.sent = <<x, y, z>>
      BY <2>3
    <3>2. seen + 1 = Len(c.sent)
      BY <1>2, <2>3
    <3> HIDE DEF x, X, y, z
    <3>3. c.sent[Len(c.sent)] = z
      <4>1. /\ Len(<<x, z>>) = 2 /\ Len(<<X, z>>) = 2 /\ Len(<<x, y, z>>) = 3
            /\ <<x, z>>[2] = z /\ <<X, z>>[2] = z /\ <<x, y, z>>[3] = z
        OBVIOUS
      <4> QED BY <3>1, <4>1
    <3> QED BY <3>2, <3>3 DEF z
  <2> QED BY <2>2, <2>4, <2>5 DEF m, Reply
<1>12. CASE accepted
  <2>1. net' = net \o AckAnswer /\ pstate' = "up" /\ closed' = closed
    BY <1>4, <1>8, <1>12
  <2>2. ASSUME ~ c.failed PROVE Phase(c, net)'
    <3>1. net' = AckAnswer /\ c.buf = <<>>
      BY <1>9, <1>11, <2>1, <2>2
    <3>2. Along(c.buf, net, AckAnswer, 0)'
      <4>1. Along(<<>>, AckAnswer, AckAnswer, 0)
        BY <1>9, AllOnTheWay
      <4> QED BY <1>1, <3>1, <4>1, SamePeer
    <3>3. Replied(c, net)'
      BY <1>1, <1>11, <2>1, <2>2 DEF Replied
    <3>4. c.state = "CS_WAIT_CHALLENGE_ACK" => AwaitsHeader(c, "ack_header")
      BY <1>1, <1>11, <2>2 DEF Phase
    <3>5. c.state = "CS_WAIT_WRITE_CHALLENGE_REPLY_DONE" => Writes(c)
      BY <1>11, <2>2 DEF Phase
    <3> QED BY <1>1, <1>11, <2>2, <3>2, <3>3, <3>4, <3>5 DEF Phase, RepliedStates
  <2> QED BY <1>1, <1>2, <1>3, <1>10, <2>1, <2>2, PeerStep
<1>13. CASE ~ accepted
  <2>1. closed' = TRUE /\ net' = net /\ pstate' = pstate
    BY <1>4, <1>13
  <2>2. ASSUME ~ c.failed PROVE ~ Good(peer)
    <3>1. m.digest = gen_digest(gen_challenge("peer"), Cookie)
      BY <1>11, <2>2 DEF Reply
    <3> QED BY <1>11, <1>13, <2>2, <3>1 DEF accepted, Good
  <2>3. ASSUME ~ c.failed PROVE Phase(c, net)'
    <3>1. Replied(c, net)'
      BY <1>1, <1>11, <2>1, <2>3 DEF Replied
    <3> QED BY <1>1, <1>11, <2>1, <2>3, <3>1, SamePeer DEF Phase, RepliedStates
  <2>4. closed' => closed \/ neterr' \/ ~ Good(peer)
    BY <1>1, <1>5, <2>2 DEF Excused
  <2> QED BY <1>1, <1>2, <1>3, <1>10, <2>1, <2>3, <2>4, PeerStep
<1> QED BY <1>12, <1>13

LEMMA DropStep ==
  ASSUME HandshakeInv, Drop
  PROVE  HandshakeInv'
<1>1. /\ ~ closed /\ closed' = TRUE /\ net' \in {net, <<>>} /\ pstate' = "lost"
      /\ neterr' = TRUE /\ c' = c /\ left' = left /\ peer' = peer /\ seen' = seen
  BY DEF Drop
<1>2. /\ seen \in 0..Len(c.sent) /\ c \in Connection /\ net \in Seq(Unit)
      /\ Len(net) \in Nat /\ Len(c.buf) \in Nat
  BY DEF HandshakeInv, Types, Connection
<1>3. net' \in Seq(Unit)
  <2>1. <<>> \in Seq(Unit)
    OBVIOUS
  <2> QED BY <1>1, <1>2, <2>1
<1>4. ASSUME NEW w, Len(w) \in Nat, NEW off \in Nat, Along(c.buf, net, w, off)
      PROVE  Along(c.buf, net', w, off)
  <2>1. CASE net' = net
    BY <1>4, <2>1
  <2>2. CASE net' = <<>>
    BY <1>2, <1>4, <2>2 DEF Along
  <2> QED BY <1>1, <2>1, <2>2
<1>5. ASSUME ~ c.failed PROVE Phase(c, net)'
  <2>1. Phase(c, net) /\ c.state \in States /\ peer \in Peers
    BY <1>2, <1>5 DEF HandshakeInv, Types, Progress, Connection
  <2>2. Len(EpmdReply) \in Nat /\ Len(NameAnswer) \in Nat /\ Len(AckAnswer) \in Nat
    BY <2>1, EpmdReplyIs, NameAnswerIs, AckAnswerIs
  <2>3. ASSUME Asking(c, net) PROVE Asking(c, net)'
    BY <1>1, <2>3 DEF Asking
  <2>4. ASSUME Named(c, net) PROVE Named(c, net)'
    BY <1>1, <2>4, SamePeer DEF Named
  <2>5. ASSUME Replied(c, net) PROVE Replied(c, net)'
    BY <1>1, <2>5 DEF Replied
  <2>6. CASE c.state \in {"CS_WAIT_RESOLVE", "CS_WAIT_EPMD_CONNECT", "CS_WAIT_CONNECT",
                          "CS_CONNECTED"}
    BY <1>1, <2>1, <2>6, SamePeer DEF Phase
  <2>7. CASE c.state \in {"CS_WAIT_EPMD_WRITE_DONE", "CS_WAIT_EPMD_REPLY"}
    <3>1. \A off \in {0, 2} : Along(c.buf, net, EpmdReply, off) => Along(c.buf, net, EpmdReply, off)'
      BY <1>1, <1>4, <2>2, SamePeer
    <3> QED BY <1>1, <2>1, <2>3, <2>7, <3>1, SamePeer DEF Phase
  <2>8. CASE c.state \in NamedStates
    <3>1. \A off \in {0, 2, 5, 7} :
            Along(c.buf, net, NameAnswer, off) => Along(c.buf, net, NameAnswer, off)'
      BY <1>1, <1>4, <2>2, SamePeer
    <3> QED BY <1>1, <2>1, <2>4, <2>8, <3>1, SamePeer DEF Phase, NamedStates
  <2>9. CASE c.state \in RepliedStates
    <3>1. \A off \in {0, 2} : Along(c.buf, net, AckAnswer, off) => Along(c.buf, net, AckAnswer, off)'
      BY <1>1, <1>4, <2>2, SamePeer
    <3> QED BY <1>1, <2>1, <2>5, <2>9, <3>1, SamePeer DEF Phase, RepliedStates
  <2> QED BY <2>1, <2>6, <2>7, <2>8, <2>9 DEF States, NamedStates, RepliedStates
<1> QED BY <1>1, <1>2, <1>3, <1>5, PeerStep

LEMMA SameStep ==
  ASSUME HandshakeInv, UNCHANGED vars
  PROVE  HandshakeInv'
<1>1. /\ c' = c /\ left' = left /\ peer' = peer /\ net' = net /\ seen' = seen
      /\ pstate' = pstate /\ closed' = closed /\ neterr' = neterr
  BY DEF vars
<1>2. ~ c.failed => Phase(c, net)'
  BY <1>1, SamePhase DEF HandshakeInv, Progress
<1>3. closed' => closed \/ neterr' \/ ~ Good(peer)
  BY <1>1
<1> QED BY <1>1, <1>2, <1>3, PeerStep DEF HandshakeInv, Types
-----------------------------------------------------------------------------
LEMMA InitInv ==
  ASSUME Init
  PROVE  HandshakeInv
<1> DEFINE e == <<>>
<1>1. /\ "CS_WAIT_RESOLVE" \in States /\ "none" \in Handlers /\ e \in Seq(Unit)
      /\ e \in Challenges /\ e \in Seq(Message) /\ Len(e) = 0
  BY DEF States, Handlers, Challenges
<1> HIDE DEF e
<1>2. c = [state |-> "CS_WAIT_RESOLVE", next |-> "none", need |-> 0, buf |-> e,
           expect |-> 0, dist_version |-> 0, our_challenge |-> e,
           sent |-> e, failed |-> FALSE, asserted |-> TRUE]
  BY DEF Init, e
<1>3. /\ c \in Connection /\ c.state = "CS_WAIT_RESOLVE" /\ c.need = 0 /\ c.buf = e
      /\ c.sent = e /\ ~ c.failed /\ c.asserted
  BY <1>1, <1>2 DEF Connection
<1>4. Types
  <2>1. net = e /\ left \in 0..Endpoints /\ left = Endpoints /\ peer \in Peers
    BY HandshakeAssumption DEF Init, e
  <2>2. seen \in 0..Len(c.sent)
    BY <1>1, <1>3 DEF Init
  <2>3. /\ pstate \in {"epmd", "name", "complement", "reply", "up", "lost"}
        /\ closed \in BOOLEAN /\ neterr \in BOOLEAN
    BY DEF Init
  <2> QED BY <1>1, <1>3, <2>1, <2>2, <2>3 DEF Types
<1>5. Phase(c, net)
  BY <1>3 DEF Init, Phase, Writes, e
<1> QED BY <1>3, <1>4, <1>5 DEF HandshakeInv, Progress, Init

LEMMA StepInv ==
  ASSUME HandshakeInv, [Next]_vars
  PROVE  HandshakeInv'
BY ResolveStep, EpmdConnectStep, WriteStep, ConnectStep, ReadStep, ReadErrorStep,
   EpmdAnswersStep, PeerTakesNameStep, PeerTakesComplementStep, PeerTakesReplyStep,
   DropStep, SameStep
   DEF Next, Here, There, Done

(* The invariant: in every state of the connection, what has been read and *)
(* not used and what is on the way are a piece of the answer that this     *)
(* part of the handshake waits for; only a peer that is to be refused, or  *)
(* a network that has failed, ends the attempt.                            *)
THEOREM HandshakeInvCorrect == Spec => []HandshakeInv
<1>1. Init => HandshakeInv
  BY InitInv
<1>2. HandshakeInv /\ [Next]_vars => HandshakeInv'
  BY StepInv
<1> QED BY <1>1, <1>2, PTL DEF Spec

\* What the units are made of.
LEMMA UnitIs ==
  ASSUME peer \in Peers, NEW u \in Unit
  PROVE  u[1] \in {"hi", "lo", "field"}
<1>1. ASSUME NEW v, NEW w, NEW x, NEW y, NEW z, NEW t,
             NEW s \in {<<Field(v), Field(w)>>, <<Field(v), Field(w), Field(x)>>,
                        <<Field(v), Field(w), Field(x), Field(y)>>,
                        <<Field(v), Field(w), Field(x), Field(y), Field(z)>>,
                        <<Field(v), Field(w), Field(x), Field(y), Field(z), Field(t)>>},
             u \in UnitsOf(s)
      PROVE  u[1] = "field"
  <2>1. u \in {Field(v), Field(w), Field(x), Field(y), Field(z), Field(t)}
    <3> DEFINE a == Field(v)
               b == Field(w)
               d == Field(x)
               e == Field(y)
               f == Field(z)
               g == Field(t)
    <3>1. s \in {<<a, b>>, <<a, b, d>>, <<a, b, d, e>>, <<a, b, d, e, f>>, <<a, b, d, e, f, g>>}
      OBVIOUS
    <3> HIDE DEF a, b, d, e, f, g
    <3>2. u \in {a, b, d, e, f, g}
      BY <1>1, <3>1 DEF UnitsOf
    <3> QED BY <3>2 DEF a, b, d, e, f, g
  <2> QED BY <2>1, FieldIs
<1>2. CASE u \in {"hi", "lo"} \X Nat
  BY <1>2
<1>3. CASE u \in UnitsOf(EpmdReply)
  <2>1. peer.epmd \in {"port", "unknown", "garbage"}
    BY HandshakeAssumption
  <2>2. EpmdReply \in {<<Field("PORT2_RESP"), Field(0), Field("port"), Field(peer.dist_high)>>,
                       <<Field("PORT2_RESP"), Field(1)>>,
                       <<Field("garbage"), Field("garbage")>>}
    BY <2>1 DEF EpmdReply
  <2> QED BY <1>1, <1>3, <2>2
<1>4. CASE u \in UnitsOf(Status)
  <2>1. peer.status \in {"ok", "ok_simultaneous", "nok"}
    BY HandshakeAssumption
  <2>2. Status \in {<<Field("s"), Field("o"), Field("k")>>,
                    <<Field("s"), Field("o"), Field("k"), Field("underscore"),
                      Field("simultaneous")>>,
                    <<Field("s"), Field("n"), Field("o"), Field("k")>>}
    BY <2>1 DEF Status
  <2> QED BY <1>1, <1>4, <2>2
<1>5. CASE u \in UnitsOf(PeerChallenge)
  <2>1. PeerChallenge \in
          {<<Field("N"), Field(peer.flags), Field(gen_challenge("peer")), Field("creation"),
             Field("len"), Field("name")>>,
           <<Field("n"), Field(EI_DIST_5), Field(peer.flags), Field(gen_challenge("peer")),
             Field("name")>>}
    BY DEF PeerChallenge
  <2> QED BY <1>1, <1>5, <2>1
<1>6. CASE u \in UnitsOf(Ack)
  <2>1. Ack = <<Field("a"), Field(gen_digest(gen_challenge("us"), peer.cookie))>>
    BY DEF Ack
  <2> QED BY <1>1, <1>6, <2>1
<1> QED BY <1>2, <1>3, <1>4, <1>5, <1>6 DEF Unit

(* The fields of the connection, what is on the way and the states of the  *)
(* two sides keep their types.                                             *)
THEOREM TypeCorrect == Spec => []TypeOK
<1>1. HandshakeInv => TypeOK
  <2> SUFFICES ASSUME HandshakeInv PROVE TypeOK
    OBVIOUS
  <2>1. Types /\ c.buf \in Seq(Unit)
    BY DEF HandshakeInv, Types, Connection
  <2>2. \A i \in DOMAIN c.buf : c.buf[i][1] \in {"hi", "lo", "field"}
    <3>1. \A i \in DOMAIN c.buf : c.buf[i] \in Unit
      BY <2>1
    <3> QED BY <2>1, <3>1, UnitIs DEF Types
  <2> QED BY <2>1, <2>2 DEF Types, Connection, TypeOK
<1> QED BY <1>1, HandshakeInvCorrect, PTL

(* A connection is up only with a peer that has this node's cookie and has *)
(* taken this node's reply, however the bytes were cut into reads          *)
(* (handle_read_challenge_ack_body).                                       *)
THEOREM AuthenticatedCorrect == Spec => []Authenticated
<1>1. HandshakeInv => Authenticated
  BY DEF HandshakeInv, Progress, Phase, Authenticated, Connected
<1> QED BY <1>1, HandshakeInvCorrect, PTL

(* Once a connection is up, both sides speak the version of the peer's     *)
(* challenge (handle_read_challenge_body), whatever version epmd gave.     *)
THEOREM VersionsAgreeCorrect == Spec => []VersionsAgree
<1>1. HandshakeInv => VersionsAgree
  BY DEF HandshakeInv, Progress, Phase, VersionsAgree, Connected
<1> QED BY <1>1, HandshakeInvCorrect, PTL

(* No way of cutting the messages of a good peer into reads makes a        *)
(* handler refuse it: an attempt with it fails only when the network does. *)
THEOREM GoodPeerAcceptedCorrect == Spec => []GoodPeerAccepted
<1>1. HandshakeInv => GoodPeerAccepted
  BY DEF HandshakeInv, Progress, Excused, GoodPeerAccepted
<1> QED BY <1>1, HandshakeInvCorrect, PTL

(* The BOOST_ASSERTs on got_bytes hold: a body handler is called only with *)
(* the bytes its header announced.                                         *)
THEOREM AssertedSizesCorrect == Spec => []AssertedSizes
<1>1. HandshakeInv => AssertedSizes
  BY DEF HandshakeInv, Progress, AssertedSizes
<1> QED BY <1>1, HandshakeInvCorrect, PTL


(***************************************************************************)
(* Handshake implements the attempt of OtpConnection, which sees of the    *)
(* connection only m_state and whether the attempt has failed.             *)
(***************************************************************************)
Fields(h) == {"state", "failed"} \subseteq DOMAIN h

\* A handler returns g: it has failed in one of the states of bad, or left the
\* connection in one of good.
Outcome(g, bad, good) ==
  \/ g.failed = TRUE /\ g.state \in bad
  \/ g.failed = FALSE /\ g.state \in good

LEMMA FailOutcome ==
  ASSUME NEW h, Fields(h)
  PROVE  Fail(h).failed = TRUE /\ Fail(h).state = h.state
BY DEF Fail, Fields

LEMMA AwaitOutcome ==
  ASSUME NEW h, Fields(h), NEW next, NEW n
  PROVE  Await(h, next, n).failed = h.failed /\ Await(h, next, n).state = h.state
BY DEF Await, Fields

LEMMA WriteOutcome ==
  ASSUME NEW h, Fields(h), NEW s, NEW msgs
  PROVE  Write(h, s, msgs).failed = h.failed /\ Write(h, s, msgs).state = s
BY DEF Write, Fields

LEMMA EpmdBodyOutcome ==
  ASSUME NEW h, Fields(h), h.failed = FALSE, h.state = "CS_WAIT_EPMD_REPLY"
  PROVE  Outcome(handle_epmd_read_body(h), {"CS_WAIT_EPMD_REPLY"}, {"CS_WAIT_CONNECT"})
<1>1. PICK v, b, a : \/ handle_epmd_read_body(h) =
                         Fail([h EXCEPT !.dist_version = v, !.buf = b, !.asserted = a])
                     \/ handle_epmd_read_body(h) =
                         [[h EXCEPT !.dist_version = v, !.buf = b, !.asserted = a]
                            EXCEPT !.state = "CS_WAIT_CONNECT"]
  BY DEF handle_epmd_read_body
<1>2. PICK g : g = [h EXCEPT !.dist_version = v, !.buf = b, !.asserted = a]
  OBVIOUS
<1>3. Fields(g) /\ g.failed = FALSE /\ g.state = "CS_WAIT_EPMD_REPLY"
  BY <1>2 DEF Fields
<1>4. [g EXCEPT !.state = "CS_WAIT_CONNECT"].failed = FALSE
      /\ [g EXCEPT !.state = "CS_WAIT_CONNECT"].state = "CS_WAIT_CONNECT"
  BY <1>3 DEF Fields
<1> QED BY <1>1, <1>2, <1>3, <1>4, FailOutcome DEF Outcome

LEMMA EpmdHeaderOutcome ==
  ASSUME NEW h, Fields(h), h.failed = FALSE, h.state = "CS_WAIT_EPMD_REPLY"
  PROVE  Outcome(handle_epmd_read_header(h), {"CS_WAIT_EPMD_REPLY"},
                 {"CS_WAIT_EPMD_REPLY", "CS_WAIT_CONNECT"})
<1>1. PICK b, n, k : \/ handle_epmd_read_header(h) = Fail(h)
                     \/ handle_epmd_read_header(h) =
                          Await([h EXCEPT !.buf = b, !.expect = n], "epmd_body", k)
                     \/ handle_epmd_read_header(h) =
                          handle_epmd_read_body([h EXCEPT !.buf = b, !.expect = n])
  BY DEF handle_epmd_read_header
<1>2. PICK g : g = [h EXCEPT !.buf = b, !.expect = n]
  OBVIOUS
<1>3. Fields(g) /\ g.failed = FALSE /\ g.state = "CS_WAIT_EPMD_REPLY"
  BY <1>2 DEF Fields
<1>4. CASE handle_epmd_read_header(h) = Fail(h)
  BY <1>4, FailOutcome DEF Outcome
<1>5. CASE handle_epmd_read_header(h) = Await(g, "epmd_body", k)
  BY <1>3, <1>5, AwaitOutcome DEF Outcome
<1>6. CASE handle_epmd_read_header(h) = handle_epmd_read_body(g)
  BY <1>3, <1>6, EpmdBodyOutcome DEF Outcome
<1> QED BY <1>1, <1>2, <1>4, <1>5, <1>6

LEMMA AckBodyOutcome ==
  ASSUME NEW h, Fields(h), h.failed = FALSE, h.state = "CS_WAIT_CHALLENGE_ACK"
  PROVE  Outcome(handle_read_challenge_ack_body(h), {"CS_WAIT_CHALLENGE_ACK"}, {"CS_CONNECTED"})
<1>1. PICK a : \/ handle_read_challenge_ack_body(h) = Fail([h EXCEPT !.asserted = a])
               \/ handle_read_challenge_ack_body(h) =
                    [[h EXCEPT !.asserted = a] EXCEPT !.state = "CS_CONNECTED"]
  BY DEF handle_read_challenge_ack_body
<1>2. PICK g : g = [h EXCEPT !.asserted = a]
  OBVIOUS
<1>3. Fields(g) /\ g.failed = FALSE /\ g.state = "CS_WAIT_CHALLENGE_ACK"
  BY <1>2 DEF Fields
<1>4. [g EXCEPT !.state = "CS_CONNECTED"].failed = FALSE
      /\ [g EXCEPT !.state = "CS_CONNECTED"].state = "CS_CONNECTED"
  BY <1>3 DEF Fields
<1> QED BY <1>1, <1>2, <1>3, <1>4, FailOutcome DEF Outcome

LEMMA AckHeaderOutcome ==
  ASSUME NEW h, Fields(h), h.failed = FALSE, h.state = "CS_WAIT_CHALLENGE_ACK"
  PROVE  Outcome(handle_read_challenge_ack_header(h), {"CS_WAIT_CHALLENGE_ACK"},
                 {"CS_WAIT_CHALLENGE_ACK", "CS_CONNECTED"})
<1>1. PICK n, b : n = get16be(h.buf) /\ b = SubSeq(h.buf, 3, Len(h.buf))
  OBVIOUS
<1>2. PICK g : g = [h EXCEPT !.expect = n, !.buf = b]
  OBVIOUS
<1>3. \/ handle_read_challenge_ack_header(h) = Fail(g)
      \/ \E k : handle_read_challenge_ack_header(h) = Await(g, "ack_body", k)
      \/ handle_read_challenge_ack_header(h) = handle_read_challenge_ack_body(g)
  BY <1>1, <1>2 DEF handle_read_challenge_ack_header
<1>4. Fields(g) /\ g.failed = FALSE /\ g.state = "CS_WAIT_CHALLENGE_ACK"
  BY <1>2 DEF Fields
<1>5. CASE handle_read_challenge_ack_header(h) = Fail(g)
  BY <1>4, <1>5, FailOutcome DEF Outcome
<1>6. ASSUME NEW k, handle_read_challenge_ack_header(h) = Await(g, "ack_body", k)
      PROVE  handle_read_challenge_ack_header(h).failed = FALSE
             /\ handle_read_challenge_ack_header(h).state = "CS_WAIT_CHALLENGE_ACK"
  BY <1>4, <1>6, AwaitOutcome
<1>7. CASE handle_read_challenge_ack_header(h) = handle_read_challenge_ack_body(g)
  <2>1. Outcome(handle_read_challenge_ack_body(g), {"CS_WAIT_CHALLENGE_ACK"},
                {"CS_CONNECTED"})
    BY <1>4, AckBodyOutcome
  <2> QED BY <1>7, <2>1 DEF Outcome
<1> QED BY <1>3, <1>5, <1>6, <1>7 DEF Outcome

LEMMA ChallengeBodyOutcome ==
  ASSUME NEW h, Fields(h), h.failed = FALSE, h.state = "CS_WAIT_CHALLENGE"
  PROVE  Outcome(handle_read_challenge_body(h), {"CS_WAIT_CHALLENGE"},
                 {"CS_WAIT_WRITE_CHALLENGE_REPLY_DONE"})
<1>1. PICK g, a : g = [h EXCEPT !.asserted = a] /\ a = (h.asserted /\ Len(h.buf) >= h.expect)
  OBVIOUS
<1>2. \/ handle_read_challenge_body(h) = Fail(g)
      \/ \E v, msgs : handle_read_challenge_body(h) =
           Write([g EXCEPT !.dist_version = v], "CS_WAIT_WRITE_CHALLENGE_REPLY_DONE", msgs)
  BY <1>1 DEF handle_read_challenge_body
<1>3. Fields(g) /\ g.failed = FALSE /\ g.state = "CS_WAIT_CHALLENGE"
  BY <1>1 DEF Fields
<1>4. CASE handle_read_challenge_body(h) = Fail(g)
  BY <1>3, <1>4, FailOutcome DEF Outcome
<1>5. ASSUME NEW v, NEW msgs, handle_read_challenge_body(h) =
               Write([g EXCEPT !.dist_version = v], "CS_WAIT_WRITE_CHALLENGE_REPLY_DONE", msgs)
      PROVE  Outcome(handle_read_challenge_body(h), {"CS_WAIT_CHALLENGE"},
                     {"CS_WAIT_WRITE_CHALLENGE_REPLY_DONE"})
  <2>1. PICK f : f = [g EXCEPT !.dist_version = v]
    OBVIOUS
  <2>2. Fields(f) /\ f.failed = FALSE
    BY <1>3, <2>1 DEF Fields
  <2>3. handle_read_challenge_body(h) = Write(f, "CS_WAIT_WRITE_CHALLENGE_REPLY_DONE", msgs)
    BY <1>5, <2>1
  <2>4. /\ handle_read_challenge_body(h).failed = FALSE
        /\ handle_read_challenge_body(h).state = "CS_WAIT_WRITE_CHALLENGE_REPLY_DONE"
    BY <2>2, <2>3, WriteOutcome
  <2> QED BY <2>4 DEF Outcome
<1> QED BY <1>2, <1>4, <1>5

LEMMA ChallengeHeaderOutcome ==
  ASSUME NEW h, Fields(h), h.failed = FALSE, h.state = "CS_WAIT_CHALLENGE"
  PROVE  Outcome(handle_read_challenge_header(h), {"CS_WAIT_CHALLENGE"},
                 {"CS_WAIT_CHALLENGE", "CS_WAIT_WRITE_CHALLENGE_REPLY_DONE"})
<1>1. PICK n, b : n = get16be(h.buf) /\ b = SubSeq(h.buf, 3, Len(h.buf))
  OBVIOUS
<1>2. PICK g : g = [h EXCEPT !.expect = n, !.buf = b]
  OBVIOUS
<1>3. \/ handle_read_challenge_header(h) = Fail(g)
      \/ \E k : handle_read_challenge_header(h) = Await(g, "challenge_body", k)
      \/ handle_read_challenge_header(h) = handle_read_challenge_body(g)
  BY <1>1, <1>2 DEF handle_read_challenge_header
<1>4. Fields(g) /\ g.failed = FALSE /\ g.state = "CS_WAIT_CHALLENGE"
  BY <1>2 DEF Fields
<1>5. CASE handle_read_challenge_header(h) = Fail(g)
  BY <1>4, <1>5, FailOutcome DEF Outcome
<1>6. ASSUME NEW k, handle_read_challenge_header(h) = Await(g, "challenge_body", k)
      PROVE  handle_read_challenge_header(h).failed = FALSE
             /\ handle_read_challenge_header(h).state = "CS_WAIT_CHALLENGE"
  BY <1>4, <1>6, AwaitOutcome
<1>7. CASE handle_read_challenge_header(h) = handle_read_challenge_body(g)
  <2>1. Outcome(handle_read_challenge_body(g), {"CS_WAIT_CHALLENGE"},
                {"CS_WAIT_WRITE_CHALLENGE_REPLY_DONE"})
    BY <1>4, ChallengeBodyOutcome
  <2> QED BY <1>7, <2>1 DEF Outcome
<1> QED BY <1>3, <1>5, <1>6, <1>7 DEF Outcome

\* The handler of the status may run on into those of the challenge.
LEMMA StatusBodyOutcome ==
  ASSUME NEW h, Fields(h), h.failed = FALSE, h.state = "CS_WAIT_STATUS"
  PROVE  Outcome(handle_read_status_body(h), {"CS_WAIT_STATUS", "CS_WAIT_CHALLENGE"},
                 {"CS_WAIT_CHALLENGE", "CS_WAIT_WRITE_CHALLENGE_REPLY_DONE"})
<1>1. PICK a : a = (h.asserted /\ Len(h.buf) >= 3)
  OBVIOUS
<1>2. PICK f : f = [h EXCEPT !.asserted = a]
  OBVIOUS
<1>3. PICK g, b : b = SubSeq(f.buf, 4, Len(f.buf))
                  /\ g = [f EXCEPT !.state = "CS_WAIT_CHALLENGE", !.buf = b]
  OBVIOUS
<1>4. \/ handle_read_status_body(h) = Fail(f)
      \/ handle_read_status_body(h) = handle_read_challenge_header(g)
      \/ handle_read_status_body(h) = Await(g, "challenge_header", 2)
  BY <1>1, <1>2, <1>3 DEF handle_read_status_body
<1>5. Fields(f) /\ f.failed = FALSE /\ f.state = "CS_WAIT_STATUS"
  BY <1>2 DEF Fields
<1>6. Fields(g) /\ g.failed = FALSE /\ g.state = "CS_WAIT_CHALLENGE"
  BY <1>3, <1>5 DEF Fields
<1>7. CASE handle_read_status_body(h) = Fail(f)
  BY <1>5, <1>7, FailOutcome DEF Outcome
<1>8. CASE handle_read_status_body(h) = handle_read_challenge_header(g)
  <2>1. Outcome(handle_read_challenge_header(g), {"CS_WAIT_CHALLENGE"},
                {"CS_WAIT_CHALLENGE", "CS_WAIT_WRITE_CHALLENGE_REPLY_DONE"})
    BY <1>6, ChallengeHeaderOutcome
  <2> QED BY <1>8, <2>1 DEF Outcome
<1>9. CASE handle_read_status_body(h) = Await(g, "challenge_header", 2)
  BY <1>6, <1>9, AwaitOutcome DEF Outcome
<1> QED BY <1>4, <1>7, <1>8, <1>9

LEMMA StatusHeaderOutcome ==
  ASSUME NEW h, Fields(h), h.failed = FALSE, h.state = "CS_WAIT_STATUS"
  PROVE  Outcome(handle_read_status_header(h), {"CS_WAIT_STATUS", "CS_WAIT_CHALLENGE"},
                 {"CS_WAIT_STATUS", "CS_WAIT_CHALLENGE", "CS_WAIT_WRITE_CHALLENGE_REPLY_DONE"})
<1>1. PICK n, b : n = get16be(h.buf) /\ b = SubSeq(h.buf, 3, Len(h.buf))
  OBVIOUS
<1>2. PICK g : g = [h EXCEPT !.expect = n, !.buf = b]
  OBVIOUS
<1>3. \/ handle_read_status_header(h) = Fail(g)
      \/ \E k : handle_read_status_header(h) = Await(g, "status_body", k)
      \/ handle_read_status_header(h) = handle_read_status_body(g)
  BY <1>1, <1>2 DEF handle_read_status_header
<1>4. Fields(g) /\ g.failed = FALSE /\ g.state = "CS_WAIT_STATUS"
  BY <1>2 DEF Fields
<1>5. CASE handle_read_status_header(h) = Fail(g)
  BY <1>4, <1>5, FailOutcome DEF Outcome
<1>6. ASSUME NEW k, handle_read_status_header(h) = Await(g, "status_body", k)
      PROVE  handle_read_status_header(h).failed = FALSE
             /\ handle_read_status_header(h).state = "CS_WAIT_STATUS"
  BY <1>4, <1>6, AwaitOutcome
<1>7. CASE handle_read_status_header(h) = handle_read_status_body(g)
  <2>1. Outcome(handle_read_status_body(g), {"CS_WAIT_STATUS", "CS_WAIT_CHALLENGE"},
                {"CS_WAIT_CHALLENGE", "CS_WAIT_WRITE_CHALLENGE_REPLY_DONE"})
    BY <1>4, StatusBodyOutcome
  <2> QED BY <1>7, <2>1 DEF Outcome
<1> QED BY <1>3, <1>5, <1>6, <1>7 DEF Outcome

\* A read ends in the state in which it was started, or the handlers that it
\* calls have gone on from there.
LEMMA ReadOutcome ==
  ASSUME HandshakeInv, Read
  PROVE  /\ c.failed = FALSE /\ left' = left
         /\ \/ /\ c.state = "CS_WAIT_EPMD_REPLY"
               /\ Outcome(c', {"CS_WAIT_EPMD_REPLY"}, {"CS_WAIT_EPMD_REPLY", "CS_WAIT_CONNECT"})
            \/ /\ c.state = "CS_WAIT_STATUS"
               /\ Outcome(c', {"CS_WAIT_STATUS", "CS_WAIT_CHALLENGE"},
                          {"CS_WAIT_STATUS", "CS_WAIT_CHALLENGE",
                           "CS_WAIT_WRITE_CHALLENGE_REPLY_DONE"})
            \/ /\ c.state = "CS_WAIT_CHALLENGE"
               /\ Outcome(c', {"CS_WAIT_CHALLENGE"},
                          {"CS_WAIT_CHALLENGE", "CS_WAIT_WRITE_CHALLENGE_REPLY_DONE"})
            \/ /\ c.state = "CS_WAIT_CHALLENGE_ACK"
               /\ Outcome(c', {"CS_WAIT_CHALLENGE_ACK"}, {"CS_WAIT_CHALLENGE_ACK", "CS_CONNECTED"})
<1>1. c \in Connection /\ ~ c.failed /\ c.need > 0 /\ left' = left
  BY DEF HandshakeInv, Types, Read
<1>2. PICK h, b : c' = Handle(h) /\ h = [c EXCEPT !.buf = b, !.need = 0]
  BY DEF Read
<1>3. c.failed = FALSE /\ Fields(h) /\ h.failed = FALSE /\ h.state = c.state /\ h.next = c.next
  BY <1>1, <1>2 DEF Connection, Fields
<1>4. Phase(c, net) /\ c.state \in States
  BY <1>1 DEF HandshakeInv, Progress, Connection
<1>5. \/ c.state = "CS_WAIT_EPMD_REPLY" /\ c.next \in {"epmd_header", "epmd_body"}
      \/ c.state = "CS_WAIT_STATUS" /\ c.next \in {"status_header", "status_body"}
      \/ c.state = "CS_WAIT_CHALLENGE" /\ c.next \in {"challenge_header", "challenge_body"}
      \/ c.state = "CS_WAIT_CHALLENGE_ACK" /\ c.next \in {"ack_header", "ack_body"}
  BY <1>1, <1>4 DEF Phase, States, Writes, AwaitsHeader, AwaitsBody
<1>6. CASE c.state = "CS_WAIT_EPMD_REPLY" /\ c.next \in {"epmd_header", "epmd_body"}
  <2>1. Handle(h) \in {handle_epmd_read_header(h), handle_epmd_read_body(h)}
    BY <1>3, <1>6 DEF Handle
  <2>2. Outcome(Handle(h), {"CS_WAIT_EPMD_REPLY"}, {"CS_WAIT_EPMD_REPLY", "CS_WAIT_CONNECT"})
    BY <1>3, <1>6, <2>1, EpmdHeaderOutcome, EpmdBodyOutcome DEF Outcome
  <2> QED BY <1>1, <1>2, <1>3, <1>6, <2>2
<1>7. CASE c.state = "CS_WAIT_STATUS" /\ c.next \in {"status_header", "status_body"}
  <2>1. Handle(h) \in {handle_read_status_header(h), handle_read_status_body(h)}
    BY <1>3, <1>7 DEF Handle
  <2>2. Outcome(Handle(h), {"CS_WAIT_STATUS", "CS_WAIT_CHALLENGE"},
                {"CS_WAIT_STATUS", "CS_WAIT_CHALLENGE", "CS_WAIT_WRITE_CHALLENGE_REPLY_DONE"})
    BY <1>3, <1>7, <2>1, StatusHeaderOutcome, StatusBodyOutcome DEF Outcome
  <2> QED BY <1>1, <1>2, <1>3, <1>7, <2>2
<1>8. CASE c.state = "CS_WAIT_CHALLENGE" /\ c.next \in {"challenge_header", "challenge_body"}
  <2>1. Handle(h) \in {handle_read_challenge_header(h), handle_read_challenge_body(h)}
    BY <1>3, <1>8 DEF Handle
  <2>2. Outcome(Handle(h), {"CS_WAIT_CHALLENGE"},
                {"CS_WAIT_CHALLENGE", "CS_WAIT_WRITE_CHALLENGE_REPLY_DONE"})
    BY <1>3, <1>8, <2>1, ChallengeHeaderOutcome, ChallengeBodyOutcome DEF Outcome
  <2> QED BY <1>1, <1>2, <1>3, <1>8, <2>2
<1>9. CASE c.state = "CS_WAIT_CHALLENGE_ACK" /\ c.next \in {"ack_header", "ack_body"}
  <2>1. Handle(h) \in {handle_read_challenge_ack_header(h), handle_read_challenge_ack_body(h)}
    BY <1>3, <1>9 DEF Handle
  <2>2. Outcome(Handle(h), {"CS_WAIT_CHALLENGE_ACK"}, {"CS_WAIT_CHALLENGE_ACK", "CS_CONNECTED"})
    BY <1>3, <1>9, <2>1, AckHeaderOutcome, AckBodyOutcome DEF Outcome
  <2> QED BY <1>1, <1>2, <1>3, <1>9, <2>2
<1> QED BY <1>5, <1>6, <1>7, <1>8, <1>9
-----------------------------------------------------------------------------
\* What OtpConnection sees of the attempt.
Seen == <<c.state, c.failed, left>>

LEMMA SeenSame ==
  ASSUME Seen' = Seen
  PROVE  UNCHANGED Conn!vars
BY DEF Seen, Connected, Conn!vars, Conn!connVars, Conn!transVars

\* No assertion of OtpConnection fails: m_state is what the handler expects, and
\* there is no other transport.
LEMMA NoAssertFails ==
  ASSUME c.failed = FALSE
  PROVE  /\ Conn!CheckAsserts({Conn!StateAssert("t")})
         /\ Conn!CheckAsserts({Conn!StateAssert("t"), Conn!TransportAssert("t")})
<1>1. Conn!StateAssert("t")[2] /\ Conn!TransportAssert("t")[2]
  BY DEF Conn!StateAssert, Conn!TransportAssert
<1> QED BY <1>1 DEF Conn!CheckAsserts

LEMMA OnlyOne ==
  ASSUME NEW x, NEW y
  PROVE  [[t \in {"t"} |-> x] EXCEPT !["t"] = y] = [t \in {"t"} |-> y]
OBVIOUS

\* The attempt fails in state s.
LEMMA FailMaps ==
  ASSUME c.failed = FALSE, c'.failed = TRUE, left' = left, NEW s, c'.state = s,
         s = "CS_WAIT_RESOLVE" <=> c.state = "CS_WAIT_RESOLVE"
  PROVE  Conn!FailIn("t", s)
<1>1. Conn!CheckAsserts({Conn!StateAssert("t"), Conn!TransportAssert("t")})
  BY NoAssertFails
<1>2. Conn!on_connect_failure("t")
  <2>1. Connected' = FALSE
    <3>1. ~ Connected'
      BY DEF Connected
    <3> QED BY <3>1, Zenon DEF Connected
  <2>2. c.failed' = IF FALSE \/ 1 <= 0 THEN c.failed ELSE TRUE
    <3>1. ~ (FALSE \/ 1 <= 0)
      OBVIOUS
    <3> QED BY <3>1, Zenon
  <2> QED BY <2>1, <2>2, Zenon DEF Conn!on_connect_failure, Conn!reconnect
<1>3. [t \in {"t"} |-> c.state]' = [[t \in {"t"} |-> c.state] EXCEPT !["t"] = s]
  BY OnlyOne
<1>4. [t \in {"t"} |-> IF c.failed THEN "CS_INIT" ELSE c.state]' =
        [[t \in {"t"} |-> IF c.failed THEN "CS_INIT" ELSE c.state] EXCEPT !["t"] = "CS_INIT"]
  BY OnlyOne
<1>5. [t \in {"t"} |-> ~ c.failed /\ c.state # "CS_WAIT_RESOLVE"]' =
        [[t \in {"t"} |-> ~ c.failed /\ c.state # "CS_WAIT_RESOLVE"] EXCEPT !["t"] = FALSE]
  BY OnlyOne
<1>6. [t \in {"t"} |-> IF c.state = "CS_WAIT_RESOLVE" THEN 0 ELSE left]' =
        [t \in {"t"} |-> IF c.state = "CS_WAIT_RESOLVE" THEN 0 ELSE left]
  OBVIOUS
<1> QED BY <1>1, <1>2, <1>3, <1>4, <1>5, <1>6 DEF Conn!FailIn

\* The attempt goes on to state s.
LEMMA ProceedMaps ==
  ASSUME c.failed = FALSE, c'.failed = FALSE, NEW s, c'.state = s, c.state # "CS_CONNECTED",
         s # "CS_WAIT_RESOLVE", s # "CS_CONNECTED",
         c.state = "CS_WAIT_RESOLVE" <=> s = "CS_WAIT_EPMD_CONNECT"
  PROVE  /\ Conn!Proceed("t", s) /\ UNCHANGED Conn!connVars
<1>1. [t \in {"t"} |-> c.state]' = [[t \in {"t"} |-> c.state] EXCEPT !["t"] = s]
  BY OnlyOne
<1>2. [t \in {"t"} |-> IF c.failed THEN "CS_INIT" ELSE c.state]' =
        [[t \in {"t"} |-> IF c.failed THEN "CS_INIT" ELSE c.state] EXCEPT !["t"] = s]
  BY OnlyOne
<1>3. [t \in {"t"} |-> ~ c.failed /\ c.state # "CS_WAIT_RESOLVE"]' =
        [[t \in {"t"} |-> ~ c.failed /\ c.state # "CS_WAIT_RESOLVE"]
           EXCEPT !["t"] = @ \/ Conn!Opens(s)]
  <2>1. c.state = "CS_WAIT_RESOLVE" => Conn!Opens(s)
    BY DEF Conn!Opens
  <2>2. [t \in {"t"} |-> ~ c.failed /\ c.state # "CS_WAIT_RESOLVE"]' = [t \in {"t"} |-> TRUE]
    OBVIOUS
  <2>3. ([t \in {"t"} |-> ~ c.failed /\ c.state # "CS_WAIT_RESOLVE"]["t"] \/ Conn!Opens(s)) = TRUE
    BY <2>1
  <2> QED BY <2>2, <2>3, OnlyOne
<1>4. Connected' = Connected
  BY DEF Connected
<1> QED BY <1>1, <1>2, <1>3, <1>4 DEF Conn!Proceed, Conn!connVars

\* What is pending is what the connection waits for, until the attempt has failed.
LEMMA PendingIs ==
  ASSUME c.failed = FALSE
  PROVE  /\ [t \in {"t"} |-> IF c.failed THEN "CS_INIT" ELSE c.state]["t"] = c.state
         /\ [t \in {"t"} |-> c.state]["t"] = c.state
         /\ c.state # "CS_WAIT_RESOLVE" => Conn!Succeeds("t")
BY DEF Conn!Succeeds

\* The addresses that are left, after they were resolved.
LEMMA EndpointsSame ==
  ASSUME left' = left, c.state # "CS_WAIT_RESOLVE", c'.state # "CS_WAIT_RESOLVE"
  PROVE  [t \in {"t"} |-> IF c.state = "CS_WAIT_RESOLVE" THEN 0 ELSE left]' =
           [t \in {"t"} |-> IF c.state = "CS_WAIT_RESOLVE" THEN 0 ELSE left]
OBVIOUS

\* A handler of a step of the handshake gives up or goes on.
LEMMA StepMaps ==
  ASSUME c.failed = FALSE, left' = left, c.state \in DOMAIN Conn!AfterSuccess,
         Outcome(c', {c.state}, {Conn!AfterSuccess[c.state]})
  PROVE  Conn!handle_step("t")
<1> DEFINE after == Conn!AfterSuccess[c.state]
<1>1. /\ c.state # "CS_WAIT_RESOLVE" /\ c.state # "CS_CONNECTED"
      /\ after # "CS_WAIT_RESOLVE" /\ after # "CS_CONNECTED" /\ after # "CS_WAIT_EPMD_CONNECT"
  BY DEF Conn!AfterSuccess
<1> HIDE DEF after
<1>2. /\ [t \in {"t"} |-> IF c.failed THEN "CS_INIT" ELSE c.state]["t"] = c.state
      /\ [t \in {"t"} |-> c.state]["t"] = c.state /\ Conn!Succeeds("t")
  BY <1>1, PendingIs
<1>3. CASE c'.failed = TRUE /\ c'.state = c.state
  <2>1. Conn!FailIn("t", c.state)
    BY <1>3, FailMaps
  <2> QED BY <1>2, <2>1 DEF Conn!handle_step, Conn!Fail
<1>4. CASE c'.failed = FALSE /\ c'.state = after
  <2>1. Conn!Proceed("t", after) /\ UNCHANGED Conn!connVars
    BY <1>1, <1>4, ProceedMaps
  <2>2. Conn!CheckAsserts({Conn!StateAssert("t")})
    BY NoAssertFails
  <2>3. [t \in {"t"} |-> IF c.state = "CS_WAIT_RESOLVE" THEN 0 ELSE left]' =
          [t \in {"t"} |-> IF c.state = "CS_WAIT_RESOLVE" THEN 0 ELSE left]
    BY <1>1, <1>4, EndpointsSame
  <2> QED BY <1>2, <2>1, <2>2, <2>3 DEF Conn!handle_step, after
<1> QED BY <1>3, <1>4 DEF Outcome, after

LEMMA ResolveMaps ==
  ASSUME HandshakeInv, handle_resolve
  PROVE  Conn!handle_resolve("t")
<1>1. c \in Connection /\ c.failed = FALSE /\ c.state = "CS_WAIT_RESOLVE" /\ left = Endpoints
  BY DEF HandshakeInv, Types, Connection, handle_resolve
<1>2. /\ [t \in {"t"} |-> IF c.failed THEN "CS_INIT" ELSE c.state]["t"] = "CS_WAIT_RESOLVE"
      /\ [t \in {"t"} |-> c.state]["t"] = "CS_WAIT_RESOLVE"
  BY <1>1, PendingIs
<1>3. CASE c' = Fail(c) /\ left' = left
  <2>1. c'.failed = TRUE /\ c'.state = "CS_WAIT_RESOLVE"
    BY <1>1, <1>3, FailOutcome DEF Fields, Connection
  <2>2. Conn!FailIn("t", "CS_WAIT_RESOLVE")
    BY <1>1, <1>3, <2>1, FailMaps
  <2> QED BY <1>2, <2>2 DEF Conn!handle_resolve, Conn!Fail
<1>4. CASE c' = [c EXCEPT !.state = "CS_WAIT_EPMD_CONNECT"] /\ left' = left - 1
  <2>1. c'.failed = FALSE /\ c'.state = "CS_WAIT_EPMD_CONNECT"
    BY <1>1, <1>4 DEF Connection
  <2>2. Conn!Proceed("t", "CS_WAIT_EPMD_CONNECT") /\ UNCHANGED Conn!connVars
    BY <1>1, <2>1, ProceedMaps
  <2>3. Conn!CheckAsserts({Conn!StateAssert("t")})
    BY <1>1, NoAssertFails
  <2>4. left' \in 0..(Endpoints - 1)
    BY <1>1, <1>4, HandshakeAssumption
  <2>5. [t \in {"t"} |-> IF c.state = "CS_WAIT_RESOLVE" THEN 0 ELSE left]' =
          [[t \in {"t"} |-> IF c.state = "CS_WAIT_RESOLVE" THEN 0 ELSE left] EXCEPT !["t"] = left']
    BY <2>1, OnlyOne
  <2> QED BY <1>2, <2>2, <2>3, <2>4, <2>5 DEF Conn!handle_resolve
<1> QED BY <1>3, <1>4 DEF handle_resolve

LEMMA EpmdConnectMaps ==
  ASSUME HandshakeInv, handle_epmd_connect
  PROVE  Conn!handle_epmd_connect("t")
<1>1. /\ c \in Connection /\ c.failed = FALSE /\ c.state = "CS_WAIT_EPMD_CONNECT"
      /\ left \in Nat
  BY DEF HandshakeInv, Types, Connection, handle_epmd_connect
<1>2. /\ [t \in {"t"} |-> IF c.failed THEN "CS_INIT" ELSE c.state]["t"] = "CS_WAIT_EPMD_CONNECT"
      /\ [t \in {"t"} |-> c.state]["t"] = "CS_WAIT_EPMD_CONNECT" /\ Conn!Succeeds("t")
      /\ [t \in {"t"} |-> IF c.state = "CS_WAIT_RESOLVE" THEN 0 ELSE left]["t"] = left
  BY <1>1, PendingIs
<1>3. Conn!CheckAsserts({Conn!StateAssert("t")})
  BY <1>1, NoAssertFails
<1>4. CASE left = 0 /\ c' = Fail(c) /\ left' = left
  <2>1. c'.failed = TRUE /\ c'.state = "CS_WAIT_EPMD_CONNECT"
    BY <1>1, <1>4, FailOutcome DEF Fields, Connection
  <2>2. Conn!FailIn("t", "CS_WAIT_EPMD_CONNECT")
    BY <1>1, <1>4, <2>1, FailMaps
  <2> QED BY <1>2, <1>4, <2>2 DEF Conn!handle_epmd_connect, Conn!Fail
<1>5. CASE left > 0 /\ left' = left - 1 /\ c' = c
  <2>1. [t \in {"t"} |-> IF c.state = "CS_WAIT_RESOLVE" THEN 0 ELSE left]' =
          [[t \in {"t"} |-> IF c.state = "CS_WAIT_RESOLVE" THEN 0 ELSE left]
             EXCEPT !["t"] = @ - 1]
    BY <1>1, <1>5, OnlyOne
  <2>2. [t \in {"t"} |-> ~ c.failed /\ c.state # "CS_WAIT_RESOLVE"]' =
          [[t \in {"t"} |-> ~ c.failed /\ c.state # "CS_WAIT_RESOLVE"] EXCEPT !["t"] = TRUE]
    BY <1>1, <1>5, OnlyOne
  <2>3. UNCHANGED Conn!connVars
    BY <1>5 DEF Conn!connVars, Connected
  <2> QED BY <1>2, <1>3, <1>5, <2>1, <2>2, <2>3 DEF Conn!handle_epmd_connect
<1>6. CASE c' = Write(c, "CS_WAIT_EPMD_WRITE_DONE", <<[tag |-> "PORT2_REQ"]>>) /\ left' = left
  <2>1. c'.failed = FALSE /\ c'.state = "CS_WAIT_EPMD_WRITE_DONE"
    BY <1>1, <1>6, WriteOutcome DEF Fields, Connection
  <2>2. Conn!Proceed("t", "CS_WAIT_EPMD_WRITE_DONE") /\ UNCHANGED Conn!connVars
    BY <1>1, <2>1, ProceedMaps
  <2>3. [t \in {"t"} |-> IF c.state = "CS_WAIT_RESOLVE" THEN 0 ELSE left]' =
          [t \in {"t"} |-> IF c.state = "CS_WAIT_RESOLVE" THEN 0 ELSE left]
    BY <1>1, <1>6, <2>1, EndpointsSame
  <2> QED BY <1>2, <1>3, <2>2, <2>3 DEF Conn!handle_epmd_connect
<1> QED BY <1>4, <1>5, <1>6 DEF handle_epmd_connect

LEMMA WriteMaps ==
  ASSUME HandshakeInv, handle_write
  PROVE  Conn!handle_step("t")
<1>1. c \in Connection /\ c.failed = FALSE /\ left' = left
  BY DEF HandshakeInv, Types, Connection, handle_write
<1>2. /\ c.state \in DOMAIN Conn!AfterSuccess
      /\ AfterWrite[c.state][1] = Conn!AfterSuccess[c.state]
  BY DEF handle_write, AfterWrite, Conn!AfterSuccess
<1> DEFINE after == Conn!AfterSuccess[c.state]
<1>3. Outcome(c', {c.state}, {after})
  <2>1. CASE c' = Fail(c)
    BY <1>1, <2>1, FailOutcome DEF Fields, Connection, Outcome
  <2>2. CASE c' = Await([c EXCEPT !.state = after], AfterWrite[c.state][2], 2)
    <3> HIDE DEF after
    <3>1. PICK g : g = [c EXCEPT !.state = after]
      OBVIOUS
    <3>2. Fields(g) /\ g.failed = FALSE /\ g.state = after
      BY <1>1, <3>1 DEF Fields, Connection
    <3>3. PICK next : c' = Await(g, next, 2)
      BY <2>2, <3>1
    <3> QED BY <3>2, <3>3, AwaitOutcome DEF Outcome
  <2> QED BY <1>2, <2>1, <2>2 DEF handle_write
<1> QED BY <1>1, <1>2, <1>3, StepMaps

LEMMA ConnectMaps ==
  ASSUME HandshakeInv, Connect
  PROVE  Conn!handle_step("t")
<1>1. c \in Connection /\ c.failed = FALSE /\ left' = left /\ c.state = "CS_WAIT_CONNECT"
  BY DEF HandshakeInv, Types, Connection, Connect
<1>2. /\ c.state \in DOMAIN Conn!AfterSuccess
      /\ Conn!AfterSuccess[c.state] = "CS_WAIT_WRITE_CHALLENGE_DONE"
  BY <1>1 DEF Conn!AfterSuccess
<1>3. Outcome(c', {c.state}, {"CS_WAIT_WRITE_CHALLENGE_DONE"})
  <2>1. CASE c' = Fail(c)
    BY <1>1, <2>1, FailOutcome DEF Fields, Connection, Outcome
  <2>2. CASE c' = handle_connect(c)
    <3>1. PICK g, msgs, ch, v : g = [c EXCEPT !.our_challenge = ch, !.sent = <<>>, !.dist_version = v]
            /\ handle_connect(c) = Write(g, "CS_WAIT_WRITE_CHALLENGE_DONE", msgs)
      BY DEF handle_connect
    <3>2. Fields(g) /\ g.failed = FALSE
      BY <1>1, <3>1 DEF Fields, Connection
    <3>3. c' = Write(g, "CS_WAIT_WRITE_CHALLENGE_DONE", msgs)
      BY <2>2, <3>1
    <3>4. c'.failed = FALSE /\ c'.state = "CS_WAIT_WRITE_CHALLENGE_DONE"
      BY <3>2, <3>3, WriteOutcome
    <3> QED BY <3>4 DEF Outcome
  <2> QED BY <2>1, <2>2 DEF Connect
<1> QED BY <1>1, <1>2, <1>3, StepMaps

\* The last handler: start() reports the connection.
LEMMA AckMaps ==
  ASSUME c.failed = FALSE, left' = left, c.state = "CS_WAIT_CHALLENGE_ACK",
         Outcome(c', {c.state}, {"CS_CONNECTED"})
  PROVE  Conn!handle_challenge_ack("t")
<1>1. /\ [t \in {"t"} |-> IF c.failed THEN "CS_INIT" ELSE c.state]["t"] = "CS_WAIT_CHALLENGE_ACK"
      /\ [t \in {"t"} |-> c.state]["t"] = c.state /\ Conn!Succeeds("t")
  BY PendingIs
<1>2. CASE c'.failed = TRUE /\ c'.state = c.state
  <2>1. Conn!FailIn("t", c.state)
    BY <1>2, FailMaps
  <2> QED BY <1>1, <2>1 DEF Conn!handle_challenge_ack, Conn!Fail
<1>3. CASE c'.failed = FALSE /\ c'.state = "CS_CONNECTED"
  <2>1. [t \in {"t"} |-> c.state]' = [[t \in {"t"} |-> c.state] EXCEPT !["t"] = "CS_CONNECTED"]
    BY <1>3, OnlyOne
  <2>2. [t \in {"t"} |-> IF c.failed THEN "CS_INIT" ELSE c.state]' =
          [[t \in {"t"} |-> IF c.failed THEN "CS_INIT" ELSE c.state] EXCEPT !["t"] = "CS_CONNECTED"]
    BY <1>3, OnlyOne
  <2>3. Conn!CheckAsserts({Conn!StateAssert("t"), Conn!TransportAssert("t")})
    BY NoAssertFails
  <2>4. [t \in {"t"} |-> IF c.state = "CS_WAIT_RESOLVE" THEN 0 ELSE left]' =
          [t \in {"t"} |-> IF c.state = "CS_WAIT_RESOLVE" THEN 0 ELSE left]
    BY <1>3, EndpointsSame
  <2>5. [t \in {"t"} |-> ~ c.failed /\ c.state # "CS_WAIT_RESOLVE"]' =
          [t \in {"t"} |-> ~ c.failed /\ c.state # "CS_WAIT_RESOLVE"]
    BY <1>3
  <2>6. Conn!on_connect("t")
    <3>1. Connected'
      BY <1>3 DEF Connected
    <3>2. Connected' = TRUE
      BY <3>1, Zenon DEF Connected
    <3>3. c.failed' = c.failed
      BY <1>3
    <3> QED BY <3>2, <3>3 DEF Conn!on_connect
  <2>7. ~ [t \in {"t"} |-> FALSE]["t"]
    OBVIOUS
  <2> QED BY <1>1, <2>1, <2>2, <2>3, <2>4, <2>5, <2>6, <2>7 DEF Conn!handle_challenge_ack
<1> QED BY <1>2, <1>3 DEF Outcome

\* The handler of the status has run on into those of the challenge.
LEMMA StatusAndChallengeMaps ==
  ASSUME c.failed = FALSE, left' = left, c.state = "CS_WAIT_STATUS",
         Outcome(c', {"CS_WAIT_CHALLENGE"}, {"CS_WAIT_WRITE_CHALLENGE_REPLY_DONE"})
  PROVE  Conn!handle_status_and_challenge("t")
<1>1. /\ [t \in {"t"} |-> IF c.failed THEN "CS_INIT" ELSE c.state]["t"] = "CS_WAIT_STATUS"
      /\ Conn!Succeeds("t")
  BY PendingIs
<1>2. CASE c'.failed = TRUE /\ c'.state = "CS_WAIT_CHALLENGE"
  <2>1. Conn!FailIn("t", "CS_WAIT_CHALLENGE")
    BY <1>2, FailMaps
  <2> QED BY <1>1, <2>1 DEF Conn!handle_status_and_challenge
<1>3. CASE c'.failed = FALSE /\ c'.state = "CS_WAIT_WRITE_CHALLENGE_REPLY_DONE"
  <2>1. /\ Conn!Proceed("t", "CS_WAIT_WRITE_CHALLENGE_REPLY_DONE")
        /\ UNCHANGED Conn!connVars
    BY <1>3, ProceedMaps
  <2>2. Conn!AfterSuccess["CS_WAIT_CHALLENGE"] = "CS_WAIT_WRITE_CHALLENGE_REPLY_DONE"
    BY DEF Conn!AfterSuccess
  <2>3. Conn!CheckAsserts({Conn!StateAssert("t")})
    BY NoAssertFails
  <2>4. [t \in {"t"} |-> IF c.state = "CS_WAIT_RESOLVE" THEN 0 ELSE left]' =
          [t \in {"t"} |-> IF c.state = "CS_WAIT_RESOLVE" THEN 0 ELSE left]
    BY <1>3, EndpointsSame
  <2> QED BY <1>1, <2>1, <2>2, <2>3, <2>4 DEF Conn!handle_status_and_challenge
<1> QED BY <1>2, <1>3 DEF Outcome

LEMMA ReadMaps ==
  ASSUME HandshakeInv, Read
  PROVE  Conn!Handlers("t") \/ UNCHANGED Conn!vars
<1>1. c.failed = FALSE /\ left' = left
  BY ReadOutcome
<1>2. CASE c'.failed = FALSE /\ c'.state = c.state
  <2>1. Seen' = Seen
    BY <1>1, <1>2 DEF Seen
  <2> QED BY <2>1, SeenSame
<1>3. CASE /\ c.state \in {"CS_WAIT_EPMD_REPLY", "CS_WAIT_STATUS", "CS_WAIT_CHALLENGE"}
           /\ Outcome(c', {c.state}, {Conn!AfterSuccess[c.state]})
  <2>1. c.state \in DOMAIN Conn!AfterSuccess
    BY <1>3 DEF Conn!AfterSuccess
  <2> QED BY <1>1, <1>3, <2>1, StepMaps DEF Conn!Handlers
<1>4. CASE /\ c.state = "CS_WAIT_STATUS"
           /\ Outcome(c', {"CS_WAIT_CHALLENGE"}, {"CS_WAIT_WRITE_CHALLENGE_REPLY_DONE"})
  BY <1>1, <1>4, StatusAndChallengeMaps DEF Conn!Handlers
<1>5. CASE /\ c.state = "CS_WAIT_CHALLENGE_ACK"
           /\ Outcome(c', {c.state}, {"CS_CONNECTED"})
  BY <1>1, <1>5, AckMaps DEF Conn!Handlers
<1>6. /\ Conn!AfterSuccess["CS_WAIT_EPMD_REPLY"] = "CS_WAIT_CONNECT"
      /\ Conn!AfterSuccess["CS_WAIT_STATUS"] = "CS_WAIT_CHALLENGE"
      /\ Conn!AfterSuccess["CS_WAIT_CHALLENGE"] = "CS_WAIT_WRITE_CHALLENGE_REPLY_DONE"
  BY DEF Conn!AfterSuccess
<1>7. CASE /\ c.state = "CS_WAIT_EPMD_REPLY"
           /\ Outcome(c', {"CS_WAIT_EPMD_REPLY"}, {"CS_WAIT_EPMD_REPLY", "CS_WAIT_CONNECT"})
  <2>1. \/ c'.failed = FALSE /\ c'.state = c.state
        \/ Outcome(c', {c.state}, {Conn!AfterSuccess[c.state]})
    BY <1>6, <1>7 DEF Outcome
  <2> QED BY <1>2, <1>3, <1>7, <2>1
<1>8. CASE /\ c.state = "CS_WAIT_STATUS"
           /\ Outcome(c', {"CS_WAIT_STATUS", "CS_WAIT_CHALLENGE"},
                      {"CS_WAIT_STATUS", "CS_WAIT_CHALLENGE",
                       "CS_WAIT_WRITE_CHALLENGE_REPLY_DONE"})
  <2>1. \/ c'.failed = FALSE /\ c'.state = c.state
        \/ Outcome(c', {c.state}, {Conn!AfterSuccess[c.state]})
        \/ Outcome(c', {"CS_WAIT_CHALLENGE"}, {"CS_WAIT_WRITE_CHALLENGE_REPLY_DONE"})
    BY <1>6, <1>8 DEF Outcome
  <2> QED BY <1>2, <1>3, <1>4, <1>8, <2>1
<1>9. CASE /\ c.state = "CS_WAIT_CHALLENGE"
           /\ Outcome(c', {"CS_WAIT_CHALLENGE"},
                      {"CS_WAIT_CHALLENGE", "CS_WAIT_WRITE_CHALLENGE_REPLY_DONE"})
  <2>1. \/ c'.failed = FALSE /\ c'.state = c.state
        \/ Outcome(c', {c.state}, {Conn!AfterSuccess[c.state]})
    BY <1>6, <1>9 DEF Outcome
  <2> QED BY <1>2, <1>3, <1>9, <2>1
<1>10. CASE /\ c.state = "CS_WAIT_CHALLENGE_ACK"
            /\ Outcome(c', {"CS_WAIT_CHALLENGE_ACK"}, {"CS_WAIT_CHALLENGE_ACK", "CS_CONNECTED"})
  <2>1. \/ c'.failed = FALSE /\ c'.state = c.state
        \/ Outcome(c', {c.state}, {"CS_CONNECTED"})
    BY <1>10 DEF Outcome
  <2> QED BY <1>2, <1>5, <1>10, <2>1
<1> QED BY <1>7, <1>8, <1>9, <1>10, ReadOutcome

LEMMA ReadErrorMaps ==
  ASSUME HandshakeInv, ReadError
  PROVE  Conn!Handlers("t")
<1>1. /\ c \in Connection /\ c.failed = FALSE /\ c.need > 0 /\ left' = left
      /\ c' = Fail(c) /\ Phase(c, net)
  BY DEF HandshakeInv, Types, Progress, Connection, ReadError
<1>2. c'.failed = TRUE /\ c'.state = c.state
  BY <1>1, FailOutcome DEF Fields, Connection
<1>3. c.state \in {"CS_WAIT_EPMD_REPLY", "CS_WAIT_STATUS", "CS_WAIT_CHALLENGE",
                   "CS_WAIT_CHALLENGE_ACK"}
  <2>1. c.state \in States
    BY <1>1 DEF Connection
  <2> QED BY <1>1, <2>1 DEF Phase, States, Writes
<1>4. CASE c.state = "CS_WAIT_CHALLENGE_ACK"
  <2>1. Outcome(c', {c.state}, {"CS_CONNECTED"})
    BY <1>2 DEF Outcome
  <2> QED BY <1>1, <1>4, <2>1, AckMaps DEF Conn!Handlers
<1>5. CASE c.state # "CS_WAIT_CHALLENGE_ACK"
  <2>1. c.state \in DOMAIN Conn!AfterSuccess
    BY <1>3, <1>5 DEF Conn!AfterSuccess
  <2>2. Outcome(c', {c.state}, {Conn!AfterSuccess[c.state]})
    BY <1>2 DEF Outcome
  <2> QED BY <1>1, <2>1, <2>2, StepMaps DEF Conn!Handlers
<1> QED BY <1>4, <1>5

\* epmd, the peer and the network do nothing that OtpConnection sees.
LEMMA OthersUnseen ==
  ASSUME There \/ Drop \/ Done \/ UNCHANGED vars
  PROVE  UNCHANGED Conn!vars
<1>1. c' = c /\ left' = left
  BY DEF There, EpmdAnswers, PeerTakesName, PeerTakesComplement, PeerTakesReply, Drop, Done, vars
<1>2. Seen' = Seen
  BY <1>1 DEF Seen
<1> QED BY <1>2, SeenSame

LEMMA InitMaps ==
  ASSUME Init
  PROVE  Conn!Init
<1>1. c.state = "CS_WAIT_RESOLVE" /\ c.failed = FALSE
  BY DEF Init
<1>2. Connected = FALSE
  <2>1. ~ Connected
    BY <1>1 DEF Connected
  <2> QED BY <2>1, Zenon DEF Connected
<1>3. /\ [t \in {"t"} |-> c.state] =
           [t \in {"t"} |-> IF t = "t" THEN "CS_WAIT_RESOLVE" ELSE "CS_INIT"]
      /\ [t \in {"t"} |-> ~ c.failed /\ c.state # "CS_WAIT_RESOLVE"] = [t \in {"t"} |-> FALSE]
      /\ [t \in {"t"} |-> IF c.failed THEN "CS_INIT" ELSE c.state] = [t \in {"t"} |-> c.state]
      /\ [t \in {"t"} |-> IF c.state = "CS_WAIT_RESOLVE" THEN 0 ELSE left] = [t \in {"t"} |-> 0]
  BY <1>1
<1>4. TRUE = (1 > 0)
  OBVIOUS
<1> QED BY <1>1, <1>2, <1>3, <1>4 DEF Conn!Init

(* Every behaviour of the handshake, with its reads and the messages of    *)
(* the peer, is one of the attempt that OtpConnection models: what is      *)
(* proved of connections there does not rest on a handshake that was made  *)
(* simpler than the handlers of tcp_connection are.                        *)
THEOREM ConnectionCorrect == Spec => ImplementsConnection
<1>1. HandshakeInv /\ [Next]_vars => [Conn!Next]_(Conn!vars)
  <2> SUFFICES ASSUME HandshakeInv, [Next]_vars
               PROVE  Conn!Handlers("t") \/ UNCHANGED Conn!vars
    BY DEF Conn!Next
  <2>1. CASE handle_resolve
    BY <2>1, ResolveMaps DEF Conn!Handlers
  <2>2. CASE handle_epmd_connect
    BY <2>2, EpmdConnectMaps DEF Conn!Handlers
  <2>3. CASE handle_write
    BY <2>3, WriteMaps DEF Conn!Handlers
  <2>4. CASE Connect
    BY <2>4, ConnectMaps DEF Conn!Handlers
  <2>5. CASE Read
    BY <2>5, ReadMaps
  <2>6. CASE ReadError
    BY <2>6, ReadErrorMaps
  <2>7. CASE There \/ Drop \/ Done \/ UNCHANGED vars
    BY <2>7, OthersUnseen
  <2> QED BY <2>1, <2>2, <2>3, <2>4, <2>5, <2>6, <2>7 DEF Next, Here
<1> QED BY <1>1, InitMaps, HandshakeInvCorrect, PTL DEF Spec, ImplementsConnection, Conn!Spec
================================================================================
