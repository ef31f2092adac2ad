------------------------ MODULE SecureChannelProofs ------------------------
(***************************************************************************)
(* Machine-checked proofs about SecureChannel, for every set of keys, key  *)
(* numbers, key types, channels and API calls the assumptions allow.       *)
(***************************************************************************)
EXTENDS SecureChannel, TLAPS

USE ConstantsAssumption

-----------------------------------------------------------------------------
(***************************************************************************)
(* What each step of an exchange does to a session.                        *)
(***************************************************************************)
\* t is session s some messages later: same channel, keys and key number, and an
\* answer that one side chained alone is never forgotten
SameSession(s, t) ==
    /\ t \in Sessions
    /\ t.chan = s.chan /\ t.kt = s.kt /\ t.key = s.key /\ t.ti = s.ti /\ t.key_no = s.key_no
    /\ Marked(s) => Marked(t)

\* Closed sessions are the sessions there are: NoSession is one of them.
LEMMA NoSessionType == NoSession \in Sessions /\ WellFormed(NoSession)
  BY DEF NoSession, Sessions, WellFormed, Chans, IvItems, Marked

\* Whatever the request, it goes out plain, MACed or enciphered.
LEMMA FormType == \A ch, q : channel_encode(ch, q) \in {"plain", "mac", "enc"}
  BY DEF channel_encode, encode_d40, encode_ev1, encode_ev2

\* cmd_ctr++ stays in the session and wraps at CtrMod.
LEMMA CountedType ==
    ASSUME NEW s \in Sessions, WellFormed(s)
    PROVE  /\ SameSession(s, Counted(s)) /\ WellFormed(Counted(s))
           /\ Counted(s).iv = s.iv
           /\ s.chan \notin {"EV2", "LRP"} => Counted(s) = s
  <1>1. (s.ctr + 1) % CtrMod \in 0..(CtrMod - 1)
    BY DEF Sessions
  <1>2. CASE s.chan \in {"EV2", "LRP"}
    BY <1>1, <1>2 DEF Counted, Sessions, SameSession, WellFormed, Marked
  <1>3. CASE s.chan \notin {"EV2", "LRP"}
    BY <1>3 DEF Counted, SameSession
  <1> QED BY <1>2, <1>3

\* An IV has a mark if it had one, or the last message left one.
LEMMA MarkedAppended ==
    ASSUME NEW s \in Sessions, NEW x \in IvItems
    PROVE  Marked(Chained(s, x)) <=> Marked(s) \/ x \in OneSided
  <1> DEFINE iv == s.iv
             longer == Append(iv, x)
  <1>1. iv \in Seq(IvItems) /\ Chained(s, x).iv = longer
    BY DEF Sessions, Chained
  <1> HIDE DEF iv
  <1>2. /\ DOMAIN iv = 1..Len(iv) /\ DOMAIN longer = 1..(Len(iv) + 1) /\ Len(iv) \in Nat
        /\ \A i \in 1..Len(iv) : longer[i] = iv[i]
        /\ longer[Len(iv) + 1] = x
    BY <1>1
  <1> HIDE DEF longer
  <1>3. (\E i \in DOMAIN longer : longer[i] \in OneSided)
           <=> (\E i \in DOMAIN iv : iv[i] \in OneSided) \/ x \in OneSided
    <2>1. ASSUME NEW i \in DOMAIN longer, longer[i] \in OneSided
          PROVE  (\E j \in DOMAIN iv : iv[j] \in OneSided) \/ x \in OneSided
      BY <1>2, <2>1
    <2>2. ASSUME NEW i \in DOMAIN iv, iv[i] \in OneSided
          PROVE  \E j \in DOMAIN longer : longer[j] \in OneSided
      BY <1>2, <2>2
    <2>3. ASSUME x \in OneSided PROVE \E j \in DOMAIN longer : longer[j] \in OneSided
      BY <1>2, <2>3
    <2> QED BY <2>1, <2>2, <2>3
  <1> QED BY <1>1, <1>3 DEF Marked, iv

\* Running a message through the IV keeps the session, on the channels that chain one.
LEMMA AppendedType ==
    ASSUME NEW s \in Sessions, WellFormed(s), s.chan \in {"EV1", "LRP"}, NEW x \in IvItems,
           x \in OneSided => s.chan = "EV1"
    PROVE  /\ SameSession(s, Chained(s, x))
           /\ WellFormed(Chained(s, x))
  <1>1. Append(s.iv, x) \in Seq(IvItems)
    BY DEF Sessions
  <1>2. Marked(Chained(s, x)) <=> Marked(s) \/ x \in OneSided
    BY MarkedAppended
  <1> QED BY <1>1, <1>2 DEF Chained, Sessions, SameSession, WellFormed

\* Encoding a request keeps the session.
LEMMA EncodedType ==
    ASSUME NEW s \in Sessions, WellFormed(s), NEW q
    PROVE  SameSession(s, Encoded(s, q)) /\ WellFormed(Encoded(s, q))
  <1>1. SameSession(s, s)
    BY DEF SameSession
  <1> QED BY <1>1, AppendedType DEF Encoded, IvItems, OneSided

\* d is a decoding that left session s the session it was
DecodingOf(s, d) ==
    /\ SameSession(s, d.s) /\ WellFormed(d.s)
    /\ d.rc \in Rcs /\ d.verified \in BOOLEAN /\ d.exact \in BOOLEAN

\* Each outcome of a decoding is made of these.
LEMMA ResultType ==
    ASSUME NEW s, NEW t, SameSession(s, t), WellFormed(t)
    PROVE  /\ \A rc \in Rcs, v \in BOOLEAN, e \in BOOLEAN : DecodingOf(s, Result(rc, t, v, e))
           /\ \A a : DecodingOf(s, Copied(t, a))
  BY DEF DecodingOf, Result, Copied, Rcs

\* Decoding an answer keeps the session, whatever it finds.
LEMMA DecodedType ==
    ASSUME NEW s \in Sessions, WellFormed(s), NEW q, NEW a
    PROVE  DecodingOf(s, channel_decode(s, q, a))
  <1>1. SameSession(s, s)
    BY DEF SameSession
  <1>2. /\ \A x \in IvItems : s.chan = "EV1" =>
               SameSession(s, Chained(s, x)) /\ WellFormed(Chained(s, x))
        /\ s.chan = "LRP" =>
               SameSession(s, Chained(s, "block")) /\ WellFormed(Chained(s, "block"))
    BY AppendedType DEF IvItems, OneSided
  <1>3. {"OK", "LENGTH", "CRYPTO"} \subseteq Rcs /\ {"ans", "stray"} \subseteq IvItems
    BY DEF Rcs, IvItems
  <1>4. DecodingOf(s, decode_d40(s, q, a))
    BY <1>1, <1>3, ResultType DEF decode_d40
  <1>5. s.chan = "EV1" => DecodingOf(s, decode_ev1(s, q, a))
    BY <1>1, <1>2, <1>3, ResultType DEF decode_ev1
  <1>6. DecodingOf(s, decode_ev2(s, q, a))
    BY <1>1, <1>2, <1>3, ResultType DEF decode_ev2
  <1>7. DecodingOf(s, Copied(s, a))
    BY <1>1, ResultType
  <1> QED BY <1>4, <1>5, <1>6, <1>7 DEF channel_decode

\* t is what an exchange makes of session s: the same session, or none
Kin(s, t) == t = NoSession \/ (SameSession(s, t) /\ WellFormed(t))

\* Carrying a request out keeps the card's session.
LEMMA CardExecutedType ==
    ASSUME card \in Sessions, WellFormed(card), NEW q, NEW f
    PROVE  SameSession(card, CardExecuted(q, f)) /\ WellFormed(CardExecuted(q, f))
  <1>1. SameSession(card, Counted(card)) /\ WellFormed(Counted(card))
    BY CountedType
  <1>2. ASSUME card.chan \in {"EV1", "LRP"}, NEW x \in IvItems, x \notin OneSided
        PROVE  LET t == Chained(card, x)
               IN  /\ SameSession(card, t) /\ WellFormed(t)
                   /\ SameSession(card, Counted(t)) /\ WellFormed(Counted(t))
    <2> DEFINE t == Chained(card, x)
    <2>1. SameSession(card, t) /\ WellFormed(t)
      BY <1>2, AppendedType
    <2>2. t \in Sessions
      BY <2>1 DEF SameSession
    <2> HIDE DEF t
    <2>3. SameSession(t, Counted(t)) /\ WellFormed(Counted(t))
      BY <2>1, <2>2, CountedType
    <2>4. SameSession(card, Counted(t))
      BY <2>1, <2>3 DEF SameSession
    <2> QED BY <2>1, <2>3, <2>4 DEF t
  <1>3. "cmd" \in IvItems \ OneSided /\ "block" \in IvItems \ OneSided
    BY DEF IvItems, OneSided
  <1>4. CASE card.chan = "EV1"
    BY <1>2, <1>3, <1>4 DEF CardExecuted
  <1>5. CASE card.chan = "LRP" /\ f.form = "enc"
    BY <1>2, <1>3, <1>5 DEF CardExecuted
  <1>6. CASE ~(card.chan = "EV1") /\ ~(card.chan = "LRP" /\ f.form = "enc")
    BY <1>1, <1>6 DEF CardExecuted
  <1> QED BY <1>4, <1>5, <1>6

\* Answering it keeps that session, or ends it (ChangeKey of its own key, RollKeySet).
LEMMA CardAnsweredType ==
    ASSUME card \in Sessions, WellFormed(card), NEW q, NEW f
    PROVE  /\ CardEnds(q) => CardAnswered(q, f) = NoSession
           /\ ~CardEnds(q) => /\ SameSession(card, CardAnswered(q, f))
                             /\ WellFormed(CardAnswered(q, f))
           /\ Kin(card, CardAnswered(q, f))
  <1> DEFINE s == CardExecuted(q, f)
             r == CardAnswered(q, f)
  <1>1. SameSession(card, s) /\ WellFormed(s) /\ s \in Sessions
    BY CardExecutedType DEF SameSession
  <1>2. CardEnds(q) => r = NoSession
    BY DEF CardAnswered
  <1>3. ASSUME ~CardEnds(q) PROVE SameSession(card, r) /\ WellFormed(r)
    <2>1. \/ r = s
          \/ card.chan = "EV1" /\ r \in {Chained(s, "ans"), Chained(s, "cipher")}
          \/ card.chan = "LRP" /\ r = Chained(s, "block")
      BY <1>3 DEF CardAnswered
    <2> HIDE DEF s, r
    <2>2. ASSUME NEW x \in IvItems, card.chan \in {"EV1", "LRP"}, x \in OneSided => card.chan = "EV1"
          PROVE  SameSession(card, Chained(s, x)) /\ WellFormed(Chained(s, x))
      <3>1. s.chan = card.chan
        BY <1>1 DEF SameSession
      <3>2. SameSession(s, Chained(s, x)) /\ WellFormed(Chained(s, x))
        BY <1>1, <2>2, <3>1, AppendedType
      <3> QED BY <1>1, <3>2 DEF SameSession
    <2>3. /\ {"ans", "cipher", "block"} \subseteq IvItems
          /\ "block" \notin OneSided
      BY DEF IvItems, OneSided
    <2> QED BY <1>1, <2>1, <2>2, <2>3
  <1> QED BY <1>2, <1>3 DEF Kin

-----------------------------------------------------------------------------
(***************************************************************************)
(* Agreement of one exchange.                                              *)
(***************************************************************************)
\* Padding an answer that has a byte to pad fills a block.
LEMMA PaddedFillsBlock ==
    ASSUME NEW len \in Nat, len > 0, NEW b \in {8, 16}
    PROVE  padded_len(len, b) >= b /\ padded_len(len, b) \in Nat
  <1>1. CASE b = 8
    <2>1. len % 8 \in 0..7 /\ len = 8 * (len \div 8) + (len % 8) /\ len \div 8 \in Nat
      OBVIOUS
    <2>2. len \div 8 >= 1 \/ len % 8 # 0
      BY <2>1
    <2> QED BY <1>1, <2>1, <2>2 DEF padded_len
  <1>2. CASE b = 16
    <2>1. len % 16 \in 0..15 /\ len = 16 * (len \div 16) + (len % 16) /\ len \div 16 \in Nat
      OBVIOUS
    <2>2. len \div 16 >= 1 \/ len % 16 # 0
      BY <2>1
    <2> QED BY <1>2, <2>1, <2>2 DEF padded_len
  <1> QED BY <1>1, <1>2

\* What a request asks for, once Api keeps its assumption.
LEMMA RequestShape ==
    ASSUME NEW c \in Api, NEW q, q = Request(c)
    PROVE  /\ q.tx \in Modes /\ q.rx \in {"plain", "mac", "enc"}
           /\ q.tx = "enc_plain" => HasData(q.op, q.len)
           /\ q.rx = "enc" /\ q.op # q.cmd => q.tx = "enc"
           /\ q.rx = "enc" => ~HasData(q.cmd, q.len)
  <1>1. c.len \in Nat /\ c.tx \in Modes /\ c.rx \in {"plain", "mac", "enc"}
    BY ApiAssumption
  <1>2. q.rx \in {c.rx, "plain"}
    BY DEF Request, RxMode, eff, eff_mode
  <1>3. q.tx \in {c.tx, "plain"} \/ (c.when = "uid" /\ q.tx = "mac")
    BY DEF Request, TxMode, eff, eff_mode
  <1>4. q.cmd = c.cmd /\ q.len = c.len /\ q.op = file_cmd(c.cmd)
    BY DEF Request
  <1>5. q.tx = "enc_plain" => c.tx = "enc_plain"
    BY <1>3
  <1>6. HasData(c.cmd, c.len) => HasData(q.op, q.len)
    BY <1>1, <1>4 DEF HasData, cmd_header_len, file_cmd
  <1>7. q.tx = "enc_plain" => HasData(q.op, q.len)
    BY <1>5, <1>6, ApiAssumption
  <1>8. q.rx = "enc" /\ q.op # q.cmd => q.tx = "enc"
    <2> SUFFICES ASSUME q.rx = "enc", q.op # q.cmd
                 PROVE  q.tx = "enc"
      OBVIOUS
    <2>1. c.rx = "enc" /\ c.cmd # "GetCardUID"
      BY <1>2, <1>4 DEF file_cmd
    <2>2. c.tx = "enc" /\ c.when # "uid"
      BY <2>1, ApiAssumption
    <2>3. q.tx = "enc" \/ q.rx = "plain"
      BY <2>2 DEF Request, TxMode, RxMode, eff, eff_mode
    <2> QED BY <2>3
  <1>9. q.rx = "enc" => ~HasData(q.cmd, q.len)
    BY <1>2, <1>4, ApiAssumption
  <1>10. q.tx \in Modes /\ q.rx \in {"plain", "mac", "enc"}
    BY <1>1, <1>2, <1>3 DEF Modes
  <1> QED BY <1>7, <1>8, <1>9, <1>10

\* Two sessions with the same fields are the same session, or near if their IVs
\* alone differ and one has a mark.
LEMMA SessionEquality ==
    ASSUME NEW s \in Sessions, NEW t \in Sessions,
           s.chan = t.chan, s.kt = t.kt, s.key = t.key, s.ti = t.ti, s.ctr = t.ctr,
           s.key_no = t.key_no
    PROVE  /\ s.iv = t.iv => s = t
           /\ Marked(s) \/ Marked(t) => Near(s, t)
  <1>1. s.iv = t.iv => s = t
    BY DEF Sessions
  <1>2. s = [t EXCEPT !.iv = s.iv]
    BY DEF Sessions
  <1> QED BY <1>1, <1>2 DEF Near

\* Near sessions differ in their IVs only, and only on EV1.
LEMMA NearSessions ==
    ASSUME NEW s \in Sessions, NEW t \in Sessions, WellFormed(s), WellFormed(t), Near(s, t)
    PROVE  /\ s.chan = t.chan /\ s.kt = t.kt /\ s.key = t.key /\ s.ti = t.ti /\ s.ctr = t.ctr
           /\ s.key_no = t.key_no
           /\ s.chan # "EV1" => s = t
           /\ s # t => Marked(s) \/ Marked(t)
  <1>1. CASE s = t
    BY <1>1
  <1>2. CASE s = [t EXCEPT !.iv = s.iv] /\ (Marked(s) \/ Marked(t))
    <2>1. /\ s.chan = t.chan /\ s.kt = t.kt /\ s.key = t.key /\ s.ti = t.ti /\ s.ctr = t.ctr
          /\ s.key_no = t.key_no
      BY <1>2 DEF Sessions
    <2>2. s.chan = "EV1"
      BY <1>2, <2>1 DEF WellFormed
    <2> QED BY <1>2, <2>1, <2>2
  <1> QED BY <1>1, <1>2 DEF Near

\* A verified answer was sealed in the session, and at the counter and IV, the
\* reader decodes it with.
LEMMA VerifiedMeansSealed ==
    ASSUME NEW s, NEW q, NEW a, NEW d, d = channel_decode(s, q, a), d.verified
    PROVE  /\ a.form # "plain"
           /\ a.by.key = s.key /\ a.by.ti = s.ti /\ a.by.ctr = s.ctr
           /\ s.chan \in Chans
           /\ s.chan \in {"EV1", "LRP"} => a.by.iv = s.iv
           /\ s.chan \in {"D40", "EV2"} => d.s = s
           /\ s.chan = "EV1" /\ a.form = "mac" => d.s = Chained(s, "ans")
           /\ s.chan = "EV1" /\ a.form # "mac" => d.s = s
           /\ s.chan = "LRP" => a.form = "enc" /\ d.s = Chained(s, "block")
  <1>1. d.verified
    OBVIOUS
  <1>2. CASE s.chan = "D40"
    <2>1. d = decode_d40(s, q, a)
      BY <1>2 DEF channel_decode
    <2>2. d.s = s /\ (MacVerifies(a, s) \/ Deciphers(a, s))
      BY <1>1, <2>1 DEF decode_d40, Copied, Result
    <2> QED BY <1>2, <2>2 DEF MacVerifies, Deciphers, Chans
  <1>3. CASE s.chan = "EV1"
    <2> DEFINE absorbed == Chained(s, "ans")
    <2>1. d = decode_ev1(s, q, a)
      BY <1>3 DEF channel_decode
    <2>2. MacVerifies(a, s) => a.form = "mac"
      BY <1>3 DEF MacVerifies
    <2>3. \/ d.s = absorbed /\ MacVerifies(a, s)
          \/ d.s = s /\ Deciphers(a, s)
      <3> HIDE DEF absorbed
      <3>1. (\E rc, t : d = Result(rc, t, FALSE, FALSE)) \/ d = Copied(s, a)
            \/ (d = Result("OK", absorbed, TRUE, TRUE) /\ MacVerifies(a, s))
            \/ (d = Result("OK", s, TRUE, TRUE) /\ Deciphers(a, s))
        BY <2>1, <2>2 DEF decode_ev1, absorbed
      <3> QED BY <1>1, <3>1 DEF Copied, Result
    <2> QED BY <1>3, <2>3 DEF MacVerifies, Deciphers, Chans
  <1>4. CASE s.chan \in {"EV2", "LRP"}
    <2> DEFINE deciphered == IF s.chan = "LRP" THEN Chained(s, "block") ELSE s
    <2>1. d = decode_ev2(s, q, a)
      BY <1>4 DEF channel_decode
    <2>2. \/ s.chan = "EV2" /\ d.s = s /\ MacVerifies(a, s)
          \/ d.s = deciphered /\ Deciphers(a, s)
      <3>1. \/ d = Result("OK", s, s.chan = "EV2", a.form = "mac") /\ MacVerifies(a, s)
            \/ d = Result("OK", deciphered, TRUE, TRUE) /\ Deciphers(a, s)
            \/ d = Copied(s, a) \/ \E rc, t : d = Result(rc, t, FALSE, FALSE)
        BY <2>1 DEF decode_ev2
      <3>2. ASSUME d = Copied(s, a) \/ \E rc, t : d = Result(rc, t, FALSE, FALSE)
            PROVE  FALSE
        BY <1>1, <3>2 DEF Copied, Result
      <3>3. ASSUME d = Result("OK", s, s.chan = "EV2", a.form = "mac")
            PROVE  s.chan = "EV2" /\ d.s = s
        <4>1. CASE s.chan = "EV2"
          BY <3>3, <4>1 DEF Result
        <4>2. CASE s.chan # "EV2"
          <5>1. d = Result("OK", s, FALSE, a.form = "mac")
            BY <3>3, <4>2
          <5> QED BY <1>1, <5>1 DEF Result
        <4> QED BY <4>1, <4>2
      <3>4. ASSUME d = Result("OK", deciphered, TRUE, TRUE) PROVE d.s = deciphered
        BY <3>4 DEF Result
      <3> HIDE DEF deciphered
      <3> QED BY <3>1, <3>2, <3>3, <3>4
    <2> QED BY <1>4, <2>2 DEF MacVerifies, Deciphers, Chans
  <1>5. CASE s.chan \notin {"D40", "EV1", "EV2", "LRP"}
    BY <1>1, <1>5 DEF channel_decode, Copied, Result
  <1> QED BY <1>2, <1>3, <1>4, <1>5

\* Only a card with a session protects its answers, and the answer that ends the
\* session is not protected.
LEMMA ProtectedAnswer ==
    ASSUME NEW q, NEW f, NEW n, Answer(q, f, n).form # "plain"
    PROVE  /\ card # NoSession /\ ~CardEnds(q)
           /\ Answer(q, f, n).form = AnswerForm(q)
           /\ Answer(q, f, n).by = CardExecuted(q, f)
  <1>1. Answer(q, f, n).form = AnswerForm(q)
    BY DEF Answer
  <1>2. card # NoSession /\ ~CardEnds(q)
    BY <1>1 DEF AnswerForm
  <1>3. Answer(q, f, n).by = CardExecuted(q, f)
    BY <1>1 DEF Answer
  <1> QED BY <1>1, <1>2, <1>3

\* An EV1 session one side chained an answer through is near what it was.
LEMMA OneSidedIsNear ==
    ASSUME NEW s \in Sessions, WellFormed(s), s.chan = "EV1", NEW x \in OneSided
    PROVE  Near(s, Chained(s, x)) /\ Near(Chained(s, x), s)
  <1>1. x \in IvItems
    BY DEF OneSided, IvItems
  <1>2. SameSession(s, Chained(s, x)) /\ Marked(Chained(s, x))
    BY <1>1, AppendedType, MarkedAppended
  <1>3. Chained(s, x).ctr = s.ctr
    BY DEF Chained, Sessions
  <1> QED BY <1>2, <1>3, SessionEquality DEF SameSession

\* An exchange leaves the reader the session it had, up to the decoded answer.
LEMMA ReaderDecoded ==
    ASSUME IInv, NEW q, NEW a
    PROVE  /\ SameSession(reader, Counted(Encoded(reader, q)))
           /\ WellFormed(Counted(Encoded(reader, q)))
           /\ DecodingOf(reader, channel_decode(Counted(Encoded(reader, q)), q, a))
  <1> DEFINE E == Encoded(reader, q)
             C == Counted(E)
  <1>1. SameSession(reader, E) /\ WellFormed(E) /\ E \in Sessions
    BY EncodedType DEF IInv, TypeOK, SameSession
  <1> HIDE DEF E
  <1>2. SameSession(E, C) /\ WellFormed(C) /\ C \in Sessions
    BY <1>1, CountedType DEF SameSession
  <1> HIDE DEF C
  <1>3. DecodingOf(C, channel_decode(C, q, a))
    BY <1>2, DecodedType
  <1> QED BY <1>1, <1>2, <1>3 DEF DecodingOf, SameSession, E, C

\* A verified answer of a call that does not end the session proves that the two
\* sides agree, wherever they were before; an enciphered EV1 answer may move the IV of
\* the card alone.
LEMMA VerifiedAgrees ==
    ASSUME IInv, NEW q, NEW f, NEW n,
           NEW d, d = channel_decode(Counted(Encoded(reader, q)), q, Answer(q, f, n)),
           d.verified
    PROVE  Near(d.s, CardAnswered(q, f))
  <1> DEFINE C == Counted(Encoded(reader, q))
             X == CardExecuted(q, f)
             A == Answer(q, f, n)
  <1>1. SameSession(reader, C) /\ WellFormed(C) /\ C \in Sessions
    BY ReaderDecoded DEF SameSession
  <1>2. SameSession(card, X) /\ WellFormed(X) /\ X \in Sessions
    BY CardExecutedType DEF IInv, TypeOK, SameSession
  <1>3. card # NoSession /\ ~CardEnds(q) /\ A.form = AnswerForm(q) /\ A.by = X
    BY VerifiedMeansSealed, ProtectedAnswer
  <1> HIDE DEF C, X, A
  <1>4. d = channel_decode(C, q, A)
    BY DEF C, A
  <1>5. /\ X.key = C.key /\ X.ti = C.ti /\ X.ctr = C.ctr
        /\ C.chan \in {"EV1", "LRP"} => X.iv = C.iv
    BY <1>3, <1>4, VerifiedMeansSealed
  <1>6. card.key \in Keys
    BY <1>3 DEF IInv, WellFormed
  <1>7. reader.chan = card.chan /\ reader.kt = card.kt /\ reader.key_no = card.key_no
    BY <1>1, <1>2, <1>5, <1>6 DEF SameSession, IInv, SameOrigin
  <1>8. X.chan = C.chan /\ X.kt = C.kt /\ X.key_no = C.key_no /\ C.chan = card.chan
    BY <1>1, <1>2, <1>7 DEF SameSession
  <1>9. X.iv = C.iv
    <2>1. C.chan \in {"D40", "EV2"} => X.iv = C.iv
      BY <1>1, <1>2, <1>8 DEF WellFormed
    <2>2. C.chan \in Chans
      BY <1>4, VerifiedMeansSealed
    <2> QED BY <1>5, <2>1, <2>2 DEF Chans
  <1>10. X = C
    BY <1>1, <1>2, <1>5, <1>8, <1>9, SessionEquality
  <1>11. /\ C.chan = "EV1" /\ A.form = "mac" => CardAnswered(q, f) = Chained(C, "ans")
         /\ C.chan = "EV1" /\ A.form # "mac" => CardAnswered(q, f) \in {C, Chained(C, "cipher")}
         /\ C.chan = "LRP" /\ A.form = "enc" => CardAnswered(q, f) = Chained(C, "block")
         /\ C.chan \in {"D40", "EV2"} => CardAnswered(q, f) = C
    BY <1>3, <1>8, <1>10 DEF CardAnswered, X
  <1>12. /\ C.chan \in Chans
         /\ C.chan \in {"D40", "EV2"} => d.s = C
         /\ C.chan = "EV1" /\ A.form = "mac" => d.s = Chained(C, "ans")
         /\ C.chan = "EV1" /\ A.form # "mac" => d.s = C
         /\ C.chan = "LRP" => A.form = "enc" /\ d.s = Chained(C, "block")
    BY <1>4, VerifiedMeansSealed
  <1>13. C.chan = "EV1" => Near(C, Chained(C, "cipher"))
    BY <1>1, OneSidedIsNear DEF OneSided
  <1> QED BY <1>11, <1>12, <1>13 DEF Chans, Near

\* An exchange between two sides that hold the same session leaves them near each
\* other, verified or not.
LEMMA InSyncStays ==
    ASSUME IInv, reader = card, NEW c \in Api, NEW n \in c.ans,
           NEW q, q = Request(c), NEW f, f = Frame(q), CardAccepts(q, f),
           NEW d, d = channel_decode(Counted(Encoded(reader, q)), q, Answer(q, f, n))
    PROVE  Near(Kept(c, d.s), CardAnswered(q, f))
  <1> DEFINE C == Counted(Encoded(card, q))
             A == Answer(q, f, n)
  <1> USE DEF Chans
  <1>1. card \in Sessions /\ WellFormed(card)
    BY DEF IInv, TypeOK
  <1>2. CardEnds(q) <=> card # NoSession /\ ends_session(c, reader)
    BY DEF CardEnds, ends_session, Request
  <1>3. Counted(card).chan = card.chan
    BY <1>1, CountedType DEF SameSession
  <1>4. n \in Nat
    BY ApiAssumption
  <1>5. A.form = AnswerForm(q) /\ (A.form # "plain" => A.by = CardExecuted(q, f))
    BY DEF Answer
  <1>6. d = channel_decode(C, q, A)
    OBVIOUS
  <1>7. CASE card = NoSession
    <2>1. card.chan = "AUTO"
      BY <1>7 DEF NoSession
    <2>2. Counted(card) = card /\ Encoded(card, q) = card /\ CardExecuted(q, f) = card
      BY <2>1 DEF Counted, Encoded, CardExecuted
    <2>3. CardAnswered(q, f) = card
      BY <1>2, <1>7, <2>1, <2>2 DEF CardAnswered
    <2>4. d.s = card
      BY <1>6, <2>1, <2>2 DEF channel_decode, Copied, Result
    <2> QED BY <1>7, <2>3, <2>4 DEF Kept, Near
  <1>8. CASE card # NoSession /\ ends_session(c, reader)
    BY <1>2, <1>8 DEF Kept, CardAnswered, Near
  <1>9. CASE card # NoSession /\ ~ends_session(c, reader)
    <2>1. ~CardEnds(q) /\ Kept(c, d.s) = d.s
      BY <1>2, <1>9 DEF Kept
    <2>2. card.chan \in {"D40", "EV1", "EV2", "LRP"}
      BY <1>1, <1>9 DEF WellFormed, Sessions
    <2>3. CASE card.chan = "D40"
      <3>1. C = card /\ CardExecuted(q, f) = card
        BY <2>3 DEF Counted, Encoded, CardExecuted
      <3>2. d = decode_d40(C, q, A)
        BY <1>6, <2>3, <3>1 DEF channel_decode
      <3>3. d.s = C
        BY <3>2 DEF decode_d40, Copied, Result
      <3>4. CardAnswered(q, f) = card
        BY <2>1, <2>3, <3>1 DEF CardAnswered
      <3> QED BY <2>1, <3>1, <3>3, <3>4 DEF Near
    <2>4. CASE card.chan = "EV1"
      <3> DEFINE X == Chained(card, "cmd")
      <3>1. q.tx = "enc_plain" => HasData(q.op, q.len)
        BY RequestShape
      <3>2. X.chan = "EV1" /\ X \in Sessions /\ WellFormed(X)
        BY <1>1, <2>4, AppendedType DEF SameSession, IvItems, OneSided
      <3>3. C = X /\ CardExecuted(q, f) = X
        BY <2>4, <3>1, <3>2 DEF Encoded, Counted, CardExecuted
      <3> HIDE DEF X, C, A
      <3>4. d = decode_ev1(X, q, A)
        BY <1>6, <3>2, <3>3 DEF channel_decode
      <3>5. AnswerForm(q) = IF q.rx = "enc" THEN "enc"
                            ELSE IF q.cmd \in Unmaced THEN "plain" ELSE "mac"
        BY <1>9, <2>1, <2>4 DEF AnswerForm
      <3>6. Near(X, X) /\ Near(X, Chained(X, "cipher")) /\ Near(Chained(X, "stray"), X)
            /\ Near(Chained(X, "ans"), Chained(X, "ans"))
        BY <3>2, OneSidedIsNear DEF OneSided, Near
      <3>7. CASE q.rx # "enc" /\ q.cmd \notin Unmaced
        <4>1. A.form = "mac" /\ A.by = X
          BY <1>5, <3>3, <3>5, <3>7
        <4>2. A.wire = n + 8
          BY <1>5, <2>4, <4>1 DEF A, Answer, mac_length
        <4>3. ~(A.wire < mac_length("EV1"))
          BY <1>4, <4>2 DEF mac_length
        <4>4. MacVerifies(A, X)
          BY <4>1 DEF MacVerifies
        <4>5. q.rx \in {"plain", "mac"}
          BY <3>7, RequestShape
        <4>6. d.s = Chained(X, "ans")
          BY <3>4, <4>1, <4>3, <4>4, <4>5 DEF decode_ev1, Result
        <4>7. CardAnswered(q, f) = Chained(X, "ans")
          BY <2>1, <2>4, <3>3, <3>5, <3>7 DEF CardAnswered
        <4> QED BY <2>1, <3>6, <4>6, <4>7
      <3>8. CASE q.rx # "enc" /\ q.cmd \in Unmaced
        <4>1. A.form = "plain" /\ ~MacVerifies(A, X)
          BY <1>5, <3>5, <3>8 DEF MacVerifies
        <4>2. q.rx \in {"plain", "mac"}
          BY <3>8, RequestShape
        <4>3. d.s \in {X, Chained(X, "stray")}
          BY <3>4, <4>1, <4>2 DEF decode_ev1, Result
        <4>4. CardAnswered(q, f) = X
          BY <2>1, <2>4, <3>3, <3>5, <3>8 DEF CardAnswered
        <4> QED BY <2>1, <3>6, <4>3, <4>4
      <3>9. CASE q.rx = "enc"
        <4>1. ~HasData(q.op, q.len)
          <5> SUFFICES ASSUME HasData(q.op, q.len) PROVE FALSE
            OBVIOUS
          <5>1. q.tx = "enc" /\ ~HasData(q.cmd, q.len)
            BY <3>9, RequestShape
          <5>2. f.form = "enc"
            BY <2>4, <5>1 DEF Frame, channel_encode, encode_ev1
          <5>3. CardWants(q) = "plain"
            BY <2>4, <5>1 DEF CardWants
          <5> QED BY <5>2, <5>3 DEF CardAccepts
        <4>2. d.s = X
          BY <3>4, <3>9, <4>1 DEF decode_ev1, Result, Copied
        <4>3. CardAnswered(q, f) \in {X, Chained(X, "cipher")}
          BY <2>1, <2>4, <3>3, <3>5, <3>9 DEF CardAnswered
        <4> QED BY <2>1, <3>6, <4>2, <4>3
      <3> QED BY <3>7, <3>8, <3>9
    <2>5. CASE card.chan = "EV2"
      <3>1. C = Counted(card) /\ CardExecuted(q, f) = Counted(card) /\ C.chan = "EV2"
        BY <1>3, <2>5 DEF Encoded, CardExecuted
      <3> HIDE DEF C, A
      <3>2. d = decode_ev2(C, q, A)
        BY <1>6, <3>1 DEF channel_decode
      <3>3. d.s = C
        BY <3>1, <3>2 DEF decode_ev2, Result, Copied
      <3> QED BY <2>1, <2>5, <3>1, <3>3 DEF CardAnswered, Near
    <2>6. CASE card.chan = "LRP"
      <3>1. f.form = encode_ev2(q)
        BY <2>6 DEF Frame, channel_encode
      <3>2. C = CardExecuted(q, f)
        BY <2>6, <3>1 DEF Encoded, CardExecuted
      <3>3. C.chan = "LRP"
        BY <1>1, <2>6, <3>2, CardExecutedType DEF SameSession
      <3> HIDE DEF C, A
      <3>4. d = decode_ev2(C, q, A)
        BY <1>6, <3>3 DEF channel_decode
      <3>5. AnswerForm(q) = q.rx
        BY <1>9, <2>1, <2>6 DEF AnswerForm
      <3>6. CASE q.rx # "enc"
        <4>1. q.rx \in {"plain", "mac"}
          BY <3>6, RequestShape
        <4>2. d.s = C
          BY <3>4, <4>1 DEF decode_ev2, Result, Copied
        <4> QED BY <2>1, <2>6, <3>2, <3>5, <3>6, <4>2 DEF CardAnswered, Near
      <3>7. CASE q.rx = "enc"
        <4>1. A.form = "enc" /\ A.by = C
          BY <1>5, <3>2, <3>5, <3>7
        <4>2. A.wire = padded_len(n + 1, 16) + 8
          BY <1>5, <2>6, <4>1 DEF A, Answer, Checksum, cipher_block, mac_length
        <4>3. padded_len(n + 1, 16) >= 16
          BY <1>4, PaddedFillsBlock
        <4>4. padded_len(n + 1, 16) \in Int
          BY <1>4 DEF padded_len
        <4>5. A.wire - mac_length("EV2") >= 16
          BY <4>2, <4>3, <4>4 DEF mac_length
        <4>6. MacVerifies(A, C)
          BY <3>3, <4>1 DEF MacVerifies
        <4>7. A.wire - mac_length("EV2") \in Int
          BY <4>2, <4>4 DEF mac_length
        <4>8. ~(A.wire - mac_length("EV2") < 0) /\ ~(A.wire - mac_length("EV2") < 16)
          BY <4>5, <4>7
        <4>9. d.s = Chained(C, "block")
          BY <3>3, <3>4, <3>7, <4>6, <4>8 DEF decode_ev2, Result
        <4> QED BY <2>1, <2>6, <3>2, <3>5, <3>7, <4>9 DEF CardAnswered, Near
      <3> QED BY <3>6, <3>7
    <2> QED BY <2>2, <2>3, <2>4, <2>5, <2>6
  <1> QED BY <1>7, <1>8, <1>9

\* Two sides that are near each other stay so: where their IVs differ, the mark that
\* says so is never lost.
LEMMA NearStays ==
    ASSUME IInv, Near(reader, card), NEW c \in Api, NEW n \in c.ans,
           NEW q, q = Request(c), NEW f, f = Frame(q), CardAccepts(q, f),
           NEW d, d = channel_decode(Counted(Encoded(reader, q)), q, Answer(q, f, n))
    PROVE  Near(Kept(c, d.s), CardAnswered(q, f))
  <1>1. CASE reader = card
    BY <1>1, InSyncStays
  <1>2. CASE reader # card
    <2>1. /\ reader \in Sessions /\ card \in Sessions
          /\ WellFormed(reader) /\ WellFormed(card)
      BY DEF IInv, TypeOK
    <2>2. /\ reader.chan = "EV1" /\ card.chan = "EV1" /\ reader.key_no = card.key_no
          /\ reader.kt = card.kt /\ reader.key = card.key /\ reader.ti = card.ti
          /\ Marked(reader) \/ Marked(card)
      BY <1>2, <2>1, NearSessions
    <2>3. card # NoSession
      BY <2>2 DEF NoSession
    <2>4. CardEnds(q) <=> ends_session(c, reader)
      BY <2>2, <2>3 DEF CardEnds, ends_session, Request
    <2>5. CASE ends_session(c, reader)
      BY <2>4, <2>5 DEF Kept, CardAnswered, Near
    <2>6. CASE ~ends_session(c, reader)
      <3>1. SameSession(reader, d.s) /\ WellFormed(d.s)
        BY ReaderDecoded DEF DecodingOf
      <3>2. SameSession(card, CardAnswered(q, f)) /\ WellFormed(CardAnswered(q, f))
        BY <2>1, <2>4, <2>6, CardAnsweredType
      <3> DEFINE r == CardAnswered(q, f)
                 s == d.s
      <3>3. s \in Sessions /\ r \in Sessions /\ (Marked(s) \/ Marked(r))
        BY <2>2, <3>1, <3>2 DEF SameSession
      <3>4. s.chan = r.chan /\ s.kt = r.kt /\ s.key = r.key /\ s.ti = r.ti /\ s.key_no = r.key_no
            /\ s.chan = "EV1"
        BY <2>2, <3>1, <3>2 DEF SameSession
      <3>5. s.ctr = r.ctr
        BY <3>1, <3>2, <3>4 DEF WellFormed
      <3>6. Kept(c, s) = s
        BY <2>6 DEF Kept
      <3> HIDE DEF s, r
      <3>7. Near(s, r)
        BY <3>3, <3>4, <3>5, SessionEquality
      <3> QED BY <3>6, <3>7 DEF s, r
    <2> QED BY <2>5, <2>6
  <1> QED BY <1>1, <1>2

-----------------------------------------------------------------------------
(***************************************************************************)
(* The inductive invariant.                                                *)
(***************************************************************************)
\* The history of a call is well typed.
LEMMA LastType ==
    /\ \A rc \in Rcs : Other(rc) \in Lasts
    /\ \A c \in Api, rc \in Rcs, done \in BOOLEAN, owed \in BOOLEAN, exact \in BOOLEAN :
          /\ Exchanged(c, rc, done, owed, exact) \in Lasts
          /\ Unsent(Exchanged(c, rc, done, owed, exact)) \in Lasts
  <1>1. \A rc \in Rcs : Other(rc) \in Lasts
    BY DEF Other, Lasts
  <1>2. ASSUME NEW c \in Api, NEW rc \in Rcs, NEW done \in BOOLEAN, NEW owed \in BOOLEAN,
               NEW exact \in BOOLEAN
        PROVE  /\ Exchanged(c, rc, done, owed, exact) \in Lasts
               /\ Unsent(Exchanged(c, rc, done, owed, exact)) \in Lasts
    <2> DEFINE form == Frame(Request(c)).form
               form_ok == form = CardWants(Request(c))
               needs == c.tx # "plain"
               checked == Request(c).rx # "plain"
               x == Exchanged(c, rc, done, owed, exact)
    <2>1. form \in {"plain", "mac", "enc"}
      BY FormType DEF Frame
    <2>2. form_ok \in BOOLEAN /\ needs \in BOOLEAN /\ checked \in BOOLEAN /\ c.when \in Whens
      BY ApiAssumption
    <2>3. x = [when |-> c.when, rc |-> rc, sent |-> form, form_ok |-> form_ok,
               needs |-> needs, checked |-> checked,
               done |-> done, owed |-> owed, exact |-> exact]
      BY DEF Exchanged
    <2> HIDE DEF form, form_ok, needs, checked, x
    <2>4. x \in Lasts
      BY <2>1, <2>2, <2>3 DEF Lasts
    <2>5. Unsent(x) \in Lasts
      BY <2>4 DEF Unsent, Lasts
    <2> QED BY <2>4, <2>5 DEF x
  <1> QED BY <1>1, <1>2

\* A step in which each side keeps its session or loses it keeps the sessions
\* well formed and of the same origin.
LEMMA KinStep ==
    ASSUME IInv, Kin(reader, reader'), Kin(card, card')
    PROVE  /\ reader' \in Sessions /\ card' \in Sessions
           /\ WellFormed(reader)' /\ WellFormed(card)' /\ SameOrigin'
           /\ reader.chan = "AUTO" => reader'.chan = "AUTO"
  <1>1. NoSession \in Sessions /\ WellFormed(NoSession) /\ NoSession.key \notin Keys
        /\ NoSession.chan = "AUTO"
    BY NoSessionType DEF NoSession
  <1>2. reader' \in Sessions /\ card' \in Sessions
    BY <1>1 DEF Kin, SameSession
  <1>3. WellFormed(reader') /\ WellFormed(card')
    BY <1>1 DEF Kin
  <1>4. SameOrigin'
    BY <1>1 DEF Kin, SameSession, IInv, SameOrigin
  <1>5. reader.chan = "AUTO" => reader'.chan = "AUTO"
    BY <1>1 DEF Kin, SameSession
  <1> QED BY <1>2, <1>3, <1>4, <1>5 DEF WellFormed

\* A side that keeps its session, and one that loses it.
LEMMA KinRefl == IInv => Kin(reader, reader) /\ Kin(card, card)
  BY DEF IInv, TypeOK, Kin, SameSession

\* What the reader has after an exchange.
LEMMA KeptKin ==
    ASSUME NEW c, NEW s, Kin(reader, s)
    PROVE  Kin(reader, Kept(c, s))
  BY DEF Kept, Kin

\* TypeOK without the sessions
FlagsOK ==
    /\ session_lost \in BOOLEAN /\ iso_chaining \in BOOLEAN /\ dead \in BOOLEAN
    /\ selected_aid \in Aids /\ card_aid \in Aids
    /\ apart \in BOOLEAN /\ card_dropped \in BOOLEAN /\ aid_known \in BOOLEAN
    /\ last \in Lasts
    /\ session_lost => ~authenticated

\* The shape of the steps below: each side keeps or loses its session, and the
\* flags and the agreement are looked at one by one.
LEMMA StepOfKin ==
    ASSUME IInv, Kin(reader, reader'), Kin(card, card'), FlagsOK', Agreement'
    PROVE  IInv'
  BY KinStep DEF IInv, TypeOK, FlagsOK

\* A call that is refused changes no session.
LEMMA CallRefusedStep == ASSUME IInv, NEW c \in Api, CallRefused(c) PROVE IInv'
  <1>1. last' \in Lasts
    BY LastType DEF CallRefused, Rcs
  <1>2. FlagsOK'
    BY <1>1 DEF CallRefused, IInv, TypeOK, FlagsOK, authenticated, sessions, aids
  <1>3. Agreement' /\ reader' = reader /\ card' = card
    BY DEF CallRefused, IInv, Agreement, sessions
  <1> QED BY <1>2, <1>3, KinRefl, StepOfKin

\* Where the reader's session goes before the answer is decoded.
LEMMA EncodedKin ==
    ASSUME IInv, NEW q
    PROVE  Kin(reader, Encoded(reader, q))
  BY EncodedType DEF IInv, TypeOK, Kin

\* A request or an answer lost on the way in nxpsc_raw_exchange().
LEMMA CallLostStep == ASSUME IInv, NEW c \in Api, CallLost(c) PROVE IInv'
  <1>1. Kin(reader, reader')
    BY EncodedKin, KeptKin DEF CallLost
  <1>2. Kin(card, card')
    <2>1. Kin(card, card) /\ Kin(card, NoSession)
      BY KinRefl DEF Kin
    <2>2. Kin(card, CardAnswered(Request(c), Frame(Request(c))))
      BY CardAnsweredType DEF IInv, TypeOK
    <2> QED BY <2>1, <2>2 DEF CallLost
  <1>3. last' \in Lasts
    BY LastType DEF CallLost, Rcs
  <1>4. FlagsOK'
    BY <1>1, <1>2, <1>3, KinStep DEF CallLost, IInv, TypeOK, FlagsOK, authenticated, aids
  <1>5. Agreement'
    BY DEF CallLost, Agreement
  <1> QED BY <1>1, <1>2, <1>4, <1>5, StepOfKin

\* An error status between the frames of a chained request.
LEMMA CallCutShortStep == ASSUME IInv, NEW c \in Api, CallCutShort(c) PROVE IInv'
  <1>1. Kin(reader, reader')
    BY EncodedKin, KeptKin DEF CallCutShort
  <1>2. Kin(card, card')
    BY DEF CallCutShort, Kin
  <1>3. last' \in Lasts
    BY LastType DEF CallCutShort, Rcs
  <1>4. FlagsOK'
    BY <1>1, <1>2, <1>3, KinStep DEF CallCutShort, IInv, TypeOK, FlagsOK, authenticated, aids
  <1>5. Agreement'
    BY DEF CallCutShort, Agreement
  <1> QED BY <1>1, <1>2, <1>4, <1>5, StepOfKin

\* An error status at the end: nxpsc_exchange() resets the channel.
LEMMA CallRejectedStep == ASSUME IInv, NEW c \in Api, CallRejected(c) PROVE IInv'
  <1>1. reader' = NoSession /\ card' = NoSession
    BY DEF CallRejected
  <1>2. Kin(reader, reader') /\ Kin(card, card')
    BY <1>1 DEF Kin
  <1>3. last' \in Lasts
    BY LastType DEF CallRejected, Rcs
  <1>4. FlagsOK'
    <2>1. ~authenticated'
      BY <1>1 DEF authenticated, NoSession
    <2>2. session_lost' \in BOOLEAN /\ card_dropped' \in BOOLEAN
      BY DEF CallRejected
    <2> QED BY <1>3, <2>1, <2>2 DEF CallRejected, IInv, TypeOK, FlagsOK, aids
  <1>5. Agreement'
    BY <1>1 DEF Agreement, Near
  <1> QED BY <1>2, <1>4, <1>5, StepOfKin

\* The outcome of a call that was answered, for a payload that fits the caller's buffer
\* or does not.
LEMMA DeliveredType ==
    ASSUME NEW d, d.rc \in Rcs, d.exact \in BOOLEAN, NEW a, NEW fits \in BOOLEAN
    PROVE  /\ Delivered(d, fits) \in Rcs /\ Owed(a, fits) \in BOOLEAN
           /\ (d.exact /\ fits) \in BOOLEAN
           /\ Delivered(d, fits) = "OK" => d.rc = "OK"
           /\ Owed(a, fits) => fits /\ Delivered(d, fits) = d.rc
  BY DEF Delivered, Owed, Rcs

\* A command carried out and answered; here the two sides may come to agree again.
LEMMA CallDoneStep == ASSUME IInv, NEW c \in Api, CallDone(c) PROVE IInv'
  <1> DEFINE q == Request(c)
             f == Frame(q)
             E == Encoded(reader, q)
             C == Counted(E)
  <1>1. PICK n \in c.ans, fits \in BOOLEAN :
          LET d == channel_decode(C, q, Answer(q, f, n))
          IN  /\ reader' = Kept(c, d.s)
              /\ apart' = (apart /\ ~(d.verified /\ ~ends_session(c, reader)))
              /\ last' = Exchanged(c, Delivered(d, fits), TRUE, Owed(Answer(q, f, n), fits),
                                   d.exact /\ fits)
    BY DEF CallDone
  <1> DEFINE d == channel_decode(C, q, Answer(q, f, n))
             owed == Owed(Answer(q, f, n), fits)
             rc == Delivered(d, fits)
  <1>2. /\ reader' = Kept(c, d.s)
        /\ apart' = (apart /\ ~(d.verified /\ ~ends_session(c, reader)))
        /\ last' = Exchanged(c, rc, TRUE, owed, d.exact /\ fits)
    BY <1>1
  <1>3. CardAccepts(q, f) /\ card' = CardAnswered(q, f)
    BY DEF CallDone
  <1>4. DecodingOf(reader, d)
    BY ReaderDecoded
  <1>5. /\ d.verified => Near(d.s, CardAnswered(q, f))
        /\ Near(reader, card) => Near(Kept(c, d.s), CardAnswered(q, f))
    BY <1>3, VerifiedAgrees, NearStays
  <1>6. rc \in Rcs /\ owed \in BOOLEAN /\ (d.exact /\ fits) \in BOOLEAN
    <2> HIDE DEF d
    <2> QED BY <1>4, DeliveredType DEF DecodingOf
  <1> HIDE DEF q, f, E, C, d, owed, rc
  <1>7. Kin(reader, d.s)
    BY <1>4 DEF Kin, DecodingOf
  <1>8. Kin(reader, reader')
    BY <1>2, <1>7, KeptKin
  <1>9. Kin(card, card')
    BY <1>3, CardAnsweredType DEF IInv, TypeOK
  <1>10. last' \in Lasts
    BY <1>2, <1>6, LastType
  <1>11. FlagsOK'
    BY <1>2, <1>4, <1>8, <1>9, <1>10, KinStep
    DEF CallDone, IInv, TypeOK, FlagsOK, authenticated, aids, DecodingOf
  <1>12. Agreement'
    <2> SUFFICES ASSUME ~apart' PROVE Near(reader', card')
      BY DEF Agreement, Near, Marked
    <2>1. CASE apart
      <3>1. d.verified /\ ~ends_session(c, reader)
        BY <1>2, <2>1
      <3> QED BY <1>2, <1>3, <1>5, <3>1 DEF Kept
    <2>2. CASE ~apart
      BY <1>2, <1>3, <1>5, <2>2 DEF IInv, Agreement
    <2> QED BY <2>1, <2>2
  <1> QED BY <1>8, <1>9, <1>11, <1>12, StepOfKin

\* pick_channel() picks a channel there is.
LEMMA ChosenType == \A ch \in Channels : \A kt : Chosen(ch, kt) \in Chans
  BY DEF Chosen, pick_channel, Chans

\* A first authentication opens a session, keyed with the key it drew.
LEMMA EstablishedType ==
    ASSUME NEW ch \in Chans, NEW k \in Keys, NEW kn \in KeyNos, NEW kt \in KeyTypes,
           ch \in {"EV2", "LRP"} => kt = "AES128"
    PROVE  /\ Established(ch, k, kn, kt) \in Sessions /\ WellFormed(Established(ch, k, kn, kt))
           /\ Established(ch, k, kn, kt).key = k
  <1> DEFINE iv == IF ch = "LRP" THEN <<"block">> ELSE << >>
             ti == IF ch \in {"EV2", "LRP"} THEN k ELSE NoKey
             s == Established(ch, k, kn, kt)
  <1>1. iv \in Seq(IvItems)
    <2>1. << >> \in Seq(IvItems) /\ <<"block">> \in Seq(IvItems)
      BY DEF IvItems
    <2> QED BY <2>1
  <1>2. \A i \in DOMAIN iv : iv[i] \notin OneSided
    BY DEF OneSided
  <1>3. s = [chan |-> ch, kt |-> kt, key |-> k, ti |-> ti, ctr |-> 0, iv |-> iv, key_no |-> kn]
    BY DEF Established
  <1>4. ch \in {"D40", "EV1"} => ti = NoKey
    OBVIOUS
  <1>5. ch \in {"D40", "EV2"} => iv = << >>
    OBVIOUS
  <1>6. ti \in Keys \cup {NoKey}
    OBVIOUS
  <1> HIDE DEF iv, ti, s
  <1>7. ~Marked(s)
    BY <1>2, <1>3 DEF Marked
  <1>8. s \in Sessions
    BY <1>1, <1>3, <1>6 DEF Sessions
  <1>9. s.chan # "AUTO" /\ s.key = k
    BY <1>3 DEF Chans
  <1>10. WellFormed(s)
    BY <1>3, <1>4, <1>5, <1>7, <1>9 DEF WellFormed
  <1> QED BY <1>8, <1>9, <1>10 DEF s

\* A zero IV has no mark.
LEMMA EmptyUnmarked ==
    ASSUME NEW s \in Sessions, WellFormed(s)
    PROVE  LET t == [s EXCEPT !.iv = << >>]
           IN  /\ t \in Sessions /\ ~Marked(t)
               /\ t.chan = s.chan /\ t.kt = s.kt /\ t.key = s.key /\ t.ti = s.ti
               /\ t.ctr = s.ctr /\ t.key_no = s.key_no /\ t.iv = << >>
  <1> DEFINE t == [s EXCEPT !.iv = << >>]
  <1>1. << >> \in Seq(IvItems)
    BY DEF IvItems
  <1>2. /\ t \in Sessions
        /\ t.chan = s.chan /\ t.kt = s.kt /\ t.key = s.key /\ t.ti = s.ti
        /\ t.ctr = s.ctr /\ t.key_no = s.key_no /\ t.iv = << >>
    BY <1>1 DEF Sessions
  <1> HIDE DEF t
  <1>3. ~Marked(t)
    BY <1>2 DEF Marked
  <1> QED BY <1>2, <1>3 DEF t

\* A non-first authentication replaces the key of the session.
LEMMA RekeyedType ==
    ASSUME NEW s \in Sessions, WellFormed(s), s.chan \in {"EV2", "LRP"},
           NEW k \in Keys, NEW kn \in KeyNos
    PROVE  /\ Rekeyed(s, k, kn) \in Sessions /\ WellFormed(Rekeyed(s, k, kn))
           /\ Rekeyed(s, k, kn).key = k /\ Rekeyed(s, k, kn).chan = s.chan
           /\ Rekeyed(s, k, kn).key_no = kn /\ Rekeyed(s, k, kn).kt = s.kt
  <1> DEFINE r == [s EXCEPT !.key = k, !.key_no = kn]
             t == [r EXCEPT !.iv = << >>]
  <1>1. /\ r \in Sessions /\ r.chan = s.chan /\ r.kt = s.kt /\ r.key = k /\ r.key_no = kn
        /\ r.ti = s.ti /\ r.ctr = s.ctr /\ r.iv = s.iv
    BY DEF Sessions
  <1>2. WellFormed(r)
    BY <1>1 DEF WellFormed, Marked
  <1>3. Rekeyed(s, k, kn) = t
    BY DEF Rekeyed
  <1> HIDE DEF r
  <1>4. /\ t \in Sessions /\ ~Marked(t) /\ t.iv = << >>
        /\ t.chan = s.chan /\ t.kt = s.kt /\ t.key = k /\ t.key_no = kn
    BY <1>1, <1>2, EmptyUnmarked
  <1> HIDE DEF t
  <1>5. WellFormed(t)
    BY <1>4 DEF WellFormed
  <1> QED BY <1>3, <1>4, <1>5

\* Both sides lose their sessions.
LEMMA BothClosed ==
    ASSUME IInv, reader' = NoSession, card' = NoSession, FlagsOK'
    PROVE  IInv'
  <1>1. Kin(reader, reader') /\ Kin(card, card') /\ Agreement'
    BY DEF Kin, Agreement, Near
  <1> QED BY <1>1, StepOfKin

\* Two near sides, one of them closed, are both closed.
LEMMA ClosedTogether ==
    ASSUME IInv, ~apart
    PROVE  /\ reader.chan = "AUTO" \/ card.chan = "AUTO" =>
                reader = NoSession /\ card = NoSession
           /\ reader.chan # "EV1" => reader = card
  <1>1. Near(reader, card) /\ reader \in Sessions /\ card \in Sessions
        /\ WellFormed(reader) /\ WellFormed(card)
    BY DEF IInv, TypeOK, Agreement
  <1>2. reader.chan = card.chan /\ (reader.chan # "EV1" => reader = card)
    BY <1>1, NearSessions
  <1> QED BY <1>1, <1>2 DEF WellFormed

\* What nxpsc_reset_channel() leaves.
LEMMA ClosedReader == NoSession.chan = "AUTO" /\ NoSession.key = NoKey
  BY DEF NoSession

\* auth_legacy(), auth_ev2() and auth_lrp() to the end.
LEMMA AuthenticateStep ==
    ASSUME IInv, NEW ch \in Channels, NEW kn \in KeyNos, NEW kt \in KeyTypes,
           Authenticate(ch, kn, kt)
    PROVE  IInv'
  <1>1. PICK k \in Keys : reader' = Established(Chosen(ch, kt), k, kn, kt)
    BY DEF Authenticate, FreshKeys, FreshSessions
  <1>2. reader' \in Sessions /\ WellFormed(reader') /\ card' = reader'
    BY <1>1, ChosenType, EstablishedType DEF Authenticate, Unsupported
  <1>3. last' \in Lasts
    BY LastType DEF Authenticate, Rcs
  <1>4. TypeOK'
    BY <1>2, <1>3 DEF Authenticate, AuthStart, aids, IInv, TypeOK
  <1>5. WellFormed(reader)' /\ WellFormed(card)' /\ SameOrigin' /\ Agreement'
    BY <1>2 DEF WellFormed, Marked, SameOrigin, Agreement, Near
  <1> QED BY <1>4, <1>5 DEF IInv

\* An authentication that breaks off.
LEMMA AuthLostStep ==
    ASSUME IInv, NEW ch \in Channels, NEW kn \in KeyNos, NEW kt \in KeyTypes,
           AuthLost(ch, kn, kt)
    PROVE  IInv'
  <1>1. reader' = NoSession /\ NoSession \in Sessions /\ WellFormed(NoSession)
    BY NoSessionType DEF AuthLost
  <1>2. card' \in Sessions /\ WellFormed(card')
    <2>1. ASSUME NEW k \in Keys
          PROVE  /\ Established(Chosen(ch, kt), k, kn, kt) \in Sessions
                 /\ WellFormed(Established(Chosen(ch, kt), k, kn, kt))
      BY ChosenType, EstablishedType DEF AuthLost, Unsupported
    <2> QED BY <1>1, <2>1 DEF AuthLost, FreshKeys, FreshSessions, IInv, TypeOK
  <1>3. last' \in Lasts
    BY LastType DEF AuthLost, Rcs
  <1>4. TypeOK'
    BY <1>1, <1>2, <1>3 DEF AuthLost, AuthStart, aids, IInv, TypeOK
  <1>5. WellFormed(reader)' /\ WellFormed(card)' /\ SameOrigin' /\ Agreement'
    BY <1>1, <1>2, ClosedReader DEF AuthLost, WellFormed, Marked, SameOrigin, Agreement
  <1> QED BY <1>4, <1>5 DEF IInv

\* nxpsc_authenticate_nonfirst() to the end.
LEMMA AuthenticateNonFirstStep ==
    ASSUME IInv, NEW kn \in KeyNos, AuthenticateNonFirst(kn)
    PROVE  IInv'
  <1>1. PICK k \in Keys : reader' = Rekeyed(reader, k, kn) /\ card' = Rekeyed(card, k, kn)
    BY DEF AuthenticateNonFirst, FreshKeys
  <1>2. reader.chan \in {"EV2", "LRP"} /\ card.chan = reader.chan
    BY DEF AuthenticateNonFirst, NonFirst
  <1>3. /\ reader' \in Sessions /\ WellFormed(reader') /\ card' \in Sessions /\ WellFormed(card')
        /\ reader'.chan = reader.chan /\ card'.chan = card.chan
        /\ reader'.key_no = kn /\ card'.key_no = kn
        /\ reader'.key = k /\ reader'.kt = reader.kt /\ card'.kt = card.kt
    BY <1>1, <1>2, RekeyedType DEF IInv, TypeOK
  <1>4. last' \in Lasts
    BY LastType DEF AuthenticateNonFirst, Rcs
  <1>5. TypeOK'
    BY <1>3, <1>4 DEF AuthenticateNonFirst, NonFirst, authenticated, aids, IInv, TypeOK
  <1>6. WellFormed(reader)' /\ WellFormed(card)' /\ SameOrigin'
    <2>1. WellFormed(reader)' /\ WellFormed(card)'
      BY <1>3 DEF WellFormed, Marked
    <2>2. reader'.kt = "AES128" /\ card'.kt = "AES128"
      BY <1>2, <1>3 DEF WellFormed
    <2> QED BY <1>2, <1>3, <2>1, <2>2 DEF SameOrigin
  <1>7. Agreement'
    <2>1. ~apart => reader = card
      BY <1>2, ClosedTogether
    <2> QED BY <1>1, <2>1 DEF AuthenticateNonFirst, Agreement, Near
  <1> QED BY <1>5, <1>6, <1>7 DEF IInv

\* A non-first authentication that breaks off.
LEMMA NonFirstLostStep ==
    ASSUME IInv, NEW kn \in KeyNos, NonFirstLost(kn)
    PROVE  IInv'
  <1>1. reader' = reader \/ (reader.chan = "LRP" /\ reader' = [reader EXCEPT !.iv = << >>])
    BY DEF NonFirstLost
  <1>2. /\ reader' \in Sessions /\ WellFormed(reader')
        /\ reader'.chan = reader.chan /\ reader'.key = reader.key
        /\ reader'.key_no = reader.key_no /\ reader'.kt = reader.kt
    <2>1. reader \in Sessions /\ WellFormed(reader)
      BY DEF IInv, TypeOK
    <2>2. CASE reader' = reader
      BY <2>1, <2>2
    <2>3. CASE reader.chan = "LRP" /\ reader' = [reader EXCEPT !.iv = << >>]
      <3> DEFINE t == [reader EXCEPT !.iv = << >>]
      <3>1. /\ t \in Sessions /\ ~Marked(t) /\ t.iv = << >> /\ t.chan = "LRP"
            /\ t.kt = reader.kt /\ t.key = reader.key /\ t.key_no = reader.key_no
        BY <2>1, <2>3, EmptyUnmarked
      <3>2. reader' = t
        BY <2>3
      <3> HIDE DEF t
      <3>3. WellFormed(t)
        BY <2>1, <2>3, <3>1 DEF WellFormed
      <3> QED BY <2>3, <3>1, <3>2, <3>3
    <2> QED BY <1>1, <2>2, <2>3
  <1>3. CASE card' = card
    <2>1. last' \in Lasts
      BY LastType DEF NonFirstLost, Rcs
    <2>2. TypeOK'
      BY <1>2, <1>3, <2>1 DEF NonFirstLost, authenticated, aids, IInv, TypeOK
    <2>3. WellFormed(reader)' /\ WellFormed(card)'
      BY <1>2, <1>3 DEF IInv, WellFormed, Marked
    <2>4. SameOrigin'
      BY <1>2, <1>3 DEF IInv, SameOrigin
    <2> QED BY <2>2, <2>3, <2>4 DEF NonFirstLost, IInv, Agreement
  <1>4. CASE card' = NoSession
    <2>1. last' \in Lasts
      BY LastType DEF NonFirstLost, Rcs
    <2>2. TypeOK'
      BY <1>2, <1>4, <2>1, NoSessionType DEF NonFirstLost, authenticated, aids, IInv, TypeOK
    <2>3. WellFormed(card)' /\ SameOrigin'
      BY <1>2, <1>4, NoSessionType, ClosedReader DEF WellFormed, SameOrigin
    <2> QED BY <1>2, <2>2, <2>3 DEF NonFirstLost, IInv, WellFormed, Agreement
  <1>5. CASE \E k \in FreshKeys : card' = Rekeyed(card, k, kn) /\ card.chan = reader.chan
    <2>1. PICK k \in FreshKeys : card' = Rekeyed(card, k, kn) /\ card.chan = reader.chan
      BY <1>5
    <2>2. k \in Keys /\ k # reader.key
      BY DEF FreshKeys
    <2>3. card' \in Sessions /\ WellFormed(card') /\ card'.key = k
      BY <2>1, <2>2, RekeyedType DEF NonFirstLost, NonFirst, IInv, TypeOK
    <2>4. last' \in Lasts
      BY LastType DEF NonFirstLost, Rcs
    <2>5. TypeOK'
      BY <1>2, <2>3, <2>4 DEF NonFirstLost, authenticated, aids, IInv, TypeOK
    <2>6. SameOrigin'
      BY <1>2, <2>2, <2>3 DEF SameOrigin
    <2> QED BY <1>2, <2>3, <2>5, <2>6 DEF NonFirstLost, IInv, WellFormed, Agreement
  <1> QED BY <1>3, <1>4, <1>5 DEF NonFirstLost

\* The other authentications: refused, before or by the card.
LEMMA AuthenticationStep == ASSUME IInv, Authentication PROVE IInv'
  <1> USE DEF Rcs
  <1>0. FlagsOK /\ Kin(reader, reader) /\ Kin(card, card)
        /\ Kin(reader, NoSession) /\ Kin(card, NoSession)
    BY KinRefl DEF IInv, TypeOK, FlagsOK, Kin
  <1>1. ASSUME NEW ch \in Channels, NEW kt, AuthUnsupported(ch, kt) PROVE IInv'
    <2>1. reader' = NoSession /\ card' = card /\ apart' = Abandoned
      BY <1>1 DEF AuthUnsupported
    <2>2. FlagsOK'
      BY <1>0, <1>1, <2>1, LastType, ClosedReader
      DEF AuthUnsupported, AuthStart, aids, FlagsOK, Abandoned, authenticated
    <2>3. Agreement'
      BY <2>1 DEF Abandoned, authenticated, IInv, Agreement, WellFormed
    <2> QED BY <1>0, <2>1, <2>2, <2>3, StepOfKin
  <1>2. ASSUME NEW ch \in Channels, NEW kt, AuthRefused(ch, kt) PROVE IInv'
    <2>1. FlagsOK'
      BY <1>0, <1>2, LastType, ClosedReader DEF AuthRefused, AuthStart, aids, FlagsOK, authenticated
    <2> QED BY <1>2, <2>1, BothClosed DEF AuthRefused
  <1>3. ASSUME NonFirstRefusedLocally PROVE IInv'
    <2>1. FlagsOK'
      BY <1>0, <1>3, LastType
      DEF NonFirstRefusedLocally, aids, sessions, FlagsOK, authenticated
    <2> QED BY <1>0, <1>3, <2>1, StepOfKin DEF NonFirstRefusedLocally, sessions, IInv, Agreement
  <1>4. ASSUME NonFirstRefused PROVE IInv'
    <2>1. FlagsOK'
      BY <1>0, <1>4, LastType DEF NonFirstRefused, aids, FlagsOK, authenticated
    <2> QED BY <1>0, <1>4, <2>1, StepOfKin DEF NonFirstRefused, Agreement
  <1> QED BY <1>1, <1>2, <1>3, <1>4, AuthenticateStep, AuthLostStep,
             AuthenticateNonFirstStep, NonFirstLostStep DEF Authentication

\* Selecting, by native command, by ISO command and on an NTAG 424 DNA.
LEMMA SelectionStep == ASSUME IInv, Selection PROVE IInv'
  <1> USE DEF Rcs
  <1>0. FlagsOK /\ Kin(reader, reader) /\ Kin(card, card)
        /\ Kin(reader, NoSession) /\ Kin(card, NoSession)
    BY KinRefl DEF IInv, TypeOK, FlagsOK, Kin
  <1>1. ASSUME NEW aid \in Aids, SelectDone(aid) PROVE IInv'
    <2>1. FlagsOK'
      BY <1>0, <1>1, LastType, ClosedReader DEF SelectDone, SelectStart, FlagsOK, authenticated
    <2> QED BY <1>1, <2>1, BothClosed DEF SelectDone, SelectStart
  <1>2. ASSUME NEW aid \in Aids, SelectRejected(aid) PROVE IInv'
    <2>1. FlagsOK'
      BY <1>0, <1>2, LastType, ClosedReader
      DEF SelectRejected, SelectStart, aids, FlagsOK, authenticated
    <2> QED BY <1>2, <2>1, BothClosed DEF SelectRejected, SelectStart
  <1>3. ASSUME NEW aid \in Aids, SelectLost(aid) PROVE IInv'
    <2>1. FlagsOK'
      BY <1>0, <1>3, LastType, ClosedReader DEF SelectLost, SelectStart, FlagsOK, authenticated
    <2>2. Kin(reader, reader') /\ Kin(card, card')
      BY <1>0, <1>3 DEF SelectLost, SelectStart
    <2> QED BY <1>3, <2>1, <2>2, StepOfKin DEF SelectLost, Agreement
  <1>4. ASSUME NEW rc \in {"OK", "CARD", "TRANSPORT"}, IsoExchange(rc) PROVE IInv'
    <2>1. FlagsOK'
      BY <1>0, <1>4, LastType DEF IsoExchange, FlagsOK, authenticated
    <2>2. Kin(reader, reader') /\ Kin(card, card')
      BY <1>0, <1>4 DEF IsoExchange
    <2> QED BY <1>4, <2>1, <2>2, StepOfKin DEF IsoExchange, Agreement
  <1>5. ASSUME ntag424_select PROVE IInv'
    <2>1. FlagsOK'
      <3>1. last' \in Lasts
        BY <1>5, LastType DEF ntag424_select
      <3>2. session_lost' => ~authenticated'
        BY <1>0, <1>5 DEF ntag424_select, FlagsOK, authenticated
      <3> QED BY <1>0, <1>5, <3>1, <3>2, ConstantsAssumption DEF ntag424_select, FlagsOK
    <2>2. CASE reader' = NoSession /\ card' = NoSession
      BY <2>1, <2>2, BothClosed
    <2>3. CASE apart' = TRUE /\ reader' = reader /\ (card' = card \/ card' = NoSession)
      BY <1>0, <2>1, <2>3, StepOfKin DEF Agreement
    <2> QED BY <1>5, <2>2, <2>3 DEF ntag424_select
  <1> QED BY <1>1, <1>2, <1>3, <1>4, <1>5 DEF Selection

\* The calls around nxpsc_exchange(), and the field.
LEMMA LocalStep == ASSUME IInv, Local PROVE IInv'
  <1> USE DEF Rcs
  <1>0. FlagsOK /\ Kin(reader, reader) /\ Kin(card, card)
        /\ Kin(reader, NoSession) /\ Kin(card, NoSession)
    BY KinRefl DEF IInv, TypeOK, FlagsOK, Kin
  <1>1. ASSUME ResetChannel PROVE IInv'
    <2>1. FlagsOK'
      BY <1>0, <1>1, LastType, ClosedReader
      DEF ResetChannel, aids, FlagsOK, Abandoned, authenticated
    <2>2. Agreement'
      BY <1>1 DEF ResetChannel, Abandoned, authenticated, IInv, Agreement, WellFormed
    <2> QED BY <1>0, <1>1, <2>1, <2>2, StepOfKin DEF ResetChannel
  <1>2. ASSUME Reopen PROVE IInv'
    <2>1. FlagsOK'
      BY <1>0, <1>2, LastType, ClosedReader, ConstantsAssumption
      DEF Reopen, FlagsOK, Abandoned, authenticated
    <2>2. Agreement'
      BY <1>2 DEF Reopen, Abandoned, authenticated, IInv, Agreement, WellFormed
    <2> QED BY <1>0, <1>2, <2>1, <2>2, StepOfKin DEF Reopen
  <1>3. ASSUME FieldLost PROVE IInv'
    <2>1. FlagsOK'
      BY <1>0, <1>3, LastType, ConstantsAssumption DEF FieldLost, FlagsOK, authenticated
    <2>2. Agreement'
      BY <1>3 DEF FieldLost, IInv, Agreement
    <2> QED BY <1>0, <1>3, <2>1, <2>2, StepOfKin DEF FieldLost
  <1>4. ASSUME GetDfNamesRefused PROVE IInv'
    <2>1. FlagsOK'
      BY <1>0, <1>4, LastType DEF GetDfNamesRefused, aids, sessions, FlagsOK, authenticated
    <2> QED BY <1>0, <1>4, <2>1, StepOfKin DEF GetDfNamesRefused, sessions, IInv, Agreement
  <1>5. ASSUME GetDfNames PROVE IInv'
    <2>1. FlagsOK'
      BY <1>0, <1>5, LastType DEF GetDfNames, aids, FlagsOK, authenticated
    <2>2. ~apart => reader = NoSession /\ card = NoSession
      BY <1>5, ClosedTogether DEF GetDfNames, DfNamesAllowed, authenticated
    <2>3. Agreement'
      BY <1>5, <2>2 DEF GetDfNames, Agreement, Near
    <2>4. Kin(reader, reader') /\ Kin(card, card')
      BY <1>0, <1>5 DEF GetDfNames
    <2> QED BY <2>1, <2>3, <2>4, StepOfKin
  <1>6. ASSUME ProximityCheck PROVE IInv'
    <2>1. FlagsOK'
      <3>1. last' \in Lasts
        BY <1>6, LastType DEF ProximityCheck
      <3>2. session_lost' => ~authenticated'
        BY <1>0, <1>6 DEF ProximityCheck, sessions, FlagsOK, authenticated
      <3> QED BY <1>0, <1>6, <3>1, <3>2 DEF ProximityCheck, aids, FlagsOK
    <2>2. Kin(reader, reader') /\ Kin(card, card')
      BY <1>0, <1>6 DEF ProximityCheck, sessions
    <2>3. Agreement'
      BY <1>6 DEF ProximityCheck, Agreement, Near
    <2> QED BY <2>1, <2>2, <2>3, StepOfKin
  <1>7. ASSUME NEW enable \in Chaining, SetIsoChaining(enable) PROVE IInv'
    <2>1. FlagsOK'
      BY <1>0, <1>7, LastType, ConstantsAssumption
      DEF SetIsoChaining, aids, sessions, FlagsOK, authenticated
    <2> QED BY <1>0, <1>7, <2>1, StepOfKin DEF SetIsoChaining, sessions, IInv, Agreement
  <1> QED BY <1>1, <1>2, <1>3, <1>4, <1>5, <1>6, <1>7 DEF Local

-----------------------------------------------------------------------------
(***************************************************************************)
(* The theorems.                                                           *)
(***************************************************************************)
\* The strengthened invariant holds at first and every step keeps it: nxpsc_open()
\* starts closed, and no call of the API and nothing that happens to the card
\* breaks it.
THEOREM Inductive == Spec => []IInv
  <1>1. Init => IInv
    <2> SUFFICES ASSUME Init PROVE IInv
      OBVIOUS
    <2>1. TypeOK
      BY NoSessionType, LastType, ConstantsAssumption, ClosedReader
      DEF Init, TypeOK, Rcs, authenticated
    <2> QED BY <2>1, NoSessionType DEF Init, IInv, Agreement, Near, SameOrigin
  <1>2. IInv /\ [Next]_vars => IInv'
    <2> SUFFICES ASSUME IInv, [Next]_vars PROVE IInv'
      OBVIOUS
    <2>1. CASE Exchange
      BY <2>1, CallRefusedStep, CallLostStep, CallCutShortStep, CallRejectedStep, CallDoneStep
      DEF Exchange
    <2>2. CASE Authentication
      BY <2>2, AuthenticationStep
    <2>3. CASE Selection
      BY <2>3, SelectionStep
    <2>4. CASE Local
      BY <2>4, LocalStep
    <2>5. CASE UNCHANGED vars
      BY <2>5 DEF vars, IInv, TypeOK, Agreement, WellFormed, SameOrigin, authenticated
    <2> QED BY <2>1, <2>2, <2>3, <2>4, <2>5 DEF Next
  <1> QED BY <1>1, <1>2, PTL DEF Spec

\* Every variable keeps its type, and card->session_lost is only set while no
\* session is open.
THEOREM TypeCorrect == Spec => []TypeOK
  <1>1. IInv => TypeOK
    BY DEF IInv
  <1> QED BY <1>1, Inductive, PTL

\* Whatever calls are made, on whichever channel, the two sides hold the same
\* session unless something that may separate them has happened since they last
\* provably agreed; and a verified answer is such a proof.
THEOREM SessionsAgree == Spec => []Agreement
  <1>1. IInv => Agreement
    BY DEF IInv
  <1> QED BY <1>1, Inductive, PTL

\* nxpsc_get_df_names() disables a card only after something separated the two
\* sides: its guard on the reader's session is then as good as one on the card's.
THEOREM OnlyApartDisables == Spec => DisabledOnlyApart
  <1>1. IInv /\ [Next]_vars => [dead' # dead => apart]_vars
    <2> SUFFICES ASSUME IInv, Next, dead' # dead, ~apart PROVE FALSE
      BY DEF vars
    <2>1. reader.chan = "AUTO" => card = NoSession
      BY ClosedTogether
    <2>2. CASE GetDfNames
      <3>1. dead = FALSE /\ reader.chan = "AUTO"
        BY <2>2 DEF GetDfNames, DfNamesAllowed, authenticated, IInv, TypeOK
      <3> QED BY <2>1, <2>2, <3>1 DEF GetDfNames
    <2>3. CASE Exchange
      BY <2>3 DEF Exchange, CallRefused, CallLost, CallCutShort, CallRejected, CallDone
    <2>4. CASE Authentication
      BY <2>4 DEF Authentication, AuthStart, AuthUnsupported, AuthRefused, Authenticate,
         AuthLost, NonFirstRefusedLocally, NonFirstRefused, AuthenticateNonFirst, NonFirstLost
    <2>5. CASE Selection
      BY <2>5 DEF Selection, SelectStart, SelectDone, SelectRejected, SelectLost, IsoExchange,
         ntag424_select
    <2>6. CASE Local /\ ~GetDfNames
      BY <2>6 DEF Local, ResetChannel, Reopen, FieldLost, GetDfNamesRefused, ProximityCheck,
         SetIsoChaining
    <2> QED BY <2>2, <2>3, <2>4, <2>5, <2>6 DEF Next
  <1> QED BY <1>1, Inductive, PTL DEF Spec, DisabledOnlyApart

\* selected_aid follows the card: an acknowledged nxpsc_select_application(), a
\* refused one, a power cycle and a new nxpsc_open() all leave the two in step.
THEOREM SelectionAgrees == Spec => []AidAgreement
  <1>1. Init => AidAgreement
    BY DEF Init, AidAgreement
  <1>2. AidAgreement /\ [Next]_vars => AidAgreement'
    <2> SUFFICES ASSUME AidAgreement, [Next]_vars PROVE AidAgreement'
      OBVIOUS
    <2> USE DEF AidAgreement, aids
    <2>1. CASE Exchange
      BY <2>1 DEF Exchange, CallRefused, CallLost, CallCutShort, CallRejected, CallDone
    <2>2. CASE Authentication
      BY <2>2 DEF Authentication, AuthStart, AuthUnsupported, AuthRefused, Authenticate,
         AuthLost, NonFirstRefusedLocally, NonFirstRefused, AuthenticateNonFirst, NonFirstLost
    <2>3. CASE Selection
      <3>1. ASSUME NEW aid \in Aids, SelectDone(aid) \/ SelectRejected(aid) \/ SelectLost(aid)
            PROVE  AidAgreement'
        <4>1. CASE SelectDone(aid)
          BY <4>1 DEF SelectDone
        <4>2. CASE SelectRejected(aid)
          BY <4>2 DEF SelectRejected
        <4>3. CASE SelectLost(aid)
          BY <4>3 DEF SelectLost
        <4> QED BY <3>1, <4>1, <4>2, <4>3
      <3>2. ASSUME NEW rc, IsoExchange(rc) PROVE AidAgreement'
        BY <3>2 DEF IsoExchange
      <3>3. ASSUME ntag424_select PROVE AidAgreement'
        BY <3>3 DEF ntag424_select
      <3> QED BY <2>3, <3>1, <3>2, <3>3 DEF Selection
    <2>4. CASE Local
      <3>1. ASSUME ResetChannel \/ GetDfNamesRefused \/ GetDfNames \/ ProximityCheck
            PROVE  AidAgreement'
        BY <3>1 DEF ResetChannel, GetDfNamesRefused, GetDfNames, ProximityCheck
      <3>2. ASSUME Reopen \/ FieldLost PROVE AidAgreement'
        BY <3>2 DEF Reopen, FieldLost
      <3>3. ASSUME NEW enable, SetIsoChaining(enable) PROVE AidAgreement'
        BY <3>3 DEF SetIsoChaining
      <3> QED BY <2>4, <3>1, <3>2, <3>3 DEF Local
    <2>5. CASE UNCHANGED vars
      BY <2>5 DEF vars
    <2> QED BY <2>1, <2>2, <2>3, <2>4, <2>5 DEF Next
  <1> QED BY <1>1, <1>2, PTL DEF Spec
-----------------------------------------------------------------------------
(***************************************************************************)
(* A session the card threw away is remembered.  It holds while no call    *)
(* replaces the key of the session it runs in: those calls reset the       *)
(* channel, and session_lost with it, also when they never reached the     *)
(* card.                                                                   *)
(***************************************************************************)
NoOwnKeyCalls == \A c \in Api : c.own \notin KeyNos \cup {"always"}

\* either the reader still believes in the session the card dropped, or it knows
LossKnown == card_dropped => authenticated \/ session_lost

LEMMA EndsNone ==
    ASSUME NoOwnKeyCalls, TypeOK, NEW c \in Api
    PROVE  ~ends_session(c, reader)
  BY ApiAssumption DEF NoOwnKeyCalls, TypeOK, Sessions, ends_session

\* Short of an error status, an exchange leaves the reader its session unless the
\* call replaces the key of it.
LEMMA ExchangeKeepsChannel ==
    ASSUME IInv, NEW c \in Api,
           CallRefused(c) \/ CallLost(c) \/ CallCutShort(c) \/ CallDone(c)
    PROVE  reader'.chan = reader.chan \/ (ends_session(c, reader) /\ reader' = NoSession)
  <1> DEFINE q == Request(c)
             E == Encoded(reader, q)
  <1>1. SameSession(reader, E) /\ WellFormed(E)
    BY EncodedType DEF IInv, TypeOK
  <1>2. CASE CallRefused(c)
    BY <1>2 DEF CallRefused, sessions
  <1>3. CASE CallLost(c) \/ CallCutShort(c)
    BY <1>1, <1>3 DEF CallLost, CallCutShort, Kept, SameSession
  <1>4. CASE CallDone(c)
    <2>1. SameSession(reader, Counted(E)) /\ WellFormed(Counted(E)) /\ Counted(E) \in Sessions
      <3>1. E \in Sessions
        BY <1>1 DEF SameSession
      <3> QED BY <1>1, <3>1, CountedType DEF SameSession
    <2>2. \A x : channel_decode(Counted(E), q, x).s.chan = reader.chan
      BY <2>1, DecodedType DEF DecodingOf, SameSession
    <2> QED BY <1>4, <2>2 DEF CallDone, Kept
  <1> QED BY <1>2, <1>3, <1>4

\* An exchange leaves the reader its session, or remembers that it is gone.
LEMMA ExchangeKeepsLoss ==
    ASSUME NoOwnKeyCalls, IInv, LossKnown, Exchange
    PROVE  LossKnown'
  <1>1. PICK c \in Api :
          CallRefused(c) \/ CallLost(c) \/ CallCutShort(c) \/ CallRejected(c) \/ CallDone(c)
    BY DEF Exchange
  <1>2. ~ends_session(c, reader)
    BY EndsNone DEF IInv
  <1>3. CASE CallRejected(c)
    BY <1>2, <1>3 DEF CallRejected, LossKnown, authenticated
  <1>4. CASE CallRefused(c) \/ CallLost(c) \/ CallCutShort(c) \/ CallDone(c)
    <2>1. reader'.chan = reader.chan
      BY <1>2, <1>4, ExchangeKeepsChannel
    <2>2. session_lost' = (session_lost /\ ~ends_session(c, reader))
      BY <1>4 DEF CallRefused, CallLost, CallCutShort, CallDone
    <2>3. card_dropped' => card_dropped \/ authenticated
      BY <1>4 DEF CallRefused, CallLost, CallCutShort, CallDone
    <2> QED BY <1>2, <2>1, <2>2, <2>3 DEF LossKnown, authenticated
  <1> QED BY <1>1, <1>3, <1>4

\* Authentications, selections and the calls beside nxpsc_exchange() either forget
\* the loss together with what the card did, or touch neither.
LEMMA OthersKeepLoss ==
    ASSUME IInv, LossKnown, Authentication \/ Selection \/ Local \/ UNCHANGED vars
    PROVE  LossKnown'
  <1> USE DEF LossKnown, authenticated
  <1>1. CASE Authentication
    <2>1. ASSUME NEW ch \in Channels, NEW kt \in KeyTypes,
                 AuthUnsupported(ch, kt) \/ AuthRefused(ch, kt)
          PROVE  LossKnown'
      BY <2>1 DEF AuthUnsupported, AuthRefused, AuthStart
    <2>2. ASSUME NEW ch \in Channels, NEW kt \in KeyTypes, NEW kn \in KeyNos,
                 Authenticate(ch, kn, kt) \/ AuthLost(ch, kn, kt)
          PROVE  LossKnown'
      BY <2>2 DEF Authenticate, AuthLost, AuthStart
    <2>3. ASSUME NonFirstRefusedLocally \/ NonFirstRefused PROVE LossKnown'
      BY <2>3 DEF NonFirstRefusedLocally, NonFirstRefused, NonFirst, sessions
    <2>4. ASSUME NEW kn \in KeyNos, AuthenticateNonFirst(kn) \/ NonFirstLost(kn)
          PROVE  LossKnown'
      <3>1. reader'.chan = reader.chan
        BY <2>4 DEF AuthenticateNonFirst, NonFirstLost, Rekeyed, IInv, TypeOK, Sessions
      <3> QED BY <2>4, <3>1 DEF AuthenticateNonFirst, NonFirstLost
    <2> QED BY <1>1, <2>1, <2>2, <2>3, <2>4 DEF Authentication
  <1>2. CASE Selection
    BY <1>2 DEF Selection, SelectDone, SelectRejected, SelectLost, SelectStart, IsoExchange,
       ntag424_select
  <1>3. CASE Local
    BY <1>3 DEF Local, ResetChannel, Reopen, FieldLost, GetDfNamesRefused, GetDfNames,
       ProximityCheck, SetIsoChaining, sessions
  <1>4. CASE UNCHANGED vars
    BY <1>4 DEF vars
  <1> QED BY <1>1, <1>2, <1>3, <1>4

\* A call that asks eff() for protection, names it itself or checks for a session
\* puts nothing on the wire once the card threw the session away.
LEMMA LossRefuses ==
    ASSUME NEW c \in Api, session_lost, ~authenticated, c.tx # "plain", c.when # "eff_mode"
    PROVE  Refused(c)
  <1>1. c.when \in {"eff", "auth", "uid", "always"}
    BY ApiAssumption DEF Whens
  <1>2. CASE c.when \in {"auth", "uid"}
    BY <1>2 DEF Refused
  <1>3. CASE c.when \in {"eff", "always"}
    BY <1>3 DEF Refused, TxMode, eff
  <1> QED BY <1>1, <1>2, <1>3

\* On every channel and after any sequence of calls, errors and losses: once the
\* card has ended a session with an error status, no call that looks at session_lost
\* falls back to plain communication before the caller acts (nxpsc_exchange(), eff()).
THEOREM LossIsRemembered == ASSUME NoOwnKeyCalls PROVE Spec => NoSilentDowngrade
  <1>1. Init => LossKnown
    BY DEF Init, LossKnown
  <1>2. IInv /\ LossKnown /\ [Next]_vars => LossKnown'
    BY ExchangeKeepsLoss, OthersKeepLoss DEF Next
  <1>3. IInv /\ LossKnown /\ [Next]_vars
          => [card_dropped /\ ~authenticated /\ last'.needs /\ last'.when # "eff_mode"
                => last'.sent = "none"]_vars
    <2> SUFFICES ASSUME IInv, LossKnown, Next, card_dropped, ~authenticated,
                        last'.needs, last'.when # "eff_mode"
                 PROVE  last'.sent = "none"
      BY DEF vars
    <2>1. session_lost
      BY DEF LossKnown
    <2>2. ASSUME NEW c \in Api,
                 CallRefused(c) \/ CallLost(c) \/ CallCutShort(c) \/ CallRejected(c) \/ CallDone(c)
          PROVE  last'.sent = "none"
      <3>1. last'.when = c.when /\ last'.needs = (c.tx # "plain")
        <4>1. CASE CallRefused(c)
          <5>1. PICK rc : last' = Unsent(Exchanged(c, rc, FALSE, FALSE, TRUE))
            BY <4>1 DEF CallRefused
          <5> QED BY <5>1, Zenon DEF Exchanged, Unsent
        <4>2. CASE CallLost(c) \/ CallCutShort(c) \/ CallRejected(c) \/ CallDone(c)
          <5>1. PICK rc, done, owed, exact : last' = Exchanged(c, rc, done, owed, exact)
            BY <4>2 DEF CallLost, CallCutShort, CallRejected, CallDone
          <5> QED BY <5>1, Zenon DEF Exchanged
        <4> QED BY <2>2, <4>1, <4>2
      <3>2. Refused(c)
        BY <2>1, <3>1, LossRefuses
      <3>3. CallRefused(c)
        BY <2>2, <3>2 DEF CallLost, CallCutShort, CallRejected, CallDone
      <3>4. PICK rc : last' = Unsent(Exchanged(c, rc, FALSE, FALSE, TRUE))
        BY <3>3 DEF CallRefused
      <3> QED BY <3>4, Zenon DEF Exchanged, Unsent
    <2>3. \A rc : ~Other(rc).needs
      BY DEF Other
    <2>4. CASE Authentication
      BY <2>3, <2>4 DEF Authentication, AuthUnsupported, AuthRefused, Authenticate, AuthLost,
         NonFirstRefusedLocally, NonFirstRefused, AuthenticateNonFirst, NonFirstLost
    <2>5. CASE Selection
      BY <2>3, <2>5 DEF Selection, SelectDone, SelectRejected, SelectLost, IsoExchange,
         ntag424_select
    <2>6. CASE Local
      BY <2>3, <2>6 DEF Local, ResetChannel, Reopen, FieldLost, GetDfNamesRefused, GetDfNames,
         ProximityCheck, SetIsoChaining
    <2> QED BY <2>2, <2>4, <2>5, <2>6 DEF Next, Exchange
  <1> QED BY <1>1, <1>2, <1>3, Inductive, PTL DEF Spec, NoSilentDowngrade

-----------------------------------------------------------------------------
(***************************************************************************)
(* Which channels the reader may be on.                                    *)
(***************************************************************************)
\* nxpsc_authenticate() may open this channel
CanOpen(chan) ==
    \E ch \in Channels, kt \in KeyTypes : ~Unsupported(ch, kt) /\ Chosen(ch, kt) = chan

NeverChained == Chaining \subseteq {FALSE} /\ CardType # "NTAG424"

\* a session is one of a channel that was opened, and chained opcodes were asked for
OnOpened ==
    /\ reader.chan = "AUTO" \/ CanOpen(reader.chan)
    /\ NeverChained => ~iso_chaining

\* No call opens a channel but the authentications, and none chains but two.
LEMMA OpenedStays == ASSUME OnOpened, IInv, [Next]_vars PROVE OnOpened'
  <1>0. NoSession.chan = "AUTO"
    BY DEF NoSession
  <1>1. reader'.chan \in {"AUTO", reader.chan} \/ CanOpen(reader'.chan)
    <2>1. CASE Exchange
      BY <1>0, <2>1, ExchangeKeepsChannel DEF Exchange, CallRejected
    <2>2. CASE Authentication
      <3>1. ASSUME NEW ch \in Channels, NEW kt \in KeyTypes,
                   AuthUnsupported(ch, kt) \/ AuthRefused(ch, kt)
            PROVE  reader'.chan = "AUTO"
        BY <1>0, <3>1 DEF AuthUnsupported, AuthRefused
      <3>2. ASSUME NEW ch \in Channels, NEW kt \in KeyTypes, NEW kn \in KeyNos,
                   Authenticate(ch, kn, kt) \/ AuthLost(ch, kn, kt)
            PROVE  reader'.chan = "AUTO" \/ CanOpen(reader'.chan)
        BY <1>0, <3>2 DEF Authenticate, AuthLost, Established, CanOpen
      <3>3. ASSUME NonFirstRefusedLocally \/ NonFirstRefused PROVE reader'.chan = reader.chan
        BY <3>3 DEF NonFirstRefusedLocally, NonFirstRefused, sessions
      <3>4. ASSUME NEW kn \in KeyNos, AuthenticateNonFirst(kn) \/ NonFirstLost(kn)
            PROVE  reader'.chan = reader.chan
        BY <3>4 DEF AuthenticateNonFirst, NonFirstLost, Rekeyed, IInv, TypeOK, Sessions
      <3> QED BY <2>2, <3>1, <3>2, <3>3, <3>4 DEF Authentication
    <2>3. CASE Selection
      BY <1>0, <2>3 DEF Selection, SelectDone, SelectRejected, SelectLost, SelectStart,
         IsoExchange, ntag424_select
    <2>4. CASE Local
      BY <1>0, <2>4 DEF Local, ResetChannel, Reopen, FieldLost, GetDfNamesRefused, GetDfNames,
         ProximityCheck, SetIsoChaining, sessions
    <2>5. CASE UNCHANGED vars
      BY <2>5 DEF vars
    <2> QED BY <2>1, <2>2, <2>3, <2>4, <2>5 DEF Next
  <1>2. ASSUME NeverChained PROVE iso_chaining' \in {iso_chaining, FALSE}
    <2>1. CASE Exchange
      BY <2>1 DEF Exchange, CallRefused, CallLost, CallCutShort, CallRejected, CallDone
    <2>2. CASE Authentication
      BY <2>2 DEF Authentication, AuthUnsupported, AuthRefused, Authenticate, AuthLost, AuthStart,
         NonFirstRefusedLocally, NonFirstRefused, AuthenticateNonFirst, NonFirstLost
    <2>3. CASE Selection
      BY <1>2, <2>3 DEF Selection, SelectDone, SelectRejected, SelectLost, SelectStart,
         IsoExchange, ntag424_select, NeverChained
    <2>4. CASE Local
      BY <1>2, <2>4 DEF Local, ResetChannel, Reopen, FieldLost, GetDfNamesRefused, GetDfNames,
         ProximityCheck, SetIsoChaining, NeverChained
    <2>5. CASE UNCHANGED vars
      BY <2>5 DEF vars
    <2> QED BY <2>1, <2>2, <2>3, <2>4, <2>5 DEF Next
  <1>3. reader'.chan = "AUTO" \/ CanOpen(reader'.chan)
    BY <1>1 DEF OnOpened
  <1>4. NeverChained => ~iso_chaining'
    BY <1>2 DEF OnOpened
  <1>5. (NeverChained => ~iso_chaining)'
    BY <1>4 DEF NeverChained
  <1>6. (reader.chan = "AUTO" \/ CanOpen(reader.chan))'
    BY <1>3 DEF CanOpen, Unsupported, Chosen, pick_channel
  <1> QED BY <1>5, <1>6 DEF OnOpened

-----------------------------------------------------------------------------
(***************************************************************************)
(* The channels that seal every answer: EV2, LRP and, but for enciphered   *)
(* answers shorter than a block, EV1.  What the reader reports is then     *)
(* what the card did.                                                      *)
(***************************************************************************)
AnswersSealed == ~CanOpen("D40") /\ (CanOpen("EV1") => \A c \in Api : c.rx # "enc")

\* cmd_ctr++ in a uint16_t
LEMMA SuccessorMod ==
    ASSUME NEW m \in Nat \ {0}, NEW a \in 0..(m - 1)
    PROVE  (a + 1) % m = IF a + 1 = m THEN 0 ELSE a + 1
  <1>1. CASE a + 1 = m
    BY <1>1
  <1>2. CASE a + 1 < m
    BY <1>2
  <1> QED BY <1>1, <1>2

\* The counter both sides are at when an answer is made and decoded.
LEMMA CountedOnEv2 ==
    ASSUME IInv, NEW q, NEW f
    PROVE  /\ reader.chan \in {"EV2", "LRP"} =>
                Counted(Encoded(reader, q)).ctr = (reader.ctr + 1) % CtrMod
           /\ card.chan \in {"EV2", "LRP"} => CardExecuted(q, f).ctr = (card.ctr + 1) % CtrMod
  <1>1. reader \in Sessions /\ card \in Sessions
    BY DEF IInv, TypeOK
  <1>2. \A s \in Sessions : \A x : Chained(s, x).chan = s.chan /\ Chained(s, x).ctr = s.ctr
                                /\ DOMAIN Chained(s, x) = DOMAIN s
    BY DEF Chained, Sessions
  <1>3. reader.chan \in {"EV2", "LRP"} =>
           Counted(Encoded(reader, q)).ctr = (reader.ctr + 1) % CtrMod
    BY <1>1, <1>2 DEF Counted, Encoded, Sessions
  <1>4. card.chan \in {"EV2", "LRP"} => CardExecuted(q, f).ctr = (card.ctr + 1) % CtrMod
    BY <1>1, <1>2 DEF Counted, CardExecuted, Sessions
  <1> QED BY <1>3, <1>4

\* A success of a call that demanded protection has a valid MAC, wherever all answers
\* are sealed.
LEMMA SuccessVerifies ==
    ASSUME NEW s, NEW q, NEW a,
           s.chan \in {"EV2", "LRP"} \/ (s.chan = "EV1" /\ q.rx = "mac"), q.rx # "plain",
           channel_decode(s, q, a).rc = "OK"
    PROVE  MacVerifies(a, s)
  <1>1. CASE s.chan \in {"EV2", "LRP"}
    <2>1. channel_decode(s, q, a) = decode_ev2(s, q, a)
      BY <1>1 DEF channel_decode
    <2> QED BY <2>1 DEF decode_ev2, Result
  <1>2. CASE s.chan = "EV1" /\ q.rx = "mac"
    <2>1. channel_decode(s, q, a) = decode_ev1(s, q, a)
      BY <1>2 DEF channel_decode
    <2> QED BY <1>2, <2>1 DEF decode_ev1, Result
  <1> QED BY <1>1, <1>2

\* On EV1, EV2 and LRP a call that demands a protected answer succeeds only if the card
\* carried it out in that session and at that counter: neither a card that lost its
\* session nor one that is a command ahead is ever taken for it.  On EV1 this leaves out
\* enciphered answers, which decode_ev1() hands out unchecked when they are short.
THEOREM SuccessIsTheCards == ASSUME AnswersSealed PROVE Spec => SuccessMeansSession
  <1>1. Init => OnOpened
    BY DEF Init, OnOpened, NoSession
  <1>2. IInv /\ OnOpened /\ [Next]_vars => OnOpened'
    BY OpenedStays
  <1>3. IInv /\ OnOpened /\ [Next]_vars
          => [authenticated /\ last'.checked /\ last'.rc = "OK"
                => last'.done /\ card.key = reader.key /\ card.ctr = reader.ctr]_vars
    <2> SUFFICES ASSUME IInv, OnOpened, Next, authenticated, last'.checked, last'.rc = "OK"
                 PROVE  last'.done /\ card.key = reader.key /\ card.ctr = reader.ctr
      BY DEF vars
    <2>1. \A rc : ~Other(rc).checked
      BY DEF Other
    <2>2. CASE Authentication
      BY <2>1, <2>2 DEF Authentication, AuthUnsupported, AuthRefused, Authenticate, AuthLost,
         NonFirstRefusedLocally, NonFirstRefused, AuthenticateNonFirst, NonFirstLost
    <2>3. CASE Selection
      BY <2>1, <2>3 DEF Selection, SelectDone, SelectRejected, SelectLost, IsoExchange,
         ntag424_select
    <2>4. CASE Local
      BY <2>1, <2>4 DEF Local, ResetChannel, Reopen, FieldLost, GetDfNamesRefused, GetDfNames,
         ProximityCheck, SetIsoChaining
    <2>5. CASE Exchange
      <3>1. PICK c \in Api :
              CallRefused(c) \/ CallLost(c) \/ CallCutShort(c) \/ CallRejected(c) \/ CallDone(c)
        BY <2>5 DEF Exchange
      <3>2. ~CallRefused(c)
        BY DEF CallRefused, Refused, IInv, TypeOK
      <3>3. ASSUME NEW rc, NEW done, NEW owed, NEW exact,
                   last' = Exchanged(c, rc, done, owed, exact)
            PROVE  last'.rc = rc /\ last'.done = done /\ last'.checked = (Request(c).rx # "plain")
        BY <3>3, Zenon DEF Exchanged
      <3>4. CallDone(c)
        <4>1. ASSUME CallLost(c) \/ CallCutShort(c) \/ CallRejected(c) PROVE FALSE
          <5>1. PICK rc, done, owed, exact :
                  rc # "OK" /\ last' = Exchanged(c, rc, done, owed, exact)
            BY <4>1 DEF CallLost, CallCutShort, CallRejected
          <5> QED BY <3>3, <5>1
        <4> QED BY <3>1, <3>2, <4>1
      <3> DEFINE q == Request(c)
                 f == Frame(q)
                 C == Counted(Encoded(reader, q))
                 X == CardExecuted(q, f)
      <3>5. PICK n \in c.ans, fits \in BOOLEAN :
              LET d == channel_decode(C, q, Answer(q, f, n))
              IN  last' = Exchanged(c, Delivered(d, fits), TRUE, Owed(Answer(q, f, n), fits),
                                    d.exact /\ fits)
        BY <3>4 DEF CallDone
      <3>6. last'.done /\ channel_decode(C, q, Answer(q, f, n)).rc = "OK" /\ q.rx # "plain"
        <4> DEFINE d == channel_decode(C, q, Answer(q, f, n))
        <4> HIDE DEF C, f, d
        <4>1. /\ last'.rc = Delivered(d, fits)
              /\ last'.done = TRUE /\ last'.checked = (q.rx # "plain")
          BY <3>3, <3>5 DEF d
        <4>2. d.rc = "OK"
          BY <4>1 DEF Delivered
        <4> QED BY <4>1, <4>2 DEF d
      <3>7. SameSession(reader, C)
        <4>1. SameSession(reader, Encoded(reader, q)) /\ WellFormed(Encoded(reader, q))
          BY EncodedType DEF IInv, TypeOK
        <4> QED BY <4>1, CountedType DEF SameSession
      <3>8. /\ reader.chan \in {"EV2", "LRP"} \/ (reader.chan = "EV1" /\ q.rx = "mac")
            /\ C.chan = reader.chan /\ C.key = reader.key
        <4>1. reader.chan \in Chans /\ CanOpen(reader.chan)
          BY DEF OnOpened, authenticated, IInv, TypeOK, Sessions
        <4>2. reader.chan \in {"EV1", "EV2", "LRP"}
          BY <4>1 DEF AnswersSealed, Chans
        <4>3. ASSUME reader.chan = "EV1" PROVE q.rx = "mac"
          <5>1. c.rx \in {"plain", "mac"}
            BY <4>1, <4>3, ApiAssumption DEF AnswersSealed
          <5>2. q.rx \in {c.rx, "plain"}
            BY DEF Request, RxMode, eff, eff_mode
          <5> QED BY <3>6, <5>1, <5>2
        <4> QED BY <3>7, <4>2, <4>3 DEF SameSession
      <3>9. MacVerifies(Answer(q, f, n), C)
        BY <3>6, <3>8, SuccessVerifies
      <3>10. Answer(q, f, n).form # "plain"
        BY <3>9 DEF MacVerifies
      <3>11. Answer(q, f, n).by = X
        BY <3>10, ProtectedAnswer
      <3>12. X.key = C.key /\ X.ctr = C.ctr
        BY <3>9, <3>11 DEF MacVerifies
      <3>13. SameSession(card, X)
        BY CardExecutedType DEF IInv, TypeOK
      <3>14. card.key = reader.key
        BY <3>8, <3>12, <3>13 DEF SameSession
      <3>15. card.chan = reader.chan
        <4>1. reader.key \in Keys
          BY <3>8 DEF IInv, WellFormed
        <4> QED BY <3>14, <4>1 DEF IInv, SameOrigin
      <3>16. CASE reader.chan = "EV1"
        <4>1. card.ctr = 0 /\ reader.ctr = 0
          BY <3>15, <3>16 DEF IInv, WellFormed
        <4> QED BY <3>6, <3>14, <4>1
      <3>17. CASE reader.chan \in {"EV2", "LRP"}
        <4>1. (card.ctr + 1) % CtrMod = (reader.ctr + 1) % CtrMod
          BY <3>12, <3>15, <3>17, CountedOnEv2
        <4>2. card.ctr \in 0..(CtrMod - 1) /\ reader.ctr \in 0..(CtrMod - 1)
          BY DEF IInv, TypeOK, Sessions
        <4>3. (card.ctr + 1) % CtrMod = IF card.ctr + 1 = CtrMod THEN 0 ELSE card.ctr + 1
          BY <4>2, SuccessorMod
        <4>4. (reader.ctr + 1) % CtrMod = IF reader.ctr + 1 = CtrMod THEN 0 ELSE reader.ctr + 1
          BY <4>2, SuccessorMod
        <4>5. card.ctr = reader.ctr
          BY <4>1, <4>2, <4>3, <4>4
        <4> QED BY <3>6, <3>14, <4>5
      <3> QED BY <3>8, <3>16, <3>17
    <2> QED BY <2>2, <2>3, <2>4, <2>5 DEF Next
  <1> QED BY <1>1, <1>2, <1>3, Inductive, PTL DEF Spec, SuccessMeansSession

-----------------------------------------------------------------------------
(***************************************************************************)
(* The other way round: what the card did is reported, on every channel.   *)
(* What it rests on is that an EV1 session does not replace its own key,   *)
(* that a legacy one runs the native opcodes, and that on both the card    *)
(* MACs the answers the reader expects a MAC on.                           *)
(***************************************************************************)
Ev1KeepsItsKey == CanOpen("EV1") => NoOwnKeyCalls
LegacyIsNative == CanOpen("D40") => NeverChained
AnswersMaced == CanOpen("D40") \/ CanOpen("EV1") => \A c \in Api : c.cmd \notin Unmaced

\* Between two sides that agree, decode_ev2() takes every answer the card may give
\* and hands out its payload.
LEMMA Ev2AnswerTaken ==
    ASSUME IInv, reader.chan \in {"AUTO", "EV2", "LRP"}, reader = card, NEW c \in Api, NEW n \in c.ans,
           NEW q, q = Request(c), NEW f, f = Frame(q), Owed(Answer(q, f, n), TRUE),
           NEW d, d = channel_decode(Counted(Encoded(reader, q)), q, Answer(q, f, n))
    PROVE  d.rc = "OK" /\ d.exact
  <1> DEFINE C == Counted(Encoded(card, q))
             A == Answer(q, f, n)
  <1>1. card \in Sessions /\ WellFormed(card) /\ n \in Nat
    BY ApiAssumption DEF IInv, TypeOK
  <1>2. CardEnds(q) <=> card # NoSession /\ ends_session(c, reader)
    BY DEF CardEnds, ends_session, Request
  <1>3. A.form = AnswerForm(q) /\ (A.form # "plain" => A.by = CardExecuted(q, f))
    BY DEF Answer
  <1>4. C.chan = card.chan
    <2>1. SameSession(card, Encoded(card, q)) /\ WellFormed(Encoded(card, q))
      BY <1>1, EncodedType
    <2> QED BY <2>1, CountedType DEF SameSession
  <1>5. d = channel_decode(C, q, A)
    OBVIOUS
  <1> HIDE DEF C, A
  <1>6. \A s : A.form = "plain" => Copied(s, A).rc = "OK" /\ Copied(s, A).exact
    BY DEF Copied, Result
  <1>7. CASE card = NoSession
    <2>1. C.chan = "AUTO" /\ A.form = "plain"
      BY <1>3, <1>4, <1>7 DEF NoSession, AnswerForm
    <2>2. d = Copied(C, A)
      BY <1>5, <2>1 DEF channel_decode
    <2> QED BY <1>6, <2>1, <2>2
  <1>8. CASE card # NoSession
    <2>1. card.chan \in {"EV2", "LRP"}
      BY <1>1, <1>8 DEF WellFormed, Sessions
    <2>2. d = decode_ev2(C, q, A)
      BY <1>4, <1>5, <2>1 DEF channel_decode
    <2>3. CASE q.rx = "plain"
      <3>1. A.form = "plain"
        BY <1>3, <1>8, <2>1, <2>3 DEF AnswerForm
      <3>2. d = Copied(C, A)
        BY <2>2, <2>3 DEF decode_ev2
      <3> QED BY <1>6, <3>1, <3>2
    <2>4. CASE q.rx # "plain"
      <3>1. ~ends_session(c, reader)
        BY <2>4 DEF Request, RxMode
      <3>2. A.form = q.rx /\ q.rx \in {"mac", "enc"}
        BY <1>2, <1>3, <1>8, <2>1, <2>4, <3>1, RequestShape DEF AnswerForm
      <3>3. C = CardExecuted(q, f)
        <4>1. f.form = encode_ev2(q)
          BY <2>1 DEF Frame, channel_encode
        <4> QED BY <2>1, <4>1 DEF C, Encoded, CardExecuted
      <3>4. A.by = C /\ MacVerifies(A, C)
        BY <1>3, <1>4, <2>1, <3>2, <3>3 DEF MacVerifies
      <3>5. CASE q.rx = "mac"
        <4>1. A.wire = n + 8
          BY <1>3, <2>1, <3>2, <3>5 DEF A, Answer, mac_length
        <4>2. ~(A.wire - mac_length("EV2") < 0)
          BY <1>1, <4>1 DEF mac_length
        <4>3. d = Result("OK", C, C.chan = "EV2", A.form = "mac")
          BY <2>2, <3>4, <3>5, <4>2 DEF decode_ev2
        <4>4. A.form = "mac"
          BY <3>2, <3>5
        <4>5. d = Result("OK", C, C.chan = "EV2", TRUE)
          BY <4>3, <4>4
        <4> QED BY <4>5 DEF Result
      <3>6. CASE q.rx = "enc"
        <4>1. A.wire = padded_len(n + 1, 16) + 8
          BY <1>3, <2>1, <3>2, <3>6 DEF A, Answer, Checksum, cipher_block, mac_length
        <4>2. padded_len(n + 1, 16) >= 16 /\ padded_len(n + 1, 16) \in Int
          BY <1>1, PaddedFillsBlock DEF padded_len
        <4>3. ~(A.wire - mac_length("EV2") < 0) /\ ~(A.wire - mac_length("EV2") < 16)
          BY <4>1, <4>2 DEF mac_length
        <4>4. Deciphers(A, C) /\ A.n > 0
          <5>1. A.n = n
            BY DEF A, Answer
          <5>2. A.n # 0
            BY <3>2, <3>6 DEF Owed, A
          <5> QED BY <1>1, <3>2, <3>4, <3>6, <5>1, <5>2 DEF Deciphers
        <4>5. \E t : d = Result("OK", t, TRUE, TRUE)
          BY <2>2, <3>4, <3>6, <4>3, <4>4 DEF decode_ev2
        <4> QED BY <4>5 DEF Result
      <3> QED BY <3>2, <3>5, <3>6
    <2> QED BY <2>3, <2>4
  <1> QED BY <1>7, <1>8

\* Between two sides that agree on a legacy session, decode_d40() takes every answer
\* the card may give: it expects a MAC where the card sends one.
LEMMA D40AnswerTaken ==
    ASSUME IInv, reader = card, reader.chan = "D40", ~iso_chaining,
           NEW c \in Api, c.cmd \notin Unmaced,
           NEW n \in c.ans, NEW q, q = Request(c), NEW f, f = Frame(q), Owed(Answer(q, f, n), TRUE),
           NEW d, d = channel_decode(Counted(Encoded(reader, q)), q, Answer(q, f, n))
    PROVE  d.rc = "OK" /\ d.exact
  <1> DEFINE A == Answer(q, f, n)
  <1>1. card \in Sessions /\ WellFormed(card) /\ n \in Nat /\ card # NoSession
    BY ApiAssumption DEF IInv, TypeOK, NoSession
  <1>2. CardEnds(q) <=> ends_session(c, reader)
    BY <1>1 DEF CardEnds, ends_session, Request
  <1>3. A.form = AnswerForm(q) /\ (A.form # "plain" => A.by = card)
    BY DEF Answer, CardExecuted, Counted
  <1>4. q.op = q.cmd /\ q.cmd = c.cmd
    BY DEF Request, file_cmd
  <1>5. d = decode_d40(card, q, A)
    BY DEF Encoded, Counted, channel_decode
  <1>6. A.form = IF CardEnds(q) THEN "plain"
                 ELSE IF q.rx = "enc" THEN "enc"
                 ELSE IF q.rx = "mac" /\ q.cmd \in rx_mac_cmds THEN "mac" ELSE "plain"
    BY <1>1, <1>3, <1>4 DEF AnswerForm
  <1>7. CardEnds(q) => q.rx = "plain"
    BY <1>2 DEF Request, RxMode
  <1>8. CASE q.rx = "mac" /\ q.cmd \in rx_mac_cmds
    <2>1. A.form = "mac" /\ A.by = card
      BY <1>3, <1>6, <1>7, <1>8
    <2>2. A.wire = n + 4 /\ n > 0
      <3>1. A.wire = n + 4 /\ A.n = n
        BY <1>3, <2>1 DEF Answer, mac_length
      <3>2. A.n # 0
        BY <2>1 DEF Owed
      <3> QED BY <1>1, <3>1, <3>2
    <2>3. ~(A.wire <= mac_length("D40")) /\ MacVerifies(A, card)
      BY <1>1, <2>1, <2>2 DEF mac_length, MacVerifies
    <2>4. d = Result("OK", card, TRUE, TRUE)
      BY <1>4, <1>5, <1>8, <2>3 DEF decode_d40, receives_mac
    <2> QED BY <2>4 DEF Result
  <1>9. CASE q.rx = "enc"
    <2>1. A.form = "enc" /\ A.by = card
      BY <1>3, <1>6, <1>7, <1>9
    <2>2. A.wire >= block_len(card.kt)
      <3> DEFINE b == block_len(card.kt)
      <3>1. b \in {8, 16}
        BY DEF block_len
      <3>2. A.wire = padded_len(n + 2, b) + 0
        BY <1>3, <2>1 DEF Answer, Checksum, cipher_block, mac_length
      <3> HIDE DEF b
      <3>3. padded_len(n + 2, b) >= b /\ padded_len(n + 2, b) \in Nat
        BY <1>1, <3>1, PaddedFillsBlock
      <3> HIDE DEF A
      <3> QED BY <3>2, <3>3 DEF b
    <2>3. Deciphers(A, card) /\ A.n > 0
      <3>1. A.n = n
        BY DEF Answer
      <3>2. A.n # 0
        BY <2>1 DEF Owed
      <3> QED BY <1>1, <2>1, <3>1, <3>2 DEF Deciphers
    <2>4. d = Result("OK", card, TRUE, TRUE)
      BY <1>5, <1>9, <2>2, <2>3 DEF decode_d40
    <2> QED BY <2>4 DEF Result
  <1>10. CASE ~(q.rx = "mac" /\ q.cmd \in rx_mac_cmds) /\ q.rx # "enc"
    <2>1. A.form = "plain"
      BY <1>6, <1>10
    <2>2. d = Copied(card, A)
      BY <1>4, <1>5, <1>10 DEF decode_d40, receives_mac
    <2>3. \A s : Copied(s, A).rc = "OK" /\ Copied(s, A).exact
      BY <2>1 DEF Copied, Result
    <2> HIDE DEF A
    <2> QED BY <2>2, <2>3
  <1> QED BY <1>8, <1>9, <1>10

\* Between two sides that agree on an EV1 session whose key stays, decode_ev1() takes
\* every answer the card may give.
LEMMA Ev1AnswerTaken ==
    ASSUME IInv, reader = card, reader.chan = "EV1", NEW c \in Api, ~ends_session(c, reader),
           c.cmd \notin Unmaced, NEW n \in c.ans, NEW q, q = Request(c), NEW f, f = Frame(q),
           CardAccepts(q, f), Owed(Answer(q, f, n), TRUE),
           NEW d, d = channel_decode(Counted(Encoded(reader, q)), q, Answer(q, f, n))
    PROVE  d.rc = "OK" /\ d.exact
  <1> DEFINE A == Answer(q, f, n)
             X == Chained(card, "cmd")
  <1>1. card \in Sessions /\ WellFormed(card) /\ n \in Nat /\ card # NoSession
    BY ApiAssumption DEF IInv, TypeOK, NoSession
  <1>2. ~CardEnds(q) /\ q.cmd = c.cmd
    BY <1>1 DEF CardEnds, ends_session, Request
  <1>3. X.chan = "EV1" /\ X.kt = card.kt
    BY <1>1, AppendedType DEF SameSession, IvItems, OneSided
  <1>4. Counted(Encoded(reader, q)) = X /\ CardExecuted(q, f) = X
    <2>1. q.tx = "enc_plain" => HasData(q.op, q.len)
      BY RequestShape
    <2> QED BY <1>3, <2>1 DEF Encoded, Counted, CardExecuted
  <1>5. A.form = (IF q.rx = "enc" THEN "enc" ELSE "mac") /\ A.by = X
    BY <1>1, <1>2, <1>4 DEF Answer, AnswerForm
  <1> HIDE DEF X
  <1>6. d = decode_ev1(X, q, A)
    BY <1>3, <1>4 DEF channel_decode
  <1>7. CASE q.rx # "enc"
    <2>1. A.wire = n + 8
      BY <1>5, <1>7 DEF Answer, mac_length
    <2>2. ~(A.wire < mac_length("EV1")) /\ MacVerifies(A, X)
      BY <1>1, <1>5, <1>7, <2>1 DEF mac_length, MacVerifies
    <2>3. q.rx \in {"plain", "mac"}
      BY <1>7, RequestShape
    <2>4. A.form = "mac"
      BY <1>5, <1>7
    <2> HIDE DEF A
    <2>5. d = Result("OK", Chained(X, "ans"), TRUE, TRUE)
      BY <1>6, <2>2, <2>3, <2>4 DEF decode_ev1
    <2> QED BY <2>5 DEF Result
  <1>8. CASE q.rx = "enc"
    <2>1. ~HasData(q.op, q.len)
      <3> SUFFICES ASSUME HasData(q.op, q.len) PROVE FALSE
        OBVIOUS
      <3>1. ~HasData(q.cmd, q.len) /\ q.op # q.cmd
        BY <1>8, RequestShape
      <3>2. q.tx = "enc" /\ ~HasData(q.cmd, q.len)
        BY <1>8, <3>1, RequestShape
      <3>3. f.form = "enc"
        BY <3>2 DEF Frame, channel_encode, encode_ev1
      <3>4. CardWants(q) = "plain"
        BY <3>2 DEF CardWants
      <3> QED BY <3>3, <3>4 DEF CardAccepts
    <2>2. A.wire >= block_len(X.kt)
      <3> DEFINE b == block_len(card.kt)
      <3>1. b \in {8, 16}
        BY DEF block_len
      <3>2. A.wire = padded_len(n + 4, b) + 0
        BY <1>5, <1>8 DEF Answer, Checksum, cipher_block
      <3> HIDE DEF b
      <3>3. padded_len(n + 4, b) >= b /\ padded_len(n + 4, b) \in Nat
        BY <1>1, <3>1, PaddedFillsBlock
      <3> HIDE DEF A
      <3> QED BY <1>3, <3>2, <3>3 DEF b
    <2>3. Deciphers(A, X) /\ A.n > 0
      <3>1. A.n = n /\ A.form = "enc" /\ A.by = X
        BY <1>5, <1>8 DEF Answer
      <3>2. A.n # 0
        BY <3>1 DEF Owed
      <3> QED BY <1>1, <3>1, <3>2 DEF Deciphers
    <2>4. d = Result("OK", X, TRUE, TRUE)
      BY <1>6, <1>8, <2>1, <2>2, <2>3 DEF decode_ev1
    <2> QED BY <2>4 DEF Result
  <1> QED BY <1>7, <1>8

\* The same between two sides without a session.
LEMMA PlainAnswerTaken ==
    ASSUME reader = card, card = NoSession,
           NEW n, NEW q, NEW f,
           NEW d, d = channel_decode(Counted(Encoded(reader, q)), q, Answer(q, f, n))
    PROVE  d.rc = "OK" /\ d.exact
  <1> DEFINE A == Answer(q, f, n)
  <1>1. card.chan = "AUTO"
    BY DEF NoSession
  <1>2. d = Copied(card, A)
    BY <1>1 DEF Encoded, Counted, channel_decode
  <1>3. A.form = "plain"
    BY DEF Answer, AnswerForm
  <1>4. \A s : Copied(s, A).rc = "OK" /\ Copied(s, A).exact
    BY <1>3 DEF Copied, Result
  <1> HIDE DEF A
  <1> QED BY <1>2, <1>4

\* On every channel, and while the two sides agree on the IV too, whatever the card did
\* and answered is reported as done, with its payload unchanged.  The hypotheses are
\* where that ends: a ChangeKey of an EV1 session's own key, a legacy read under a
\* chained opcode, and a card that sends an answer without the MAC decode_ev1() or
\* decode_d40() looks for (nxpsc_exchange(), nxpsc_channel_decode()).
THEOREM CarriedOutReported ==
    ASSUME Ev1KeepsItsKey, LegacyIsNative, AnswersMaced
    PROVE  Spec => CarriedOutIsReported
  <1>1. Init => OnOpened
    BY DEF Init, OnOpened, NoSession
  <1>2. IInv /\ OnOpened /\ [Next]_vars => OnOpened'
    BY OpenedStays
  <1>3. IInv /\ OnOpened /\ [Next]_vars
          => [reader = card /\ last'.done /\ last'.owed => last'.rc = "OK" /\ last'.exact]_vars
    <2> SUFFICES ASSUME IInv, OnOpened, Next, reader = card, last'.done, last'.owed
                 PROVE  last'.rc = "OK" /\ last'.exact
      BY DEF vars
    <2>1. \A rc : ~Other(rc).done
      BY DEF Other
    <2>2. CASE Authentication
      BY <2>1, <2>2 DEF Authentication, AuthUnsupported, AuthRefused, Authenticate, AuthLost,
         NonFirstRefusedLocally, NonFirstRefused, AuthenticateNonFirst, NonFirstLost
    <2>3. CASE Selection
      BY <2>1, <2>3 DEF Selection, SelectDone, SelectRejected, SelectLost, IsoExchange,
         ntag424_select
    <2>4. CASE Local
      BY <2>1, <2>4 DEF Local, ResetChannel, Reopen, FieldLost, GetDfNamesRefused, GetDfNames,
         ProximityCheck, SetIsoChaining
    <2>5. CASE Exchange
      <3>1. PICK c \in Api :
              CallRefused(c) \/ CallLost(c) \/ CallCutShort(c) \/ CallRejected(c) \/ CallDone(c)
        BY <2>5 DEF Exchange
      <3>2. ASSUME NEW rc, NEW done, NEW owed, NEW exact,
                   last' = Exchanged(c, rc, done, owed, exact)
            PROVE  last'.rc = rc /\ last'.done = done /\ last'.owed = owed
                   /\ last'.exact = exact
        BY <3>2, Zenon DEF Exchanged
      <3>3. CASE CallRefused(c)
        <4>1. PICK rc : last' = Unsent(Exchanged(c, rc, FALSE, FALSE, TRUE))
          BY <3>3 DEF CallRefused
        <4>2. last'.done = FALSE
          BY <4>1, Zenon DEF Exchanged, Unsent
        <4> QED BY <4>2
      <3>4. CASE CallLost(c) \/ CallCutShort(c) \/ CallRejected(c)
        <4>1. \/ last' = Exchanged(c, "TRANSPORT", FALSE, FALSE, TRUE)
              \/ last' = Exchanged(c, "TRANSPORT", TRUE, FALSE, TRUE)
              \/ last' = Exchanged(c, "CARD", FALSE, FALSE, TRUE)
          BY <3>4 DEF CallLost, CallCutShort, CallRejected
        <4>2. last'.done = FALSE \/ last'.owed = FALSE
          BY <3>2, <4>1
        <4> QED BY <4>2
      <3>5. CASE CallDone(c)
        <4> DEFINE q == Request(c)
                   f == Frame(q)
                   D(n) == channel_decode(Counted(Encoded(reader, q)), q, Answer(q, f, n))
        <4>1. PICK n \in c.ans, fits \in BOOLEAN :
                last' = Exchanged(c, Delivered(D(n), fits), TRUE, Owed(Answer(q, f, n), fits),
                                  D(n).exact /\ fits)
          BY <3>5 DEF CallDone
        <4>2. CardAccepts(q, f)
          BY <3>5 DEF CallDone
        <4>3. Owed(Answer(q, f, n), fits) /\ fits = TRUE
          <5>1. last'.owed = Owed(Answer(q, f, n), fits)
            BY <3>2, <4>1
          <5> QED BY <5>1 DEF Owed
        <4>4. D(n).rc = "OK" /\ D(n).exact
          <5> HIDE DEF D
          <5>0. Owed(Answer(q, f, n), TRUE)
            BY <4>3
          <5> USE DEF D
          <5>1. CASE reader.chan = "AUTO"
            <6>1. card = NoSession
              BY <5>1 DEF IInv, WellFormed
            <6> QED BY <6>1, PlainAnswerTaken
          <5>2. CASE reader.chan = "D40"
            <6>1. ~iso_chaining /\ c.cmd \notin Unmaced
              BY <5>2 DEF OnOpened, LegacyIsNative, AnswersMaced
            <6> QED BY <5>0, <5>2, <6>1, D40AnswerTaken
          <5>3. CASE reader.chan = "EV1"
            <6>1. ~ends_session(c, reader) /\ c.cmd \notin Unmaced
              BY <5>3, EndsNone DEF OnOpened, Ev1KeepsItsKey, AnswersMaced, IInv
            <6> QED BY <4>2, <5>0, <5>3, <6>1, Ev1AnswerTaken
          <5>4. CASE reader.chan \in {"EV2", "LRP"}
            BY <5>0, <5>4, Ev2AnswerTaken
          <5> QED BY <5>1, <5>2, <5>3, <5>4 DEF IInv, TypeOK, Sessions, Chans
        <4> HIDE DEF D
        <4>5. Delivered(D(n), fits) = "OK" /\ (D(n).exact /\ fits)
          BY <4>3, <4>4 DEF Delivered
        <4> QED BY <3>2, <4>1, <4>5
      <3> QED BY <3>1, <3>3, <3>4, <3>5
    <2> QED BY <2>2, <2>3, <2>4, <2>5 DEF Next
  <1> QED BY <1>1, <1>2, <1>3, Inductive, PTL DEF Spec, CarriedOutIsReported

-----------------------------------------------------------------------------
(***************************************************************************)
(* With a card that leaves the IV where it was after an enciphered answer, *)
(* as the test double does, near sessions are equal ones.                  *)
(***************************************************************************)
\* no answer has run through the IV of the card alone, nor of the reader alone unless
\* something separated the two sides
Unmarked == ~Marked(card) /\ (~apart => ~Marked(reader))

\* Such a card never marks its session.
LEMMA CardUnmarked ==
    ASSUME IInv, ~CipherChains, ~Marked(card), NEW q, NEW f
    PROVE  ~Marked(CardExecuted(q, f)) /\ ~Marked(CardAnswered(q, f))
  <1> DEFINE X == CardExecuted(q, f)
             r == CardAnswered(q, f)
  <1>1. {"cmd", "ans", "block"} \subseteq IvItems \ OneSided
    BY DEF IvItems, OneSided
  <1>2. card \in Sessions /\ WellFormed(card)
    BY DEF IInv, TypeOK
  <1>3. \A s \in Sessions : ~Marked(s) =>
           /\ ~Marked(Chained(s, "cmd")) /\ ~Marked(Chained(s, "ans"))
           /\ ~Marked(Chained(s, "block"))
    BY <1>1, MarkedAppended
  <1>4. \A s \in Sessions : WellFormed(s) /\ ~Marked(s) => ~Marked(Counted(s))
    BY CountedType DEF Marked
  <1>5. card.chan = "LRP" => Chained(card, "block") \in Sessions /\ WellFormed(Chained(card, "block"))
    BY <1>1, <1>2, AppendedType DEF SameSession
  <1>6. ~Marked(X)
    BY <1>2, <1>3, <1>4, <1>5 DEF CardExecuted
  <1>7. X \in Sessions
    BY <1>2, CardExecutedType DEF SameSession
  <1>8. r \in {NoSession, X, Chained(X, "ans"), Chained(X, "block")}
    BY DEF CardAnswered
  <1>9. ~Marked(NoSession)
    BY NoSessionType DEF WellFormed, NoSession
  <1> HIDE DEF X, r
  <1>10. ~Marked(r)
    BY <1>3, <1>6, <1>7, <1>8, <1>9
  <1> QED BY <1>6, <1>10 DEF X, r

\* Nor does an answer mark the reader's that verified, or that came while both held the
\* same session.
LEMMA ReaderUnmarked ==
    ASSUME IInv, ~CipherChains, ~Marked(card), NEW c \in Api, NEW n \in c.ans,
           reader.chan = "EV1" => c.cmd \notin Unmaced,
           NEW q, q = Request(c), NEW f, f = Frame(q), CardAccepts(q, f),
           NEW d, d = channel_decode(Counted(Encoded(reader, q)), q, Answer(q, f, n)),
           d.verified \/ reader = card
    PROVE  ~Marked(Kept(c, d.s))
  <1> DEFINE C == Counted(Encoded(reader, q))
             A == Answer(q, f, n)
             X == CardExecuted(q, f)
  <1>1. SameSession(reader, C) /\ WellFormed(C) /\ DecodingOf(reader, d)
    BY ReaderDecoded
  <1>2. ~Marked(NoSession)
    BY NoSessionType DEF WellFormed, NoSession
  <1>3. CASE ends_session(c, reader)
    BY <1>2, <1>3 DEF Kept
  <1>4. CASE ~ends_session(c, reader) /\ reader.chan # "EV1"
    <2>1. WellFormed(d.s) /\ d.s.chan # "EV1"
      BY <1>1, <1>4 DEF DecodingOf, SameSession
    <2> QED BY <1>4, <2>1 DEF WellFormed, Kept
  <1>5. CASE ~ends_session(c, reader) /\ reader.chan = "EV1"
    <2>1. C \in Sessions /\ C.chan = "EV1"
      BY <1>1, <1>5 DEF SameSession
    <2>2. Kept(c, d.s) = d.s
      BY <1>5 DEF Kept
    <2>3. ~Marked(C) => ~Marked(Chained(C, "ans"))
      BY <2>1, MarkedAppended DEF IvItems, OneSided
    <2>4. ASSUME d.verified PROVE ~Marked(d.s)
      <3>1. A.form # "plain" /\ A.by.iv = C.iv /\ d.s \in {C, Chained(C, "ans")}
        <4> HIDE DEF A, C
        <4>1. d = channel_decode(C, q, A)
          BY DEF A, C
        <4> QED BY <2>1, <2>4, <4>1, VerifiedMeansSealed
      <3>2. A.by = X
        BY <3>1, ProtectedAnswer
      <3>3. ~Marked(X)
        BY CardUnmarked
      <3> HIDE DEF A, C, X
      <3>4. ~Marked(C)
        BY <3>1, <3>2, <3>3 DEF Marked
      <3> QED BY <2>3, <3>1, <3>4
    <2>5. ASSUME reader = card PROVE ~Marked(d.s)
      <3>1. q.tx = "enc_plain" => HasData(q.op, q.len)
        BY RequestShape
      <3>2. card \in Sessions /\ card # NoSession /\ ~CardEnds(q) /\ q.cmd = c.cmd
        BY <1>5, <2>5 DEF IInv, TypeOK, NoSession, CardEnds, ends_session, Request
      <3>3. Encoded(reader, q) = Chained(card, "cmd")
        BY <1>5, <2>5, <3>1 DEF Encoded
      <3>4. Chained(card, "cmd").chan = "EV1" /\ ~Marked(Chained(card, "cmd"))
        BY <1>5, <2>5, <3>2, MarkedAppended DEF Chained, Sessions, IvItems, OneSided
      <3>5. C = Chained(card, "cmd")
        BY <3>3, <3>4 DEF Counted
      <3>6. d = decode_ev1(C, q, A)
        BY <2>1 DEF channel_decode
      <3>7. A.form = IF q.rx = "enc" THEN "enc" ELSE "mac"
        BY <1>5, <2>5, <3>2 DEF Answer, AnswerForm
      <3>8. q.rx = "enc" => ~HasData(q.op, q.len)
        <4> SUFFICES ASSUME q.rx = "enc", HasData(q.op, q.len) PROVE FALSE
          OBVIOUS
        <4>1. q.tx = "enc" /\ ~HasData(q.cmd, q.len)
          BY RequestShape
        <4>2. f.form = "enc"
          BY <1>5, <4>1 DEF Frame, channel_encode, encode_ev1
        <4>3. CardWants(q) = "plain"
          BY <1>5, <2>5, <4>1 DEF CardWants
        <4> QED BY <4>2, <4>3 DEF CardAccepts
      <3> HIDE DEF A, C
      <3>9. d.s \in {C, Chained(C, "ans")}
        BY <3>6, <3>7, <3>8 DEF decode_ev1, Result, Copied
      <3> QED BY <2>3, <3>4, <3>5, <3>9
    <2> QED BY <2>2, <2>4, <2>5
  <1> QED BY <1>3, <1>4, <1>5

\* What an exchange leaves.
LEMMA ExchangeUnmarked ==
    ASSUME IInv, OnOpened, Unmarked, ~CipherChains, AnswersMaced, Exchange
    PROVE  Unmarked'
  <1>0. ~Marked(NoSession)
    BY NoSessionType DEF WellFormed, NoSession
  <1>1. PICK c \in Api :
          CallRefused(c) \/ CallLost(c) \/ CallCutShort(c) \/ CallRejected(c) \/ CallDone(c)
    BY DEF Exchange
  <1> DEFINE q == Request(c)
             f == Frame(q)
  <1> SUFFICES ~Marked(card') /\ (~apart' => ~Marked(reader'))
    BY DEF Unmarked, Marked
  <1>2. ~Marked(card) /\ ~Marked(CardAnswered(q, f))
    BY CardUnmarked DEF Unmarked
  <1>3. CASE CallRefused(c)
    BY <1>3 DEF CallRefused, sessions, Unmarked
  <1>4. CASE CallLost(c) \/ CallCutShort(c) \/ CallRejected(c)
    BY <1>0, <1>2, <1>4 DEF CallLost, CallCutShort, CallRejected
  <1>5. CASE CallDone(c)
    <2>1. PICK n \in c.ans :
            LET d == channel_decode(Counted(Encoded(reader, q)), q, Answer(q, f, n))
            IN  /\ reader' = Kept(c, d.s)
                /\ apart' = (apart /\ ~(d.verified /\ ~ends_session(c, reader)))
      BY <1>5 DEF CallDone
    <2> DEFINE d == channel_decode(Counted(Encoded(reader, q)), q, Answer(q, f, n))
    <2>2. CardAccepts(q, f) /\ card' = CardAnswered(q, f)
      BY <1>5 DEF CallDone
    <2>3. reader.chan = "EV1" => c.cmd \notin Unmaced
      BY DEF OnOpened, AnswersMaced
    <2>4. ASSUME ~apart' PROVE d.verified \/ reader = card
      <3>1. CASE apart
        BY <2>1, <2>4, <3>1
      <3>2. CASE ~apart
        <4>1. ~Marked(reader) /\ ~Marked(card) /\ Near(reader, card)
          BY <3>2 DEF Unmarked, IInv, Agreement
        <4> QED BY <4>1 DEF Near
      <3> QED BY <3>1, <3>2
    <2>5. d.verified \/ reader = card => ~Marked(Kept(c, d.s))
      BY <1>2, <2>2, <2>3, ReaderUnmarked
    <2> QED BY <1>2, <2>1, <2>2, <2>4, <2>5
  <1> QED BY <1>1, <1>3, <1>4, <1>5

\* The other calls open unmarked sessions, keep the ones there are or close them.
LEMMA OthersUnmarked ==
    ASSUME IInv, Unmarked, Authentication \/ Selection \/ Local \/ UNCHANGED vars
    PROVE  Unmarked'
  <1>0. ~Marked(NoSession)
    BY NoSessionType DEF WellFormed, NoSession
  <1> SUFFICES ~Marked(card') /\ (~apart' => ~Marked(reader'))
    BY DEF Unmarked, Marked
  <1>1. reader \in Sessions /\ card \in Sessions /\ WellFormed(reader) /\ WellFormed(card)
    BY DEF IInv, TypeOK
  <1> USE DEF Unmarked
  <1>2. \A ch, k, kn, kt : ~Marked(Established(ch, k, kn, kt))
    <2> SUFFICES ASSUME NEW ch, NEW k, NEW kn, NEW kt
                 PROVE  ~Marked(Established(ch, k, kn, kt))
      OBVIOUS
    <2> DEFINE iv == IF ch = "LRP" THEN <<"block">> ELSE << >>
    <2>1. \A i \in DOMAIN iv : iv[i] \notin OneSided
      BY DEF OneSided
    <2>2. Established(ch, k, kn, kt).iv = iv
      BY DEF Established
    <2> HIDE DEF iv
    <2> QED BY <2>1, <2>2 DEF Marked
  <1>3. \A k, kn : ~Marked(Rekeyed(reader, k, kn)) /\ ~Marked(Rekeyed(card, k, kn))
    <2>1. \A k, kn : Rekeyed(reader, k, kn).iv = << >> /\ Rekeyed(card, k, kn).iv = << >>
      BY <1>1 DEF Rekeyed, Sessions
    <2> HIDE DEF Unmarked
    <2> QED BY <2>1 DEF Marked
  <1>4. CASE Authentication
    <2>1. ASSUME NEW ch \in Channels, NEW kt \in KeyTypes,
                 AuthUnsupported(ch, kt) \/ AuthRefused(ch, kt)
          PROVE  ~Marked(card') /\ (~apart' => ~Marked(reader'))
      BY <1>0, <2>1 DEF AuthUnsupported, AuthRefused
    <2>2. ASSUME NEW ch \in Channels, NEW kt \in KeyTypes, NEW kn \in KeyNos,
                 Authenticate(ch, kn, kt) \/ AuthLost(ch, kn, kt)
          PROVE  ~Marked(card') /\ (~apart' => ~Marked(reader'))
      BY <1>0, <1>2, <2>2 DEF Authenticate, AuthLost
    <2>3. ASSUME NonFirstRefusedLocally \/ NonFirstRefused
          PROVE  ~Marked(card') /\ (~apart' => ~Marked(reader'))
      BY <1>0, <2>3 DEF NonFirstRefusedLocally, NonFirstRefused, sessions
    <2>4. ASSUME NEW kn \in KeyNos, AuthenticateNonFirst(kn) \/ NonFirstLost(kn)
          PROVE  ~Marked(card') /\ (~apart' => ~Marked(reader'))
      BY <1>0, <1>3, <2>4 DEF AuthenticateNonFirst, NonFirstLost
    <2> QED BY <1>4, <2>1, <2>2, <2>3, <2>4 DEF Authentication
  <1>5. CASE Selection
    BY <1>0, <1>5 DEF Selection, SelectDone, SelectRejected, SelectLost, SelectStart,
       IsoExchange, ntag424_select
  <1>6. CASE Local
    BY <1>0, <1>6 DEF Local, ResetChannel, Reopen, FieldLost, GetDfNamesRefused, GetDfNames,
       ProximityCheck, SetIsoChaining, sessions
  <1>7. CASE UNCHANGED vars
    BY <1>7 DEF vars
  <1> QED BY <1>4, <1>5, <1>6, <1>7

\* With such a card CarriedOutReported holds of every step before which nothing has
\* happened to separate the two sides: the IV of each is then the other's
\* (decode_ev1(), as tests/mockcard.c answers it).
THEOREM NothingLostReported ==
    ASSUME ~CipherChains, Ev1KeepsItsKey, LegacyIsNative, AnswersMaced
    PROVE  Spec => NothingLostIsReported
  <1>1. Init => OnOpened /\ Unmarked
    BY NoSessionType DEF Init, OnOpened, NoSession, Unmarked, WellFormed
  <1>2. IInv /\ OnOpened /\ Unmarked /\ [Next]_vars => OnOpened' /\ Unmarked'
    BY OpenedStays, ExchangeUnmarked, OthersUnmarked DEF Next
  <1>3. IInv /\ Unmarked /\ ~apart => reader = card
    BY DEF IInv, Agreement, Unmarked, Near
  <1>4. IInv /\ Unmarked /\ [reader = card /\ last'.done /\ last'.owed
                               => last'.rc = "OK" /\ last'.exact]_vars
          => [~apart /\ last'.done /\ last'.owed => last'.rc = "OK" /\ last'.exact]_vars
    BY <1>3
  <1>5. Spec => [][reader = card /\ last'.done /\ last'.owed
                     => last'.rc = "OK" /\ last'.exact]_vars
    BY CarriedOutReported DEF CarriedOutIsReported
  <1> QED BY <1>1, <1>2, <1>4, <1>5, Inductive, PTL DEF Spec, NothingLostIsReported
=============================================================================
