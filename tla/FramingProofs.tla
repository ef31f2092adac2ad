--------------------------- MODULE FramingProofs ---------------------------
(***************************************************************************)
(* nxpsc_raw_exchange_ex() implements OneExchange: machine-checked, for    *)
(* every size of frame, payload, answer and buffer.                        *)
(***************************************************************************)
EXTENDS Framing, SequenceTheorems, TLAPS

USE FramingAssumption

Byte == Nat \X Nat

Entries == [call : Nat, payload : Seq(Byte), answer : Answers]

\* the card has carried the running call out, and has a bytes to answer
Ran(l, a) == l # << >> /\ l[Len(l)].call = call /\ l[Len(l)].answer = a

\* the log after the card carries the running call out
Carried(a) == Append(log, [call |-> call, payload |-> Bytes(call, 0, len), answer |-> a])

TypeInv ==
    /\ TypeOK
    /\ pc # "idle" => call # 0
    /\ result \in [rc : One!Rcs, data : Seq(Byte)]
    /\ log \in Seq(Entries)

\* no entry of the log is of a call to come, and none of this one until it is sent
Past ==
    /\ \A i \in 1..Len(log) : log[i].call <= call
    /\ pc = "sending" => \A i \in 1..Len(log) : log[i].call # call

\* half way through the request, the card holds exactly what was acknowledged
Sending ==
    pc = "sending" =>
        /\ result.data = << >>
        /\ sent = 0 \/ sent < len
        /\ sent # 0 => card = Receiving(call, Bytes(call, 0, sent), len)

\* half way through the answer, the card goes on behind what the buffer holds
AnsweringAt(k, l, n) ==
    \E a \in Answers : /\ Ran(l, a) /\ k = Answering(call, n, a)
                       /\ a # Endless => n <= a

Following == pc = "following" => AnsweringAt(card, log, Len(result.data))

Inv == TypeInv /\ Past /\ Sending /\ Following

-----------------------------------------------------------------------------
(***************************************************************************)
(* Bytes.                                                                  *)
(***************************************************************************)
\* A run of bytes has the length it says.
LEMMA BytesType ==
    ASSUME NEW c \in Nat, NEW i \in Nat, NEW n \in Nat
    PROVE  Bytes(c, i, n) \in Seq(Byte) /\ Len(Bytes(c, i, n)) = n
  BY DEF Bytes, One!Bytes, Byte

\* No bytes are the empty sequence.
LEMMA BytesEmpty == ASSUME NEW c \in Nat, NEW i \in Nat PROVE Bytes(c, i, 0) = << >>
  BY DEF Bytes, One!Bytes

\* Two runs of bytes that follow on each other are one.
LEMMA BytesConcat ==
    ASSUME NEW c \in Nat, NEW i \in Nat, NEW n \in Nat
    PROVE  Bytes(c, 0, i) \o Bytes(c, i, n) = Bytes(c, 0, i + n)
  <1> DEFINE s == Bytes(c, 0, i)  t == Bytes(c, i, n)  u == Bytes(c, 0, i + n)
  <1>1. s \in Seq(Byte) /\ Len(s) = i
    BY BytesType
  <1>2. t \in Seq(Byte) /\ Len(t) = n
    BY BytesType
  <1>3. u \in Seq(Byte) /\ Len(u) = i + n
    BY BytesType
  <1>4. ASSUME NEW j \in 1..(i + n)
        PROVE  u[j] = IF j <= i THEN s[j] ELSE t[j - i]
    <2>1. CASE j <= i
      BY <2>1 DEF Bytes, One!Bytes
    <2>2. CASE ~(j <= i)
      BY <2>2 DEF Bytes, One!Bytes
    <2> QED BY <2>1, <2>2
  <1> HIDE DEF s, t, u
  <1>5. /\ s \o t \in Seq(Byte) /\ Len(s \o t) = i + n
        /\ \A j \in 1..(i + n) : (s \o t)[j] = IF j <= i THEN s[j] ELSE t[j - i]
    BY <1>1, <1>2, ConcatProperties
  <1>6. s \o t = u
    BY <1>3, <1>4, <1>5, SeqEqual
  <1> QED BY <1>6 DEF s, t, u

-----------------------------------------------------------------------------
(***************************************************************************)
(* A frame, on the card's side.                                            *)
(***************************************************************************)
\* A frame of an answer carries the bytes behind those sent before, none past its
\* end, and the last of a success ends there.
LEMMA EmissionsSound ==
    ASSUME NEW c \in Nat, NEW p \in Nat, NEW a \in Answers, a # Endless => p <= a,
           NEW l, NEW o \in Emissions(Answering(c, p, a), l)
    PROVE  /\ o.log = l
           /\ \E n \in Nat :
                 /\ o.data = Bytes(c, p, n)
                 /\ \/ /\ o.status = "AF" /\ o.card = Answering(c, p + n, a)
                       /\ a # Endless => p + n <= a
                    \/ o.status = "OK" /\ a = p + n
  <1> DEFINE k == Answering(c, p, a)
             left == IF k.answer = Endless THEN CardFrame ELSE k.answer - k.pos
             Emit(s, n) == Outcome(IF s = "AF" THEN Answering(k.call, k.pos + n, k.answer) ELSE Idle,
                                   s, Bytes(k.call, k.pos, n), l)
  <1>1. k.call = c /\ k.pos = p /\ k.answer = a
    BY DEF Answering
  <1>2. left \in Nat /\ (a # Endless => left = a - p)
    BY <1>1 DEF Answers
  <1>3. \/ \E n \in 1..AtMost(left, CardFrame) : o = Emit("AF", n)
        \/ a # Endless /\ o = Emit("OK", left)
    BY <1>1 DEF Emissions
  <1> HIDE DEF k, left
  <1>4. CASE \E n \in 1..AtMost(left, CardFrame) : o = Emit("AF", n)
    <2>1. PICK n \in 1..AtMost(left, CardFrame) : o = Emit("AF", n)
      BY <1>4
    <2>2. n \in Nat /\ n <= left
      BY <1>2 DEF AtMost
    <2>3. o = [card |-> Answering(c, p + n, a), status |-> "AF", data |-> Bytes(c, p, n), log |-> l]
      BY <1>1, <2>1, <2>2 DEF Outcome
    <2>4. a # Endless => p + n <= a
      BY <1>2, <2>2 DEF Answers
    <2> QED BY <2>2, <2>3, <2>4
  <1>5. CASE a # Endless /\ o = Emit("OK", left)
    <2>1. o = [card |-> Idle, status |-> "OK", data |-> Bytes(c, p, left), log |-> l]
      BY <1>1, <1>5 DEF Outcome
    <2>2. a = p + left
      BY <1>2, <1>5 DEF Answers
    <2> QED BY <1>2, <2>1, <2>2
  <1> QED BY <1>3, <1>4, <1>5

\* A piece goes no further than the payload, and somewhere if there is any left.
LEMMA PieceSound ==
    ASSUME Inv
    PROVE  \E m \in Nat : /\ Piece = Bytes(call, sent, m) /\ Len(Piece) = m
                          /\ sent + m <= len /\ (sent < len => m > 0)
  <1> DEFINE m == AtMost(len - sent, NXPSC_TX_FRAME_MAX)
  <1>1. call \in Nat /\ sent \in Nat /\ len \in Nat /\ sent <= len
    BY DEF Inv, TypeInv, TypeOK, Payloads
  <1>2. m \in Nat /\ sent + m <= len /\ (sent < len => m > 0)
    BY <1>1 DEF AtMost
  <1>3. Piece = Bytes(call, sent, m)
    BY DEF Piece
  <1> HIDE DEF m
  <1> QED BY <1>1, <1>2, <1>3, BytesType

\* A refusal leaves neither the card nor the log with anything of the call.
LEMMA RefusalSound ==
    Refusal.status = "error" /\ Refusal.data = << >> /\ Refusal.log = log
  BY DEF Refusal, Outcome

\* A frame of the request is refused, or kept with those before it, or is the last
\* and has the card carry out exactly the payload.
LEMMA RequestSound ==
    ASSUME Inv, pc = "sending", NEW o \in CardOutcomes(SendCmd, Piece)
    PROVE  \E m \in Nat :
              /\ Piece = Bytes(call, sent, m) /\ Len(Piece) = m
              /\ sent + m <= len /\ (sent < len => m > 0)
              /\ \/ o = Refusal
                 \/ /\ sent + m < len
                    /\ o = Outcome(Receiving(call, Bytes(call, 0, sent + m), len), "AF", << >>, log)
                 \/ /\ sent + m = len
                    /\ \E a \in Answers :
                          o \in Emissions(Answering(call, 0, a), Carried(a))
  <1>1. PICK m \in Nat : /\ Piece = Bytes(call, sent, m) /\ Len(Piece) = m
                         /\ sent + m <= len /\ (sent < len => m > 0)
    BY PieceSound
  <1>2. call \in Nat /\ sent \in Nat /\ len \in Nat
    BY DEF Inv, TypeInv, TypeOK, Payloads
  <1> DEFINE whole == Bytes(call, 0, sent + m)
  <1>3. Len(whole) = sent + m
    BY <1>1, <1>2, BytesType
  <1>4. whole = Bytes(call, 0, sent) \o Piece
    <2>1. Bytes(call, 0, sent) \o Bytes(call, sent, m) = whole
      BY <1>2, BytesConcat
    <2> QED BY <1>1, <2>1
  <1>5. sent + m = len => whole = Bytes(call, 0, len)
    OBVIOUS
  <1> HIDE DEF whole
  <1>6. o = Refusal \/ o \in Receptions(whole, len, call)
    <2>1. CASE sent = 0
      <3>1. whole = Piece
        BY <1>1, <2>1 DEF whole
      <3> QED BY <2>1, <3>1 DEF SendCmd, CardOutcomes
    <2>2. CASE sent # 0
      <3>1. SendCmd = "AF" /\ card = Receiving(call, Bytes(call, 0, sent), len)
        BY <2>2 DEF SendCmd, Inv, Sending
      <3>2. /\ card.doing = "receiving" /\ card.in = Bytes(call, 0, sent)
            /\ card.need = len /\ card.call = call
        BY <3>1 DEF Receiving
      <3> QED BY <1>4, <2>2, <3>1, <3>2 DEF CardOutcomes
    <2> QED BY <2>1, <2>2
  <1>7. CASE o \in Receptions(whole, len, call)
    <2>1. CASE sent + m < len
      <3>1. o = Outcome(Receiving(call, whole, len), "AF", << >>, log)
        BY <1>3, <1>7, <2>1 DEF Receptions
      <3> QED BY <1>1, <2>1, <3>1 DEF whole
    <2>2. CASE sent + m = len
      <3>1. PICK a \in Answers :
                o \in Emissions(Answering(call, 0, a),
                                Append(log, [call |-> call, payload |-> whole, answer |-> a]))
        <4>1. ~(Len(whole) < len)
          BY <1>2, <1>3, <2>2
        <4> QED BY <1>7, <4>1 DEF Receptions
      <3> QED BY <1>1, <1>5, <2>2, <3>1 DEF Carried
    <2>3. sent + m < len \/ sent + m = len
      BY <1>1, <1>2
    <2> QED BY <2>1, <2>2, <2>3
  <1> QED BY <1>1, <1>6, <1>7

\* While the library follows, the card refuses or sends the next frame.
LEMMA FollowSound ==
    ASSUME NEW p \in Nat, NEW a \in Answers, card = Answering(call, p, a),
           NEW o \in CardOutcomes("AF", << >>)
    PROVE  o = Refusal \/ o \in Emissions(Answering(call, p, a), log)
  <1>1. card.doing = "answering"
    BY DEF Answering
  <1> QED BY <1>1 DEF CardOutcomes

-----------------------------------------------------------------------------
(***************************************************************************)
(* A frame, on the library's side.                                         *)
(***************************************************************************)
\* result, its data the first bytes of the running call's answer that fit
Buffered(r) ==
    /\ r \in [rc : One!Rcs, data : Seq(Byte)]
    /\ Len(r.data) <= Cap
    /\ r.data = Bytes(call, 0, Len(r.data))

\* What was carried out is the last of the log.
LEMMA CarriedSound ==
    ASSUME Inv, NEW a \in Answers
    PROVE  /\ Carried(a) \in Seq(Entries) /\ Ran(Carried(a), a)
           /\ \A i \in 1..Len(Carried(a)) : Carried(a)[i].call <= call
  <1> DEFINE e == [call |-> call, payload |-> Bytes(call, 0, len), answer |-> a]
  <1>1. call \in Nat /\ len \in Nat /\ log \in Seq(Entries)
    BY DEF Inv, TypeInv, TypeOK, Payloads
  <1>2. e \in Entries
    BY <1>1, BytesType DEF Entries
  <1>3. e.call = call /\ e.answer = a
    OBVIOUS
  <1>4. \A i \in 1..Len(log) : log[i].call <= call
    BY DEF Inv, Past
  <1> HIDE DEF e
  <1>5. /\ Append(log, e) \in Seq(Entries) /\ Append(log, e) # << >>
        /\ Len(Append(log, e)) = Len(log) + 1 /\ Len(log) \in Nat
        /\ \A i \in 1..Len(log) : Append(log, e)[i] = log[i]
        /\ Append(log, e)[Len(log) + 1] = e
    BY <1>1, <1>2, AppendProperties
  <1>6. Ran(Append(log, e), a)
    BY <1>3, <1>5 DEF Ran
  <1>7. ASSUME NEW i \in 1..Len(Append(log, e)) PROVE Append(log, e)[i].call <= call
    <2>1. i \in 1..Len(log) \/ i = Len(log) + 1
      BY <1>5
    <2> QED BY <1>1, <1>3, <1>4, <1>5, <2>1
  <1> QED BY <1>5, <1>6, <1>7 DEF Carried, e

\* Collecting a frame of the answer keeps the buffer and the card in step, and a
\* success has the whole answer.
LEMMA CollectSound ==
    ASSUME Inv, NEW a \in Answers, a # Endless => Len(result.data) <= a,
           NEW l, NEW o \in Emissions(Answering(call, Len(result.data), a), l),
           Collect(o)
    PROVE  /\ o.log = l /\ o.status \in {"OK", "AF"} /\ pc' \in {"idle", "following"}
           /\ Buffered(result')
           /\ pc' = "following" =>
                 /\ o.card = Answering(call, Len(result'.data), a)
                 /\ a # Endless => Len(result'.data) <= a
           /\ pc' = "idle" /\ result'.rc = "OK" => a = Len(result'.data)
  <1> DEFINE p == Len(result.data)
  <1>1. /\ call \in Nat /\ p \in Nat /\ result.data = Bytes(call, 0, p)
        /\ result \in [rc : One!Rcs, data : Seq(Byte)]
    BY DEF Inv, TypeInv, TypeOK
  <1> HIDE DEF p
  <1>2. PICK n \in Nat :
            /\ o.log = l
            /\ o.data = Bytes(call, p, n)
            /\ \/ /\ o.status = "AF" /\ o.card = Answering(call, p + n, a)
                  /\ a # Endless => p + n <= a
               \/ o.status = "OK" /\ a = p + n
    BY <1>1, EmissionsSound DEF p
  <1>3. Collected(o.data) = Bytes(call, 0, p + n)
    <2> call \in Nat /\ p \in Nat
      BY <1>1
    <2>1. Bytes(call, 0, p) \o Bytes(call, p, n) = Bytes(call, 0, p + n)
      BY BytesConcat
    <2> QED BY <1>1, <1>2, <2>1 DEF Collected
  <1> DEFINE d == Collected(o.data)
  <1>4. d \in Seq(Byte) /\ Len(d) = p + n /\ d = Bytes(call, 0, Len(d))
    <2> call \in Nat /\ p + n \in Nat
      BY <1>1
    <2> QED BY <1>3, BytesType
  <1> HIDE DEF d
  <1>5. CASE Len(d) > Cap
    <2>1. pc' = "idle" /\ result' = [rc |-> "LENGTH", data |-> << >>]
      BY <1>5 DEF Collect, Return, d
    <2>2. << >> \in Seq(Byte) /\ Len(<< >>) = 0 /\ << >> = Bytes(call, 0, 0)
      BY <1>1, BytesEmpty
    <2>3. Buffered(result')
      BY <2>1, <2>2 DEF Buffered, One!Rcs
    <2> QED BY <1>2, <2>1, <2>3
  <1>6. CASE ~(Len(d) > Cap) /\ follow_af /\ o.status = "AF"
    <2>1. pc' = "following" /\ result' = [result EXCEPT !.data = d]
      BY <1>6 DEF Collect, d
    <2>2. result' \in [rc : One!Rcs, data : Seq(Byte)] /\ result'.data = d
      BY <1>1, <1>4, <2>1
    <2>3. Buffered(result')
      BY <1>1, <1>4, <1>6, <2>2 DEF Buffered
    <2> QED BY <1>2, <1>4, <1>6, <2>1, <2>2, <2>3
  <1>7. CASE ~(Len(d) > Cap) /\ ~(follow_af /\ o.status = "AF")
    <2>1. /\ pc' = "idle"
          /\ result' = [rc |-> IF o.status = "OK" THEN "OK" ELSE "STATUS", data |-> d]
      BY <1>7 DEF Collect, Return, d
    <2>2. result' \in [rc : One!Rcs, data : Seq(Byte)] /\ result'.data = d
      BY <1>4, <2>1 DEF One!Rcs
    <2>3. Buffered(result')
      BY <1>1, <1>4, <1>7, <2>2 DEF Buffered
    <2>4. result'.rc = "OK" => o.status = "OK"
      BY <2>1
    <2> QED BY <1>2, <1>4, <2>1, <2>2, <2>3, <2>4
  <1> QED BY <1>5, <1>6, <1>7

\* A refused frame ends the call, and not with a success.
LEMMA RefusedSound ==
    ASSUME Inv, Collect(Refusal)
    PROVE  /\ pc' = "idle" /\ Buffered(result') /\ result'.rc # "OK"
           /\ Refusal.log = log /\ Refusal.status = "error"
  <1>1. /\ call \in Nat /\ result.data \in Seq(Byte)
        /\ Len(result.data) <= Cap /\ result.data = Bytes(call, 0, Len(result.data))
    BY DEF Inv, TypeInv, TypeOK
  <1>2. << >> \in Seq(Byte) /\ Len(<< >>) = 0 /\ << >> = Bytes(call, 0, 0)
    BY <1>1, BytesEmpty
  <1>3. Collected(Refusal.data) = result.data
    BY <1>1, RefusalSound, ConcatEmptySeq DEF Collected
  <1>4. /\ pc' = "idle"
        /\ \/ result' = [rc |-> "LENGTH", data |-> << >>]
           \/ result' = [rc |-> "STATUS", data |-> result.data]
    BY <1>3, RefusalSound DEF Collect, Return
  <1>5. Buffered(result') /\ result'.rc # "OK"
    <2>1. CASE result' = [rc |-> "LENGTH", data |-> << >>]
      BY <1>2, <2>1 DEF Buffered, One!Rcs
    <2>2. CASE result' = [rc |-> "STATUS", data |-> result.data]
      BY <1>1, <2>2 DEF Buffered, One!Rcs
    <2> QED BY <1>4, <2>1, <2>2
  <1> QED BY <1>4, <1>5, RefusalSound

-----------------------------------------------------------------------------
(***************************************************************************)
(* The steps.                                                              *)
(***************************************************************************)
\* a step of a call that ends it or goes on with its answer
Proceeds ==
    /\ pc # "idle" /\ pc' \in {"idle", "following"}
    /\ UNCHANGED <<call, len, follow_af>> /\ sent' \in 0..len
    /\ status' \in {"OK", "AF", "error"}
    /\ Buffered(result')
    /\ log' = log \/ (pc = "sending" /\ \E a \in Answers : log' = Carried(a))
    /\ pc' = "following" => AnsweringAt(card', log', Len(result'.data))
    /\ pc' = "idle" /\ result'.rc = "OK" => \E a \in Answers : Ran(log', a) /\ a = Len(result'.data)

\* Such a step preserves the invariant.
LEMMA ProceedsInv == ASSUME Inv, Proceeds PROVE Inv'
  <1>1. log' \in Seq(Entries) /\ \A i \in 1..Len(log') : log'[i].call <= call
    <2>1. CASE log' = log
      BY <2>1 DEF Inv, TypeInv, Past
    <2>2. CASE \E a \in Answers : log' = Carried(a)
      BY <2>2, CarriedSound
    <2> QED BY <2>1, <2>2 DEF Proceeds
  <1>2. TypeInv'
    <2>1. TypeOK'
      BY DEF Inv, TypeInv, TypeOK, Proceeds, Buffered, Bytes, One!Bytes
    <2>2. (pc # "idle" => call # 0)'
      BY DEF Inv, TypeInv, Proceeds
    <2>3. (result \in [rc : One!Rcs, data : Seq(Byte)])'
      BY DEF Proceeds, Buffered
    <2> QED BY <1>1, <2>1, <2>2, <2>3 DEF TypeInv
  <1>3. Past'
    BY <1>1 DEF Proceeds, Past
  <1>4. Sending'
    BY DEF Proceeds, Sending
  <1>5. Following'
    BY DEF Proceeds, Following, AnsweringAt, Ran
  <1> QED BY <1>2, <1>3, <1>4, <1>5 DEF Inv

\* The running call has not been carried out before its last frame is sent.
LEMMA NotYet == ASSUME Inv, pc = "sending" PROVE ~One!CarriedOut
  <1>1. log \in Seq(Entries) /\ \A i \in 1..Len(log) : log[i].call # call
    BY DEF Inv, TypeInv, Past
  <1>2. log # << >> => Len(log) \in 1..Len(log)
    BY <1>1
  <1> QED BY <1>1, <1>2 DEF One!CarriedOut

\* Such a step is one of the abstract call or invisible to it.
LEMMA ProceedsSimulates == ASSUME Inv, Proceeds PROVE One!Next \/ UNCHANGED One!vars
  <1>1. pc # "idle" /\ call # 0 /\ UNCHANGED <<call, len>>
    BY DEF Proceeds, Inv, TypeInv
  <1>2. log' = log \/ \E a \in Answers : One!Carry(a)
    <2>1. CASE pc = "sending" /\ \E a \in Answers : log' = Carried(a)
      BY <1>1, <2>1, NotYet DEF One!Carry, Carried, Bytes
    <2> QED BY <2>1 DEF Proceeds
  <1>3. CASE pc' = "following"
    <2>1. UNCHANGED <<IF pc = "idle" THEN 0 ELSE call, len>>
      BY <1>1, <1>3
    <2>2. CASE log' = log
      BY <1>1, <1>3, <2>2 DEF One!vars
    <2>3. CASE \E a \in Answers : One!Carry(a)
      BY <1>1, <1>3, <2>3 DEF One!Next, One!CarryOut
    <2> QED BY <1>2, <2>2, <2>3
  <1>4. CASE pc' = "idle"
    <2>1. result'.rc \in One!Rcs /\ result'.data = One!Bytes(call, 0, Len(result'.data))
      BY DEF Proceeds, Buffered, Bytes
    <2>2. result'.rc = "OK" => /\ log' # << >> /\ log'[Len(log')].call = call
                               /\ log'[Len(log')].answer = Len(result'.data)
      BY <1>4 DEF Proceeds, Ran
    <2>3. One!Return(result'.rc)
      BY <1>1, <1>2, <1>4, <2>1, <2>2 DEF One!Return
    <2> QED BY <2>1, <2>3 DEF One!Next
  <1> QED BY <1>3, <1>4 DEF Proceeds

\* A call that fails half way proceeds to its end, whatever the card made of the
\* frame.
LEMMA LostProceeds ==
    ASSUME Inv, SendLost \/ FollowLost
    PROVE  Proceeds
  <1> call \in Nat /\ Len(result.data) \in Nat
    BY DEF Inv, TypeInv, TypeOK
  <1>1. sent \in 0..len /\ status \in {"OK", "AF", "error"} /\ pc \in {"sending", "following"}
    BY DEF Inv, TypeInv, TypeOK, SendLost, FollowLost
  <1>2. PICK rc \in {"TRANSPORT", "LENGTH", "CARD"} : Failed(rc)
    BY DEF SendLost, FollowLost, Lost
  <1>3. /\ pc' = "idle" /\ result' = [rc |-> rc, data |-> << >>]
        /\ UNCHANGED <<call, len, follow_af, sent, status>>
    BY <1>2 DEF Failed, Return
  <1>4. << >> \in Seq(Byte) /\ Len(<< >>) = 0 /\ << >> = Bytes(call, 0, 0)
    BY BytesEmpty
  <1>5. Buffered(result')
    BY <1>3, <1>4 DEF Buffered, One!Rcs
  <1>6. log' = log \/ (pc = "sending" /\ \E a \in Answers : log' = Carried(a))
    <2>1. CASE SendLost
      <3>1. log' = log \/ \E o \in CardOutcomes(SendCmd, Piece) : log' = o.log
        BY <2>1 DEF SendLost, Lost
      <3>2. pc = "sending"
        BY <2>1 DEF SendLost
      <3>3. ASSUME NEW o \in CardOutcomes(SendCmd, Piece)
            PROVE  o.log = log \/ \E a \in Answers : o.log = Carried(a)
        <4>1. CASE o = Refusal
          BY <4>1, RefusalSound
        <4>2. CASE \E k : o = Outcome(k, "AF", << >>, log)
          BY <4>2 DEF Outcome
        <4>3. CASE \E a \in Answers : o \in Emissions(Answering(call, 0, a), Carried(a))
          <5>1. PICK a \in Answers : o \in Emissions(Answering(call, 0, a), Carried(a))
            BY <4>3
          <5>2. a # Endless => 0 <= a
            BY DEF Answers
          <5>3. o.log = Carried(a)
            BY <5>1, <5>2, EmissionsSound
          <5> QED BY <5>3
        <4> QED BY <3>2, <4>1, <4>2, <4>3, RequestSound
      <3> QED BY <3>1, <3>2, <3>3
    <2>2. CASE FollowLost
      <3>1. log' = log \/ \E o \in CardOutcomes("AF", << >>) : log' = o.log
        BY <2>2 DEF FollowLost, Lost
      <3>2. ASSUME NEW o \in CardOutcomes("AF", << >>) PROVE o.log = log
        <4>1. PICK a \in Answers : /\ card = Answering(call, Len(result.data), a)
                                   /\ a # Endless => Len(result.data) <= a
          BY <2>2 DEF FollowLost, Inv, Following, AnsweringAt
        <4>2. o = Refusal \/ o \in Emissions(Answering(call, Len(result.data), a), log)
          BY <4>1, FollowSound
        <4>3. CASE o \in Emissions(Answering(call, Len(result.data), a), log)
          BY <4>1, <4>3, EmissionsSound
        <4> QED BY <4>2, <4>3, RefusalSound
      <3> QED BY <3>1, <3>2
    <2> QED BY <2>1, <2>2
  <1> QED BY <1>1, <1>3, <1>5, <1>6 DEF Proceeds

\* A frame of the answer proceeds.
LEMMA FollowProceeds ==
    ASSUME Inv, FollowFrame
    PROVE  Proceeds
  <1>1. PICK o \in CardOutcomes("AF", << >>) :
            card' = o.card /\ log' = o.log /\ status' = o.status /\ Collect(o)
    BY DEF FollowFrame
  <1> Len(result.data) \in Nat
    BY DEF Inv, TypeInv
  <1>2. /\ pc = "following" /\ pc # "idle"
        /\ UNCHANGED <<call, len, follow_af>> /\ sent' \in 0..len
    BY DEF FollowFrame, Inv, TypeInv, TypeOK
  <1>3. PICK a \in Answers : /\ Ran(log, a) /\ card = Answering(call, Len(result.data), a)
                             /\ a # Endless => Len(result.data) <= a
    BY <1>2 DEF Inv, Following, AnsweringAt
  <1>4. CASE o = Refusal
    <2>1. /\ pc' = "idle" /\ Buffered(result') /\ result'.rc # "OK"
          /\ log' = log /\ status' = "error"
      BY <1>1, <1>4, RefusedSound
    <2> QED BY <1>2, <2>1 DEF Proceeds
  <1>5. CASE o \in Emissions(Answering(call, Len(result.data), a), log)
    <2>1. /\ o.log = log /\ o.status \in {"OK", "AF"} /\ pc' \in {"idle", "following"}
          /\ Buffered(result')
          /\ pc' = "following" =>
                /\ o.card = Answering(call, Len(result'.data), a)
                /\ a # Endless => Len(result'.data) <= a
          /\ pc' = "idle" /\ result'.rc = "OK" => a = Len(result'.data)
      BY <1>1, <1>3, <1>5, CollectSound
    <2>2. pc' = "following" => AnsweringAt(card', log', Len(result'.data))
      BY <1>1, <1>3, <2>1 DEF AnsweringAt
    <2> QED BY <1>1, <1>2, <1>3, <2>1, <2>2 DEF Proceeds
  <1> QED BY <1>2, <1>3, <1>4, <1>5, FollowSound

\* A frame of the request, short of the last, was acknowledged: the next follows.
Acknowledged ==
    /\ pc = "sending" /\ pc' = "sending" /\ UNCHANGED <<call, len, follow_af, log, result>>
    /\ sent' \in 1..len /\ sent' < len
    /\ status' \in {"OK", "AF", "error"}
    /\ card' = Receiving(call, Bytes(call, 0, sent'), len)

\* A frame of the request was acknowledged or proceeds.
LEMMA SendAcknowledgedOrProceeds ==
    ASSUME Inv, SendFrame
    PROVE  Acknowledged \/ Proceeds
  <1>1. PICK o \in CardOutcomes(SendCmd, Piece) :
            /\ card' = o.card /\ log' = o.log /\ status' = o.status
            /\ sent' = sent + Len(Piece)
            /\ IF sent' = len THEN Collect(o)
               ELSE IF o.status = "AF" THEN UNCHANGED <<pc, result>>
               ELSE Return("CARD", << >>)
    BY DEF SendFrame
  <1>2. pc = "sending" /\ pc # "idle" /\ UNCHANGED <<call, len, follow_af>>
    BY DEF SendFrame
  <1> call \in Nat /\ sent \in Nat /\ len \in Nat
    BY DEF Inv, TypeInv, TypeOK, Payloads
  <1>3. PICK m \in Nat :
            /\ Len(Piece) = m /\ sent + m <= len /\ (sent < len => m > 0)
            /\ \/ o = Refusal
               \/ /\ sent + m < len
                  /\ o = Outcome(Receiving(call, Bytes(call, 0, sent + m), len), "AF", << >>, log)
               \/ /\ sent + m = len
                  /\ \E a \in Answers : o \in Emissions(Answering(call, 0, a), Carried(a))
    BY <1>2, RequestSound
  <1>4. sent' = sent + m /\ sent' \in 0..len /\ (sent' # len => sent' \in 1..len /\ sent' < len)
    BY <1>1, <1>3
  <1>5. CASE o = Refusal
    <2>1. log' = log /\ status' = "error"
      BY <1>1, <1>5, RefusalSound
    <2>2. CASE sent' = len
      <3>1. pc' = "idle" /\ Buffered(result') /\ result'.rc # "OK"
        BY <1>1, <1>5, <2>2, RefusedSound
      <3> QED BY <1>2, <1>4, <2>1, <3>1 DEF Proceeds
    <2>3. CASE sent' # len
      <3>1. pc' = "idle" /\ result' = [rc |-> "CARD", data |-> << >>]
        BY <1>1, <1>5, <2>3, RefusalSound DEF Return
      <3>2. << >> \in Seq(Byte) /\ Len(<< >>) = 0 /\ << >> = Bytes(call, 0, 0)
        BY BytesEmpty
      <3>3. Buffered(result') /\ result'.rc # "OK"
        BY <3>1, <3>2 DEF Buffered, One!Rcs
      <3> QED BY <1>2, <1>4, <2>1, <3>1, <3>3 DEF Proceeds
    <2> QED BY <2>2, <2>3
  <1>6. CASE /\ sent + m < len
             /\ o = Outcome(Receiving(call, Bytes(call, 0, sent + m), len), "AF", << >>, log)
    <2>1. /\ card' = Receiving(call, Bytes(call, 0, sent'), len)
          /\ log' = log /\ status' = "AF" /\ o.status = "AF"
      BY <1>1, <1>4, <1>6 DEF Outcome
    <2>2. sent' # len
      BY <1>4, <1>6
    <2>3. UNCHANGED <<pc, result>>
      BY <1>1, <2>1, <2>2
    <2> QED BY <1>2, <1>4, <2>1, <2>2, <2>3 DEF Acknowledged
  <1>7. ASSUME sent + m = len,
               NEW a \in Answers, o \in Emissions(Answering(call, 0, a), Carried(a))
        PROVE  Proceeds
    <2>1. Len(result.data) = 0 /\ (a # Endless => 0 <= a) /\ Collect(o)
      BY <1>1, <1>2, <1>4, <1>7 DEF Inv, Sending, Answers
    <2>2. /\ o.log = Carried(a) /\ o.status \in {"OK", "AF"} /\ pc' \in {"idle", "following"}
          /\ Buffered(result')
          /\ pc' = "following" =>
                /\ o.card = Answering(call, Len(result'.data), a)
                /\ a # Endless => Len(result'.data) <= a
          /\ pc' = "idle" /\ result'.rc = "OK" => a = Len(result'.data)
      BY <1>7, <2>1, CollectSound
    <2>3. Ran(log', a) /\ log' = Carried(a)
      BY <1>1, <2>2, CarriedSound
    <2>4. pc' = "following" => AnsweringAt(card', log', Len(result'.data))
      BY <1>1, <2>2, <2>3 DEF AnsweringAt
    <2> QED BY <1>1, <1>2, <1>4, <2>2, <2>3, <2>4 DEF Proceeds
  <1> QED BY <1>3, <1>5, <1>6, <1>7

\* The implementation starts as the abstract call does.
LEMMA InitInv == Init => Inv /\ One!Init
  <1> SUFFICES ASSUME Init PROVE Inv /\ One!Init
    OBVIOUS
  <1>1. << >> \in Seq(Byte) /\ Len(<< >>) = 0 /\ << >> = Bytes(0, 0, 0) /\ << >> \in Seq(Entries)
    BY BytesEmpty
  <1>2. pc = "idle" /\ call = 0 /\ len = 0 /\ sent = 0 /\ log = << >> /\ follow_af = TRUE
    BY DEF Init
  <1>3. result = [rc |-> "LENGTH", data |-> << >>] /\ status = "OK"
    BY DEF Init, One!NoResult
  <1>4. TypeInv
    BY <1>1, <1>2, <1>3 DEF TypeInv, TypeOK, Payloads, One!Rcs
  <1>5. Past /\ Sending /\ Following
    BY <1>2 DEF Past, Sending, Following
  <1>6. One!Init
    BY <1>2, <1>3 DEF One!Init, One!NoResult
  <1> QED BY <1>4, <1>5, <1>6 DEF Inv

\* A new call begins, and nothing of an earlier one is in the log under its number.
LEMMA CallSound ==
    ASSUME Inv, NEW n \in Payloads, NEW follow \in BOOLEAN, Call(n, follow)
    PROVE  Inv' /\ One!Next
  <1>1. /\ pc = "idle" /\ call \in Nat /\ call < MaxCalls /\ n \in Nat
        /\ pc' = "sending" /\ call' = call + 1 /\ len' = n /\ follow_af' = follow /\ sent' = 0
        /\ result' = [rc |-> "LENGTH", data |-> << >>]
        /\ UNCHANGED <<status, card, log>>
    BY DEF Call, One!NoResult, Inv, TypeInv, TypeOK, Payloads
  <1>2. << >> \in Seq(Byte) /\ Len(<< >>) = 0 /\ << >> = Bytes(call + 1, 0, 0)
    BY <1>1, BytesEmpty
  <1>3. /\ log \in Seq(Entries) /\ status \in {"OK", "AF", "error"}
        /\ \A i \in 1..Len(log) : log[i].call \in Nat /\ log[i].call <= call
    <2>1. /\ log \in Seq(Entries) /\ status \in {"OK", "AF", "error"}
          /\ \A i \in 1..Len(log) : log[i].call <= call
      BY DEF Inv, TypeInv, TypeOK, Past
    <2>2. ASSUME NEW i \in 1..Len(log) PROVE log[i].call \in Nat
      <3>1. log[i] \in Entries
        BY <2>1, ElementOfSeq
      <3> QED BY <3>1 DEF Entries
    <2> QED BY <2>1, <2>2
  <1>4. \A i \in 1..Len(log) : log[i].call <= call + 1 /\ log[i].call # call + 1
    BY <1>1, <1>3
  <1>5. TypeInv'
    <2>1. (result \in [rc : One!Rcs, data : Seq(Byte)])' /\ result'.rc \in One!Rcs
      BY <1>1, <1>2 DEF One!Rcs
    <2>2. result'.data = << >>
      BY <1>1
    <2>3. (result.data = Bytes(call, 0, Len(result.data)))'
      BY <1>1, <1>2, <2>2 DEF Bytes, One!Bytes
    <2>4. TypeOK'
      BY <1>1, <1>2, <1>3, <2>1, <2>2, <2>3 DEF TypeOK
    <2> QED BY <1>1, <1>3, <2>1, <2>4 DEF TypeInv
  <1>6. Past'
    BY <1>1, <1>4 DEF Past
  <1>7. Sending' /\ Following'
    BY <1>1 DEF Sending, Following
  <1>8. One!Next
    <2>1. One!Begin(call + 1, n)
      BY <1>1, <1>4 DEF One!Begin, One!NoResult
    <2>2. call + 1 \in 1..MaxCalls
      BY <1>1
    <2> QED BY <2>1, <2>2 DEF One!Next
  <1> QED BY <1>5, <1>6, <1>7, <1>8 DEF Inv

\* An acknowledged frame preserves the invariant and is invisible.
LEMMA AcknowledgedSound == ASSUME Inv, Acknowledged PROVE Inv' /\ UNCHANGED One!vars
  <1>1. TypeInv'
    BY DEF Inv, TypeInv, TypeOK, Acknowledged, Payloads, Bytes, One!Bytes
  <1>2. Past'
    BY DEF Inv, Past, Acknowledged
  <1>3. Sending'
    BY DEF Inv, Sending, Acknowledged, Bytes, One!Bytes
  <1>4. Following'
    BY DEF Following, Acknowledged
  <1>5. UNCHANGED One!vars
    BY DEF One!vars, Acknowledged
  <1> QED BY <1>1, <1>2, <1>3, <1>4, <1>5 DEF Inv

\* Every step preserves the invariant and is one of the abstract call or invisible.
LEMMA StepSound ==
    ASSUME Inv, [Next]_vars
    PROVE  Inv' /\ [One!Next]_One!vars
  <1>1. CASE \E n \in Payloads, follow \in BOOLEAN : Call(n, follow)
    BY <1>1, CallSound
  <1>2. CASE SendFrame
    BY <1>2, SendAcknowledgedOrProceeds, AcknowledgedSound, ProceedsInv, ProceedsSimulates
  <1>3. CASE SendLost
    BY <1>3, LostProceeds, ProceedsInv, ProceedsSimulates
  <1>4. CASE FollowFrame
    BY <1>4, FollowProceeds, ProceedsInv, ProceedsSimulates
  <1>5. CASE FollowLost
    BY <1>5, LostProceeds, ProceedsInv, ProceedsSimulates
  <1>6. CASE UNCHANGED vars
    <2>1. Inv'
      BY <1>6 DEF vars, Inv, TypeInv, TypeOK, Past, Sending, Following, AnsweringAt, Ran, Bytes, One!Bytes
    <2> QED BY <1>6, <2>1 DEF vars, One!vars
  <1> QED BY <1>1, <1>2, <1>3, <1>4, <1>5, <1>6 DEF Next, Step

-----------------------------------------------------------------------------
(***************************************************************************)
(* The theorems.                                                           *)
(***************************************************************************)
\* The buffer never holds more than it has room for, nor anything but the running
\* call's answer from its first byte on, for every size of it and of the frames
\* (nxpsc_raw_exchange_ex() in nxpsc_core.c).
THEOREM FramingTypeOK == Spec => []TypeOK
  <1>1. Inv /\ [Next]_vars => Inv'
    BY StepSound
  <1>2. Inv => TypeOK
    BY DEF Inv, TypeInv
  <1> QED BY InitInv, <1>1, <1>2, PTL DEF Spec

\* Chaining is invisible: frame by frame, nxpsc_raw_exchange_ex() does nothing that
\* one command carried out at most once, on its whole payload, would not do.
THEOREM FramingImplements == Spec => Implements
  <1>1. Inv /\ [Next]_vars => Inv' /\ [One!Next]_One!vars
    BY StepSound
  <1> QED BY InitInv, <1>1, PTL DEF Spec, Implements, One!Spec
=============================================================================
