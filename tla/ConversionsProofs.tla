------------------------- MODULE ConversionsProofs -------------------------
(***************************************************************************)
(* The properties of Conversions as theorems of its specification, for     *)
(* every block size, any bytes and payloads of any length.  A behaviour is *)
(* one call, so the invariant only says that the output is what the        *)
(* algorithm returns for the input; the promises themselves are lemmas of  *)
(* CodecProofs and the first two sections here, about data of any length.  *)
(***************************************************************************)
EXTENDS Conversions, SdmSettingsProofs

-----------------------------------------------------------------------------
(***************************************************************************)
(* Finding a CRC in a deciphered answer.                                   *)
(***************************************************************************)
\* pos, where the search starts: nothing but zeros follows it
LEMMA StrippedIs ==
  ASSUME NEW data \in Seq(Octets)
  PROVE  /\ Stripped(data) \in Nat /\ Stripped(data) >= 1
         /\ Stripped(data) = 1 \/ (Stripped(data) \in 1..Len(data) /\ data[Stripped(data)] # 0)
         /\ \A i \in 1..Len(data) : i > Stripped(data) => data[i] = 0
  <1> DEFINE T == {1} \cup {i \in DOMAIN data : data[i] # 0}
             top == Len(data) + 1
             pos == Stripped(data)
  <1>1. DOMAIN data = 1..Len(data) /\ Len(data) \in Nat
    OBVIOUS
  <1>2. top \in Nat /\ T \in SUBSET (0..top) /\ T # {}
    BY <1>1
  <1>3. pos = Max(T)
    BY DEF Stripped
  <1>4. Max(T) \in T /\ \A t \in T : Max(T) >= t
    <2> HIDE DEF T, top
    <2> QED BY <1>2, MaxIs
  <1> HIDE DEF pos
  <1>5. pos \in Nat /\ pos >= 1 /\ (pos = 1 \/ (pos \in 1..Len(data) /\ data[pos] # 0))
    BY <1>1, <1>3, <1>4
  <1>6. ASSUME NEW i \in 1..Len(data), i > pos PROVE data[i] = 0
    <2>1. CASE i \in T
      BY <2>1, <1>3, <1>4, <1>5, <1>6
    <2>2. CASE i \notin T
      BY <2>2, <1>1
    <2> QED BY <2>1, <2>2
  <1> QED BY <1>5, <1>6 DEF pos

\* a register that is zero behind a run of zeros was zero before it
LEMMA ZerosKeepRegister ==
  ASSUME NEW data \in Seq(Octets), NEW m \in 0..Len(data), NEW n \in m..Len(data),
         \A i \in (m + 1)..n : data[i] = 0, CrcRegister(data)[n] = 0
  PROVE  CrcRegister(data)[m] = 0
  <1> DEFINE r == CrcRegister(data)
             k == n - m
             T == {i \in Nat : i <= k => r[n - i] = 0}
  <1>1. m \in Nat /\ n \in Nat /\ k \in Nat /\ n <= Len(data) /\ Len(data) \in Nat /\ m = n - k
    OBVIOUS
  <1>2. /\ r \in [0..Len(data) -> Words16]
        /\ \A i \in 1..Len(data) : r[i] = CrcStep(r[i - 1], data[i])
    BY CrcRegisterRuns
  <1>3. r[n] = 0 /\ n - 0 = n
    BY <1>1
  <1> HIDE DEF r
  <1>4. 0 \in T
    BY <1>3
  <1>5. \A i \in 0..(k - 1) : i \in T => i + 1 \in T
    <2> SUFFICES ASSUME NEW i \in 0..(k - 1), i \in T PROVE i + 1 \in T
      OBVIOUS
    <2> DEFINE j == n - i
    <2>1. /\ i \in Nat /\ j \in 1..Len(data) /\ j \in (m + 1)..n /\ n - (i + 1) = j - 1
          /\ j - 1 \in 0..Len(data) /\ r[j] = 0
      BY <1>1
    <2> HIDE DEF j
    <2>2. CrcStep(r[j - 1], 0) = 0
      BY <1>2, <2>1
    <2>3. r[j - 1] \in Words16 /\ 0 \in Octets
      <3>1. 0 \in Octets
        BY SMT DEF Octets
      <3> QED BY <1>2, <2>1, <3>1
    <2>4. r[j - 1] = 0
      BY <2>2, <2>3, CrcStepStays
    <2> QED BY <2>1, <2>4
  <1>6. k \in T
    <2> HIDE DEF T, k
    <2>1. \A i \in 0..k : i \in T
      BY <1>1, <1>4, <1>5, UpTo
    <2> QED BY <1>1, <2>1
  <1>7. r[m] = 0
    BY <1>1, <1>6
  <1> QED BY <1>7 DEF r

\* the register is not zero after a single byte
LEMMA OneByteRegister ==
  ASSUME NEW data \in Seq(Octets), Len(data) >= 1
  PROVE  CrcRegister(data)[1] # 0
  <1> DEFINE start == 25443
  <1>1. start \in Words16 /\ data[1] \in Octets /\ data[1] # start /\ 1 \in 1..Len(data) /\ 1 - 1 = 0
    BY SMT DEF Octets, Words16
  <1>2. /\ CrcRegister(data)[0] = start
        /\ \A n \in 1..Len(data) :
              CrcRegister(data)[n] = CrcStep(CrcRegister(data)[n - 1], data[n])
    BY CrcRegisterRuns, SMT
  <1> HIDE DEF start
  <1>3. CrcRegister(data)[1] = CrcStep(start, data[1])
    BY <1>1, <1>2
  <1> QED BY <1>1, <1>3, CrcStepStays

\* search_crc_pos() finds the shortest way to read a deciphered answer of any length, and
\* 0 if there is none.
LEMMA SearchFindsShortest ==
  ASSUME NEW data \in Seq(Octets)
  PROVE  IF Readings(data) = {} THEN search_crc_pos(data) = 0
         ELSE /\ search_crc_pos(data) \in Readings(data)
              /\ \A m \in Readings(data) : search_crc_pos(data) <= m
  <1> DEFINE pos == Stripped(data)
             found == {n \in 1..pos : pos - n <= 3 /\ CrcAt(data, n)}
             r == CrcRegister(data)
             len == Len(data)
  <1>1. /\ pos \in Nat /\ pos >= 1
        /\ pos = 1 \/ (pos \in 1..len /\ data[pos] # 0)
        /\ \A i \in 1..len : i > pos => data[i] = 0
    BY StrippedIs
  <1>2. len \in Nat /\ r \in [0..len -> Words16]
    BY CrcRegisterRuns
  <1>3. search_crc_pos(data) = IF len < 2 \/ pos < 2 \/ found = {} THEN 0 ELSE Min(found)
    BY DEF search_crc_pos
  <1> HIDE DEF pos
  <1>4. found \subseteq Readings(data)
    <2> SUFFICES ASSUME NEW n \in found PROVE n \in Readings(data)
      OBVIOUS
    <2>1. n \in 1..pos /\ pos - n <= 3 /\ CrcAt(data, n)
      OBVIOUS
    <2>2. n + 2 <= len
      BY <2>1 DEF CrcAt
    <2>3. n \in 1..(len - 2)
      BY <1>1, <1>2, <2>1, <2>2
    <2>4. \A i \in (n + 4)..len : data[i] = 0
      BY <1>1, <1>2, <2>1
    <2> HIDE DEF found
    <2> QED BY <2>1, <2>3, <2>4 DEF Readings
  <1>5. ASSUME NEW n \in Readings(data), n <= pos PROVE n \in found
    <2>1. n \in 1..(len - 2) /\ CrcAt(data, n) /\ \A i \in (n + 4)..len : data[i] = 0
      BY DEF Readings
    <2>2. pos - n <= 3
      <3> SUFFICES ASSUME pos >= n + 4 PROVE FALSE
        BY <1>1, <1>2, <2>1
      <3>1. pos \in (n + 4)..len /\ data[pos] # 0
        BY <1>1, <1>2, <2>1
      <3> QED BY <2>1, <3>1
    <2>3. n \in 1..pos
      BY <1>1, <1>2, <1>5, <2>1
    <2> QED BY <2>1, <2>2, <2>3
  <1>6. ASSUME NEW n \in Readings(data), n >= pos PROVE r[pos] = 0 /\ pos + 2 <= len
    <2>1. n \in Nat /\ n >= 1 /\ n + 2 <= len /\ CrcAt(data, n)
      BY <1>2 DEF Readings
    <2>2. data[n + 1] = 0 /\ data[n + 2] = 0
      BY <1>1, <1>2, <1>6, <2>1
    <2>3. r[n] % 256 = 0 /\ r[n] \div 256 = 0
      BY <2>1, <2>2, CrcAtIs
    <2>4. r[n] \in Nat
      BY <1>2, <2>1 DEF Words16
    <2>5. r[n] = 0
      <3> HIDE DEF r
      <3> QED BY <2>3, <2>4, SMT
    <2>6. pos \in 0..len /\ n \in pos..len /\ \A i \in (pos + 1)..n : data[i] = 0
      BY <1>1, <1>2, <1>6, <2>1
    <2>7. r[pos] = 0
      BY <2>5, <2>6, ZerosKeepRegister
    <2> QED BY <1>1, <1>2, <1>6, <2>1, <2>7
  <1>7. CASE pos < 2
    <2>1. ASSUME NEW n \in Readings(data) PROVE FALSE
      <3>1. pos = 1 /\ n >= pos
        BY <1>1, <1>2, <1>7 DEF Readings
      <3>2. r[1] = 0 /\ len >= 1
        BY <1>2, <1>6, <3>1
      <3> QED BY <3>2, OneByteRegister
    <2> QED BY <1>3, <1>7, <2>1
  <1>8. CASE len < 2
    <2>1. Readings(data) = {}
      BY <1>2, <1>8 DEF Readings
    <2> QED BY <1>3, <1>8, <2>1
  <1>9. CASE pos >= 2 /\ len >= 2
    <2>1. ASSUME NEW n \in Readings(data), n > pos PROVE pos \in found
      <3>1. r[pos] = 0 /\ pos + 2 <= len
        BY <1>1, <1>2, <1>6, <2>1 DEF Readings
      <3>2. data[pos + 1] = 0 /\ data[pos + 2] = 0
        BY <1>1, <1>2, <3>1
      <3>3. 0 % 256 = 0 /\ 0 \div 256 = 0
        BY SMT
      <3>4. CrcAt(data, pos)
        BY <1>1, <3>1, <3>2, <3>3, CrcAtIs
      <3> QED BY <1>1, <3>4
    <2>2. Readings(data) # {} => found # {}
      <3> SUFFICES ASSUME NEW n \in Readings(data) PROVE found # {}
        OBVIOUS
      <3>1. n \in Nat
        BY <1>2 DEF Readings
      <3> QED BY <1>1, <1>5, <2>1, <3>1
    <2>3. CASE found = {}
      BY <1>3, <2>2, <2>3
    <2>4. CASE found # {}
      <3>1. found \in SUBSET Nat
        BY <1>1
      <3>2. Min(found) \in found /\ \A n \in found : Min(found) <= n
        <4> HIDE DEF found
        <4> QED BY <2>4, <3>1, MinIs
      <3>3. search_crc_pos(data) = Min(found)
        BY <1>1, <1>2, <1>3, <1>9, <2>4
      <3>4. Min(found) \in Readings(data) /\ Min(found) \in Nat
        BY <1>4, <3>1, <3>2
      <3>5. ASSUME NEW m \in Readings(data) PROVE Min(found) <= m
        <4>1. m \in Nat
          BY <1>2 DEF Readings
        <4>2. CASE m <= pos
          <5>1. m \in found
            BY <1>5, <4>2
          <5> HIDE DEF found
          <5> QED BY <3>2, <5>1
        <4>3. CASE m > pos
          <5>1. pos \in found
            BY <2>1, <4>3
          <5> HIDE DEF found
          <5>2. Min(found) <= pos
            BY <3>2, <5>1
          <5> QED BY <1>1, <3>4, <4>1, <4>3, <5>2
        <4> QED BY <1>1, <4>1, <4>2, <4>3
      <3> HIDE DEF found
      <3> QED BY <3>3, <3>4, <3>5
    <2> QED BY <2>3, <2>4
  <1> QED BY <1>1, <1>2, <1>7, <1>8, <1>9

\* the CRC of some bytes is two bytes
LEMMA CrcIs ==
  ASSUME NEW data \in Seq(Octets)
  PROVE  LET crc == nxpsc_crc16(data)
         IN  crc \in Seq(Octets) /\ Len(crc) = 2
  <1> DEFINE c == CrcRegister(data)[Len(data)]
  <1>1. c \in Words16
    <2>1. Len(data) \in 0..Len(data)
      OBVIOUS
    <2> QED BY <2>1, CrcRegisterRuns
  <1>2. nxpsc_crc16(data) = <<c % 256, c \div 256>>
    BY DEF nxpsc_crc16
  <1> HIDE DEF c
  <1>3. c % 256 \in Octets /\ c \div 256 \in Octets
    BY <1>1, SMT DEF Words16, Octets
  <1> QED BY <1>2, <1>3

\* what may stand behind the CRC before the zeros
Marks == {<< >>, <<128>>}

\* a deciphered answer, byte by byte
LEMMA CrcFrameIs ==
  ASSUME NEW p \in Seq(Octets), NEW mark \in Marks
  PROVE  LET frame == CrcFrame(p, mark)
         IN  /\ frame \in Seq(Octets) /\ Len(frame) >= Len(p) + 2
             /\ \A i \in 1..Len(p) : frame[i] = p[i]
             /\ frame[Len(p) + 1] = nxpsc_crc16(p)[1] /\ frame[Len(p) + 2] = nxpsc_crc16(p)[2]
             /\ \A i \in (Len(p) + 4)..Len(frame) : frame[i] = 0
  <1> DEFINE len == Len(p)
             crc == nxpsc_crc16(p)
             sent == p \o crc \o mark
             n == nxpsc_padded_len(Len(sent)) - Len(sent)
             frame == sent \o Zeros(n)
  <1>1. crc \in Seq(Octets) /\ Len(crc) = 2
    BY CrcIs
  <1>2. mark \in Seq(Octets) /\ Len(mark) \in 0..1
    <2>1. 128 \in Octets
      BY SMT DEF Octets
    <2>2. CASE mark = << >>
      BY <2>2
    <2>3. CASE mark = <<128>>
      BY <2>1, <2>3
    <2> QED BY <2>2, <2>3 DEF Marks
  <1> HIDE DEF crc
  <1>3. /\ sent \in Seq(Octets)
        /\ Len(sent) = Len(p) + Len(crc) + Len(mark)
        /\ \A i \in 1..Len(p) : sent[i] = p[i]
        /\ \A i \in 1..Len(crc) : sent[Len(p) + i] = crc[i]
    <2>1. sent \in Seq(Octets)
      BY <1>1, <1>2
    <2>2. p \in Seq(Octets) /\ crc \in Seq(Octets) /\ mark \in Seq(Octets)
      BY <1>1, <1>2
    <2>3. /\ Len(sent) = Len(p) + Len(crc) + Len(mark)
          /\ \A i \in 1..Len(p) : sent[i] = p[i]
          /\ \A i \in 1..Len(crc) : sent[Len(p) + i] = crc[i]
      BY <2>2, JoinedThree
    <2> QED BY <2>1, <2>3
  <1>4. CrcFrame(p, mark) = frame
    BY DEF CrcFrame, ZeroPadded, crc
  <1> HIDE DEF sent
  <1>5. n \in Nat
    <2>1. Len(sent) \in Nat
      BY <1>3
    <2>2. nxpsc_padded_len(Len(sent)) \in Len(sent)..(Len(sent) + Bs - 1)
      BY <2>1, PaddedLen
    <2> QED BY <2>1, <2>2, BsAssumption
  <1> HIDE DEF n
  <1>6. 0 \in Octets
    BY SMT DEF Octets
  <1>7. /\ Zeros(n) \in Seq(Octets) /\ Len(Zeros(n)) = n /\ \A i \in 1..n : Zeros(n)[i] = 0
    BY <1>5, <1>6, ZerosAre
  <1>8. /\ frame \in Seq(Octets)
        /\ Len(frame) = Len(sent) + Len(Zeros(n))
        /\ \A i \in 1..Len(sent) : frame[i] = sent[i]
        /\ \A i \in 1..Len(Zeros(n)) : frame[Len(sent) + i] = Zeros(n)[i]
    <2>1. sent \in Seq(Octets) /\ Zeros(n) \in Seq(Octets)
      BY <1>3, <1>7
    <2> QED BY <2>1, Joined
  <1> HIDE DEF frame
  <1>9. len \in Nat /\ Len(sent) \in (len + 2)..(len + 3) /\ Len(frame) = Len(sent) + n
    <2>1. Len(sent) = Len(p) + Len(crc) + Len(mark) /\ Len(frame) = Len(sent) + n
      BY <1>3, <1>7, <1>8
    <2>2. Len(crc) = 2 /\ Len(mark) \in 0..1 /\ Len(p) \in Nat
      BY <1>1, <1>2
    <2>3. \A a, b, c, d, e \in Nat : a = b + c + d /\ c = 2 /\ d \in 0..1 => a \in (b + 2)..(b + 3)
      OBVIOUS
    <2>4. Len(sent) \in Nat /\ Len(crc) \in Nat /\ Len(mark) \in Nat
      BY <1>1, <1>2, <1>3
    <2>5. Len(sent) \in (len + 2)..(len + 3)
      BY <2>1, <2>2, <2>3, <2>4
    <2> QED BY <2>1, <2>2, <2>5
  <1>10. /\ \A i \in 1..len : frame[i] = p[i]
         /\ frame[len + 1] = crc[1] /\ frame[len + 2] = crc[2]
    <2>1. \A i \in 1..len : frame[i] = sent[i]
      BY <1>8, <1>9
    <2>2. len + 1 \in 1..Len(sent) /\ len + 2 \in 1..Len(sent) /\ 1 \in 1..Len(crc) /\ 2 \in 1..Len(crc)
      BY <1>1, <1>9
    <2>3. frame[len + 1] = sent[len + 1] /\ frame[len + 2] = sent[len + 2]
      BY <1>8, <2>2
    <2>4. sent[len + 1] = crc[1] /\ sent[len + 2] = crc[2]
      BY <1>3, <2>2
    <2> QED BY <1>3, <2>1, <2>3, <2>4
  <1>11. ASSUME NEW i \in (len + 4)..Len(frame) PROVE frame[i] = 0
    <2> DEFINE j == i - Len(sent)
    <2>1. j \in 1..n /\ i = Len(sent) + j
      BY <1>5, <1>9
    <2> QED BY <1>7, <1>8, <2>1
  <1>12. Len(frame) >= len + 2
    BY <1>5, <1>9
  <1> QED BY <1>4, <1>8, <1>10, <1>11, <1>12 DEF crc

\* a payload in its frame is one of the ways to read it
LEMMA FrameIsRead ==
  ASSUME NEW p \in Seq(Octets), Len(p) >= 1, NEW mark \in Marks
  PROVE  Len(p) \in Readings(CrcFrame(p, mark))
  <1> DEFINE frame == CrcFrame(p, mark)
             len == Len(p)
             r == CrcRegister(frame)
  <1>1. /\ frame \in Seq(Octets) /\ Len(frame) >= len + 2
        /\ \A i \in 1..len : frame[i] = p[i]
        /\ frame[len + 1] = nxpsc_crc16(p)[1] /\ frame[len + 2] = nxpsc_crc16(p)[2]
        /\ \A i \in (len + 4)..Len(frame) : frame[i] = 0
    BY CrcFrameIs
  <1> HIDE DEF frame
  <1>2. len \in Nat /\ Len(frame) \in Nat /\ len \in 0..Len(frame)
    BY <1>1
  <1>3. SubSeq(frame, 1, len) = p
    <2>1. /\ SubSeq(frame, 1, len) \in Seq(Octets) /\ Len(SubSeq(frame, 1, len)) = len
          /\ \A i \in 1..len : SubSeq(frame, 1, len)[i] = frame[i]
      BY <1>1, <1>2
    <2> QED BY <1>1, <2>1
  <1>4. nxpsc_crc16(p) = <<r[len] % 256, r[len] \div 256>>
    <2>1. frame \in Seq(Octets)
      BY <1>1
    <2>2. nxpsc_crc16(SubSeq(frame, 1, len)) = <<r[len] % 256, r[len] \div 256>>
      <3> HIDE DEF len
      <3> QED BY <2>1, <1>2, CrcOfPrefix
    <2> QED BY <1>3, <2>2
  <1>5. CrcAt(frame, len)
    BY <1>1, <1>2, <1>4, CrcAtIs
  <1> QED BY <1>1, <1>2, <1>5 DEF Readings, frame

-----------------------------------------------------------------------------
(***************************************************************************)
(* The number an LRP counter stands for.                                   *)
(***************************************************************************)
\* the number the first n nibbles stand for, for each n
LEMMA CounterValueRuns ==
  ASSUME NEW bytes \in Seq(Octets), NEW len \in Nat, len <= 2 * Len(bytes)
  PROVE  LET value == CounterValue(bytes, len)
         IN  /\ value[0] = 0
             /\ \A n \in 0..len : value[n] \in Nat
             /\ \A n \in 1..len : value[n] = (16 * value[n - 1]) + Nibble(bytes, n - 1)
  <1> DEFINE Step(v, n) == (16 * v) + Nibble(bytes, n - 1)
             next == [n \in 1..len |-> [v \in Nat |-> Step(v, n)]]
             Is(c) == c = [n \in 0..len |-> IF n = 0 THEN 0 ELSE Step(c[n - 1], n)]
             r == CounterValue(bytes, len)
  <1>1. \A v \in Nat, n \in 1..len : Step(v, n) \in Nat
    <2> SUFFICES ASSUME NEW v \in Nat, NEW n \in 1..len PROVE Step(v, n) \in Nat
      OBVIOUS
    <2> DEFINE i == n - 1
    <2>1. i \in Nat /\ i < 2 * Len(bytes)
      OBVIOUS
    <2> HIDE DEF i
    <2>2. Nibble(bytes, i) \in Nat
      BY <2>1, NibbleIs DEF IsNibble
    <2> QED BY <2>2 DEF i
  <1> HIDE DEF Step
  <1>2. next \in [1..len -> [Nat -> Nat]]
    BY <1>1
  <1>3. PICK f \in [0..len -> Nat] : IsRun(f, 0, len, next)
    <2> HIDE DEF next
    <2>1. 0 \in Nat
      OBVIOUS
    <2> QED BY <1>2, <2>1, Run
  <1>4. \A n \in 0..len : f[n] = IF n = 0 THEN 0 ELSE Step(f[n - 1], n)
    <2> SUFFICES ASSUME NEW n \in 0..len, n # 0 PROVE f[n] = Step(f[n - 1], n)
      BY <1>3 DEF IsRun
    <2>1. n \in 1..len /\ n - 1 \in 0..len
      OBVIOUS
    <2> QED BY <1>3, <2>1 DEF IsRun
  <1>5. Is(f)
    BY <1>4
  <1>6. Is(r)
    <2>1. r = CHOOSE c : Is(c)
      BY DEF CounterValue, Step
    <2> HIDE DEF Is, r
    <2> QED BY <1>5, <2>1
  <1> HIDE DEF r
  <1>7. r[0] = 0
    BY <1>6
  <1>8. \A n \in 1..len : r[n] = Step(r[n - 1], n)
    BY <1>6
  <1>9. \A n \in 0..len : r[n] \in Nat
    <2> DEFINE T == {n \in Nat : n <= len => r[n] \in Nat}
    <2>1. 0 \in T
      BY <1>7
    <2>2. \A n \in 0..(len - 1) : n \in T => n + 1 \in T
      <3> SUFFICES ASSUME NEW n \in 0..(len - 1), n \in T PROVE n + 1 \in T
        OBVIOUS
      <3>1. n + 1 \in 1..len /\ (n + 1) - 1 = n /\ r[n] \in Nat
        OBVIOUS
      <3>2. r[n + 1] = Step(r[n], n + 1)
        BY <1>8, <3>1
      <3>3. r[n + 1] \in Nat
        BY <1>1, <3>1, <3>2
      <3> QED BY <3>1, <3>3
    <2> HIDE DEF T
    <2>3. \A n \in 0..len : n \in T
      BY <2>1, <2>2, UpTo
    <2> QED BY <2>3 DEF T
  <1> QED BY <1>7, <1>8, <1>9 DEF r, Step

\* nxpsc_lrp_inc_counter() adds one to a counter of any length, all ones become zero, and
\* the nibbles behind the counter stay.
LEMMA CounterGoesUp ==
  ASSUME NEW old \in Seq(Octets), NEW len \in Nat, len <= 2 * Len(old),
         NEW new, new = nxpsc_lrp_inc_counter(old, len)
  PROVE  /\ CounterValue(new, len)[len]
              = IF \A i \in 0..(len - 1) : Nibble(old, i) = 15 THEN 0
                ELSE CounterValue(old, len)[len] + 1
         /\ \A i \in len..(2 * Len(old) - 1) : Nibble(new, i) = Nibble(old, i)
  <1> DEFINE v == CounterValue(old, len)  w == CounterValue(new, len)  n == Len(old)
  <1>1. \/ Carried(old, new, 0, len)
        \/ \E p \in 0..(len - 1) : Stopped(old, new, p, len)
    <2> DEFINE s == CounterSteps(old, len)[len]
    <2>1. Counting(old, s, 0, len)
      BY CounterStepsRun
    <2>2. new = s.bytes
      BY DEF nxpsc_lrp_inc_counter
    <2> HIDE DEF s
    <2> QED BY <2>1, <2>2 DEF Counting
  <1>2. /\ v[0] = 0
        /\ \A k \in 0..len : v[k] \in Nat
        /\ \A k \in 1..len : v[k] = (16 * v[k - 1]) + Nibble(old, k - 1)
    BY CounterValueRuns
  <1>3. new \in Seq(Octets) /\ Len(new) = Len(old)
    BY <1>1 DEF Carried, Stopped
  <1>4. /\ w[0] = 0
        /\ \A k \in 0..len : w[k] \in Nat
        /\ \A k \in 1..len : w[k] = (16 * w[k - 1]) + Nibble(new, k - 1)
    <2>1. len <= 2 * Len(new)
      BY <1>3
    <2> HIDE DEF w
    <2> QED BY <1>3, <2>1, CounterValueRuns DEF w
  <1> HIDE DEF v, w
  <1>5. CASE Carried(old, new, 0, len)
    <2>1. \A j \in 0..(len - 1) : Nibble(old, j) = 15 /\ Nibble(new, j) = 0
      BY <1>5 DEF Carried
    <2> DEFINE T == {k \in Nat : k <= len => w[k] = 0}
    <2>2. 0 \in T
      BY <1>4
    <2>3. \A k \in 0..(len - 1) : k \in T => k + 1 \in T
      <3> SUFFICES ASSUME NEW k \in 0..(len - 1), k \in T PROVE k + 1 \in T
        OBVIOUS
      <3>1. k + 1 \in 1..len /\ (k + 1) - 1 = k /\ w[k] = 0
        OBVIOUS
      <3>2. w[k + 1] = (16 * w[k]) + Nibble(new, k) /\ Nibble(new, k) = 0
        BY <1>4, <2>1, <3>1
      <3> QED BY <3>1, <3>2
    <2> HIDE DEF T
    <2>4. \A k \in 0..len : k \in T
      BY <2>2, <2>3, UpTo
    <2>5. w[len] = 0
      BY <2>4 DEF T
    <2>6. \A i \in len..(2 * n - 1) : Nibble(new, i) = Nibble(old, i)
      BY <1>5 DEF Carried
    <2> QED BY <2>1, <2>5, <2>6 DEF w
  <1>6. CASE \E p \in 0..(len - 1) : Stopped(old, new, p, len)
    <2>1. PICK p \in 0..(len - 1) : Stopped(old, new, p, len)
      BY <1>6
    <2> DEFINE T == {k \in Nat : k <= len => w[k] = IF k <= p THEN v[k] ELSE v[k] + 1}
    <2>2. 0 \in T
      BY <1>2, <1>4
    <2>3. \A k \in 0..(len - 1) : k \in T => k + 1 \in T
      <3> SUFFICES ASSUME NEW k \in 0..(len - 1), k \in T PROVE k + 1 \in T
        OBVIOUS
      <3> DEFINE a == Nibble(old, k)  b == Nibble(new, k)
      <3>1. /\ k + 1 \in 1..len /\ (k + 1) - 1 = k
            /\ w[k] = IF k <= p THEN v[k] ELSE v[k] + 1
            /\ k \in 0..len /\ k \in 0..(2 * Len(old) - 1) /\ k \in Nat /\ p \in Nat
        OBVIOUS
      <3>2. w[k + 1] = (16 * w[k]) + b /\ v[k + 1] = (16 * v[k]) + a /\ v[k] \in Nat
        BY <1>2, <1>4, <3>1
      <3>3. a \in Nat
        <4>1. k < 2 * Len(old)
          BY <3>1
        <4> QED BY <3>1, <4>1, NibbleIs DEF IsNibble
      <3>4. /\ k < p => b = a
            /\ k = p => b = a + 1
            /\ k > p => a = 15 /\ b = 0
        BY <2>1, <3>1 DEF Stopped
      <3> HIDE DEF a, b
      <3>5. w[k + 1] = IF k + 1 <= p THEN v[k + 1] ELSE v[k + 1] + 1
        <4>1. CASE k < p
          BY <3>1, <3>2, <3>3, <3>4, <4>1
        <4>2. CASE k = p
          BY <3>1, <3>2, <3>3, <3>4, <4>2
        <4>3. CASE k > p
          BY <3>1, <3>2, <3>3, <3>4, <4>3
        <4> QED BY <3>1, <4>1, <4>2, <4>3
      <3> QED BY <3>1, <3>5
    <2> HIDE DEF T
    <2>4. \A k \in 0..len : k \in T
      BY <2>2, <2>3, UpTo
    <2>5. w[len] = v[len] + 1
      BY <2>4 DEF T
    <2>6. Nibble(old, p) # 15
      BY <2>1 DEF Stopped
    <2>7. \A i \in len..(2 * n - 1) : Nibble(new, i) = Nibble(old, i)
      BY <2>1 DEF Stopped
    <2> QED BY <2>5, <2>6, <2>7 DEF v, w
  <1> QED BY <1>1, <1>5, <1>6

-----------------------------------------------------------------------------
(***************************************************************************)
(* One call: the output belongs to the input.                              *)
(***************************************************************************)
\* the two messages under one running IV, as Cbc sends and receives them
CbcCall(i) ==
  LET sent == nxpsc_cbc_crypt_ex(i.iv, i.first, TRUE, i.encode)
      then == nxpsc_cbc_crypt_ex(sent.iv, i.second, TRUE, i.encode)
      got  == nxpsc_cbc_crypt_ex(i.iv, sent.out, FALSE, ~i.encode)
  IN  <<then.iv, got.out, nxpsc_cbc_crypt_ex(got.iv, then.out, FALSE, ~i.encode)>>

\* the two writes of WriteRecord
TmiCall(i) ==
  LET Tmi(w) == nxpsc_tmac_tmi_write_record(w.file_no, w.offset, w.data, i.cap)
  IN  <<Tmi(i.one), Tmi(i.other)>>

\* each output is what the algorithm named by the input returns for it
Answered ==
  output # << >> =>
    /\ input.op = "crc" => output = <<search_crc_pos(input.frame)>>
    /\ input.op = "padding" =>
         output = <<iso9797_m2_len(Padded(input.payload)), lrp_pure(Padded(input.payload))>>
    /\ input.op = "cmac" =>
         output = <<cmac_input(input.one, input.min_len), cmac_input(input.other, input.min_len)>>
    /\ input.op = "cbc" => output = CbcCall(input)
    /\ input.op = "counter" => output = <<nxpsc_lrp_inc_counter(input.bytes, input.len)>>
    /\ input.op = "version" => output = <<des_key_set_version(input.key, input.version)>>
    /\ input.op = "settings" =>
         output = <<nxpsc_sdm_build_settings(input.comm, input.access, input.sdm, input.cap)>>
    /\ input.op = "tmi" => output = TmiCall(input)

\* the invariant: an input of one of the kinds, and its answer if there is one
IInv == input \in Inputs /\ Answered

\* The invariant holds initially and every call keeps it.
LEMMA ConversionsAnswered == Spec => []IInv
  <1>1. Init => IInv
    BY DEF Init, IInv, Answered
  <1>2. IInv /\ [Next]_vars => IInv'
    <2> SUFFICES ASSUME IInv, [Next]_vars PROVE IInv'
      OBVIOUS
    <2>1. CASE SearchCrc
      BY <2>1 DEF SearchCrc, Called, IInv, Answered
    <2>2. CASE Unpad
      BY <2>2 DEF Unpad, Called, IInv, Answered
    <2>3. CASE Cmac
      BY <2>3 DEF Cmac, Called, IInv, Answered
    <2>4. CASE Cbc
      BY <2>4 DEF Cbc, Called, IInv, Answered, CbcCall
    <2>5. CASE Increment
      BY <2>5 DEF Increment, Called, IInv, Answered
    <2>6. CASE SetVersion
      BY <2>6 DEF SetVersion, Called, IInv, Answered
    <2>7. CASE BuildSettings
      BY <2>7 DEF BuildSettings, Called, IInv, Answered
    <2>8. CASE WriteRecord
      BY <2>8 DEF WriteRecord, Called, IInv, Answered, TmiCall
    <2>9. CASE UNCHANGED vars
      BY <2>9 DEF vars, IInv, Answered
    <2> QED BY <2>1, <2>2, <2>3, <2>4, <2>5, <2>6, <2>7, <2>8, <2>9 DEF Next
  <1> QED BY <1>1, <1>2, PTL DEF Spec

\* which set of inputs an input comes from is told by the algorithm it names
LEMMA InputKinds ==
  ASSUME NEW i \in Inputs
  PROVE  /\ i.op = "crc" => i \in CrcInputs
         /\ i.op = "padding" => i \in PaddingInputs
         /\ i.op = "cmac" => i \in CmacInputs
         /\ i.op = "cbc" => i \in CbcInputs
         /\ i.op = "counter" => i \in CounterInputs
         /\ i.op = "version" => i \in KeyInputs
         /\ i.op = "settings" => i \in SettingsInputs
         /\ i.op = "tmi" => i \in TmiInputs
  <1>1. \A j \in CrcInputs : j.op = "crc"
    BY DEF CrcInputs
  <1>2. \A j \in PaddingInputs : j.op = "padding"
    BY DEF PaddingInputs
  <1>3. \A j \in CmacInputs : j.op = "cmac"
    BY DEF CmacInputs
  <1>4. \A j \in CbcInputs : j.op = "cbc"
    BY DEF CbcInputs
  <1>5. \A j \in CounterInputs : j.op = "counter"
    BY DEF CounterInputs
  <1>6. \A j \in KeyInputs : j.op = "version"
    BY DEF KeyInputs
  <1>7. \A j \in SettingsInputs : j.op = "settings"
    BY DEF SettingsInputs
  <1>8. \A j \in TmiInputs : j.op = "tmi"
    BY DEF TmiInputs
  <1> QED BY <1>1, <1>2, <1>3, <1>4, <1>5, <1>6, <1>7, <1>8 DEF Inputs

\* a sequence of bounded length is a sequence
LEMMA SeqOfIsSeq ==
  ASSUME NEW T, NEW n \in Nat, NEW s \in SeqOf(T, n)
  PROVE  s \in Seq(T) /\ Len(s) <= n
  BY DEF SeqOf

\* the bytes of payloads are bytes
LEMMA PayloadsAre ==
  ASSUME NEW n \in Nat, NEW s \in SeqOf(Bytes, n)
  PROVE  s \in Seq(Octets)
  <1>1. Bytes \subseteq Octets
    BY PayloadsAssumption DEF Octets
  <1>2. s \in Seq(Bytes)
    BY SeqOfIsSeq
  <1> QED BY <1>1, <1>2
-----------------------------------------------------------------------------
(***************************************************************************)
(* The properties.                                                         *)
(***************************************************************************)
\* What is padded the EV2 way is unpadded to its own length by the channel and by the LRP
\* decoder, for every block size and payload (iso9797_m2_len(), nxpsc_lrp_decode()).
THEOREM ConversionsPadding == Spec => []PaddingUndone
  <1>1. IInv => PaddingUndone
    <2> SUFFICES ASSUME IInv, input.op = "padding", output # << >>
                 PROVE  /\ output = <<Len(input.payload), Len(input.payload)>>
                        /\ Len(Padded(input.payload)) - Len(input.payload) \in 1..Bs
      BY DEF PaddingUndone, Returned
    <2> DEFINE p == input.payload
    <2>1. input \in PaddingInputs
      BY InputKinds DEF IInv
    <2>2. p \in SeqOf(Bytes, Bs + 1) /\ Bs + 1 \in Nat
      BY <2>1, BsAssumption DEF PaddingInputs
    <2>3. p \in Seq(Octets)
      BY <2>2, PayloadsAre
    <2>4. output = <<iso9797_m2_len(Padded(p)), lrp_pure(Padded(p))>>
      BY DEF IInv, Answered
    <2> HIDE DEF p
    <2>5. iso9797_m2_len(Padded(p)) = Len(p) /\ lrp_pure(Padded(p)) = Len(p)
      BY <2>3, PaddingIsUndone
    <2>6. IsPadded(Padded(p), p, Octets)
      BY <2>3, PaddedIs
    <2>7. Len(Padded(p)) - Len(p) \in 1..Bs
      BY <2>3, <2>6, BsAssumption DEF IsPadded
    <2> QED BY <2>4, <2>5, <2>7 DEF p
  <1> QED BY <1>1, ConversionsAnswered, PTL

\* No two different messages are MACed as the same masked buffer, and the buffer is whole
\* blocks, as long as asked for and within what nxpsc_cmac() allocated.
THEOREM ConversionsMac == Spec => []MacInputsDiffer
  <1>1. IInv => MacInputsDiffer
    <2> SUFFICES ASSUME IInv, input.op = "cmac", output # << >>
                 PROVE  /\ input.one # input.other => output[1] # output[2]
                        /\ LET made == output[1].buffer
                           IN  /\ Len(made) % Bs = 0 /\ Len(made) > 0
                               /\ Len(made) \in input.min_len..cmac_buflen(input.one, input.min_len)
      BY DEF MacInputsDiffer, Returned
    <2> DEFINE p == input.one  q == input.other  n == input.min_len
               a == cmac_input(p, n)  b == cmac_input(q, n)
    <2>1. input \in CmacInputs
      BY InputKinds DEF IInv
    <2>2. p \in SeqOf({0, 128}, 2 * Bs) /\ q \in SeqOf({0, 128}, Bs) /\ n \in {0, 2 * Bs}
      BY <2>1 DEF CmacInputs
    <2>3. Bs \in Nat /\ Bs > 0 /\ 2 * Bs \in Nat
      BY BsAssumption
    <2>4. output = <<a, b>>
      BY DEF IInv, Answered
    <2> HIDE DEF p, q, n
    <2>5. p \in Seq({0, 128}) /\ q \in Seq({0, 128})
      BY <2>2, <2>3, SeqOfIsSeq
    <2>6. n \in Nat
      BY <2>2, <2>3
    <2>7. a = b => p = q
      BY <2>5, <2>6, MacInputsAreApart
    <2>8. Masked(a, p, n) \/ Unmasked(a, p, n)
      BY <2>5, <2>6, CmacInputIs
    <2> HIDE DEF a, b
    <2>9. output[1] = a /\ output[2] = b
      BY <2>4
    <2>10. /\ Len(a.buffer) % Bs = 0 /\ Len(a.buffer) > 0
           /\ Len(a.buffer) \in n..cmac_buflen(p, n)
      <3>1. Len(p) \in Nat
        BY <2>5
      <3>2. CASE Masked(a, p, n)
        <4> DEFINE mlen == nxpsc_padded_len(Max({Len(p) + 1, n}))
        <4>1. /\ Len(a.buffer) = mlen /\ mlen >= n /\ mlen % Bs = 0
              /\ mlen \in (Len(p) + 1)..cmac_buflen(p, n)
          BY <3>2 DEF Masked
        <4> HIDE DEF mlen
        <4> QED BY <2>6, <3>1, <4>1
      <3>3. CASE Unmasked(a, p, n)
        BY <3>3 DEF Unmasked
      <3> QED BY <2>8, <3>2, <3>3
    <2> QED BY <2>7, <2>9, <2>10 DEF p, q, n
  <1> QED BY <1>1, ConversionsAnswered, PTL

\* A message sent in two parts under one running IV is received as it was sent, and both
\* sides are left with the same IV, whichever direction of the cipher sends.
THEOREM ConversionsCbc == Spec => []CbcUndone
  <1>1. IInv => CbcUndone
    <2> SUFFICES ASSUME IInv, input.op = "cbc", output # << >>
                 PROVE  /\ output[2] = input.first
                        /\ output[3].out = input.second
                        /\ output[3].iv = output[1]
      BY DEF CbcUndone, Returned
    <2> DEFINE p == input.first  q == input.second  iv == input.iv  encode == input.encode
               sent == Sends(iv, p, encode)
               then == Sends(sent.iv, q, encode)
               got  == Receives(iv, sent.out, encode)
               last == Receives(got.iv, then.out, encode)
    <2>1. input \in CbcInputs
      BY InputKinds DEF IInv
    <2>2. p \in SeqOf(Blocks, 2) /\ q \in SeqOf(Blocks, 2) /\ iv \in Blocks
      BY <2>1 DEF CbcInputs
    <2>3. output = <<then.iv, got.out, last>>
      BY DEF IInv, Answered, CbcCall, Sends, Receives
    <2> HIDE DEF p, q, iv, encode
    <2>4. p \in Seq(Blocks) /\ q \in Seq(Blocks)
      BY <2>2, SeqOfIsSeq
    <2>5. sent.iv \in Blocks /\ got.out = p /\ got.iv = sent.iv
      BY <2>2, <2>4, CbcReceived
    <2> DEFINE s == sent.iv
    <2>6. last = Receives(s, then.out, encode)
      BY <2>5
    <2>7. then = Sends(s, q, encode) /\ s \in Blocks
      BY <2>5
    <2> HIDE DEF s, last, then, got, sent
    <2>8. last.out = q /\ last.iv = then.iv
      BY <2>4, <2>6, <2>7, CbcReceived
    <2> QED BY <2>3, <2>5, <2>8 DEF p, q
  <1> QED BY <1>1, ConversionsAnswered, PTL

\* The LRP counter goes up by one, from all ones to zero, and the nibbles behind it stay
\* (nxpsc_lrp_inc_counter()).
THEOREM ConversionsCounter == Spec => []CounterSucceeds
  <1>1. IInv => CounterSucceeds
    <2> SUFFICES ASSUME IInv, input.op = "counter", output # << >>
                 PROVE  /\ CounterValue(output[1], input.len)[input.len]
                             = IF \A i \in 0..(input.len - 1) : Nibble(input.bytes, i) = 15 THEN 0
                               ELSE CounterValue(input.bytes, input.len)[input.len] + 1
                        /\ \A i \in input.len..3 : Nibble(output[1], i) = Nibble(input.bytes, i)
      BY DEF CounterSucceeds, Returned
    <2> DEFINE old == input.bytes  len == input.len  new == nxpsc_lrp_inc_counter(old, len)
    <2>1. input \in CounterInputs
      BY InputKinds DEF IInv
    <2>2. old \in [1..2 -> {0, 9, 15, 159, 240, 249, 255}] /\ len \in 1..4
      BY <2>1 DEF CounterInputs
    <2>3. output[1] = new
      BY DEF IInv, Answered
    <2> HIDE DEF old, len, new
    <2>4. old \in Seq(Octets) /\ Len(old) = 2
      <3>1. \A b \in {0, 9, 15, 159, 240, 249, 255} : b \in Octets
        BY SMT DEF Octets
      <3> DEFINE n == 2
      <3>2. old \in [1..n -> Octets] /\ n \in Nat
        BY <2>2, <3>1
      <3> HIDE DEF n
      <3>3. old \in Seq(Octets) /\ Len(old) = n
        BY <3>2
      <3> QED BY <3>3 DEF n
    <2>5. len \in Nat /\ len <= 2 * Len(old) /\ 2 * Len(old) - 1 = 3
      BY <2>2, <2>4
    <2>6. /\ CounterValue(new, len)[len]
               = IF \A i \in 0..(len - 1) : Nibble(old, i) = 15 THEN 0
                 ELSE CounterValue(old, len)[len] + 1
          /\ \A i \in len..(2 * Len(old) - 1) : Nibble(new, i) = Nibble(old, i)
      BY <2>4, <2>5, CounterGoesUp DEF new
    <2> QED BY <2>3, <2>5, <2>6 DEF old, len
  <1> QED BY <1>1, ConversionsAnswered, PTL

\* The version written into a DES key is read back from each of its parts, and only parity
\* bits change (des_key_set_version(), des_key_get_version()).
THEOREM ConversionsVersion == Spec => []VersionKept
  <1>1. IInv => VersionKept
    <2> SUFFICES ASSUME IInv, input.op = "version", output # << >>
                 PROVE  LET key == output[1]
                        IN  /\ \A part \in 0..(Len(key) \div 8 - 1) :
                                  des_key_get_version(SubSeq(key, 8 * part + 1, 8 * part + 8))
                                    = input.version
                            /\ \A k \in DOMAIN key : key[k] \div 2 = input.key[k] \div 2
      BY DEF VersionKept, Returned
    <2> DEFINE old == input.key  v == input.version  new == des_key_set_version(old, v)
    <2>1. input \in KeyInputs
      BY InputKinds DEF IInv
    <2>2. PICK parts \in 1..3, m \in {0, 37, 255}, x \in {0, 1, 128, 199, 255} :
             input = [op |-> "version", key |-> [k \in 1..(8 * parts) |-> (k * m) % 256],
                      version |-> x]
      BY <2>1 DEF KeyInputs
    <2>9. old = [k \in 1..(8 * parts) |-> (k * m) % 256] /\ v = x
      <3> DEFINE z == [k \in 1..(8 * parts) |-> (k * m) % 256]
      <3>1. input = [op |-> "version", key |-> z, version |-> x]
        BY <2>2
      <3> HIDE DEF z
      <3>2. input.key = z /\ input.version = x
        BY ONLY <3>1
      <3> QED BY <3>2 DEF z
    <2>3. output[1] = new
      BY DEF IInv, Answered
    <2> HIDE DEF old, v
    <2>4. v \in Nat /\ v < 256
      <3>1. x \in Nat /\ x < 256
        BY SMT
      <3> QED BY <2>9, <3>1
    <2>5. old \in Seq(Nat) /\ Len(old) = 8 * parts
      <3> DEFINE n == 8 * parts
      <3>1. n \in Nat /\ m \in Nat
        BY SMT
      <3>2. \A k \in 1..n : (k * m) % 256 \in Nat
        BY <3>1, SMT
      <3>3. old = [k \in 1..n |-> (k * m) % 256]
        BY <2>9
      <3> HIDE DEF n
      <3>4. old \in [1..n -> Nat]
        BY <3>2, <3>3
      <3>5. old \in Seq(Nat) /\ Len(old) = n
        BY <3>1, <3>4
      <3> QED BY <3>5 DEF n
    <2>6. DOMAIN new = DOMAIN old /\ \A k \in DOMAIN old : new[k] \div 2 = old[k] \div 2
      BY <2>4, <2>5, KeyBitsStay
    <2>7. Len(new) = Len(old)
      <3>1. new = [k \in DOMAIN old |-> ((old[k] \div 2) * 2) + VersionBit(v, (k - 1) % 8)]
        BY DEF des_key_set_version
      <3> HIDE DEF new
      <3>2. DOMAIN old = 1..Len(old) /\ Len(old) \in Nat
        BY <2>5
      <3> QED BY <2>6, <3>2
    <2>8. ASSUME NEW part \in 0..(Len(new) \div 8 - 1)
          PROVE  des_key_get_version(SubSeq(new, 8 * part + 1, 8 * part + 8)) = v
      <3>1. part \in Nat /\ 8 * part + 8 <= Len(old)
        <4> HIDE DEF new
        <4> QED BY <2>5, <2>7, <2>8, SMT
      <3> QED BY <2>4, <2>5, <3>1, VersionReadBack
    <2> HIDE DEF new
    <2> QED BY <2>3, <2>6, <2>8 DEF old, v
  <1> QED BY <1>1, ConversionsAnswered, PTL

\* No two writes of a record contribute the same bytes to the transaction MAC, what one
\* contributes is whole blocks, and only a buffer too small refuses a legal write
\* (nxpsc_tmac_tmi_write_record()).
THEOREM ConversionsTmi == Spec => []TmiTellsApart
  <1>1. IInv => TmiTellsApart
    <2> SUFFICES ASSUME IInv, input.op = "tmi", output # << >>
                 PROVE  /\ output[1].rc = "OK" /\ output[2].rc = "OK" /\ input.one # input.other
                             => output[1].tmi # output[2].tmi
                        /\ output[1].rc = "OK"
                             => TmacTakes(output[1].tmi) /\ Len(output[1].tmi) <= input.cap
                        /\ input.one.offset < U24 /\ input.one.data # << >>
                             => (output[1].rc = "OK"
                                  <=> input.cap >= IF Len(input.one.data) <= 16 THEN 32 ELSE 48)
      BY DEF TmiTellsApart, Returned
    <2> DEFINE v == input.one  w == input.other  cap == input.cap
               Tmi(x) == nxpsc_tmac_tmi_write_record(x.file_no, x.offset, x.data, cap)
               a == Tmi(v)  b == Tmi(w)
               Fits(x) == /\ x.offset < U24 /\ Len(x.data) > 0 /\ Len(x.data) < U24
                          /\ cap >= TmiBlock + TmiPadded(x.data)
    <2>1. input \in TmiInputs
      BY InputKinds DEF IInv
    <2>2. v \in Writes /\ w \in Writes /\ cap \in {31, 32, 48}
      BY <2>1 DEF TmiInputs
    <2>3. output = <<a, b>>
      BY DEF IInv, Answered, TmiCall
    <2> HIDE DEF v, w, cap
    <2>4. cap \in Nat
      BY <2>2, SMT
    <2>5. ASSUME NEW x \in Writes
          PROVE  /\ x = [file_no |-> 1, offset |-> x.offset, data |-> x.data]
                 /\ x.file_no = 1 /\ x.offset \in Nat /\ x.data \in Seq({0, 1}) /\ Len(x.data) <= 17
      <3>1. /\ x = [file_no |-> x.file_no, offset |-> x.offset, data |-> x.data]
            /\ x.file_no = 1 /\ x.offset \in {0, 65536, U24}
            /\ \/ x.data \in SeqOf({0, 1}, 2)
               \/ \E n \in {15, 16, 17} : x.data = Zeros(n)
        BY DEF Writes
      <3>2. x.offset \in Nat
        BY <3>1, SMT DEF U24
      <3>3. CASE x.data \in SeqOf({0, 1}, 2)
        <4>1. x.data \in Seq({0, 1}) /\ Len(x.data) <= 2
          BY <3>3, SeqOfIsSeq
        <4> QED BY <3>1, <3>2, <4>1
      <3>4. CASE \E n \in {15, 16, 17} : x.data = Zeros(n)
        <4>1. PICK n \in {15, 16, 17} : x.data = Zeros(n)
          BY <3>4
        <4>2. n \in Nat /\ n <= 17
          BY <4>1
        <4>3. Zeros(n) \in Seq({0, 1}) /\ Len(Zeros(n)) = n
          BY <4>2, ZerosAre
        <4> QED BY <3>1, <3>2, <4>1, <4>2, <4>3
      <3> QED BY <3>1, <3>3, <3>4
    <2>6. ASSUME NEW x \in Writes
          PROVE  /\ Tmi(x).rc = "OK" <=> Fits(x)
                 /\ Tmi(x).rc = "OK" => Contributes(Tmi(x).tmi, x.file_no, x.offset, x.data)
      BY <2>4, <2>5, TmiWriteIs
    <2> HIDE DEF Tmi
    <2>7. /\ output[1] = a /\ output[2] = b
          /\ a.rc = "OK" <=> Fits(v)
          /\ a.rc = "OK" => Contributes(a.tmi, v.file_no, v.offset, v.data)
          /\ b.rc = "OK" <=> Fits(w)
          /\ b.rc = "OK" => Contributes(b.tmi, w.file_no, w.offset, w.data)
      BY <2>2, <2>3, <2>6
    <2> HIDE DEF a, b
    <2>8. ASSUME a.rc = "OK", b.rc = "OK", a.tmi = b.tmi PROVE v = w
      <3>1. /\ Contributes(a.tmi, v.file_no, v.offset, v.data)
            /\ Contributes(a.tmi, w.file_no, w.offset, w.data)
            /\ v.offset < U24 /\ w.offset < U24 /\ Len(v.data) < U24 /\ Len(w.data) < U24
        BY <2>7, <2>8
      <3>2. /\ v.offset \in Nat /\ v.data \in Seq({0, 1})
            /\ w.offset \in Nat /\ w.data \in Seq({0, 1})
        BY <2>2, <2>5
      <3>3. v.offset = w.offset /\ v.data = w.data
        BY ONLY <3>1, <3>2, WritesAreApart
      <3> QED BY <2>2, <2>5, <3>3
    <2>9. ASSUME a.rc = "OK" PROVE TmacTakes(a.tmi) /\ Len(a.tmi) <= cap
      <3>1. Contributes(a.tmi, v.file_no, v.offset, v.data) /\ Fits(v)
        BY <2>7, <2>9
      <3>2. v.data \in Seq({0, 1}) /\ Len(v.data) > 0
        BY <2>2, <2>5, <3>1
      <3>3. TmacTakes(a.tmi) /\ Len(a.tmi) = TmiBlock + TmiPadded(v.data)
        BY <3>1, <3>2, TmiIsTaken
      <3> QED BY <3>1, <3>3
    <2>10. ASSUME v.offset < U24, v.data # << >>
           PROVE  a.rc = "OK" <=> cap >= IF Len(v.data) <= 16 THEN 32 ELSE 48
      <3> DEFINE len == Len(v.data)
      <3>1. len \in Nat /\ len <= 17 /\ len > 0
        BY <2>2, <2>5, <2>10
      <3>2. TmiPadded(v.data) = ((len + TmiBlock - 1) \div TmiBlock) * TmiBlock
        BY DEF TmiPadded
      <3> HIDE DEF len
      <3>3. len < U24 /\ TmiBlock + TmiPadded(v.data) = IF len <= 16 THEN 32 ELSE 48
        BY <3>1, <3>2, SMT DEF U24, TmiBlock
      <3>4. Fits(v) <=> cap >= TmiBlock + TmiPadded(v.data)
        BY <2>10, <3>1, <3>3 DEF len
      <3> QED BY <2>7, <3>3, <3>4 DEF len
    <2> QED BY <2>7, <2>8, <2>9, <2>10 DEF v, w, cap
  <1> QED BY <1>1, ConversionsAnswered, PTL

\* every input of BuildSettings can be asked for
LEMMA SettingsInputsAre ==
  ASSUME NEW i \in SettingsInputs
  PROVE  Asked(i.access, i.sdm, i.cap)
  <1>1. i.cap \in {3, 26, 27} /\ i.sdm \in Settings
        /\ i.access = [read |-> 14, write |-> 0, read_write |-> 3, change |-> 15]
    BY DEF SettingsInputs
  <1>2. i.cap \in Nat /\ i.cap >= 3
    BY ONLY <1>1
  <1>3. i.access \in AccessRights
    BY ONLY <1>1 DEF AccessRights
  <1>4. /\ i.sdm.counter_ret_key \in {2, 15} /\ i.sdm.meta_read_key \in {0, 4, 14, 15}
        /\ i.sdm.file_read_key \in {0, 14, 15}
        /\ i.sdm.offset \in {OffsetsGiven(uid) : uid \in {65536, U24}}
    <2> DEFINE sdm == i.sdm
    <2>1. sdm \in Settings
      BY ONLY <1>1
    <2> HIDE DEF sdm
    <2>2. /\ sdm.counter_ret_key \in {2, 15} /\ sdm.meta_read_key \in {0, 4, 14, 15}
          /\ sdm.file_read_key \in {0, 14, 15}
          /\ sdm.offset \in {OffsetsGiven(uid) : uid \in {65536, U24}}
      BY ONLY <2>1, SMT DEF Settings
    <2> QED BY ONLY <2>2 DEF sdm
  <1>5. \A f \in Offsets : i.sdm.offset[f] \in Nat
    <2> DEFINE given == i.sdm.offset
    <2>1. PICK uid \in {65536, U24} : given = OffsetsGiven(uid)
      BY ONLY <1>4
    <2>2. uid \in Nat
      BY ONLY <2>1, SMT DEF U24
    <2> HIDE DEF given
    <2>3. ASSUME NEW f \in Offsets PROVE given[f] \in Nat
      BY ONLY <2>1, <2>2, <2>3, SMT DEF OffsetsGiven
    <2> QED BY ONLY <2>3 DEF given
  <1> QED BY ONLY <1>2, <1>3, <1>4, <1>5 DEF Asked

\* Settings are built exactly if every offset fits three bytes and the buffer has room, and
\* the card reads back the mode, the rights and each offset (nxpsc_sdm_build_settings()).
THEOREM ConversionsSettings == Spec => []SettingsReadBack
  <1>1. IInv => SettingsReadBack
    <2> SUFFICES ASSUME IInv, input.op = "settings", output # << >> PROVE SettingsReadBack
      BY DEF SettingsReadBack, Returned
    <2> DEFINE sdm == input.sdm  cap == input.cap  access == input.access  comm == input.comm
               r == nxpsc_sdm_build_settings(comm, access, sdm, cap)
    <2>1. input \in SettingsInputs
      BY InputKinds DEF IInv
    <2>2. Asked(access, sdm, cap)
      BY ONLY <2>1, SettingsInputsAre
    <2>3. output[1] = r
      BY DEF IInv, Answered
    <2> HIDE DEF sdm, cap, access, comm
    <2>4. IsBuilt(r, comm, access, sdm, cap)
      BY ONLY <2>2, SettingsAreRead
    <2> HIDE DEF r
    <2> QED BY ONLY <2>3, <2>4 DEF SettingsReadBack, IsBuilt, sdm, cap, access, comm
  <1> QED BY <1>1, ConversionsAnswered, PTL

\* what is asked of the CRC search: an answer made of bytes, and, if a payload was sent, the
\* frame of that payload
LEMMA CrcInputsAre ==
  ASSUME NEW i \in CrcInputs
  PROVE  /\ i.frame \in Seq(Octets)
         /\ \/ i.payload = << >>
            \/ /\ i.payload \in Seq(Octets) /\ Len(i.payload) >= 1
               /\ \E mark \in Marks : i.frame = CrcFrame(i.payload, mark)
  <1>1. ASSUME NEW p \in Messages
        PROVE  p \in Seq(Octets) /\ Len(p) >= 1
    <2>1. p \in SeqOf(Bytes, MaxPayload) /\ p # << >> /\ MaxPayload \in Nat
      BY PayloadsAssumption DEF Messages, Payloads
    <2>2. p \in Seq(Octets)
      BY <2>1, PayloadsAre
    <2> QED BY <2>1, <2>2
  <1>2. ASSUME NEW p \in CrcPayloads
        PROVE  p \in Seq(Octets) /\ Len(p) >= 1
    <2>1. PICK q \in Messages : p \in {q, q \o nxpsc_crc16(q), Append(q, nxpsc_crc16(q)[1])}
      BY DEF CrcPayloads
    <2> DEFINE crc == nxpsc_crc16(q)
    <2>2. q \in Seq(Octets) /\ Len(q) >= 1
      BY <1>1
    <2>3. crc \in Seq(Octets) /\ Len(crc) = 2
      BY <2>2, CrcIs
    <2> HIDE DEF crc
    <2>4. crc[1] \in Octets
      BY <2>3
    <2>5. p = q \/ p = q \o crc \/ p = Append(q, crc[1])
      BY <2>1 DEF crc
    <2>6. q \o crc \in Seq(Octets) /\ Len(q \o crc) >= 1
      BY ONLY <2>2, <2>3
    <2>7. Append(q, crc[1]) \in Seq(Octets) /\ Len(Append(q, crc[1])) >= 1
      BY ONLY <2>2, <2>4
    <2> QED BY ONLY <2>2, <2>5, <2>6, <2>7
  <1>3. CASE i \in {[op |-> "crc", payload |-> p, frame |-> CrcFrame(p, mark)] :
                      p \in CrcPayloads, mark \in {<< >>, <<128>>}}
    <2>1. PICK p \in CrcPayloads, mark \in Marks :
             i = [op |-> "crc", payload |-> p, frame |-> CrcFrame(p, mark)]
      BY <1>3 DEF Marks
    <2>2. i.payload = p /\ i.frame = CrcFrame(p, mark)
      BY <2>1
    <2>3. p \in Seq(Octets) /\ Len(p) >= 1
      BY <1>2
    <2>4. CrcFrame(p, mark) \in Seq(Octets)
      BY <2>3, CrcFrameIs
    <2> QED BY <2>2, <2>3, <2>4
  <1>4. CASE i \in UNION {{[op |-> "crc", payload |-> << >>,
                            frame |-> [CrcFrame(p, << >>) EXCEPT ![k] = (@ + 1) % 256]] :
                              k \in DOMAIN CrcFrame(p, << >>)} : p \in Messages}
    <2>1. PICK p \in Messages : \E k \in DOMAIN CrcFrame(p, << >>) :
             i = [op |-> "crc", payload |-> << >>,
                  frame |-> [CrcFrame(p, << >>) EXCEPT ![k] = (@ + 1) % 256]]
      BY <1>4
    <2> DEFINE frame == CrcFrame(p, << >>)
    <2>2. PICK k \in DOMAIN frame :
             i = [op |-> "crc", payload |-> << >>, frame |-> [frame EXCEPT ![k] = (@ + 1) % 256]]
      BY <2>1
    <2>3. frame \in Seq(Octets)
      <3>1. p \in Seq(Octets)
        BY <1>1
      <3> QED BY <3>1, CrcFrameIs DEF Marks
    <2> HIDE DEF frame
    <2> DEFINE byte == (frame[k] + 1) % 256  wrong == [frame EXCEPT ![k] = byte]
    <2>4. frame[k] \in Octets
      BY <2>3
    <2>5. byte \in Octets
      <3> DEFINE b == frame[k]
      <3> HIDE DEF b
      <3>1. (b + 1) % 256 \in Octets
        BY <2>4, SMT DEF Octets, b
      <3> QED BY <3>1 DEF b
    <2>6. i = [op |-> "crc", payload |-> << >>, frame |-> wrong]
      BY <2>2
    <2> HIDE DEF byte
    <2>7. wrong \in Seq(Octets)
      BY <2>3, <2>5
    <2> HIDE DEF wrong
    <2>8. i.payload = << >> /\ i.frame = wrong
      BY ONLY <2>6
    <2> QED BY <2>7, <2>8
  <1> QED BY <1>3, <1>4 DEF CrcInputs

\* The walk back from the end of a deciphered answer of any length finds the shortest way to
\* read it, never more than was sent, and refuses what carries no CRC
\* (nxpsc_search_crc_pos()).
THEOREM ConversionsCrc == Spec => []CrcFound
  <1>1. IInv => CrcFound
    <2> SUFFICES ASSUME IInv, input.op = "crc", output # << >>
                 PROVE  LET n        == output[1]
                            readings == Readings(input.frame)
                            sent     == Len(input.payload)
                        IN  /\ IF readings = {} THEN n = 0
                               ELSE n \in readings /\ \A m \in readings : n <= m
                            /\ sent > 0 => n \in 1..sent
                            /\ readings = {sent} => n = sent
      BY DEF CrcFound, Returned
    <2> DEFINE frame == input.frame  p == input.payload  n == search_crc_pos(frame)
               readings == Readings(frame)
    <2>1. input \in CrcInputs
      BY InputKinds DEF IInv
    <2>2. /\ frame \in Seq(Octets)
          /\ \/ p = << >>
             \/ /\ p \in Seq(Octets) /\ Len(p) >= 1
                /\ \E mark \in Marks : frame = CrcFrame(p, mark)
      BY <2>1, CrcInputsAre
    <2>3. output[1] = n
      BY DEF IInv, Answered
    <2> HIDE DEF frame, p
    <2>4. IF readings = {} THEN n = 0 ELSE n \in readings /\ \A m \in readings : n <= m
      BY <2>2, SearchFindsShortest
    <2>5. \A m \in readings : m \in Nat /\ m >= 1
      BY <2>2 DEF Readings
    <2> HIDE DEF n, readings
    <2>6. p = << >> \/ (Len(p) \in readings /\ Len(p) >= 1 /\ Len(p) \in Nat)
      BY <2>2, FrameIsRead DEF readings
    <2>7. p = << >> => Len(p) = 0
      OBVIOUS
    <2>8. Len(p) > 0 => n \in 1..Len(p)
      BY <2>4, <2>5, <2>6, <2>7
    <2>9. readings = {Len(p)} => n = Len(p)
      BY <2>4
    <2> QED BY <2>3, <2>4, <2>8, <2>9 DEF readings, frame, p
  <1> QED BY <1>1, ConversionsAnswered, PTL
=============================================================================
