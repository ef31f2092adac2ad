---------------------------- MODULE CodecProofs ----------------------------
(***************************************************************************)
(* What the algorithms of Codec promise, for data of any length: the       *)
(* padding is undone, no two messages share the input of their MAC, no two *)
(* writes their part of a transaction MAC, a key keeps its version, the    *)
(* CRC search finds what it should, CBC is received as it was sent and the *)
(* LRP counter goes up by one.                                             *)
(***************************************************************************)
EXTENDS Codec, Iteration

-----------------------------------------------------------------------------
(***************************************************************************)
(* Whole blocks, padding method 2 and the buffer of a CMAC.                *)
(***************************************************************************)
\* division with rest
LEMMA DivMod ==
  ASSUME NEW a \in Nat, NEW b \in Nat \ {0}
  PROVE  /\ a \div b \in Nat
         /\ a % b \in 0..(b - 1)
         /\ a = ((a \div b) * b) + (a % b)
  OBVIOUS

\* quotient and rest are the only ones
LEMMA ModUnique ==
  ASSUME NEW q \in Nat, NEW b \in Nat \ {0}, NEW r \in 0..(b - 1)
  PROVE  (q * b + r) % b = r /\ (q * b + r) \div b = q
  OBVIOUS

\* nxpsc_padded_len() rounds up to the next whole block
LEMMA PaddedLen ==
  ASSUME NEW len \in Nat
  PROVE  /\ nxpsc_padded_len(len) \in len..(len + Bs - 1)
         /\ nxpsc_padded_len(len) % Bs = 0
  <1> DEFINE a == len + Bs - 1
             q == a \div Bs
  <1>1. a \in Nat /\ Bs \in Nat \ {0}
    BY BsAssumption
  <1>2. q \in Nat /\ a % Bs \in 0..(Bs - 1) /\ a = (q * Bs) + (a % Bs)
    BY <1>1, DivMod
  <1>3. nxpsc_padded_len(len) = q * Bs
    BY DEF nxpsc_padded_len
  <1>4. (q * Bs + 0) % Bs = 0
    <2> HIDE DEF q, a
    <2>1. 0 \in 0..(Bs - 1)
      BY <1>1
    <2> QED BY <1>1, <1>2, <2>1, ModUnique
  <1>5. q * Bs \in Nat
    BY <1>1, <1>2
  <1>6. q * Bs \in len..(len + Bs - 1)
    BY <1>1, <1>2, <1>5
  <1>7. (q * Bs) % Bs = 0
    BY <1>4, <1>5
  <1> QED BY <1>3, <1>6, <1>7

\* more bytes never need fewer blocks
LEMMA PaddedLenGrows ==
  ASSUME NEW m \in Nat, NEW n \in Nat, m <= n
  PROVE  nxpsc_padded_len(m) <= nxpsc_padded_len(n)
  <1> DEFINE a == m + Bs - 1
             b == n + Bs - 1
             q == a \div Bs
             r == b \div Bs
  <1>1. a \in Nat /\ b \in Nat /\ Bs \in Nat \ {0} /\ a <= b
    BY BsAssumption
  <1>2. /\ q \in Nat /\ a % Bs \in 0..(Bs - 1) /\ a = (q * Bs) + (a % Bs)
        /\ r \in Nat /\ b % Bs \in 0..(Bs - 1) /\ b = (r * Bs) + (b % Bs)
    BY <1>1, DivMod
  <1>3. q <= r
    <2> SUFFICES ASSUME q >= r + 1 PROVE FALSE
      BY <1>2
    <2> HIDE DEF q, r, a, b
    <2>1. q * Bs >= (r + 1) * Bs
      BY <1>1, <1>2
    <2>2. (r + 1) * Bs = (r * Bs) + Bs
      BY <1>1, <1>2
    <2> QED BY <1>1, <1>2, <2>1, <2>2
  <1>4. q * Bs <= r * Bs
    <2> HIDE DEF q, r, a, b
    <2> QED BY <1>1, <1>2, <1>3
  <1> QED BY <1>4 DEF nxpsc_padded_len

\* all is data, the mark and zeros up to the next whole block
IsPadded(all, data, S) ==
    LET len == Len(data)
    IN  /\ all \in Seq(S \cup {0, 128})
        /\ Len(all) = nxpsc_padded_len(len + 1)
        /\ Len(all) \in (len + 1)..(len + Bs)
        /\ \A i \in 1..len : all[i] = data[i]
        /\ all[len + 1] = 128
        /\ \A i \in (len + 2)..Len(all) : all[i] = 0

\* what encode_ev2() and nxpsc_lrp_encode() make of a payload, byte by byte
LEMMA PaddedIs ==
  ASSUME NEW S, NEW data \in Seq(S)
  PROVE  IsPadded(Padded(data), data, S)
  <1> DEFINE len == Len(data)
             marked == Append(data, 128)
             n == nxpsc_padded_len(len + 1) - (len + 1)
  <1>1. /\ marked \in Seq(S \cup {128}) /\ Len(marked) = len + 1
        /\ marked[len + 1] = 128 /\ \A i \in 1..len : marked[i] = data[i]
    OBVIOUS
  <1>2. len \in Nat /\ n \in 0..(Bs - 1) /\ n \in Nat /\ len + 1 + n = nxpsc_padded_len(len + 1)
    <2>1. len \in Nat /\ len + 1 \in Nat /\ Bs \in Nat
      BY BsAssumption
    <2>2. nxpsc_padded_len(len + 1) \in (len + 1)..(len + 1 + Bs - 1)
      BY <2>1, PaddedLen
    <2> QED BY <2>1, <2>2
  <1>3. Padded(data) = marked \o Zeros(n)
    BY <1>1 DEF Padded, ZeroPadded
  <1>4. len = Len(data)
    OBVIOUS
  <1> HIDE DEF marked, n, len
  <1> DEFINE all == marked \o Zeros(n)
  <1>5. /\ all \in Seq((S \cup {128}) \cup {0})
        /\ Len(all) = Len(marked) + n
        /\ \A i \in 1..Len(marked) : all[i] = marked[i]
        /\ \A i \in (Len(marked) + 1)..(Len(marked) + n) : all[i] = 0
    <2>1. marked \in Seq(S \cup {128}) /\ n \in Nat
      BY <1>1, <1>2
    <2> QED BY <2>1 DEF Zeros
  <1>6. (S \cup {128}) \cup {0} = S \cup {0, 128}
    OBVIOUS
  <1> HIDE DEF all
  <1>7. /\ all \in Seq(S \cup {0, 128})
        /\ Len(all) = nxpsc_padded_len(len + 1)
        /\ Len(all) \in (len + 1)..(len + Bs)
        /\ \A i \in 1..len : all[i] = data[i]
        /\ all[len + 1] = 128
        /\ \A i \in (len + 2)..Len(all) : all[i] = 0
    <2>1. all \in Seq(S \cup {0, 128})
      BY <1>5, <1>6
    <2>2. Len(all) = len + 1 + n /\ Bs \in Nat
      BY <1>1, <1>2, <1>5, BsAssumption
    <2>3. \A i \in 1..(len + 1) : all[i] = marked[i]
      BY <1>1, <1>5
    <2>4. \A i \in 1..len : all[i] = data[i]
      BY <1>1, <1>2, <2>3
    <2>5. all[len + 1] = 128
      BY <1>1, <1>2, <2>3
    <2>6. \A i \in (len + 2)..Len(all) : all[i] = 0
      BY <1>1, <1>2, <1>5, <2>2
    <2> QED BY <1>2, <2>1, <2>2, <2>4, <2>5, <2>6
  <1> QED BY <1>3, <1>4, <1>7 DEF all, IsPadded

\* Min of a set of one number
LEMMA MinOne ==
  ASSUME NEW n \in Nat
  PROVE  Min({n}) = n
  BY DEF Min

\* Any payload padded the EV2 way is unpadded to its own length, by the channel
\* (iso9797_m2_len()) and by nxpsc_lrp_decode(), for every block size.
LEMMA PaddingIsUndone ==
  ASSUME NEW S, NEW data \in Seq(S)
  PROVE  iso9797_m2_len(Padded(data)) = Len(data) /\ lrp_pure(Padded(data)) = Len(data)
  <1> DEFINE all == Padded(data)
             len == Len(data)
             marks == {i \in DOMAIN all : all[i] = 128 /\ \A j \in (i + 1)..Len(all) : all[j] = 0}
             last == {i \in (Len(all) - Bs + 1)..Len(all) :
                        all[i] = 128 /\ \A j \in (i + 1)..Len(all) : all[j] = 0}
  <1>1. /\ all \in Seq(S \cup {0, 128})
        /\ Len(all) \in (len + 1)..(len + Bs)
        /\ all[len + 1] = 128
        /\ \A i \in (len + 2)..Len(all) : all[i] = 0
    <2>1. IsPadded(all, data, S)
      BY PaddedIs
    <2> HIDE DEF all
    <2> QED BY <2>1 DEF IsPadded
  <1>2. len \in Nat /\ Bs \in Nat \ {0} /\ Len(all) \in Nat /\ DOMAIN all = 1..Len(all)
    BY <1>1, BsAssumption
  <1>3. \A i \in 1..Len(all) :
           (all[i] = 128 /\ \A j \in (i + 1)..Len(all) : all[j] = 0) <=> i = len + 1
    <2> HIDE DEF all, len
    <2> SUFFICES ASSUME NEW i \in 1..Len(all)
                 PROVE  (all[i] = 128 /\ \A j \in (i + 1)..Len(all) : all[j] = 0) <=> i = len + 1
      OBVIOUS
    <2>1. CASE i < len + 1
      <3>1. len + 1 \in (i + 1)..Len(all) /\ all[len + 1] # 0
        BY <1>1, <1>2, <2>1
      <3> QED BY <2>1, <3>1, <1>2
    <2>2. CASE i = len + 1
      BY <2>2, <1>1, <1>2
    <2>3. CASE i > len + 1
      BY <2>3, <1>1, <1>2
    <2> QED BY <2>1, <2>2, <2>3, <1>2
  <1>4. marks = {len + 1} /\ last = {len + 1}
    <2> HIDE DEF all, len
    <2>1. len + 1 \in 1..Len(all) /\ len + 1 \in (Len(all) - Bs + 1)..Len(all)
      BY <1>1, <1>2
    <2>2. marks = {len + 1}
      BY <1>2, <1>3, <2>1
    <2>3. \A i \in (Len(all) - Bs + 1)..Len(all) :
             (all[i] = 128 /\ \A j \in (i + 1)..Len(all) : all[j] = 0) => i = len + 1
      <3> SUFFICES ASSUME NEW i \in (Len(all) - Bs + 1)..Len(all), all[i] = 128,
                          \A j \in (i + 1)..Len(all) : all[j] = 0
                   PROVE  i = len + 1
        OBVIOUS
      <3>1. CASE i \in 1..Len(all)
        BY <3>1, <1>3
      <3>2. CASE i \notin 1..Len(all)
        <4>1. len + 1 \in (i + 1)..Len(all)
          BY <3>2, <1>2, <2>1
        <4> QED BY <4>1, <1>1
      <3> QED BY <3>1, <3>2
    <2>4. last = {len + 1}
      BY <1>2, <1>3, <2>1, <2>3
    <2> QED BY <2>2, <2>4
  <1>5. Min({len + 1}) = len + 1
    BY <1>2, MinOne
  <1>6. iso9797_m2_len(all) = IF marks = {} THEN 0 ELSE Min(marks) - 1
    BY DEF iso9797_m2_len
  <1>7. lrp_pure(all) = IF last = {} THEN Len(all) ELSE Min(last) - 1
    BY DEF lrp_pure
  <1> HIDE DEF marks, last, all, len
  <1>8. iso9797_m2_len(all) = len /\ lrp_pure(all) = len
    <2>1. marks # {} /\ Min(marks) = len + 1 /\ last # {} /\ Min(last) = len + 1
      BY <1>4, <1>5
    <2>2. iso9797_m2_len(all) = (len + 1) - 1
      BY <1>6, <2>1
    <2>3. lrp_pure(all) = (len + 1) - 1
      BY <1>7, <2>1
    <2> QED BY <1>2, <2>2, <2>3
  <1> QED BY <1>8 DEF all, len

\* Max of two numbers, as the code's ternary has it
LEMMA MaxTwo ==
  ASSUME NEW m \in Nat, NEW n \in Nat
  PROVE  Max({m, n}) = IF m >= n THEN m ELSE n
  BY DEF Max

\* the mark and zeros were added, and the second subkey masks the last block
Masked(made, data, min_len) ==
    LET len  == Len(data)
        mlen == nxpsc_padded_len(Max({len + 1, min_len}))
    IN  /\ made.subkey = 2
        /\ Len(made.buffer) = mlen
        /\ mlen \in (len + 1)..cmac_buflen(data, min_len)
        /\ mlen >= min_len
        /\ mlen % Bs = 0
        /\ \A i \in 1..len : made.buffer[i] = data[i]
        /\ made.buffer[len + 1] = 128
        /\ \A i \in (len + 2)..mlen : made.buffer[i] = 0

\* the message is whole blocks as it is, and the first subkey masks the last
Unmasked(made, data, min_len) ==
    /\ made.subkey = 1
    /\ made.buffer = data
    /\ Len(data) > 0 /\ Len(data) % Bs = 0
    /\ Len(data) \in min_len..cmac_buflen(data, min_len)

\* the two ways nxpsc_cmac() fills its buffer
LEMMA CmacInputIs ==
  ASSUME NEW S, NEW data \in Seq(S), NEW min_len \in Nat
  PROVE  LET made == cmac_input(data, min_len)
         IN  Masked(made, data, min_len) \/ Unmasked(made, data, min_len)
  <1> DEFINE len == Len(data)
             made == cmac_input(data, min_len)
             most == Max({len + 1, min_len})
             mlen == nxpsc_padded_len(most)
             room == cmac_buflen(data, min_len)
  <1>1. len \in Nat /\ Bs \in Nat \ {0}
    BY BsAssumption
  <1>2. /\ most \in Nat /\ most >= len + 1 /\ most >= min_len
        /\ Max({len, min_len}) + 1 \in Nat
        /\ most <= Max({len, min_len}) + 1
        /\ len <= Max({len, min_len}) + 1
    <2>1. most = IF len + 1 >= min_len THEN len + 1 ELSE min_len
      BY <1>1, MaxTwo
    <2>2. Max({len, min_len}) = IF len >= min_len THEN len ELSE min_len
      BY <1>1, MaxTwo
    <2> QED BY <1>1, <2>1, <2>2
  <1>3. room = nxpsc_padded_len(Max({len, min_len}) + 1)
    BY DEF cmac_buflen
  <1>4. mlen \in Nat /\ mlen >= most /\ mlen % Bs = 0
    <2>1. mlen \in most..(most + Bs - 1) /\ mlen % Bs = 0
      BY <1>2, PaddedLen
    <2> HIDE DEF mlen, most
    <2> QED BY <1>1, <1>2, <2>1
  <1>5. room \in Nat /\ room >= len
    <2> DEFINE asked == Max({len, min_len}) + 1
    <2>1. nxpsc_padded_len(asked) \in asked..(asked + Bs - 1)
      BY <1>2, PaddedLen
    <2>2. asked \in Nat /\ asked >= len /\ room = nxpsc_padded_len(asked)
      BY <1>2, <1>3
    <2> HIDE DEF asked, room
    <2> QED BY <1>1, <2>1, <2>2
  <1>6. mlen <= room
    BY <1>2, <1>3, PaddedLenGrows
  <1>7. CASE len = 0 \/ len % Bs # 0 \/ len < min_len
    <2> DEFINE marked == Append(data, 128)
               n == mlen - len - 1
               all == marked \o Zeros(n)
    <2>1. made = [buffer |-> all, subkey |-> 2]
      BY <1>7 DEF cmac_input
    <2>2. /\ marked \in Seq(S \cup {128}) /\ Len(marked) = len + 1
          /\ marked[len + 1] = 128 /\ \A i \in 1..len : marked[i] = data[i]
      OBVIOUS
    <2>3. n \in Nat /\ len + 1 + n = mlen
      BY <1>1, <1>2, <1>4
    <2> HIDE DEF marked, n, len, mlen, most, made, room
    <2>4. /\ Len(all) = Len(marked) + n
          /\ \A i \in 1..Len(marked) : all[i] = marked[i]
          /\ \A i \in (Len(marked) + 1)..(Len(marked) + n) : all[i] = 0
      <3>1. marked \in Seq(S \cup {128}) /\ n \in Nat
        BY <2>2, <2>3
      <3> QED BY <3>1 DEF Zeros
    <2> HIDE DEF all
    <2>5. made.buffer = all /\ made.subkey = 2
      BY <2>1
    <2>6. /\ Len(all) = mlen
          /\ \A i \in 1..len : all[i] = data[i]
          /\ all[len + 1] = 128
          /\ \A i \in (len + 2)..mlen : all[i] = 0
      BY <1>1, <2>2, <2>3, <2>4
    <2>7. mlen \in (len + 1)..room /\ mlen >= min_len
      BY <1>1, <1>2, <1>4, <1>5, <1>6, <2>3
    <2>8. Masked(made, data, min_len)
      BY <1>4, <2>5, <2>6, <2>7 DEF Masked, mlen, most, len, room
    <2> QED BY <2>8 DEF made
  <1>8. CASE ~(len = 0 \/ len % Bs # 0 \/ len < min_len)
    <2>1. made = [buffer |-> data, subkey |-> 1]
      BY <1>8 DEF cmac_input
    <2>2. made.buffer = data /\ made.subkey = 1
      BY <2>1
    <2>3. len > 0 /\ len % Bs = 0 /\ len \in min_len..room
      BY <1>1, <1>5, <1>8
    <2> HIDE DEF made, room
    <2>4. Unmasked(made, data, min_len)
      BY <2>2, <2>3 DEF Unmasked, room
    <2> QED BY <2>4 DEF made
  <1> QED BY <1>7, <1>8

\* nxpsc_cmac() chains the same masked buffer for no two different messages, for every
\* block size, any bytes and any length.
LEMMA MacInputsAreApart ==
  ASSUME NEW S, NEW one \in Seq(S), NEW other \in Seq(S), NEW min_len \in Nat,
         cmac_input(one, min_len) = cmac_input(other, min_len)
  PROVE  one = other
  <1> DEFINE made == cmac_input(one, min_len)
  <1>1. Masked(made, one, min_len) \/ Unmasked(made, one, min_len)
    BY CmacInputIs
  <1>2. Masked(made, other, min_len) \/ Unmasked(made, other, min_len)
    BY CmacInputIs
  <1> HIDE DEF made
  <1>3. CASE Unmasked(made, one, min_len) /\ Unmasked(made, other, min_len)
    BY <1>3 DEF Unmasked
  <1>4. CASE Masked(made, one, min_len) /\ Masked(made, other, min_len)
    <2> DEFINE buffer == made.buffer
    <2>1. /\ Len(one) \in Nat /\ Len(other) \in Nat
          /\ Len(buffer) \in Nat /\ Len(buffer) > Len(one) /\ Len(buffer) > Len(other)
      BY <1>4 DEF Masked
    <2>2. /\ \A i \in 1..Len(one) : buffer[i] = one[i]
          /\ buffer[Len(one) + 1] = 128
          /\ \A i \in (Len(one) + 2)..Len(buffer) : buffer[i] = 0
      BY <1>4 DEF Masked
    <2>3. /\ \A i \in 1..Len(other) : buffer[i] = other[i]
          /\ buffer[Len(other) + 1] = 128
          /\ \A i \in (Len(other) + 2)..Len(buffer) : buffer[i] = 0
      BY <1>4 DEF Masked
    <2> HIDE DEF buffer
    <2>4. ~(Len(one) < Len(other)) /\ ~(Len(other) < Len(one))
      <3>1. ASSUME Len(one) < Len(other) PROVE FALSE
        <4>1. Len(other) + 1 \in (Len(one) + 2)..Len(buffer)
          BY <2>1, <3>1
        <4>2. buffer[Len(other) + 1] = 0
          BY <2>2, <4>1
        <4> QED BY <2>3, <4>2
      <3>2. ASSUME Len(other) < Len(one) PROVE FALSE
        <4>1. Len(one) + 1 \in (Len(other) + 2)..Len(buffer)
          BY <2>1, <3>2
        <4>2. buffer[Len(one) + 1] = 0
          BY <2>3, <4>1
        <4> QED BY <2>2, <4>2
      <3> QED BY <3>1, <3>2
    <2>5. Len(one) = Len(other)
      BY <2>1, <2>4
    <2>6. \A i \in 1..Len(one) : one[i] = other[i]
      BY <2>2, <2>3, <2>5
    <2> QED BY <2>5, <2>6
  <1>5. Masked(made, one, min_len) => ~Unmasked(made, other, min_len)
    BY DEF Masked, Unmasked
  <1>6. Masked(made, other, min_len) => ~Unmasked(made, one, min_len)
    BY DEF Masked, Unmasked
  <1> QED BY <1>1, <1>2, <1>3, <1>4, <1>5, <1>6

-----------------------------------------------------------------------------
(***************************************************************************)
(* The input of a transaction MAC.                                         *)
(***************************************************************************)
\* two sequences put together, byte by byte
LEMMA Joined ==
  ASSUME NEW W, NEW a \in Seq(W), NEW b \in Seq(W)
  PROVE  /\ a \o b \in Seq(W)
         /\ Len(a \o b) = Len(a) + Len(b)
         /\ \A i \in 1..Len(a) : (a \o b)[i] = a[i]
         /\ \A i \in 1..Len(b) : (a \o b)[Len(a) + i] = b[i]
  OBVIOUS

\* and three
LEMMA JoinedThree ==
  ASSUME NEW W, NEW a \in Seq(W), NEW b \in Seq(W), NEW c \in Seq(W)
  PROVE  /\ Len(a \o b \o c) = Len(a) + Len(b) + Len(c)
         /\ \A i \in 1..Len(a) : (a \o b \o c)[i] = a[i]
         /\ \A i \in 1..Len(b) : (a \o b \o c)[Len(a) + i] = b[i]
  <1> DEFINE d == a \o b
  <1>1. /\ d \in Seq(W) /\ Len(d) = Len(a) + Len(b)
        /\ \A i \in 1..Len(a) : d[i] = a[i]
        /\ \A i \in 1..Len(b) : d[Len(a) + i] = b[i]
    BY Joined
  <1> HIDE DEF d
  <1>2. /\ Len(d \o c) = Len(d) + Len(c)
        /\ \A i \in 1..Len(d) : (d \o c)[i] = d[i]
    <2>1. d \in Seq(W)
      BY <1>1
    <2> QED BY <2>1, Joined
  <1>3. /\ Len(d \o c) = Len(a) + Len(b) + Len(c)
        /\ \A i \in 1..Len(a) : (d \o c)[i] = a[i]
        /\ \A i \in 1..Len(b) : (d \o c)[Len(a) + i] = b[i]
    BY <1>1, <1>2
  <1> QED BY <1>3 DEF d

\* a run of zeros, byte by byte
LEMMA ZerosAre ==
  ASSUME NEW n \in Nat, NEW W, 0 \in W
  PROVE  Zeros(n) \in Seq(W) /\ Len(Zeros(n)) = n /\ \A i \in 1..n : Zeros(n)[i] = 0
  BY DEF Zeros

\* a number below 2^24 is made of its three bytes
LEMMA U24Bytes ==
  ASSUME NEW m \in Nat, m < U24
  PROVE  m = (m % 256) + (256 * ((m \div 256) % 256)) + (65536 * ((m \div 65536) % 256))
  <1>1. m \in Nat /\ m < 16777216
    BY SMT DEF U24
  <1> DEFINE a == m \div 256
             b == m \div 65536
  <1>2. a \in Nat /\ m = (m % 256) + (256 * a) /\ a < 65536
    BY <1>1, SMT
  <1>3. b = a \div 256 /\ b \in Nat /\ a = (a % 256) + (256 * b) /\ b < 256
    BY <1>1, <1>2, SMT
  <1>4. b % 256 = b
    BY <1>3, SMT
  <1> QED BY <1>1, <1>2, <1>3, <1>4, SMT

\* put_u24() tells numbers below 2^24 apart
LEMMA U24Apart ==
  ASSUME NEW m \in Nat, NEW n \in Nat, m < U24, n < U24, put_u24(m) = put_u24(n)
  PROVE  m = n
  <1>1. /\ m % 256 = n % 256
        /\ (m \div 256) % 256 = (n \div 256) % 256
        /\ (m \div 65536) % 256 = (n \div 65536) % 256
    BY SMT DEF put_u24
  <1>2. /\ m = (m % 256) + (256 * ((m \div 256) % 256)) + (65536 * ((m \div 65536) % 256))
        /\ n = (n % 256) + (256 * ((n \div 256) % 256)) + (65536 * ((n \div 65536) % 256))
    BY U24Bytes, SMT
  <1> QED BY <1>1, <1>2, SMT

\* where the header of a WriteRecord has its file, offset and length
LEMMA TmiHeaderIs ==
  ASSUME NEW file_no, NEW offset \in Nat, NEW S, NEW data \in Seq(S)
  PROVE  LET h == tmi_header(file_no, offset, data)
         IN  /\ Len(h) = TmiBlock
             /\ DOMAIN h = 1..TmiBlock
             /\ h[2] = file_no
             /\ <<h[3], h[4], h[5]>> = put_u24(offset)
             /\ <<h[6], h[7], h[8]>> = put_u24(Len(data))
  BY SMT DEF tmi_header, TmiBlock, put_u24, Zeros

\* the bytes of the padded record
TmiPadded(data) == ((Len(data) + TmiBlock - 1) \div TmiBlock) * TmiBlock

\* tmi is the header of the write and its data, filled up with zeros
Contributes(tmi, file_no, offset, data) ==
    LET padded == TmiPadded(data)
    IN  /\ Len(tmi) = TmiBlock + padded
        /\ tmi[2] = file_no
        /\ <<tmi[3], tmi[4], tmi[5]>> = put_u24(offset)
        /\ <<tmi[6], tmi[7], tmi[8]>> = put_u24(Len(data))
        /\ \A i \in 1..Len(data) : tmi[TmiBlock + i] = data[i]

\* when nxpsc_tmac_tmi_write_record() accepts a write, and what it makes of it
LEMMA TmiWriteIs ==
  ASSUME NEW file_no, NEW offset \in Nat, NEW S, NEW data \in Seq(S), NEW cap \in Nat
  PROVE  LET made == nxpsc_tmac_tmi_write_record(file_no, offset, data, cap)
             fits == /\ offset < U24 /\ Len(data) > 0 /\ Len(data) < U24
                     /\ cap >= TmiBlock + TmiPadded(data)
         IN  /\ made.rc = "OK" <=> fits
             /\ made.rc = "OK" => Contributes(made.tmi, file_no, offset, data)
  <1> DEFINE len == Len(data)
             made == nxpsc_tmac_tmi_write_record(file_no, offset, data, cap)
             n == TmiPadded(data) - len
             header == tmi_header(file_no, offset, data)
             tmi == header \o data \o Zeros(n)
  <1>1. len \in Nat /\ n \in Nat /\ TmiPadded(data) = len + n
    BY DEF TmiPadded, TmiBlock
  <1>2. U24 \in Nat /\ TmiBlock \in Nat
    BY SMT DEF U24, TmiBlock
  <1> DEFINE refused == offset >= U24 \/ len = 0 \/ len >= U24
             short == cap < TmiBlock + TmiPadded(data)
             fits == /\ offset < U24 /\ Len(data) > 0 /\ Len(data) < U24
                     /\ cap >= TmiBlock + TmiPadded(data)
  <1>3. fits <=> ~refused /\ ~short
    BY <1>1, <1>2
  <1>4. CASE refused
    <2>1. made.rc = "PARAM"
      BY <1>4 DEF nxpsc_tmac_tmi_write_record
    <2> QED BY <1>3, <1>4, <2>1
  <1>5. CASE ~refused /\ short
    <2>1. made.rc = "LENGTH"
      BY <1>5 DEF nxpsc_tmac_tmi_write_record, TmiPadded
    <2> QED BY <1>3, <1>5, <2>1
  <1>6. CASE ~refused /\ ~short
    <2>1. made = [rc |-> "OK", tmi |-> tmi]
      BY <1>6 DEF nxpsc_tmac_tmi_write_record, TmiPadded
    <2>2. /\ Len(header) = 16 /\ DOMAIN header = 1..16
          /\ header[2] = file_no
          /\ <<header[3], header[4], header[5]>> = put_u24(offset)
          /\ <<header[6], header[7], header[8]>> = put_u24(len)
      BY TmiHeaderIs, SMT DEF TmiBlock
    <2> DEFINE W == S \cup {file_no} \cup Nat
    <2>3. header \in Seq(W)
      <3>1. <<59, file_no>> \in Seq(W) /\ put_u24(offset) \in Seq(W) /\ put_u24(len) \in Seq(W)
            /\ Zeros(8) \in Seq(W)
        BY <1>1, SMT DEF put_u24, Zeros
      <3> HIDE DEF W, len
      <3> QED BY <3>1, SMT DEF tmi_header, len
    <2> HIDE DEF n, header, len, W
    <2>4. /\ Len(tmi) = 16 + len + n
          /\ \A i \in 1..16 : tmi[i] = header[i]
          /\ \A i \in 1..len : tmi[16 + i] = data[i]
      <3>1. header \in Seq(W) /\ data \in Seq(W) /\ n \in Nat /\ Len(header) = 16
        BY <1>1, <2>2, <2>3, SMT DEF W
      <3>2. Zeros(n) \in Seq(W) /\ Len(Zeros(n)) = n
        <4>1. 0 \in W
          BY DEF W
        <4> QED BY <3>1, <4>1, ZerosAre
      <3>3. /\ Len(tmi) = Len(header) + Len(data) + Len(Zeros(n))
            /\ \A i \in 1..Len(header) : tmi[i] = header[i]
            /\ \A i \in 1..Len(data) : tmi[Len(header) + i] = data[i]
        <4> HIDE DEF len, W
        <4>1. header \in Seq(W) /\ data \in Seq(W) /\ Zeros(n) \in Seq(W)
          BY <3>1, <3>2
        <4> QED BY <4>1, JoinedThree
      <3> HIDE DEF tmi
      <3> QED BY <3>1, <3>2, <3>3, <1>1, SMT DEF len
    <2> HIDE DEF tmi
    <2>5. Contributes(tmi, file_no, offset, data)
      BY <1>1, <2>2, <2>4, SMT DEF Contributes, TmiBlock, len
    <2>6. made.rc = "OK" /\ made.tmi = tmi
      BY <2>1
    <2> QED BY <1>3, <1>6, <2>5, <2>6
  <1> QED BY <1>4, <1>5, <1>6

\* What one write of a record contributes to the transaction MAC tells the file, the
\* offset and every byte of the data.
LEMMA WritesAreApart ==
  ASSUME NEW S, NEW d1 \in Seq(S), NEW d2 \in Seq(S), NEW o1 \in Nat, NEW o2 \in Nat,
         NEW f1, NEW f2, NEW tmi,
         o1 < U24, o2 < U24, Len(d1) < U24, Len(d2) < U24,
         Contributes(tmi, f1, o1, d1), Contributes(tmi, f2, o2, d2)
  PROVE  f1 = f2 /\ o1 = o2 /\ d1 = d2
  <1>1. f1 = f2 /\ put_u24(o1) = put_u24(o2) /\ put_u24(Len(d1)) = put_u24(Len(d2))
    BY DEF Contributes
  <1>2. o1 = o2
    BY <1>1, U24Apart
  <1>3. Len(d1) \in Nat /\ Len(d2) \in Nat
    OBVIOUS
  <1>4. Len(d1) = Len(d2)
    BY <1>1, <1>3, U24Apart
  <1>5. \A i \in 1..Len(d1) : d1[i] = d2[i]
    BY <1>3, <1>4 DEF Contributes
  <1> QED BY <1>1, <1>2, <1>4, <1>5

\* what a write contributes is whole blocks, as nxpsc_tmac_compute() demands
LEMMA TmiIsTaken ==
  ASSUME NEW S, NEW data \in Seq(S), Len(data) > 0, NEW tmi, NEW f, NEW o, Contributes(tmi, f, o, data)
  PROVE  TmacTakes(tmi) /\ Len(tmi) = TmiBlock + TmiPadded(data)
  <1>1. Len(tmi) = 16 + (((Len(data) + 15) \div 16) * 16)
    BY SMT DEF Contributes, TmiPadded, TmiBlock
  <1>2. Len(data) \in Nat
    OBVIOUS
  <1>3. Len(tmi) > 0 /\ Len(tmi) % 16 = 0
    BY <1>1, <1>2, SMT
  <1> QED BY <1>3 DEF TmacTakes, TmiBlock, Contributes

-----------------------------------------------------------------------------
(***************************************************************************)
(* The version in the parity bits of a DES key.                            *)
(***************************************************************************)
\* the weights of the bits of a byte
LEMMA WeightsAre ==
  /\ Weight[1] = 128 /\ Weight[2] = 64 /\ Weight[3] = 32 /\ Weight[4] = 16
  /\ Weight[5] = 8 /\ Weight[6] = 4 /\ Weight[7] = 2 /\ Weight[8] = 1
  BY SMT DEF Weight

\* a byte is the sum of its bits
LEMMA BitsMake ==
  ASSUME NEW v \in Nat, v < 256
  PROVE  v = (((v \div 128) % 2) * 128) + (((v \div 64) % 2) * 64) + (((v \div 32) % 2) * 32)
             + (((v \div 16) % 2) * 16) + (((v \div 8) % 2) * 8) + (((v \div 4) % 2) * 4)
             + (((v \div 2) % 2) * 2) + (v % 2)
  <1>1. v \div 4 = (v \div 2) \div 2 /\ v \div 8 = (v \div 4) \div 2 /\ v \div 16 = (v \div 8) \div 2
    BY SMT
  <1>2. /\ v \div 32 = (v \div 16) \div 2 /\ v \div 64 = (v \div 32) \div 2
        /\ v \div 128 = (v \div 64) \div 2
    BY SMT
  <1>3. \A x \in Nat : x = (2 * (x \div 2)) + (x % 2) /\ x \div 2 \in Nat
    BY SMT
  <1> DEFINE a == v \div 2  b == v \div 4  c == v \div 8  d == v \div 16
             e == v \div 32  f == v \div 64  g == v \div 128
  <1>4. v = (2 * a) + (v % 2) /\ a \in Nat
    BY <1>3, SMT
  <1>5. a = (2 * b) + (a % 2) /\ b \in Nat
    BY <1>1, <1>3, <1>4, SMT
  <1>6. b = (2 * c) + (b % 2) /\ c \in Nat
    BY <1>1, <1>3, <1>5, SMT
  <1>7. c = (2 * d) + (c % 2) /\ d \in Nat
    BY <1>1, <1>3, <1>6, SMT
  <1>8. d = (2 * e) + (d % 2) /\ e \in Nat
    BY <1>2, <1>3, <1>7, SMT
  <1>9. e = (2 * f) + (e % 2) /\ f \in Nat
    BY <1>2, <1>3, <1>8, SMT
  <1>10. f = (2 * g) + (f % 2) /\ g \in Nat
    BY <1>2, <1>3, <1>9, SMT
  <1>11. g < 2 /\ g % 2 = g
    BY <1>10, SMT
  <1> HIDE DEF a, b, c, d, e, f, g
  <1>12. /\ a % 2 \in Int /\ b % 2 \in Int /\ c % 2 \in Int /\ d % 2 \in Int
         /\ e % 2 \in Int /\ f % 2 \in Int /\ v % 2 \in Int
    BY <1>4, <1>5, <1>6, <1>7, <1>8, <1>9, <1>10, SMT
  <1>13. v = ((g % 2) * 128) + ((f % 2) * 64) + ((e % 2) * 32) + ((d % 2) * 16)
             + ((c % 2) * 8) + ((b % 2) * 4) + ((a % 2) * 2) + (v % 2)
    BY <1>4, <1>5, <1>6, <1>7, <1>8, <1>9, <1>10, <1>11, <1>12, SMT
  <1> QED BY <1>13, SMT DEF a, b, c, d, e, f, g

\* bit n of a version, the most significant first
LEMMA VersionBitIs ==
  ASSUME NEW v \in Nat
  PROVE  /\ VersionBit(v, 0) = (v \div 128) % 2 /\ VersionBit(v, 1) = (v \div 64) % 2
         /\ VersionBit(v, 2) = (v \div 32) % 2 /\ VersionBit(v, 3) = (v \div 16) % 2
         /\ VersionBit(v, 4) = (v \div 8) % 2 /\ VersionBit(v, 5) = (v \div 4) % 2
         /\ VersionBit(v, 6) = (v \div 2) % 2 /\ VersionBit(v, 7) = v % 2
         /\ \A n \in 0..7 : VersionBit(v, n) \in 0..1
  <1>1. /\ VersionBit(v, 0) = (v \div 128) % 2 /\ VersionBit(v, 1) = (v \div 64) % 2
        /\ VersionBit(v, 2) = (v \div 32) % 2 /\ VersionBit(v, 3) = (v \div 16) % 2
    BY SMT DEF VersionBit, Weight
  <1>2. /\ VersionBit(v, 4) = (v \div 8) % 2 /\ VersionBit(v, 5) = (v \div 4) % 2
        /\ VersionBit(v, 6) = (v \div 2) % 2 /\ VersionBit(v, 7) = v % 2
    BY SMT DEF VersionBit, Weight
  <1>3. \A n \in 0..7 : VersionBit(v, n) \in 0..1
    <2>1. /\ VersionBit(v, 0) \in 0..1 /\ VersionBit(v, 1) \in 0..1 /\ VersionBit(v, 2) \in 0..1
          /\ VersionBit(v, 3) \in 0..1 /\ VersionBit(v, 4) \in 0..1 /\ VersionBit(v, 5) \in 0..1
          /\ VersionBit(v, 6) \in 0..1 /\ VersionBit(v, 7) \in 0..1
      BY <1>1, <1>2, SMT
    <2> QED BY <2>1, SMT
  <1> QED BY <1>1, <1>2, <1>3

\* The version written into a DES key is read back from each part of eight bytes.
LEMMA VersionReadBack ==
  ASSUME NEW key \in Seq(Nat), NEW version \in Nat, version < 256,
         NEW part \in Nat, 8 * part + 8 <= Len(key)
  PROVE  des_key_get_version(SubSeq(des_key_set_version(key, version), 8 * part + 1, 8 * part + 8))
           = version
  <1> DEFINE out == des_key_set_version(key, version)
             one == SubSeq(out, 8 * part + 1, 8 * part + 8)
  <1>1. out \in Seq(Nat) /\ Len(out) = Len(key)
        /\ \A k \in 1..Len(key) : out[k] = ((key[k] \div 2) * 2) + VersionBit(version, (k - 1) % 8)
     <2>1. \A n \in 0..7 : VersionBit(version, n) \in Nat
        <3>1. \A n \in 0..7 : VersionBit(version, n) \in 0..1
          BY VersionBitIs
        <3>2. \A x \in 0..1 : x \in Nat
          OBVIOUS
        <3> QED BY <3>1, <3>2, Zenon
     <2>2. \A k \in 1..Len(key) : (k - 1) % 8 \in 0..7 /\ key[k] \in Nat
        BY SMT
     <2>3. \A k \in 1..Len(key) : ((key[k] \div 2) * 2) + VersionBit(version, (k - 1) % 8) \in Nat
        <3> SUFFICES ASSUME NEW k \in 1..Len(key)
                     PROVE  ((key[k] \div 2) * 2) + VersionBit(version, (k - 1) % 8) \in Nat
          OBVIOUS
        <3>1. VersionBit(version, (k - 1) % 8) \in Nat /\ key[k] \in Nat
          BY <2>1, <2>2
        <3> QED BY <3>1, SMT
     <2>4. out = [k \in 1..Len(key) |-> ((key[k] \div 2) * 2) + VersionBit(version, (k - 1) % 8)]
        BY DEF des_key_set_version
     <2> HIDE DEF out
     <2> QED BY <2>3, <2>4
  <1> HIDE DEF out
  <1>2. \A n \in 1..8 : one[n] = out[8 * part + n]
    BY <1>1, SMT
  <1>3. ASSUME NEW n \in 1..8
        PROVE  one[n] % 2 = (version \div Weight[n]) % 2
    <2> DEFINE k == 8 * part + n
    <2>1. k \in 1..Len(key) /\ (k - 1) % 8 = n - 1 /\ key[k] \in Nat
      BY SMT
    <2>2. one[n] = ((key[k] \div 2) * 2) + VersionBit(version, n - 1)
      BY <1>1, <1>2, <2>1
    <2>3. VersionBit(version, n - 1) = (version \div Weight[n]) % 2
      BY DEF VersionBit
    <2>4. VersionBit(version, n - 1) \in 0..1
      <3>1. n - 1 \in 0..7
        OBVIOUS
      <3> QED BY <3>1, VersionBitIs
    <2> HIDE DEF one, k
    <2> QED BY <2>1, <2>2, <2>3, <2>4, SMT
  <1>4. /\ one[1] % 2 = (version \div 128) % 2 /\ one[2] % 2 = (version \div 64) % 2
        /\ one[3] % 2 = (version \div 32) % 2 /\ one[4] % 2 = (version \div 16) % 2
        /\ one[5] % 2 = (version \div 8) % 2 /\ one[6] % 2 = (version \div 4) % 2
        /\ one[7] % 2 = (version \div 2) % 2 /\ one[8] % 2 = (version \div 1) % 2
    <2>1. /\ one[1] % 2 = (version \div Weight[1]) % 2 /\ one[2] % 2 = (version \div Weight[2]) % 2
          /\ one[3] % 2 = (version \div Weight[3]) % 2 /\ one[4] % 2 = (version \div Weight[4]) % 2
          /\ one[5] % 2 = (version \div Weight[5]) % 2 /\ one[6] % 2 = (version \div Weight[6]) % 2
          /\ one[7] % 2 = (version \div Weight[7]) % 2 /\ one[8] % 2 = (version \div Weight[8]) % 2
      <3> HIDE DEF one
      <3> QED BY <1>3
    <2> HIDE DEF one
    <2> QED BY <2>1, WeightsAre
  <1>5. version \div 1 = version
    BY SMT
  <1> HIDE DEF one
  <1>6. des_key_get_version(one)
          = ((one[1] % 2) * 128) + ((one[2] % 2) * 64) + ((one[3] % 2) * 32) + ((one[4] % 2) * 16)
            + ((one[5] % 2) * 8) + ((one[6] % 2) * 4) + ((one[7] % 2) * 2) + ((one[8] % 2) * 1)
    BY WeightsAre DEF des_key_get_version
  <1>7. (version % 2) * 1 = version % 2
    BY SMT
  <1>8. des_key_get_version(one) = version
    BY <1>4, <1>5, <1>6, <1>7, BitsMake
  <1> QED BY <1>8 DEF one, out

\* Setting the version changes no bit of a key but the parity bits.
LEMMA KeyBitsStay ==
  ASSUME NEW key \in Seq(Nat), NEW version \in Nat
  PROVE  LET out == des_key_set_version(key, version)
         IN  /\ DOMAIN out = DOMAIN key
             /\ \A k \in DOMAIN key : out[k] \div 2 = key[k] \div 2
  <1> SUFFICES ASSUME NEW k \in DOMAIN key
               PROVE  (((key[k] \div 2) * 2) + VersionBit(version, (k - 1) % 8)) \div 2 = key[k] \div 2
    BY DEF des_key_set_version
  <1> DEFINE n == (k - 1) % 8
             bit == VersionBit(version, n)
  <1>1. k \in 1..Len(key) /\ key[k] \in Nat
    OBVIOUS
  <1>2. n \in 0..7
    <2>1. \A i \in Nat : i % 8 \in 0..7
      BY SMT
    <2>2. k - 1 \in Nat
      BY <1>1, SMT
    <2> QED BY <2>1, <2>2
  <1>3. bit \in 0..1
    BY <1>2, VersionBitIs
  <1> HIDE DEF bit
  <1>4. \A x \in Nat : ((x \div 2) * 2 + bit) \div 2 = x \div 2
    BY <1>3, SMT
  <1>5. ((key[k] \div 2) * 2 + bit) \div 2 = key[k] \div 2
    BY <1>1, <1>4
  <1> QED BY <1>5 DEF bit

-----------------------------------------------------------------------------
(***************************************************************************)
(* Exclusive or, and the register of the CRC16.                            *)
(***************************************************************************)
\* a nibble is the sum of its bits
LEMMA NibbleBits ==
  ASSUME NEW a \in Nat, a < 16
  PROVE  /\ a = (8 * ((a \div 8) % 2)) + (4 * ((a \div 4) % 2)) + (2 * ((a \div 2) % 2)) + (a % 2)
         /\ a \div 8 \in Nat /\ a \div 4 \in Nat /\ a \div 2 \in Nat
  <1>1. a \div 4 = (a \div 2) \div 2 /\ a \div 8 = (a \div 4) \div 2
    BY SMT
  <1>2. \A x \in Nat : x = (2 * (x \div 2)) + (x % 2) /\ x \div 2 \in Nat
    BY SMT
  <1> DEFINE b == a \div 2  c == a \div 4  d == a \div 8
  <1>3. a = (2 * b) + (a % 2) /\ b \in Nat
    BY <1>2, SMT
  <1>4. b = (2 * c) + (b % 2) /\ c \in Nat
    BY <1>1, <1>2, <1>3, SMT
  <1>5. c = (2 * d) + (c % 2) /\ d \in Nat
    BY <1>1, <1>2, <1>4, SMT
  <1>6. d < 2 /\ d % 2 = d
    BY <1>5, SMT
  <1> QED BY <1>3, <1>4, <1>5, <1>6, SMT

\* the bits of the exclusive or of two nibbles
LEMMA XorNibbleIs ==
  ASSUME NEW a \in Nat, NEW b \in Nat, a < 16, b < 16
  PROVE  XorNibble[a][b] = (8 * (((a \div 8) + (b \div 8)) % 2)) + (4 * (((a \div 4) + (b \div 4)) % 2))
                           + (2 * (((a \div 2) + (b \div 2)) % 2)) + ((a + b) % 2)
  <1>1. a \in 0..15 /\ b \in 0..15 /\ a \div 1 = a /\ b \div 1 = b
    BY SMT
  <1>2. XorNibble[a][b] = (8 * (((a \div 8) + (b \div 8)) % 2)) + (4 * (((a \div 4) + (b \div 4)) % 2))
                           + (2 * (((a \div 2) + (b \div 2)) % 2)) + (((a \div 1) + (b \div 1)) % 2)
    BY <1>1 DEF XorNibble
  <1> QED BY <1>1, <1>2

\* a sum is odd if exactly one of its terms is
LEMMA OddSum ==
  ASSUME NEW x \in Nat, NEW y \in Nat
  PROVE  /\ (x + y) % 2 \in 0..1
         /\ (x + y) % 2 = ((x % 2) + (y % 2)) % 2
         /\ (x + y) % 2 = 0 => x % 2 = y % 2
  BY SMT

\* exclusive or of two nibbles: a nibble, zero only for equal ones, its own inverse, and
\* within a block of two bits
LEMMA XorNibbleFacts ==
  ASSUME NEW a \in Nat, NEW b \in Nat, a < 16, b < 16
  PROVE  /\ XorNibble[a][b] \in Nat /\ XorNibble[a][b] < 16
         /\ XorNibble[a][b] = 0 => a = b
         /\ XorNibble[a][0] = a
         /\ XorNibble[XorNibble[a][b]][b] = a
         /\ a < 4 /\ b < 4 => XorNibble[a][b] < 4
  <1> DEFINE a8 == a \div 8  a4 == a \div 4  a2 == a \div 2
             b8 == b \div 8  b4 == b \div 4  b2 == b \div 2
             x8 == (a8 + b8) % 2  x4 == (a4 + b4) % 2  x2 == (a2 + b2) % 2  x1 == (a + b) % 2
             x == XorNibble[a][b]
  <1>1. x = (8 * x8) + (4 * x4) + (2 * x2) + x1
    BY XorNibbleIs
  <1>2. /\ a = (8 * (a8 % 2)) + (4 * (a4 % 2)) + (2 * (a2 % 2)) + (a % 2)
        /\ a8 \in Nat /\ a4 \in Nat /\ a2 \in Nat
    BY NibbleBits
  <1>3. /\ b = (8 * (b8 % 2)) + (4 * (b4 % 2)) + (2 * (b2 % 2)) + (b % 2)
        /\ b8 \in Nat /\ b4 \in Nat /\ b2 \in Nat
    BY NibbleBits
  <1>4. x8 \in 0..1 /\ x4 \in 0..1 /\ x2 \in 0..1 /\ x1 \in 0..1
    BY <1>2, <1>3, OddSum
  <1>5. x \in Nat /\ x < 16
    <2> HIDE DEF x, x8, x4, x2, x1
    <2> QED BY <1>1, <1>4, SMT
  <1>6. x = 0 => a = b
    <2> SUFFICES ASSUME x = 0 PROVE a = b
      OBVIOUS
    <2>1. x8 = 0 /\ x4 = 0 /\ x2 = 0 /\ x1 = 0
      <3> HIDE DEF x, x8, x4, x2, x1
      <3> QED BY <1>1, <1>4, SMT
    <2>2. a8 % 2 = b8 % 2 /\ a4 % 2 = b4 % 2 /\ a2 % 2 = b2 % 2 /\ a % 2 = b % 2
      BY <1>2, <1>3, <2>1, OddSum
    <2> QED BY <1>2, <1>3, <2>2
  <1>7. XorNibble[a][0] = a
    <2>1. 0 \div 8 = 0 /\ 0 \div 4 = 0 /\ 0 \div 2 = 0 /\ a + 0 = a
      BY SMT
    <2>2. XorNibble[a][0] = (8 * ((a8 + 0) % 2)) + (4 * ((a4 + 0) % 2))
                            + (2 * ((a2 + 0) % 2)) + ((a + 0) % 2)
      <3>1. 0 \in Nat /\ 0 < 16
        OBVIOUS
      <3>2. XorNibble[a][0] = (8 * ((a8 + (0 \div 8)) % 2)) + (4 * ((a4 + (0 \div 4)) % 2))
                              + (2 * ((a2 + (0 \div 2)) % 2)) + ((a + 0) % 2)
        BY <3>1, XorNibbleIs, Zenon
      <3> QED BY <2>1, <3>2
    <2>3. a8 + 0 = a8 /\ a4 + 0 = a4 /\ a2 + 0 = a2
      BY <1>2
    <2> QED BY <1>2, <2>1, <2>2, <2>3
  <1>8. x8 = x \div 8 /\ x4 = (x \div 4) % 2 /\ x2 = (x \div 2) % 2 /\ x1 = x % 2
    <2> HIDE DEF x, x8, x4, x2, x1
    <2> QED BY <1>1, <1>4, SMT
  <1>9. XorNibble[x][b] = a
    <2>1. XorNibble[x][b] = (8 * (((x \div 8) + b8) % 2)) + (4 * (((x \div 4) + b4) % 2))
                            + (2 * (((x \div 2) + b2) % 2)) + ((x + b) % 2)
      <3> HIDE DEF x
      <3> QED BY <1>5, XorNibbleIs
    <2>2. \A p, q \in Nat : (((p + q) % 2) + q) % 2 = p % 2
      BY SMT
    <2>3. \A p, q \in Nat : (p + q) % 2 = ((p % 2) + q) % 2
      BY SMT
    <2>4. x \div 8 \in Nat /\ x \div 4 \in Nat /\ x \div 2 \in Nat
      <3> HIDE DEF x
      <3> QED BY <1>5, SMT
    <2>5. ((x \div 8) + b8) % 2 = a8 % 2
      BY <1>2, <1>3, <1>8, <2>2
    <2>6. ((x \div 4) + b4) % 2 = (x4 + b4) % 2
      <3> DEFINE p == x \div 4
      <3>1. p \in Nat /\ b4 \in Nat /\ p % 2 = x4
        BY <1>3, <1>8, <2>4
      <3> HIDE DEF p, x, b4, x4
      <3>2. (p + b4) % 2 = (x4 + b4) % 2
        BY <3>1, <2>3
      <3> QED BY <3>2 DEF p, b4
    <2>7. ((x \div 2) + b2) % 2 = (x2 + b2) % 2
      <3> DEFINE p == x \div 2
      <3>1. p \in Nat /\ b2 \in Nat /\ p % 2 = x2
        BY <1>3, <1>8, <2>4
      <3> HIDE DEF p, x, b2, x2
      <3>2. (p + b2) % 2 = (x2 + b2) % 2
        BY <3>1, <2>3
      <3> QED BY <3>2 DEF p, b2
    <2>8. (x + b) % 2 = (x1 + b) % 2
      <3> HIDE DEF x, x1
      <3> QED BY <1>3, <1>5, <1>8, <2>3
    <2>9. (x4 + b4) % 2 = a4 % 2 /\ (x2 + b2) % 2 = a2 % 2 /\ (x1 + b) % 2 = a % 2
      BY <1>2, <1>3, <2>2
    <2> QED BY <1>2, <2>1, <2>5, <2>6, <2>7, <2>8, <2>9
  <1>10. a < 4 /\ b < 4 => x < 4
    <2> SUFFICES ASSUME a < 4, b < 4 PROVE x < 4
      OBVIOUS
    <2>1. a8 = 0 /\ a4 = 0 /\ b8 = 0 /\ b4 = 0
      BY SMT
    <2>2. x8 = 0 /\ x4 = 0
      BY <2>1, SMT
    <2> HIDE DEF x, x8, x4, x2, x1
    <2> QED BY <1>1, <1>4, <2>2, SMT
  <1> QED BY <1>5, <1>6, <1>7, <1>9, <1>10

\* zero changes nothing
LEMMA XorNibbleZero ==
  ASSUME NEW b \in Nat, b < 16
  PROVE  XorNibble[0][b] = b /\ XorNibble[b][0] = b /\ XorNibble[0][0] = 0
  <1>1. 0 \in Nat /\ 0 < 16 /\ 0 \div 8 = 0 /\ 0 \div 4 = 0 /\ 0 \div 2 = 0 /\ 0 + b = b
    BY SMT
  <1> DEFINE b8 == b \div 8  b4 == b \div 4  b2 == b \div 2
  <1>2. XorNibble[0][b] = (8 * (((0 \div 8) + b8) % 2)) + (4 * (((0 \div 4) + b4) % 2))
                              + (2 * (((0 \div 2) + b2) % 2)) + ((0 + b) % 2)
    BY <1>1, XorNibbleIs, Zenon
  <1>3. /\ b = (8 * (b8 % 2)) + (4 * (b4 % 2)) + (2 * (b2 % 2)) + (b % 2)
        /\ b8 \in Nat /\ b4 \in Nat /\ b2 \in Nat
    BY NibbleBits
  <1>4. 0 + b8 = b8 /\ 0 + b4 = b4 /\ 0 + b2 = b2
    BY <1>3
  <1>5. XorNibble[0][b] = b
    BY <1>1, <1>2, <1>3, <1>4
  <1>6. \A n \in Nat : n < 16 => XorNibble[n][0] = n
    BY <1>1, XorNibbleFacts
  <1> QED BY <1>1, <1>5, <1>6

\* four nibbles as a word of 16 bits, the most significant first
Word(n3, n2, n1, n0) == (4096 * n3) + (256 * n2) + (16 * n1) + n0
IsNibble(n) == n \in Nat /\ n < 16

\* exclusive or goes nibble by nibble
LEMMA XorWords ==
  ASSUME NEW a3, NEW a2, NEW a1, NEW a0, NEW b3, NEW b2, NEW b1, NEW b0,
         IsNibble(a3), IsNibble(a2), IsNibble(a1), IsNibble(a0),
         IsNibble(b3), IsNibble(b2), IsNibble(b1), IsNibble(b0)
  PROVE  /\ Xor(Word(a3, a2, a1, a0), Word(b3, b2, b1, b0))
              = Word(XorNibble[a3][b3], XorNibble[a2][b2], XorNibble[a1][b1], XorNibble[a0][b0])
         /\ IsNibble(XorNibble[a3][b3]) /\ IsNibble(XorNibble[a2][b2])
         /\ IsNibble(XorNibble[a1][b1]) /\ IsNibble(XorNibble[a0][b0])
  <1> DEFINE a == Word(a3, a2, a1, a0)
             b == Word(b3, b2, b1, b0)
  <1>1. \A n3, n2, n1, n0 : IsNibble(n3) /\ IsNibble(n2) /\ IsNibble(n1) /\ IsNibble(n0) =>
           LET w == Word(n3, n2, n1, n0)
           IN  /\ (w \div 4096) % 16 = n3 /\ (w \div 256) % 16 = n2
               /\ (w \div 16) % 16 = n1 /\ (w \div 1) % 16 = n0
    <2> SUFFICES ASSUME NEW n3, NEW n2, NEW n1, NEW n0,
                        IsNibble(n3), IsNibble(n2), IsNibble(n1), IsNibble(n0)
                 PROVE  LET w == Word(n3, n2, n1, n0)
                        IN  /\ (w \div 4096) % 16 = n3 /\ (w \div 256) % 16 = n2
                            /\ (w \div 16) % 16 = n1 /\ (w \div 1) % 16 = n0
      OBVIOUS
    <2> QED BY SMT DEF IsNibble, Word
  <1>2. /\ (a \div 4096) % 16 = a3 /\ (a \div 256) % 16 = a2
        /\ (a \div 16) % 16 = a1 /\ (a \div 1) % 16 = a0
    BY <1>1
  <1>3. /\ (b \div 4096) % 16 = b3 /\ (b \div 256) % 16 = b2
        /\ (b \div 16) % 16 = b1 /\ (b \div 1) % 16 = b0
    BY <1>1
  <1>4. /\ IsNibble(XorNibble[a3][b3]) /\ IsNibble(XorNibble[a2][b2])
        /\ IsNibble(XorNibble[a1][b1]) /\ IsNibble(XorNibble[a0][b0])
    BY XorNibbleFacts DEF IsNibble
  <1> HIDE DEF a, b
  <1>5. Xor(a, b) = (4096 * XorNibble[a3][b3]) + (256 * XorNibble[a2][b2])
                    + (16 * XorNibble[a1][b1]) + (1 * XorNibble[a0][b0])
    BY <1>2, <1>3, SMT DEF Xor
  <1>6. 1 * XorNibble[a0][b0] = XorNibble[a0][b0]
    BY <1>4 DEF IsNibble
  <1>7. Xor(a, b) = Word(XorNibble[a3][b3], XorNibble[a2][b2], XorNibble[a1][b1], XorNibble[a0][b0])
    BY <1>5, <1>6, SMT DEF Word
  <1> QED BY <1>4, <1>7 DEF a, b

\* every word of 16 bits is made of four nibbles
LEMMA WordOf ==
  ASSUME NEW w \in Nat, w < 65536
  PROVE  \E n3, n2, n1, n0 : /\ IsNibble(n3) /\ IsNibble(n2) /\ IsNibble(n1) /\ IsNibble(n0)
                             /\ w = Word(n3, n2, n1, n0)
  <1> DEFINE p == w \div 16  q == p \div 16  r == q \div 16
  <1>1. w = (16 * p) + (w % 16) /\ p \in Nat /\ w % 16 \in Nat /\ w % 16 < 16
    BY SMT
  <1>2. p = (16 * q) + (p % 16) /\ q \in Nat /\ p % 16 \in Nat /\ p % 16 < 16
    BY <1>1, SMT
  <1>3. q = (16 * r) + (q % 16) /\ r \in Nat /\ q % 16 \in Nat /\ q % 16 < 16
    BY <1>2, SMT
  <1>4. r < 16
    BY <1>1, <1>2, <1>3, SMT
  <1>5. w = Word(r, q % 16, p % 16, w % 16)
    <2> HIDE DEF p, q, r
    <2> QED BY <1>1, <1>2, <1>3, SMT DEF Word
  <1>6. IsNibble(r) /\ IsNibble(q % 16) /\ IsNibble(p % 16) /\ IsNibble(w % 16)
    BY <1>1, <1>2, <1>3, <1>4, SMT DEF IsNibble
  <1> HIDE DEF p, q, r
  <1> QED BY <1>5, <1>6

\* words and bytes
IsWord(w) == w \in Nat /\ w < 65536
IsByte(b) == b \in Nat /\ b < 256

\* one byte through the CRC register: again a word, and zero only if the register held
\* no more than that byte
LEMMA CrcStepIs ==
  ASSUME NEW c3, NEW c2, NEW c1, NEW c0, NEW y1, NEW y0,
         IsNibble(c3), IsNibble(c2), IsNibble(c1), IsNibble(c0), IsNibble(y1), IsNibble(y0)
  PROVE  LET c    == Word(c3, c2, c1, c0)
             byte == Word(0, 0, y1, y0)
         IN  /\ IsWord(CrcStep(c, byte))
             /\ CrcStep(c, byte) = 0 => c = byte
  <1> DEFINE c    == Word(c3, c2, c1, c0)
             byte == Word(0, 0, y1, y0)
             p1   == XorNibble[y1][c1]
             p0   == XorNibble[y0][c0]
             q    == XorNibble[p1][p0]
             b    == Word(0, 0, q, p0)
             d2   == (b * 8) \div 256
             d1   == ((b * 8) \div 16) % 16
             d0   == (b * 8) % 16
             e2   == XorNibble[p0][d2]
             e1   == XorNibble[c3][d1]
             e0   == XorNibble[c2][d0]
             f0   == XorNibble[e0][q]
  <1>0. IsNibble(0)
    BY DEF IsNibble
  <1>1. IsNibble(p1) /\ IsNibble(p0) /\ IsNibble(q)
    <2>1. IsNibble(p1) /\ IsNibble(p0)
      BY XorNibbleFacts DEF IsNibble
    <2> HIDE DEF p1, p0
    <2> QED BY <2>1, XorNibbleFacts DEF IsNibble
  <1>2. \A n : IsNibble(n) => /\ XorNibble[0][n] = n /\ XorNibble[n][0] = n /\ XorNibble[0][0] = 0
    BY XorNibbleZero DEF IsNibble
  <1>3. c % 256 = Word(0, 0, c1, c0) /\ c \div 256 = Word(0, 0, c3, c2)
    BY SMT DEF Word, IsNibble
  <1>4. Xor(byte, c % 256) = Word(0, 0, p1, p0)
    <2> HIDE DEF p1, p0
    <2>1. Xor(byte, c % 256) = Word(XorNibble[0][0], XorNibble[0][0], XorNibble[y1][c1], XorNibble[y0][c0])
      BY <1>0, <1>3, XorWords
    <2> QED BY <1>0, <1>2, <2>1 DEF p1, p0
  <1>5. (Word(0, 0, p1, p0) * 16) % 256 = Word(0, 0, p0, 0)
    <2> HIDE DEF p1, p0
    <2> QED BY <1>1, SMT DEF Word, IsNibble
  <1>6. Xor(Word(0, 0, p1, p0), Word(0, 0, p0, 0)) = b
    <2> HIDE DEF p1, p0
    <2>1. Xor(Word(0, 0, p1, p0), Word(0, 0, p0, 0))
            = Word(XorNibble[0][0], XorNibble[0][0], XorNibble[p1][p0], XorNibble[p0][0])
      BY <1>0, <1>1, XorWords
    <2> QED BY <1>0, <1>1, <1>2, <2>1
  <1>7. /\ b * 256 = Word(q, p0, 0, 0) /\ b \div 16 = Word(0, 0, 0, q)
        /\ b * 8 = Word(0, d2, d1, d0)
        /\ IsNibble(d2) /\ IsNibble(d1) /\ IsNibble(d0)
    <2> HIDE DEF p1, p0, q
    <2>1. b * 256 = Word(q, p0, 0, 0) /\ b \div 16 = Word(0, 0, 0, q)
      BY <1>1, SMT DEF Word, IsNibble
    <2>2. b \in Nat /\ b < 256
      BY <1>1, SMT DEF Word, IsNibble
    <2> HIDE DEF b
    <2>3. b * 8 = Word(0, d2, d1, d0) /\ IsNibble(d2) /\ IsNibble(d1) /\ IsNibble(d0)
      BY <2>2, SMT DEF Word, IsNibble
    <2> QED BY <2>1, <2>3
  <1>8. Xor(c \div 256, b * 256) = Word(q, p0, c3, c2)
    <2> HIDE DEF p1, p0, q, b, c
    <2>1. Xor(c \div 256, b * 256)
            = Word(XorNibble[0][q], XorNibble[0][p0], XorNibble[c3][0], XorNibble[c2][0])
      BY <1>0, <1>1, <1>3, <1>7, XorWords
    <2> QED BY <1>1, <1>2, <2>1
  <1>9. /\ Xor(Word(q, p0, c3, c2), b * 8) = Word(q, e2, e1, e0)
        /\ IsNibble(e2) /\ IsNibble(e1) /\ IsNibble(e0)
    <2> HIDE DEF p1, p0, q, b, d2, d1, d0
    <2>1. /\ Xor(Word(q, p0, c3, c2), b * 8)
               = Word(XorNibble[q][0], XorNibble[p0][d2], XorNibble[c3][d1], XorNibble[c2][d0])
          /\ IsNibble(XorNibble[p0][d2]) /\ IsNibble(XorNibble[c3][d1]) /\ IsNibble(XorNibble[c2][d0])
      <3>1. b * 8 = Word(0, d2, d1, d0)
        BY <1>7
      <3>2. IsNibble(d2) /\ IsNibble(d1) /\ IsNibble(d0)
        BY <1>7
      <3> HIDE DEF b
      <3>3. /\ Xor(Word(q, p0, c3, c2), Word(0, d2, d1, d0))
                 = Word(XorNibble[q][0], XorNibble[p0][d2], XorNibble[c3][d1], XorNibble[c2][d0])
            /\ IsNibble(XorNibble[p0][d2]) /\ IsNibble(XorNibble[c3][d1]) /\ IsNibble(XorNibble[c2][d0])
        <4>1. IsNibble(q) /\ IsNibble(p0)
          BY <1>1
        <4>2. Xor(Word(q, p0, c3, c2), Word(0, d2, d1, d0))
                 = Word(XorNibble[q][0], XorNibble[p0][d2], XorNibble[c3][d1], XorNibble[c2][d0])
          BY <1>0, <4>1, <3>2, XorWords
        <4>3. IsNibble(XorNibble[p0][d2]) /\ IsNibble(XorNibble[c3][d1]) /\ IsNibble(XorNibble[c2][d0])
          BY <4>1, <3>2, XorNibbleFacts DEF IsNibble
        <4> QED BY <4>2, <4>3
      <3> QED BY <3>1, <3>3
    <2> QED BY <1>1, <1>2, <2>1
  <1>10. Xor(Word(q, e2, e1, e0), b \div 16) = Word(q, e2, e1, f0) /\ IsNibble(f0)
    <2> HIDE DEF p1, p0, q, b, e2, e1, e0
    <2>1. /\ Xor(Word(q, e2, e1, e0), b \div 16)
               = Word(XorNibble[q][0], XorNibble[e2][0], XorNibble[e1][0], XorNibble[e0][q])
          /\ IsNibble(XorNibble[e0][q])
      BY <1>0, <1>1, <1>7, <1>9, XorWords
    <2> QED BY <1>1, <1>2, <1>9, <2>1
  <1>11. CrcStep(c, byte) = Word(q, e2, e1, f0)
    <2> HIDE DEF p1, p0, q, b, c, byte, d2, d1, d0, e2, e1, e0, f0
    <2>1. CrcStep(c, byte) = Xor(Xor(Xor(c \div 256, b * 256), b * 8), b \div 16)
      BY <1>4, <1>5, <1>6 DEF CrcStep
    <2> QED BY <1>8, <1>9, <1>10, <2>1
  <1>12. IsWord(CrcStep(c, byte))
    <2> HIDE DEF p1, p0, q, b, c, byte, d2, d1, d0, e2, e1, e0, f0
    <2> QED BY <1>1, <1>9, <1>10, <1>11, SMT DEF IsWord, Word, IsNibble
  <1>13. ASSUME CrcStep(c, byte) = 0 PROVE c = byte
    <2>1. q = 0 /\ e2 = 0 /\ e1 = 0 /\ f0 = 0
      <3> HIDE DEF p1, p0, q, b, c, byte, d2, d1, d0, e2, e1, e0, f0
      <3> QED BY <1>1, <1>9, <1>10, <1>11, <1>13, SMT DEF Word, IsNibble
    <2>2. p0 = d2
      <3> HIDE DEF p1, p0, q, b, d2
      <3> QED BY <1>1, <1>7, <2>1, XorNibbleFacts DEF IsNibble
    <2>3. b = p0
      <3> HIDE DEF p1, p0, q
      <3> QED BY <1>1, <2>1, SMT DEF Word, IsNibble
    <2>4. p0 = 0
      <3> HIDE DEF p1, p0, q, b
      <3> QED BY <1>1, <2>2, <2>3, SMT DEF IsNibble
    <2>5. b * 8 = 0 /\ d1 = 0 /\ d0 = 0
      <3> HIDE DEF p1, p0, q, b
      <3> QED BY <2>3, <2>4, SMT
    <2>6. c3 = 0
      <3> HIDE DEF d1
      <3> QED BY <1>2, <2>1, <2>5
    <2>7. c2 = 0
      <3>1. e0 = c2
        <4> HIDE DEF d0
        <4> QED BY <1>2, <2>5
      <3>2. f0 = e0
        <4> HIDE DEF e0, q
        <4> QED BY <1>2, <1>9, <2>1
      <3> HIDE DEF e0, f0
      <3> QED BY <2>1, <3>1, <3>2
    <2>8. y0 = c0
      <3> HIDE DEF p0
      <3>1. p0 = XorNibble[y0][c0]
        BY DEF p0
      <3> QED BY <2>4, <3>1, XorNibbleFacts DEF IsNibble
    <2>9. p1 = 0
      <3> HIDE DEF p1, p0
      <3> QED BY <1>1, <1>2, <2>1, <2>4
    <2>10. y1 = c1
      <3> HIDE DEF p1
      <3>1. p1 = XorNibble[y1][c1]
        BY DEF p1
      <3> QED BY <2>9, <3>1, XorNibbleFacts DEF IsNibble
    <2> QED BY <2>6, <2>7, <2>8, <2>10
  <1> HIDE DEF c, byte
  <1> QED BY <1>12, <1>13 DEF c, byte

\* the same as sets
Octets == {b \in Nat : b < 256}
Words16 == {w \in Nat : w < 65536}

\* the same, of words and bytes as numbers
LEMMA CrcStepStays ==
  ASSUME NEW c \in Words16, NEW byte \in Octets
  PROVE  /\ CrcStep(c, byte) \in Words16
         /\ CrcStep(c, byte) = 0 => c = byte
  <1>0. c \in Nat /\ c < 65536 /\ byte \in Nat /\ byte < 65536 /\ byte < 256
    BY SMT DEF Words16, Octets
  <1>1. PICK c3, c2, c1, c0 : /\ IsNibble(c3) /\ IsNibble(c2) /\ IsNibble(c1) /\ IsNibble(c0)
                              /\ c = Word(c3, c2, c1, c0)
    BY <1>0, WordOf
  <1>2. PICK y3, y2, y1, y0 : /\ IsNibble(y3) /\ IsNibble(y2) /\ IsNibble(y1) /\ IsNibble(y0)
                              /\ byte = Word(y3, y2, y1, y0)
    BY <1>0, WordOf
  <1>3. y3 = 0 /\ y2 = 0
    BY <1>0, <1>2, SMT DEF IsNibble, Word
  <1>4. byte = Word(0, 0, y1, y0)
    BY <1>2, <1>3
  <1>5. /\ IsWord(CrcStep(c, byte))
        /\ CrcStep(c, byte) = 0 => c = byte
    BY <1>1, <1>2, <1>4, CrcStepIs
  <1> QED BY <1>5 DEF IsWord, Words16

\* the register of nxpsc_crc16() after each byte, for data of any length
LEMMA CrcRegisterRuns ==
  ASSUME NEW data \in Seq(Octets)
  PROVE  /\ CrcRegister(data) \in [0..Len(data) -> Words16]
         /\ CrcRegister(data)[0] = 25443
         /\ \A n \in 1..Len(data) : CrcRegister(data)[n] = CrcStep(CrcRegister(data)[n - 1], data[n])
  <1> DEFINE len == Len(data)
             next == [n \in 1..len |-> [c \in Words16 |-> CrcStep(c, data[n])]]
             Is(c) == c = [n \in 0..len |-> IF n = 0 THEN 25443 ELSE CrcStep(c[n - 1], data[n])]
  <1>1. len \in Nat /\ 25443 \in Words16
    BY SMT DEF Words16
  <1>2. next \in [1..len -> [Words16 -> Words16]]
    BY CrcStepStays
  <1> DEFINE start == 25443
  <1>13. start = 25443 /\ start \in Words16
    BY <1>1
  <1> HIDE DEF start
  <1>3. PICK f \in [0..len -> Words16] : IsRun(f, start, len, next)
    <2> HIDE DEF next, len
    <2>1. start \in Words16 /\ len \in Nat
      BY <1>1, <1>13
    <2> QED BY <2>1, <1>2, Run
  <1>4. \A n \in 1..len : f[n] = CrcStep(f[n - 1], data[n])
    <2>1. \A n \in 1..len : n - 1 \in 0..len
      BY <1>1
    <2> QED BY <1>3, <2>1 DEF IsRun
  <1>5. Is(f)
    <2>1. f = [n \in 0..len |-> f[n]]
      BY <1>3
    <2>2. \A n \in 0..len : f[n] = IF n = 0 THEN 25443 ELSE CrcStep(f[n - 1], data[n])
      <3> SUFFICES ASSUME NEW n \in 0..len
                   PROVE  f[n] = IF n = 0 THEN 25443 ELSE CrcStep(f[n - 1], data[n])
        OBVIOUS
      <3>1. CASE n = 0
        BY <3>1, <1>3, <1>13 DEF IsRun
      <3>2. CASE n # 0
        <4>1. n \in 1..len
          BY <3>2, <1>1
        <4> HIDE DEF len
        <4> QED BY <4>1, <3>2, <1>4
      <3> QED BY <3>1, <3>2
    <2> HIDE DEF len
    <2> QED BY <2>1, <2>2
  <1>6. CrcRegister(data) = CHOOSE c : Is(c)
    BY DEF CrcRegister
  <1> DEFINE r == CrcRegister(data)
  <1>7. Is(r)
    <2> HIDE DEF Is, r
    <2>1. r = CHOOSE c : Is(c)
      BY <1>6 DEF r
    <2> QED BY <1>5, <2>1
  <1> HIDE DEF r
  <1>8. r[0] = 25443
    BY <1>1, <1>7
  <1>9. \A n \in 1..len : r[n] = CrcStep(r[n - 1], data[n])
    BY <1>1, <1>7
  <1>10. \A n \in 0..len : r[n] \in Words16
    <2> DEFINE T == {n \in Nat : n <= len => r[n] \in Words16}
    <2>1. 0 \in T
      BY <1>1, <1>8
    <2>2. \A n \in 0..(len - 1) : n \in T => n + 1 \in T
      <3> SUFFICES ASSUME NEW n \in 0..(len - 1), n \in T PROVE n + 1 \in T
        OBVIOUS
      <3>1. n \in Nat /\ n + 1 \in 1..len /\ (n + 1) - 1 = n /\ r[n] \in Words16
        BY <1>1
      <3>2. r[n + 1] = CrcStep(r[n], data[n + 1])
        BY <1>9, <3>1
      <3>3. data[n + 1] \in Octets
        BY <3>1
      <3>4. r[n + 1] \in Words16
        BY <3>1, <3>2, <3>3, CrcStepStays
      <3> QED BY <3>1, <3>4
    <2> HIDE DEF T, len
    <2>3. \A n \in 0..len : n \in T
      <3>1. len \in Nat
        BY <1>1
      <3> QED BY <3>1, <2>1, <2>2, UpTo
    <2> QED BY <1>1, <2>3 DEF T
  <1>11. r = [n \in 0..len |-> r[n]]
    BY <1>7
  <1>12. r \in [0..len -> Words16]
    <2> HIDE DEF len
    <2> QED BY <1>10, <1>11
  <1> QED BY <1>8, <1>9, <1>12 DEF r

\* Min of a set of natural numbers
LEMMA MinIs ==
  ASSUME NEW T \in SUBSET Nat, T # {}
  PROVE  Min(T) \in T /\ \A t \in T : Min(T) <= t
  <1>1. \E n \in T : \A m \in T : n <= m
    BY Least
  <1>2. \E n \in T : \A m \in T : n =< m
    BY <1>1
  <1> QED BY <1>2 DEF Min

\* Max of a bounded set of natural numbers
LEMMA MaxIs ==
  ASSUME NEW top \in Nat, NEW T \in SUBSET (0..top), T # {}
  PROVE  Max(T) \in T /\ \A t \in T : Max(T) >= t
  <1> DEFINE U == {n \in Nat : top - n \in T}
  <1>1. U \in SUBSET Nat
    OBVIOUS
  <1>2. U # {}
    <2>1. PICK t \in T : TRUE
      OBVIOUS
    <2>2. top - t \in Nat /\ top - (top - t) = t
      BY <2>1
    <2>3. top - t \in U
      BY <2>1, <2>2
    <2> QED BY <2>3
  <1>3. PICK n \in U : \A m \in U : n <= m
    <2> HIDE DEF U
    <2> QED BY <1>1, <1>2, Least
  <1>4. top - n \in T
    BY <1>3
  <1>5. ASSUME NEW t \in T PROVE top - n >= t
    <2>1. t \in 0..top /\ top - t \in Nat /\ top - (top - t) = t
      OBVIOUS
    <2>2. top - t \in U
      BY <2>1
    <2>3. n <= top - t
      BY <1>3, <2>2
    <2> QED BY <1>3, <2>1, <2>3
  <1> QED BY <1>4, <1>5 DEF Max

\* the CRC of the first n bytes is the register after n bytes
LEMMA CrcOfPrefix ==
  ASSUME NEW data \in Seq(Octets), NEW n \in 0..Len(data)
  PROVE  nxpsc_crc16(SubSeq(data, 1, n))
           = <<CrcRegister(data)[n] % 256, CrcRegister(data)[n] \div 256>>
  <1> DEFINE r == CrcRegister(data)
             part == SubSeq(data, 1, n)
             s == CrcRegister(part)
             T == {i \in Nat : i <= n => s[i] = r[i]}
  <1>1. /\ part \in Seq(Octets) /\ Len(part) = n /\ n \in Nat
        /\ Len(data) \in Nat /\ n <= Len(data)
        /\ \A i \in 1..n : part[i] = data[i]
    OBVIOUS
  <1>2. r[0] = 25443 /\ \A i \in 1..Len(data) : r[i] = CrcStep(r[i - 1], data[i])
    BY CrcRegisterRuns
  <1>3. s[0] = 25443 /\ \A i \in 1..Len(part) : s[i] = CrcStep(s[i - 1], part[i])
    <2> HIDE DEF part
    <2> QED BY <1>1, CrcRegisterRuns
  <1> HIDE DEF r, s, part
  <1>4. 0 \in T
    BY <1>2, <1>3
  <1>5. \A i \in 0..(n - 1) : i \in T => i + 1 \in T
    <2> SUFFICES ASSUME NEW i \in 0..(n - 1), i \in T PROVE i + 1 \in T
      OBVIOUS
    <2>1. /\ i \in Nat /\ i + 1 \in 1..n /\ i + 1 \in 1..Len(data) /\ (i + 1) - 1 = i
          /\ s[i] = r[i]
      BY <1>1
    <2>2. r[i + 1] = CrcStep(r[i], data[i + 1]) /\ s[i + 1] = CrcStep(s[i], part[i + 1])
      BY <1>1, <1>2, <1>3, <2>1
    <2>3. s[i + 1] = r[i + 1]
      BY <1>1, <2>1, <2>2
    <2> QED BY <2>1, <2>3
  <1>6. s[n] = r[n]
    <2> HIDE DEF T
    <2>1. \A i \in 0..n : i \in T
      BY <1>1, <1>4, <1>5, UpTo
    <2> QED BY <1>1, <2>1 DEF T
  <1>7. nxpsc_crc16(part) = <<s[n] % 256, s[n] \div 256>>
    BY <1>1 DEF nxpsc_crc16, s
  <1> QED BY <1>6, <1>7 DEF r, part

\* that the first n bytes are followed by their CRC, said by the register
LEMMA CrcAtIs ==
  ASSUME NEW data \in Seq(Octets), NEW n \in Nat
  PROVE  CrcAt(data, n) <=> /\ n + 2 <= Len(data)
                            /\ data[n + 1] = CrcRegister(data)[n] % 256
                            /\ data[n + 2] = CrcRegister(data)[n] \div 256
  <1> SUFFICES ASSUME n + 2 <= Len(data)
               PROVE  CrcAt(data, n) <=> /\ data[n + 1] = CrcRegister(data)[n] % 256
                                         /\ data[n + 2] = CrcRegister(data)[n] \div 256
    BY DEF CrcAt
  <1>1. n \in 0..Len(data)
    OBVIOUS
  <1>2. SubSeq(data, n + 1, n + 2) = <<data[n + 1], data[n + 2]>>
    <2> DEFINE two == SubSeq(data, n + 1, n + 2)
    <2>1. /\ two \in Seq(Octets) /\ Len(two) = (n + 2) - (n + 1) + 1
          /\ \A i \in 1..Len(two) : two[i] = data[(n + 1) + i - 1]
      OBVIOUS
    <2> HIDE DEF two
    <2>2. Len(two) = 2 /\ (n + 1) + 1 - 1 = n + 1 /\ (n + 1) + 2 - 1 = n + 2
      BY <2>1
    <2>3. two[1] = data[n + 1] /\ two[2] = data[n + 2]
      <3>1. 1 \in 1..Len(two) /\ 2 \in 1..Len(two)
        BY <2>2
      <3> QED BY <2>1, <2>2, <3>1
    <2>4. two = <<two[1], two[2]>>
      <3>1. two \in Seq(Octets) /\ Len(two) = 2
        BY <2>1, <2>2
      <3> QED BY <3>1
    <2> QED BY <2>3, <2>4 DEF two
  <1>3. nxpsc_crc16(SubSeq(data, 1, n)) = <<CrcRegister(data)[n] % 256, CrcRegister(data)[n] \div 256>>
    BY <1>1, CrcOfPrefix
  <1> QED BY <1>2, <1>3 DEF CrcAt

-----------------------------------------------------------------------------
(***************************************************************************)
(* CBC chaining.                                                           *)
(***************************************************************************)
\* exclusive or of two blocks is a block, and its own inverse
LEMMA XorBlocks ==
  ASSUME NEW a \in Blocks, NEW b \in Blocks
  PROVE  Xor(a, b) \in Blocks /\ Xor(Xor(a, b), b) = a
  <1>1. IsNibble(a) /\ IsNibble(b) /\ IsNibble(0) /\ a < 4 /\ b < 4
    BY SMT DEF Blocks, IsNibble
  <1> DEFINE x == XorNibble[a][b]
  <1>2. IsNibble(x) /\ x < 4 /\ XorNibble[x][b] = a /\ XorNibble[0][0] = 0
    BY <1>1, XorNibbleFacts, XorNibbleZero DEF IsNibble
  <1>3. \A n : IsNibble(n) => n = Word(0, 0, 0, n)
    BY SMT DEF IsNibble, Word
  <1>4. Xor(a, b) = x
    <2>1. Xor(Word(0, 0, 0, a), Word(0, 0, 0, b))
            = Word(XorNibble[0][0], XorNibble[0][0], XorNibble[0][0], XorNibble[a][b])
      <3>1. IsNibble(a) /\ IsNibble(b) /\ IsNibble(0)
        BY <1>1
      <3> HIDE DEF x
      <3> QED BY ONLY <3>1, XorWords
    <2> HIDE DEF x
    <2>2. Word(0, 0, 0, a) = a /\ Word(0, 0, 0, b) = b /\ Word(0, 0, 0, x) = x
      BY <1>1, <1>2, <1>3
    <2> QED BY <1>2, <2>1, <2>2 DEF x
  <1> HIDE DEF x
  <1>5. Xor(x, b) = a
    <2>1. Xor(Word(0, 0, 0, x), Word(0, 0, 0, b))
            = Word(XorNibble[0][0], XorNibble[0][0], XorNibble[0][0], XorNibble[x][b])
      <3>1. IsNibble(x) /\ IsNibble(b) /\ IsNibble(0)
        BY <1>1, <1>2
      <3> QED BY <3>1, XorWords
    <2>2. Word(0, 0, 0, a) = a /\ Word(0, 0, 0, b) = b /\ Word(0, 0, 0, x) = x
      BY <1>1, <1>2, <1>3
    <2> QED BY <1>2, <2>1, <2>2
  <1>6. x \in Blocks
    BY <1>2, SMT DEF Blocks, IsNibble
  <1> QED BY <1>4, <1>5, <1>6

\* the cipher, value by value
LEMMA EncryptIs ==
  /\ Encrypt \in [Blocks -> Blocks]
  /\ Encrypt[0] = 2 /\ Encrypt[1] = 0 /\ Encrypt[2] = 3 /\ Encrypt[3] = 1
  BY DEF Encrypt, Blocks

\* the cipher is a permutation and Decrypt its inverse
LEMMA CipherInverts ==
  ASSUME NEW b \in Blocks
  PROVE  /\ Encrypt[b] \in Blocks /\ Decrypt[b] \in Blocks
         /\ Decrypt[Encrypt[b]] = b /\ Encrypt[Decrypt[b]] = b
  <1>1. \A c \in Blocks : \E d \in Blocks : Encrypt[d] = c
    BY EncryptIs DEF Blocks
  <1>2. \A c, d \in Blocks : Encrypt[c] = Encrypt[d] => c = d
    BY EncryptIs DEF Blocks
  <1>3. \A c \in Blocks : c \in Range(Encrypt)
    BY <1>1, EncryptIs DEF Range
  <1>4. \A c \in Blocks : Decrypt[c] = CHOOSE d \in Blocks : c \in Range(Encrypt) => Encrypt[d] = c
    BY DEF Decrypt, Inverse
  <1>5. \A c \in Blocks : Decrypt[c] \in Blocks /\ Encrypt[Decrypt[c]] = c
    <2> SUFFICES ASSUME NEW c \in Blocks
                 PROVE  Decrypt[c] \in Blocks /\ Encrypt[Decrypt[c]] = c
      OBVIOUS
    <2> DEFINE Fits(d) == c \in Range(Encrypt) => Encrypt[d] = c
    <2>1. \E d \in Blocks : Fits(d)
      BY <1>1
    <2>2. Decrypt[c] = CHOOSE d \in Blocks : Fits(d)
      BY <1>4
    <2> HIDE DEF Fits
    <2>3. Decrypt[c] \in Blocks /\ Fits(Decrypt[c])
      BY <2>1, <2>2
    <2> QED BY <1>3, <2>3 DEF Fits
  <1> QED BY <1>2, <1>5, EncryptIs

\* what is made of one block on the way out, and on the way in with the other direction
Sent(c, a, encode) == CbcOut(c, a, TRUE, encode)
Received(c, b, encode) == CbcOut(c, b, FALSE, ~encode)

\* a block that is sent comes back from the inverse cipher under the same IV
LEMMA CipherBack ==
  ASSUME NEW a \in Blocks, NEW c \in Blocks, NEW encode
  PROVE  /\ Sent(c, a, encode) \in Blocks
         /\ CbcIv(c, a, TRUE, encode) = Sent(c, a, encode)
         /\ Received(c, Sent(c, a, encode), encode) = a
  <1> DEFINE x == Xor(a, c)
  <1>1. x \in Blocks /\ Xor(x, c) = a
    BY XorBlocks
  <1> HIDE DEF x
  <1>2. /\ Encrypt[x] \in Blocks /\ Decrypt[x] \in Blocks
        /\ Decrypt[Encrypt[x]] = x /\ Encrypt[Decrypt[x]] = x
    BY <1>1, CipherInverts
  <1>3. CASE encode
    <2>1. Sent(c, a, encode) = Encrypt[x]
      BY <1>3 DEF CbcOut, Sent, x
    <2>2. Received(c, Encrypt[x], encode) = Xor(Decrypt[Encrypt[x]], c)
      BY <1>3 DEF CbcOut, Received
    <2> QED BY <1>1, <1>2, <2>1, <2>2 DEF CbcIv, Sent
  <1>4. CASE ~encode
    <2>1. Sent(c, a, encode) = Decrypt[x]
      BY <1>4 DEF CbcOut, Sent, x
    <2>2. Received(c, Decrypt[x], encode) = Xor(Encrypt[Decrypt[x]], c)
      BY <1>4 DEF CbcOut, Received
    <2> QED BY <1>1, <1>2, <2>1, <2>2 DEF CbcIv, Sent
  <1> QED BY <1>3, <1>4

\* the IV of nxpsc_cbc_crypt_ex() after each block, for a message of any length
LEMMA CbcChainRuns ==
  ASSUME NEW iv \in Blocks, NEW in \in Seq(Blocks), NEW dir_to_send, NEW encode
  PROVE  LET c == CbcChain(iv, in, dir_to_send, encode)
         IN  /\ c \in [0..Len(in) -> Blocks]
             /\ c[0] = iv
             /\ \A n \in 1..Len(in) : c[n] = CbcIv(c[n - 1], in[n], dir_to_send, encode)
  <1> DEFINE len == Len(in)
             Step(c, n) == CbcIv(c, in[n], dir_to_send, encode)
             next == [n \in 1..len |-> [c \in Blocks |-> Step(c, n)]]
             Is(c) == c = [n \in 0..len |-> IF n = 0 THEN iv ELSE Step(c[n - 1], n)]
             r == CbcChain(iv, in, dir_to_send, encode)
  <1>1. len \in Nat
    OBVIOUS
  <1>2. \A c \in Blocks, n \in 1..len : Step(c, n) \in Blocks
    <2> SUFFICES ASSUME NEW c \in Blocks, NEW n \in 1..len PROVE Step(c, n) \in Blocks
      OBVIOUS
    <2>1. in[n] \in Blocks
      OBVIOUS
    <2>2. CASE dir_to_send
      <3>1. CbcIv(c, in[n], dir_to_send, encode) = Sent(c, in[n], encode)
        BY <2>2 DEF CbcIv, CbcOut, Sent
      <3>2. Sent(c, in[n], encode) \in Blocks
        BY <2>1, CipherBack
      <3> QED BY <3>1, <3>2 DEF Step
    <2>3. CASE ~dir_to_send
      BY <2>1, <2>3 DEF CbcIv, Step
    <2> QED BY <2>2, <2>3
  <1> HIDE DEF Step
  <1>3. next \in [1..len -> [Blocks -> Blocks]]
    BY <1>2
  <1>4. PICK f \in [0..len -> Blocks] : IsRun(f, iv, len, next)
    <2> HIDE DEF next, len, Step
    <2> QED BY <1>1, <1>3, Run
  <1>5. \A n \in 1..len : n - 1 \in 0..len /\ f[n] = Step(f[n - 1], n)
    <2>1. \A n \in 1..len : n - 1 \in 0..len
      BY <1>1
    <2> HIDE DEF len
    <2> QED BY <1>4, <2>1 DEF IsRun
  <1>6. Is(f)
    <2>1. \A n \in 0..len : f[n] = IF n = 0 THEN iv ELSE Step(f[n - 1], n)
      <3>1. \A n \in 0..len : n # 0 => n \in 1..len
        BY <1>1
      <3> HIDE DEF len
      <3> QED BY <3>1, <1>4, <1>5 DEF IsRun
    <2> HIDE DEF len
    <2> QED BY <1>4, <2>1
  <1>7. Is(r)
    <2>1. r = CHOOSE c : Is(c)
      BY DEF CbcChain, Step
    <2> HIDE DEF Is, r
    <2> QED BY <1>6, <2>1
  <1> HIDE DEF r
  <1>8. r[0] = iv /\ \A n \in 1..len : r[n] = Step(r[n - 1], n)
    <2>1. 0 \in 0..len /\ \A n \in 1..len : n # 0 /\ n \in 0..len
      BY <1>1
    <2> HIDE DEF len
    <2> QED BY <1>7, <2>1
  <1>9. \A n \in 0..len : r[n] \in Blocks
    <2> DEFINE T == {n \in Nat : n <= len => r[n] \in Blocks}
    <2>1. 0 \in T
      BY <1>8
    <2>2. \A n \in 0..(len - 1) : n \in T => n + 1 \in T
      <3> SUFFICES ASSUME NEW n \in 0..(len - 1), n \in T PROVE n + 1 \in T
        OBVIOUS
      <3>1. n \in Nat /\ n + 1 \in 1..len /\ (n + 1) - 1 = n /\ r[n] \in Blocks
        BY <1>1
      <3> HIDE DEF len
      <3>2. r[n + 1] = Step(r[n], n + 1)
        BY <1>8, <3>1
      <3>3. r[n + 1] \in Blocks
        BY <1>2, <3>1, <3>2
      <3> QED BY <3>1, <3>3
    <2> HIDE DEF T, len
    <2>3. \A n \in 0..len : n \in T
      BY <1>1, <2>1, <2>2, UpTo
    <2> QED BY <1>1, <2>3 DEF T
  <1>10. r \in [0..len -> Blocks]
    <2>1. r = [n \in 0..len |-> r[n]]
      <3> HIDE DEF len
      <3> QED BY <1>7
    <2> HIDE DEF len
    <2> QED BY <1>9, <2>1
  <1> QED BY <1>8, <1>10 DEF r, Step

\* the same of a whole message
Sends(iv, in, encode) == nxpsc_cbc_crypt_ex(iv, in, TRUE, encode)
Receives(iv, out, encode) == nxpsc_cbc_crypt_ex(iv, out, FALSE, ~encode)

\* A message of any length that is sent with either direction of the cipher and received
\* with the other is what it was, and both sides hold the same IV.
LEMMA CbcReceived ==
  ASSUME NEW iv \in Blocks, NEW in \in Seq(Blocks), NEW encode,
         NEW sent, sent = Sends(iv, in, encode), NEW got, got = Receives(iv, sent.out, encode)
  PROVE  /\ sent.iv \in Blocks /\ sent.out \in Seq(Blocks)
         /\ got.out = in /\ got.iv = sent.iv
  <1> DEFINE len == Len(in)
             c == CbcChain(iv, in, TRUE, encode)
             back == ~encode
             d == CbcChain(iv, sent.out, FALSE, back)
             Out(n) == Sent(c[n - 1], in[n], encode)
             Back(n) == Received(d[n - 1], sent.out[n], encode)
  <1>1. len \in Nat /\ \A n \in 1..len : n - 1 \in 0..len /\ in[n] \in Blocks /\ n \in 0..len
    OBVIOUS
  <1>2. /\ c \in [0..len -> Blocks] /\ c[0] = iv
        /\ \A n \in 1..len : c[n] = CbcIv(c[n - 1], in[n], TRUE, encode)
    BY CbcChainRuns
  <1>3. /\ sent.iv = c[len]
        /\ sent.out = [n \in 1..len |-> Out(n)]
    BY DEF nxpsc_cbc_crypt_ex, Sends, Sent
  <1> HIDE DEF c
  <1>4. \A n \in 1..len : /\ Out(n) = c[n] /\ c[n] \in Blocks
                          /\ Received(c[n - 1], c[n], encode) = in[n]
    <2> SUFFICES ASSUME NEW n \in 1..len
                 PROVE  /\ Out(n) = c[n] /\ c[n] \in Blocks
                        /\ Received(c[n - 1], c[n], encode) = in[n]
      OBVIOUS
    <2> DEFINE b == c[n - 1]  a == in[n]
    <2>1. b \in Blocks /\ a \in Blocks /\ c[n] \in Blocks /\ c[n] = CbcIv(b, a, TRUE, encode)
      <3> HIDE DEF len
      <3> QED BY <1>1, <1>2
    <2>2. Out(n) = Sent(b, a, encode)
      OBVIOUS
    <2> HIDE DEF a, b, Out
    <2>3. /\ CbcIv(b, a, TRUE, encode) = Sent(b, a, encode)
          /\ Received(b, Sent(b, a, encode), encode) = a
      <3>1. a \in Blocks /\ b \in Blocks
        BY <2>1
      <3> QED BY <3>1, CipherBack, Zenon
    <2>4. Received(b, c[n], encode) = a
      BY <2>1, <2>3, Zenon
    <2>5. Out(n) = c[n]
      BY <2>1, <2>2, <2>3, Zenon
    <2> QED BY <2>1, <2>4, <2>5 DEF a, b
  <1> HIDE DEF Out
  <1>5. sent.out \in [1..len -> Blocks] /\ \A n \in 1..len : sent.out[n] = c[n]
    <2> HIDE DEF len
    <2> QED BY <1>3, <1>4
  <1>6. sent.out \in Seq(Blocks) /\ Len(sent.out) = len
    <2>1. len \in Nat
      BY <1>1
    <2> DEFINE out == sent.out
    <2>2. out \in [1..len -> Blocks]
      BY <1>5
    <2> HIDE DEF len, out
    <2>3. out \in Seq(Blocks) /\ Len(out) = len
      BY ONLY <2>1, <2>2
    <2> QED BY <2>3 DEF out
  <1>7. sent.iv = c[len] /\ c[len] \in Blocks
    <2>1. len \in 0..len
      BY <1>1
    <2> HIDE DEF len
    <2> QED BY <1>2, <1>3, <2>1
  <1>8. /\ d[0] = iv
        /\ \A n \in 1..len : d[n] = CbcIv(d[n - 1], sent.out[n], FALSE, back)
    <2> DEFINE out == sent.out
    <2>1. out \in Seq(Blocks) /\ Len(out) = len /\ d = CbcChain(iv, out, FALSE, back)
      BY <1>6
    <2> HIDE DEF len, back, out, d
    <2>2. /\ d[0] = iv
          /\ \A n \in 1..Len(out) : d[n] = CbcIv(d[n - 1], out[n], FALSE, back)
      BY <2>1, CbcChainRuns
    <2> QED BY <2>1, <2>2 DEF out
  <1>9. /\ got.iv = d[len]
        /\ got.out = [n \in 1..len |-> Back(n)]
    <2> DEFINE out == sent.out
    <2>1. Len(out) = len
      BY <1>6
    <2>2. got = nxpsc_cbc_crypt_ex(iv, out, FALSE, back) /\ d = CbcChain(iv, out, FALSE, back)
      BY DEF Receives
    <2>3. \A n : Back(n) = CbcOut(d[n - 1], out[n], FALSE, back)
      BY DEF Received
    <2> HIDE DEF len, d, out, Back, back
    <2>4. got = [iv |-> d[len], out |-> [n \in 1..len |-> CbcOut(d[n - 1], out[n], FALSE, back)]]
      BY <2>1, <2>2, Zenon DEF nxpsc_cbc_crypt_ex
    <2> DEFINE o == [n \in 1..len |-> CbcOut(d[n - 1], out[n], FALSE, back)]
    <2>5. o = [n \in 1..len |-> Back(n)]
      BY <2>3
    <2>6. got = [iv |-> d[len], out |-> o]
      BY <2>4
    <2> HIDE DEF o
    <2>7. got.iv = d[len] /\ got.out = o
      BY ONLY <2>6
    <2> QED BY <2>5, <2>7
  <1> HIDE DEF d
  <1>10. \A n \in 0..len : d[n] = c[n]
    <2>1. \A n \in 0..len : n = 0 \/ n \in 1..len
      BY <1>1
    <2>2. \A n \in 1..len : d[n] = sent.out[n]
      <3> HIDE DEF len
      <3> QED BY <1>8 DEF CbcIv
    <2> HIDE DEF len
    <2> QED BY <1>2, <1>5, <1>8, <2>1, <2>2
  <1>11. \A n \in 1..len : Back(n) = in[n]
    <2> HIDE DEF len
    <2> SUFFICES ASSUME NEW n \in 1..len PROVE Back(n) = in[n]
      OBVIOUS
    <2>1. d[n - 1] = c[n - 1] /\ sent.out[n] = c[n]
      BY <1>1, <1>5, <1>10
    <2>2. Back(n) = Received(c[n - 1], c[n], encode)
      BY <2>1, Zenon
    <2> QED BY <1>4, <2>2
  <1> HIDE DEF Back
  <1>12. got.out = [n \in 1..len |-> in[n]]
    <2> HIDE DEF len
    <2> QED BY <1>9, <1>11
  <1>13. got.out = in
    <2>1. in = [n \in 1..len |-> in[n]]
      OBVIOUS
    <2> HIDE DEF len
    <2> QED BY <1>12, <2>1
  <1>14. got.iv = sent.iv
    <2>1. len \in 0..len
      BY <1>1
    <2> HIDE DEF len
    <2> QED BY <1>7, <1>9, <1>10, <2>1
  <1> QED BY <1>6, <1>7, <1>13, <1>14

-----------------------------------------------------------------------------
(***************************************************************************)
(* The LRP counter.                                                        *)
(***************************************************************************)
\* the two nibbles of a byte, and the byte two nibbles make
LEMMA Halves ==
  ASSUME NEW b \in Octets, NEW v, IsNibble(v)
  PROVE  /\ IsNibble(b % 16) /\ IsNibble(b \div 16)
         /\ (((b \div 16) * 16) + v) \in Octets /\ ((v * 16) + (b % 16)) \in Octets
         /\ (((b \div 16) * 16) + v) % 16 = v /\ (((b \div 16) * 16) + v) \div 16 = b \div 16
         /\ ((v * 16) + (b % 16)) % 16 = b % 16 /\ ((v * 16) + (b % 16)) \div 16 = v
  BY SMT DEF IsNibble, Octets

\* which byte holds nibble i, and which half of it
LEMMA Position ==
  ASSUME NEW i \in Nat, NEW n \in Nat, i < 2 * n
  PROVE  i \div 2 + 1 \in 1..n /\ i % 2 \in {0, 1} /\ i = (2 * (i \div 2)) + (i % 2)
  BY SMT

\* what is read at a position is a nibble
LEMMA NibbleIs ==
  ASSUME NEW bytes \in Seq(Octets), NEW i \in Nat, i < 2 * Len(bytes)
  PROVE  IsNibble(Nibble(bytes, i))
  <1> DEFINE n == Len(bytes)  k == i \div 2 + 1
  <1>1. n \in Nat /\ i < 2 * n
    OBVIOUS
  <1>2. k \in 1..n
    <2> HIDE DEF n
    <2> QED BY <1>1, Position
  <1> HIDE DEF k
  <1>3. bytes[k] \in Octets
    BY <1>2
  <1>4. IsNibble(0)
    BY DEF IsNibble
  <1>5. IsNibble(bytes[k] % 16) /\ IsNibble(bytes[k] \div 16)
    BY <1>3, <1>4, Halves
  <1> QED BY <1>5 DEF Nibble, k

\* writing one nibble changes no other one
LEMMA WithNibbleIs ==
  ASSUME NEW bytes \in Seq(Octets), NEW i \in Nat, i < 2 * Len(bytes), NEW v, IsNibble(v)
  PROVE  /\ WithNibble(bytes, i, v) \in Seq(Octets) /\ Len(WithNibble(bytes, i, v)) = Len(bytes)
         /\ Nibble(WithNibble(bytes, i, v), i) = v
         /\ \A j \in Nat : j < 2 * Len(bytes) /\ j # i =>
                Nibble(WithNibble(bytes, i, v), j) = Nibble(bytes, j)
  <1> DEFINE n == Len(bytes)  k == i \div 2 + 1  new == WithNibble(bytes, i, v)
             part == IF i % 2 = 1 THEN ((bytes[k] \div 16) * 16) + v
                                  ELSE (v * 16) + (bytes[k] % 16)
  <1>1. n \in Nat /\ i < 2 * n
    OBVIOUS
  <1>2. k \in 1..n /\ i % 2 \in {0, 1} /\ i = (2 * (i \div 2)) + (i % 2)
    <2> HIDE DEF n
    <2> QED BY <1>1, Position
  <1>3. new = [bytes EXCEPT ![k] = part]
    BY DEF WithNibble
  <1> HIDE DEF new
  <1>4. bytes[k] \in Octets
    BY <1>2
  <1>5. /\ ((bytes[k] \div 16) * 16) + v \in Octets /\ (v * 16) + (bytes[k] % 16) \in Octets
        /\ (((bytes[k] \div 16) * 16) + v) % 16 = v
        /\ (((bytes[k] \div 16) * 16) + v) \div 16 = bytes[k] \div 16
        /\ ((v * 16) + (bytes[k] % 16)) % 16 = bytes[k] % 16
        /\ ((v * 16) + (bytes[k] % 16)) \div 16 = v
    <2> HIDE DEF k
    <2> QED BY <1>4, Halves
  <1>6. /\ part \in Octets
        /\ i % 2 = 1 => part % 16 = v /\ part \div 16 = bytes[k] \div 16
        /\ i % 2 # 1 => part % 16 = bytes[k] % 16 /\ part \div 16 = v
    <2> HIDE DEF k
    <2> QED BY <1>5
  <1> HIDE DEF part
  <1>7. new \in Seq(Octets) /\ Len(new) = n
    <2>1. bytes \in [1..n -> Octets]
      OBVIOUS
    <2> HIDE DEF k, n
    <2>2. new \in [1..n -> Octets]
      BY <1>3, <1>6, <2>1
    <2> QED BY <1>1, <2>2
  <1>8. new[k] = part /\ \A m \in 1..n : m # k => new[m] = bytes[m]
    <2> HIDE DEF k
    <2> QED BY <1>2, <1>3
  <1>9. Nibble(new, i) = v
    <2>1. Nibble(new, i) = IF i % 2 = 1 THEN new[k] % 16 ELSE new[k] \div 16
      BY DEF Nibble
    <2> HIDE DEF k
    <2> QED BY <2>1, <1>6, <1>8
  <1>10. ASSUME NEW j \in Nat, j < 2 * n, j # i PROVE Nibble(new, j) = Nibble(bytes, j)
    <2> DEFINE m == j \div 2 + 1
    <2>1. m \in 1..n /\ j % 2 \in {0, 1} /\ j = (2 * (j \div 2)) + (j % 2)
      <3> HIDE DEF n
      <3> QED BY <1>1, <1>10, Position
    <2>2. m = k => j % 2 # i % 2
      BY <1>2, <1>10, <2>1
    <2>3. /\ Nibble(new, j) = IF j % 2 = 1 THEN new[m] % 16 ELSE new[m] \div 16
          /\ Nibble(bytes, j) = IF j % 2 = 1 THEN bytes[m] % 16 ELSE bytes[m] \div 16
      BY DEF Nibble
    <2> HIDE DEF k, m, n
    <2>4. CASE m # k
      BY <1>8, <2>1, <2>3, <2>4
    <2>5. CASE m = k
      BY <1>2, <1>6, <1>8, <2>1, <2>2, <2>3, <2>5
    <2> QED BY <2>4, <2>5
  <1> QED BY <1>7, <1>9, <1>10 DEF new

\* one step of the loop
CarryInto(s, i) ==
  LET nibble == Nibble(s.bytes, i) + 1
  IN  IF s.carry = 0 THEN s
      ELSE [bytes |-> WithNibble(s.bytes, i, nibble % 16), carry |-> nibble \div 16]

\* the last nibbles, from position at, were all 15 and are all 0, no other one changed
Carried(old, new, at, len) ==
  /\ new \in Seq(Octets) /\ Len(new) = Len(old)
  /\ \A j \in at..(len - 1) : Nibble(old, j) = 15 /\ Nibble(new, j) = 0
  /\ \A j \in 0..(2 * Len(old) - 1) : j < at \/ j >= len => Nibble(new, j) = Nibble(old, j)

\* the carry stopped at p
Stopped(old, new, p, len) ==
  /\ new \in Seq(Octets) /\ Len(new) = Len(old)
  /\ Nibble(old, p) < 15 /\ Nibble(new, p) = Nibble(old, p) + 1
  /\ \A j \in (p + 1)..(len - 1) : Nibble(old, j) = 15 /\ Nibble(new, j) = 0
  /\ \A j \in 0..(2 * Len(old) - 1) : j < p \/ j >= len => Nibble(new, j) = Nibble(old, j)

\* what the loop has done when it has come down to position at
Counting(old, s, at, len) ==
  \/ s.carry = 1 /\ Carried(old, s.bytes, at, len)
  \/ s.carry = 0 /\ \E p \in at..(len - 1) : Stopped(old, s.bytes, p, len)

\* one turn of the loop of nxpsc_lrp_inc_counter() keeps what it has done so far: it has
\* turned 15s into 0s, or stopped at the nibble it raised by one
LEMMA CarryIs ==
  ASSUME NEW old \in Seq(Octets), NEW len \in Nat, len <= 2 * Len(old),
         NEW at \in 1..len, NEW s, Counting(old, s, at, len)
  PROVE  Counting(old, CarryInto(s, at - 1), at - 1, len)
  <1> DEFINE i == at - 1  n == Len(old)  new == CarryInto(s, i)
  <1>1. i \in Nat /\ i < len /\ i < 2 * n /\ n \in Nat /\ i \in 0..(2 * n - 1)
    OBVIOUS
  <1>2. CASE s.carry = 0
    <2>1. PICK p \in at..(len - 1) : Stopped(old, s.bytes, p, len)
      BY <1>2 DEF Counting
    <2>2. new = s /\ p \in i..(len - 1)
      BY <1>2 DEF CarryInto
    <2> HIDE DEF new, i
    <2> QED BY <1>2, <2>1, <2>2 DEF Counting, new, i
  <1>3. CASE s.carry # 0
    <2> DEFINE b == s.bytes  v == Nibble(b, i) + 1
    <2>1. Carried(old, b, at, len)
      BY <1>3 DEF Counting
    <2>2. b \in Seq(Octets) /\ Len(b) = n
      BY <2>1 DEF Carried
    <2>3. Nibble(b, i) = Nibble(old, i)
      <3>1. i < at /\ i \in 0..(2 * Len(old) - 1)
        BY <1>1
      <3> HIDE DEF i, n, b
      <3> QED BY <2>1, <3>1 DEF Carried
    <2>4. IsNibble(Nibble(b, i))
      <3> HIDE DEF i, b
      <3> QED BY <1>1, <2>2, NibbleIs
    <2>5. new = [bytes |-> WithNibble(b, i, v % 16), carry |-> v \div 16]
      BY <1>3 DEF CarryInto
    <2>6. IsNibble(v % 16) /\ v \in Nat /\ v <= 16
      <3> HIDE DEF i, b
      <3> QED BY <2>4, SMT DEF IsNibble
    <2> DEFINE w == WithNibble(b, i, v % 16)
    <2>7. /\ w \in Seq(Octets) /\ Len(w) = n /\ Nibble(w, i) = v % 16
          /\ \A j \in Nat : j < 2 * n /\ j # i => Nibble(w, j) = Nibble(b, j)
      <3> DEFINE x == v % 16
      <3>1. i \in Nat /\ i < 2 * Len(b) /\ IsNibble(x)
        BY <1>1, <2>2, <2>6
      <3>2. w = WithNibble(b, i, x)
        OBVIOUS
      <3> HIDE DEF i, b, v, n, x, w
      <3>3. /\ w \in Seq(Octets) /\ Len(w) = Len(b) /\ Nibble(w, i) = x
            /\ \A j \in Nat : j < 2 * Len(b) /\ j # i => Nibble(w, j) = Nibble(b, j)
        BY <2>2, <3>1, <3>2, WithNibbleIs
      <3> QED BY <2>2, <3>3 DEF x
    <2>8. new.bytes = w /\ new.carry = v \div 16
      BY <2>5
    <2>9. /\ \A j \in at..(len - 1) : Nibble(old, j) = 15 /\ Nibble(b, j) = 0
          /\ \A j \in 0..(2 * n - 1) : j < at \/ j >= len => Nibble(b, j) = Nibble(old, j)
      BY <2>1 DEF Carried
    <2>10. v = Nibble(old, i) + 1
      BY <2>3
    <2> HIDE DEF w, new, b, v
    <2>11. /\ \A j \in at..(len - 1) : Nibble(old, j) = 15 /\ Nibble(w, j) = 0
           /\ \A j \in 0..(2 * n - 1) : j < i \/ j >= len => Nibble(w, j) = Nibble(old, j)
      <3>1. \A j \in at..(len - 1) : j \in Nat /\ j < 2 * n /\ j # i
        BY <1>1
      <3>2. \A j \in 0..(2 * n - 1) : j < i \/ j >= len =>
                j \in Nat /\ j < 2 * n /\ j # i /\ (j < at \/ j >= len)
        BY <1>1
      <3> HIDE DEF i, n
      <3> QED BY <2>7, <2>9, <3>1, <3>2
    <2>12. CASE v = 16
      <3>1. v % 16 = 0 /\ v \div 16 = 1 /\ Nibble(old, i) = 15
        <4>1. Nibble(old, i) \in Nat
          <5> HIDE DEF i
          <5> QED BY <2>3, <2>4 DEF IsNibble
        <4> HIDE DEF i
        <4> QED BY <2>10, <2>12, <4>1, SMT
      <3>2. \A j \in i..(len - 1) : j = i \/ j \in at..(len - 1)
        BY <1>1
      <3> HIDE DEF i, n
      <3>3. Carried(old, w, i, len)
        BY <2>7, <2>11, <3>1, <3>2 DEF Carried, n
      <3> QED BY <2>8, <3>1, <3>3 DEF Counting, new, i
    <2>13. CASE v # 16
      <3>1. v % 16 = v /\ v \div 16 = 0 /\ Nibble(old, i) < 15
        <4>1. Nibble(old, i) \in Nat
          <5> HIDE DEF i
          <5> QED BY <2>3, <2>4 DEF IsNibble
        <4> HIDE DEF i
        <4> QED BY <2>6, <2>10, <2>13, <4>1, SMT
      <3>2. i + 1 = at /\ i \in i..(len - 1)
        BY <1>1
      <3> HIDE DEF i, n
      <3>3. Stopped(old, w, i, len)
        BY <2>7, <2>10, <2>11, <3>1, <3>2 DEF Stopped, n
      <3> QED BY <2>8, <3>1, <3>2, <3>3 DEF Counting, new, i
    <2> QED BY <2>12, <2>13
  <1> QED BY <1>2, <1>3

\* the whole loop, for a counter of any length
LEMMA CounterStepsRun ==
  ASSUME NEW old \in Seq(Octets), NEW len \in Nat, len <= 2 * Len(old)
  PROVE  Counting(old, CounterSteps(old, len)[len], 0, len)
  <1> DEFINE first == [bytes |-> old, carry |-> 1]
             States(k) == {s \in [bytes : Seq(Octets), carry : {0, 1}] :
                             Counting(old, s, len - k, len)}
             S == UNION {States(k) : k \in 0..len}
             next == [k \in 1..len |->
                        [s \in S |-> IF s \in States(k - 1) THEN CarryInto(s, len - k) ELSE first]]
             Is(c) == c = [k \in 0..len |-> IF k = 0 THEN first ELSE CarryInto(c[k - 1], len - k)]
             r == CounterSteps(old, len)
  <1>1. Counting(old, first, len, len)
    <2>1. first.bytes = old /\ first.carry = 1 /\ \A j \in len..(len - 1) : FALSE
      OBVIOUS
    <2> HIDE DEF first
    <2> QED BY <2>1 DEF Counting, Carried
  <1>2. first \in States(0) /\ first \in S
    <2>1. first \in [bytes : Seq(Octets), carry : {0, 1}] /\ len - 0 = len /\ 0 \in 0..len
      OBVIOUS
    <2> HIDE DEF first
    <2> QED BY <1>1, <2>1
  <1>3. \A k \in 1..len : \A s \in States(k - 1) : CarryInto(s, len - k) \in States(k)
    <2> SUFFICES ASSUME NEW k \in 1..len, NEW s \in States(k - 1)
                 PROVE  CarryInto(s, len - k) \in States(k)
      BY Zenon
    <2> DEFINE at == len - (k - 1)  t == CarryInto(s, len - k)
    <2>1. at \in 1..len /\ at - 1 = len - k
      OBVIOUS
    <2>2. Counting(old, s, at, len) /\ s \in [bytes : Seq(Octets), carry : {0, 1}]
      OBVIOUS
    <2> HIDE DEF at
    <2>3. Counting(old, t, len - k, len)
      <3>1. Counting(old, CarryInto(s, at - 1), at - 1, len)
        BY <2>1, <2>2, CarryIs
      <3> QED BY <2>1, <3>1
    <2>4. t \in [bytes : Seq(Octets), carry : {0, 1}]
      <3>1. CASE s.carry = 0
        BY <2>2, <3>1 DEF CarryInto
      <3>2. CASE s.carry # 0
        <4> DEFINE v == Nibble(s.bytes, len - k) + 1
                   w == WithNibble(s.bytes, len - k, v % 16)
                   c == v \div 16
        <4>1. t = [bytes |-> w, carry |-> c]
          BY <3>2 DEF CarryInto
        <4> HIDE DEF w, c, t
        <4>2. t.bytes = w /\ t.carry = c
          BY <4>1
        <4>3. w \in Seq(Octets) /\ c \in {0, 1}
          BY <2>3, <4>2 DEF Counting, Carried, Stopped
        <4> QED BY <4>1, <4>3
      <3> QED BY <3>1, <3>2
    <2> HIDE DEF t
    <2> QED BY <2>3, <2>4 DEF t
  <1> HIDE DEF States, first
  <1>4. next \in [1..len -> [S -> S]]
    <2>1. \A k \in 1..len : k \in 0..len
      OBVIOUS
    <2>2. \A k \in 1..len : States(k) \in SUBSET S
      BY <2>1
    <2> HIDE DEF S
    <2> QED BY <1>2, <1>3, <2>2
  <1>5. PICK f \in [0..len -> S] : IsRun(f, first, len, next)
    <2> HIDE DEF S, next
    <2> QED BY <1>2, <1>4, Run
  <1>6. \A k \in 0..len : f[k] \in States(k)
    <2> DEFINE T == {k \in Nat : k <= len => f[k] \in States(k)}
    <2>1. 0 \in T
      BY <1>2, <1>5 DEF IsRun
    <2>2. \A k \in 0..(len - 1) : k \in T => k + 1 \in T
      <3> SUFFICES ASSUME NEW k \in 0..(len - 1), k \in T PROVE k + 1 \in T
        OBVIOUS
      <3>1. k + 1 \in 1..len /\ (k + 1) - 1 = k /\ f[k] \in States(k) /\ k \in 0..len /\ f[k] \in S
        OBVIOUS
      <3>2. f[k + 1] = next[k + 1][f[k]]
        <4> HIDE DEF next, S
        <4> QED BY <1>5, <3>1 DEF IsRun
      <3>3. f[k + 1] = CarryInto(f[k], len - (k + 1))
        <4> HIDE DEF S
        <4> QED BY <3>1, <3>2
      <3>4. f[k + 1] \in States(k + 1)
        BY <1>3, <3>1, <3>3
      <3> QED BY <3>1, <3>4
    <2> HIDE DEF T
    <2>3. \A k \in 0..len : k \in T
      BY <2>1, <2>2, UpTo
    <2> QED BY <2>3 DEF T
  <1>7. Is(f)
    <2>1. \A k \in 0..len : f[k] = IF k = 0 THEN first ELSE CarryInto(f[k - 1], len - k)
      <3> SUFFICES ASSUME NEW k \in 0..len, k # 0 PROVE f[k] = CarryInto(f[k - 1], len - k)
        BY <1>5 DEF IsRun
      <3>1. k \in 1..len /\ k - 1 \in 0..len
        OBVIOUS
      <3>2. f[k] = next[k][f[k - 1]] /\ f[k - 1] \in States(k - 1) /\ f[k - 1] \in S
        <4> HIDE DEF next, S
        <4> QED BY <1>5, <1>6, <3>1 DEF IsRun
      <3> HIDE DEF S
      <3> QED BY <3>1, <3>2
    <2> HIDE DEF S
    <2> QED BY <2>1
  <1>8. Is(r)
    <2>1. r = CHOOSE c : Is(c)
      BY DEF CounterSteps, CarryInto, first
    <2> HIDE DEF Is, r
    <2> QED BY <1>7, <2>1
  <1> HIDE DEF r
  <1>9. \A k \in 0..len : r[k] \in States(k)
    <2> DEFINE T == {k \in Nat : k <= len => r[k] \in States(k)}
    <2>1. 0 \in T
      BY <1>2, <1>8
    <2>2. \A k \in 0..(len - 1) : k \in T => k + 1 \in T
      <3> SUFFICES ASSUME NEW k \in 0..(len - 1), k \in T PROVE k + 1 \in T
        OBVIOUS
      <3>1. k + 1 \in 1..len /\ (k + 1) - 1 = k /\ r[k] \in States(k) /\ k + 1 \in 0..len
            /\ k + 1 \in Nat /\ k + 1 # 0
        <4>1. /\ k + 1 \in 1..len /\ (k + 1) - 1 = k /\ k + 1 \in 0..len /\ k + 1 \in Nat
              /\ k + 1 # 0 /\ k <= len
          <5> HIDE DEF T
          <5> QED OBVIOUS
        <4>2. k \in T
          OBVIOUS
        <4>3. r[k] \in States(k)
          BY ONLY <4>1, <4>2
        <4> QED BY ONLY <4>1, <4>3
      <3>2. r[k + 1] = CarryInto(r[k], len - (k + 1))
        BY <1>8, <3>1
      <3>3. r[k + 1] \in States(k + 1)
        BY <1>3, <3>1, <3>2
      <3> QED BY ONLY <3>1, <3>3
    <2> HIDE DEF T
    <2>3. \A k \in 0..len : k \in T
      BY <2>1, <2>2, UpTo
    <2> QED BY <2>3 DEF T
  <1>10. len \in 0..len /\ len - len = 0
    OBVIOUS
  <1>11. Counting(old, r[len], len - len, len)
    BY <1>9, <1>10 DEF States
  <1> QED BY <1>10, <1>11 DEF r

=============================================================================
