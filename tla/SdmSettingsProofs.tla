------------------------- MODULE SdmSettingsProofs -------------------------
(***************************************************************************)
(* nxpsc_sdm_build_settings() and the card's reading of its result, for    *)
(* every setting: the offsets the settings hold are listed in the order in *)
(* which the card expects them, each lies behind as many others as the     *)
(* card counts before it, and so each is read where it was written.        *)
(***************************************************************************)
EXTENDS SdmSettings, CodecProofs, FiniteSetTheorems

(***************************************************************************)
(* The offsets the settings hold.                                          *)
(***************************************************************************)
\* the names, in the order of the structure
Order == <<"uid", "counter", "picc_data", "mac_input", "enc", "enc_length", "mac", "limit">>

\* 1 for each offset the settings hold, in their order
Held(sdm) ==
  LET meta_read == sdm.meta_read_key % 16
      file_read == sdm.file_read_key % 16
  IN  << bit(sdm.uid_mirror /\ meta_read = 14, 1), bit(sdm.counter_mirror /\ meta_read = 14, 1),
         bit(meta_read <= 4, 1), bit(file_read # 15, 1), bit(file_read # 15 /\ sdm.enc_file_data, 1),
         bit(file_read # 15 /\ sdm.enc_file_data, 1), bit(file_read # 15, 1),
         bit(sdm.read_counter_limit, 1) >>

\* the names of the offsets held are those, each behind the ones before it
Lists(names, b) ==
  /\ names \in Seq(Offsets)
  /\ Len(names) = b[1] + b[2] + b[3] + b[4] + b[5] + b[6] + b[7] + b[8]
  /\ b[1] = 1 => names[1] = "uid"
  /\ b[2] = 1 => names[b[1] + 1] = "counter"
  /\ b[3] = 1 => names[b[1] + b[2] + 1] = "picc_data"
  /\ b[4] = 1 => names[b[1] + b[2] + b[3] + 1] = "mac_input"
  /\ b[5] = 1 => names[b[1] + b[2] + b[3] + b[4] + 1] = "enc"
  /\ b[6] = 1 => names[b[1] + b[2] + b[3] + b[4] + b[5] + 1] = "enc_length"
  /\ b[7] = 1 => names[b[1] + b[2] + b[3] + b[4] + b[5] + b[6] + 1] = "mac"
  /\ b[8] = 1 => names[b[1] + b[2] + b[3] + b[4] + b[5] + b[6] + b[7] + 1] = "limit"

\* Fields() lists the offsets that are held
LEMMA FieldsAre ==
  ASSUME NEW sdm
  PROVE  Lists(Fields(sdm), Held(sdm)) /\ \A k \in 1..8 : Held(sdm)[k] \in {0, 1}
  <1> DEFINE meta_read == sdm.meta_read_key % 16
             file_read == sdm.file_read_key % 16
             P1 == sdm.uid_mirror /\ meta_read = 14
             P2 == sdm.counter_mirror /\ meta_read = 14
             P3 == meta_read <= 4
             P4 == file_read # 15
             P5 == P4 /\ sdm.enc_file_data
             P8 == sdm.read_counter_limit
             b1 == bit(P1, 1)  b2 == bit(P2, 1)  b3 == bit(P3, 1)  b4 == bit(P4, 1)
             b5 == bit(P5, 1)  b8 == bit(P8, 1)
             On(condition, names) == IF condition THEN names ELSE << >>
             s1 == On(P1, <<"uid">>)
             s2 == On(P2, <<"counter">>)
             s3 == On(P3, <<"picc_data">>)
             se == On(sdm.enc_file_data, <<"enc", "enc_length">>)
             s4 == On(P4, <<"mac_input">> \o se \o <<"mac">>)
             s8 == On(P8, <<"limit">>)
  <1>1. Fields(sdm) = s1 \o s2 \o s3 \o s4 \o s8
    BY DEF Fields
  <1>2. Held(sdm) = <<b1, b2, b3, b4, b5, b5, b4, b8>>
    BY DEF Held
  <1>3. s1 \in Seq(Offsets) /\ Len(s1) = b1 /\ b1 \in {0, 1} /\ (b1 = 1 => s1[1] = "uid")
    <2>1. CASE P1
      <3>1. s1 = <<"uid">> /\ b1 = 1
        BY <2>1, Zenon DEF bit
      <3> HIDE DEF s1, b1
      <3> QED BY <3>1 DEF Offsets
    <2>2. CASE ~P1
      <3>1. s1 = << >> /\ b1 = 0
        BY <2>2, Zenon DEF bit
      <3> HIDE DEF s1, b1
      <3> QED BY <3>1
    <2> QED BY <2>1, <2>2
  <1>4. s2 \in Seq(Offsets) /\ Len(s2) = b2 /\ b2 \in {0, 1} /\ (b2 = 1 => s2[1] = "counter")
    <2>1. CASE P2
      <3>1. s2 = <<"counter">> /\ b2 = 1
        BY <2>1, Zenon DEF bit
      <3> HIDE DEF s2, b2
      <3> QED BY <3>1 DEF Offsets
    <2>2. CASE ~P2
      <3>1. s2 = << >> /\ b2 = 0
        BY <2>2, Zenon DEF bit
      <3> HIDE DEF s2, b2
      <3> QED BY <3>1
    <2> QED BY <2>1, <2>2
  <1>5. s3 \in Seq(Offsets) /\ Len(s3) = b3 /\ b3 \in {0, 1} /\ (b3 = 1 => s3[1] = "picc_data")
    <2>1. CASE P3
      <3>1. s3 = <<"picc_data">> /\ b3 = 1
        BY <2>1, Zenon DEF bit
      <3> HIDE DEF s3, b3
      <3> QED BY <3>1 DEF Offsets
    <2>2. CASE ~P3
      <3>1. s3 = << >> /\ b3 = 0
        BY <2>2, Zenon DEF bit
      <3> HIDE DEF s3, b3
      <3> QED BY <3>1
    <2> QED BY <2>1, <2>2
  <1>6. s8 \in Seq(Offsets) /\ Len(s8) = b8 /\ b8 \in {0, 1} /\ (b8 = 1 => s8[1] = "limit")
    <2>1. CASE P8
      <3>1. s8 = <<"limit">> /\ b8 = 1
        BY <2>1, Zenon DEF bit
      <3> HIDE DEF s8, b8
      <3> QED BY <3>1 DEF Offsets
    <2>2. CASE ~P8
      <3>1. s8 = << >> /\ b8 = 0
        BY <2>2, Zenon DEF bit
      <3> HIDE DEF s8, b8
      <3> QED BY <3>1
    <2> QED BY <2>1, <2>2
  <1>7. /\ s4 \in Seq(Offsets) /\ b4 \in {0, 1} /\ b5 \in {0, 1}
        /\ Len(s4) = b4 + b5 + b5 + b4
        /\ b4 = 1 => s4[1] = "mac_input"
        /\ b5 = 1 => s4[b4 + 1] = "enc" /\ s4[b4 + b5 + 1] = "enc_length"
        /\ b4 = 1 => s4[b4 + b5 + b5 + 1] = "mac"
    <2>1. CASE ~P4
      <3>1. s4 = << >> /\ b4 = 0 /\ b5 = 0
        BY <2>1, Zenon DEF bit
      <3> HIDE DEF s4, b4, b5
      <3> QED BY <3>1
    <2>2. CASE P4 /\ ~sdm.enc_file_data
      <3>1. s4 = <<"mac_input">> \o << >> \o <<"mac">> /\ b4 = 1 /\ b5 = 0
        BY <2>2, Zenon DEF bit
      <3> HIDE DEF s4, b4, b5
      <3> DEFINE u == <<"mac_input">>  v == << >>  w == <<"mac">>
      <3>2. /\ u \in Seq(Offsets) /\ v \in Seq(Offsets) /\ w \in Seq(Offsets)
            /\ Len(u) = 1 /\ Len(v) = 0 /\ Len(w) = 1 /\ u[1] = "mac_input" /\ w[1] = "mac"
        BY DEF Offsets
      <3>3. s4 = (u \o v) \o w
        BY <3>1
      <3> HIDE DEF u, v, w
      <3>4. /\ u \o v \in Seq(Offsets) /\ Len(u \o v) = 1
            /\ (u \o v)[1] = "mac_input"
        BY <3>2, Joined
      <3>5. /\ s4 \in Seq(Offsets) /\ Len(s4) = 2
            /\ s4[1] = "mac_input" /\ s4[1 + 1] = "mac"
        BY <3>2, <3>3, <3>4, Joined
      <3> QED BY <3>1, <3>5
    <2>3. CASE P4 /\ sdm.enc_file_data
      <3>1. s4 = <<"mac_input">> \o <<"enc", "enc_length">> \o <<"mac">> /\ b4 = 1 /\ b5 = 1
        BY <2>3, Zenon DEF bit
      <3> HIDE DEF s4, b4, b5
      <3> DEFINE u == <<"mac_input">>  v == <<"enc", "enc_length">>  w == <<"mac">>
      <3>2. /\ u \in Seq(Offsets) /\ v \in Seq(Offsets) /\ w \in Seq(Offsets)
            /\ Len(u) = 1 /\ Len(v) = 2 /\ Len(w) = 1
            /\ u[1] = "mac_input" /\ v[1] = "enc" /\ v[2] = "enc_length" /\ w[1] = "mac"
        BY DEF Offsets
      <3>3. s4 = (u \o v) \o w
        BY <3>1
      <3> HIDE DEF u, v, w
      <3>4. /\ u \o v \in Seq(Offsets) /\ Len(u \o v) = 3
            /\ (u \o v)[1] = "mac_input" /\ (u \o v)[1 + 1] = "enc" /\ (u \o v)[1 + 2] = "enc_length"
        BY <3>2, Joined
      <3>5. /\ s4 \in Seq(Offsets) /\ Len(s4) = 4
            /\ s4[1] = "mac_input" /\ s4[2] = "enc" /\ s4[3] = "enc_length" /\ s4[3 + 1] = "mac"
        BY <3>2, <3>3, <3>4, Joined
      <3> QED BY <3>1, <3>5
    <2> QED BY <2>1, <2>2, <2>3
  <1> HIDE DEF s1, s2, s3, s4, s8, b1, b2, b3, b4, b5, b8
  <1> DEFINE t2 == s1 \o s2  t3 == t2 \o s3  t4 == t3 \o s4  t8 == t4 \o s8
  <1>8. /\ t2 \in Seq(Offsets) /\ Len(t2) = b1 + b2
        /\ b1 = 1 => t2[1] = "uid"
        /\ b2 = 1 => t2[b1 + 1] = "counter"
    <2>1. /\ t2 \in Seq(Offsets) /\ Len(t2) = Len(s1) + Len(s2)
          /\ \A i \in 1..Len(s1) : t2[i] = s1[i]
          /\ \A i \in 1..Len(s2) : t2[Len(s1) + i] = s2[i]
      BY <1>3, <1>4, Joined
    <2> HIDE DEF t2
    <2> QED BY <1>3, <1>4, <2>1
  <1>9. /\ t3 \in Seq(Offsets) /\ Len(t3) = b1 + b2 + b3
        /\ b1 = 1 => t3[1] = "uid"
        /\ b2 = 1 => t3[b1 + 1] = "counter"
        /\ b3 = 1 => t3[b1 + b2 + 1] = "picc_data"
    <2> HIDE DEF t2
    <2>1. /\ t3 \in Seq(Offsets) /\ Len(t3) = Len(t2) + Len(s3)
          /\ \A i \in 1..Len(t2) : t3[i] = t2[i]
          /\ \A i \in 1..Len(s3) : t3[Len(t2) + i] = s3[i]
      BY <1>8, <1>5, Joined
    <2> HIDE DEF t3
    <2> QED BY <1>3, <1>4, <1>5, <1>8, <2>1
  <1>10. /\ t4 \in Seq(Offsets) /\ Len(t4) = b1 + b2 + b3 + b4 + b5 + b5 + b4
         /\ b1 = 1 => t4[1] = "uid"
         /\ b2 = 1 => t4[b1 + 1] = "counter"
         /\ b3 = 1 => t4[b1 + b2 + 1] = "picc_data"
         /\ b4 = 1 => t4[b1 + b2 + b3 + 1] = "mac_input"
         /\ b5 = 1 => t4[b1 + b2 + b3 + b4 + 1] = "enc"
         /\ b5 = 1 => t4[b1 + b2 + b3 + b4 + b5 + 1] = "enc_length"
         /\ b4 = 1 => t4[b1 + b2 + b3 + b4 + b5 + b5 + 1] = "mac"
    <2> HIDE DEF t3
    <2>1. /\ t4 \in Seq(Offsets) /\ Len(t4) = Len(t3) + Len(s4)
          /\ \A i \in 1..Len(t3) : t4[i] = t3[i]
          /\ \A i \in 1..Len(s4) : t4[Len(t3) + i] = s4[i]
      BY <1>9, <1>7, Joined
    <2> HIDE DEF t4
    <2>2. /\ b1 = 1 => t4[1] = t3[1]
          /\ b2 = 1 => t4[b1 + 1] = t3[b1 + 1]
          /\ b3 = 1 => t4[b1 + b2 + 1] = t3[b1 + b2 + 1]
      BY <1>3, <1>4, <1>5, <1>9, <2>1
    <2>3. /\ b4 = 1 => t4[b1 + b2 + b3 + 1] = s4[1]
          /\ b5 = 1 => t4[b1 + b2 + b3 + (b4 + 1)] = s4[b4 + 1]
          /\ b5 = 1 => t4[b1 + b2 + b3 + (b4 + b5 + 1)] = s4[b4 + b5 + 1]
          /\ b4 = 1 => t4[b1 + b2 + b3 + (b4 + b5 + b5 + 1)] = s4[b4 + b5 + b5 + 1]
      <3> DEFINE n == Len(t3)  At(i) == t4[n + i] = s4[i]
      <3>1. n = b1 + b2 + b3 /\ \A i \in 1..Len(s4) : At(i)
        BY <1>9, <2>1
      <3> HIDE DEF At, n
      <3>2. /\ b4 = 1 => At(1)
            /\ b5 = 1 => At(b4 + 1)
            /\ b5 = 1 => At(b4 + b5 + 1)
            /\ b4 = 1 => At(b4 + b5 + b5 + 1)
        BY <1>7, <3>1
      <3> QED BY <3>1, <3>2 DEF At
    <2>4. /\ b1 + b2 + b3 + (b4 + 1) = b1 + b2 + b3 + b4 + 1
          /\ b1 + b2 + b3 + (b4 + b5 + 1) = b1 + b2 + b3 + b4 + b5 + 1
          /\ b1 + b2 + b3 + (b4 + b5 + b5 + 1) = b1 + b2 + b3 + b4 + b5 + b5 + 1
          /\ b1 + b2 + b3 + (b4 + b5 + b5 + b4) = b1 + b2 + b3 + b4 + b5 + b5 + b4
      BY <1>3, <1>4, <1>5, <1>7
    <2> QED BY <1>7, <1>9, <2>1, <2>2, <2>3, <2>4
  <1>11. /\ t8 \in Seq(Offsets) /\ Len(t8) = Len(t4) + Len(s8)
         /\ \A i \in 1..Len(t4) : t8[i] = t4[i]
         /\ \A i \in 1..Len(s8) : t8[Len(t4) + i] = s8[i]
    <2> HIDE DEF t4
    <2> QED BY <1>10, <1>6, Joined
  <1> DEFINE b == <<b1, b2, b3, b4, b5, b5, b4, b8>>
  <1>12. /\ b[1] = b1 /\ b[2] = b2 /\ b[3] = b3 /\ b[4] = b4 /\ b[5] = b5 /\ b[6] = b5
         /\ b[7] = b4 /\ b[8] = b8
    OBVIOUS
  <1>13. \A k \in 1..8 : b[k] \in {0, 1}
    BY <1>3, <1>4, <1>5, <1>6, <1>7
  <1> HIDE DEF b, t8, t4
  <1>14. /\ b1 = 1 => t8[1] = t4[1]
         /\ b2 = 1 => t8[b1 + 1] = t4[b1 + 1]
         /\ b3 = 1 => t8[b1 + b2 + 1] = t4[b1 + b2 + 1]
         /\ b4 = 1 => t8[b1 + b2 + b3 + 1] = t4[b1 + b2 + b3 + 1]
         /\ b5 = 1 => t8[b1 + b2 + b3 + b4 + 1] = t4[b1 + b2 + b3 + b4 + 1]
         /\ b5 = 1 => t8[b1 + b2 + b3 + b4 + b5 + 1] = t4[b1 + b2 + b3 + b4 + b5 + 1]
         /\ b4 = 1 => t8[b1 + b2 + b3 + b4 + b5 + b5 + 1] = t4[b1 + b2 + b3 + b4 + b5 + b5 + 1]
         /\ b8 = 1 => t8[b1 + b2 + b3 + b4 + b5 + b5 + b4 + 1] = s8[1]
    <2> DEFINE n == Len(t4)  Same(i) == t8[i] = t4[i]
    <2>1. n = b1 + b2 + b3 + b4 + b5 + b5 + b4 /\ \A i \in 1..n : Same(i)
      BY <1>10, <1>11
    <2>2. b8 = 1 => t8[n + 1] = s8[1]
      BY <1>6, <1>11
    <2> HIDE DEF n, Same
    <2>3. b1 = 1 => Same(1)
      BY <1>3, <1>4, <1>5, <1>7, <2>1
    <2>4. b2 = 1 => Same(b1 + 1)
      BY <1>3, <1>4, <1>5, <1>7, <2>1
    <2>5. b3 = 1 => Same(b1 + b2 + 1)
      BY <1>3, <1>4, <1>5, <1>7, <2>1
    <2>6. b4 = 1 => Same(b1 + b2 + b3 + 1)
      BY <1>3, <1>4, <1>5, <1>7, <2>1
    <2>7. b5 = 1 => Same(b1 + b2 + b3 + b4 + 1)
      BY <1>3, <1>4, <1>5, <1>7, <2>1
    <2>8. b5 = 1 => Same(b1 + b2 + b3 + b4 + b5 + 1)
      BY <1>3, <1>4, <1>5, <1>7, <2>1
    <2>9. b4 = 1 => Same(b1 + b2 + b3 + b4 + b5 + b5 + 1)
      BY <1>3, <1>4, <1>5, <1>7, <2>1
    <2> QED BY <2>1, <2>2, <2>3, <2>4, <2>5, <2>6, <2>7, <2>8, <2>9 DEF Same
  <1>15. Lists(t8, b)
    <2>1. /\ b1 = 1 => t8[1] = "uid"
          /\ b2 = 1 => t8[b1 + 1] = "counter"
          /\ b3 = 1 => t8[b1 + b2 + 1] = "picc_data"
          /\ b4 = 1 => t8[b1 + b2 + b3 + 1] = "mac_input"
          /\ b5 = 1 => t8[b1 + b2 + b3 + b4 + 1] = "enc"
          /\ b5 = 1 => t8[b1 + b2 + b3 + b4 + b5 + 1] = "enc_length"
          /\ b4 = 1 => t8[b1 + b2 + b3 + b4 + b5 + b5 + 1] = "mac"
          /\ b8 = 1 => t8[b1 + b2 + b3 + b4 + b5 + b5 + b4 + 1] = "limit"
      BY ONLY <1>6, <1>10, <1>14, Zenon
    <2>2. t8 \in Seq(Offsets) /\ Len(t8) = b1 + b2 + b3 + b4 + b5 + b5 + b4 + b8
      BY ONLY <1>6, <1>10, <1>11
    <2> QED BY ONLY <1>12, <2>1, <2>2, Zenon DEF Lists
  <1> QED BY <1>1, <1>2, <1>13, <1>15 DEF b, t8, t4

-----------------------------------------------------------------------------
(***************************************************************************)
(* Counting the offsets in front of one.                                   *)
(***************************************************************************)
\* how many of the first n are held
Count(b, n) == Cardinality({j \in 1..n : b[j] = 1})

\* one more counts if it is held
LEMMA CountOneMore ==
  ASSUME NEW b, NEW n \in Nat, b[n + 1] \in {0, 1}, IsFiniteSet({j \in 1..n : b[j] = 1})
  PROVE  /\ IsFiniteSet({j \in 1..(n + 1) : b[j] = 1})
         /\ Count(b, n + 1) = Count(b, n) + b[n + 1]
  <1> DEFINE S == {j \in 1..n : b[j] = 1}  T == {j \in 1..(n + 1) : b[j] = 1}  k == n + 1
  <1>1. k \notin S
    OBVIOUS
  <1>2. CASE b[k] = 1
    <2>1. T = S \cup {k}
      BY <1>2
    <2> HIDE DEF S, T, k
    <2>2. IsFiniteSet(S) /\ Cardinality(S) \in Nat
      BY FS_CardinalityType DEF S
    <2>3. IsFiniteSet(T) /\ Cardinality(T) = Cardinality(S) + 1
      BY <1>1, <2>1, <2>2, FS_AddElement
    <2> QED BY <1>2, <2>3 DEF Count, S, T, k
  <1>3. CASE b[k] # 1
    <2>1. T = S /\ b[k] = 0
      BY <1>3
    <2>2. Cardinality(S) \in Nat
      BY FS_CardinalityType
    <2> QED BY <2>1, <2>2 DEF Count
  <1> QED BY <1>2, <1>3

\* each count is the sum of the flags so far
LEMMA CountsAre ==
  ASSUME NEW b, \A k \in 1..8 : b[k] \in {0, 1}
  PROVE  /\ Count(b, 0) = 0
         /\ Count(b, 1) = b[1]
         /\ Count(b, 2) = b[1] + b[2]
         /\ Count(b, 3) = b[1] + b[2] + b[3]
         /\ Count(b, 4) = b[1] + b[2] + b[3] + b[4]
         /\ Count(b, 5) = b[1] + b[2] + b[3] + b[4] + b[5]
         /\ Count(b, 6) = b[1] + b[2] + b[3] + b[4] + b[5] + b[6]
         /\ Count(b, 7) = b[1] + b[2] + b[3] + b[4] + b[5] + b[6] + b[7]
         /\ Count(b, 8) = b[1] + b[2] + b[3] + b[4] + b[5] + b[6] + b[7] + b[8]
  <1> DEFINE Fin(n) == IsFiniteSet({j \in 1..n : b[j] = 1})
             One(n) == Count(b, n + 1) = Count(b, n) + b[n + 1]
  <1>1. Fin(0) /\ Count(b, 0) = 0
    <2>1. {j \in 1..0 : b[j] = 1} = {}
      OBVIOUS
    <2> QED BY <2>1, FS_EmptySet DEF Count
  <1>2. \A n \in 0..7 : Fin(n) => Fin(n + 1) /\ One(n)
    <2> SUFFICES ASSUME NEW n \in 0..7, Fin(n) PROVE Fin(n + 1) /\ One(n)
      OBVIOUS
    <2>1. n \in Nat /\ b[n + 1] \in {0, 1}
      OBVIOUS
    <2> QED BY <2>1, CountOneMore
  <1> HIDE DEF Fin, One
  <1>3. /\ Fin(1) /\ One(0)
    BY <1>1, <1>2
  <1>4. /\ Fin(2) /\ One(1)
    BY <1>3, <1>2
  <1>5. /\ Fin(3) /\ One(2)
    BY <1>4, <1>2
  <1>6. /\ Fin(4) /\ One(3)
    BY <1>5, <1>2
  <1>7. /\ Fin(5) /\ One(4)
    BY <1>6, <1>2
  <1>8. /\ Fin(6) /\ One(5)
    BY <1>7, <1>2
  <1>9. /\ Fin(7) /\ One(6)
    BY <1>8, <1>2
  <1>10. /\ Fin(8) /\ One(7)
    BY <1>9, <1>2
  <1> QED BY <1>1, <1>3, <1>4, <1>5, <1>6, <1>7, <1>8, <1>9, <1>10 DEF One

\* where the name of the k-th offset is listed
LEMMA ListedAt ==
  ASSUME NEW b, \A k \in 1..8 : b[k] \in {0, 1}, NEW names, Lists(names, b),
         NEW k, k \in 1..8, b[k] = 1
  PROVE  /\ Count(b, k - 1) \in 0..(Len(names) - 1)
         /\ names[Count(b, k - 1) + 1] = Order[k]
         /\ Len(names) = Count(b, 8)
  <1>1. /\ Count(b, 0) = 0
        /\ Count(b, 1) = b[1]
        /\ Count(b, 2) = b[1] + b[2]
        /\ Count(b, 3) = b[1] + b[2] + b[3]
        /\ Count(b, 4) = b[1] + b[2] + b[3] + b[4]
        /\ Count(b, 5) = b[1] + b[2] + b[3] + b[4] + b[5]
        /\ Count(b, 6) = b[1] + b[2] + b[3] + b[4] + b[5] + b[6]
        /\ Count(b, 7) = b[1] + b[2] + b[3] + b[4] + b[5] + b[6] + b[7]
        /\ Count(b, 8) = b[1] + b[2] + b[3] + b[4] + b[5] + b[6] + b[7] + b[8]
    BY CountsAre
  <1>2. /\ b[1] \in {0, 1} /\ b[2] \in {0, 1} /\ b[3] \in {0, 1} /\ b[4] \in {0, 1}
        /\ b[5] \in {0, 1} /\ b[6] \in {0, 1} /\ b[7] \in {0, 1} /\ b[8] \in {0, 1}
    OBVIOUS
  <1>3. Len(names) = Count(b, 8)
    BY <1>1 DEF Lists
  <1>4. /\ b[1] = 1 => names[Count(b, 0) + 1] = "uid"
        /\ b[2] = 1 => names[Count(b, 1) + 1] = "counter"
        /\ b[3] = 1 => names[Count(b, 2) + 1] = "picc_data"
        /\ b[4] = 1 => names[Count(b, 3) + 1] = "mac_input"
        /\ b[5] = 1 => names[Count(b, 4) + 1] = "enc"
        /\ b[6] = 1 => names[Count(b, 5) + 1] = "enc_length"
        /\ b[7] = 1 => names[Count(b, 6) + 1] = "mac"
        /\ b[8] = 1 => names[Count(b, 7) + 1] = "limit"
    BY <1>1, 0 + 1 = 1 DEF Lists
  <1>5. /\ Order[1] = "uid" /\ Order[2] = "counter" /\ Order[3] = "picc_data"
        /\ Order[4] = "mac_input" /\ Order[5] = "enc" /\ Order[6] = "enc_length"
        /\ Order[7] = "mac" /\ Order[8] = "limit"
    BY DEF Order
  <1>8. k = 1 \/ k = 2 \/ k = 3 \/ k = 4 \/ k = 5 \/ k = 6 \/ k = 7 \/ k = 8
    OBVIOUS
  <1>10. /\ b[1] \in Nat /\ b[2] \in Nat /\ b[3] \in Nat /\ b[4] \in Nat
         /\ b[5] \in Nat /\ b[6] \in Nat /\ b[7] \in Nat /\ b[8] \in Nat
    BY ONLY <1>2
  <1>9. /\ 1 - 1 = 0 /\ 2 - 1 = 1 /\ 3 - 1 = 2 /\ 4 - 1 = 3
        /\ 5 - 1 = 4 /\ 6 - 1 = 5 /\ 7 - 1 = 6 /\ 8 - 1 = 7
    OBVIOUS
  <1>6. names[Count(b, k - 1) + 1] = Order[k]
    BY <1>4, <1>5, <1>8, <1>9
  <1>7. Count(b, k - 1) \in 0..(Len(names) - 1)
    <2> DEFINE n == Count(b, k - 1)
    <2>1. n \in Nat /\ n + 1 <= Count(b, 8) /\ Count(b, 8) \in Nat
      <3> HIDE DEF n
      <3>1. CASE k = 1
        <4>1. n = Count(b, 0) /\ b[1] = 1
          BY <1>9, <3>1 DEF n
        <4> QED BY ONLY <1>1, <1>10, <4>1
      <3>2. CASE k = 2
        <4>1. n = Count(b, 1) /\ b[2] = 1
          BY <1>9, <3>2 DEF n
        <4> QED BY ONLY <1>1, <1>10, <4>1
      <3>3. CASE k = 3
        <4>1. n = Count(b, 2) /\ b[3] = 1
          BY <1>9, <3>3 DEF n
        <4> QED BY ONLY <1>1, <1>10, <4>1
      <3>4. CASE k = 4
        <4>1. n = Count(b, 3) /\ b[4] = 1
          BY <1>9, <3>4 DEF n
        <4> QED BY ONLY <1>1, <1>10, <4>1
      <3>5. CASE k = 5
        <4>1. n = Count(b, 4) /\ b[5] = 1
          BY <1>9, <3>5 DEF n
        <4> QED BY ONLY <1>1, <1>10, <4>1
      <3>6. CASE k = 6
        <4>1. n = Count(b, 5) /\ b[6] = 1
          BY <1>9, <3>6 DEF n
        <4> QED BY ONLY <1>1, <1>10, <4>1
      <3>7. CASE k = 7
        <4>1. n = Count(b, 6) /\ b[7] = 1
          BY <1>9, <3>7 DEF n
        <4> QED BY ONLY <1>1, <1>10, <4>1
      <3>8. CASE k = 8
        <4>1. n = Count(b, 7) /\ b[8] = 1
          BY <1>9, <3>8 DEF n
        <4> QED BY ONLY <1>1, <1>10, <4>1
      <3> QED BY ONLY <1>8, <3>1, <3>2, <3>3, <3>4, <3>5, <3>6, <3>7, <3>8
    <2> HIDE DEF n
    <2>2. n \in 0..(Len(names) - 1)
      BY ONLY <1>3, <2>1
    <2> QED BY <2>2 DEF n
  <1> QED BY <1>3, <1>6, <1>7

-----------------------------------------------------------------------------
(***************************************************************************)
(* The bytes of the settings.                                              *)
(***************************************************************************)
\* two sequences put together, where the result has a name
LEMMA Concatenated ==
  ASSUME NEW S, NEW x \in Seq(S), NEW y \in Seq(S), NEW z, z = x \o y
  PROVE  /\ z \in Seq(S) /\ Len(z) = Len(x) + Len(y)
         /\ \A i \in 1..Len(x) : z[i] = x[i]
         /\ \A i \in 1..Len(y) : z[Len(x) + i] = y[i]
  BY Joined

\* the six bytes before the offsets
LEMMA HeadIs ==
  ASSUME NEW x1, NEW x2, NEW x3, NEW x4, NEW x5, NEW x6,
         x1 \in Nat, x2 \in Nat, x3 \in Nat, x4 \in Nat, x5 \in Nat, x6 \in Nat,
         NEW s, s = <<x1, x2, x3>> \o <<x4>> \o <<x5, x6>>
  PROVE  /\ s \in Seq(Nat) /\ Len(s) = 6
         /\ s[1] = x1 /\ s[2] = x2 /\ s[3] = x3 /\ s[4] = x4 /\ s[5] = x5 /\ s[6] = x6
  <1> DEFINE u == <<x1, x2, x3>>  v == <<x4>>  w == <<x5, x6>>  t == u \o v
  <1>1. /\ u \in Seq(Nat) /\ v \in Seq(Nat) /\ w \in Seq(Nat)
        /\ Len(u) = 3 /\ Len(v) = 1 /\ Len(w) = 2
        /\ u[1] = x1 /\ u[2] = x2 /\ u[3] = x3 /\ v[1] = x4 /\ w[1] = x5 /\ w[2] = x6
    OBVIOUS
  <1>2. s = t \o w /\ t = u \o v
    OBVIOUS
  <1> HIDE DEF u, v, w, t
  <1>3. /\ t \in Seq(Nat) /\ Len(t) = 4
        /\ \A i \in 1..3 : t[i] = u[i]
        /\ \A i \in 1..1 : t[3 + i] = v[i]
    <2>1. u \in Seq(Nat) /\ v \in Seq(Nat) /\ t = u \o v
      BY <1>1, <1>2
    <2>2. /\ t \in Seq(Nat) /\ Len(t) = Len(u) + Len(v)
          /\ \A i \in 1..Len(u) : t[i] = u[i]
          /\ \A i \in 1..Len(v) : t[Len(u) + i] = v[i]
      BY ONLY <2>1, Concatenated
    <2> QED BY <1>1, <2>2
  <1>4. /\ s \in Seq(Nat) /\ Len(s) = 6
        /\ \A i \in 1..4 : s[i] = t[i]
        /\ \A i \in 1..2 : s[4 + i] = w[i]
    <2>1. t \in Seq(Nat) /\ w \in Seq(Nat) /\ s = t \o w
      BY <1>1, <1>2, <1>3
    <2>2. /\ s \in Seq(Nat) /\ Len(s) = Len(t) + Len(w)
          /\ \A i \in 1..Len(t) : s[i] = t[i]
          /\ \A i \in 1..Len(w) : s[Len(t) + i] = w[i]
      BY ONLY <2>1, Concatenated
    <2> QED BY <1>1, <1>3, <2>2
  <1>5. t[3 + 1] = v[1] /\ s[4 + 1] = w[1] /\ s[4 + 2] = w[2]
    BY <1>3, <1>4
  <1>6. /\ s[1] = t[1] /\ s[2] = t[2] /\ s[3] = t[3] /\ s[4] = t[4]
        /\ t[1] = u[1] /\ t[2] = u[2] /\ t[3] = u[3]
    BY <1>3, <1>4
  <1> QED BY <1>1, <1>4, <1>5, <1>6

\* three bytes written by put_u24() are read back
LEMMA U24Read ==
  ASSUME NEW out, NEW k, NEW v, v \in Nat, v < U24, k \in Nat,
         out[k] = put_u24(v)[1], out[k + 1] = put_u24(v)[2], out[k + 2] = put_u24(v)[3]
  PROVE  u24(out, k) = v
  <1> DEFINE c0 == v % 256  c1 == (v \div 256) % 256  c2 == (v \div 65536) % 256
  <1>1. out[k] = c0 /\ out[k + 1] = c1 /\ out[k + 2] = c2
    BY SMT DEF put_u24
  <1>2. v = c0 + (256 * c1) + (65536 * c2)
    BY U24Bytes
  <1> HIDE DEF c0, c1, c2
  <1>3. u24(out, k) = c0 + (256 * c1) + (65536 * c2)
    BY <1>1, SMT DEF u24
  <1> QED BY <1>2, <1>3

\* the bytes of the offsets listed, as nxpsc_sdm_build_settings() writes them
OffsetBytes(names, offset) ==
  [i \in 1..(3 * Len(names)) |-> put_u24(offset[names[(i + 2) \div 3]])[((i - 1) % 3) + 1]]

\* a head of six bytes, and offsets that fit three
Given(s, names, offset) ==
  /\ s \in Seq(Nat) /\ Len(s) = 6 /\ names \in Seq(Offsets)
  /\ \A f \in Offsets : offset[f] \in Nat /\ offset[f] < U24

\* out is the head, and each offset behind it at its place in the list
LaidOut(s, names, offset, out) ==
  /\ Len(out) = 6 + 3 * Len(names)
  /\ \A i \in 1..6 : out[i] = s[i]
  /\ \A n \in 0..(Len(names) - 1) : u24(out, 7 + 3 * n) = offset[names[n + 1]]

\* the head of the settings, and each offset behind it
LEMMA SettingsAre ==
  ASSUME NEW s, NEW names, NEW offset, Given(s, names, offset)
  PROVE  LaidOut(s, names, offset, s \o OffsetBytes(names, offset))
  <1> DEFINE tail == OffsetBytes(names, offset)  out == s \o tail
  <1>0. /\ names \in Seq(Offsets) /\ s \in Seq(Nat) /\ Len(s) = 6
        /\ \A f \in Offsets : offset[f] \in Nat /\ offset[f] < U24
        /\ tail = OffsetBytes(names, offset) /\ out = s \o tail
    BY DEF Given
  <1> HIDE DEF tail, out
  <1> DEFINE len == Len(names)
             Byte(i) == put_u24(offset[names[(i + 2) \div 3]])[((i - 1) % 3) + 1]
             W == {Byte(i) : i \in 1..(3 * len)}
  <1>1. len \in Nat /\ 3 * len \in Nat /\ \A n \in 1..len : names[n] \in Offsets
    BY <1>0
  <1>2. s \in Seq(Nat) /\ Len(s) = 6
    BY <1>0
  <1>3. tail \in [1..(3 * len) -> W] /\ out = s \o tail /\ \A i \in 1..(3 * len) : tail[i] = Byte(i)
    BY <1>0 DEF OffsetBytes
  <1>4. ASSUME NEW n \in 0..(len - 1)
        PROVE  /\ Byte(3 * n + 1) = put_u24(offset[names[n + 1]])[1]
               /\ Byte(3 * n + 2) = put_u24(offset[names[n + 1]])[2]
               /\ Byte(3 * n + 3) = put_u24(offset[names[n + 1]])[3]
    <2>1. n \in Nat
      BY <1>1
    <2>2. /\ ((3 * n + 1) + 2) \div 3 = n + 1 /\ ((3 * n + 2) + 2) \div 3 = n + 1
          /\ ((3 * n + 3) + 2) \div 3 = n + 1
          /\ (((3 * n + 1) - 1) % 3) + 1 = 1 /\ (((3 * n + 2) - 1) % 3) + 1 = 2
          /\ (((3 * n + 3) - 1) % 3) + 1 = 3
      BY ONLY <2>1, SMT
    <2> QED BY <2>2
  <1> HIDE DEF W, len
  <1>5. s \in Seq(Nat) /\ Len(s) = 6 /\ 3 * len \in Nat /\ tail \in [1..(3 * len) -> W]
    BY <1>1, <1>2, <1>3
  <1>6. /\ Len(out) = 6 + 3 * len
        /\ \A i \in 1..6 : out[i] = s[i]
        /\ \A i \in 1..(3 * len) : out[6 + i] = tail[i]
    <2> DEFINE T == W \cup Nat
    <2>1. tail \in Seq(T) /\ Len(tail) = 3 * len
      <3> DEFINE m == 3 * len
      <3>1. m \in Nat /\ tail \in [1..m -> T]
        BY <1>5
      <3> HIDE DEF m, T
      <3>2. tail \in Seq(T) /\ Len(tail) = m
        BY ONLY <3>1
      <3> QED BY ONLY <3>2 DEF m
    <2>2. s \in Seq(T)
      <3>1. Nat \subseteq T
        OBVIOUS
      <3> HIDE DEF T
      <3> QED BY <1>2, <3>1
    <2> HIDE DEF T
    <2>3. s \in Seq(T) /\ tail \in Seq(T) /\ out = s \o tail
      BY <1>3, <2>1, <2>2
    <2>4. /\ out \in Seq(T) /\ Len(out) = Len(s) + Len(tail)
          /\ \A i \in 1..Len(s) : out[i] = s[i]
          /\ \A i \in 1..Len(tail) : out[Len(s) + i] = tail[i]
      BY ONLY <2>3, Concatenated
    <2> QED BY <1>2, <2>1, <2>4
  <1>7. ASSUME NEW n \in 0..(len - 1)
        PROVE  u24(out, 7 + 3 * n) = offset[names[n + 1]]
    <2> DEFINE v == offset[names[n + 1]]
    <2>1. /\ 3 * n + 1 \in 1..(3 * len) /\ 3 * n + 2 \in 1..(3 * len) /\ 3 * n + 3 \in 1..(3 * len)
          /\ n + 1 \in 1..len /\ 7 + 3 * n = 6 + (3 * n + 1)
          /\ (7 + 3 * n) + 1 = 6 + (3 * n + 2) /\ (7 + 3 * n) + 2 = 6 + (3 * n + 3)
      BY <1>1
    <2>2. v \in Nat /\ v < U24
      BY <1>0, <1>1, <2>1
    <2>3. /\ out[6 + (3 * n + 1)] = put_u24(v)[1] /\ out[6 + (3 * n + 2)] = put_u24(v)[2]
          /\ out[6 + (3 * n + 3)] = put_u24(v)[3]
      <3> HIDE DEF Byte
      <3>1. /\ out[6 + (3 * n + 1)] = Byte(3 * n + 1) /\ out[6 + (3 * n + 2)] = Byte(3 * n + 2)
            /\ out[6 + (3 * n + 3)] = Byte(3 * n + 3)
        BY <2>1, <1>3, <1>6
      <3> QED BY <1>4, <3>1
    <2>4. 7 + 3 * n \in Nat
      BY <1>1
    <2> DEFINE k == 7 + 3 * n
    <2>5. out[k] = put_u24(v)[1] /\ out[k + 1] = put_u24(v)[2] /\ out[k + 2] = put_u24(v)[3]
      BY <2>1, <2>3
    <2>6. k \in Nat
      BY <2>4
    <2> HIDE DEF v, k
    <2>8. u24(out, k) = v
      BY ONLY <2>2, <2>5, <2>6, U24Read
    <2>7. u24(out, 7 + 3 * n) = v
      BY ONLY <2>8 DEF k
    <2> QED BY <2>7 DEF v
  <1> QED BY ONLY <1>6, <1>7 DEF len, LaidOut, out, tail

-----------------------------------------------------------------------------
(***************************************************************************)
(* The card's reading of them.                                             *)
(***************************************************************************)
\* the options byte has one bit for each option
LEMMA OptionsAre ==
  ASSUME NEW sdm, NEW o, o = sdm_options(sdm)
  PROVE  /\ o \in Nat
         /\ (o \div 128) % 2 = 1 <=> sdm.uid_mirror
         /\ (o \div 64) % 2 = 1 <=> sdm.counter_mirror
         /\ (o \div 32) % 2 = 1 <=> sdm.read_counter_limit
         /\ (o \div 16) % 2 = 1 <=> sdm.enc_file_data
  <1> DEFINE p == bit(sdm.uid_mirror, 1)  q == bit(sdm.counter_mirror, 1)
             r == bit(sdm.read_counter_limit, 1)  e == bit(sdm.enc_file_data, 1)
             P == sdm.uid_mirror  Q == sdm.counter_mirror
             R == sdm.read_counter_limit  E == sdm.enc_file_data
  <1>1. /\ p \in {0, 1} /\ q \in {0, 1} /\ r \in {0, 1} /\ e \in {0, 1}
        /\ (p = 1 <=> P) /\ (q = 1 <=> Q) /\ (r = 1 <=> R) /\ (e = 1 <=> E)
    BY DEF bit
  <1>2. /\ bit(sdm.uid_mirror, 128) = 128 * p /\ bit(sdm.counter_mirror, 64) = 64 * q
        /\ bit(sdm.read_counter_limit, 32) = 32 * r /\ bit(sdm.enc_file_data, 16) = 16 * e
    BY SMT DEF bit
  <1>3. o = (128 * p) + (64 * q) + (32 * r) + (16 * e) + 1
    BY <1>2, SMT DEF sdm_options
  <1> HIDE DEF p, q, r, e, P, Q, R, E
  <1>4. /\ o \in Nat
        /\ (o \div 128) % 2 = p /\ (o \div 64) % 2 = q
        /\ (o \div 32) % 2 = r /\ (o \div 16) % 2 = e
    <2>1. p \in {0, 1} /\ q \in {0, 1} /\ r \in {0, 1} /\ e \in {0, 1}
      BY <1>1
    <2> QED BY ONLY <2>1, <1>3, SMT
  <1>5. /\ (o \div 128) % 2 = 1 <=> P
        /\ (o \div 64) % 2 = 1 <=> Q
        /\ (o \div 32) % 2 = 1 <=> R
        /\ (o \div 16) % 2 = 1 <=> E
    BY ONLY <1>1, <1>4
  <1> QED BY ONLY <1>4, <1>5 DEF P, Q, R, E

\* the card expects the offsets that are held, in the same order
LEMMA CardExpectsHeld ==
  ASSUME NEW sdm, NEW out, out[4] = sdm_options(sdm),
         out[6] = (sdm.meta_read_key % 16) * 16 + (sdm.file_read_key % 16),
         sdm.meta_read_key \in Nat, sdm.file_read_key \in Nat
  PROVE  /\ DOMAIN CardExpects(out) = 1..8
         /\ \A k \in 1..8 : /\ CardExpects(out)[k][1] = Order[k]
                            /\ CardExpects(out)[k][2] <=> Held(sdm)[k] = 1
  <1> DEFINE meta == sdm.meta_read_key % 16  file == sdm.file_read_key % 16
             o == out[4]  x == out[6]  E == CardExpects(out)
             P1 == sdm.uid_mirror /\ meta = 14  P2 == sdm.counter_mirror /\ meta = 14
             P3 == meta <= 4  P4 == file # 15  P5 == P4 /\ sdm.enc_file_data
             P8 == sdm.read_counter_limit
             Q1 == (o \div 128) % 2 = 1 /\ x \div 16 = 14
             Q2 == (o \div 64) % 2 = 1 /\ x \div 16 = 14
             Q3 == x \div 16 \in 0..4  Q4 == x % 16 # 15
             Q5 == x % 16 # 15 /\ (o \div 16) % 2 = 1
             Q8 == (o \div 32) % 2 = 1
  <1>1. meta \in 0..15 /\ file \in 0..15 /\ x = meta * 16 + file
    BY SMT
  <1>2. x \div 16 = meta /\ x % 16 = file
    <2> HIDE DEF meta, file, x
    <2> QED BY ONLY <1>1, SMT
  <1>3. /\ o \in Nat
        /\ (o \div 128) % 2 = 1 <=> sdm.uid_mirror
        /\ (o \div 64) % 2 = 1 <=> sdm.counter_mirror
        /\ (o \div 32) % 2 = 1 <=> sdm.read_counter_limit
        /\ (o \div 16) % 2 = 1 <=> sdm.enc_file_data
    <2>1. o = sdm_options(sdm)
      OBVIOUS
    <2> HIDE DEF o
    <2> QED BY ONLY <2>1, OptionsAre
  <1>4. /\ Q1 <=> P1
        /\ Q2 <=> P2
        /\ Q3 <=> P3
        /\ Q4 <=> P4
        /\ Q5 <=> P5
        /\ Q8 <=> P8
    <2> HIDE DEF o, x, meta, file
    <2> QED BY ONLY <1>1, <1>2, <1>3
  <1>5. E = << <<"uid", Q1>>, <<"counter", Q2>>, <<"picc_data", Q3>>, <<"mac_input", Q4>>,
               <<"enc", Q5>>, <<"enc_length", Q5>>, <<"mac", Q4>>, <<"limit", Q8>> >>
    BY Zenon DEF CardExpects
  <1>6. Held(sdm) = <<bit(P1, 1), bit(P2, 1), bit(P3, 1), bit(P4, 1), bit(P5, 1), bit(P5, 1),
                      bit(P4, 1), bit(P8, 1)>>
    BY Zenon DEF Held
  <1> HIDE DEF Q1, Q2, Q3, Q4, Q5, Q8, P1, P2, P3, P4, P5, P8, E
  <1>7. /\ DOMAIN E = 1..8
        /\ E[1] = <<"uid", Q1>> /\ E[2] = <<"counter", Q2>> /\ E[3] = <<"picc_data", Q3>>
        /\ E[4] = <<"mac_input", Q4>> /\ E[5] = <<"enc", Q5>> /\ E[6] = <<"enc_length", Q5>>
        /\ E[7] = <<"mac", Q4>> /\ E[8] = <<"limit", Q8>>
    BY ONLY <1>5
  <1>8. /\ E[1][1] = "uid" /\ E[2][1] = "counter" /\ E[3][1] = "picc_data"
        /\ E[4][1] = "mac_input" /\ E[5][1] = "enc" /\ E[6][1] = "enc_length"
        /\ E[7][1] = "mac" /\ E[8][1] = "limit"
    BY ONLY <1>7
  <1>9. /\ E[1][2] <=> Q1
        /\ E[2][2] <=> Q2
        /\ E[3][2] <=> Q3
        /\ E[4][2] <=> Q4
        /\ E[5][2] <=> Q5
        /\ E[6][2] <=> Q5
        /\ E[7][2] <=> Q4
        /\ E[8][2] <=> Q8
    BY ONLY <1>7
  <1>10. /\ Held(sdm)[1] = 1 <=> P1
         /\ Held(sdm)[2] = 1 <=> P2
         /\ Held(sdm)[3] = 1 <=> P3
         /\ Held(sdm)[4] = 1 <=> P4
         /\ Held(sdm)[5] = 1 <=> P5
         /\ Held(sdm)[6] = 1 <=> P5
         /\ Held(sdm)[7] = 1 <=> P4
         /\ Held(sdm)[8] = 1 <=> P8
    BY ONLY <1>6 DEF bit
  <1>11. \A k \in 1..8 : E[k][1] = Order[k] /\ (E[k][2] <=> Held(sdm)[k] = 1)
    <2> DEFINE Fits(k) == E[k][1] = Order[k] /\ (E[k][2] <=> Held(sdm)[k] = 1)
    <2>1. /\ Order[1] = "uid" /\ Order[2] = "counter" /\ Order[3] = "picc_data"
          /\ Order[4] = "mac_input" /\ Order[5] = "enc" /\ Order[6] = "enc_length"
          /\ Order[7] = "mac" /\ Order[8] = "limit"
      BY ONLY DEF Order
    <2>2. /\ Fits(1) /\ Fits(2) /\ Fits(3) /\ Fits(4)
          /\ Fits(5) /\ Fits(6) /\ Fits(7) /\ Fits(8)
      BY ONLY <1>4, <1>8, <1>9, <1>10, <2>1
    <2> HIDE DEF Fits
    <2>3. \A k \in 1..8 : Fits(k)
      BY ONLY <2>2
    <2> QED BY ONLY <2>3 DEF Fits
  <1> QED BY ONLY <1>7, <1>11 DEF E

\* an offset's name has one place in the order
LEMMA OneName ==
  ASSUME NEW k \in 1..8, NEW j \in 1..8, Order[k] = Order[j]
  PROVE  k = j
  <1>1. /\ Order[1] = "uid" /\ Order[2] = "counter" /\ Order[3] = "picc_data"
        /\ Order[4] = "mac_input" /\ Order[5] = "enc" /\ Order[6] = "enc_length"
        /\ Order[7] = "mac" /\ Order[8] = "limit"
    BY ONLY DEF Order
  <1> QED BY <1>1

\* reading an answer when b[k] = 1 says whether it has the k-th offset
LEMMA CardReadsAt ==
  ASSUME NEW out, NEW b, DOMAIN CardExpects(out) = 1..8,
         \A k \in 1..8 : /\ CardExpects(out)[k][1] = Order[k]
                         /\ CardExpects(out)[k][2] <=> b[k] = 1
  PROVE  /\ CardReads(out).len = 6 + 3 * Count(b, 8)
         /\ \A f \in DOMAIN CardReads(out).offset :
               \E k \in 1..8 : /\ b[k] = 1 /\ f = Order[k]
                               /\ CardReads(out).offset[f] = u24(out, 7 + 3 * Count(b, k - 1))
  <1> DEFINE E == CardExpects(out)
             Before(k) == Cardinality({j \in 1..(k - 1) : E[j][2]})
             present == {k \in DOMAIN E : E[k][2]}
             names == {E[k][1] : k \in present}
             At(f) == CHOOSE k \in present : E[k][1] = f
  <1>0. DOMAIN E = 1..8 /\ \A k \in 1..8 : E[k][1] = Order[k] /\ (E[k][2] <=> b[k] = 1)
    OBVIOUS
  <1>3. CardReads(out) = [offset |-> [f \in names |-> u24(out, 7 + 3 * Before(At(f)))],
                          len |-> 6 + 3 * Cardinality(present)]
    BY Zenon DEF CardReads
  <1> HIDE DEF E
  <1>1. present = {k \in 1..8 : b[k] = 1}
    BY <1>0
  <1>2. \A k \in 1..8 : Before(k) = Count(b, k - 1)
    <2> SUFFICES ASSUME NEW k \in 1..8 PROVE Before(k) = Count(b, k - 1)
      OBVIOUS
    <2>1. \A j \in 1..(k - 1) : E[j][2] <=> b[j] = 1
      BY <1>0
    <2>2. {j \in 1..(k - 1) : E[j][2]} = {j \in 1..(k - 1) : b[j] = 1}
      BY ONLY <2>1, Zenon
    <2> QED BY ONLY <2>2, Zenon DEF Count
  <1>4. Cardinality(present) = Count(b, 8)
    BY ONLY <1>1, Zenon DEF Count
  <1>5. ASSUME NEW f \in names
        PROVE  At(f) \in 1..8 /\ b[At(f)] = 1 /\ f = Order[At(f)]
    <2>1. \E k \in present : E[k][1] = f
      OBVIOUS
    <2>2. At(f) \in present /\ E[At(f)][1] = f
      BY ONLY <2>1, Zenon
    <2> HIDE DEF At, present
    <2> QED BY ONLY <1>0, <1>1, <2>2
  <1> HIDE DEF names, At, present, Before
  <1>6. /\ CardReads(out).len = 6 + 3 * Cardinality(present)
        /\ DOMAIN CardReads(out).offset = names
        /\ \A f \in names : CardReads(out).offset[f] = u24(out, 7 + 3 * Before(At(f)))
    BY ONLY <1>3
  <1>7. ASSUME NEW f \in names
        PROVE  \E k \in 1..8 : /\ b[k] = 1 /\ f = Order[k]
                               /\ CardReads(out).offset[f] = u24(out, 7 + 3 * Count(b, k - 1))
    <2> DEFINE k == At(f)
    <2>1. k \in 1..8 /\ b[k] = 1 /\ f = Order[k]
      BY <1>5
    <2>2. CardReads(out).offset[f] = u24(out, 7 + 3 * Before(k))
      BY ONLY <1>6
    <2>3. Before(k) = Count(b, k - 1)
      BY ONLY <1>2, <2>1
    <2> HIDE DEF k
    <2> QED BY ONLY <2>1, <2>2, <2>3
  <1> QED BY ONLY <1>4, <1>6, <1>7

-----------------------------------------------------------------------------
(***************************************************************************)
(* The settings built and read.                                            *)
(***************************************************************************)
\* four rights of four bits
AccessRights == [read : 0..15, write : 0..15, read_write : 0..15, change : 0..15]

\* access rights go into two bytes and come back
LEMMA AccessBack ==
  ASSUME NEW access, access \in AccessRights,
         NEW raw, raw = nxpsc_pack_access(access)
  PROVE  /\ raw \in Nat /\ raw % 256 \in Nat /\ raw \div 256 \in Nat
         /\ nxpsc_unpack_access((raw % 256) + 256 * (raw \div 256)) = access
  <1> DEFINE r == access.read  w == access.write  x == access.read_write  c == access.change
             back == (raw % 256) + 256 * (raw \div 256)
  <1>1. r \in 0..15 /\ w \in 0..15 /\ x \in 0..15 /\ c \in 0..15
    BY DEF AccessRights
  <1>2. raw = (r % 16) * 4096 + (w % 16) * 256 + (x % 16) * 16 + (c % 16)
    BY Zenon DEF nxpsc_pack_access
  <1>3. access = [read |-> r, write |-> w, read_write |-> x, change |-> c]
    BY DEF AccessRights
  <1>4. nxpsc_unpack_access(back) = [read |-> back \div 4096, write |-> (back \div 256) % 16,
                                     read_write |-> (back \div 16) % 16, change |-> back % 16]
    BY Zenon DEF nxpsc_unpack_access
  <1> HIDE DEF r, w, x, c
  <1>5. /\ r \in Nat /\ r < 16 /\ w \in Nat /\ w < 16 /\ x \in Nat /\ x < 16 /\ c \in Nat /\ c < 16
    BY ONLY <1>1
  <1>6. raw = r * 4096 + w * 256 + x * 16 + c
    BY ONLY <1>2, <1>5, SMT
  <1>7. raw \in Nat /\ raw % 256 \in Nat /\ raw \div 256 \in Nat /\ back = raw
    BY ONLY <1>5, <1>6, SMT
  <1> HIDE DEF back
  <1>8. /\ raw \div 4096 = r /\ (raw \div 256) % 16 = w
        /\ (raw \div 16) % 16 = x /\ raw % 16 = c
    BY ONLY <1>5, <1>6, SMT
  <1>9. nxpsc_unpack_access(back) = access
    BY ONLY <1>3, <1>4, <1>7, <1>8
  <1> QED BY ONLY <1>7, <1>9 DEF back

\* no settings hold both the UID's place and that of the enciphered PICC data
LEMMA HeldApart ==
  ASSUME NEW sdm
  PROVE  Held(sdm)[3] = 1 => Held(sdm)[1] = 0
  <1> DEFINE meta == sdm.meta_read_key % 16
  <1>1. Held(sdm)[1] = bit(sdm.uid_mirror /\ meta = 14, 1) /\ Held(sdm)[3] = bit(meta <= 4, 1)
    BY DEF Held
  <1> HIDE DEF meta
  <1>2. meta <= 4 => meta # 14
    OBVIOUS
  <1> QED BY ONLY <1>1, <1>2 DEF bit

\* settings that can be built
Fitting(sdm) ==
  /\ sdm.counter_ret_key \in Nat /\ sdm.meta_read_key \in Nat /\ sdm.file_read_key \in Nat
  /\ \A f \in Offsets : sdm.offset[f] \in Nat /\ sdm.offset[f] < U24

\* the settings of an enabled file: mode and access rights, options, keys, offsets
EnabledOut(x1, x2, x3, sdm) ==
  <<x1, x2, x3>> \o <<sdm_options(sdm)>>
  \o <<240 + (sdm.counter_ret_key % 16),
       (sdm.meta_read_key % 16) * 16 + (sdm.file_read_key % 16)>>
  \o OffsetBytes(Fields(sdm), sdm.offset)

\* what the card reads of them
IsReadBack(out, x1, x2, x3, sdm) ==
  /\ Len(out) <= 27 /\ out[1] = x1 /\ out[2] = x2 /\ out[3] = x3
  /\ CardReads(out).len = Len(out)
  /\ \A f \in DOMAIN CardReads(out).offset : CardReads(out).offset[f] = sdm.offset[f]

\* the card reads the settings of an enabled file as they were meant
LEMMA EnabledReadBack ==
  ASSUME NEW x1 \in Nat, NEW x2 \in Nat, NEW x3 \in Nat, NEW sdm, Fitting(sdm),
         NEW out, out = EnabledOut(x1, x2, x3, sdm)
  PROVE  IsReadBack(out, x1, x2, x3, sdm)
  <1> DEFINE x4 == sdm_options(sdm)  x5 == 240 + (sdm.counter_ret_key % 16)
             x6 == (sdm.meta_read_key % 16) * 16 + (sdm.file_read_key % 16)
             names == Fields(sdm)  offset == sdm.offset  b == Held(sdm)
             tail == OffsetBytes(names, offset)
             s == <<x1, x2, x3>> \o <<x4>> \o <<x5, x6>>
  <1>1. x4 \in Nat
    BY OptionsAre
  <1>2. x5 \in Nat /\ x6 \in Nat
    <2> DEFINE c == sdm.counter_ret_key  m == sdm.meta_read_key  f == sdm.file_read_key
    <2>1. c \in Nat /\ m \in Nat /\ f \in Nat
      BY DEF Fitting
    <2> HIDE DEF c, m, f
    <2>2. 240 + (c % 16) \in Nat /\ (m % 16) * 16 + (f % 16) \in Nat
      BY ONLY <2>1, SMT
    <2> QED BY ONLY <2>2 DEF c, m, f
  <1>3. Lists(names, b) /\ \A k \in 1..8 : b[k] \in {0, 1}
    BY FieldsAre
  <1>4. out = s \o tail
    BY DEF EnabledOut
  <1>5. names \in Seq(Offsets)
    BY <1>3 DEF Lists
  <1>6. tail = OffsetBytes(names, offset)
    OBVIOUS
  <1>7. \A f \in Offsets : offset[f] \in Nat /\ offset[f] < U24
    BY DEF Fitting
  <1>8. s = <<x1, x2, x3>> \o <<x4>> \o <<x5, x6>> /\ x1 \in Nat /\ x2 \in Nat /\ x3 \in Nat
    OBVIOUS
  <1>0. x6 = (sdm.meta_read_key % 16) * 16 + (sdm.file_read_key % 16) /\ x4 = sdm_options(sdm)
    OBVIOUS
  <1> HIDE DEF x4, x5, x6, names, offset, tail, s, b
  <1>a. /\ s \in Seq(Nat) /\ Len(s) = 6
        /\ s[1] = x1 /\ s[2] = x2 /\ s[3] = x3 /\ s[4] = x4 /\ s[5] = x5 /\ s[6] = x6
    BY ONLY <1>1, <1>2, <1>8, HeadIs
  <1>b. /\ Len(out) = 6 + 3 * Len(names)
        /\ \A i \in 1..6 : out[i] = s[i]
        /\ \A n \in 0..(Len(names) - 1) : u24(out, 7 + 3 * n) = offset[names[n + 1]]
    <2>1. Given(s, names, offset)
      BY ONLY <1>5, <1>7, <1>a DEF Given
    <2>2. LaidOut(s, names, offset, s \o OffsetBytes(names, offset))
      BY ONLY <2>1, SettingsAre
    <2> QED BY ONLY <1>4, <1>6, <2>2 DEF LaidOut
  <1>9. /\ Len(out) = 6 + 3 * Len(names)
        /\ out[1] = x1 /\ out[2] = x2 /\ out[3] = x3 /\ out[4] = x4 /\ out[5] = x5 /\ out[6] = x6
        /\ \A n \in 0..(Len(names) - 1) : u24(out, 7 + 3 * n) = offset[names[n + 1]]
    BY ONLY <1>a, <1>b
  <1>10. /\ DOMAIN CardExpects(out) = 1..8
         /\ \A k \in 1..8 : /\ CardExpects(out)[k][1] = Order[k]
                            /\ CardExpects(out)[k][2] <=> b[k] = 1
    <2>1. /\ out[4] = sdm_options(sdm)
          /\ out[6] = (sdm.meta_read_key % 16) * 16 + (sdm.file_read_key % 16)
      BY ONLY <1>0, <1>9, Zenon
    <2>2. sdm.meta_read_key \in Nat /\ sdm.file_read_key \in Nat
      BY DEF Fitting
    <2> QED BY ONLY <2>1, <2>2, CardExpectsHeld DEF b
  <1>11. /\ CardReads(out).len = 6 + 3 * Count(b, 8)
         /\ \A f \in DOMAIN CardReads(out).offset :
               \E k \in 1..8 : /\ b[k] = 1 /\ f = Order[k]
                               /\ CardReads(out).offset[f] = u24(out, 7 + 3 * Count(b, k - 1))
    BY ONLY <1>10, CardReadsAt
  <1>12. Len(names) = Count(b, 8) /\ Count(b, 8) \in 0..7
    <2>1. Count(b, 8) = b[1] + b[2] + b[3] + b[4] + b[5] + b[6] + b[7] + b[8]
      BY <1>3, CountsAre
    <2>2. Len(names) = b[1] + b[2] + b[3] + b[4] + b[5] + b[6] + b[7] + b[8]
      BY <1>3 DEF Lists
    <2>3. /\ b[1] \in {0, 1} /\ b[2] \in {0, 1} /\ b[3] \in {0, 1} /\ b[4] \in {0, 1}
          /\ b[5] \in {0, 1} /\ b[6] \in {0, 1} /\ b[7] \in {0, 1} /\ b[8] \in {0, 1}
      BY ONLY <1>3
    <2>4. b[3] = 1 => b[1] = 0
      BY HeldApart DEF b
    <2> QED BY ONLY <2>1, <2>2, <2>3, <2>4
  <1>13. ASSUME NEW f \in DOMAIN CardReads(out).offset
         PROVE  CardReads(out).offset[f] = offset[f]
    <2>1. PICK k \in 1..8 : /\ b[k] = 1 /\ f = Order[k]
                            /\ CardReads(out).offset[f] = u24(out, 7 + 3 * Count(b, k - 1))
      BY <1>11
    <2>2. /\ Count(b, k - 1) \in 0..(Len(names) - 1)
          /\ names[Count(b, k - 1) + 1] = Order[k]
      <3>1. k \in 1..8 /\ b[k] = 1
        BY ONLY <2>1
      <3> QED BY ONLY <1>3, <3>1, ListedAt
    <2> DEFINE n == Count(b, k - 1)
    <2>3. /\ n \in 0..(Len(names) - 1) /\ names[n + 1] = f
          /\ CardReads(out).offset[f] = u24(out, 7 + 3 * n)
      BY <2>1, <2>2
    <2> HIDE DEF n
    <2> QED BY ONLY <1>9, <2>3
  <1>14. CardReads(out).len = Len(out) /\ Len(out) <= 27
    <2>1. Len(out) = 6 + 3 * Count(b, 8)
      BY ONLY <1>9, <1>12
    <2> DEFINE n == Count(b, 8)
    <2>2. n \in 0..7 /\ Len(out) = 6 + 3 * n /\ CardReads(out).len = 6 + 3 * n
      BY ONLY <1>11, <1>12, <2>1
    <2> HIDE DEF n
    <2> QED BY ONLY <2>2
  <1> QED BY ONLY <1>9, <1>13, <1>14 DEF offset, IsReadBack

\* what the settings are asked for with: rights of four bits, offsets that are numbers, and
\* a buffer with room for the shortest settings
Asked(access, sdm, cap) ==
  /\ access \in AccessRights /\ cap \in Nat /\ cap >= 3
  /\ sdm.counter_ret_key \in Nat /\ sdm.meta_read_key \in Nat /\ sdm.file_read_key \in Nat
  /\ \A f \in Offsets : sdm.offset[f] \in Nat

\* settings are built exactly if they fit, and hold what they were asked for
IsBuilt(r, comm, access, sdm, cap) ==
  /\ r.rc = "OK" <=> /\ \A f \in Offsets : sdm.offset[f] < U24
                     /\ sdm.enabled => cap >= 27
  /\ r.rc = "OK" =>
       /\ Len(r.out) <= cap
       /\ r.out[1] = comm_to_file(comm) + bit(sdm.enabled, 64)
       /\ nxpsc_unpack_access(r.out[2] + 256 * r.out[3]) = access
       /\ sdm.enabled =>
             /\ CardReads(r.out).len = Len(r.out)
             /\ \A f \in DOMAIN CardReads(r.out).offset :
                   CardReads(r.out).offset[f] = sdm.offset[f]
       /\ ~sdm.enabled => Len(r.out) = 3

\* nxpsc_sdm_build_settings() builds settings exactly if they fit, and the card reads back
\* from them the rights, the mode and every offset that was given
LEMMA SettingsAreRead ==
  ASSUME NEW comm, NEW access, NEW sdm, NEW cap, Asked(access, sdm, cap)
  PROVE  IsBuilt(nxpsc_sdm_build_settings(comm, access, sdm, cap), comm, access, sdm, cap)
  <1> DEFINE r == nxpsc_sdm_build_settings(comm, access, sdm, cap)
  <1>0. /\ access \in AccessRights /\ cap \in Nat /\ cap >= 3
        /\ sdm.counter_ret_key \in Nat /\ sdm.meta_read_key \in Nat /\ sdm.file_read_key \in Nat
        /\ \A f \in Offsets : sdm.offset[f] \in Nat
    BY DEF Asked
  <1> DEFINE raw == nxpsc_pack_access(access)
             x1 == comm_to_file(comm) + bit(sdm.enabled, 64)  x2 == raw % 256  x3 == raw \div 256
             head == <<x1, x2, x3>>
             full == EnabledOut(x1, x2, x3, sdm)
             Fits == (\A f \in Offsets : sdm.offset[f] < U24) /\ (sdm.enabled => cap >= 27)
             Refused == (\E f \in Offsets : sdm.offset[f] >= U24) \/ cap < Room(sdm)
  <1>1. /\ Refused => r = [rc |-> "LENGTH", out |-> << >>]
        /\ ~Refused => r = [rc |-> "OK", out |-> IF sdm.enabled THEN full ELSE head]
    BY Zenon DEF nxpsc_sdm_build_settings, OffsetBytes, EnabledOut
  <1> HIDE DEF r
  <1>2. Refused <=> ~Fits
    <2>1. U24 \in Nat
      BY SMT DEF U24
    <2>2. (\E f \in Offsets : sdm.offset[f] >= U24) <=> ~(\A f \in Offsets : sdm.offset[f] < U24)
      BY <1>0, <2>1
    <2>3. cap < Room(sdm) <=> ~(sdm.enabled => cap >= 27)
      <3>1. CASE sdm.enabled
        <4>1. Room(sdm) = 27
          BY <3>1, SMT DEF Room
        <4> QED BY <1>0, <3>1, <4>1
      <3>2. CASE ~sdm.enabled
        <4>1. Room(sdm) = 3
          BY <3>2, Zenon DEF Room
        <4> QED BY <1>0, <3>2, <4>1
      <3> QED BY <3>1, <3>2
    <2> QED BY ONLY <2>2, <2>3
  <1>3. x1 \in Nat /\ x2 \in Nat /\ x3 \in Nat /\ nxpsc_unpack_access(x2 + 256 * x3) = access
    <2>1. x2 \in Nat /\ x3 \in Nat /\ nxpsc_unpack_access(x2 + 256 * x3) = access
      BY ONLY <1>0, AccessBack
    <2>2. comm_to_file(comm) \in Nat
      BY DEF comm_to_file
    <2>3. bit(sdm.enabled, 64) \in Nat
      BY DEF bit
    <2> QED BY ONLY <2>1, <2>2, <2>3
  <1>4. ASSUME Fits
        PROVE  IsReadBack(full, x1, x2, x3, sdm)
    <2>1. Fitting(sdm)
      BY <1>0, <1>4 DEF Fitting
    <2>2. x1 \in Nat /\ x2 \in Nat /\ x3 \in Nat
      BY ONLY <1>3
    <2> HIDE DEF x1, x2, x3, full
    <2>3. \A out : out = EnabledOut(x1, x2, x3, sdm) => IsReadBack(out, x1, x2, x3, sdm)
      BY ONLY <2>1, <2>2, EnabledReadBack
    <2> QED BY ONLY <2>3 DEF full
  <1>5. Len(head) = 3 /\ head[1] = x1 /\ head[2] = x2 /\ head[3] = x3
    OBVIOUS
  <1>6. r.rc = "OK" <=> Fits
    <2> HIDE DEF full, head, Fits, Refused
    <2> QED BY <1>1, <1>2
  <1>7. ASSUME r.rc = "OK"
        PROVE  /\ Len(r.out) <= cap /\ r.out[1] = x1 /\ r.out[2] = x2 /\ r.out[3] = x3
               /\ sdm.enabled =>
                    /\ CardReads(r.out).len = Len(r.out)
                    /\ \A f \in DOMAIN CardReads(r.out).offset :
                          CardReads(r.out).offset[f] = sdm.offset[f]
               /\ ~sdm.enabled => Len(r.out) = 3
    <2>1. Fits /\ ~Refused
      BY ONLY <1>2, <1>6, <1>7
    <2>2. r = [rc |-> "OK", out |-> IF sdm.enabled THEN full ELSE head]
      BY ONLY <1>1, <2>1
    <2>3. sdm.enabled => cap >= 27
      BY ONLY <2>1 DEF Fits
    <2> HIDE DEF full, head, x1, x2, x3, Fits, Refused
    <2>4. CASE sdm.enabled
      <3>1. r.out = full
        BY ONLY <2>2, <2>4
      <3>2. IsReadBack(full, x1, x2, x3, sdm)
        BY ONLY <1>4, <2>1
      <3>3. Len(full) <= 27 => Len(full) <= cap
        <4> DEFINE n == Len(full)
        <4>1. cap >= 27 /\ cap \in Nat
          BY <1>0, <2>3, <2>4
        <4> QED BY ONLY <4>1
      <3> QED BY ONLY <2>4, <3>1, <3>2, <3>3 DEF IsReadBack
    <2>5. CASE ~sdm.enabled
      <3>1. r.out = head
        BY ONLY <2>2, <2>5
      <3> QED BY <1>0, <1>5, <2>5, <3>1
    <2> QED BY ONLY <2>4, <2>5
  <1> HIDE DEF x2, x3
  <1> QED BY ONLY <1>3, <1>6, <1>7 DEF IsBuilt, Fits, x1, r
=============================================================================
