------------------------------- MODULE Codec -------------------------------
(***************************************************************************)
(* What the secure channel does to bytes: the checksum and the padding it  *)
(* has to find the end of again, the input of a CMAC, CBC chaining, the    *)
(* LRP counter, the key version hidden in the parity bits of a DES key and *)
(* the input of a transaction MAC (nxpsc_crypto.c, the helpers of          *)
(* nxpsc_channel.c and nxpsc_tmac_*() of nxpsc_advanced.c).                *)
(*                                                                         *)
(* Bytes are integers, byte strings sequences.  A block of the cipher is   *)
(* two bits wide and the cipher one fixed permutation: chaining does not   *)
(* look inside either.                                                     *)
(***************************************************************************)
EXTENDS Integers, SequencesExt

\* the block size, NXPSC_DES_BLOCK or NXPSC_AES_BLOCK in the code
CONSTANT Bs

ASSUME BsAssumption == Bs \in Nat \ {0}

Zeros(n) == [i \in 1..n |-> 0]

\* exclusive or, bit by bit of two nibbles and nibble by nibble of two words of 16 bits
XorNibble ==
    [a \in 0..15 |-> [b \in 0..15 |->
        LET Odd(weight) == ((a \div weight) + (b \div weight)) % 2
        IN  8 * Odd(8) + 4 * Odd(4) + 2 * Odd(2) + Odd(1)]]

Xor(a, b) ==
    LET At(weight) == weight * XorNibble[(a \div weight) % 16][(b \div weight) % 16]
    IN  At(4096) + At(256) + At(16) + At(1)

\* integers of three bytes, the least significant first
U24 == 16777216

put_u24(value) == <<value % 256, (value \div 256) % 256, (value \div 65536) % 256>>

nxpsc_padded_len(len) == ((len + Bs - 1) \div Bs) * Bs

\* the bytes followed by as many zeros as complete the last block
ZeroPadded(data) == data \o Zeros(nxpsc_padded_len(Len(data)) - Len(data))

-----------------------------------------------------------------------------
(***************************************************************************)
(* The CRC16 of a legacy session, and looking for it in a deciphered       *)
(* answer whose length nobody tells.                                       *)
(***************************************************************************)
CrcStep(c, byte) ==
    LET x == Xor(byte, c % 256)
        b == Xor(x, (x * 16) % 256)
    IN  Xor(Xor(Xor(c \div 256, b * 256), b * 8), b \div 16)

\* the register after each number of bytes, starting from 0x6363
CrcRegister(data) ==
    LET c[n \in 0..Len(data)] == IF n = 0 THEN 25443 ELSE CrcStep(c[n - 1], data[n])
    IN  c

\* in the order the two bytes are sent
nxpsc_crc16(data) ==
    LET c == CrcRegister(data)[Len(data)]
    IN  <<c % 256, c \div 256>>

\* the first n bytes are followed by their CRC
CrcAt(data, n) ==
    n + 2 <= Len(data) /\ SubSeq(data, n + 1, n + 2) = nxpsc_crc16(SubSeq(data, 1, n))

\* the length up to the last byte that is not zero, at least one
Stripped(data) == Max({1} \cup {i \in DOMAIN data : data[i] # 0})

\* mutant of search_crc_pos: the first match is taken, not the last
search_crc_pos_first(data) ==
    LET pos   == Stripped(data)
        found == {n \in 1..pos : pos - n <= 3 /\ CrcAt(data, n)}
    IN  IF Len(data) < 2 \/ pos < 2 \/ found = {} THEN 0 ELSE Max(found)

\* walks back from the last byte that is not zero over crc_len + 2 positions; the
\* last match it meets wins, and 0 says there is none
search_crc_pos(data) ==
    LET pos   == Stripped(data)
        found == {n \in 1..pos : pos - n <= 3 /\ CrcAt(data, n)}
    IN  IF Len(data) < 2 \/ pos < 2 \/ found = {} THEN 0 ELSE Min(found)

-----------------------------------------------------------------------------
(***************************************************************************)
(* Padding method 2 of ISO 9797: a byte 0x80, then zeros.                  *)
(***************************************************************************)
\* encode_ev2() and nxpsc_lrp_encode() with bit_padding
Padded(data) == ZeroPadded(Append(data, 128))

\* mutant of iso9797_m2_len: the 0x80 nearest to the start
iso9797_m2_len_first(data) ==
    LET marks == {i \in DOMAIN data : data[i] = 128}
    IN  IF marks = {} THEN 0 ELSE Min(marks) - 1

\* the position of the 0x80 that only zeros follow, 0 if there is none
iso9797_m2_len(data) ==
    LET marks == {i \in DOMAIN data :
                    data[i] = 128 /\ \A j \in (i + 1)..Len(data) : data[j] = 0}
    IN  IF marks = {} THEN 0 ELSE Min(marks) - 1

\* nxpsc_lrp_decode(), asked to unpad, looks for the same byte in the last block only,
\* and keeps everything if it is not there
lrp_pure(data) ==
    LET marks == {i \in (Len(data) - Bs + 1)..Len(data) :
                    data[i] = 128 /\ \A j \in (i + 1)..Len(data) : data[j] = 0}
    IN  IF marks = {} THEN Len(data) ELSE Min(marks) - 1

-----------------------------------------------------------------------------
(***************************************************************************)
(* nxpsc_cmac(): the buffer that is chained, and the subkey its last block *)
(* is masked with.                                                         *)
(***************************************************************************)
\* mutant of cmac_input: the padding is zeros throughout
cmac_input_zeros(data, min_len) ==
    LET len == Len(data)
    IN  IF len = 0 \/ len % Bs # 0 \/ len < min_len
        THEN LET mlen == nxpsc_padded_len(Max({len + 1, min_len}))
             IN  [buffer |-> data \o Zeros(mlen - len), subkey |-> 2]
        ELSE [buffer |-> data, subkey |-> 1]

cmac_input(data, min_len) ==
    LET len == Len(data)
    IN  IF len = 0 \/ len % Bs # 0 \/ len < min_len
        THEN LET mlen == nxpsc_padded_len(Max({len + 1, min_len}))
             IN  [buffer |-> Append(data, 128) \o Zeros(mlen - len - 1), subkey |-> 2]
        ELSE [buffer |-> data, subkey |-> 1]

\* the bytes allocated for the buffer
cmac_buflen(data, min_len) == nxpsc_padded_len(Max({Len(data), min_len}) + 1)

-----------------------------------------------------------------------------
(***************************************************************************)
(* nxpsc_cbc_crypt_ex().  in and out may be the same buffer.               *)
(***************************************************************************)
Blocks == 0..3

\* the block cipher (mbed TLS): a permutation of the blocks
Encrypt == [b \in Blocks |-> CASE b = 0 -> 2 [] b = 1 -> 0 [] b = 2 -> 3 [] OTHER -> 1]
Decrypt == Inverse(Encrypt, Blocks, Blocks)

\* what the chain does with one block, and the IV it leaves
CbcOut(civ, src, dir_to_send, encode) ==
    LET block == IF dir_to_send THEN Xor(src, civ) ELSE src
        dst   == IF encode THEN Encrypt[block] ELSE Decrypt[block]
    IN  IF dir_to_send THEN dst ELSE Xor(dst, civ)

\* mutant of CbcIv: the input block is read again after out has overwritten it
CbcIv_overwritten(civ, src, dir_to_send, encode) == CbcOut(civ, src, dir_to_send, encode)

CbcIv(civ, src, dir_to_send, encode) ==
    IF dir_to_send THEN CbcOut(civ, src, dir_to_send, encode) ELSE src

\* the IV after each number of blocks
CbcChain(iv, in, dir_to_send, encode) ==
    LET civ[n \in 0..Len(in)] ==
            IF n = 0 THEN iv ELSE CbcIv(civ[n - 1], in[n], dir_to_send, encode)
    IN  civ

nxpsc_cbc_crypt_ex(iv, in, dir_to_send, encode) ==
    LET civ == CbcChain(iv, in, dir_to_send, encode)
    IN  [iv  |-> civ[Len(in)],
         out |-> [n \in 1..Len(in) |-> CbcOut(civ[n - 1], in[n], dir_to_send, encode)]]

-----------------------------------------------------------------------------
(***************************************************************************)
(* nxpsc_lrp_inc_counter(): a counter of len nibbles, the most significant *)
(* first, two to a byte.                                                   *)
(***************************************************************************)
\* nibble i of a byte string, from 0
Nibble(bytes, i) ==
    IF i % 2 = 1 THEN bytes[i \div 2 + 1] % 16 ELSE bytes[i \div 2 + 1] \div 16

\* mutant of WithNibble: the other half of the byte is lost
WithNibble_alone(bytes, i, nibble) ==
    [bytes EXCEPT ![i \div 2 + 1] = IF i % 2 = 1 THEN nibble ELSE nibble * 16]

WithNibble(bytes, i, nibble) ==
    [bytes EXCEPT ![i \div 2 + 1] =
        IF i % 2 = 1 THEN (@ \div 16) * 16 + nibble ELSE nibble * 16 + (@ % 16)]

\* the bytes after each number of nibbles, from the last one, and the carry they leave:
\* the loop ends where there is none
CounterSteps(counter, len) ==
    LET after[k \in 0..len] ==
            IF k = 0 THEN [bytes |-> counter, carry |-> 1]
            ELSE LET s      == after[k - 1]
                     nibble == Nibble(s.bytes, len - k) + 1
                 IN  IF s.carry = 0 THEN s
                     ELSE [bytes |-> WithNibble(s.bytes, len - k, nibble % 16),
                           carry |-> nibble \div 16]
    IN  after

nxpsc_lrp_inc_counter(counter, len) == CounterSteps(counter, len)[len].bytes

-----------------------------------------------------------------------------
(***************************************************************************)
(* The version of a DES key: one bit in the parity bit of each byte.       *)
(***************************************************************************)
\* bit n of the version, the most significant first
Weight == <<128, 64, 32, 16, 8, 4, 2, 1>>
VersionBit(version, n) == (version \div Weight[n + 1]) % 2

\* mutant of des_key_set_version: the first part of a longer key only
des_key_set_version_single(key, version) ==
    [k \in DOMAIN key |->
        IF k <= 8 THEN ((key[k] \div 2) * 2) + VersionBit(version, (k - 1) % 8) ELSE key[k]]

des_key_set_version(key, version) ==
    [k \in DOMAIN key |-> ((key[k] \div 2) * 2) + VersionBit(version, (k - 1) % 8)]

des_key_get_version(key) ==
    LET Bit(k) == (key[k] % 2) * Weight[k]
    IN  Bit(1) + Bit(2) + Bit(3) + Bit(4) + Bit(5) + Bit(6) + Bit(7) + Bit(8)

-----------------------------------------------------------------------------
(***************************************************************************)
(* The transaction MAC input one WriteRecord contributes.                  *)
(***************************************************************************)
TmiBlock == 16

\* mutant of tmi_header: the length of the record is left out
tmi_header_short(file_no, offset, data) ==
    <<59, file_no>> \o put_u24(offset) \o Zeros(11)

\* DF_WRITE_RECORD and its parameters, filled up to a block
tmi_header(file_no, offset, data) ==
    <<59, file_no>> \o put_u24(offset) \o put_u24(Len(data)) \o Zeros(8)

nxpsc_tmac_tmi_write_record(file_no, offset, data, cap) ==
    LET padded == ((Len(data) + TmiBlock - 1) \div TmiBlock) * TmiBlock
    IN  IF offset >= U24 \/ Len(data) = 0 \/ Len(data) >= U24 THEN [rc |-> "PARAM", tmi |-> << >>]
        ELSE IF cap < TmiBlock + padded THEN [rc |-> "LENGTH", tmi |-> << >>]
        ELSE [rc |-> "OK",
              tmi |-> tmi_header(file_no, offset, data) \o data
                      \o Zeros(padded - Len(data))]

\* nxpsc_tmac_compute() takes whole blocks only
TmacTakes(tmi) == Len(tmi) > 0 /\ Len(tmi) % TmiBlock = 0
=============================================================================
