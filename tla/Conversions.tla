---------------------------- MODULE Conversions ----------------------------
(***************************************************************************)
(* The algorithms of Codec and SdmSettings, each applied to every one of a *)
(* set of small inputs and compared with what it promises.  A behaviour is *)
(* one call: the input is chosen, the algorithm runs once, and the         *)
(* properties relate what it returned to what it was given.                *)
(***************************************************************************)
EXTENDS SdmSettings

CONSTANTS
    Bytes,      \* the bytes payloads are made of; 0 and 0x80 look like padding
    MaxPayload  \* their greatest length

ASSUME PayloadsAssumption == MaxPayload \in Nat /\ \A b \in Bytes : b \in Nat /\ b < 256

VARIABLES
    input,      \* the algorithm and its arguments
    output      \* what it returned, in a sequence that is empty until then

vars == <<input, output>>

-----------------------------------------------------------------------------
(***************************************************************************)
(* The inputs.                                                             *)
(***************************************************************************)
Payloads == SeqOf(Bytes, MaxPayload)
Messages == Payloads \ {<< >>}

\* payloads that end in the CRC of what precedes it, or in half of it, and others
CrcPayloads ==
    UNION {{p, p \o nxpsc_crc16(p), Append(p, nxpsc_crc16(p)[1])} : p \in Messages}

\* what the cipher gives back of an enciphered legacy answer: the payload and its
\* CRC, filled up with zeros or with 0x80 and zeros, and the same with a wrong byte
CrcFrame(p, mark) == ZeroPadded(p \o nxpsc_crc16(p) \o mark)

CrcInputs ==
    {[op |-> "crc", payload |-> p, frame |-> CrcFrame(p, mark)] :
        p \in CrcPayloads, mark \in {<< >>, <<128>>}}
    \cup UNION {{[op |-> "crc", payload |-> << >>,
                  frame |-> [CrcFrame(p, << >>) EXCEPT ![i] = (@ + 1) % 256]] :
                    i \in DOMAIN CrcFrame(p, << >>)} : p \in Messages}

PaddingInputs == {[op |-> "padding", payload |-> p] : p \in SeqOf(Bytes, Bs + 1)}

\* min_len is 0 for a MAC and two blocks for a diversified key
CmacInputs ==
    {[op |-> "cmac", one |-> p, other |-> q, min_len |-> n] :
        p \in SeqOf({0, 128}, 2 * Bs), q \in SeqOf({0, 128}, Bs), n \in {0, 2 * Bs}}

\* a message in two parts under one running IV; on a legacy session the reader
\* deciphers what it sends, so both directions of the cipher are used for sending
CbcInputs ==
    {[op |-> "cbc", first |-> p, second |-> q, iv |-> iv, encode |-> encode] :
        p \in SeqOf(Blocks, 2) \ {<< >>}, q \in SeqOf(Blocks, 2) \ {<< >>},
        iv \in Blocks, encode \in BOOLEAN}

CounterInputs ==
    {[op |-> "counter", bytes |-> b, len |-> n] :
        b \in [1..2 -> {0, 9, 15, 159, 240, 249, 255}], n \in 1..4}

\* keys of one, two and three parts
KeyInputs ==
    {[op |-> "version", key |-> [k \in 1..(8 * parts) |-> (k * m) % 256], version |-> v] :
        parts \in 1..3, m \in {0, 37, 255}, v \in {0, 1, 128, 199, 255}}

\* every offset differs from the others in each of its bytes; one may not fit
OffsetsGiven(uid) ==
    [f \in Offsets |->
        CASE f = "uid" -> uid [] f = "counter" -> 131329 [] f = "picc_data" -> 197122
          [] f = "mac_input" -> 262915 [] f = "enc" -> 328708 [] f = "enc_length" -> 394501
          [] f = "mac" -> 460294 [] OTHER -> 526087]

Settings ==
    [enabled : BOOLEAN, uid_mirror : BOOLEAN, counter_mirror : BOOLEAN,
     read_counter_limit : BOOLEAN, enc_file_data : BOOLEAN,
     meta_read_key : {0, 4, 14, 15}, file_read_key : {0, 14, 15}, counter_ret_key : {2, 15},
     offset : {OffsetsGiven(uid) : uid \in {65536, U24}}]

SettingsInputs ==
    {[op |-> "settings", comm |-> comm, access |-> a, sdm |-> s, cap |-> cap] :
        comm \in {"mac", "full"}, s \in Settings, cap \in {3, 26, 27},
        a \in {[read |-> 14, write |-> 0, read_write |-> 3, change |-> 15]}}

\* two writes to a record file and a buffer that may be too small for the first
Writes ==
    [file_no : {1}, offset : {0, 65536, U24},
     data : SeqOf({0, 1}, 2) \cup {Zeros(n) : n \in {15, 16, 17}}]

TmiInputs ==
    {[op |-> "tmi", one |-> v, other |-> w, cap |-> cap] :
        v \in Writes, w \in Writes, cap \in {31, 32, 48}}

Inputs == CrcInputs \cup PaddingInputs \cup CmacInputs \cup CbcInputs
          \cup CounterInputs \cup KeyInputs \cup SettingsInputs \cup TmiInputs

-----------------------------------------------------------------------------
(***************************************************************************)
(* One call of an algorithm.                                               *)
(***************************************************************************)
Called(op) == input.op = op /\ output = << >> /\ UNCHANGED input

SearchCrc ==
    /\ Called("crc")
    /\ output' = <<search_crc_pos(input.frame)>>

Unpad ==
    /\ Called("padding")
    /\ output' = <<iso9797_m2_len(Padded(input.payload)), lrp_pure(Padded(input.payload))>>

Cmac ==
    /\ Called("cmac")
    /\ output' = <<cmac_input(input.one, input.min_len), cmac_input(input.other, input.min_len)>>

\* the reader sends both parts, the card receives them with the inverse cipher
Cbc ==
    /\ Called("cbc")
    /\ LET sent  == nxpsc_cbc_crypt_ex(input.iv, input.first, TRUE, input.encode)
           then  == nxpsc_cbc_crypt_ex(sent.iv, input.second, TRUE, input.encode)
           got   == nxpsc_cbc_crypt_ex(input.iv, sent.out, FALSE, ~input.encode)
       IN  output' = <<then.iv, got.out,
                       nxpsc_cbc_crypt_ex(got.iv, then.out, FALSE, ~input.encode)>>

Increment ==
    /\ Called("counter")
    /\ output' = <<nxpsc_lrp_inc_counter(input.bytes, input.len)>>

SetVersion ==
    /\ Called("version")
    /\ output' = <<des_key_set_version(input.key, input.version)>>

BuildSettings ==
    /\ Called("settings")
    /\ output' = <<nxpsc_sdm_build_settings(input.comm, input.access, input.sdm, input.cap)>>

WriteRecord ==
    /\ Called("tmi")
    /\ LET Tmi(w) == nxpsc_tmac_tmi_write_record(w.file_no, w.offset, w.data, input.cap)
       IN  output' = <<Tmi(input.one), Tmi(input.other)>>

Init == input \in Inputs /\ output = << >>

Next == SearchCrc \/ Unpad \/ Cmac \/ Cbc \/ Increment \/ SetVersion \/ BuildSettings
        \/ WriteRecord

Spec == Init /\ [][Next]_vars

-----------------------------------------------------------------------------
(***************************************************************************)
(* Properties.                                                             *)
(***************************************************************************)
Returned(op) == input.op = op /\ output # << >>

\* the ways to read a deciphered answer: n bytes, their CRC, and then nothing but
\* zeros, or one byte of any value and zeros
Readings(frame) ==
    {n \in 1..(Len(frame) - 2) :
        CrcAt(frame, n) /\ \A i \in (n + 4)..Len(frame) : frame[i] = 0}

\* The walk back from the end of a deciphered answer finds a payload if there is
\* one, never more than was sent, and the whole of it unless the answer can also be
\* read as a shorter one; what carries no CRC is refused (nxpsc_search_crc_pos()).
CrcFound ==
    Returned("crc") =>
        LET n        == output[1]
            readings == Readings(input.frame)
            sent     == Len(input.payload)
        IN  /\ IF readings = {} THEN n = 0
               ELSE n \in readings /\ \A m \in readings : n <= m
            /\ sent > 0 => n \in 1..sent
            /\ readings = {sent} => n = sent

\* What is padded the EV2 way, both places that unpad, the channel and the LRP decoder,
\* find the end of again whatever the payload ends in; there is at least a byte of
\* padding and at most a block (iso9797_m2_len(), nxpsc_lrp_decode()).
PaddingUndone ==
    Returned("padding") =>
        /\ output = <<Len(input.payload), Len(input.payload)>>
        /\ Len(Padded(input.payload)) - Len(input.payload) \in 1..Bs

\* Two different messages are never MACed as the same masked buffer: neither the
\* padding nor min_len lets one pass for the other.  The buffer is whole blocks, as
\* long as asked for, and fits what nxpsc_cmac() allocated for it.
MacInputsDiffer ==
    Returned("cmac") =>
        /\ input.one # input.other => output[1] # output[2]
        /\ LET made == output[1].buffer
           IN  /\ Len(made) % Bs = 0 /\ Len(made) > 0
               /\ Len(made) \in input.min_len..cmac_buflen(input.one, input.min_len)

\* A message sent in two parts is received as it was sent, in place and with either
\* direction of the cipher, and both sides are left with the same IV.
CbcUndone ==
    Returned("cbc") =>
        /\ output[2] = input.first
        /\ output[3].out = input.second
        /\ output[3].iv = output[1]

\* the number the first n nibbles stand for, for each n up to len
CounterValue(bytes, len) ==
    LET value[n \in 0..len] == IF n = 0 THEN 0 ELSE 16 * value[n - 1] + Nibble(bytes, n - 1)
    IN  value

\* The LRP counter goes up by one, from all ones to zero, and the nibbles behind it
\* stay as they are, also where the last byte is shared.
CounterSucceeds ==
    Returned("counter") =>
        /\ CounterValue(output[1], input.len)[input.len]
              = IF \A i \in 0..(input.len - 1) : Nibble(input.bytes, i) = 15 THEN 0
                ELSE CounterValue(input.bytes, input.len)[input.len] + 1
        /\ \A i \in input.len..3 : Nibble(output[1], i) = Nibble(input.bytes, i)

\* The version written into a DES key is the one read back from each of its parts,
\* and no bit of the key but the parity bits changes: a 2K3DES key of two equal
\* parts still is one.
VersionKept ==
    Returned("version") =>
        LET key == output[1]
        IN  /\ \A part \in 0..(Len(key) \div 8 - 1) :
                  des_key_get_version(SubSeq(key, 8 * part + 1, 8 * part + 8)) = input.version
            /\ \A k \in DOMAIN key : key[k] \div 2 = input.key[k] \div 2

\* Settings are built if and only if every offset fits three bytes and the buffer has
\* room for the longest.  The card, which knows where an offset lies only from what
\* precedes it, then reads back each value the caller gave for it, the rights and the
\* mode included, and reaches the end of the settings exactly (docs/ntag424.md).
SettingsReadBack ==
    Returned("settings") =>
        LET sdm == input.sdm
            out == output[1].out
        IN  /\ output[1].rc = "OK"
                  <=> /\ \A f \in Offsets : sdm.offset[f] < U24
                      /\ sdm.enabled => input.cap >= 27
            /\ output[1].rc = "OK" =>
                  /\ Len(out) <= input.cap
                  /\ out[1] = comm_to_file(input.comm) + bit(sdm.enabled, 64)
                  /\ nxpsc_unpack_access(out[2] + 256 * out[3]) = input.access
                  /\ sdm.enabled =>
                        /\ CardReads(out).len = Len(out)
                        /\ \A f \in DOMAIN CardReads(out).offset :
                              CardReads(out).offset[f] = sdm.offset[f]
                  /\ ~sdm.enabled => Len(out) = 3

\* No two writes of a record contribute the same bytes to the transaction MAC, the
\* zeros that fill up a record included, and what one contributes is always something
\* nxpsc_tmac_compute() takes; only a buffer too small for it refuses a legal write.
TmiTellsApart ==
    Returned("tmi") =>
        /\ output[1].rc = "OK" /\ output[2].rc = "OK" /\ input.one # input.other
              => output[1].tmi # output[2].tmi
        /\ output[1].rc = "OK" => TmacTakes(output[1].tmi) /\ Len(output[1].tmi) <= input.cap
        /\ input.one.offset < U24 /\ input.one.data # << >>
              => (output[1].rc = "OK"
                    <=> input.cap >= IF Len(input.one.data) <= 16 THEN 32 ELSE 48)
=============================================================================
