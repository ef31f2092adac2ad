---------------------------- MODULE SdmSettings ----------------------------
(***************************************************************************)
(* nxpsc_sdm_build_settings(): the settings of a file with secure dynamic  *)
(* messaging.  Which offsets the settings hold, and so where each of them  *)
(* lies, depends on the access rights and the options before them; the     *)
(* card reads them by the same rules.                                      *)
(***************************************************************************)
EXTENDS Codec

CommModes == {"plain", "mac", "full"}

\* comm_to_file(), and the switch at the head of nxpsc_sdm_build_settings()
comm_to_file(comm) == CASE comm = "mac" -> 1 [] comm = "full" -> 3 [] OTHER -> 0

nxpsc_pack_access(access) ==
    (access.read % 16) * 4096 + (access.write % 16) * 256
    + (access.read_write % 16) * 16 + (access.change % 16)

nxpsc_unpack_access(raw) ==
    [read |-> raw \div 4096, write |-> (raw \div 256) % 16,
     read_write |-> (raw \div 16) % 16, change |-> raw % 16]

\* the offsets, in the order of the structure
Offsets == {"uid", "counter", "picc_data", "mac_input", "enc", "enc_length", "mac", "limit"}

bit(set, value) == IF set THEN value ELSE 0

\* SDM_OPT_UID, SDM_OPT_READ_CTR, SDM_OPT_READ_CTR_LIMIT, SDM_OPT_ENC_FILE_DATA and
\* SDM_OPT_ASCII, which is always set
sdm_options(sdm) ==
    bit(sdm.uid_mirror, 128) + bit(sdm.counter_mirror, 64)
    + bit(sdm.read_counter_limit, 32) + bit(sdm.enc_file_data, 16) + 1

\* mutant of Fields: the counter offset is written whenever the counter is mirrored
Fields_counter(sdm) ==
    LET meta_read == sdm.meta_read_key % 16
        file_read == sdm.file_read_key % 16
        On(condition, names) == IF condition THEN names ELSE << >>
    IN  On(sdm.uid_mirror /\ meta_read = 14, <<"uid">>)
        \o On(sdm.counter_mirror, <<"counter">>)
        \o On(meta_read <= 4, <<"picc_data">>)
        \o On(file_read # 15,
              <<"mac_input">> \o On(sdm.enc_file_data, <<"enc", "enc_length">>) \o <<"mac">>)
        \o On(sdm.read_counter_limit, <<"limit">>)

\* the offsets the settings hold, in their order
Fields(sdm) ==
    LET meta_read == sdm.meta_read_key % 16
        file_read == sdm.file_read_key % 16
        On(condition, names) == IF condition THEN names ELSE << >>
    IN  On(sdm.uid_mirror /\ meta_read = 14, <<"uid">>)
        \o On(sdm.counter_mirror /\ meta_read = 14, <<"counter">>)
        \o On(meta_read <= 4, <<"picc_data">>)
        \o On(file_read # 15,
              <<"mac_input">> \o On(sdm.enc_file_data, <<"enc", "enc_length">>) \o <<"mac">>)
        \o On(sdm.read_counter_limit, <<"limit">>)

\* what the caller's buffer has to hold, whichever offsets are written
Room(sdm) == IF sdm.enabled THEN 6 + 7 * 3 ELSE 3

nxpsc_sdm_build_settings(comm, access, sdm, cap) ==
    LET raw  == nxpsc_pack_access(access)
        head == <<comm_to_file(comm) + bit(sdm.enabled, 64), raw % 256, raw \div 256>>
        keys == <<240 + (sdm.counter_ret_key % 16),
                  (sdm.meta_read_key % 16) * 16 + (sdm.file_read_key % 16)>>
        names == Fields(sdm)
        offsets == [i \in 1..(3 * Len(names)) |->
                      put_u24(sdm.offset[names[(i + 2) \div 3]])[((i - 1) % 3) + 1]]
    IN  IF (\E f \in Offsets : sdm.offset[f] >= U24) \/ cap < Room(sdm)
        THEN [rc |-> "LENGTH", out |-> << >>]
        ELSE [rc |-> "OK",
              out |-> IF sdm.enabled THEN head \o <<sdm_options(sdm)>> \o keys \o offsets
                      ELSE head]

-----------------------------------------------------------------------------
(***************************************************************************)
(* The card (external) takes the settings apart again, with the conditions *)
(* of docs/ntag424.md on what it has read so far.                          *)
(***************************************************************************)
u24(out, i) == out[i] + 256 * out[i + 1] + 65536 * out[i + 2]

\* the conditions in the order the card meets them, each with its offset
CardExpects(out) ==
    LET options == out[4]
        meta    == out[6] \div 16
        file    == out[6] % 16
        Has(value) == (options \div value) % 2 = 1
    IN  << <<"uid", Has(128) /\ meta = 14>>,
           <<"counter", Has(64) /\ meta = 14>>,
           <<"picc_data", meta \in 0..4>>,
           <<"mac_input", file # 15>>,
           <<"enc", file # 15 /\ Has(16)>>,
           <<"enc_length", file # 15 /\ Has(16)>>,
           <<"mac", file # 15>>,
           <<"limit", Has(32)>> >>

\* each offset the card expects, read from behind the ones before it, and the
\* length of the settings it has read
CardReads(out) ==
    LET expects   == CardExpects(out)
        Before(k) == Cardinality({j \in 1..(k - 1) : expects[j][2]})
        present   == {k \in DOMAIN expects : expects[k][2]}
    IN  [offset |-> [f \in {expects[k][1] : k \in present} |->
                        u24(out, 7 + 3 * Before(CHOOSE k \in present : expects[k][1] = f))],
         len |-> 6 + 3 * Cardinality(present)]
=============================================================================
