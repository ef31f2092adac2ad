---------------------------- MODULE WireFormat ----------------------------
(***************************************************************************)
(* What one secured request and one secured answer look like on the wire,  *)
(* per channel: the pure part of nxpsc_channel.c.                          *)
(*                                                                         *)
(* Cryptography is symbolic.  A MAC or a cryptogram is the session that    *)
(* sealed it, and it verifies when the verifying side holds the same       *)
(* session key, transaction identifier, counter and, where the channel     *)
(* chains one, initialisation vector.                                      *)
(*                                                                         *)
(* A request q has the command q.cmd, the opcode q.op that carries it, the *)
(* payload length q.len in bytes and the modes q.tx and q.rx that          *)
(* nxpsc_exchange() is called with.  A session s has the fields chan, kt   *)
(* (the type of the key it was opened with), key, ti, ctr, iv and key_no.  *)
(* iv is the sequence of what was run through the chained IV since it was  *)
(* last zero: nothing on D40 and EV2, "block" for each enciphered message  *)
(* on LRP, and on EV1 "cmd" for a command, "ans" for an answer with a MAC, *)
(* "cipher" for an enciphered answer where the card chains it, and "stray" *)
(* for an answer without a MAC in which decode_ev1() looked for one.       *)
(***************************************************************************)
EXTENDS Integers, Sequences

Chans == {"D40", "EV1", "EV2", "LRP"}
Modes == {"plain", "mac", "enc", "enc_plain"}
key_types == {"DES", "2K3DES", "3K3DES", "AES128", "AES256"}
IvItems == {"cmd", "ans", "block", "cipher", "stray"}

\* nxpsc_mac_length(): 0 without a session
mac_length(ch) == CASE ch = "D40" -> 4
                    [] ch \in {"EV1", "EV2", "LRP"} -> 8
                    [] OTHER -> 0

\* nxpsc_padded_len()
padded_len(len, block) ==
    ((len \div block) + (IF len % block = 0 THEN 0 ELSE 1)) * block

\* block_len(), by the type of the session's key
block_len(kt) == IF kt \in {"AES128", "AES256"} THEN 16 ELSE 8

\* the block enciphered payloads are padded to: EV2 and LRP name NXPSC_AES_BLOCK
cipher_block(s) == IF s.chan \in {"EV2", "LRP"} THEN 16 ELSE block_len(s.kt)

\* cmd_header_len(): the leading bytes that stay in the clear.  The ISO chained
\* opcodes (ReadData2 and so on) have no entry and fall through to 0.
cmd_header_len(op, len) ==
    CASE op \in {"CreateApplication", "DeleteApplication"} -> len
      [] op \in {"ReadData", "WriteData", "ReadRecords", "WriteRecord"} -> 7
      [] op \in {"ChangeKey", "SetConfiguration", "GetFileSettings",
                 "ChangeFileSettings", "GetValue", "Credit", "Debit",
                 "LimitedCredit"} -> 1
      [] op = "ChangeKeyEV2" -> 2
      [] op = "CreateTransMacFile" -> 5
      [] op = "UpdateRecord" -> 10
      [] OTHER -> 0

\* there is payload beyond the header; its negation is last_request_zero_len
HasData(op, len) == len > cmd_header_len(op, len)

tx_mac_cmds == {"WriteData", "Credit", "Debit", "LimitedCredit", "WriteRecord",
                "UpdateRecord", "CommitReaderID", "InitializeKeySet",
                "RollKeySet", "FinalizeKeySet"}

transmits_mac(ch, op) == ch \in {"D40", "EV1"} => op \in tx_mac_cmds

rx_mac_cmds == {"ReadData", "ReadRecords", "GetValue"}

\* mutant of receives_mac: D40 answers all MACed
receives_mac_always(ch, op) == TRUE

receives_mac(ch, op) == ch = "D40" => op \in rx_mac_cmds

-----------------------------------------------------------------------------
(***************************************************************************)
(* Encoding: whether the frame goes out plain, with a MAC or enciphered    *)
(* ("enc" on EV2 and LRP carries a MAC as well), how long it is, and what  *)
(* encoding does to the IV.                                                *)
(***************************************************************************)
encode_d40(q) ==
    CASE q.tx = "plain" \/ ~HasData(q.op, q.len) -> "plain"
      [] q.tx \in {"enc", "enc_plain"} /\ HasData(q.op, q.len) -> "enc"
      [] OTHER -> IF transmits_mac("D40", q.op) THEN "mac" ELSE "plain"

encode_ev1(q) ==
    CASE q.tx \in {"enc", "enc_plain"} /\ HasData(q.op, q.len) -> "enc"
      [] q.tx = "mac" /\ transmits_mac("EV1", q.op) -> "mac"
      [] OTHER -> "plain"

encode_ev2(q) ==
    CASE q.tx = "plain" -> "plain"
      [] q.tx = "mac" -> "mac"
      [] OTHER -> IF HasData(q.op, q.len) THEN "enc" ELSE "mac"

channel_encode(ch, q) ==
    CASE ch = "D40" -> encode_d40(q)
      [] ch = "EV1" -> encode_ev1(q)
      [] ch \in {"EV2", "LRP"} -> encode_ev2(q)
      [] OTHER -> "plain"

\* one more message runs through the chained IV
Chained(s, x) == [s EXCEPT !.iv = Append(@, x)]

\* mutants of Encoded: only a MACed EV1 command runs through the IV; an
\* enciphered LRP command counts no block
Encoded_maced_only(s, q) ==
    CASE s.chan = "EV1" /\ encode_ev1(q) = "mac" -> Chained(s, "cmd")
      [] s.chan = "LRP" /\ encode_ev2(q) = "enc" -> Chained(s, "block")
      [] OTHER -> s
Encoded_no_block(s, q) ==
    IF s.chan = "EV1" /\ (q.tx = "enc_plain" => HasData(q.op, q.len))
    THEN Chained(s, "cmd")
    ELSE s

\* every EV1 command runs through the IV, MACed or not; LRP counts a block
\* for each enciphered message
Encoded(s, q) ==
    CASE s.chan = "EV1" /\ (q.tx = "enc_plain" => HasData(q.op, q.len))
           -> Chained(s, "cmd")
      [] s.chan = "LRP" /\ encode_ev2(q) = "enc"
           -> Chained(s, "block")
      [] OTHER -> s

\* bytes of checksum and padding that precede the cipher
Checksum(ch, tx) ==
    IF ch \in {"EV2", "LRP"} THEN 1
    ELSE IF tx = "enc_plain" THEN 0
    ELSE IF ch = "EV1" THEN 4 ELSE 2

wrapped_len(s, q) ==
    LET hdr  == cmd_header_len(q.op, q.len)
        form == channel_encode(s.chan, q)
    IN  CASE form = "plain" -> q.len
          [] form = "mac" -> q.len + mac_length(s.chan)
          [] OTHER -> hdr + padded_len(q.len - hdr + Checksum(s.chan, q.tx), cipher_block(s))
                      + (IF s.chan \in {"EV2", "LRP"} THEN mac_length(s.chan) ELSE 0)

-----------------------------------------------------------------------------
(***************************************************************************)
(* Verification.  m.by is the session that sealed message m.               *)
(***************************************************************************)
\* an enciphered message carries a MAC on EV2 and LRP only
MacVerifies(m, s) ==
    /\ m.form = "mac" \/ (m.form = "enc" /\ s.chan \in {"EV2", "LRP"})
    /\ m.by.key = s.key /\ m.by.ti = s.ti /\ m.by.ctr = s.ctr
    /\ s.chan = "EV1" => m.by.iv = s.iv

\* deciphering yields the plaintext with its checksum or padding intact; on D40
\* by whichever of the two checksums decode_d40() searches for
Deciphers(m, s) ==
    /\ m.form = "enc"
    /\ m.by.key = s.key /\ m.by.ti = s.ti /\ m.by.ctr = s.ctr
    /\ m.by.iv = s.iv

(***************************************************************************)
(* Decoding an answer a = [form, by, n, wire], n the card's payload bytes  *)
(* and wire the bytes received.  The result is the return code, the        *)
(* session afterwards, whether a MAC or a checksum was verified, and       *)
(* whether the caller receives exactly the card's payload.  An enciphered  *)
(* payload of no bytes is taken for one that does not check out.           *)
(***************************************************************************)
Result(rc, s, verified, exact) ==
    [rc |-> rc, s |-> s, verified |-> verified, exact |-> exact]

\* copy_output() of an answer nothing was checked about
Copied(s, a) == Result("OK", s, FALSE, a.form = "plain")

decode_d40(s, q, a) ==
    CASE q.rx = "mac" /\ receives_mac("D40", q.op) ->
           IF a.wire <= mac_length("D40") THEN Result("LENGTH", s, FALSE, FALSE)
           ELSE IF MacVerifies(a, s) THEN Result("OK", s, TRUE, TRUE)
           ELSE Result("CRYPTO", s, FALSE, FALSE)
      [] q.rx = "enc" /\ a.wire >= block_len(s.kt) ->
           IF Deciphers(a, s) /\ a.n > 0 THEN Result("OK", s, TRUE, TRUE)
           ELSE Result("CRYPTO", s, FALSE, FALSE)
      [] OTHER -> Copied(s, a)

\* the CMAC advances the IV before the comparison; deciphering works on a
\* copy of it and leaves the IV where it was
decode_ev1(s, q, a) ==
    LET absorbed == Chained(s, IF a.form = "mac" THEN "ans" ELSE "stray")
    IN  CASE q.rx \in {"plain", "mac"} \/ (q.rx = "enc" /\ HasData(q.op, q.len)) ->
               IF a.wire < mac_length("EV1") THEN Result("LENGTH", s, FALSE, FALSE)
               ELSE IF MacVerifies(a, s) THEN Result("OK", absorbed, TRUE, TRUE)
               ELSE Result("CRYPTO", absorbed, FALSE, FALSE)
          [] q.rx = "enc" /\ ~HasData(q.op, q.len) /\ a.wire >= block_len(s.kt) ->
               IF Deciphers(a, s) /\ a.n > 0 THEN Result("OK", s, TRUE, TRUE)
               ELSE Result("CRYPTO", s, FALSE, FALSE)
          [] OTHER -> Copied(s, a)

\* mutant of decode_ev2: an answer too short for a MAC is handed out as it is
decode_ev2_short_copied(s, q, a) ==
    IF q.rx = "plain" \/ a.wire < mac_length("EV2") THEN Copied(s, a)
    ELSE IF MacVerifies(a, s) THEN Result("OK", s, FALSE, a.form = "mac")
    ELSE Result("CRYPTO", s, FALSE, FALSE)

\* the MAC comes first and does not cover the LRP block counter, so on LRP
\* only an answer that deciphers vouches for the whole session
decode_ev2(s, q, a) ==
    LET body == a.wire - mac_length("EV2")
        deciphered == IF s.chan = "LRP" THEN Chained(s, "block") ELSE s
    IN  IF q.rx = "plain" THEN Copied(s, a)
        ELSE IF body < 0 THEN Result("LENGTH", s, FALSE, FALSE)
        ELSE IF ~MacVerifies(a, s) THEN Result("CRYPTO", s, FALSE, FALSE)
        ELSE IF q.rx = "mac" \/ body < 16
             THEN Result("OK", s, s.chan = "EV2", a.form = "mac")
        ELSE IF Deciphers(a, s) /\ a.n > 0 THEN Result("OK", deciphered, TRUE, TRUE)
        ELSE Result("CRYPTO", deciphered, FALSE, FALSE)

channel_decode(s, q, a) ==
    CASE s.chan = "D40" -> decode_d40(s, q, a)
      [] s.chan = "EV1" -> decode_ev1(s, q, a)
      [] s.chan \in {"EV2", "LRP"} -> decode_ev2(s, q, a)
      [] OTHER -> Copied(s, a)
=============================================================================
