--------------------------- MODULE SecureChannel ---------------------------
(***************************************************************************)
(* Secure messaging between the library (the reader) and a DESFire-family  *)
(* card: nxpsc_exchange(), the authentications, and every call of          *)
(* nxpsc_core.c, nxpsc_desfire.c, nxpsc_advanced.c and nxpsc_ntag424.c     *)
(* that opens, uses, drops or bypasses a session.                          *)
(*                                                                         *)
(* The library is synchronous and single threaded, so one API call is one  *)
(* atomic action, split by its outcome on the wire.  What can drift is the *)
(* card: it keeps a session of its own, which the reader only knows        *)
(* through answers that may be lost.  The card is not part of the library; *)
(* it is modelled from what the code and the test double expect of it.     *)
(***************************************************************************)
EXTENDS WireFormat, DesfireApi

CONSTANTS
    Keys,       \* identities of session keys, each authentication draws a fresh one
    NoKey,      \* no session key, no transaction identifier
    KeyNos,     \* key numbers the caller authenticates with
    KeyTypes,   \* key types the caller authenticates with
    Channels,   \* channels the caller asks for, "AUTO" leaves it to pick_channel
    CardType,   \* card->type, as nxpsc_identify() found it
    Aids,       \* application identifiers, 0 is the PICC level
    Chaining,   \* the values the caller gives nxpsc_set_iso_chaining()
    CtrMod,     \* 2^16 in the code, where cmd_ctr is a uint16_t
    MaxIv,      \* bound on the length of the symbolic IV chain
    \* what the repository's descriptions of an EV1 card disagree about
    CipherChains,   \* an enciphered answer moves the card's IV
    Unmaced,        \* commands whose answer carries no MAC before EV2
    Api         \* the API calls the caller makes

ASSUME ConstantsAssumption ==
    /\ NoKey \notin Keys
    /\ "none" \notin KeyNos
    /\ KeyTypes \subseteq key_types
    /\ CipherChains \in BOOLEAN
    /\ Channels \subseteq Chans \cup {"AUTO"}
    /\ {0, 1} \subseteq Aids
    /\ Chaining \subseteq BOOLEAN
    /\ CtrMod \in Nat \ {0}

\* what the calls of DesfireApi have in common: an enciphered answer is only
\* asked for by requests that are all header, which go out enciphered as well
\* but for GetCardUID, and ChangeKey has a payload
ASSUME ApiAssumption ==
    \A c \in Api :
        /\ c.tx \in Modes /\ c.rx \in {"plain", "mac", "enc"}
        /\ c.len \in Nat /\ c.ans \subseteq Nat
        /\ c.rx = "enc" => ~HasData(c.cmd, c.len)
        /\ c.rx = "enc" => c.tx = "enc" \/ c.cmd = "GetCardUID"
        /\ c.when \in Whens
        /\ c.when = "uid" => c.cmd = "GetCardUID"
        /\ c.tx = "enc_plain" => HasData(c.cmd, c.len)
        /\ c.own # "none"

VARIABLES
    reader,         \* the session fields of nxpsc_card_t
    session_lost,   \* card->session_lost
    selected_aid,   \* card->selected_aid
    iso_chaining,   \* card->iso_chaining
    card,           \* the session the card keeps
    card_aid,       \* the application selected on the card
    dead,           \* the card disabled itself
    \* history, read by the properties only
    apart,          \* since the two sides last provably agreed, something happened
                    \* that may have separated them
    card_dropped,   \* a call inside a session drew an error status, and since then
                    \* the caller neither authenticated nor dropped the session
    aid_known,      \* the card acknowledged the last change of its application
    last            \* what the last call did

sessions == <<reader, card>>
aids == <<selected_aid, card_aid, aid_known>>
vars == <<reader, session_lost, selected_aid, iso_chaining, card, card_aid, dead,
          apart, card_dropped, aid_known, last>>

-----------------------------------------------------------------------------
(***************************************************************************)
(* Sessions.                                                               *)
(***************************************************************************)
Sessions == [chan : Chans \cup {"AUTO"}, kt : key_types \cup {"none"}, key : Keys \cup {NoKey},
             ti : Keys \cup {NoKey}, ctr : 0..(CtrMod - 1),
             iv : Seq(IvItems), key_no : KeyNos \cup {"none"}]

NoSession == [chan |-> "AUTO", kt |-> "none", key |-> NoKey, ti |-> NoKey, ctr |-> 0,
              iv |-> << >>, key_no |-> "none"]

authenticated == reader.chan # "AUTO"

\* the session both sides hold after a first authentication; deciphering the
\* TI of an LRP answer already counts one block
Established(ch, k, kn, kt) ==
    [chan |-> ch, kt |-> kt, key |-> k, ti |-> IF ch \in {"EV2", "LRP"} THEN k ELSE NoKey,
     ctr |-> 0, iv |-> IF ch = "LRP" THEN <<"block">> ELSE << >>, key_no |-> kn]

\* a non-first authentication replaces the key and keeps TI and counter
Rekeyed(s, k, kn) == [s EXCEPT !.key = k, !.key_no = kn, !.iv = << >>]

\* cmd_ctr++, only for a command the card carried out
Counted(s) == IF s.chan \in {"EV2", "LRP"}
              THEN [s EXCEPT !.ctr = (@ + 1) % CtrMod]
              ELSE s

\* a first authentication draws a key and a TI neither side holds, a non-first one
\* a key
FreshKeys == Keys \ {reader.key, card.key}
FreshSessions == FreshKeys \ {reader.ti, card.ti}

-----------------------------------------------------------------------------
(***************************************************************************)
(* From an API call to the request it hands to nxpsc_exchange().           *)
(***************************************************************************)
\* mutant of eff(): a lost session is like none at all
eff_forgets_loss(mode) == IF ~authenticated THEN "plain" ELSE mode

\* plain without a session, unless the card threw the session away
eff(mode) == IF ~authenticated /\ ~session_lost THEN "plain" ELSE mode

\* plain without a session
eff_mode(mode) == IF ~authenticated THEN "plain" ELSE mode

\* ISO chaining swaps the opcodes of the file access commands
file_cmd(cmd) ==
    IF ~iso_chaining THEN cmd
    ELSE CASE cmd = "ReadData" -> "ReadData2"
           [] cmd = "WriteData" -> "WriteData2"
           [] cmd = "ReadRecords" -> "ReadRecords2"
           [] cmd = "WriteRecord" -> "WriteRecord2"
           [] cmd = "UpdateRecord" -> "UpdateRecord2"
           [] OTHER -> cmd

\* replacing the key session s was built on ends that session
ends_session(c, s) == c.own = "always" \/ c.own = s.key_no

TxMode(c) ==
    CASE c.when = "eff" -> eff(c.tx)
      [] c.when = "eff_mode" -> eff_mode(c.tx)
      [] c.when = "uid" -> IF reader.chan \in {"EV2", "LRP"} THEN "mac" ELSE "plain"
      [] OTHER -> c.tx

\* mutant of RxMode: a MAC is expected after replacing the session's own key
RxMode_own_key_maced(c) ==
    CASE c.when = "eff" -> eff(c.rx)
      [] c.when = "eff_mode" -> eff_mode(c.rx)
      [] OTHER -> IF c.own = "always" THEN "mac" ELSE c.rx

RxMode(c) ==
    IF ends_session(c, reader) THEN "plain"
    ELSE CASE c.when = "eff" -> eff(c.rx)
           [] c.when = "eff_mode" -> eff_mode(c.rx)
           [] OTHER -> c.rx

Request(c) == [cmd |-> c.cmd, op |-> file_cmd(c.cmd), len |-> c.len,
               tx |-> TxMode(c), rx |-> RxMode(c), own |-> c.own]

\* refused before anything reaches the wire: by the call itself, or by
\* nxpsc_exchange() because the session was lost
Refused(c) ==
    \/ c.when \in {"auth", "uid"} /\ ~authenticated
    \/ session_lost /\ (TxMode(c) # "plain" \/ RxMode(c) # "plain")

Frame(q) == LET form == channel_encode(reader.chan, q)
            IN  [form |-> form, by |-> IF form = "plain" THEN NoSession ELSE reader]

NXPSC_TX_FRAME_MAX == 54

-----------------------------------------------------------------------------
(***************************************************************************)
(* The card (external).  It reads every command in its native form, so it  *)
(* looks up q.cmd where the reader looks up the opcode q.op.               *)
(***************************************************************************)
CardWants(q) ==
    CASE card = NoSession \/ q.tx = "plain" -> "plain"
      [] card # NoSession /\ q.tx \in {"enc", "enc_plain"} /\ HasData(q.cmd, q.len) -> "enc"
      [] card # NoSession /\ q.tx # "plain" /\ card.chan \in {"EV2", "LRP"}
           /\ (q.tx = "mac" \/ ~HasData(q.cmd, q.len)) -> "mac"
      [] card.chan = "EV1" /\ q.tx = "mac" /\ q.cmd \in tx_mac_cmds -> "mac"
      [] card.chan = "D40" /\ q.tx = "mac" /\ q.cmd \in tx_mac_cmds
           /\ HasData(q.cmd, q.len) -> "mac"
      [] OTHER -> "plain"

CardAccepts(q, f) ==
    /\ f.form = CardWants(q)
    /\ f.form = "mac" => MacVerifies(f, card)
    /\ f.form = "enc" => Deciphers(f, card)

\* the card's session when it has carried the request out and is about to answer
CardExecuted(q, f) ==
    CASE card.chan = "EV1" -> Chained(card, "cmd")
      [] card.chan = "LRP" /\ f.form = "enc" -> Counted(Chained(card, "block"))
      [] OTHER -> Counted(card)

CardEnds(q) == card # NoSession /\ ends_session(q, card)

\* docs/reference/unofficial_desfire_bible.md has every EV1 answer MACed or
\* enciphered; the comment on mock_macs_data_reply() in tests/mockcard.c says that
\* directory style commands are MACed from EV2 on only
AnswerForm(q) ==
    CASE card = NoSession \/ CardEnds(q) -> "plain"
      [] card # NoSession /\ ~CardEnds(q) /\ card.chan \in {"EV2", "LRP"} -> q.rx
      [] OTHER -> IF q.rx = "enc" THEN "enc"
                  ELSE IF q.cmd \in Unmaced THEN "plain"
                  ELSE IF card.chan = "EV1" \/ (q.rx = "mac" /\ q.cmd \in rx_mac_cmds)
                       THEN "mac" ELSE "plain"

Answer(q, f, n) ==
    LET s    == CardExecuted(q, f)
        form == AnswerForm(q)
        mac  == mac_length(card.chan)
    IN  [form |-> form, n |-> n, by |-> IF form = "plain" THEN NoSession ELSE s,
         wire |-> CASE form = "plain" -> n
                    [] form = "mac" -> n + mac
                    [] OTHER -> padded_len(n + Checksum(card.chan, "enc"), cipher_block(card))
                                + (IF card.chan \in {"EV2", "LRP"} THEN mac ELSE 0)]

\* The card's session after its answer.  The same reference takes the EV1 IV from the
\* last block of the previous operation, an enciphered answer included; mock_reply()
\* in tests/mockcard.c, like decode_ev1(), leaves it where it was.
CardAnswered(q, f) ==
    LET s    == CardExecuted(q, f)
        form == AnswerForm(q)
    IN  IF CardEnds(q) THEN NoSession
        ELSE CASE card.chan = "EV1" /\ form = "mac" -> Chained(s, "ans")
               [] card.chan = "EV1" /\ form = "enc" /\ CipherChains -> Chained(s, "cipher")
               [] card.chan = "LRP" /\ form = "enc" -> Chained(s, "block")
               [] OTHER -> s

-----------------------------------------------------------------------------
(***************************************************************************)
(* History.                                                                *)
(***************************************************************************)
Rcs == {"OK", "TRANSPORT", "LENGTH", "CARD", "AUTH", "CRYPTO", "UNSUPPORTED"}
Lasts == [when : Whens \cup {"none"}, rc : Rcs,
          sent : {"none", "plain", "mac", "enc"}, form_ok : BOOLEAN,
          needs : BOOLEAN, checked : BOOLEAN,
          done : BOOLEAN, owed : BOOLEAN, exact : BOOLEAN]

\* a call that is not an exchange
Other(rc) == [when |-> "none", rc |-> rc, sent |-> "none", form_ok |-> TRUE,
              needs |-> FALSE, checked |-> FALSE,
              done |-> FALSE, owed |-> FALSE, exact |-> TRUE]

\* call c returned rc; needs: the call protects its request, checked: it demands
\* a protected answer, done: the card carried it out, owed: its answer reached the
\* reader, which owes it to the caller, exact: the caller got the card's payload
\* unchanged
Exchanged(c, rc, done, owed, exact) ==
    [when |-> c.when, rc |-> rc, sent |-> Frame(Request(c)).form,
     form_ok |-> Frame(Request(c)).form = CardWants(Request(c)),
     needs |-> c.tx # "plain", checked |-> Request(c).rx # "plain",
     done |-> done, owed |-> owed, exact |-> exact]

Unsent(x) == [x EXCEPT !.sent = "none", !.form_ok = TRUE]

\* answer a fits the caller's buffer, and it is not one of no bytes in a place where
\* the decoders take that for an error: enciphered, or MACed on D40
Owed(a, fits) == fits /\ (a.n = 0 => a.form # "enc" /\ ~(a.form = "mac" /\ card.chan = "D40"))

\* the reader dropped its session on its own
Abandoned == apart \/ authenticated

IvFits == Len(reader'.iv) <= MaxIv /\ Len(card'.iv) <= MaxIv

-----------------------------------------------------------------------------
(***************************************************************************)
(* nxpsc_exchange(), one action per outcome.  A call that ends the session *)
(* (ChangeKey of the session's own key, RollKeySet) resets the channel     *)
(* after the exchange whatever its outcome.                                *)
(***************************************************************************)
Kept(c, s) == IF ends_session(c, reader) THEN NoSession ELSE s

CallRefused(c) ==
    /\ Refused(c)
    /\ session_lost' = (session_lost /\ ~ends_session(c, reader))
    /\ \E rc \in IF c.when = "uid" THEN {"OK", "AUTH"} ELSE {"AUTH"} :
          last' = Unsent(Exchanged(c, rc, FALSE, FALSE, TRUE))
    /\ UNCHANGED <<sessions, aids, iso_chaining, dead, apart, card_dropped>>

\* the request is lost, or the card handles it and its answer is lost
CallLost(c) ==
    LET q == Request(c)
        f == Frame(q)
    IN  /\ ~Refused(c)
        /\ reader' = Kept(c, Encoded(reader, q))
        /\ session_lost' = (session_lost /\ ~ends_session(c, reader))
        /\ \/ /\ card' = card
              /\ last' = Exchanged(c, "TRANSPORT", FALSE, FALSE, TRUE)
           \/ /\ ~dead
              /\ card' = NoSession
              /\ last' = Exchanged(c, "TRANSPORT", FALSE, FALSE, TRUE)
           \/ /\ ~dead
              /\ CardAccepts(q, f)
              /\ card' = CardAnswered(q, f)
              /\ last' = Exchanged(c, "TRANSPORT", TRUE, FALSE, TRUE)
        /\ IvFits
        /\ apart' = TRUE
        /\ UNCHANGED <<aids, iso_chaining, dead, card_dropped>>

\* the card answers an intermediate frame of a chained request with an error:
\* raw_exchange_ex() returns E_CARD itself, past the status check of exchange
CallCutShort(c) ==
    LET q == Request(c)
    IN  /\ ~Refused(c) /\ ~dead
        /\ wrapped_len(reader, q) > NXPSC_TX_FRAME_MAX
        /\ reader' = Kept(c, Encoded(reader, q))
        /\ session_lost' = (session_lost /\ ~ends_session(c, reader))
        /\ card' = NoSession
        /\ IvFits
        /\ apart' = TRUE
        /\ card_dropped' = (card_dropped \/ authenticated)
        /\ last' = Exchanged(c, "CARD", FALSE, FALSE, TRUE)
        /\ UNCHANGED <<aids, iso_chaining, dead>>

\* an error status: the card ends its session, and so does the reader
CallRejected(c) ==
    /\ ~Refused(c) /\ ~dead
    /\ reader' = NoSession
    /\ session_lost' = ((session_lost \/ authenticated) /\ ~ends_session(c, reader))
    /\ card' = NoSession
    /\ apart' = FALSE
    /\ card_dropped' = (card_dropped \/ authenticated)
    /\ last' = Exchanged(c, "CARD", FALSE, FALSE, TRUE)
    /\ UNCHANGED <<aids, iso_chaining, dead>>

\* copy_output(): the caller's buffer is too small for the decoded payload.  The
\* session has moved by then.
Delivered(d, fits) == IF d.rc = "OK" /\ ~fits THEN "LENGTH" ELSE d.rc

\* the card carries the command out and its answer arrives
CallDone(c) ==
    LET q == Request(c)
        f == Frame(q)
    IN  /\ ~Refused(c) /\ ~dead
        /\ CardAccepts(q, f)
        /\ \E n \in c.ans : \E fits \in IF n = 0 THEN {TRUE} ELSE BOOLEAN :
              LET a == Answer(q, f, n)
                  d == channel_decode(Counted(Encoded(reader, q)), q, a)
              IN  /\ reader' = Kept(c, d.s)
                  /\ apart' = (apart /\ ~(d.verified /\ ~ends_session(c, reader)))
                  /\ last' = Exchanged(c, Delivered(d, fits), TRUE, Owed(a, fits), d.exact /\ fits)
        /\ session_lost' = (session_lost /\ ~ends_session(c, reader))
        /\ card' = CardAnswered(q, f)
        /\ IvFits
        /\ UNCHANGED <<aids, iso_chaining, dead, card_dropped>>
-----------------------------------------------------------------------------
(***************************************************************************)
(* Authentication.                                                         *)
(***************************************************************************)
DES == {"DES", "2K3DES"}

pick_channel(type, kt) ==
    CASE type = "MF3ICD40" -> "D40"
      [] type \in {"EV2", "EV2_XL", "EV3"} ->
           IF kt \in DES THEN "D40" ELSE IF kt = "3K3DES" THEN "EV1" ELSE "EV2"
      [] type \in {"LIGHT", "NTAG424", "DUOX"} -> "EV2"
      [] type \in {"EV1", "NTAG413DNA"} -> IF kt \in DES THEN "D40" ELSE "EV1"
      [] OTHER -> IF kt = "DES" THEN "D40" ELSE "EV1"

Chosen(ch, kt) == IF ch = "AUTO" THEN pick_channel(CardType, kt) ELSE ch
Unsupported(ch, kt) == Chosen(ch, kt) \in {"EV2", "LRP"} /\ kt # "AES128"

\* mutant of AuthStart: the lost session is not forgotten
AuthStart_keeps_loss == /\ card_dropped' = FALSE
                        /\ UNCHANGED <<session_lost, aids, iso_chaining, dead>>

\* nxpsc_authenticate() drops whatever session there was before it starts
AuthStart == /\ session_lost' = FALSE
             /\ card_dropped' = FALSE
             /\ UNCHANGED <<aids, iso_chaining, dead>>

AuthUnsupported(ch, kt) ==
    /\ Unsupported(ch, kt)
    /\ AuthStart
    /\ reader' = NoSession
    /\ apart' = Abandoned
    /\ last' = Other("UNSUPPORTED")
    /\ UNCHANGED card

Authenticate(ch, kn, kt) ==
    /\ ~Unsupported(ch, kt) /\ ~dead
    /\ AuthStart
    /\ \E k \in FreshSessions :
          /\ reader' = Established(Chosen(ch, kt), k, kn, kt)
          /\ card' = reader'
    /\ apart' = FALSE
    /\ last' = Other("OK")

\* the card answers an error status in either pass
AuthRefused(ch, kt) ==
    /\ ~Unsupported(ch, kt) /\ ~dead
    /\ AuthStart
    /\ reader' = NoSession
    /\ card' = NoSession
    /\ apart' = FALSE
    /\ last' = Other("AUTH")

\* a frame of the handshake is lost or garbled, the last answer included: then
\* the card has a session and the reader has none.  A last answer that does not
\* check out is E_AUTH or E_LENGTH, with the same state.
AuthLost(ch, kn, kt) ==
    /\ ~Unsupported(ch, kt)
    /\ AuthStart
    /\ reader' = NoSession
    /\ \/ card' = card
       \/ ~dead /\ card' = NoSession
       \/ ~dead /\ \E k \in FreshSessions : card' = Established(Chosen(ch, kt), k, kn, kt)
    /\ apart' = TRUE
    /\ last' = Other("TRANSPORT")

\* nxpsc_authenticate_nonfirst() needs a session, and one of EV2 or LRP
NonFirst == authenticated /\ reader.chan \in {"EV2", "LRP"}

NonFirstRefusedLocally ==
    /\ ~NonFirst
    /\ last' = Other(IF authenticated THEN "UNSUPPORTED" ELSE "AUTH")
    /\ UNCHANGED <<sessions, session_lost, aids, iso_chaining, dead, apart, card_dropped>>

\* both sides keep the TI and counter they have, so this proves nothing about them
AuthenticateNonFirst(kn) ==
    /\ NonFirst /\ ~dead
    /\ card.chan = reader.chan
    /\ \E k \in FreshKeys :
          /\ reader' = Rekeyed(reader, k, kn)
          /\ card' = Rekeyed(card, k, kn)
    /\ last' = Other("OK")
    /\ UNCHANGED <<session_lost, aids, iso_chaining, dead, apart, card_dropped>>

\* the card answers an error status; the reader keeps the session it had
NonFirstRefused ==
    /\ NonFirst /\ ~dead
    /\ card' = NoSession
    /\ apart' = TRUE
    /\ card_dropped' = TRUE
    /\ last' = Other("AUTH")
    /\ UNCHANGED <<reader, session_lost, aids, iso_chaining, dead>>

\* a frame is lost or the last answer does not check out; on LRP the IV is
\* cleared before that answer is checked
NonFirstLost(kn) ==
    /\ NonFirst
    /\ \/ reader' = reader
       \/ ~dead /\ reader.chan = "LRP" /\ reader' = [reader EXCEPT !.iv = << >>]
    /\ \/ card' = card
       \/ ~dead /\ card' = NoSession
       \/ /\ ~dead /\ card.chan = reader.chan
          /\ \E k \in FreshKeys : card' = Rekeyed(card, k, kn)
    /\ apart' = TRUE
    /\ last' = Other("TRANSPORT")
    /\ UNCHANGED <<session_lost, aids, iso_chaining, dead, card_dropped>>

-----------------------------------------------------------------------------
(***************************************************************************)
(* Selecting: each of these ends the session on the card.                  *)
(***************************************************************************)
\* nxpsc_select_application() resets the channel, then selects in plain mode;
\* only a success moves selected_aid
SelectStart == /\ reader' = NoSession
               /\ session_lost' = FALSE
               /\ card_dropped' = FALSE
               /\ UNCHANGED <<iso_chaining, dead>>

SelectDone(aid) ==
    /\ SelectStart /\ ~dead
    /\ card' = NoSession /\ card_aid' = aid
    /\ selected_aid' = aid
    /\ aid_known' = TRUE
    /\ apart' = FALSE
    /\ last' = Other("OK")

\* mutant of SelectRejected: selected_aid moves before the card has answered
SelectRejected_moves(aid) ==
    /\ SelectStart /\ ~dead
    /\ card' = NoSession
    /\ apart' = FALSE
    /\ last' = Other("CARD")
    /\ selected_aid' = aid
    /\ UNCHANGED <<card_aid, aid_known>>

\* an unknown application: the card stays where it is
SelectRejected(aid) ==
    /\ SelectStart /\ ~dead
    /\ card' = NoSession
    /\ apart' = FALSE
    /\ last' = Other("CARD")
    /\ UNCHANGED aids

SelectLost(aid) ==
    /\ SelectStart
    /\ \/ card' = card /\ card_aid' = card_aid
       \/ ~dead /\ card' = NoSession /\ card_aid' = aid
    /\ apart' = TRUE
    /\ aid_known' = FALSE
    /\ last' = Other("TRANSPORT")
    /\ UNCHANGED selected_aid

\* nxpsc_iso_exchange() and its callers: no secure messaging, and neither
\* selected_aid nor the session is touched.  The card may select another
\* application and end its session.
IsoExchange(rc) ==
    /\ \/ card' = card /\ card_aid' = card_aid
       \/ ~dead /\ card' = NoSession /\ card_aid' \in Aids
    /\ rc # "TRANSPORT" => ~dead
    /\ apart' = TRUE
    /\ aid_known' = FALSE
    /\ last' = Other(rc)
    /\ UNCHANGED <<reader, session_lost, selected_aid, iso_chaining, dead, card_dropped>>

\* nxpsc_ntag424_select(): the DNA application, which other cards do not have,
\* and chained opcodes from now on
ntag424_select ==
    /\ \/ /\ ~dead /\ CardType = "NTAG424"
          /\ card' = NoSession /\ card_aid' = 1 /\ selected_aid' = 1
          /\ aid_known' = TRUE
          /\ iso_chaining' = TRUE
          /\ reader' = NoSession /\ session_lost' = FALSE /\ card_dropped' = FALSE
          /\ apart' = FALSE
          /\ last' = Other("OK")
       \/ /\ \/ card' = card /\ card_aid' = card_aid
             \/ ~dead /\ card' = NoSession /\ card_aid' \in {card_aid, 1}
          /\ apart' = TRUE
          /\ aid_known' = FALSE
          /\ \E rc \in {"TRANSPORT", "CARD"} : last' = Other(rc)
          /\ UNCHANGED <<reader, session_lost, selected_aid, iso_chaining, card_dropped>>
    /\ UNCHANGED dead

-----------------------------------------------------------------------------
(***************************************************************************)
(* Calls that bypass secure messaging.                                     *)
(***************************************************************************)
\* mutant of DfNamesAllowed: no guard
DfNamesAllowed_unguarded == TRUE

\* nxpsc_get_df_names() refuses inside a session of the reader's
DfNamesAllowed == ~authenticated

GetDfNamesRefused ==
    /\ ~DfNamesAllowed
    /\ last' = Other("AUTH")
    /\ UNCHANGED <<sessions, session_lost, aids, iso_chaining, dead, apart, card_dropped>>

\* an EV1 card with a session open disables itself on the first continuation frame
GetDfNames ==
    /\ DfNamesAllowed /\ ~dead
    /\ dead' = (CardType = "EV1" /\ card # NoSession)
    /\ card' \in {card, NoSession}
    /\ \E rc \in IF dead' THEN {"CARD"} ELSE {"OK", "CARD", "TRANSPORT"} : last' = Other(rc)
    /\ UNCHANGED <<reader, session_lost, aids, iso_chaining, apart, card_dropped>>

\* nxpsc_proximity_check(): PreparePC takes the card out of its session.  Only
\* an error status or a short PreparePC answer makes the reader drop its own.
ProximityCheck ==
    /\ \/ /\ ~dead /\ card' = NoSession
          /\ reader' = reader
          /\ \E rc \in {"OK", "AUTH", "LENGTH", "TRANSPORT"} :
                last' = Other(rc)
          /\ apart' = TRUE
          /\ UNCHANGED <<session_lost, card_dropped>>
       \/ /\ ~dead /\ card' = NoSession
          /\ reader' = NoSession
          /\ session_lost' = FALSE
          /\ \E rc \in {"CARD", "LENGTH"} :
                last' = Other(rc)
          /\ apart' = FALSE
          /\ card_dropped' = FALSE
       \/ /\ last' = Other("TRANSPORT")
          /\ apart' = TRUE
          /\ UNCHANGED <<sessions, session_lost, card_dropped>>
    /\ UNCHANGED <<aids, iso_chaining, dead>>

-----------------------------------------------------------------------------
(***************************************************************************)
(* Calls that stay inside the library, and the field.                      *)
(***************************************************************************)
ResetChannel ==
    /\ reader' = NoSession
    /\ session_lost' = FALSE
    /\ card_dropped' = FALSE
    /\ apart' = Abandoned
    /\ last' = Other("OK")
    /\ UNCHANGED <<card, aids, iso_chaining, dead>>

\* nxpsc_close() and nxpsc_open() on the same transport
Reopen ==
    /\ reader' = NoSession
    /\ session_lost' = FALSE
    /\ selected_aid' = 0
    /\ iso_chaining' = FALSE
    /\ card_dropped' = FALSE
    /\ aid_known' = (aid_known /\ card_aid = 0)
    /\ apart' = Abandoned
    /\ last' = Other("OK")
    /\ UNCHANGED <<card, card_aid, dead>>

SetIsoChaining(enable) ==
    /\ iso_chaining' = enable
    /\ last' = Other("OK")
    /\ UNCHANGED <<sessions, session_lost, aids, dead, apart, card_dropped>>

\* the card leaves the field and comes back: PICC level, no session
FieldLost ==
    /\ card' = NoSession
    /\ card_aid' = 0
    /\ apart' = (apart \/ card # NoSession)
    /\ aid_known' = (aid_known /\ selected_aid = 0)
    /\ last' = Other("OK")
    /\ UNCHANGED <<reader, session_lost, selected_aid, iso_chaining, dead, card_dropped>>

-----------------------------------------------------------------------------
Init ==
    /\ reader = NoSession /\ card = NoSession
    /\ session_lost = FALSE /\ selected_aid = 0 /\ iso_chaining = FALSE
    /\ card_aid = 0 /\ dead = FALSE
    /\ apart = FALSE /\ card_dropped = FALSE /\ aid_known = TRUE
    /\ last = Other("OK")

Exchange == \E c \in Api :
    CallRefused(c) \/ CallLost(c) \/ CallCutShort(c) \/ CallRejected(c) \/ CallDone(c)

Authentication ==
    \/ \E ch \in Channels, kt \in KeyTypes : AuthUnsupported(ch, kt) \/ AuthRefused(ch, kt)
    \/ \E ch \in Channels, kt \in KeyTypes, kn \in KeyNos :
          Authenticate(ch, kn, kt) \/ AuthLost(ch, kn, kt)
    \/ NonFirstRefusedLocally \/ NonFirstRefused
    \/ \E kn \in KeyNos : AuthenticateNonFirst(kn) \/ NonFirstLost(kn)

Selection ==
    \/ \E aid \in Aids : SelectDone(aid) \/ SelectRejected(aid) \/ SelectLost(aid)
    \/ \E rc \in {"OK", "CARD", "TRANSPORT"} : IsoExchange(rc)
    \/ ntag424_select

Local ==
    \/ ResetChannel \/ Reopen \/ FieldLost \/ GetDfNamesRefused \/ GetDfNames \/ ProximityCheck
    \/ \E enable \in Chaining : SetIsoChaining(enable)

Next == Exchange \/ Authentication \/ Selection \/ Local

Spec == Init /\ [][Next]_vars
-----------------------------------------------------------------------------
(***************************************************************************)
(* Properties.                                                             *)
(***************************************************************************)
\* Every variable has its type, and a lost session is a closed one: eff()
\* tells "never had a session" from "the card threw it away" by these two flags.
TypeOK ==
    /\ reader \in Sessions /\ card \in Sessions
    /\ session_lost \in BOOLEAN /\ iso_chaining \in BOOLEAN /\ dead \in BOOLEAN
    /\ selected_aid \in Aids /\ card_aid \in Aids
    /\ apart \in BOOLEAN /\ card_dropped \in BOOLEAN /\ aid_known \in BOOLEAN
    /\ last \in Lasts
    /\ session_lost => ~authenticated

\* an EV1 answer ran through the IV of one side only: an enciphered one through the
\* card's, one without a MAC through the reader's
OneSided == {"cipher", "stray"}
Marked(s) == \E i \in DOMAIN s.iv : s.iv[i] \in OneSided

\* the same session, up to the IV where one side's has run ahead that way
Near(s, t) == s = t \/ (s = [t EXCEPT !.iv = s.iv] /\ (Marked(s) \/ Marked(t)))

\* Unless a message was lost, the caller dropped the session by hand, a chained
\* request was cut short or a call went around nxpsc_exchange(), the reader's
\* session is the card's: channel, key, TI, counter, key number, and, until an EV1
\* answer that only one side chains, IV.  And an answer nxpsc_channel_decode() has
\* verified proves that they agree again, whatever was lost before it.
Agreement == ~apart => Near(reader, card)

\* When both sides agree on the session, IV included, a command the card carried out
\* and answered is reported as done, and the caller receives exactly the card's
\* payload: no length error or MAC mismatch of the library's own making, and no
\* MAC left at the end of the data.
CarriedOutIsReported ==
    [][reader = card /\ last'.done /\ last'.owed => last'.rc = "OK" /\ last'.exact]_vars

\* The same where it is enough that nothing has happened to separate the two sides:
\* the IV the EV1 channel decodes an answer with is then the card's
\* (docs/reference/unofficial_desfire_bible.md, EV1 IV Handling).
NothingLostIsReported ==
    [][~apart /\ last'.done /\ last'.owed => last'.rc = "OK" /\ last'.exact]_vars

\* Inside a session, a call that demands a protected answer returns success only
\* if the card carried it out in that very session, at that very counter: the
\* answer of a card that silently lost the session, or is a command ahead, is
\* never taken for one (desfire.md, on NXPSC_COMM_MAC and NXPSC_COMM_FULL).
SuccessMeansSession ==
    [][authenticated /\ last'.checked /\ last'.rc = "OK"
          => last'.done /\ card.key = reader.key /\ card.ctr = reader.ctr]_vars

\* GetDFNames never disables a card while nothing has separated the two sides:
\* the guard on the reader's session is then as good as one on the card's.
DisabledOnlyApart == [][dead' # dead => apart]_vars

\* What Agreement rests on.  A session is closed or carries a key, and keeps only
\* the state its channel has; two open sessions with the same key were opened by
\* the same authentication.
WellFormed(s) ==
    /\ s.chan = "AUTO" => s = NoSession
    /\ s.chan # "AUTO" => s.key \in Keys
    /\ s.chan \in {"D40", "EV1"} => s.ctr = 0 /\ s.ti = NoKey
    /\ s.chan \in {"D40", "EV2"} => s.iv = << >>
    /\ s.chan # "EV1" => ~Marked(s)
    /\ s.chan \in {"EV2", "LRP"} => s.kt = "AES128"

SameOrigin ==
    reader.key = card.key /\ reader.key \in Keys
        => /\ reader.chan = card.chan /\ reader.kt = card.kt
           /\ reader.key_no = card.key_no

IInv == TypeOK /\ Agreement /\ WellFormed(reader) /\ WellFormed(card) /\ SameOrigin

\* After an acknowledged selection, and until an ISO select or a lost answer,
\* selected_aid names the application the card has selected.
AidAgreement == aid_known => selected_aid = card_aid

\* Once the card has ended the session with an error status, a call that asks
\* for protection puts nothing on the wire until the caller authenticates or
\* drops the session (nxpsc.h, on nxpsc_session_lost()).
DroppedNeedsAuth == [][card_dropped /\ last'.needs => last'.sent = "none"]_vars

\* The same once the reader has dropped its side too, for the calls that look at
\* session_lost: a session the card threw away is never mistaken for none at all
\* and replaced by plain communication (nxpsc_desfire.c, on eff()).
NoSilentDowngrade ==
    [][card_dropped /\ ~authenticated /\ last'.needs /\ last'.when # "eff_mode"
          => last'.sent = "none"]_vars

\* When both sides agree, a request has the form the card expects of the command
\* (desfire.c, on file_cmd(): the payloads stay identical).
FormIsExpected == [][reader = card /\ last'.sent # "none" => last'.form_ok]_vars
=============================================================================
