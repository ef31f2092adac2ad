-------------------------------- MODULE Plus --------------------------------
(***************************************************************************)
(* MIFARE Plus at security level 3: nxpsc_plus.c, a session of its own     *)
(* beside the one of nxpsc_exchange().  Two counters, one for reads and    *)
(* one for writes, are part of every MAC and move on each side on its own: *)
(* the card counts a command it carried out, the library an answer it got. *)
(*                                                                         *)
(* A call is one step, split by its outcome on the wire.  The card is      *)
(* external: it carries a command out only if the MAC verifies, may refuse *)
(* any command, and may end its session when it does.                      *)
(***************************************************************************)
EXTENDS Integers, FiniteSets

CONSTANTS
    Keys,       \* identities of session keys and transaction identifiers
    NoKey,      \* none of either
    CtrMod,     \* 2^16 in the code, where both counters are uint16_t
    IvMod       \* 2^8: only the low byte of a counter enters an IV

ASSUME PlusAssumption ==
    /\ NoKey \notin Keys
    /\ CtrMod \in Nat \ {0} /\ IvMod \in Nat /\ IvMod > 1
    /\ CtrMod % IvMod = 0

VARIABLES
    reader,         \* session_mac, ti, plus_r_ctr and plus_w_ctr of nxpsc_card_t
    mac_mismatch,   \* card->mac_mismatch
    card,           \* the session the card keeps
    \* history, read by the properties only
    doubt,          \* what no answer has confirmed since something may have moved it:
                    \* "session", the read counter "r", the write counter "w"
    unreported,     \* writes the card carried out in the reader's session, less those
                    \* the library reported as done
    last            \* what the last call did

vars == <<reader, mac_mismatch, card, doubt, unreported, last>>

Ctrs == 0..(CtrMod - 1)
Sessions == [key : Keys \cup {NoKey}, ti : Keys \cup {NoKey}, r : Ctrs, w : Ctrs]
NoSession == [key |-> NoKey, ti |-> NoKey, r |-> 0, w |-> 0]
Established(k) == [key |-> k, ti |-> k, r |-> 0, w |-> 0]

Open(s) == s.key # NoKey
authenticated == Open(reader)

\* mutant of Dropped: the transaction identifier stays
Dropped_keeps_ti(s) == [s EXCEPT !.key = NoKey]

\* nxpsc_reset_channel() leaves the two counters where they are
Dropped(s) == [s EXCEPT !.key = NoKey, !.ti = NoKey]

\* a uint16_t incremented
Inc(c) == IF c + 1 = CtrMod THEN 0 ELSE c + 1

LowByte(c) == c % IvMod

FreshKeys == Keys \ {reader.key, reader.ti, card.key, card.ti}

-----------------------------------------------------------------------------
Rcs == {"OK", "TRANSPORT", "LENGTH", "CARD", "AUTH", "CRYPTO", "UNSUPPORTED", "PARAM"}
Lasts == [call : {"read", "write", "other"}, rc : Rcs, mac_failed : BOOLEAN]
Last(call, rc) == [call |-> call, rc |-> rc, mac_failed |-> FALSE]

\* the frame or its answer is lost, or the answer is too short
Lost == {"TRANSPORT", "LENGTH"}

AllDoubt == {"session", "r", "w"}

-----------------------------------------------------------------------------
(***************************************************************************)
(* plus_mac() and the card's check of it.                                  *)
(***************************************************************************)
\* mutant of plus_mac: writes are MACed over the read counter
plus_mac_read_ctr(s, type) == [key |-> s.key, ti |-> s.ti, ctr |-> s.r]

\* what a command MAC covers, besides the command
plus_mac(s, type) == [key |-> s.key, ti |-> s.ti, ctr |-> IF type = "write" THEN s.w ELSE s.r]

CardAccepts(type) ==
    /\ Open(card)
    /\ plus_mac(reader, type) = [key |-> card.key, ti |-> card.ti,
                                 ctr |-> IF type = "write" THEN card.w ELSE card.r]

\* the card counts a command it carries out
Counted(s, type) == IF type = "write" THEN [s EXCEPT !.w = Inc(@)] ELSE [s EXCEPT !.r = Inc(@)]

Ctr(type) == IF type = "write" THEN "w" ELSE "r"

-----------------------------------------------------------------------------
(***************************************************************************)
(* nxpsc_plus_read() and the calls that write: nxpsc_plus_write(),         *)
(* nxpsc_plus_value_op(), nxpsc_plus_value_transfer(), nxpsc_plus_restore()*)
(* and nxpsc_plus_transfer().                                              *)
(***************************************************************************)
\* bad parameters, a key that is not AES, no session, a buffer too small
Refused ==
    /\ \/ \E call \in {"read", "write", "other"} : last' = Last(call, "PARAM")
       \/ last' = Last("other", "UNSUPPORTED")
       \/ ~authenticated /\ \E call \in {"read", "write"} : last' = Last(call, "AUTH")
       \/ authenticated /\ last' = Last("read", "LENGTH")
    /\ UNCHANGED <<reader, mac_mismatch, card, doubt, unreported>>

\* the request is lost, or the card answers and its answer is lost or too short
CallLost(type) ==
    /\ authenticated
    /\ \/ card' \in {card, NoSession} /\ UNCHANGED unreported
       \/ /\ CardAccepts(type)
          /\ card' = Counted(card, type)
          /\ unreported' = IF type = "write" THEN unreported + 1 ELSE unreported
    /\ doubt' = doubt \cup {"session", Ctr(type)}
    /\ \E rc \in Lost : last' = Last(type, rc)
    /\ UNCHANGED <<reader, mac_mismatch>>

\* mutant of CallRejected: the counter moves whatever the card answered
CallRejected_counts(type) ==
    /\ authenticated
    /\ card' \in {card, NoSession}
    /\ doubt' = doubt \cup {"session"}
    /\ last' = Last(type, "CARD")
    /\ reader' = Counted(reader, type)
    /\ UNCHANGED <<mac_mismatch, unreported>>

\* an error status; the reader keeps its session
CallRejected(type) ==
    /\ authenticated
    /\ card' \in {card, NoSession}
    /\ doubt' = doubt \cup {"session"}
    /\ last' = Last(type, "CARD")
    /\ UNCHANGED <<reader, mac_mismatch, unreported>>

\* mutant of AfterRead: a wrong MAC returns before the counter moves
AfterRead_returns_early(garbled) == IF garbled THEN reader ELSE Counted(reader, "read")

\* the counter moves even when the MAC of the answer is wrong
AfterRead(garbled) == Counted(reader, "read")

\* an answer of the right length: its MAC, if it was asked for, fails when it is
\* garbled, and mac_mismatch keeps its value if it was not
ReadDone(maced, garbled) ==
    /\ authenticated /\ CardAccepts("read")
    /\ card' = Counted(card, "read")
    /\ reader' = AfterRead(garbled)
    /\ mac_mismatch' = IF maced THEN garbled ELSE mac_mismatch
    /\ doubt' = doubt \ {"session", "r"}
    /\ last' = [Last("read", IF mac_mismatch' THEN "CRYPTO" ELSE "OK")
                  EXCEPT !.mac_failed = maced /\ garbled]
    /\ UNCHANGED unreported

\* carried out and reported; nothing but the status of the answer is looked at
WriteDone ==
    /\ authenticated /\ CardAccepts("write")
    /\ card' = Counted(card, "write")
    /\ reader' = Counted(reader, "write")
    /\ doubt' = doubt \ {"session", "w"}
    /\ last' = Last("write", "OK")
    /\ UNCHANGED <<mac_mismatch, unreported>>

-----------------------------------------------------------------------------
(***************************************************************************)
(* nxpsc_plus_authenticate().                                              *)
(***************************************************************************)
AuthenticateFirst ==
    /\ \E k \in FreshKeys : reader' = Established(k) /\ card' = Established(k)
    /\ doubt' = {} /\ unreported' = 0
    /\ last' = Last("other", "OK")
    /\ UNCHANGED mac_mismatch

\* a pass is refused, lost, too short or does not check out: the session before
\* it is gone, and the card may have a new one
FirstFailed ==
    /\ reader' = Dropped(reader)
    /\ card' \in {card, NoSession} \cup {Established(k) : k \in FreshKeys}
    /\ doubt' = AllDoubt /\ unreported' = 0
    /\ \E rc \in Lost \cup {"CARD", "AUTH"} : last' = Last("other", rc)
    /\ UNCHANGED mac_mismatch

\* plus_data_iv(): RndB and RndA travel under IVs of the TI and the low bytes of
\* the counters, and come out wrong when one side's are not the other's
IvsMatch ==
    /\ reader.ti = card.ti
    /\ LowByte(reader.r) = LowByte(card.r)
    /\ LowByte(reader.w) = LowByte(card.w)

Rekeyed(s, k) == [s EXCEPT !.key = k]

\* the code asks for no session of the reader's, the card has to have one
AuthenticateNonFirst ==
    /\ Open(card) /\ IvsMatch
    /\ \E k \in FreshKeys : reader' = Rekeyed(reader, k) /\ card' = [card EXCEPT !.key = k]
    /\ doubt' = {}
    /\ last' = Last("other", "OK")
    /\ UNCHANGED <<mac_mismatch, unreported>>

\* nothing of the reader's changes before the last check
NonFirstFailed ==
    /\ card' \in {card, NoSession}
                 \cup (IF Open(card) /\ IvsMatch THEN {[card EXCEPT !.key = k] : k \in FreshKeys}
                       ELSE {})
    /\ doubt' = doubt \cup {"session"}
    /\ \E rc \in Lost \cup {"CARD", "AUTH"} : last' = Last("other", rc)
    /\ UNCHANGED <<reader, mac_mismatch, unreported>>

-----------------------------------------------------------------------------
\* nxpsc_plus_reset_auth(): the reader's session goes whatever the outcome
ResetAuth ==
    /\ reader' = Dropped(reader)
    /\ unreported' = 0
    /\ \/ card' = NoSession /\ doubt' = {} /\ \E rc \in {"OK", "CARD"} : last' = Last("other", rc)
       \/ card' \in {card, NoSession} /\ doubt' = AllDoubt /\ last' = Last("other", "TRANSPORT")
    /\ UNCHANGED mac_mismatch

\* nxpsc_plus_write_perso(), _commit_perso(), _set_config_sl1(),
\* _personalize_uid() and _vc_support_last_iso_l3(): a plain frame
PlainFrame ==
    /\ card' \in {card, NoSession}
    /\ doubt' = doubt \cup {"session"}
    /\ \E rc \in Lost \cup {"OK", "CARD"} : last' = Last("other", rc)
    /\ UNCHANGED <<reader, mac_mismatch, unreported>>

\* nxpsc_reset_channel()
ResetChannel ==
    /\ reader' = Dropped(reader)
    /\ doubt' = AllDoubt /\ unreported' = 0
    /\ last' = Last("other", "OK")
    /\ UNCHANGED <<mac_mismatch, card>>

\* nxpsc_exchange() outside a session, nxpsc_get_version() for one
Exchange ==
    /\ ~authenticated
    /\ mac_mismatch' = FALSE
    /\ card' \in {card, NoSession}
    /\ \E rc \in Lost \cup {"OK", "CARD"} : last' = Last("other", rc)
    /\ UNCHANGED <<reader, doubt, unreported>>

\* the card leaves the field and comes back
FieldLost ==
    /\ card' = NoSession
    /\ doubt' = doubt \cup {"session"}
    /\ last' = Last("other", "OK")
    /\ UNCHANGED <<reader, mac_mismatch, unreported>>

-----------------------------------------------------------------------------
Init ==
    /\ reader = NoSession /\ card = NoSession
    /\ mac_mismatch = FALSE
    /\ doubt = {} /\ unreported = 0
    /\ last = Last("other", "OK")

Next ==
    \/ Refused
    \/ \E type \in {"read", "write"} : CallLost(type) \/ CallRejected(type)
    \/ \E maced, garbled \in BOOLEAN : ReadDone(maced, garbled)
    \/ WriteDone
    \/ AuthenticateFirst \/ FirstFailed \/ AuthenticateNonFirst \/ NonFirstFailed
    \/ ResetAuth \/ PlainFrame \/ ResetChannel \/ Exchange \/ FieldLost

Spec == Init /\ [][Next]_vars

-----------------------------------------------------------------------------
(***************************************************************************)
(* Properties.                                                             *)
(***************************************************************************)
\* Every variable has its type, and the reader has a TI exactly while it has a
\* session: a non-first authentication relies on it, and checks neither.
TypeOK ==
    /\ reader \in Sessions /\ card \in Sessions
    /\ mac_mismatch \in BOOLEAN /\ doubt \subseteq AllDoubt /\ unreported \in Nat
    /\ last \in Lasts
    /\ \A s \in {reader, card} : Open(s) <=> s.ti # NoKey

\* An answer proves something, and what it proves lasts: a read or a write that
\* the card answered shows that both sides have the session and that counter, a
\* non-first authentication that they have the TI and both counters, although its
\* IVs hold only their low bytes; until the next loss the two sides then agree.
InStep ==
    /\ "session" \notin doubt => reader.key = card.key /\ reader.ti = card.ti
    /\ Open(card) /\ reader.ti = card.ti =>
          /\ "r" \notin doubt => reader.r = card.r
          /\ "w" \notin doubt => reader.w = card.w

\* However often the caller repeats a write or a value operation within a
\* session, and however often its key is replaced, at most one of them was carried
\* out without being reported as done, and none was reported that was not carried
\* out (plus_w_ctr++ comes after the status check).
AtMostOnce == unreported \in 0..1

\* A write whose answer was lost shuts the session for writing, and no non-first
\* authentication opens it again (mifare_plus.md: a lost answer means the session
\* must be restarted).
LostWriteBlocks == [][unreported = 1 /\ last'.call = "write" => last'.rc # "OK"]_vars

\* A MAC error is reported for an answer whose own MAC failed
\* (nxpsc_internal.h, on mac_mismatch).
CryptoMeansMac == [][last'.rc = "CRYPTO" => last'.mac_failed]_vars

\* What the properties rest on: within a session the card is ahead of the reader by
\* at most the one command whose answer was lost.
AheadByOne ==
    Open(card) /\ reader.ti = card.ti =>
        /\ card.r \in {reader.r, Inc(reader.r)}
        /\ card.w = IF unreported = 0 THEN reader.w ELSE Inc(reader.w)

IInv == TypeOK /\ InStep /\ AtMostOnce /\ AheadByOne
=============================================================================
