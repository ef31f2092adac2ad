----------------------------- MODULE PlusProofs -----------------------------
(***************************************************************************)
(* Machine-checked proofs about Plus, for every set of keys and every      *)
(* width of the counters that is a multiple of the width an IV takes.      *)
(***************************************************************************)
EXTENDS Plus, TLAPS

-----------------------------------------------------------------------------
(***************************************************************************)
(* Counters and sessions.                                                  *)
(***************************************************************************)
\* An incremented counter is a counter, and another one.
LEMMA IncCtr ==
    ASSUME NEW c \in Ctrs
    PROVE  Inc(c) \in Ctrs /\ Inc(c) # c
  <1>1. CtrMod >= 2
    <2>1. CASE CtrMod = 1
      BY <2>1, PlusAssumption
    <2> QED BY <2>1, PlusAssumption
  <1> QED BY <1>1, PlusAssumption DEF Inc, Ctrs

\* The low byte tells a counter from the next one, also where the counter wraps:
\* why the IVs of a non-first authentication need no more of it.
LEMMA LowByteInc ==
    ASSUME NEW c \in Ctrs
    PROVE  LowByte(Inc(c)) # LowByte(c)
  <1>1. CASE c + 1 = CtrMod
    BY <1>1, PlusAssumption DEF Inc, Ctrs, LowByte
  <1>2. CASE c + 1 # CtrMod
    BY <1>2, PlusAssumption DEF Inc, Ctrs, LowByte
  <1> QED BY <1>1, <1>2

\* a session has a TI exactly while it is open
Whole(s) == s \in Sessions /\ (Open(s) <=> s.ti # NoKey)

\* Closing, opening, rekeying and counting leave a session whole.
LEMMA SessionsWhole ==
    /\ Whole(NoSession)
    /\ \A k \in Keys : Whole(Established(k)) /\ Open(Established(k))
    /\ \A s : Whole(s) =>
          /\ Whole(Dropped(s)) /\ ~Open(Dropped(s)) /\ Dropped(s).ti = NoKey
          /\ \A k \in Keys : Open(s) => Whole([s EXCEPT !.key = k])
          /\ \A type : Whole(Counted(s, type))
  <1>1. 0 \in Ctrs
    BY PlusAssumption DEF Ctrs
  <1>2. ASSUME NEW s, Whole(s), NEW type PROVE Whole(Counted(s, type))
    BY <1>2, IncCtr DEF Whole, Sessions, Open, Counted
  <1>3. ASSUME NEW s, Whole(s)
        PROVE  /\ Whole(Dropped(s)) /\ ~Open(Dropped(s)) /\ Dropped(s).ti = NoKey
               /\ \A k \in Keys : Open(s) => Whole([s EXCEPT !.key = k])
    BY <1>3, PlusAssumption DEF Whole, Sessions, Open, Dropped
  <1> QED BY <1>1, <1>2, <1>3, PlusAssumption DEF Whole, Sessions, Open, NoSession, Established

\* The return codes and calls are the declared ones.
LEMMA LastType ==
    \A call \in {"read", "write", "other"}, rc \in Rcs : Last(call, rc) \in Lasts
  BY DEF Last, Lasts, Rcs

\* TypeOK, session by session.
LEMMA TypeOKWhole ==
    TypeOK <=> /\ Whole(reader) /\ Whole(card)
               /\ mac_mismatch \in BOOLEAN /\ doubt \subseteq AllDoubt /\ unreported \in Nat
               /\ last \in Lasts
  BY DEF TypeOK, Whole

LEMMA TypeOKWholePrime ==
    /\ Whole(reader') /\ Whole(card')
    /\ mac_mismatch' \in BOOLEAN /\ doubt' \subseteq AllDoubt /\ unreported' \in Nat
    /\ last' \in Lasts
    => TypeOK'
  BY DEF TypeOK, Whole

-----------------------------------------------------------------------------
(***************************************************************************)
(* The invariant.                                                          *)
(***************************************************************************)
LEMMA InitIInv == Init => IInv
  <1> SUFFICES ASSUME Init PROVE IInv
    OBVIOUS
  <1>1. TypeOK
    BY SessionsWhole, LastType, TypeOKWhole DEF Init, Rcs
  <1>2. InStep /\ AtMostOnce /\ AheadByOne
    BY DEF Init, InStep, AtMostOnce, AheadByOne, Open, NoSession
  <1> QED BY <1>1, <1>2 DEF IInv

\* A step that leaves the reader alone, moves neither counter of the card's and at
\* most closes or rekeys its session keeps the invariant, if it doubts the session.
LEMMA CardAlone ==
    ASSUME IInv, [Next]_vars, reader' = reader, unreported' = unreported,
           mac_mismatch' \in BOOLEAN, last' \in Lasts,
           doubt' = doubt \cup {"session"},
           \/ card' \in {card, NoSession}
           \/ Open(card) /\ \E k \in Keys : card' = [card EXCEPT !.key = k]
    PROVE  IInv'
  <1>1. TypeOK'
    BY TypeOKWhole, TypeOKWholePrime, SessionsWhole DEF IInv, AllDoubt
  <1>2. \/ ~Open(card')
        \/ Open(card) /\ card'.ti = card.ti /\ card'.r = card.r /\ card'.w = card.w
    BY TypeOKWhole DEF IInv, Whole, Sessions, Open, NoSession
  <1>3. InStep' /\ AheadByOne'
    BY <1>2 DEF IInv, InStep, AheadByOne, Open
  <1> QED BY <1>1, <1>3 DEF IInv, AtMostOnce

\* A step that closes the reader's session, in whatever state it leaves the card.
LEMMA ReaderDropped ==
    ASSUME IInv, reader' = Dropped(reader), unreported' = 0, Whole(card'),
           mac_mismatch' = mac_mismatch, last' \in Lasts,
           doubt' = AllDoubt \/ (doubt' = {} /\ card' = NoSession)
    PROVE  IInv'
  <1>1. Whole(reader') /\ reader'.ti = NoKey /\ ~Open(reader')
    BY TypeOKWhole, SessionsWhole DEF IInv
  <1>2. TypeOK'
    BY <1>1, TypeOKWhole, TypeOKWholePrime DEF IInv, AllDoubt
  <1>3. ~(Open(card') /\ reader'.ti = card'.ti)
    BY <1>1 DEF Whole
  <1>4. InStep' /\ AheadByOne'
    BY <1>1, <1>3 DEF InStep, AheadByOne, Open, NoSession, AllDoubt
  <1> QED BY <1>2, <1>4 DEF IInv, AtMostOnce

\* A command whose answer arrives is counted on both sides.
LEMMA Answered ==
    ASSUME IInv, NEW type \in {"read", "write"},
           authenticated, CardAccepts(type),
           card' = Counted(card, type), reader' = Counted(reader, type),
           doubt' = doubt \ {"session", Ctr(type)}, unreported' = unreported,
           mac_mismatch' \in BOOLEAN, last' \in Lasts
    PROVE  IInv'
  <1>1. TypeOK'
    BY TypeOKWhole, TypeOKWholePrime, SessionsWhole DEF IInv
  <1>2. Whole(reader) /\ Whole(card)
    BY TypeOKWhole DEF IInv
  <1>3. CASE type = "read"
    <2>1. reader.key = card.key /\ reader.ti = card.ti /\ reader.r = card.r /\ Open(card)
      BY <1>3 DEF CardAccepts, plus_mac
    <2>2. /\ reader'.key = card'.key /\ reader'.ti = card'.ti /\ reader'.r = card'.r
          /\ reader'.w = reader.w /\ card'.w = card.w
      BY <1>2, <1>3, <2>1 DEF Counted, Whole, Sessions
    <2>3. InStep' /\ AheadByOne'
      BY <1>3, <2>1, <2>2 DEF IInv, InStep, AheadByOne, Ctr
    <2> QED BY <1>1, <2>3 DEF IInv, AtMostOnce
  <1>4. CASE type = "write"
    <2>1. /\ reader.key = card.key /\ reader.ti = card.ti /\ reader.w = card.w /\ Open(card)
      BY <1>4 DEF CardAccepts, plus_mac
    <2>2. unreported = 0
      BY <1>2, <2>1, IncCtr DEF IInv, AheadByOne, Whole, Sessions
    <2>3. /\ reader'.key = card'.key /\ reader'.ti = card'.ti /\ reader'.w = card'.w
          /\ reader'.r = reader.r /\ card'.r = card.r
      BY <1>2, <1>4, <2>1 DEF Counted, Whole, Sessions
    <2>4. InStep' /\ AheadByOne'
      BY <1>4, <2>1, <2>2, <2>3 DEF IInv, InStep, AheadByOne, Ctr
    <2> QED BY <1>1, <2>4 DEF IInv, AtMostOnce
  <1> QED BY <1>3, <1>4

\* A command carried out whose answer is lost puts the card one ahead.
LEMMA Unanswered ==
    ASSUME IInv, NEW type \in {"read", "write"}, CardAccepts(type),
           card' = Counted(card, type), reader' = reader,
           unreported' = IF type = "write" THEN unreported + 1 ELSE unreported,
           doubt' = doubt \cup {"session", Ctr(type)},
           mac_mismatch' = mac_mismatch, last' \in Lasts
    PROVE  IInv'
  <1>1. Whole(reader) /\ Whole(card) /\ unreported \in Nat
    BY TypeOKWhole DEF IInv
  <1>2. TypeOK'
    <2>1. Whole(reader') /\ Whole(card')
      BY <1>1, SessionsWhole
    <2>2. unreported' \in Nat
      BY <1>1
    <2>3. doubt' \subseteq AllDoubt /\ mac_mismatch' \in BOOLEAN
      BY TypeOKWhole DEF IInv, AllDoubt, Ctr
    <2> QED BY <2>1, <2>2, <2>3, TypeOKWholePrime
  <1>3. CASE type = "read"
    <2>1. reader.ti = card.ti /\ reader.r = card.r /\ Open(card)
      BY <1>3 DEF CardAccepts, plus_mac
    <2>2. card'.ti = card.ti /\ card'.r = Inc(reader.r) /\ card'.w = card.w
      BY <1>1, <1>3, <2>1 DEF Counted, Whole, Sessions
    <2>3. InStep' /\ AheadByOne'
      BY <1>3, <2>1, <2>2 DEF IInv, InStep, AheadByOne, Ctr
    <2> QED BY <1>2, <1>3, <2>3 DEF IInv, AtMostOnce
  <1>4. CASE type = "write"
    <2>1. reader.ti = card.ti /\ reader.w = card.w /\ Open(card)
      BY <1>4 DEF CardAccepts, plus_mac
    <2>2. unreported = 0
      BY <1>1, <2>1, IncCtr DEF IInv, AheadByOne, Whole, Sessions
    <2>3. card'.ti = card.ti /\ card'.w = Inc(reader.w) /\ card'.r = card.r
      BY <1>1, <1>4, <2>1 DEF Counted, Whole, Sessions
    <2>4. InStep' /\ AheadByOne'
      BY <1>4, <2>1, <2>2, <2>3 DEF IInv, InStep, AheadByOne, Ctr
    <2> QED BY <1>2, <1>4, <2>2, <2>4 DEF IInv, AtMostOnce
  <1> QED BY <1>3, <1>4

\* When the IVs of a non-first authentication match, so do the counters.
LEMMA IvsProveCounters ==
    ASSUME IInv, Open(card), IvsMatch
    PROVE  reader.ti = card.ti /\ reader.r = card.r /\ reader.w = card.w
  <1>1. reader \in Sessions
    BY DEF IInv, TypeOK
  <1> QED BY <1>1, LowByteInc DEF IInv, AheadByOne, IvsMatch, Sessions

LEMMA NextIInv == IInv /\ [Next]_vars => IInv'
  <1> SUFFICES ASSUME IInv, [Next]_vars PROVE IInv'
    OBVIOUS
  <1>1. Whole(reader) /\ Whole(card) /\ mac_mismatch \in BOOLEAN
    BY TypeOKWhole DEF IInv
  <1>2. FreshKeys \subseteq Keys
    BY DEF FreshKeys
  <1>3. CASE Refused
    <2>1. last' \in Lasts
      BY <1>3, LastType DEF Refused, Rcs
    <2> QED BY <1>3, <2>1 DEF Refused, IInv, TypeOK, InStep, AtMostOnce, AheadByOne, Open
  <1>4. ASSUME NEW type \in {"read", "write"}, CallLost(type) PROVE IInv'
    <2>1. last' \in Lasts
      BY <1>4, LastType DEF CallLost, Lost, Rcs
    <2>2. CASE card' \in {card, NoSession} /\ UNCHANGED unreported
      <3>1. /\ ~Open(card') \/ card' = card
            /\ Whole(card')
        BY <1>1, <2>2, SessionsWhole DEF Open, NoSession
      <3>2. TypeOK'
        BY <1>1, <1>4, <2>1, <2>2, <3>1, TypeOKWhole, TypeOKWholePrime
           DEF IInv, CallLost, AllDoubt, Ctr
      <3>3. InStep' /\ AheadByOne'
        BY <1>4, <2>2, <3>1 DEF IInv, InStep, AheadByOne, CallLost, Open
      <3> QED BY <2>2, <3>2, <3>3 DEF IInv, AtMostOnce
    <2>3. CASE /\ CardAccepts(type) /\ card' = Counted(card, type)
               /\ unreported' = IF type = "write" THEN unreported + 1 ELSE unreported
      BY <1>4, <2>1, <2>3, Unanswered DEF CallLost
    <2> QED BY <1>4, <2>2, <2>3 DEF CallLost
  <1>5. ASSUME NEW type \in {"read", "write"}, CallRejected(type) PROVE IInv'
    <2>1. last' \in Lasts
      BY <1>5, LastType DEF CallRejected, Rcs
    <2> QED BY <1>1, <1>5, <2>1, CardAlone DEF CallRejected
  <1>6. ASSUME NEW maced \in BOOLEAN, NEW garbled \in BOOLEAN, ReadDone(maced, garbled)
        PROVE  IInv'
    <2>1. last' \in Lasts /\ mac_mismatch' \in BOOLEAN
      BY <1>1, <1>6 DEF ReadDone, Last, Lasts, Rcs
    <2> QED BY <1>6, <2>1, Answered DEF ReadDone, AfterRead, Ctr
  <1>7. CASE WriteDone
    <2>1. last' \in Lasts
      BY <1>7, LastType DEF WriteDone, Rcs
    <2> QED BY <1>1, <1>7, <2>1, Answered DEF WriteDone, Ctr
  <1>8. CASE AuthenticateFirst
    <2>1. PICK k \in FreshKeys : reader' = Established(k) /\ card' = Established(k)
      BY <1>8 DEF AuthenticateFirst
    <2>2. TypeOK'
      BY <1>1, <1>2, <1>8, <2>1, SessionsWhole, LastType, TypeOKWholePrime
         DEF AuthenticateFirst, Rcs
    <2>3. InStep' /\ AheadByOne'
      BY <1>8, <2>1 DEF AuthenticateFirst, InStep, AheadByOne
    <2> QED BY <1>8, <2>2, <2>3 DEF IInv, AtMostOnce, AuthenticateFirst
  <1>9. CASE FirstFailed
    <2>1. Whole(card') /\ last' \in Lasts
      BY <1>1, <1>2, <1>9, SessionsWhole, LastType DEF FirstFailed, Lost, Rcs
    <2> QED BY <1>9, <2>1, ReaderDropped DEF FirstFailed
  <1>10. CASE AuthenticateNonFirst
    <2>1. PICK k \in FreshKeys : reader' = Rekeyed(reader, k) /\ card' = [card EXCEPT !.key = k]
      BY <1>10 DEF AuthenticateNonFirst
    <2>2. reader.ti = card.ti /\ reader.r = card.r /\ reader.w = card.w /\ Open(card)
      BY <1>10, IvsProveCounters DEF AuthenticateNonFirst
    <2>3. Open(reader)
      BY <1>1, <2>2 DEF Whole
    <2>4. /\ reader'.key = card'.key /\ reader'.ti = card'.ti
          /\ reader'.r = card'.r /\ reader'.w = card'.w
          /\ card'.r = card.r /\ card'.w = card.w
      BY <1>1, <2>1, <2>2 DEF Whole, Sessions, Rekeyed
    <2>5. TypeOK'
      BY <1>1, <1>2, <1>10, <2>1, <2>2, <2>3, SessionsWhole, LastType, TypeOKWhole, TypeOKWholePrime
         DEF IInv, AuthenticateNonFirst, Rekeyed, Rcs
    <2>6. InStep' /\ AheadByOne'
      BY <1>10, <2>2, <2>4 DEF IInv, InStep, AheadByOne, AuthenticateNonFirst
    <2> QED BY <1>10, <2>5, <2>6 DEF IInv, AtMostOnce, AuthenticateNonFirst
  <1>11. CASE NonFirstFailed
    <2>1. last' \in Lasts
      BY <1>11, LastType DEF NonFirstFailed, Lost, Rcs
    <2> QED BY <1>1, <1>2, <1>11, <2>1, CardAlone DEF NonFirstFailed
  <1>12. CASE ResetAuth
    <2>1. Whole(card') /\ last' \in Lasts
      BY <1>1, <1>12, SessionsWhole, LastType DEF ResetAuth, Rcs
    <2> QED BY <1>12, <2>1, ReaderDropped DEF ResetAuth
  <1>13. CASE PlainFrame
    <2>1. last' \in Lasts
      BY <1>13, LastType DEF PlainFrame, Lost, Rcs
    <2> QED BY <1>1, <1>13, <2>1, CardAlone DEF PlainFrame
  <1>14. CASE ResetChannel
    <2>1. last' \in Lasts
      BY <1>14, LastType DEF ResetChannel, Rcs
    <2> QED BY <1>1, <1>14, <2>1, ReaderDropped DEF ResetChannel
  <1>15. CASE Exchange
    <2>1. last' \in Lasts
      BY <1>15, LastType DEF Exchange, Lost, Rcs
    <2>2. card' = card \/ card' = NoSession
      BY <1>15 DEF Exchange
    <2>3. reader.ti = NoKey /\ reader.key = NoKey
      BY <1>1, <1>15 DEF Exchange, authenticated, Open, Whole
    <2>4. TypeOK'
      BY <1>1, <1>15, <2>1, <2>2, SessionsWhole, TypeOKWhole, TypeOKWholePrime DEF IInv, Exchange
    <2>5. InStep' /\ AheadByOne'
      BY <1>1, <1>15, <2>2, <2>3
         DEF IInv, Exchange, InStep, AheadByOne, Open, NoSession, Whole
    <2> QED BY <1>15, <2>4, <2>5 DEF IInv, AtMostOnce, Exchange
  <1>16. CASE FieldLost
    <2>1. last' \in Lasts
      BY <1>16, LastType DEF FieldLost, Rcs
    <2> QED BY <1>1, <1>16, <2>1, CardAlone DEF FieldLost
  <1>17. CASE UNCHANGED vars
    BY <1>17 DEF vars, IInv, TypeOK, InStep, AtMostOnce, AheadByOne, Open
  <1> QED BY <1>3, <1>4, <1>5, <1>6, <1>7, <1>8, <1>9, <1>10, <1>11, <1>12, <1>13, <1>14, <1>15,
            <1>16, <1>17 DEF Next

\* The two sides' counters are never more than one lost answer apart, whatever the
\* caller does, and the low byte of a counter in an IV stands for all of it.
THEOREM PlusInductive == Spec => []IInv
  BY InitIInv, NextIInv, PTL DEF Spec

-----------------------------------------------------------------------------
(***************************************************************************)
(* What the runs check.                                                    *)
(***************************************************************************)
\* Every variable keeps its type, and the reader has a TI only inside a session
\* (nxpsc_reset_channel()).
THEOREM PlusTypeOK == Spec => []TypeOK
  BY PlusInductive, PTL DEF IInv

\* Every answered command and every non-first authentication proves agreement
\* (plus_mac(), plus_data_iv() of nxpsc_plus.c).
THEOREM PlusInStep == Spec => []InStep
  BY PlusInductive, PTL DEF IInv

\* Within a session, no repetition of a write or value operation whose answer was
\* lost is carried out again (plus_write_block()).
THEOREM PlusAtMostOnce == Spec => []AtMostOnce
  BY PlusInductive, PTL DEF IInv

\* After a lost answer to a write, no write of the session succeeds any more,
\* whatever authentications other than a first one come between.
THEOREM PlusLostWriteBlocks == Spec => LostWriteBlocks
  <1>1. IInv /\ [Next]_vars => [unreported = 1 /\ last'.call = "write" => last'.rc # "OK"]_vars
    <2> SUFFICES ASSUME IInv, Next, unreported = 1, last'.call = "write", last'.rc = "OK"
                 PROVE  FALSE
      BY DEF vars
    <2>1. WriteDone
      BY DEF Next, Refused, CallLost, CallRejected, ReadDone, AuthenticateFirst, FirstFailed,
         AuthenticateNonFirst, NonFirstFailed, ResetAuth, PlainFrame, ResetChannel, Exchange,
         FieldLost, Last, Lost
    <2>2. Open(card) /\ reader.ti = card.ti /\ reader.w = card.w /\ reader \in Sessions
      BY <2>1 DEF WriteDone, CardAccepts, plus_mac, IInv, TypeOK
    <2> QED BY <2>2, IncCtr DEF IInv, AheadByOne, Sessions
  <1> QED BY <1>1, PlusInductive, PTL DEF Spec, LostWriteBlocks
=============================================================================
