------------------------------ MODULE Framing ------------------------------
(***************************************************************************)
(* nxpsc_raw_exchange_ex() frame by frame: a payload longer than a frame   *)
(* goes out in pieces, each but the last acknowledged with 0xAF, and an    *)
(* answer longer than a frame is collected by sending 0xAF for as long as  *)
(* the card answers with it.  One step is one frame there and back.        *)
(*                                                                         *)
(* The card is external.  It knows from a command how long its payload is, *)
(* abandons a chain when a new command arrives, and may end any chain with *)
(* an error status.  What it still holds of a call that failed half way,   *)
(* or did not follow an 0xAF, is what the next call meets.  The 0xAF that  *)
(* a caller sends itself, to go on with a handshake, is not a call here.   *)
(***************************************************************************)
EXTENDS Integers, Sequences

CONSTANTS
    MaxCalls,           \* bound on the number of calls
    MaxLen,             \* the longest payload a caller passes
    NXPSC_TX_FRAME_MAX, \* 54 in the code
    CardFrame,          \* the most bytes the card puts into a frame
    MaxAnswer,          \* the longest answer that ends
    Endless,            \* the answer of a card that never stops sending 0xAF
    Cap                 \* the size of the caller's buffer

ASSUME FramingAssumption ==
    /\ MaxCalls \in Nat /\ MaxLen \in Nat /\ MaxAnswer \in Nat /\ Cap \in Nat
    /\ NXPSC_TX_FRAME_MAX \in Nat \ {0} /\ CardFrame \in Nat \ {0}
    /\ Endless \notin Int

VARIABLES
    pc,         \* where the call is: "idle", "sending" or "following" 0xAF
    call,       \* the number of the current or last call
    len,        \* the length of its payload
    follow_af,  \* whether it follows 0xAF or leaves that to its caller
    sent,       \* bytes of it the card has acknowledged
    status,     \* *status
    result,     \* the return code, and resp up to total
    card,       \* what the card is at
    log         \* history: the commands the card carried out

vars == <<pc, call, len, follow_af, sent, status, result, card, log>>

Payloads == 0..MaxLen
Answers == (0..MaxAnswer) \cup {Endless}

\* the call running when the implementation is looked at as OneExchange
One == INSTANCE OneExchange WITH
           pending <- IF pc = "idle" THEN 0 ELSE call,
           result <- IF pc = "idle" THEN result ELSE [rc |-> "LENGTH", data |-> << >>]

\* call c's bytes, payload or answer
Bytes(c, i, n) == One!Bytes(c, i, n)

AtMost(n, limit) == IF n > limit THEN limit ELSE n

-----------------------------------------------------------------------------
(***************************************************************************)
(* The card.                                                               *)
(***************************************************************************)
Idle == [doing |-> "nothing", in |-> << >>, need |-> 0, call |-> 0, pos |-> 0, answer |-> 0]

\* some of the need bytes of call c's payload are in
Receiving(c, in, need) ==
    [doing |-> "receiving", in |-> in, need |-> need, call |-> c, pos |-> 0, answer |-> 0]

\* pos bytes of the answer to call c are out
Answering(c, pos, a) ==
    [doing |-> "answering", in |-> << >>, need |-> 0, call |-> c, pos |-> pos, answer |-> a]

\* an outcome of a frame: the card afterwards, the status and the bytes it
\* answers with, and the log
Outcome(c, s, data, l) == [card |-> c, status |-> s, data |-> data, log |-> l]

Refusal == Outcome(Idle, "error", << >>, log)

\* the next frame of an answer; one that says 0xAF carries data, and one that is
\* done may still say 0xAF and send an empty frame after it
Emissions(c, l) ==
    LET left  == IF c.answer = Endless THEN CardFrame ELSE c.answer - c.pos
        Emit(s, n) == Outcome(IF s = "AF" THEN Answering(c.call, c.pos + n, c.answer) ELSE Idle,
                              s, Bytes(c.call, c.pos, n), l)
    IN  {Emit("AF", n) : n \in 1..AtMost(left, CardFrame)}
        \cup IF c.answer # Endless /\ left <= CardFrame THEN {Emit("OK", left)} ELSE {}

\* the payload so far: either a piece is missing, or the command is carried out
Receptions(in, need, c) ==
    IF Len(in) < need
    THEN {Outcome(Receiving(c, in, need), "AF", << >>, log)}
    ELSE UNION {Emissions(Answering(c, 0, a),
                          Append(log, [call |-> c, payload |-> in, answer |-> a])) : a \in Answers}

\* a command starts over, 0xAF continues
CardOutcomes(cmd, piece) ==
    {Refusal} \cup
    CASE cmd = "command" -> Receptions(piece, len, call)
      [] cmd = "AF" /\ card.doing = "receiving" -> Receptions(card.in \o piece, card.need, card.call)
      [] cmd = "AF" /\ card.doing = "answering" -> Emissions(card, log)
      [] OTHER -> {}

-----------------------------------------------------------------------------
(***************************************************************************)
(* The library.                                                            *)
(***************************************************************************)
Return(rc, data) ==
    /\ pc' = "idle"
    /\ result' = [rc |-> rc, data |-> data]

\* mutant of Failed: the call starts over
Failed_retries(rc) ==
    /\ pc' = "sending" /\ sent' = 0
    /\ UNCHANGED <<call, len, follow_af, status, result>>

\* frame_exchange() failed: so has the call
Failed(rc) ==
    /\ Return(rc, << >>)
    /\ UNCHANGED <<call, len, follow_af, sent, status>>

\* the frame or its answer is lost, or the answer is too short or not wrapped as
\* the request was
Lost(cmd, piece) ==
    /\ \/ UNCHANGED <<card, log>>
       \/ \E o \in CardOutcomes(cmd, piece) : card' = o.card /\ log' = o.log
    /\ \E rc \in {"TRANSPORT", "LENGTH", "CARD"} : Failed(rc)

\* mutant of Collected: each frame lands at the start of the buffer
Collected_overwrites(data) == data

\* memcpy(resp + total, chunk, got)
Collected(data) == result.data \o data

\* the bytes of a frame of the answer, if they fit
Collect(o) ==
    IF Len(Collected(o.data)) > Cap
    THEN Return("LENGTH", << >>)
    ELSE IF follow_af /\ o.status = "AF"
    THEN pc' = "following" /\ result' = [result EXCEPT !.data = Collected(o.data)]
    ELSE Return(IF o.status = "OK" THEN "OK" ELSE "STATUS", Collected(o.data))

Call(n, follow) ==
    /\ pc = "idle" /\ call < MaxCalls
    /\ pc' = "sending"
    /\ call' = call + 1 /\ len' = n /\ follow_af' = follow /\ sent' = 0
    /\ result' = One!NoResult
    /\ UNCHANGED <<status, card, log>>

\* mutant of Piece: the pieces of a chained request overlap by a byte
Piece_overlaps == LET from == IF sent = 0 THEN 0 ELSE sent - 1
                  IN  Bytes(call, from, AtMost(len - sent, NXPSC_TX_FRAME_MAX))

\* the next bytes of the payload
Piece == Bytes(call, sent, AtMost(len - sent, NXPSC_TX_FRAME_MAX))

SendCmd == IF sent = 0 THEN "command" ELSE "AF"

\* a frame of the request, all but the last of which must be answered with 0xAF
SendFrame ==
    /\ pc = "sending"
    /\ \E o \in CardOutcomes(SendCmd, Piece) :
          /\ card' = o.card /\ log' = o.log /\ status' = o.status
          /\ sent' = sent + Len(Piece)
          /\ IF sent' = len THEN Collect(o)
             ELSE IF o.status = "AF" THEN UNCHANGED <<pc, result>>
             ELSE Return("CARD", << >>)
    /\ UNCHANGED <<call, len, follow_af>>

SendLost == pc = "sending" /\ Lost(SendCmd, Piece)

FollowFrame ==
    /\ pc = "following"
    /\ \E o \in CardOutcomes("AF", << >>) :
          card' = o.card /\ log' = o.log /\ status' = o.status /\ Collect(o)
    /\ UNCHANGED <<call, len, follow_af, sent>>

FollowLost == pc = "following" /\ Lost("AF", << >>)

-----------------------------------------------------------------------------
Init ==
    /\ pc = "idle" /\ call = 0 /\ len = 0 /\ follow_af = TRUE /\ sent = 0 /\ status = "OK"
    /\ result = One!NoResult
    /\ card = Idle /\ log = << >>

Step == SendFrame \/ SendLost \/ FollowFrame \/ FollowLost

Next == (\E n \in Payloads, follow \in BOOLEAN : Call(n, follow)) \/ Step

\* the transport returns from every frame, and the library goes on with the next
Spec == Init /\ [][Next]_vars /\ WF_vars(Step)

-----------------------------------------------------------------------------
(***************************************************************************)
(* Properties.                                                             *)
(***************************************************************************)
\* What the buffer holds never exceeds it, and is of the call that runs, from its
\* first byte on.
TypeOK ==
    /\ pc \in {"idle", "sending", "following"}
    /\ call \in 0..MaxCalls /\ len \in Payloads /\ sent \in 0..len
    /\ follow_af \in BOOLEAN /\ status \in {"OK", "AF", "error"}
    /\ result.rc \in One!Rcs
    /\ Len(result.data) <= Cap
    /\ result.data = Bytes(call, 0, Len(result.data))

\* Chaining is invisible: a call is one command, carried out at most once, on its
\* own payload whole and in order, and a success returns the whole of its own
\* answer, whatever an earlier call that failed half way has left on the card
\* (nxpsc_raw_exchange_ex() in nxpsc_core.c).
Implements == One!Spec

\* Every call returns, even if the card answers 0xAF for ever: each such frame
\* carries data and the caller's buffer ends.
Returned == pc # "idle" ~> pc = "idle"
=============================================================================
