---------------------------- MODULE OneExchange ----------------------------
(***************************************************************************)
(* What nxpsc_raw_exchange() promises its callers: one command, carried    *)
(* out at most once and on exactly the payload it was given, and on        *)
(* success the whole of its own answer.  How many frames either takes is   *)
(* not visible here.  SecureChannel is written against this: its CallLost, *)
(* CallCutShort, CallRejected and CallDone are the ways a call can return. *)
(***************************************************************************)
EXTENDS Integers, Sequences

CONSTANTS
    MaxCalls,   \* bound on the number of calls
    Payloads,   \* lengths of payloads in bytes
    Answers     \* what a card may have to answer: a length in bytes, or no end of it

VARIABLES
    pending,    \* the number of the call that runs, 0 when none does
    len,        \* the length of its payload
    log,        \* the commands the card carried out, in order
    result      \* what the last call returned

vars == <<pending, len, log, result>>

\* n bytes of call c, from the one numbered i + 1 on
Bytes(c, i, n) == [j \in 1..n |-> <<c, i + j>>]

\* OK: answered with a success, STATUS: with an error status; the others are
\* return codes
Rcs == {"OK", "STATUS", "CARD", "TRANSPORT", "LENGTH"}

NoResult == [rc |-> "LENGTH", data |-> << >>]

Init == pending = 0 /\ len = 0 /\ log = << >> /\ result = NoResult

CarriedOut == log # << >> /\ log[Len(log)].call = pending

Carry(a) ==
    /\ pending # 0 /\ ~CarriedOut
    /\ log' = Append(log, [call |-> pending, payload |-> Bytes(pending, 0, len), answer |-> a])

Begin(c, n) ==
    /\ pending = 0
    /\ \A i \in 1..Len(log) : log[i].call # c
    /\ pending' = c /\ len' = n
    /\ result' = NoResult
    /\ UNCHANGED log

CarryOut == \E a \in Answers : Carry(a) /\ UNCHANGED <<pending, len, result>>

\* a success only after the card carried the call out, and with its own answer
Return(rc) ==
    /\ pending # 0
    /\ pending' = 0
    /\ UNCHANGED log \/ \E a \in Answers : Carry(a)
    /\ result'.rc = rc
    /\ rc = "OK" =>
          /\ log' # << >>
          /\ log'[Len(log')].call = pending
          /\ log'[Len(log')].answer = Len(result'.data)
          /\ result'.data = Bytes(pending, 0, Len(result'.data))
    /\ UNCHANGED len

Next ==
    \/ \E c \in 1..MaxCalls, n \in Payloads : Begin(c, n)
    \/ CarryOut
    \/ \E rc \in Rcs : Return(rc)

Spec == Init /\ [][Next]_vars
=============================================================================
