------------------------------ MODULE DfNames ------------------------------
(***************************************************************************)
(* nxpsc_get_df_names(): the only answer of the DESFire commands that is   *)
(* read frame by frame, since a DF name has no length of its own and only  *)
(* the end of its frame says where it ends.  One step is one frame there   *)
(* and back, nxpsc_raw_exchange_ex() without following 0xAF.               *)
(*                                                                         *)
(* The card is external.  It answers one application per frame, starts the *)
(* list over at each GetDFNames, goes on with it at 0xAF, and keeps its    *)
(* place in a list that a failed call abandoned.                           *)
(***************************************************************************)
EXTENDS Integers, SequencesExt

CONSTANTS
    FrameLens,  \* lengths of the card's frames, the status byte aside
    MaxApps,    \* bound on the number of frames in a list
    Cap         \* entries the caller has room for

ASSUME DfNamesAssumption == FrameLens \subseteq Nat /\ MaxApps \in Nat /\ Cap \in Nat

VARIABLES
    pc,         \* "idle", or "reading" inside the loop
    cmd,        \* the local of that name: "GetDFNames", then "AF"
    apps,       \* apps[0] to apps[n - 1]
    result,     \* the return code, and the entries up to *count
    list,       \* the card's frames for the running or last call
    rest        \* what the card still has to send of the list it is in

vars == <<pc, cmd, apps, result, list, rest>>

Frames == [app : 1..MaxApps, len : FrameLens]
Lists == {l \in BoundedSeq(Frames, MaxApps) : \A i \in DOMAIN l : l[i].app = i}
NoApp == [app |-> 0, len |-> 0]

-----------------------------------------------------------------------------
Answer(status, frame, left) == [status |-> status, frame |-> frame, rest |-> left]

\* every frame but the last says 0xAF; the last application may say so too, with an
\* empty frame after it
Emissions(left) ==
    IF Len(left) > 1 THEN {Answer("AF", Head(left), Tail(left))}
    ELSE {Answer("OK", Head(left), << >>)}
         \cup (IF Head(left) = NoApp THEN {} ELSE {Answer("AF", Head(left), <<NoApp>>)})

\* the card's answers to a frame; 0xAF continues nothing but a list
Answers(c) ==
    {Answer("error", NoApp, << >>)} \cup
    CASE c = "GetDFNames" -> Emissions(IF list = << >> THEN <<NoApp>> ELSE list)
      [] c = "AF" -> IF rest = << >> THEN {} ELSE Emissions(rest)

-----------------------------------------------------------------------------
FrameCap == 64
MaxName == 16

\* AID and ISO FID take five bytes, the name as much of the rest as it may
Entry(f) == [app |-> f.app, name |-> IF f.len - 5 > MaxName THEN MaxName ELSE f.len - 5]

\* mutant of Listable: an application without a name is none
Listable_named(f) == f.len > 5

\* a frame without AID and ISO FID holds no application
Listable(f) == f.len >= 5

\* mutant of HasRoom: one entry too many
HasRoom_beyond == Len(apps) <= Cap

HasRoom == Len(apps) < Cap

Return(rc, entries) ==
    /\ pc' = "idle"
    /\ result' = [rc |-> rc, apps |-> entries]

Call(l) ==
    /\ pc = "idle"
    /\ pc' = "reading" /\ cmd' = "GetDFNames" /\ apps' = << >>
    /\ list' = l
    /\ UNCHANGED <<result, rest>>

\* mutant of FrameLost: the list is asked for again
FrameLost_retries ==
    /\ pc = "reading"
    /\ \/ UNCHANGED rest
       \/ \E a \in Answers(cmd) : rest' = a.rest
    /\ cmd' = "GetDFNames" /\ apps' = << >>
    /\ UNCHANGED <<pc, result, list>>

\* the frame is lost or too short, and the card may have handled it
FrameLost ==
    /\ pc = "reading"
    /\ \/ UNCHANGED rest
       \/ \E a \in Answers(cmd) : rest' = a.rest
    /\ \E rc \in {"TRANSPORT", "LENGTH", "CARD"} : Return(rc, << >>)
    /\ UNCHANGED <<cmd, apps, list>>

\* neither 0x00 nor 0xAF
FrameRefused ==
    /\ pc = "reading"
    /\ \E a \in Answers(cmd) : a.status = "error" /\ rest' = a.rest
    /\ Return("CARD", << >>)
    /\ UNCHANGED <<cmd, apps, list>>

FrameTooLong ==
    /\ pc = "reading"
    /\ \E a \in Answers(cmd) : a.frame.len > FrameCap /\ rest' = a.rest
    /\ Return("LENGTH", << >>)
    /\ UNCHANGED <<cmd, apps, list>>

\* an application more, unless there is no room for it
FrameListed ==
    /\ pc = "reading"
    /\ \E a \in Answers(cmd) :
          /\ a.status # "error" /\ a.frame.len <= FrameCap
          /\ rest' = a.rest
          /\ apps' = IF Listable(a.frame) /\ HasRoom THEN Append(apps, Entry(a.frame)) ELSE apps
          /\ IF a.status = "AF" THEN UNCHANGED <<pc, result>> ELSE Return("OK", apps')
    /\ cmd' = "AF"
    /\ UNCHANGED list

-----------------------------------------------------------------------------
Init ==
    /\ pc = "idle" /\ cmd = "GetDFNames" /\ apps = << >>
    /\ result = [rc |-> "CARD", apps |-> << >>]
    /\ list = << >> /\ rest = << >>

Step == FrameLost \/ FrameRefused \/ FrameTooLong \/ FrameListed

Next == (\E l \in Lists : Call(l)) \/ Step

\* the transport returns from every frame, and the loop goes on
Spec == Init /\ [][Next]_vars /\ WF_vars(Step)

-----------------------------------------------------------------------------
(***************************************************************************)
(* Properties.                                                             *)
(***************************************************************************)
\* what the caller's array holds: at most Cap entries, each with a name that fits
Entries == {e \in Seq([app : 1..MaxApps, name : 0..MaxName]) : Len(e) <= Cap}

\* Every variable has its type, and neither the caller's array nor a name in it
\* overflows: the loop goes on reading frames when the array is full.
TypeOK ==
    /\ pc \in {"idle", "reading"} /\ cmd \in {"GetDFNames", "AF"}
    /\ list \in Lists /\ rest \in Seq(Frames \cup {NoApp})
    /\ apps \in Entries /\ result.apps \in Entries
    /\ result.rc \in {"OK", "TRANSPORT", "LENGTH", "CARD"}

\* the entries are what the first n frames of the list say: each comes from one of
\* them, in order, and of those that say something only a full array leaves one out
ListedUpTo(l, entries, n) ==
    /\ \A k \in 1..n : l[k].len <= FrameCap
    /\ \A i \in DOMAIN entries :
          /\ entries[i].app \in 1..n /\ l[entries[i].app].len >= 5
          /\ entries[i] = Entry(l[entries[i].app])
          /\ \A j \in 1..(i - 1) : entries[j].app < entries[i].app
    /\ \A k \in 1..n :
          l[k].len >= 5 =>
              \/ \E i \in DOMAIN entries : entries[i].app = k
              \/ Len(entries) = Cap /\ \A i \in DOMAIN entries : entries[i].app < k

\* A success returns the first entries of the card's own list, in order and each
\* from one frame, whatever list an earlier call left half read on the card; only
\* frames too short for an application are skipped, and a frame too long for the
\* buffer never ends in one (nxpsc_get_df_names()).
Listed == pc = "idle" /\ result.rc = "OK" => ListedUpTo(list, result.apps, Len(list))

\* Every call returns: the loop of nxpsc_get_df_names() has no bound of its own, so
\* it rests on the list, which ends.
Returned == pc = "reading" ~> pc = "idle"
=============================================================================
