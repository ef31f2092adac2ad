--------------------------- MODULE DfNamesProofs ---------------------------
(***************************************************************************)
(* Machine-checked proofs about DfNames, for every set of frame lengths,   *)
(* every bound on the list and every size of the caller's array.           *)
(***************************************************************************)
EXTENDS DfNames, SequenceTheorems, TLAPS

USE DfNamesAssumption

\* What the running loop has not read yet: the card has sent n frames of the list.
Unread(n) ==
    \/ n < Len(list) /\ rest = SubSeq(list, n + 1, Len(list))
    \/ n = Len(list) /\ rest = <<NoApp>>

\* The loop's array says what the frames read so far say.  The list of an abandoned
\* call does not matter: the first frame of a call starts the list over.
Progress ==
    pc = "reading" =>
        IF cmd = "GetDFNames" THEN apps = << >>
        ELSE \E n \in 0..Len(list) : Unread(n) /\ ListedUpTo(list, apps, n)

\* The inductive invariant behind Listed.
IInv == TypeOK /\ Progress /\ Listed

\* A card's answer is made of frames, and what it leaves to send is too.
LEMMA AnswersType ==
    ASSUME TypeOK, NEW a \in Answers(cmd)
    PROVE  a.frame \in Frames \cup {NoApp} /\ a.rest \in Seq(Frames \cup {NoApp})
  <1> DEFINE F == Frames \cup {NoApp}
  <1>1. list \in Seq(Frames)
    <2>1. PICK m \in 0..MaxApps : list \in [1..m -> Frames]
      BY DEF TypeOK, Lists, BoundedSeq, SeqOf
    <2> QED BY <2>1
  <1>2. list \in Seq(F) /\ <<NoApp>> \in Seq(F) /\ rest \in Seq(F)
    BY <1>1 DEF TypeOK
  <1>3. ASSUME NEW left \in Seq(F), left # << >>, NEW e \in Emissions(left)
        PROVE  e.frame \in F /\ e.rest \in Seq(F)
    <2>1. Head(left) \in F /\ Tail(left) \in Seq(F)
      BY <1>3
    <2>2. << >> \in Seq(F) /\ <<NoApp>> \in Seq(F)
      OBVIOUS
    <2>3. NoApp \in F
      OBVIOUS
    <2>4. \/ e = Answer("AF", Head(left), Tail(left))
          \/ e = Answer("OK", Head(left), << >>)
          \/ e = Answer("AF", Head(left), <<NoApp>>)
      BY <1>3 DEF Emissions
    <2>5. \A s : \A fr \in F : \A l \in Seq(F) :
             Answer(s, fr, l).frame \in F /\ Answer(s, fr, l).rest \in Seq(F)
      BY DEF Answer
    <2> HIDE DEF F
    <2> QED BY <2>1, <2>2, <2>3, <2>4, <2>5
  <1>4. CASE a = Answer("error", NoApp, << >>)
    <2>1. << >> \in Seq(F)
      OBVIOUS
    <2> QED BY <1>4, <2>1 DEF Answer
  <1>5. CASE cmd = "GetDFNames" /\ a \in Emissions(IF list = << >> THEN <<NoApp>> ELSE list)
    BY <1>2, <1>3, <1>5
  <1>6. CASE cmd = "AF" /\ rest # << >> /\ a \in Emissions(rest)
    BY <1>2, <1>3, <1>6
  <1> QED BY <1>4, <1>5, <1>6 DEF Answers, TypeOK

\* The first call starts with an empty array.
LEMMA InitTypeOK == Init => TypeOK
  <1> SUFFICES ASSUME Init PROVE TypeOK
    OBVIOUS
  <1>1. << >> \in Lists
    <2>1. << >> \in [1..0 -> Frames] /\ 0 \in 0..MaxApps
      BY DEF DfNamesAssumption
    <2>2. << >> \in BoundedSeq(Frames, MaxApps)
      BY <2>1 DEF BoundedSeq, SeqOf
    <2> QED BY <2>2 DEF Lists
  <1>2. << >> \in Entries
    BY DEF Entries, DfNamesAssumption
  <1> QED BY <1>1, <1>2 DEF Init, TypeOK

\* Each way a frame may end, and the start of a call.
LEMMA NextTypeOK == TypeOK /\ [Next]_vars => TypeOK'
  <1> SUFFICES ASSUME TypeOK, [Next]_vars PROVE TypeOK'
    OBVIOUS
  <1>1. \A a \in Answers(cmd) : a.rest \in Seq(Frames \cup {NoApp})
    BY AnswersType
  <1>2. << >> \in Entries
    BY DEF Entries, DfNamesAssumption
  <1>3. ASSUME NEW l \in Lists, Call(l) PROVE TypeOK'
    BY <1>2, <1>3 DEF Call, TypeOK
  <1>4. CASE FrameLost
    BY <1>1, <1>2, <1>4 DEF FrameLost, Return, TypeOK
  <1>5. CASE FrameRefused
    BY <1>1, <1>2, <1>5 DEF FrameRefused, Return, TypeOK
  <1>6. CASE FrameTooLong
    BY <1>1, <1>2, <1>6 DEF FrameTooLong, Return, TypeOK
  <1>7. CASE FrameListed
    <2>1. rest' \in Seq(Frames \cup {NoApp})
      BY <1>1, <1>7 DEF FrameListed
    <2>2. apps' \in Entries
      <3>1. PICK a \in Answers(cmd) :
              /\ a.status # "error" /\ a.frame.len <= FrameCap
              /\ apps' = IF Listable(a.frame) /\ HasRoom THEN Append(apps, Entry(a.frame))
                         ELSE apps
        BY <1>7 DEF FrameListed
      <3>2. CASE Listable(a.frame) /\ HasRoom
        <4>1. a.frame \in Frames
          BY <3>2, AnswersType DEF Listable, NoApp
        <4>2. Entry(a.frame) \in [app : 1..MaxApps, name : 0..MaxName]
          <5>1. a.frame.app \in 1..MaxApps /\ a.frame.len \in Nat
            BY <4>1 DEF Frames, DfNamesAssumption
          <5>2. (IF a.frame.len - 5 > 16 THEN 16 ELSE a.frame.len - 5) \in 0..16
            BY <3>2, <5>1 DEF Listable
          <5> QED BY <5>1, <5>2 DEF Entry, MaxName
        <4>3. apps' = Append(apps, Entry(a.frame))
          BY <3>1, <3>2
        <4> QED BY <3>2, <4>2, <4>3 DEF Entries, HasRoom, TypeOK
      <3>3. CASE ~(Listable(a.frame) /\ HasRoom)
        BY <3>1, <3>3 DEF TypeOK
      <3> QED BY <3>2, <3>3
    <2>3. /\ cmd' = "AF" /\ list' = list
          /\ \/ pc' = pc /\ result' = result
             \/ pc' = "idle" /\ result' = [rc |-> "OK", apps |-> apps']
      BY <1>7 DEF FrameListed, Return
    <2> QED BY <2>1, <2>2, <2>3 DEF TypeOK
  <1>8. CASE UNCHANGED vars
    BY <1>8 DEF vars, TypeOK
  <1> QED BY <1>3, <1>4, <1>5, <1>6, <1>7, <1>8 DEF Next, Step

\* The caller's array never overflows, however long the card's list is, although the
\* loop goes on reading when it is full (nxpsc_get_df_names()).
THEOREM DfNamesTypeOK == Spec => []TypeOK
  BY InitTypeOK, NextTypeOK, PTL DEF Spec

-----------------------------------------------------------------------------
\* The frames of a list are numbered in its order.
LEMMA ListType ==
    ASSUME TypeOK
    PROVE  list \in Seq(Frames) /\ \A i \in 1..Len(list) : list[i].app = i
  <1>1. PICK m \in 0..MaxApps : list \in [1..m -> Frames]
    BY DEF TypeOK, Lists, BoundedSeq, SeqOf
  <1>2. list \in Seq(Frames)
    BY <1>1
  <1>3. \A i \in DOMAIN list : list[i].app = i
    BY DEF TypeOK, Lists
  <1> QED BY <1>2, <1>3

\* One frame more, with room for its application or without, or with none in it.
LEMMA OneFrameMore ==
    ASSUME NEW l \in Seq(Frames), NEW entries \in Entries, NEW n \in 0..(Len(l) - 1),
           NEW after,
           l[n + 1].app = n + 1, l[n + 1].len <= FrameCap,
           ListedUpTo(l, entries, n),
           after = IF l[n + 1].len >= 5 /\ Len(entries) < Cap
                   THEN Append(entries, Entry(l[n + 1])) ELSE entries
    PROVE  ListedUpTo(l, after, n + 1)
  <1> DEFINE f == l[n + 1]
             e == Entry(f)
  <1>1. entries \in Seq([app : 1..MaxApps, name : 0..MaxName]) /\ Len(entries) <= Cap
    BY DEF Entries
  <1>2. \A i \in DOMAIN entries :
          /\ entries[i].app \in 1..n /\ l[entries[i].app].len >= 5
          /\ entries[i] = Entry(l[entries[i].app])
          /\ \A j \in 1..(i - 1) : entries[j].app < entries[i].app
    BY DEF ListedUpTo
  <1>3. \A k \in 1..n :
          l[k].len >= 5 =>
              \/ \E i \in DOMAIN entries : entries[i].app = k
              \/ Len(entries) = Cap /\ \A i \in DOMAIN entries : entries[i].app < k
    BY DEF ListedUpTo
  <1>4. \A k \in 1..(n + 1) : l[k].len <= FrameCap
    <2>1. \A k \in 1..n : l[k].len <= FrameCap
      BY DEF ListedUpTo
    <2> QED BY <2>1
  <1>5. CASE f.len >= 5 /\ Len(entries) < Cap
    <2>1. e.app = n + 1
      BY DEF Entry
    <2>2. after = Append(entries, e)
      BY <1>5
    <2> HIDE DEF e
    <2>3. /\ DOMAIN after = 1..(Len(entries) + 1) /\ after[Len(entries) + 1] = e
          /\ DOMAIN entries = 1..Len(entries) /\ Len(entries) \in Nat
          /\ \A i \in 1..Len(entries) : after[i] = entries[i]
      BY <1>1, <2>2
    <2>4. \A i \in DOMAIN after :
            /\ after[i].app \in 1..(n + 1) /\ l[after[i].app].len >= 5
            /\ after[i] = Entry(l[after[i].app])
            /\ \A j \in 1..(i - 1) : after[j].app < after[i].app
      <3> SUFFICES ASSUME NEW i \in 1..(Len(entries) + 1)
                   PROVE  /\ after[i].app \in 1..(n + 1) /\ l[after[i].app].len >= 5
                          /\ after[i] = Entry(l[after[i].app])
                          /\ \A j \in 1..(i - 1) : after[j].app < after[i].app
        BY <2>3
      <3>1. CASE i = Len(entries) + 1
        <4>1. after[i] = e
          BY <2>3, <3>1
        <4>2. \A j \in 1..(i - 1) : after[j] = entries[j] /\ entries[j].app \in 1..n
          BY <1>2, <2>3, <3>1
        <4>3. \A j \in 1..(i - 1) : after[j].app < n + 1
          BY <4>2
        <4>4. e = Entry(l[n + 1])
          BY DEF e
        <4> QED BY <1>5, <2>1, <4>1, <4>3, <4>4
      <3>2. CASE i # Len(entries) + 1
        <4>1. i \in 1..Len(entries) /\ after[i] = entries[i]
          BY <2>3, <3>2
        <4>2. \A j \in 1..(i - 1) : after[j] = entries[j]
          BY <2>3, <4>1
        <4>3. /\ entries[i].app \in 1..n /\ l[entries[i].app].len >= 5
              /\ entries[i] = Entry(l[entries[i].app])
              /\ \A j \in 1..(i - 1) : entries[j].app < entries[i].app
          BY <1>2, <2>3, <4>1
        <4> QED BY <4>1, <4>2, <4>3
      <3> QED BY <3>1, <3>2
    <2>5. \A k \in 1..(n + 1) : l[k].len >= 5 => \E i \in DOMAIN after : after[i].app = k
      <3> SUFFICES ASSUME NEW k \in 1..(n + 1), l[k].len >= 5
                   PROVE  \E i \in DOMAIN after : after[i].app = k
        OBVIOUS
      <3>1. CASE k = n + 1
        BY <2>1, <2>3, <3>1
      <3>2. CASE k # n + 1
        <4>1. k \in 1..n
          BY <3>2
        <4>2. PICK i \in DOMAIN entries : entries[i].app = k
          BY <1>1, <1>3, <1>5, <4>1
        <4> QED BY <2>3, <4>2
      <3> QED BY <3>1, <3>2
    <2> QED BY <1>4, <2>4, <2>5 DEF ListedUpTo
  <1>6. CASE ~(f.len >= 5 /\ Len(entries) < Cap)
    <2>1. after = entries
      BY <1>6
    <2>2. \A i \in DOMAIN entries : entries[i].app \in 1..n
      BY <1>2
    <2>3. \A k \in 1..(n + 1) :
            l[k].len >= 5 =>
                \/ \E i \in DOMAIN entries : entries[i].app = k
                \/ Len(entries) = Cap /\ \A i \in DOMAIN entries : entries[i].app < k
      <3> SUFFICES ASSUME NEW k \in 1..(n + 1), l[k].len >= 5
                   PROVE  \/ \E i \in DOMAIN entries : entries[i].app = k
                          \/ Len(entries) = Cap /\ \A i \in DOMAIN entries : entries[i].app < k
        OBVIOUS
      <3>1. CASE k = n + 1
        <4>1. Len(entries) = Cap
          BY <1>1, <1>6, <3>1
        <4> QED BY <2>2, <3>1, <4>1
      <3>2. CASE k # n + 1
        BY <1>3, <3>2
      <3> QED BY <3>1, <3>2
    <2>4. \A i \in DOMAIN entries : entries[i].app \in 1..(n + 1)
      BY <2>2
    <2> QED BY <1>2, <1>4, <2>1, <2>3, <2>4 DEF ListedUpTo
  <1> QED BY <1>5, <1>6

\* Where the card is in its list when it sends a frame, and where it is afterwards.
LEMMA FrameIsNext ==
    ASSUME IInv, pc = "reading", NEW a \in Answers(cmd), a.status # "error"
    PROVE  \E n \in 0..Len(list) :
              /\ ListedUpTo(list, apps, n)
              /\ \/ /\ n < Len(list) /\ a.frame = list[n + 1]
                    /\ \/ /\ n + 1 < Len(list)
                          /\ a.rest = SubSeq(list, n + 2, Len(list))
                          /\ a.status = "AF"
                       \/ n + 1 = Len(list) /\ a.rest = <<NoApp>> /\ a.status = "AF"
                       \/ n + 1 = Len(list) /\ a.status = "OK"
                 \/ n = Len(list) /\ a.frame = NoApp /\ a.status = "OK"
  <1>1. list \in Seq(Frames) /\ TypeOK
    BY ListType DEF IInv
  <1>2. ASSUME NEW n \in 0..(Len(list) - 1), NEW left \in Seq(Frames),
               left = SubSeq(list, n + 1, Len(list)), a \in Emissions(left)
        PROVE  /\ a.frame = list[n + 1]
               /\ \/ /\ n + 1 < Len(list)
                     /\ a.rest = SubSeq(list, n + 2, Len(list))
                     /\ a.status = "AF"
                  \/ n + 1 = Len(list) /\ a.rest = <<NoApp>> /\ a.status = "AF"
                  \/ n + 1 = Len(list) /\ a.status = "OK"
    <2>1. Head(left) = list[n + 1] /\ Len(left) = Len(list) - n
      BY <1>1, <1>2
    <2>2. Tail(left) = SubSeq(list, n + 2, Len(list))
      BY <1>1, <1>2, HeadTailOfSubSeq
    <2>3. CASE Len(left) > 1
      <3>1. a = Answer("AF", Head(left), Tail(left))
        BY <1>2, <2>3 DEF Emissions
      <3> QED BY <1>1, <2>1, <2>2, <2>3, <3>1 DEF Answer
    <2>4. CASE ~(Len(left) > 1)
      <3>1. \/ a = Answer("OK", Head(left), << >>)
            \/ a = Answer("AF", Head(left), <<NoApp>>)
        BY <1>2, <2>4 DEF Emissions
      <3> QED BY <1>1, <2>1, <2>4, <3>1 DEF Answer
    <2> QED BY <2>3, <2>4
  <1>3. ASSUME a \in Emissions(<<NoApp>>) PROVE a.frame = NoApp /\ a.status = "OK"
    <2>1. a = Answer("OK", NoApp, << >>)
      BY <1>3 DEF Emissions
    <2> QED BY <2>1 DEF Answer
  <1>4. CASE cmd = "GetDFNames"
    <2>1. apps = << >>
      BY <1>4 DEF IInv, Progress
    <2>2. ListedUpTo(list, apps, 0)
      BY <2>1 DEF ListedUpTo
    <2>3. a \in Emissions(IF list = << >> THEN <<NoApp>> ELSE list)
      BY <1>4 DEF Answers, Answer
    <2>4. CASE list = << >>
      <3>1. Len(list) = 0
        BY <2>4
      <3> QED BY <1>3, <2>2, <2>3, <2>4, <3>1
    <2>5. CASE list # << >>
      <3>1. list = SubSeq(list, 1, Len(list)) /\ Len(list) \in Nat \ {0}
        BY <1>1, <2>5
      <3>2. a \in Emissions(list) /\ 0 \in 0..(Len(list) - 1) /\ 0 + 1 = 1 /\ 0 + 2 = 2
        BY <2>3, <2>5, <3>1
      <3>3. /\ a.frame = list[0 + 1]
            /\ \/ /\ 0 + 1 < Len(list)
                  /\ a.rest = SubSeq(list, 0 + 2, Len(list))
                  /\ a.status = "AF"
               \/ 0 + 1 = Len(list) /\ a.rest = <<NoApp>> /\ a.status = "AF"
               \/ 0 + 1 = Len(list) /\ a.status = "OK"
        <4> HIDE DEF Answers
        <4> QED BY ONLY <1>1, <1>2, <3>1, <3>2
      <3> WITNESS 0 \in 0..Len(list)
      <3> QED BY <2>2, <3>1, <3>3
    <2> QED BY <2>4, <2>5
  <1>5. CASE cmd = "AF"
    <2>1. PICK n \in 0..Len(list) : Unread(n) /\ ListedUpTo(list, apps, n)
      BY <1>5 DEF IInv, Progress
    <2>2. a \in Emissions(rest)
      BY <1>5 DEF Answers, Answer
    <2>3. CASE n < Len(list) /\ rest = SubSeq(list, n + 1, Len(list))
      <3>1. n \in 0..(Len(list) - 1) /\ rest \in Seq(Frames)
        BY <1>1, <2>3
      <3> QED BY <1>2, <2>1, <2>2, <2>3, <3>1
    <2>4. CASE n = Len(list) /\ rest = <<NoApp>>
      BY <1>3, <2>1, <2>2, <2>4
    <2> QED BY <2>1, <2>3, <2>4 DEF Unread
  <1> QED BY <1>1, <1>4, <1>5 DEF TypeOK

\* The loop starts with nothing read and nothing listed.
LEMMA InitIInv == Init => IInv
  BY InitTypeOK DEF Init, IInv, Progress, Listed

\* Each frame keeps what the array says in step with what the card has sent.
LEMMA NextIInv == IInv /\ [Next]_vars => IInv'
  <1> SUFFICES ASSUME IInv, [Next]_vars PROVE Progress' /\ Listed'
    BY NextTypeOK DEF IInv
  <1>1. ASSUME NEW l \in Lists, Call(l) PROVE Progress' /\ Listed'
    BY <1>1 DEF Call, Progress, Listed
  <1>2. CASE FrameLost
    BY <1>2 DEF FrameLost, Return, Progress, Listed
  <1>3. CASE FrameRefused
    BY <1>3 DEF FrameRefused, Return, Progress, Listed
  <1>4. CASE FrameTooLong
    BY <1>4 DEF FrameTooLong, Return, Progress, Listed
  <1>5. CASE FrameListed
    <2>1. PICK a \in Answers(cmd) :
            /\ a.status # "error" /\ a.frame.len <= FrameCap /\ rest' = a.rest
            /\ apps' = IF Listable(a.frame) /\ HasRoom THEN Append(apps, Entry(a.frame)) ELSE apps
            /\ IF a.status = "AF" THEN UNCHANGED <<pc, result>> ELSE Return("OK", apps')
      BY <1>5 DEF FrameListed
    <2>2. pc = "reading" /\ cmd' = "AF" /\ list' = list
      BY <1>5 DEF FrameListed
    <2>3. /\ list \in Seq(Frames) /\ \A i \in 1..Len(list) : list[i].app = i
          /\ apps \in Entries /\ Len(list) \in Nat
      BY ListType DEF IInv, TypeOK
    <2>4. PICK n \in 0..Len(list) :
            /\ ListedUpTo(list, apps, n)
            /\ \/ /\ n < Len(list) /\ a.frame = list[n + 1]
                  /\ \/ /\ n + 1 < Len(list)
                        /\ a.rest = SubSeq(list, n + 2, Len(list))
                        /\ a.status = "AF"
                     \/ n + 1 = Len(list) /\ a.rest = <<NoApp>> /\ a.status = "AF"
                     \/ n + 1 = Len(list) /\ a.status = "OK"
               \/ n = Len(list) /\ a.frame = NoApp /\ a.status = "OK"
      BY <2>1, <2>2, FrameIsNext
    <2>5. CASE n < Len(list) /\ a.frame = list[n + 1]
      <3>1. n \in 0..(Len(list) - 1) /\ list[n + 1].app = n + 1 /\ list[n + 1].len <= FrameCap
        BY <2>1, <2>3, <2>5
      <3>2. apps' = IF list[n + 1].len >= 5 /\ Len(apps) < Cap
                    THEN Append(apps, Entry(list[n + 1])) ELSE apps
        BY <2>1, <2>5 DEF Listable, HasRoom
      <3>3. ListedUpTo(list, apps', n + 1)
        BY <2>3, <2>4, <3>1, <3>2, OneFrameMore
      <3>4. CASE a.status = "AF"
        <4>1. pc' = pc
          BY <2>1, <3>4
        <4>2. \/ n + 1 < Len(list) /\ rest' = SubSeq(list, n + 2, Len(list))
              \/ n + 1 = Len(list) /\ rest' = <<NoApp>>
          BY <2>1, <2>4, <2>5, <3>4 DEF NoApp
        <4>3. n + 1 \in 0..Len(list') /\ (n + 1) + 1 = n + 2
          BY <2>2, <2>3, <3>1
        <4>4. Unread(n + 1)'
          BY <2>2, <4>2, <4>3 DEF Unread
        <4>5. Progress'
          BY <2>2, <3>3, <4>3, <4>4 DEF Progress
        <4> QED BY <2>2, <4>1, <4>5 DEF Listed
      <3>5. CASE a.status # "AF"
        <4>1. n + 1 = Len(list)
          BY <2>4, <2>5, <3>5 DEF NoApp
        <4>2. pc' = "idle" /\ result' = [rc |-> "OK", apps |-> apps']
          BY <2>1, <3>5 DEF Return
        <4> QED BY <2>2, <3>3, <4>1, <4>2 DEF Listed, Progress
      <3> QED BY <3>4, <3>5
    <2>6. CASE n = Len(list) /\ a.frame = NoApp /\ a.status = "OK"
      <3>1. apps' = apps
        BY <2>1, <2>6 DEF Listable, NoApp
      <3>2. pc' = "idle" /\ result' = [rc |-> "OK", apps |-> apps']
        BY <2>1, <2>6 DEF Return
      <3> QED BY <2>2, <2>4, <2>6, <3>1, <3>2 DEF Listed, Progress
    <2> QED BY <2>4, <2>5, <2>6
  <1>6. CASE UNCHANGED vars
    BY <1>6 DEF IInv, vars, Progress, Unread, Listed
  <1> QED BY <1>1, <1>2, <1>3, <1>4, <1>5, <1>6 DEF Next, Step

\* A success of nxpsc_get_df_names() returns what the card's own list says, in order,
\* up to the size of the caller's array, for every list, every frame length and every
\* sequence of calls that were abandoned half way through a list.
THEOREM DfNamesListed == Spec => []Listed
  <1>1. IInv => Listed
    BY DEF IInv
  <1> QED BY <1>1, InitIInv, NextIInv, PTL DEF Spec
=============================================================================
