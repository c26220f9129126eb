---------------------------- MODULE Polling_proofs ----------------------------
(***************************************************************************)
(* For every chain, every configuration and every period: the types of     *)
(* Polling, and that a missed answer is noticed and no other is reported.  *)
(***************************************************************************)
EXTENDS Polling, TLAPS

\* A miss that was passed over left a mark, or the bank was heard of since.
PassedOver ==
  \A p \in Banks : unreported[p] = 1 => waitingForRead[p] = 1 \/ p \in heard

IInv == TypeOK /\ MarkIsTrue /\ SilenceNoticed /\ PassedOver

LEMMA OlderType ==
  ASSUME TypeOK, NEW t \in Times
  PROVE  Older(t) \in [Banks -> 0 .. MaxRate]
<1>1. MaxRate \in Nat
  BY PollingAssumption
<1>2. ASSUME NEW p \in Banks
      PROVE  (IF age[p] + t > MaxRate THEN MaxRate ELSE age[p] + t) \in 0 .. MaxRate
  <2>1. age[p] \in 0 .. MaxRate
    BY DEF TypeOK
  <2> QED
    BY <1>1, <2>1 DEF Times
<1> QED
  BY <1>2 DEF Older

LEMMA MarksType ==
  ASSUME TypeOK, NEW from \in SUBSET Banks
  PROVE  Cleared(from) \in [Banks -> 0 .. 1]
BY DEF TypeOK, Cleared

LEMMA InitIInv == Init => IInv
<1> SUFFICES ASSUME Init PROVE IInv
  OBVIOUS
<1>1. MaxRate \in 0 .. MaxRate
  BY PollingAssumption
<1>2. TypeOK
  <2>1. age \in [Banks -> 0 .. MaxRate]
    BY <1>1 DEF Init
  <2>2. waitingForRead \in [Banks -> 0 .. 1]
    BY DEF Init
  <2>3. unreported \in [Banks -> Nat]
    BY DEF Init
  <2>4. /\ config \in [Banks -> Configs] /\ isOnline \in BOOLEAN
        /\ errorState \in {"none", "missedRead"}
        /\ asked \subseteq Banks /\ heard \subseteq Banks
    BY DEF Init
  <2> QED
    BY <2>1, <2>2, <2>3, <2>4 DEF TypeOK
<1>3. ASSUME NEW p \in Banks
      PROVE  waitingForRead[p] = 0 /\ unreported[p] = 0
  BY DEF Init
<1>4. MarkIsTrue /\ PassedOver
  BY <1>3 DEF MarkIsTrue, PassedOver
<1>5. SilenceNoticed
  BY <1>3 DEF SilenceNoticed
<1> QED
  BY <1>2, <1>4, <1>5 DEF IInv

\* The banks that a tick asks.
AskedIn(t) == IF isOnline THEN Due(Older(t)) ELSE {}

\* What a tick does to one bank.
LEMMA TickBank ==
  ASSUME NEW t \in Times, NEW from \in SUBSET Banks, Tick(t, from), NEW p \in Banks
  PROVE  /\ waitingForRead'[p] =
              (IF p \in AskedIn(t)
               THEN IF p \notin from /\ waitingForRead[p] = 1 THEN 0 ELSE 1
               ELSE IF p \in from THEN 0 ELSE waitingForRead[p])
         /\ age'[p] = (IF p \in AskedIn(t) THEN 0 ELSE Older(t)[p])
         /\ (p \in AskedIn(t) /\ p \notin from /\ waitingForRead[p] = 1)
               => errorState' = "missedRead"
<1> DEFINE due == AskedIn(t)
<1>2. ProcessConnectedState(due, Cleared(from), Older(t))
  BY DEF Tick, AskedIn
<1> HIDE DEF due
<1>3. Cleared(from)[p] = IF p \in from THEN 0 ELSE waitingForRead[p]
  BY DEF Cleared
<1>4. waitingForRead'[p] = IF p \in due THEN NextMark(Cleared(from)[p]) ELSE Cleared(from)[p]
  BY <1>2 DEF ProcessConnectedState
<1>5. age'[p] = IF p \in due THEN 0 ELSE Older(t)[p]
  BY <1>2 DEF ProcessConnectedState
<1>6. errorState' = IF \E q \in due : Cleared(from)[q] = 1 THEN "missedRead" ELSE "none"
  BY <1>2 DEF ProcessConnectedState
<1>7. (p \in due /\ p \notin from /\ waitingForRead[p] = 1) => errorState' = "missedRead"
  BY <1>3, <1>6
<1>8. waitingForRead'[p] =
        IF p \in due
        THEN IF p \notin from /\ waitingForRead[p] = 1 THEN 0 ELSE 1
        ELSE IF p \in from THEN 0 ELSE waitingForRead[p]
  BY <1>3, <1>4 DEF NextMark
<1> QED
  BY <1>5, <1>7, <1>8 DEF due

LEMMA TickIInv ==
  ASSUME IInv, NEW t \in Times, NEW from \in SUBSET Banks, Tick(t, from)
  PROVE  IInv'
<1> DEFINE due == AskedIn(t)
           missed == Missed(due, from)
<1>0. TypeOK
  BY DEF IInv
<1>1. Older(t) \in [Banks -> 0 .. MaxRate]
  BY <1>0, OlderType
<1>2. due \subseteq Banks
  BY DEF AskedIn, Due
<1>3. ProcessConnectedState(due, Cleared(from), Older(t))
  BY DEF Tick, AskedIn
<1>4. /\ asked' = asked \cup due
      /\ heard' = (heard \cup from) \ due
      /\ unreported' =
           [p \in Banks |->
              IF p \in missed /\ errorState' = "none" THEN unreported[p] + 1
              ELSE IF p \in due THEN 0 ELSE unreported[p]]
      /\ UNCHANGED <<config, isOnline>>
  BY DEF Tick, AskedIn
<1> HIDE DEF due, missed
<1>5. errorState' \in {"none", "missedRead"}
  BY <1>3 DEF ProcessConnectedState
<1>6. ASSUME NEW p \in Banks
      PROVE  /\ waitingForRead'[p] =
                  IF p \in due
                  THEN IF p \notin from /\ waitingForRead[p] = 1 THEN 0 ELSE 1
                  ELSE IF p \in from THEN 0 ELSE waitingForRead[p]
             /\ age'[p] = IF p \in due THEN 0 ELSE Older(t)[p]
             /\ (p \in due /\ p \notin from /\ waitingForRead[p] = 1)
                  => errorState' = "missedRead"
  BY TickBank DEF due
<1>7. TypeOK'
  <2>1. waitingForRead' \in [Banks -> 0 .. 1]
    <3>1. ASSUME NEW p \in Banks
          PROVE  waitingForRead'[p] \in 0 .. 1
      <4>1. waitingForRead[p] \in 0 .. 1
        BY <1>0 DEF TypeOK
      <4> QED
        BY <1>6, <4>1
    <3>2. waitingForRead' = [p \in Banks |-> waitingForRead'[p]]
      BY <1>3 DEF ProcessConnectedState
    <3> QED
      BY <3>1, <3>2
  <2>2. age' \in [Banks -> 0 .. MaxRate]
    <3>1. 0 \in 0 .. MaxRate
      BY PollingAssumption
    <3> QED
      BY <1>1, <1>3, <3>1 DEF ProcessConnectedState
  <2>3. unreported' \in [Banks -> Nat]
    BY <1>0, <1>4 DEF TypeOK
  <2>4. asked' \subseteq Banks /\ heard' \subseteq Banks
    BY <1>0, <1>2, <1>4 DEF TypeOK
  <2> QED
    BY <1>0, <1>4, <1>5, <2>1, <2>2, <2>3, <2>4 DEF TypeOK
<1>8. MarkIsTrue'
  <2> SUFFICES ASSUME NEW p \in Banks, waitingForRead'[p] = 1
               PROVE  p \in asked' \ heard'
    BY DEF MarkIsTrue
  <2>1. CASE p \in due
    BY <1>4, <2>1
  <2>2. CASE p \notin due
    <3>1. p \notin from /\ waitingForRead[p] = 1
      BY <1>6, <2>2
    <3>2. p \in asked \ heard
      BY <3>1 DEF IInv, MarkIsTrue
    <3> QED
      BY <1>4, <2>2, <3>1, <3>2
  <2> QED
    BY <2>1, <2>2
<1>9. ASSUME NEW p \in Banks
      PROVE  unreported'[p] <= 1 /\ (unreported'[p] = 1 => waitingForRead'[p] = 1 \/ p \in heard')
  <2>1. unreported'[p] = IF p \in missed /\ errorState' = "none" THEN unreported[p] + 1
                         ELSE IF p \in due THEN 0 ELSE unreported[p]
    BY <1>4
  <2>2. /\ unreported[p] \in Nat /\ unreported[p] <= 1
        /\ unreported[p] = 1 => waitingForRead[p] = 1 \/ p \in heard
    BY DEF IInv, TypeOK, SilenceNoticed, PassedOver
  <2>3. CASE p \in missed /\ errorState' = "none"
    <3>1. p \in due /\ p \notin heard /\ p \notin from
      BY <2>3 DEF missed, Missed
    <3>2. waitingForRead[p] # 1
      BY <1>6, <2>3, <3>1
    <3>3. unreported[p] = 0
      BY <2>2, <3>1, <3>2
    <3>4. waitingForRead'[p] = 1
      BY <1>6, <3>1, <3>2
    <3> QED
      BY <2>1, <2>3, <3>3, <3>4
  <2>4. CASE ~(p \in missed /\ errorState' = "none") /\ p \in due
    BY <2>1, <2>4
  <2>5. CASE ~(p \in missed /\ errorState' = "none") /\ p \notin due
    <3>1. unreported'[p] = unreported[p]
      BY <2>1, <2>5
    <3>2. unreported[p] = 1 => waitingForRead'[p] = 1 \/ p \in heard'
      BY <1>4, <1>6, <2>2, <2>5
    <3> QED
      BY <2>2, <3>1, <3>2
  <2> QED
    BY <2>3, <2>4, <2>5
<1> QED
  BY <1>7, <1>8, <1>9 DEF IInv, SilenceNoticed, PassedOver

LEMMA NextIInv == IInv /\ [Next]_vars => IInv'
<1> SUFFICES ASSUME IInv, [Next]_vars PROVE IInv'
  OBVIOUS
<1>1. CASE SetOnline
  BY <1>1 DEF SetOnline, IInv, TypeOK, MarkIsTrue, SilenceNoticed, PassedOver
<1>2. ASSUME NEW t \in Times, TickFails(t)
      PROVE  IInv'
  <2>1. age' \in [Banks -> 0 .. MaxRate]
    BY <1>2, OlderType DEF TickFails, IInv
  <2> QED
    BY <1>2, <2>1 DEF TickFails, IInv, TypeOK, MarkIsTrue, SilenceNoticed, PassedOver
<1>3. ASSUME NEW t \in Times, NEW from \in SUBSET Banks, Tick(t, from)
      PROVE  IInv'
  BY <1>3, TickIInv
<1>4. CASE UNCHANGED vars
  BY <1>4 DEF vars, IInv, TypeOK, MarkIsTrue, SilenceNoticed, PassedOver
<1> QED
  BY <1>1, <1>2, <1>3, <1>4 DEF Next

\* The types of Polling hold for every chain and every period.
THEOREM TypeOKHolds == Spec => []TypeOK
<1>1. IInv => TypeOK
  BY DEF IInv
<1> QED
  BY InitIInv, NextIInv, <1>1, PTL DEF Spec

\* A mark means that the bank was asked and not heard of since
\* (neoRADIO2ProcessConnectedState and neoRADIO2LookForDevicePackets).
THEOREM MarkIsTrueHolds == Spec => []MarkIsTrue
<1>1. IInv => MarkIsTrue
  BY DEF IInv
<1> QED
  BY InitIInv, NextIInv, <1>1, PTL DEF Spec

\* No two misses in a row are passed over (PacketHandler.c:181-190).
THEOREM SilenceNoticedHolds == Spec => []SilenceNoticed
<1>1. IInv => SilenceNoticed
  BY DEF IInv
<1> QED
  BY InitIInv, NextIInv, <1>1, PTL DEF Spec

\* The action of NoFalseAlarm.
Alarm ==
  errorState' = "missedRead" =>
    \/ \E p \in Banks : p \in asked \ heard /\ age'[p] = 0
    \/ errorState = "missedRead" /\ UNCHANGED <<waitingForRead, asked, heard>>

LEMMA NextAlarm == IInv /\ [Next]_vars => [Alarm]_vars
<1> SUFFICES ASSUME IInv, Next, errorState' = "missedRead"
             PROVE  \/ \E p \in Banks : p \in asked \ heard /\ age'[p] = 0
                    \/ errorState = "missedRead" /\ UNCHANGED <<waitingForRead, asked, heard>>
  BY DEF Alarm
<1>1. CASE SetOnline
  BY <1>1 DEF SetOnline
<1>2. ASSUME NEW t \in Times, TickFails(t)
      PROVE  errorState = "missedRead" /\ UNCHANGED <<waitingForRead, asked, heard>>
  BY <1>2 DEF TickFails
<1>3. ASSUME NEW t \in Times, NEW from \in SUBSET Banks, Tick(t, from)
      PROVE  \E p \in Banks : p \in asked \ heard /\ age'[p] = 0
  <2> DEFINE due == IF isOnline THEN Due(Older(t)) ELSE {}
  <2>1. ProcessConnectedState(due, Cleared(from), Older(t))
    BY <1>3 DEF Tick
  <2>2. due \subseteq Banks
    BY DEF Due
  <2> HIDE DEF due
  <2>3. PICK p \in due : Cleared(from)[p] = 1
    BY <2>1 DEF ProcessConnectedState
  <2>4. p \in Banks /\ waitingForRead[p] = 1
    BY <2>2, <2>3 DEF Cleared
  <2>5. p \in asked \ heard
    BY <2>4 DEF IInv, MarkIsTrue
  <2>6. age'[p] = 0
    BY <2>1, <2>3, <2>4 DEF ProcessConnectedState
  <2> QED
    BY <2>4, <2>5, <2>6
<1> QED
  BY <1>1, <1>2, <1>3 DEF Next

\* Errors are reported only for banks that did not answer
\* (PacketHandler.c:185-190).
THEOREM NoFalseAlarmHolds == Spec => NoFalseAlarm
<1>1. NoFalseAlarm <=> [][Alarm]_vars
  BY DEF NoFalseAlarm, Alarm
<1> QED
  BY InitIInv, NextIInv, NextAlarm, <1>1, PTL DEF Spec
=============================================================================
