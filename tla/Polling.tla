------------------------------- MODULE Polling -------------------------------
(***************************************************************************)
(* The connected state: every tick asks the enabled banks whose period is  *)
(* over for their data and keeps a mark of each question, by which a       *)
(* missing answer is noticed.  The parser clears the mark for any frame of *)
(* the bank.                                                               *)
(*                                                                         *)
(* Time is in ticks, and only Timeus - lastReadTimeus is kept, as `age',   *)
(* up to the longest period.                                               *)
(***************************************************************************)
EXTENDS Integers, FiniteSets

CONSTANTS
  Types,     (* device -> "TC", "AIN", "DIO", "AOUT" or "PWRRLY"          *)
  BanksOf,   (* neoRADIO2GetDeviceNumberOfBanks: device type -> banks     *)
  DioInputs, (* the digital inputs of a DIO: its first 4 banks            *)
  Configs,   (* the settings.config a bank may have: poll_rate_ms and the *)
             (* three channel configurations                              *)
  MaxRate    (* the longest period                                        *)

Devices == DOMAIN Types
Banks == {p \in Devices \X (0 .. 7) : p[2] < BanksOf[Types[p[1]]]}

ASSUME PollingAssumption ==
  /\ Devices # {}
  /\ \A d \in Devices : Types[d] \in DOMAIN BanksOf /\ BanksOf[Types[d]] \in 1 .. 8
  /\ MaxRate \in Nat
  /\ \A c \in Configs : /\ c.poll_rate_ms \in 0 .. MaxRate
                        /\ c.channel_1_config \in Nat /\ c.channel_2_config \in Nat
                        /\ c.channel_3_config \in Nat

VARIABLES
  config,          (* the configuration of each bank                         *)
  isOnline,
  age,             (* Timeus - lastReadTimeus of each bank                   *)
  waitingForRead,  (* the marks                                              *)
  errorState,
  asked,           (* history: the banks that were asked before              *)
  heard,           (* history: those a frame came from since they were asked *)
  unreported       (* history: answers missed in a row without an error      *)

vars == <<config, isOnline, age, waitingForRead, errorState, asked, heard, unreported>>

\* neoRADIO2IsBankEnabled; a device is of the type of its bank 0.
IsBankEnabled_firstChannel(p) ==
  /\ Types[p[1]] \in {"TC", "AIN", "DIO"}
  /\ config[p].channel_1_config # 0
IsBankEnabled(p) ==
  LET c == config[p]
  IN  \/ /\ Types[p[1]] \in {"TC", "AIN"}
         /\ c.channel_1_config # 0
      \/ /\ Types[p[1]] = "DIO" /\ p[2] < DioInputs
         /\ c.channel_1_config + c.channel_2_config + c.channel_3_config # 0

Polled(p) == config[p].poll_rate_ms # 0 /\ IsBankEnabled(p)

\* lastReadTimeus is 0 for every bank, and Timeus is what has passed since the
\* connection was opened.
Init ==
  /\ config \in [Banks -> Configs]
  /\ isOnline = FALSE
  /\ \E t \in 0 .. MaxRate : age = [p \in Banks |-> t]
  /\ waitingForRead = [p \in Banks |-> 0]
  /\ errorState = "none"
  /\ asked = {} /\ heard = {}
  /\ unreported = [p \in Banks |-> 0]

-----------------------------------------------------------------------------
SetOnline ==
  /\ isOnline' = ~isOnline
  /\ UNCHANGED <<config, age, waitingForRead, errorState, asked, heard, unreported>>

Older(t) == [p \in Banks |-> IF age[p] + t > MaxRate THEN MaxRate ELSE age[p] + t]

\* The marks after the parser found frames of the banks in `from'.
Cleared_never(from) == waitingForRead
Cleared(from) == [p \in Banks |-> IF p \in from THEN 0 ELSE waitingForRead[p]]

\* neoRADIO2ProcessConnectedState asks the banks in `due', marked as in `marks'.
\* A bank whose mark is still set missed its answer, and the mark is taken off.
NextMark_off(mark) == 0
NextMark_count(mark) == mark + 1
NextMark(mark) == IF mark # 1 THEN 1 ELSE 0
ProcessConnectedState(due, marks, now) ==
  /\ waitingForRead' = [p \in Banks |-> IF p \in due THEN NextMark(marks[p]) ELSE marks[p]]
  /\ age' = [p \in Banks |-> IF p \in due THEN 0 ELSE now[p]]
  /\ errorState' = IF \E p \in due : marks[p] = 1 THEN "missedRead" ELSE "none"

Due(now) == {p \in Banks : Polled(p) /\ now[p] >= config[p].poll_rate_ms}

\* The banks asked now that were asked before and not heard of since.
Missed(due, from) == (due \cap asked) \ (heard \cup from)

\* Time t passes, frames of the banks in `from' are parsed and, when online,
\* the banks whose period is over are asked.
Tick(t, from) ==
  LET due == IF isOnline THEN Due(Older(t)) ELSE {}
      missed == Missed(due, from)
  IN  /\ ProcessConnectedState(due, Cleared(from), Older(t))
      /\ asked' = asked \cup due
      /\ heard' = (heard \cup from) \ due
      /\ unreported' =
           [p \in Banks |->
              IF p \in missed /\ errorState' = "none" THEN unreported[p] + 1
              ELSE IF p \in due THEN 0 ELSE unreported[p]]
      /\ UNCHANGED <<config, isOnline>>

\* neoRADIO2GetNewData failed: time has passed, and the error of the tick
\* before stays.
TickFails(t) ==
  /\ age' = Older(t)
  /\ UNCHANGED <<config, isOnline, waitingForRead, errorState, asked, heard, unreported>>

\* Ticks may come late.
Times == 1 .. 2

Next ==
  \/ SetOnline
  \/ \E t \in Times : TickFails(t)
  \/ \E t \in Times, from \in SUBSET Banks : Tick(t, from)

Spec == Init /\ [][Next]_vars

\* Ticks that do not fail come again and again (neoRAD-IO2.c:116, "This must be
\* called every 1 ms"), also while the device is online.
FairSpec == Spec /\ SF_vars(\E t \in Times, from \in SUBSET Banks : isOnline /\ Tick(t, from))

-----------------------------------------------------------------------------
\* Type correctness; above all, a mark is set or not, however many answers in a row
\* are missing: it does not count them (PacketHandler.c:181-190).
TypeOK ==
  /\ config \in [Banks -> Configs] /\ isOnline \in BOOLEAN
  /\ age \in [Banks -> 0 .. MaxRate]
  /\ waitingForRead \in [Banks -> 0 .. 1]
  /\ errorState \in {"none", "missedRead"}
  /\ asked \subseteq Banks /\ heard \subseteq Banks
  /\ unreported \in [Banks -> Nat]

\* A mark means that the bank was asked and that nothing was heard of it since,
\* also when it was asked while offline periods, late ticks and failed ticks came
\* in between.
MarkIsTrue ==
  \A p \in Banks : waitingForRead[p] = 1 => p \in asked \ heard

\* An error is reported only in a tick in which a bank was asked again that did
\* not answer the last time (PacketHandler.c:185-190).
NoFalseAlarm ==
  [][ errorState' = "missedRead" =>
        \/ \E p \in Banks : p \in asked \ heard /\ age'[p] = 0
        \/ errorState = "missedRead" /\ UNCHANGED <<waitingForRead, asked, heard>> ]_vars

\* A bank that is silent is reported, though not every time: the mark is taken
\* off when a missed answer is noticed, so the next one is not.  Two in a row are
\* never overlooked.
SilenceNoticed == \A p \in Banks : unreported[p] <= 1

\* Whatever type of device it is on, a bank that has a period and anything
\* enabled that can be read is asked again and again, when the application goes
\* online or stays so.
Readable(p) ==
  LET c == config[p]
  IN  /\ Types[p[1]] \in {"TC", "AIN", "DIO"}
      /\ Types[p[1]] = "DIO" => p[2] < DioInputs
      /\ \/ c.channel_1_config # 0
         \/ Types[p[1]] = "DIO" /\ (c.channel_2_config # 0 \/ c.channel_3_config # 0)
AskedAgain ==
  []<>isOnline =>
  \A p \in Banks :
    (config[p].poll_rate_ms # 0 /\ Readable(p)) ~> (age[p] = 0 /\ p \in asked)
=============================================================================
