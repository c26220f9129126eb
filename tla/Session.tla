------------------------------- MODULE Session -------------------------------
(***************************************************************************)
(* The session of the host with one chain of devices: connect, start the   *)
(* applications, identify the chain, read and write the settings of every  *)
(* bank.  The module is at the level of whole frames, in order and exactly *)
(* once, which is what Transport gives; a frame may be lost (Lose).        *)
(*                                                                         *)
(* A call of neoRADIO2ProcessIncomingData is Tick, which moves frames, and *)
(* then the handler of the state, one step per frame of the batch.  The    *)
(* application's calls come between two ticks; the chain runs all the time.*)
(***************************************************************************)
EXTENDS Integers, Sequences, FiniteSets

CONSTANTS
  BanksOf,       (* neoRADIO2GetDeviceNumberOfBanks: device type -> banks  *)
  MaxDevices,    (* ChainList is [8][8]                                    *)
  NumParts,      (* SETTINGS_NUMPARTS: number of the last settings part    *)
  StartDelay,    (* 50 ms, in the unit of a tick's time                    *)
  TxMax,         (* packets txfifo has room for                            *)
  Images,        (* the settings an application may want: part -> value    *)
  Chain,         (* the chain: device 0 .. n - 1 -> device type            *)
  InBootloader,  (* the banks that stay in the bootloader                  *)
  IdentOrder,    (* the banks in the order in which they answer IDENTIFY   *)
  Budgets        (* bounds: how many connections, requests, edits, losses  *)
                 (* and early calls there may be, as records               *)

Parts == 0 .. NumParts
Slots == (0 .. MaxDevices - 1) \X (0 .. MaxDevices - 1)
LastOfChain == Cardinality(DOMAIN Chain) - 1

Elements(s) == {s[i] : i \in DOMAIN s}

\* The order of the slots in ChainList.
Before(p, q) == p[1] < q[1] \/ (p[1] = q[1] /\ p[2] < q[2])

\* The banks there are, as <<device, bank>>.
Banks == {p \in Slots : p[1] <= LastOfChain /\ p[2] < BanksOf[Chain[p[1]]]}

States ==
  {"Disconnected", "ConnectedWaitForAppStart", "ConnectedWaitIdentResponse",
   "ConnectedWaitReadSettings", "ConnectedWaitWriteSettings",
   "ConnectedWaitFinishWriteSettings", "Connected"}

ZeroImage == [k \in Parts |-> 0]
ZeroChip ==
  [deviceType |-> 0, boot |-> FALSE, settings |-> ZeroImage, settingsState |-> "NeedsRead"]
ZeroChainList == [p \in Slots |-> ZeroChip]

ASSUME SessionAssumption ==
  /\ NumParts \in Nat /\ StartDelay \in Nat /\ TxMax \in Nat \ {0}
  /\ MaxDevices \in 1 .. 8
  /\ 0 \in DOMAIN BanksOf
  /\ \A t \in DOMAIN BanksOf : BanksOf[t] \in (1 .. MaxDevices) \cap {1, BanksOf[0]}
  /\ LastOfChain \in 0 .. MaxDevices - 1 /\ DOMAIN Chain = 0 .. LastOfChain
  /\ \A d \in DOMAIN Chain : Chain[d] \in DOMAIN BanksOf
  /\ InBootloader \subseteq Banks
  /\ IdentOrder \in Seq(Banks) /\ Elements(IdentOrder) = Banks
  /\ \A i, j \in DOMAIN IdentOrder : i < j => Before(IdentOrder[j], IdentOrder[i])
  /\ Images \subseteq [Parts -> Nat] /\ ZeroImage \in Images
  /\ Budgets \subseteq [connects : Nat, requests : Nat, edits : Nat, losses : Nat, early : Nat]

VARIABLES
  State, Timeus, LastDevice, LastBank,
  open,        (* HandleInterface0 and HandleInterface1 are open files        *)
  ChainList,   (* the ChipInfo of every slot: type, bootloader, settings      *)
  rx, next,    (* the batch in rxDataBuffer and the frame a handler is at      *)
  handler,     (* the state whose handler runs, "none" between ticks           *)
  tx,          (* the packets in txfifo                                        *)
  down, up,    (* the frames on their way to the chain and back                *)
  stored,      (* the settings a bank uses                                     *)
  staged,      (* the parts it was sent since                                  *)
  due,         (* the banks that have not yet reported that they stored them   *)
  clean,       (* history: no READ was on its way when the last reading began  *)
  wanted,      (* history: the images the application gave each bank           *)
  touched,     (* history: the banks edited when the state was not Connected   *)
  hasty,       (* history: SetSettings was called when it was not              *)
  lost,        (* history: a frame was lost                                    *)
  left         (* what the bounds leave                                        *)

host == <<State, Timeus, LastDevice, LastBank, ChainList>>
batch == <<rx, next, handler>>
chain == <<stored, staged, due>>
counts == <<touched, hasty, lost, left>>
vars == <<host, open, batch, tx, down, up, chain, clean, wanted, counts>>

-----------------------------------------------------------------------------
(***************************************************************************)
(* Frames.  A bank is a mask in a command and a number in an answer.       *)
(***************************************************************************)
Frame(sof, cmd, device, bank, part, value) ==
  [sof |-> sof, cmd |-> cmd, device |-> device, bank |-> bank, part |-> part,
   value |-> value]
Command(cmd, p, part, value) == Frame("AA", cmd, p[1], 2 ^ p[2], part, value)
Answer(cmd, p, part, value) == Frame("55", cmd, p[1], p[2], part, value)
ToAll(cmd) == Frame("AA", cmd, 255, 255, 0, 0)

\* The number of the bank a mask stands for; 0 for what is no mask.
GetBankPos(x) ==
  IF \E b \in 0 .. 7 : x = 2 ^ b THEN CHOOSE b \in 0 .. 7 : x = 2 ^ b ELSE 0

\* The frames whose handling a state waits for.
IsIdent(f) == f.sof = "55" /\ f.cmd = "IDENTIFY"
IsReadAnswer_anySof(f) == f.cmd = "READ_SETTINGS"
IsReadAnswer_smallBank(f) == f.cmd = "READ_SETTINGS" /\ f.bank < MaxDevices
IsReadAnswer(f) == f.sof = "55" /\ f.cmd = "READ_SETTINGS"
IsWriteEcho(f) == f.sof = "AA" /\ f.cmd = "WRITE_SETTINGS"
IsWriteStatus(f) == f.sof = "55" /\ f.cmd = "WRITE_SETTINGS"

\* The frames of the batch still to be handled.
Pending == IF handler = "none" THEN <<>> ELSE SubSeq(rx, next, Len(rx))

\* What the chain did not take yet, and what the host did not look at yet.
Downlink == down \o tx
Uplink == Pending \o up

\* Where the commands of a kind are on their way, their answers and their echoes.
IsA(f, sof, cmd) == f.sof = sof /\ f.cmd = cmd
Where(s, sof, cmd) == {i \in DOMAIN s : IsA(s[i], sof, cmd)}
Commands(cmd) == Where(Downlink, "AA", cmd)
Answers(cmd) == Where(Uplink, "55", cmd)
Echoes(cmd) == Where(Uplink, "AA", cmd)

Init ==
  /\ State = "Disconnected" /\ Timeus = 0 /\ LastDevice = 0 /\ LastBank = 0
  /\ open = FALSE /\ ChainList = ZeroChainList
  /\ rx = <<>> /\ next = 1 /\ handler = "none" /\ tx = <<>>
  /\ down = <<>> /\ up = <<>>
  /\ stored \in [Banks -> Images] /\ staged = stored /\ due = {}
  /\ clean = TRUE /\ wanted = [p \in Banks |-> {stored[p]}]
  /\ lost = FALSE /\ touched = {} /\ hasty = FALSE /\ left \in Budgets

-----------------------------------------------------------------------------
(***************************************************************************)
(* Sending.  neoRADIO2SendPacket returns -1 when txfifo has no room; only  *)
(* SendJumpToApp and IdentifyChain look at the result.                     *)
(***************************************************************************)
HasRoom == Len(tx) < TxMax
SendPacket(f) == tx' = IF HasRoom THEN Append(tx, f) ELSE tx

ReadCommand(p, part) == Command("READ_SETTINGS", p, part, 0)
WriteCommand_noOffset(p, part, cl) ==
  Command("WRITE_SETTINGS", p, part, cl[p].settings[0])
WriteCommand(p, part, cl) == Command("WRITE_SETTINGS", p, part, cl[p].settings[part])

NumBanks(cl, p) == BanksOf[cl[p].deviceType]

\* The banks the host believes to be there.
Known(cl) == {p \in Slots : p[1] <= LastDevice /\ p[2] < NumBanks(cl, <<p[1], 0>>)}

-----------------------------------------------------------------------------
(***************************************************************************)
(* The application's calls                                                 *)
(***************************************************************************)

\* The record as memset leaves it.
Zeroed ==
  /\ State' = "Disconnected" /\ Timeus' = 0 /\ LastDevice' = 0 /\ LastBank' = 0
  /\ ChainList' = ZeroChainList
  /\ rx' = <<>> /\ next' = 1

Idle == handler = "none"

\* Editing and SetSettings are meant for a device that is Connected; the code
\* looks at no state, so that they may come too early, left.early times, and even
\* make a device Connected that was never opened.
Early == State # "Connected"
MayCall == Idle /\ (Early => left.early > 0)
AfterCall == [left EXCEPT !.early = IF Early THEN @ - 1 ELSE @]

\* What the bridge has received so far is read and thrown away.
Drain == \E n \in 0 .. Len(up) : up' = SubSeq(up, n + 1, Len(up))

\* ConnectDevice of the JNI zeroes the record; then the bridge cannot be opened, or
\* is opened and cannot be set up.
ConnectFails ==
  /\ Idle /\ left.connects > 0
  /\ left' = [left EXCEPT !.connects = @ - 1]
  /\ Zeroed /\ open' \in BOOLEAN /\ tx' = <<>> /\ Drain
  /\ UNCHANGED <<handler, down, chain, clean, wanted, touched, hasty, lost>>

\* The record is zeroed, the bridge set up and drained, and the devices are told
\* to start their applications.
Connect ==
  /\ Idle /\ left.connects > 0
  /\ left' = [left EXCEPT !.connects = @ - 1]
  /\ State' = "ConnectedWaitForAppStart" /\ open' = TRUE
  /\ Timeus' = 0 /\ LastDevice' = 0 /\ LastBank' = 0 /\ ChainList' = ZeroChainList
  /\ rx' = <<>> /\ next' = 1
  /\ tx' = <<ToAll("START")>>
  /\ Drain
  /\ UNCHANGED <<handler, down, chain, clean, wanted, touched, hasty, lost>>

CloseDevice ==
  /\ Idle
  /\ Zeroed /\ open' = FALSE /\ tx' = <<>>
  /\ UNCHANGED <<handler, down, up, chain, clean, wanted, counts>>

\* The application puts new settings into ChainList and marks them.
Edit ==
  /\ MayCall /\ left.edits > 0
  /\ left' = [AfterCall EXCEPT !.edits = @ - 1]
  /\ \E p \in Known(ChainList) \cap Banks, image \in Images :
       /\ ChainList' = [ChainList EXCEPT ![p].settings = image,
                                         ![p].settingsState = "NeedsWrite"]
       /\ wanted' = [wanted EXCEPT ![p] = @ \cup {image}]
       /\ touched' = IF Early THEN touched \cup {p} ELSE touched
  /\ UNCHANGED <<State, Timeus, LastDevice, LastBank, open, batch, tx, down, up, chain, clean,
                 hasty, lost>>

\* neoRADIO2StartReadSettings.
StartReadSettings ==
  /\ ChainList' = [p \in Slots |->
       IF p \in Known(ChainList)
       THEN [ChainList[p] EXCEPT !.settingsState = "NeedsRead"] ELSE ChainList[p]]
  /\ SendPacket(ReadCommand(<<0, 0>>, 0))
  /\ State' = "ConnectedWaitReadSettings"

\* RequestSettings is refused, and changes nothing, in any other state.
RequestSettings ==
  /\ Idle /\ State = "Connected" /\ left.requests > 0
  /\ left' = [left EXCEPT !.requests = @ - 1]
  /\ clean' = (Commands("READ_SETTINGS") = {} /\ Answers("READ_SETTINGS") = {})
  /\ StartReadSettings
  /\ UNCHANGED <<Timeus, LastDevice, LastBank, open, batch, down, up, chain, wanted, touched, hasty,
                 lost>>

\* The banks marked for writing, and the one StartWriteSettings meets first.
NeedsWrite(cl) == {p \in Known(cl) : cl[p].settingsState = "NeedsWrite"}
FirstOf(S) == CHOOSE p \in S : \A q \in S : ~Before(q, p)

\* neoRADIO2StartWriteSettings, with ChainList as cl.
StartWriteSettings(cl) ==
  IF NeedsWrite(cl) = {}
  THEN State' = "Connected" /\ UNCHANGED tx
  ELSE /\ State' = "ConnectedWaitWriteSettings"
       /\ SendPacket(WriteCommand(FirstOf(NeedsWrite(cl)), 0, cl))

\* SetSettings looks at no state.  In a zeroed record txfifo has no room; what the
\* model keeps of such a packet in tx leaves no more than it does there.
SetSettings ==
  /\ MayCall /\ left' = AfterCall
  /\ hasty' = (hasty \/ Early)
  /\ StartWriteSettings(ChainList)
  /\ UNCHANGED <<Timeus, LastDevice, LastBank, ChainList, open, batch, down, up, chain, clean,
                 wanted, touched, lost>>

Application ==
  ConnectFails \/ Connect \/ CloseDevice \/ Edit \/ RequestSettings \/ SetSettings

-----------------------------------------------------------------------------
(***************************************************************************)
(* neoRADIO2ProcessIncomingData                                            *)
(***************************************************************************)

\* Nothing is on the line: all that was sent has been answered.
Quiet == tx = <<>> /\ down = <<>> /\ up = <<>> /\ due = {}

\* Time passes by one tick.  StartDelay is longer than any answer takes: the
\* 50 ms are not over while something sent before is still on the line.
Elapse ==
  \E t \in {Timeus, Timeus + 1} :
    /\ t <= StartDelay + 1
    /\ t > StartDelay /\ State = "ConnectedWaitForAppStart" => Quiet
    /\ Timeus' = t

\* GetNewData and LookForDevicePackets: a batch is received, then a report is
\* sent.  Without the files nothing is.
Tick ==
  /\ Idle /\ open /\ State # "Disconnected"
  /\ Elapse
  /\ \E n \in 0 .. Len(up) :
       rx' = SubSeq(up, 1, n) /\ up' = SubSeq(up, n + 1, Len(up))
  /\ \E m \in 0 .. Len(tx) :
       down' = down \o SubSeq(tx, 1, m) /\ tx' = SubSeq(tx, m + 1, Len(tx))
  /\ next' = 1
  /\ handler' = State
  /\ UNCHANGED <<State, LastDevice, LastBank, ChainList, open, chain, clean, wanted, counts>>

\* A USB error ends the tick before anything is parsed; what was received stays
\* in rxfifo, which is here still part of `up'.
TickFails ==
  /\ Idle /\ State # "Disconnected"
  /\ Elapse
  /\ UNCHANGED <<State, LastDevice, LastBank, ChainList, open, batch, tx, down, up, chain,
                 clean, wanted, counts>>

\* The handlers change nothing outside these.
HandlerFrame ==
  UNCHANGED <<Timeus, open, down, up, chain, clean, wanted, counts>>

Return == handler' = "none" /\ rx' = <<>> /\ next' = 1
Continue == next' = next + 1 /\ UNCHANGED <<rx, handler>>

\* neoRADIO2IdentifyChain.
IdentifyChain_noSend ==
  /\ State' = "ConnectedWaitIdentResponse"
  /\ LastBank' = 0 /\ LastDevice' = 0 /\ ChainList' = ZeroChainList
  /\ UNCHANGED tx
IdentifyChain ==
  IF HasRoom
  THEN /\ SendPacket(ToAll("IDENTIFY"))
       /\ State' = "ConnectedWaitIdentResponse"
       /\ LastBank' = 0 /\ LastDevice' = 0 /\ ChainList' = ZeroChainList
  ELSE /\ State' = "Disconnected"
       /\ UNCHANGED <<tx, LastBank, LastDevice, ChainList>>

\* The histories of what went wrong start anew with each identification.
NewSession ==
  /\ lost' = FALSE /\ hasty' = FALSE /\ touched' = {}
  /\ wanted' = [p \in Banks |-> wanted[p] \cup {stored[p]}]
  /\ UNCHANGED left

WaitForStartHeader ==
  /\ handler = "ConnectedWaitForAppStart"
  /\ IF Timeus > StartDelay THEN IdentifyChain /\ NewSession
     ELSE UNCHANGED <<State, tx, LastBank, LastDevice, ChainList, wanted, counts>>
  /\ Return
  /\ UNCHANGED <<Timeus, open, down, up, chain, clean>>

\* The answer that comes last.
FinalAnswer_anyDevice(p) == p[2] = 0
FinalAnswer(p) == p = <<0, 0>>

LookForIdentResponse ==
  /\ handler = "ConnectedWaitIdentResponse" /\ next <= Len(rx)
  /\ LET f == rx[next]
         p == <<f.device, f.bank>>
     IN  IF IsIdent(f)
         THEN /\ IF LastDevice = 0 /\ LastBank = 0
                 THEN LastDevice' = f.device /\ LastBank' = f.bank
                 ELSE UNCHANGED <<LastDevice, LastBank>>
              /\ ChainList' = [ChainList EXCEPT ![p].deviceType = f.value.deviceType,
                                                ![p].boot = f.value.boot]
              /\ State' = IF FinalAnswer(p) THEN "Connected" ELSE State
         ELSE UNCHANGED <<LastDevice, LastBank, ChainList, State>>
  /\ UNCHANGED tx
  /\ Continue /\ HandlerFrame

LastPart_early(part) == part = NumParts - 1
LastPart(part) == part = NumParts
LastBankOf(p, cl) == p[2] = NumBanks(cl, p) - 1
LastOfAll_anyDevice(p, cl) == LastBankOf(p, cl)
LastOfAll(p, cl) == LastBankOf(p, cl) /\ p[1] = LastDevice

\* What to ask for after part `part' of bank p: the next part, the first one of
\* the next bank or, after the last part of all, this part again.
ReadNext_stuck(p, part, cl) ==
  IF ~LastPart(part) THEN ReadCommand(p, part + 1)
  ELSE IF ~LastBankOf(p, cl) THEN ReadCommand(<<p[1], p[2] + 1>>, 0)
  ELSE ReadCommand(p, part)
ReadNext(p, part, cl) ==
  IF ~LastPart(part) THEN ReadCommand(p, part + 1)
  ELSE IF ~LastBankOf(p, cl) THEN ReadCommand(<<p[1], p[2] + 1>>, 0)
  ELSE IF p[1] # LastDevice THEN ReadCommand(<<p[1] + 1, 0>>, 0)
  ELSE ReadCommand(p, part)

ReadSettings ==
  /\ handler = "ConnectedWaitReadSettings" /\ next <= Len(rx)
  /\ LET f == rx[next]
         p == <<f.device, f.bank>>
         last == LastPart(f.part)
     IN  IF IsReadAnswer(f)
         THEN /\ ChainList' = [ChainList EXCEPT
                   ![p].settings[f.part] = f.value,
                   ![p].settingsState = IF last THEN "Valid" ELSE @]
              /\ State' = IF last /\ LastOfAll(p, ChainList)
                          THEN "Connected" ELSE State
              /\ SendPacket(ReadNext(p, f.part, ChainList))
         ELSE UNCHANGED <<ChainList, State, tx>>
  /\ UNCHANGED <<LastDevice, LastBank>>
  /\ Continue /\ HandlerFrame

\* neoRADIO2WaitFinishWriteSettings looks through the whole batch.
FinishWrite_noWait(cl) == StartWriteSettings(cl)
FinishWrite_thisFrame(cl) ==
  IF next <= Len(rx) /\ IsWriteStatus(rx[next])
  THEN StartWriteSettings(cl)
  ELSE State' = "ConnectedWaitFinishWriteSettings" /\ UNCHANGED tx
FinishWrite(cl) ==
  IF \E i \in 1 .. Len(rx) : IsWriteStatus(rx[i])
  THEN StartWriteSettings(cl)
  ELSE State' = "ConnectedWaitFinishWriteSettings" /\ UNCHANGED tx

WriteSettings ==
  /\ handler = "ConnectedWaitWriteSettings" /\ next <= Len(rx)
  /\ LET f == rx[next]
         p == <<f.device, GetBankPos(f.bank)>>
     IN  IF ~IsWriteEcho(f) THEN UNCHANGED <<ChainList, State, tx>>
         ELSE IF LastPart(f.part)
         THEN /\ ChainList' = [ChainList EXCEPT ![p].settingsState = "Valid"]
              /\ FinishWrite(ChainList')
         ELSE /\ SendPacket(WriteCommand(p, f.part + 1, ChainList))
              /\ UNCHANGED <<ChainList, State>>
  /\ UNCHANGED <<LastDevice, LastBank>>
  /\ Continue /\ HandlerFrame

WaitFinishWriteSettings ==
  /\ handler = "ConnectedWaitFinishWriteSettings"
  /\ FinishWrite(ChainList)
  /\ UNCHANGED <<LastDevice, LastBank, ChainList>>
  /\ Return /\ HandlerFrame

\* The batch is handled; a connected device leaves it to the application.
EndBatch ==
  /\ \/ handler = "Connected"
     \/ /\ handler \in {"ConnectedWaitIdentResponse", "ConnectedWaitReadSettings",
                        "ConnectedWaitWriteSettings"}
        /\ next > Len(rx)
  /\ UNCHANGED <<State, LastDevice, LastBank, ChainList, tx>>
  /\ Return /\ HandlerFrame

Handler ==
  \/ WaitForStartHeader \/ LookForIdentResponse \/ ReadSettings \/ WriteSettings
  \/ WaitFinishWriteSettings \/ EndBatch

-----------------------------------------------------------------------------
(***************************************************************************)
(* The chain, as the host's code expects it (no code of it is here).       *)
(* Every command passes all devices and comes back as an echo, before or   *)
(* after the answers to it.                                                *)
(***************************************************************************)

\* The last bank of the last device answers IDENTIFY first, <<0, 0>> last.
IdentAnswer(p) ==
  Answer("IDENTIFY", p, 0, [deviceType |-> Chain[p[1]], boot |-> p \in InBootloader])
IdentAnswers == [i \in DOMAIN IdentOrder |-> IdentAnswer(IdentOrder[i])]

Target(f) == <<f.device, GetBankPos(f.bank)>>

\* The answers at once.  A bank in the bootloader answers IDENTIFY only.
AnswersTo(f) ==
  IF f.cmd = "IDENTIFY" THEN IdentAnswers
  ELSE IF f.cmd = "READ_SETTINGS" /\ Target(f) \in Banks \ InBootloader
  THEN <<Answer(f.cmd, Target(f), f.part, stored[Target(f)][f.part])>>
  ELSE <<>>

\* The last part of a write makes the bank use what it was sent.
BankWrites(p, f) ==
  /\ staged' = [staged EXCEPT ![p][f.part] = f.value]
  /\ IF f.part = NumParts
     THEN stored' = [stored EXCEPT ![p] = staged'[p]] /\ due' = due \cup {p}
     ELSE UNCHANGED <<stored, due>>

\* The chain takes the next command.
ChainTakes ==
  /\ down # <<>> /\ down' = Tail(down)
  /\ LET f == Head(down)
     IN  /\ up' \in {up \o AnswersTo(f) \o <<f>>, up \o <<f>> \o AnswersTo(f)}
         /\ IF f.cmd = "WRITE_SETTINGS" /\ Target(f) \in Banks \ InBootloader
            THEN BankWrites(Target(f), f) ELSE UNCHANGED chain
  /\ UNCHANGED <<host, open, batch, tx, clean, wanted, counts>>

\* A bank reports that its settings are stored.
ChainReports ==
  /\ \E p \in due :
       /\ due' = due \ {p}
       /\ up' = Append(up, Answer("WRITE_SETTINGS", p, 0, 0))
  /\ UNCHANGED <<host, open, batch, tx, down, stored, staged, clean, wanted, counts>>

\* A frame is lost on the line, or dropped by the parser for its CRC.
Without(s, i) == SubSeq(s, 1, i - 1) \o SubSeq(s, i + 1, Len(s))
Lose ==
  /\ left.losses > 0 /\ lost' = TRUE
  /\ left' = [left EXCEPT !.losses = @ - 1]
  /\ \/ \E i \in 1 .. Len(up) : up' = Without(up, i) /\ UNCHANGED down
     \/ \E i \in 1 .. Len(down) : down' = Without(down, i) /\ UNCHANGED up
  /\ UNCHANGED <<host, open, batch, tx, chain, clean, wanted, touched, hasty>>

External == ChainTakes \/ ChainReports \/ Lose

Next == Application \/ Tick \/ TickFails \/ Handler \/ External

Spec == Init /\ [][Next]_vars

-----------------------------------------------------------------------------
\* neoRADIO2SettingsValid, true for its result 1.
SettingsValid ==
  \A p \in Slots :
    p[1] < LastDevice /\ p[2] < NumBanks(ChainList, <<p[1], 0>>) =>
      ChainList[p].settingsState # "Valid" \/ ChainList[p].boot

-----------------------------------------------------------------------------
(***************************************************************************)
(* Fairness: ticks are made for ever (neoRAD-IO2.c:116), do not fail for   *)
(* ever, let time pass and take what has come and what is to go; a handler *)
(* that was called returns; the chain answers.                             *)
(***************************************************************************)
Fairness ==
  /\ SF_vars(Tick)
  /\ SF_vars(Tick /\ rx' # <<>>)
  /\ SF_vars(Tick /\ tx' # tx)
  /\ SF_vars(Tick /\ Timeus' > Timeus)
  /\ WF_vars(Handler)
  /\ WF_vars(ChainTakes) /\ WF_vars(ChainReports)

FairSpec == Spec /\ Fairness

-----------------------------------------------------------------------------
(***************************************************************************)
(* Properties.  Those that need a line without loss say so by ~lost, those *)
(* that need an application that waits until the device is Connected by    *)
(* ~hasty and touched; as these histories start anew with each             *)
(* identification, they also say that to connect again cures everything.   *)
(***************************************************************************)

\* The handlers take the place in ChainList where they read and store from the
\* frame they are at, and look neither at its range nor, in an echo, at which of
\* two forms the bank has: a mask of commands, 255 for all, or a number.
InBounds ==
  handler # "none" /\ next <= Len(rx) =>
    LET f == rx[next]
    IN  /\ handler = "ConnectedWaitIdentResponse" /\ IsIdent(f) => <<f.device, f.bank>> \in Slots
        /\ handler = "ConnectedWaitReadSettings" /\ IsReadAnswer(f) =>
             <<f.device, f.bank>> \in Slots /\ f.part \in Parts
        /\ handler = "ConnectedWaitWriteSettings" /\ IsWriteEcho(f) =>
             <<f.device, GetBankPos(f.bank)>> \in Slots /\ f.part \in Parts

\* Type correctness of what the code keeps, and that no handler leaves ChainList
\* or the settings in it: the frame it is at names a slot and a part (InBounds,
\* PacketHandler.c:342-351, 415-431, 495-525), and the loops over the chain end at
\* a device there is room for and at a number of banks from the table.
TypeOK ==
  /\ InBounds
  /\ State \in States /\ handler \in States \cup {"none"}
  /\ Timeus \in 0 .. StartDelay + 1
  /\ <<LastDevice, LastBank>> \in Slots
  /\ open \in BOOLEAN
  /\ \A p \in Slots :
       /\ ChainList[p].deviceType \in DOMAIN BanksOf
       /\ DOMAIN ChainList[p].settings = Parts
       /\ ChainList[p].settingsState \in {"NeedsRead", "NeedsWrite", "Valid"}
  /\ next \in 1 .. Len(rx) + 1
  /\ Len(tx) <= TxMax

Identified == State \in States \ {"Disconnected", "ConnectedWaitForAppStart",
                                  "ConnectedWaitIdentResponse"}

\* Once the state leaves ConnectedWaitIdentResponse the host knows the whole
\* chain: its last bank, and type and bootloader state of each bank.  It is the
\* answers' order that makes it so, however the answers are spread over ticks and
\* whatever is left of an earlier connection
\* (PacketHandler.c:336-375).
ChainKnown ==
  Identified /\ ~lost /\ ~hasty =>
    /\ <<LastDevice, LastBank>> = <<LastOfChain, BanksOf[Chain[LastOfChain]] - 1>>
    /\ \A p \in Banks : ChainList[p].deviceType = Chain[p[1]]
                       /\ ChainList[p].boot = (p \in InBootloader)

\* For each state that waits: what it waits for is on its way, or what makes the chain send it.
IdentComes ==
  State = "ConnectedWaitIdentResponse" => Commands("IDENTIFY") # {} \/ Answers("IDENTIFY") # {}
ReadComes ==
  State = "ConnectedWaitReadSettings" =>
    \/ Answers("READ_SETTINGS") # {}
    \/ \E i \in Commands("READ_SETTINGS") : Target(Downlink[i]) \in Banks \ InBootloader
EchoComes ==
  State = "ConnectedWaitWriteSettings" =>
    Commands("WRITE_SETTINGS") # {} \/ Echoes("WRITE_SETTINGS") # {}
ReportComes ==
  State = "ConnectedWaitFinishWriteSettings" => due # {} \/ Answers("WRITE_SETTINGS") # {}
\* The handlers have no timeout: a state that waits is left only by a frame it
\* waits for.  As long as none was lost, that frame is coming.
NeverInVain == ~lost /\ ~hasty => IdentComes /\ ReadComes /\ EchoComes /\ ReportComes

\* The settings are exchanged one frame at a time: the next one is sent when the
\* answer to the last one is here, and so neither txfifo nor the chain is ever
\* flooded.
AtMostOne(S, T) == (S = {} \/ T = {}) /\ \A i, j \in S \cup T : i = j
OneAtATime ==
  /\ clean => AtMostOne(Commands("READ_SETTINGS"), Answers("READ_SETTINGS"))
  /\ ~hasty => AtMostOne(Commands("WRITE_SETTINGS"), Echoes("WRITE_SETTINGS"))

\* The settings the host calls valid are those the bank uses, after any order of
\* reading, editing, writing and reconnecting; a bank in the bootloader has none.
ValidIsTrue ==
  ~hasty => \A p \in (Known(ChainList) \cap Banks) \ (touched \cup InBootloader) :
    clean /\ ChainList[p].settingsState = "Valid" => ChainList[p].settings = stored[p]

\* A bank uses settings the application gave it as a whole, never a mixture of
\* two images, though they are sent in parts and a connection may be closed
\* between two of them (PacketHandler.c:462-528).
NeverTorn == ~hasty => \A p \in Banks \ touched : stored[p] \in wanted[p]

\* The session keeps what Settings promises: a bank does not change its settings
\* as long as the host calls them valid, and changes them only to settings it was
\* offered, whatever was interrupted, repeated or lost before.
Excused == IF hasty THEN Banks ELSE touched
Shown ==
  [p \in Banks |->
     IF /\ clean /\ p \notin Excused \cup InBootloader
        /\ ChainList[p].settingsState = "Valid" /\ p \in Known(ChainList)
     THEN {ChainList[p].settings} ELSE {}]
Promise ==
  INSTANCE Settings WITH used <- stored, offered <- wanted, shown <- Shown,
                         excused <- Excused
ImplementsSettings == Promise!Spec

\* Reading ends when every bank was read, and not before.
ReadComplete ==
  [][ clean /\ ~hasty' /\ State = "ConnectedWaitReadSettings" /\ State' = "Connected" =>
        \A p \in Known(ChainList) \ touched : ChainList'[p].settingsState = "Valid" ]_vars

\* Writing ends when no bank is left to be written and each has reported that it
\* stored its settings.
WaitsForWrite == {"ConnectedWaitWriteSettings", "ConnectedWaitFinishWriteSettings"}
WriteComplete ==
  [][ ~hasty' /\ State' = "Connected" /\ State \in WaitsForWrite =>
        NeedsWrite(ChainList') = {} /\ due = {} ]_vars

\* neoRADIO2SettingsValid says that the settings of every bank are valid; a bank
\* in the bootloader has none ("bootloader cannot read settigns",
\* neoRAD-IO2.c:199).
ValidMeansAll ==
  Identified /\ ~hasty /\ SettingsValid =>
    \A p \in Known(ChainList) : ChainList[p].settingsState = "Valid" \/ ChainList[p].boot

\* A connection that was opened becomes ready, unless it is closed.
ConnectEnds == State = "ConnectedWaitForAppStart" ~> State \in {"Connected", "Disconnected"}

\* Reading ends.  neoRAD-IO2.c:199: "bootloader cannot read settigns", so a bank
\* in the bootloader is not to be waited for.
ReadEnds == State = "ConnectedWaitReadSettings" ~> State # "ConnectedWaitReadSettings"

\* Writing ends.
WriteEnds == State = "ConnectedWaitWriteSettings" ~> State \in {"Connected", "Disconnected"}
=============================================================================
