# Verification of the neoRAD-IO2 C library

The library talks to chains of neoRAD-IO2 measurement devices. A chain hangs on a
UART behind an FT260 USB-to-UART bridge; the library reads and writes the bridge's
HID reports, assembles frames, identifies the devices, exchanges their settings and
polls them. It is built for the desktop, for Android (behind JNI and Java) and, without
USB, for embedded hosts.

Paths below are relative to the repository root.

## Inventory

| part | code | state | operations | what makes it correct |
|---|---|---|---|---|
| embedded FIFO | `inc/fifo.h`, `src/fifo.c` | `fifo_t`: memory, cursors `in`, `out`, count | push, pop, one-byte and in-place variants, clear, copy | it is a bounded queue; cursors and count never disagree |
| byte transport | `neoRADIO2GetNewData`, `neoRADIO2SendPacket` | `rxfifo`, `txfifo` | read reports until none is left, send one report, queue a packet | no byte lost but those that do not fit, packets go out whole and in order |
| frame parser | `neoRADIO2LookForDevicePackets` | `rxDataBuffer`, `rxDataCount` | parse what rxfifo holds | finds every valid frame once, however the bytes are cut |
| session | `neoRADIO2ProcessIncomingData` and its handlers, connect, close, request and set settings | `State`, `Timeus`, `LastDevice`, `LastBank`, `ChainList` | one handler per state, the application's calls | the host's picture of the chain and its settings is true; nothing is waited for in vain |
| polling | `neoRADIO2ProcessConnectedState`, `neoRADIO2IsBankEnabled` | `waitingForRead`, `lastReadTimeus`, `errorState` | poll each enabled bank when its period is over | missed answers are reported, txfifo never overflows |
| FT260 bridge | `src/ft260.c` | two HID handles | find, open, close, configure, transmit, receive | handles opened are closed; the search ends |
| HID on Android | `libs/hidraw/hid.c` | file descriptor, flags | open, read, write, feature report | results distinguish no data from an error |
| JNI layer | `src/neoRADIO2_jni.cpp` | `deviceInfos`, `devices`, times, environment map | one function per library function | calls of several threads do not mix up a record |
| Java classes | `android/src/...` | mirrors of the native records | copy from and to native memory | the layout is the native one |
| CRC-8, serial numbers | `neoRADIO2CalcCRC8`, `neoRADIO2SerialToString` | a lazily filled table | pure functions | equal to their definitions |

How they interact: the application calls `neoRADIO2ProcessIncomingData` about every
millisecond (a tick). A tick reads the bridge into `rxfifo`, sends one report out of
`txfifo`, parses `rxfifo` into `rxDataBuffer` and runs the handler of the current state
over that buffer; handlers queue packets in `txfifo`. All other calls come between two
ticks. On Android they come from threads of Java: nothing keeps two threads apart that use
one device; threads that use different ones still share the CRC table and the map of
environments.

What is hard: bytes arrive cut into reports and ticks anywhere; a USB error ends a tick in
the middle; FIFOs fill up and wrap; frames get lost or corrupted, and noise looks like
frames; settings travel in parts, one at a time, and answers, echoes and status reports
come in orders the chain chooses; connections are closed at any time with frames still on
the line; the application's calls look at no state and may come in the middle of an exchange;
nothing has a timeout. The `hazards` of `PROJECT.json` list each of these at the
line where it bites, with the properties that cover it.

## Modules

| module | models | abstract away |
|---|---|---|
| `FifoOps` | each function of the FIFO as an operator on a `fifo_t` | - |
| `ByteQueue` | what the FIFO promises: bounded queues of bytes | |
| `Fifo` | programs that use several FIFOs, one action per function | unsigned overflow (sizes are far below 2^32) |
| `Transport` | the byte path and the parser of one device, on `FifoOps` | the CRC (a parameter) |
| `TransportFair` | the same on a line without noise, with fairness | |
| `Settings` | what a session promises about the settings of the banks | everything that is exchanged for it |
| `Session` | the state machine and its handlers, on whole frames, with the chain and the application | bytes, the contents of frames but part number and value |
| `Polling` | the connected state: periods, marks, missed reads | frames but the bank they come from; Timeus but the age of each question |
| `PollRate` | how full txfifo gets while polling, with the real sizes | the contents of txfifo |
| `Bridge` | opening, setting up, using and closing a bridge through hidraw, one system call per step | the contents of reports |
| `Discovery` | `neoRADIO2FindDevices` and both searches under it | paths (an interface stands for its path) |
| `Usb` | an application that finds a bridge with `Discovery` and uses it with `Bridge` | |
| `Crc8` | `neoRADIO2CRC8_Init` and `neoRADIO2CalcCRC8`, by threads that share the table | the order in which a filling stores its entries |
| `EnvInfos` | `JavaEnvInfo::getEnvInfo` and its mutex | what an entry holds |
| `JavaThreads` | the threads, the constant `Crc8` and `EnvInfos` have in common | |
| `Jni` | threads of Java that use `Crc8` and `EnvInfos` at once | the calls in which nothing is shared |
| `SerialString` | `neoRADIO2SerialToString` | - |

`FifoOps_proofs`, `Fifo_proofs`, `Transport_proofs`, `Polling_proofs` and `Session_proofs` hold the
theorems about these modules (`Session_proofs` also that `Session` implements `Settings`),
`Platform_proofs` those about `Bridge`, `Discovery` and `Usb`, `Jni_proofs` those about `Crc8`,
`EnvInfos`, `Jni` and `SerialString`; `PollRate` holds its own. The `MC...` modules give constants their values.

`Transport` and `Session` are two levels of one system. `Transport` shows that frames are
handed to the handlers whole, once and in order; `Session` takes that for granted and adds
`Lose` for the frames the parser dropped or the line swallowed. `SendPacket` appears in
both: as bytes in txfifo there, as a packet here.

### FifoOps and Fifo

A `fifo_t` is a record with the memory itself in the place of the pointer. Every operator
returns the record the C function leaves; `FIFO_Push` is the inline version with its two
copies and two cursor updates. `Slot` and `Contents` say what a record stands for.

### Transport

`pc` says where a tick is: `receive` (the read loop), `transmit`, `parse` (entry of the
parser), `scan` (one turn of its loop per step), `dispatch` (the handler). A USB call is a
step of its own, and may fail: then the tick is over, with whatever was done. The parser's
`rxdata` and `loc` are variables, since it reads a copy while it pops `rxfifo`.
`accepted`, `consumed`, `frames`, `handled`, `queued` and `wire` are histories the
properties need. Frames are stored with their whole body; that a slot of
`rxDataBuffer` has 64 data bytes is not modelled. The mark `waitingForRead`, which the
parser clears, belongs to polling.

### Session

`Tick` is the part of `neoRADIO2ProcessIncomingData` before its `switch`: it receives some
of the frames on their way up and sends some of the queued packets. Then one step per
frame runs the handler that was chosen by the state at that time; its name is in
`handler`, since a handler goes on with its batch after it changed `State`. A failing tick
(`TickFails`) lets time pass and does nothing else. `ConnectFails` is every failure of
`neoRADIO2SetupFT260`.

`ChainList` keeps of a bank its type, whether it is in the bootloader, its settings (a
value per part) and `settingsState`. A bank is a bit mask in commands and a number in
answers, as in the code; `GetBankPos` converts.

The chain is external. It is the chain the code expects: a command comes back as an echo;
IDENTIFY is answered by all banks from the last to the first; a READ by the part; the last
part of a WRITE makes the bank use what it was sent, and report later.

`Quiet` is the one assumption on time: 50 ms are longer than anything takes to be answered,
so they are not over while a frame sent earlier is still on the line.

Every call of the application can come between any two ticks, in any state, also before the
first connection and after the last. Editing a bank
and `neoRADIO2SetSettings` are meant for `Connected`, but the code does not look; a call in
another state is counted as `early`. It can set `Connected` before anything was
identified, or even for a device that was never opened (`open` says whether the record has its
files; without them every tick fails, so what was queued never leaves), start a second exchange in the middle of one, or have a bank sent a mixture of two
images, so nothing can be promised for what it touches: `touched` are the banks edited too
early, `hasty` says that `SetSettings` came too early, `lost` that a frame was lost. What is
claimed is that the harm goes no farther: an edit in the middle of an exchange harms that bank
alone, a hasty call that session alone. The three histories start anew when the chain is
identified (`NewSession`), so each property says, too, that whatever was left in the
chain, in its banks and on the line, connecting again cures it.

The handlers take the place in `ChainList` at which they read and store from the frame they
are at. `InBounds`, a part of `TypeOK`, says that this frame names a slot of `ChainList` and a part: a TLA+
function cannot be stored to outside its domain, so the check is of the index and not of
what was stored. It could go wrong because a command comes back as its echo, in which the bank is a
mask and not a number.

`Settings` is the contract: a bank uses what it was offered as a whole, and what
the host calls valid is what the bank uses and goes on using until it is offered
something else or the host forgets what it knew. `excused` are the banks the application did
not wait for. `ImplementsSettings` maps it onto `Session`: `used` is what the chain
stored, `offered` is `wanted`, `shown` the settings in `ChainList` of the banks marked valid.
A step of `Session` is one of `Forget`, `Offer`, `Store`, `Show`, `Misuse`, `Renew`, or none.

### Polling and PollRate

A `Tick` of `Polling` is a whole tick: time passes (ticks may come late), the parser
clears the marks of the banks that some frame came from, and when online the banks that
are due are asked. The inputs are which banks a frame came from and how much time passed;
`asked`, `heard` and `unreported` are histories. A channel configuration is a number, for
a DIO the mode in it. The configuration does not change while polling. At the start all banks were last asked at 0 and any time has passed since. `PollRate` asks
the one question that needs the real sizes: whether the polls, whose sending is not checked,
always find room. It has no run: its sizes are fixed, and the theorem covers them.

### Bridge, Discovery and Usb

`Bridge` takes one step per system call of `hid.c`; `PullOut`, `PlugIn` and `Arrive` come
between any two. `files` is the system's table of open files, each bound to the plugging in
of the bridge it was opened on. `ConnectDevice` of the JNI layer clears the record without looking whether
its handles are open, and the application may call it at any time: `lost` are the files whose handles were
cleared so. The descriptors are finite, so opening fails when too many were lost. The bridge keeps what the line sent until it is read, also
while no file is open, which is more than the kernel keeps. Descriptor 0, which
`hid_open_path` takes for a failure (`libs/hidraw/hid.c:643`), is taken to be in use.
A read returns 0 also for a report that carries no byte (`src/ft260.c:242-251`): it ends the reading of
a tick, and that of the set-up (`DrainCut`), with reports left. `NothingStale` is claimed for a set-up whose reading no
empty report cut short (`cutShort`), since the code cannot tell. The first report of
the set-up is sent with uninitialised bytes behind its third (`src/neoRAD-IO2.c:42-53`);
contents of reports are not modelled.

`Discovery` walks hidapi's list of interfaces, or the names of hidraw nodes on Android,
element by element. `Usb` runs `Discovery` first and, when it found one bridge, `Bridge` on it. On Android the order of the names is an input; nothing in the
repository says which node of a bridge is which interface, so only that the two of one
bridge are paired is claimed. The serial number is whose it is, and which of its characters
were overwritten.

### Crc8, EnvInfos, Jni and SerialString

`Crc8` has threads that each serve a device of their own and check the frames they receive.
A byte is the set of its bits that are 1, so that exclusive or is the symmetric difference, and a
frame comes with the bytes that were sent: a line may have damaged them in at most eight bits
in a row (`Burst`), across two bytes or in the CRC itself. The length byte is not among them: damage to it moves the
place where the CRC is looked for, which is a matter of the frame's bytes in `Transport`, where any byte may come.
They share `neoRADIO2CRC8Table`, which has no lock. Whoever finds `table[1]` not
set fills the table, so several threads may, and what a thread reads while the first filling
is under way is undefined by the language; each entry is a byte that is stored once
with its right value, so that a read finds it 0 or right (`Read`). Once the table is
filled and all threads see it (`Settle`), filling it again stores what is there already. `safe`
says that a calculation began when the table was full, or by a thread that had the table for
itself; its result must be the remainder of the division by x^8 + x^2 + x + 1. `Division` is that
remainder by definition, by long division that brings down one bit after the other of the
whole message and knows neither bytes nor a table. A
calculation in the race of the first filling is not claimed to be right: the code cannot
make it so, and a whole frame is then dropped.

`EnvInfos` takes one step for the lock, the look-up, the making of an entry, its insertion and
the unlocking. The map is not made for threads, so an insertion works on the map as it was
when it began. `clearEnvInfos`, which nothing calls, is left out. A thread of `Jni` is
in one of the two at a time.

`SerialString` is the loop of `neoRADIO2SerialToString`. It has no run: the theorem covers
every number, and TLC's integers are narrower than 36^6.

## Runs

| run | instance | asks |
|---|---|---|
| `fifo` | two FIFOs of different sizes, two byte values | cursors and count agree, `ByteQueue` is implemented |
| `transport_rx` | rxfifo of a few bytes, headers of two, every byte stream, frames of every length incl. 0, one packet to send | parser properties, and `HandledOnce` when `rxDataCount` is wide enough |
| `transport_fair` | three packets, one too long, a small txfifo; four frames' worth of bytes; errors | packets leave whole and in order, frames arrive |
| `transport_wrap` | `rxDataCount` as narrow as in the code | finding: frames are lost |
| `session` | two devices, three banks, two parts; one connection with two requests and two edits; two connections with one of each and a frame lost; two connections with two edits, so that the second write may complete what the first one left in a bank; one with two edits and an early call; two with an early `SetSettings` or an early edit | `Settings` is implemented; chain known, no waiting in vain, one frame at a time, settings true and whole, no confusion between connections |
| `session_fair` | one request, one edit, fairness | connecting, reading, writing end |
| `session_boot` | one bank in the bootloader | finding: reading never ends |
| `session_valid` | one connection, no early call | finding: `neoRADIO2SettingsValid` is inverted: it returns 1 for a chain just identified, of which nothing was read |
| `polling` | a DIO with an input and an output, an AIN; four configurations, periods up to two ticks | marks are true, missed answers noticed, no false alarms, every bank that can be read is asked again and again |
| `usb` | up to three bridges in every order, one without serial number, unknown interfaces, a half bridge at the end; three pluggings in, two reports on the line each time; three descriptors, connecting with and without closing before | paths are paired rightly, files, set-up, stale reports, no call blocks |
| `usb_half` | the same | finding: the search does not end |
| `jni` | two threads; frames of three bytes: whole ones with every first byte, and one damaged by a row of up to eight bits beginning anywhere, its ends alone or all of it | the table-driven CRC is the remainder, damage is found, one entry per thread |

Why the bounds are enough. The FIFO's behaviour depends on whether a cursor wraps, whether a
run ends at the memory's end and whether the FIFO is empty or full; buffers of two to six
bytes have all combinations (and the proofs cover all sizes). For the parser, headers of
two bytes keep the first byte (start of frame) and the last (length) and drop the ones it
only copies; three byte values give a start, a non-start and all lengths up to 2; the CRC
of the runs is a checksum that valid and invalid frames can be built for. In the session,
two devices, one with two banks and one with one, exercise both ways of going on
(next bank, next device); two parts have a first and a last; device types are chosen so that
no type is that of a zeroed record. In `Polling`, periods of one and two ticks with ticks of length one and two have a bank due
early, in time and late, also at the start, and more than one question between two answers. In `Bridge`, three
pluggings in allow a replacement during a connection and another after it, and with three descriptors one or two files can be lost and the second file or both then not be opened. For `Jni`, the
CRC register takes all 256 values, rows of bits lie in one byte and across each border of two, and two threads are as many as a race of the first filling
needs. `Budgets` says how many
connections, requests, edits, losses and early calls a behaviour of `Session` may have; the counts of a
behaviour are drawn from it at the start. Deadlock is not checked for `Session`: with
its connections used up and the last one closed, the application has nothing left to do.
Nor is it for `Usb`, which is over when the search returned without exactly one bridge.

### Fairness

The code says of a tick: "This must be called every 1 ms" (`src/neoRAD-IO2.c:116`), so ticks
go on for ever. Within a tick everything is sequential code, so each step is weakly fair.
A USB call may fail, but not always: the success of the read loop and of a report
that takes bytes are strongly fair. The chain answers: taking a command and
reporting are weakly fair. Nothing is assumed about the application: `AskedAgain` is claimed for
behaviours in which it is online again and again, and ticks that do not fail come again and
again. In `Usb` a call that has begun goes on; the line falls quiet because it has finitely
many reports.

### Findings

- `rxDataCount` is a `uint8_t` although `rxDataBuffer` has 683 slots: with 256 short frames
  in one parse it wraps (`transport_wrap`).
- Settings are requested also of banks in the bootloader, which cannot give them;
  reading then never ends (`session_boot`).
- `neoRADIO2SettingsValid` returns 0 when it meets a valid bank, and overlooks the last
  device (`session_valid`).
- A bridge with a single interface at the end of hidapi's list keeps `ft260FindDevices` in
  its loop for ever (`usb_half`).

Besides, `neoRADIO2FindDevices` returns -1 when there is no device, where its comment says 0
(`src/neoRAD-IO2.c:14`): `Return` of `Discovery` shows it, and no run is spent on it.

One more case holds only under a condition that the model names. After the last bank was
read, one more READ is sent; if settings are requested again before its answer came, that
answer ends the new reading early. `clean` says that no READ was on its way when
the reading began; `ReadComplete` and the truth of settings are claimed for that case.

## Theorems

All proofs hold for every value of the constants that meets the `ASSUME` of the module:
any buffer and header sizes, any byte set, any CRC function into bytes, any number of FIFOs; any
chain, any images and any budget of calls and losses; any list of bridges, any number of threads and frames of any length.
`PROJECT.json` lists the theorems with the properties they establish. A theorem says `Spec => ...`
without a hypothesis unless it is named here.

### Fifo and Transport

*FIFO.* `WellFormed` (`in` is `out` plus the count, around the end) with the types is
inductive; the types alone are not, since the count must be known to be what lies
between the cursors. `PushContents`-style lemmas in `FifoOps_proofs` say what each function
does to `Contents`; `InspectPtrs` follows from `WellFormed`, and the refinement from one
lemma per function.

*Transport.* `IInv` adds to the types that each FIFO's contents are a segment of a history,
that the parser's copy and `rxfifo` agree from `loc` on, that found frames are valid and
ordered, and that every consumed byte was either rejected for a reason that later bytes
cannot change (`Rejected`) or lies in a found frame. The last part is the strengthening
that makes "no frame is skipped" inductive: when a byte is dropped, the frame that might
have started there was complete in the copy, so its CRC was known.

*Handled once.* `HandledInv` says that the handled frames, with those `rxDataBuffer` holds for
the next handler, are the frames found. It is inductive as long as the frames of one parse
fit in `rxDataCount`. The hypothesis `NoBacklog` is about `rxfifo` at the beginning of a parse: fewer
bytes than 256 shortest frames. The code does not ensure it, since `rxfifo` is
larger than that, and `transport_wrap` shows the property fail without it.

### Session

The invariants build on each other, each proved with one step per action.

- `LinesInv` tells which frames there can be. `TypeInv` types every frame: an answer comes from a
  bank of the chain, and a command of the host names a slot of `ChainList`; `FramesInBounds` draws from it that
  the frame a handler is at names a slot and a part, so it does not index out of bounds. `QuietInv`: nothing is on the line when the start-up time is over. `WritesInv` and
  `ReadsInv`: of the frames that write, or read, settings there is one at a time in both
  directions together. `OneAtATime` follows.
- `DataInv` tells what the frames say: a READ or its answer for part k means that the parts before k
  are read and right (`ReadingInv`), a WRITE or its echo that the bank was sent the parts before it of the
  image the host holds (`WritingInv`), and which marks the host sets meanwhile (`MarksInv`).
  `NeverTorn` and `ValidIsTrue` are inductive only together with these.
- `ImplementsSettings`: one lemma per action names the step of `Settings` it is, or
  that it leaves the contract's variables alone. The lemma all of them rest on is that what is shown of a bank
  is what the bank stored (`ShownIs`), which comes from `ValidIsTrue`.
- `ReadComplete` needs `ToldTrue`, that a type the host knows is the chain's, and `OrderInv`: a READ on
  the line means that all banks before its target are valid. Then the READ that finds no
  next bank has passed all of them.
- `WriteComplete` needs `StatusInv`: one report at a time is owed, on its way or in the batch, and
  none while parts are still being sent.
- `ChainKnown` needs `IdentInv`: the answers not yet handled fall in the order of the slots, every
  bank is known or its answer is coming, and the last of them is that of slot (0, 0), on
  which the host leaves the state.
- `NeverInVain` needs that an accepted packet is there for every wait (`ReadComing`, `EchoComing`,
  `ReportComing`, `StatusComing`), that commands name banks that exist (`CmdInv`), and that the packet was
  accepted, since the result of `neoRADIO2SendPacket` is ignored. The hypotheses are those two
  cases in which a wait is in vain in the code:
  - *txfifo is full* when a handler sends. `NeverInVainUnlessFull` is about behaviours in which that
    does not happen. `NeverInVainHolds` needs nothing said of the behaviour if the application makes fewer requests in all
    than packets fit in txfifo (`LoadInv`, `RoomForMore`); each request can leave one more READ on
    its way (see Findings). In the code txfifo takes 4096 bytes.
  - *A bank is in the bootloader*: it does not answer a READ that the host sends it nevertheless, and
    `session_boot` shows a wait in vain. Both theorems are about chains without one. For any chain,
    `WritesNeverInVain` proves the other three waits, for IDENTIFY, for the echo of a part and for the
    report of a bank, in behaviours in which the application gives a bank in the bootloader no
    settings (`SparesBootloader`); then no part of a WRITE ever goes to one (`BootInv`).

Two parts of `SessionAssumption` were found necessary by these proofs. Every type has one bank or as many as type 0 (`BanksOf`),
which is how `neoRAD-IO2.c:16` fills the table, `{8, 8, 1, 8, 8, 1}`: when an answer to IDENTIFY was lost, the host
takes the bank for one of type 0, and if type 0 had fewer banks than the real type it
would pass over banks of the device and `ReadComplete` would be false. And the answers
to IDENTIFY come from the last bank to the first (`IdentOrder`), which is what
`PacketHandler.c` expects when it takes the first answer for the length of the chain.

### Polling

*Polling.* `MarkIsTrue` is inductive with the types. `SilenceNoticed` needs `PassedOver`: a
miss that was passed over left a mark behind, or the bank was heard of since. `NoFalseAlarm`
follows from `MarkIsTrue` before the step.

*PollRate.* txfifo gains only in a tick whose report is cut short by the end of the memory, and
sinks by 11 bytes or more in every other tick until one report empties it. `Sinking` draws that line
through the backlog: 112 bytes at most when `out` is 0, less the farther `out` is. With it
txfifo never holds more than two reports' worth, of 4096 bytes.

### Bridge and Discovery

*Bridge.* `BridgeInv` says at each step of the calls which of the two handles is set and to which file,
and which files belong to the bridge that is plugged in now (`HandlesAt`, `FilesOfPlugs`); with
it `FilesAreHeld` and `NothingStale` are inductive. `SetUpSoFar` counts the settings the
bridge took since the set-up began, for `ReadyWhenConnected`. `UsbImplementsBridge` carries
these over to an application that searches first.

*Discovery.* `SearchInv` says that the devices found are the pairs of interfaces in the part of the list that was
walked, in their order, and that the walk never stands inside a pair. The lists are those
`Enumerated` describes: no interface is there twice, and only the last element may lack its other half,
the case of which `usb_half` is the finding. `usbDevices` is assumed to have room
for all of them (`UsbAssumption`): the code does not look at its size. `FirstSerial` is about lists where every bridge has a
serial number.

### Crc8, EnvInfos and SerialString

*The table is the division.* A turn of `neoRADIO2CRC8_Init`'s loop is linear (`ShiftXor`), so
the table is (`TableXor`). Bringing down a bit in the long division is a turn with that bit at
the end (`BringDownIsShift`); eight of them in a row are eight turns of what was left plus
the byte brought down (`ByteBroughtDown`), and the eight zeros behind the message are eight turns more
(`ZerosBroughtDown`). `DivisionByBytes` concludes that the remainder of n + 1 bytes is the table's entry at
the remainder of n bytes xor the next byte: the loop of `neoRADIO2CalcCRC8`. `CrcInv` says who may read the
table: it is empty until somebody begins to fill it, and whoever is `safe` before it is full
calculates alone and has filled it himself before the first byte. With both, `IsDivision` is inductive.

*Damage is found.* By linearity the difference between the remainders of what was sent and of what
arrived depends on the changed bits alone. `EntryReachesDown`: the entry of a byte other than 0 has a
bit no higher than some bit of the byte. The change in the next byte of a row of eight bits
consists of bits higher than all of the first, so it cannot cancel that bit, and behind it nothing changes
any more, so the difference stays (`BurstRemains`). `RemainderTellsDamage` states it for frames,
and `DamageFound` follows. All that is assumed of the polynomial is that it has the term
1; without it a bit that leaves the register would be lost. It is 7 in the code.

*EnvInfos.* `EnvInv`: the mutex has one holder, and between looking up its entry and leaving, the map
is as the holder saw it. `EnvOnce` follows for any number of threads.

*SerialString.* The characters written so far are the last digits of the number, and what is
left of it counts for the rest: `number = serial * Weight(place) + Value`. At the end `Value` is below
36^6, so it is the number's rest modulo 36^6.

The induction theorems of the library take an operator as a parameter, which the provers
cannot instantiate. `Induction` states the principle about a set of numbers instead, from the
well-foundedness of `<`, and `LoopHasResults` gives functions defined by recursion their
values; everything about `Division` and the table rests on these two.

### What is only model-checked

Liveness, which is out of the prover's reach: `FramesArrive`, `PacketsLeave`, `ConnectEnds`,
`ReadEnds`, `WriteEnds`, `AskedAgain`, `CallsReturn`, `WholeListEnds`. Every invariant and action
property that a run checks is also a theorem.

## Plan

All modules of the plan are written and checked, and every safety property is proved. One thing
would make a theorem stronger: an invariant of `Session` that tells how many READs can be on their way at once
would put the number of requests that `NeverInVainHolds` allows into terms of one
connection.

## Not modelled

- Two threads on one device. `deviceInfos` has no lock and the code no rule about it, so
  there is no property to check; one thread per device is what an application has to
  keep to.
- The getters of the JNI layer. `HasRxData` offers the batch of the tick before once more after
  a tick that failed (`src/neoRADIO2_jni.cpp:195`); whether that matters depends on callers
  that are not in the repository.
- The Java mirrors of the native records. `DeviceInfo.java` puts the fields in another order
  than `inc/neoRAD-IO2.h`, has buffers of 256 bytes where the native ones have 4096, and
  knows no `ConnectedWaitFinishWriteSettings`, so that its `Connected` is 5 and the native one 6. The
  copying is straight-line code, and comparing layouts needs no model.
- The report-descriptor parser of `hid.c`. It tells whether reports are numbered, which `hid_read`
  needs only on kernels before 2.6.34; the rest of the file that is left out builds strings,
  lists devices for other applications, or is switched off by `#if 0`.
- The embedded variant of `neoRADIO2GetNewData`: it is the loop that `Transport` models, over an
  interface that is not in the repository. The FT260's I2C functions are stubs.
- Contents of frames and reports, the layout of memory around arrays (a frame's length byte
  beyond 64, more bridges than the array has room for), and descriptor 0.
- The build files; frame descriptions and desktop hidapi, which are not part of the
  repository.
