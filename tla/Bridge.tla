-------------------------------- MODULE Bridge --------------------------------
(***************************************************************************)
(* Opening, setting up, using and closing a FT260 bridge through hidraw,   *)
(* where any system call may fail and the bridge may be pulled out and put *)
(* back between any two of them.  One record and one bridge at a time.     *)
(*                                                                         *)
(* A file stays bound to the bridge it was opened on: put back, the bridge *)
(* needs new files and a new set-up.                                       *)
(***************************************************************************)
EXTENDS Integers

CONSTANTS
  MaxPlugs,     (* how often the bridge is plugged in                        *)
  MaxReports,   (* the reports the line has for it, each time                *)
  MaxFiles      (* the files the process may have open                       *)

ASSUME BridgeAssumption ==
  MaxPlugs \in Nat \ {0} /\ MaxReports \in Nat /\ MaxFiles \in Nat

\* ft260SetupUART: speed, parity, stop bits and no flow control in one report.
SetupUART == "UART_CONFIG"

\* The feature reports of neoRADIO2SetupFT260, in their order.
SetUp == <<"SET_CLOCK", "TX_LED", "RX_LED", "UART_BREAK", SetupUART>>
Settings == {SetUp[i] : i \in 1 .. 5}

NULL == [fd |-> 0, blocking |-> TRUE]
Descriptors == 1 .. MaxFiles

VARIABLES
  plugs,     (* how often the bridge was plugged in                          *)
  plugged,
  taken,     (* bridge: the settings it took                                 *)
  break,     (* bridge: it holds the line in break                           *)
  early,     (* bridge: reports that came before the set-up was done         *)
  late,      (* bridge: reports that came after                              *)
  toCome,    (* reports the line still has for it                            *)
  files,     (* file descriptor -> the plug it was opened on, 0 if not open  *)
  lost,      (* open files whose handle was overwritten                      *)
  Handle0, Handle1,   (* HandleInterface0, HandleInterface1                  *)
  connected, (* State # Disconnected                                         *)
  queued,    (* txfifo is not empty                                          *)
  pc,        (* the next system call                                         *)
  step,      (* which report of the set-up is next                           *)
  returned,  (* what the last call returned                                  *)
  cutShort   (* an empty report ended the last connect's reading             *)

bridge == <<plugs, plugged, taken, break, early, late, toCome>>
record == <<files, lost, Handle0, Handle1, connected, queued>>
call == <<pc, step, returned, cutShort>>
vars == <<bridge, record, call>>

Init ==
  /\ plugs = 1 /\ plugged = TRUE
  /\ taken = {} /\ break = FALSE
  /\ early = 0 /\ late = 0 /\ toCome = MaxReports
  /\ files = [k \in Descriptors |-> 0] /\ lost = {}
  /\ Handle0 = NULL /\ Handle1 = NULL
  /\ connected = FALSE /\ queued = FALSE
  /\ pc = "idle" /\ step = 1 /\ returned = 0 /\ cutShort = FALSE

-----------------------------------------------------------------------------
\* The bridge and the line.
PullOut ==
  /\ plugged /\ plugged' = FALSE
  /\ taken' = {} /\ break' = FALSE /\ early' = 0 /\ late' = 0 /\ toCome' = 0
  /\ UNCHANGED <<plugs, record, call>>

PlugIn ==
  /\ ~plugged /\ plugs < MaxPlugs
  /\ plugged' = TRUE /\ plugs' = plugs + 1 /\ toCome' = MaxReports
  /\ UNCHANGED <<taken, break, early, late, record, call>>

Arrive ==
  /\ plugged /\ toCome > 0
  /\ toCome' = toCome - 1
  /\ IF connected \/ pc = "drain" THEN late' = late + 1 /\ UNCHANGED early
                                  ELSE early' = early + 1 /\ UNCHANGED late
  /\ UNCHANGED <<plugs, plugged, taken, break, record, call>>

-----------------------------------------------------------------------------
\* hidraw.  The file of a handle is alive while the bridge is the one it was
\* opened on.
Alive(h) == plugged /\ h.fd # 0 /\ files[h.fd] = plugs

\* open gives the lowest free descriptor.  Descriptor 0, which hid_open_path takes
\* for a failure, is in use.
Free == {k \in Descriptors : files[k] = 0}
Lowest == {k \in Free : \A j \in Free : k <= j}
hid_open(k) == [files EXCEPT ![k] = plugs]

hid_set_nonblocking_ignored(h) == h
hid_set_nonblocking(h) == [h EXCEPT !.blocking = FALSE]

\* Whether a feature report or a write succeeds; it may fail also when the bridge
\* is there.
hid_send_feature_report(h) == {FALSE, Alive(h)}
hid_write(h) == {FALSE, Alive(h)}

Finish(result) == pc' = "idle" /\ returned' = result /\ UNCHANGED <<step, cutShort>>
GoTo(p) == pc' = p /\ UNCHANGED <<step, returned, cutShort>>

\* A read takes the oldest report, and finds none only when it does not block.
Pending == early + late
TakeReport ==
  /\ Pending > 0
  /\ IF early > 0 THEN early' = early - 1 /\ UNCHANGED late
                  ELSE late' = late - 1 /\ UNCHANGED early
  /\ UNCHANGED <<plugs, plugged, taken, break, toCome>>
FindsNone(h) == Alive(h) /\ ~h.blocking /\ Pending = 0

-----------------------------------------------------------------------------
\* ConnectDevice clears the record and calls neoRADIO2ConnectDevice.  The files of a
\* record that was not closed before stay open.
Held == {Handle0.fd, Handle1.fd} \ {0}
ConnectDevice ==
  /\ pc = "idle"
  /\ lost' = lost \cup Held
  /\ Handle0' = NULL /\ Handle1' = NULL
  /\ connected' = FALSE /\ queued' = FALSE
  /\ early' = early + late /\ late' = 0
  /\ pc' = "open0" /\ step' = 1 /\ cutShort' = FALSE
  /\ UNCHANGED <<plugs, plugged, taken, break, toCome, files, returned>>

\* ft260OpenDevice: the two files, either of which may fail to open.
OpenFails == pc \in {"open0", "open1"} /\ Finish(-1) /\ UNCHANGED <<bridge, record>>

OpenFirst ==
  /\ pc = "open0" /\ plugged
  /\ \E k \in Lowest : files' = hid_open(k) /\ Handle0' = [fd |-> k, blocking |-> TRUE]
  /\ GoTo("open1")
  /\ UNCHANGED <<bridge, lost, Handle1, connected, queued>>

OpenSecond ==
  /\ pc = "open1" /\ plugged
  /\ \E k \in Lowest :
       /\ files' = hid_open(k)
       /\ Handle1' = hid_set_nonblocking([fd |-> k, blocking |-> TRUE])
  /\ Handle0' = hid_set_nonblocking(Handle0)
  /\ GoTo("configure")
  /\ UNCHANGED <<bridge, lost, connected, queued>>

\* What follows the next report of the set-up.
NextReport == pc' = "configure" /\ step' = step + 1 /\ UNCHANGED <<returned, cutShort>>
AfterReport_always(ok) ==
  IF step < 5 THEN NextReport ELSE GoTo("drain")
AfterReport(ok) ==
  IF ~ok THEN Finish(-1)
  ELSE IF step < 5 THEN NextReport
  ELSE GoTo("drain")

\* ft260ConfigureDevice for the next report.  That of the GPIO pin ends a break.
Configure ==
  /\ pc = "configure"
  /\ \E ok \in hid_send_feature_report(Handle1) :
       /\ taken' = IF ok THEN taken \cup {SetUp[step]} ELSE taken
       /\ break' = IF ok /\ SetUp[step] = "UART_BREAK" THEN FALSE ELSE break
       /\ AfterReport(ok)
  /\ UNCHANGED <<plugs, plugged, early, late, toCome, record>>

\* neoRADIO2SetupFT260 reads until a read returns 0: nothing is there, or a report
\* is that carries no byte.  Then neoRADIO2SendJumpToApp queues START.
Drained_once == TRUE
Drained == FindsNone(Handle1)

DrainReport ==
  /\ pc = "drain" /\ Alive(Handle1) /\ TakeReport
  /\ UNCHANGED <<record, call>>

SendJumpToApp ==
  /\ queued' = TRUE /\ connected' = TRUE
  /\ pc' = "idle" /\ returned' = 0
  /\ UNCHANGED <<files, lost, Handle0, Handle1, step>>

DrainEnds ==
  /\ pc = "drain" /\ Drained
  /\ SendJumpToApp
  /\ UNCHANGED <<bridge, cutShort>>

DrainCut ==
  /\ pc = "drain" /\ Alive(Handle1) /\ TakeReport
  /\ SendJumpToApp
  /\ cutShort' = TRUE

DrainFails == pc = "drain" /\ ~Alive(Handle1) /\ Finish(-1) /\ UNCHANGED <<bridge, record>>

-----------------------------------------------------------------------------
\* neoRADIO2GetNewData: the reports that are there, then one write.
Tick == pc = "idle" /\ connected /\ GoTo("read") /\ UNCHANGED <<bridge, record>>

ReadReport == pc = "read" /\ Alive(Handle1) /\ TakeReport /\ UNCHANGED <<record, call>>

ReadNone ==
  /\ pc = "read"
  /\ \/ FindsNone(Handle1) /\ UNCHANGED bridge
     \/ Alive(Handle1) /\ TakeReport      \* a report that carries no byte
  /\ IF queued THEN GoTo("write") ELSE Finish(0)
  /\ UNCHANGED record

ReadFails == pc = "read" /\ ~Alive(Handle1) /\ Finish(-1) /\ UNCHANGED <<bridge, record>>

Write ==
  /\ pc = "write"
  /\ \E ok \in hid_write(Handle1) :
       queued' = (queued /\ ~ok) /\ Finish(IF ok THEN 0 ELSE -1)
  /\ UNCHANGED <<bridge, files, lost, Handle0, Handle1, connected>>

\* neoRADIO2SendUARTBreak: the line is pulled down and let go.  When the second
\* report fails it stays down.
SendUARTBreak ==
  /\ pc = "idle" /\ Handle1 # NULL
  /\ GoTo("breakOn") /\ UNCHANGED <<bridge, record>>

BreakReport ==
  /\ pc \in {"breakOn", "breakOff"}
  /\ \E ok \in hid_send_feature_report(Handle1) :
       /\ break' = IF ok THEN pc = "breakOn" ELSE break
       /\ IF ok /\ pc = "breakOn" THEN GoTo("breakOff")
          ELSE Finish(IF ok THEN 0 ELSE -1)
  /\ UNCHANGED <<plugs, plugged, taken, early, late, toCome, record>>

\* neoRADIO2CloseDevice.
Closed_together ==
  [k \in Descriptors |-> IF Handle0 # NULL /\ Handle1 # NULL /\ k \in Held THEN 0 ELSE files[k]]
Closed == [k \in Descriptors |-> IF k \in Held THEN 0 ELSE files[k]]
CloseDevice ==
  /\ pc = "idle"
  /\ files' = Closed
  /\ Handle0' = NULL /\ Handle1' = NULL
  /\ connected' = FALSE /\ queued' = FALSE
  /\ UNCHANGED <<bridge, lost, call>>

CallStep ==
  \/ OpenFails \/ OpenFirst \/ OpenSecond \/ Configure
  \/ DrainReport \/ DrainEnds \/ DrainCut \/ DrainFails
  \/ ReadReport \/ ReadNone \/ ReadFails \/ Write \/ BreakReport

Next ==
  \/ PullOut \/ PlugIn \/ Arrive
  \/ ConnectDevice \/ Tick \/ SendUARTBreak \/ CloseDevice
  \/ CallStep

Spec == Init /\ [][Next]_vars

-----------------------------------------------------------------------------
\* Whatever failed and whenever the bridge was pulled out, a file that is open is
\* held by one handle, which closing gives back, or was lost by connecting again
\* without closing.  A handle is never left with a file that was closed or lost,
\* nor one file with two (ft260.c:111-135).
FilesAreHeld ==
  /\ Descriptors \ Free = Held \cup lost
  /\ Held \cap lost = {}
  /\ Handle0.fd = Handle1.fd => Handle0.fd = 0

\* When neoRADIO2ConnectDevice returns 0 the bridge that is plugged in took every
\* setting, and the line is not held in break by an earlier connection
\* (neoRAD-IO2.c:48-88).
ReadyWhenConnected ==
  [][ ~connected /\ connected' => plugged /\ taken = Settings /\ ~break ]_vars

\* No report of the time before the set-up reaches rxfifo, unless one without a
\* byte ended the reading of them (neoRAD-IO2.c:91-98, ft260.c:242-245).
NothingStale == connected /\ Alive(Handle1) /\ ~cutShort => early = 0

\* No call blocks: each returns when the line falls quiet (ft260.c:120-121).
CallsReturn == pc # "idle" ~> pc = "idle"
=============================================================================
