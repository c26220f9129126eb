---------------------------- MODULE Platform_proofs ----------------------------
(***************************************************************************)
(* Between the library and its platform, whatever the sizes: the files and *)
(* the set-up of a bridge that may be pulled out at any time, and the      *)
(* search for bridges.                                                     *)
(***************************************************************************)
EXTENDS Usb, SequenceTheorems, FiniteSetTheorems, TLAPS

-----------------------------------------------------------------------------
(***************************************************************************)
(* Bridge: the inductive invariant                                         *)
(***************************************************************************)

BridgeTypes ==
  /\ plugs \in Nat \ {0} /\ plugged \in BOOLEAN
  /\ taken \subseteq Settings /\ break \in BOOLEAN
  /\ early \in Nat /\ late \in Nat /\ toCome \in Nat
  /\ files \in [Descriptors -> Nat] /\ lost \subseteq Descriptors
  /\ Handle0 \in [fd : 0 .. MaxFiles, blocking : BOOLEAN]
  /\ Handle1 \in [fd : 0 .. MaxFiles, blocking : BOOLEAN]
  /\ cutShort \in BOOLEAN
  /\ connected \in BOOLEAN /\ queued \in BOOLEAN
  /\ pc \in {"idle", "open0", "open1", "configure", "drain", "read", "write",
             "breakOn", "breakOff"}
  /\ step \in 1 .. 5 /\ returned \in {-1, 0}

\* Which handles are set at each system call: a call of ConnectDevice starts
\* without files and fills in Handle0 first.
HandlesAt ==
  /\ pc = "open0" => Handle0.fd = 0 /\ Handle1.fd = 0
  /\ pc = "open1" => Handle0.fd # 0 /\ Handle1.fd = 0
  /\ pc \in {"open0", "open1"} => step = 1
  /\ pc \in {"open0", "open1", "configure", "drain"} => ~connected
  /\ pc = "configure" \/ pc = "drain" \/ connected => Handle1.fd # 0

\* No file was opened on a plug that is still to come.
FilesOfPlugs == \A k \in Descriptors : files[k] <= plugs

\* While the bridge is the one the files were opened on it has every setting
\* that was sent, and a break has ended by the report of the pin.
SetUpSoFar ==
  Alive(Handle1) =>
    /\ pc = "configure" => (\A i \in 1 .. step - 1 : SetUp[i] \in taken) /\ (step = 5 => ~break)
    /\ pc = "drain" => taken = Settings /\ ~break

BridgeInv ==
  BridgeTypes /\ HandlesAt /\ FilesOfPlugs /\ SetUpSoFar /\ FilesAreHeld /\ NothingStale

\* The state a step starts from, with the handles and the files in reach.
LEMMA BridgeFacts ==
  ASSUME BridgeInv
  PROVE  /\ Handle0.fd \in 0 .. MaxFiles /\ Handle1.fd \in 0 .. MaxFiles
         /\ \A k \in Descriptors : files[k] \in Nat /\ files[k] <= plugs
         /\ plugs \in Nat /\ plugs >= 1
         /\ Handle1.fd # 0 => Handle1.fd \in Descriptors
         /\ MaxFiles \in Nat /\ 0 \notin Descriptors
BY BridgeAssumption DEF BridgeInv, BridgeTypes, FilesOfPlugs, Descriptors

LEMMA SettingsAre ==
  /\ SetUp[1] \in Settings /\ SetUp[2] \in Settings /\ SetUp[3] \in Settings
  /\ SetUp[4] \in Settings /\ SetUp[5] \in Settings
  /\ SetUp[4] = "UART_BREAK"
  /\ \A T \in SUBSET Settings : (\A i \in 1 .. 5 : SetUp[i] \in T) => T = Settings
<1>1. Settings = {SetUp[1], SetUp[2], SetUp[3], SetUp[4], SetUp[5]}
  BY DEF Settings
<1>2. SetUp[4] = "UART_BREAK"
  BY DEF SetUp
<1> QED  BY <1>1, <1>2

LEMMA NullType == NULL \in [fd : 0 .. MaxFiles, blocking : BOOLEAN] /\ NULL.fd = 0
<1>1. 0 \in 0 .. MaxFiles /\ TRUE \in BOOLEAN
  BY BridgeAssumption
<1> QED  BY <1>1 DEF NULL

\* The bridge and the line: they touch neither the files nor a handle.
LEMMA BridgeMoves ==
  ASSUME BridgeInv, PullOut \/ PlugIn \/ Arrive
  PROVE  BridgeInv'
<1> USE DEF BridgeInv
<1>1. UNCHANGED <<files, lost, Handle0, Handle1, connected, queued, pc, step, returned, cutShort>>
  BY DEF PullOut, PlugIn, Arrive, record, call
<1>2. HandlesAt' /\ FilesAreHeld'
  BY <1>1 DEF HandlesAt, FilesAreHeld, Held, Free
<1>3. BridgeTypes' /\ FilesOfPlugs'
  <2>1. /\ plugs' \in Nat \ {0} /\ plugs <= plugs' /\ plugged' \in BOOLEAN
        /\ taken' \subseteq Settings /\ break' \in BOOLEAN
        /\ early' \in Nat /\ late' \in Nat /\ toCome' \in Nat
    <3>1. /\ plugs \in Nat \ {0} /\ plugged \in BOOLEAN
          /\ taken \subseteq Settings /\ break \in BOOLEAN
          /\ early \in Nat /\ late \in Nat /\ toCome \in Nat
      BY DEF BridgeTypes
    <3>2. CASE PullOut
      <4>1. /\ plugs' = plugs /\ plugged' = FALSE /\ taken' = {} /\ break' = FALSE
            /\ early' = 0 /\ late' = 0 /\ toCome' = 0
        BY <3>2 DEF PullOut
      <4>2. plugs' \in Nat \ {0} /\ plugs <= plugs' /\ early' \in Nat /\ late' \in Nat /\ toCome' \in Nat
        BY <3>1, <4>1
      <4>3. plugged' \in BOOLEAN /\ break' \in BOOLEAN /\ taken' \subseteq Settings
        BY ONLY <4>1
      <4> QED  BY <4>2, <4>3
    <3>3. CASE PlugIn
      BY <3>1, <3>3, BridgeAssumption DEF PlugIn
    <3>4. CASE Arrive
      BY <3>1, <3>4 DEF Arrive
    <3> QED  BY <3>2, <3>3, <3>4
  <2>2. BridgeTypes'
    BY <1>1, <2>1 DEF BridgeTypes
  <2>3. FilesOfPlugs'
    BY <1>1, <2>1 DEF BridgeTypes, FilesOfPlugs
  <2> QED  BY <2>2, <2>3
<1>4. CASE PullOut
  BY <1>1, <1>2, <1>3, <1>4 DEF PullOut, Alive, SetUpSoFar, NothingStale
<1>5. CASE PlugIn
  <2>1. ~Alive(Handle1)'
    BY <1>1, <1>5, BridgeFacts DEF PlugIn, Alive, Descriptors
  <2> QED  BY <1>2, <1>3, <2>1 DEF SetUpSoFar, NothingStale
<1>6. CASE Arrive
  <2>1. UNCHANGED <<plugs, plugged, taken, break>> /\ (connected => early' = early)
    BY <1>6 DEF Arrive
  <2> QED  BY <1>1, <1>2, <1>3, <2>1 DEF Alive, SetUpSoFar, NothingStale
<1> QED  BY <1>4, <1>5, <1>6

\* Steps that leave the files, the handles and what the bridge holds alone.
LEMMA OnlyCall ==
  ASSUME BridgeInv, UNCHANGED <<bridge, record, step, cutShort>>,
         pc' \in {"idle", "read", "write", "breakOn", "breakOff"},
         returned' \in {-1, 0}, pc' # "idle" => Handle1.fd # 0
  PROVE  BridgeInv'
<1>1. /\ UNCHANGED <<plugs, plugged, taken, break, early, late, toCome>>
      /\ UNCHANGED <<files, lost, Handle0, Handle1, connected, queued, step, cutShort>>
  BY DEF bridge, record
<1>2. BridgeTypes'
  BY <1>1 DEF BridgeInv, BridgeTypes
<1>3. HandlesAt'
  BY <1>1 DEF BridgeInv, HandlesAt
<1>4. FilesOfPlugs' /\ SetUpSoFar' /\ FilesAreHeld' /\ NothingStale'
  BY <1>1 DEF BridgeInv, FilesOfPlugs, SetUpSoFar, FilesAreHeld, Held, Free, NothingStale, Alive
<1> QED  BY <1>2, <1>3, <1>4 DEF BridgeInv

\* A file that was just opened is held by one handle and was not lost before.
LEMMA OpenedIsHeld ==
  ASSUME BridgeInv, NEW k \in Lowest, files' = hid_open(k), lost' = lost,
         Held' = Held \cup {k}
  PROVE  /\ k \in Descriptors /\ k # 0 /\ k \notin Held
         /\ files' \in [Descriptors -> Nat] /\ files'[k] = plugs
         /\ \A j \in Descriptors \ {k} : files'[j] = files[j]
         /\ Descriptors \ Free' = Held' \cup lost' /\ Held' \cap lost' = {}
<1>1. k \in Free /\ k \in Descriptors /\ k # 0
  BY BridgeFacts DEF Lowest, Free
<1>2. files \in [Descriptors -> Nat] /\ plugs \in Nat /\ plugs # 0
  BY DEF BridgeInv, BridgeTypes
<1>3. files' = [files EXCEPT ![k] = plugs]
  BY DEF hid_open
<1>4. files' \in [Descriptors -> Nat] /\ files'[k] = plugs
  BY <1>1, <1>2, <1>3
<1>5. \A j \in Descriptors \ {k} : files'[j] = files[j]
  BY <1>1, <1>2, <1>3
<1>6. Free' = Free \ {k}
  BY <1>1, <1>2, <1>4, <1>5 DEF Free
<1>7. Descriptors \ Free = Held \cup lost /\ Held \cap lost = {}
  BY DEF BridgeInv, FilesAreHeld
<1> QED  BY <1>1, <1>4, <1>5, <1>6, <1>7

LEMMA OpenStep ==
  ASSUME BridgeInv, ConnectDevice \/ OpenFirst \/ OpenSecond
  PROVE  BridgeInv'
<1> USE DEF BridgeInv
<1>1. CASE ConnectDevice
  <2>1. /\ lost' = lost \cup Held /\ Handle0' = NULL /\ Handle1' = NULL
        /\ connected' = FALSE /\ queued' = FALSE /\ pc' = "open0" /\ step' = 1
        /\ cutShort' = FALSE
        /\ UNCHANGED <<plugs, plugged, taken, break, toCome, files, returned>>
    BY <1>1 DEF ConnectDevice
  <2>2. early' \in Nat /\ late' \in Nat
    BY <1>1 DEF ConnectDevice, BridgeTypes
  <2>3. Held \subseteq Descriptors /\ Held' = {}
    <3>1. Held \subseteq Descriptors
      BY BridgeFacts DEF Held, Descriptors
    <3>2. Held' = {}
      BY <2>1, NullType DEF Held
    <3> QED  BY <3>1, <3>2
  <2>4. BridgeTypes'
    <3>1. lost' \subseteq Descriptors
      BY <2>1, <2>3 DEF BridgeTypes
    <3>2. Handle0' \in [fd : 0 .. MaxFiles, blocking : BOOLEAN] /\ Handle1' = Handle0'
      BY <2>1, NullType
    <3>3. step' \in 1 .. 5
      BY <2>1
    <3> QED  BY <2>1, <2>2, <3>1, <3>2, <3>3 DEF BridgeTypes
  <2>5. HandlesAt'
    BY <2>1, NullType DEF HandlesAt
  <2>6. FilesAreHeld'
    <3>1. Free' = Free
      BY <2>1 DEF Free
    <3>2. Handle0'.fd = 0
      BY <2>1, NullType
    <3> QED  BY <2>1, <2>3, <3>1, <3>2 DEF FilesAreHeld
  <2>7. FilesOfPlugs' /\ SetUpSoFar' /\ NothingStale'
    BY <2>1 DEF FilesOfPlugs, SetUpSoFar, NothingStale
  <2> QED  BY <2>4, <2>5, <2>6, <2>7
<1>2. CASE OpenFirst
  <2>1. Handle0.fd = 0 /\ Handle1.fd = 0 /\ ~connected /\ step = 1
    BY <1>2 DEF OpenFirst, HandlesAt
  <2>2. PICK k \in Lowest : files' = hid_open(k) /\ Handle0' = [fd |-> k, blocking |-> TRUE]
    BY <1>2 DEF OpenFirst
  <2>3. /\ UNCHANGED <<plugs, plugged, taken, break, early, late, toCome>>
        /\ UNCHANGED <<lost, Handle1, connected, queued, step, returned, cutShort>>
        /\ pc' = "open1"
    BY <1>2 DEF OpenFirst, GoTo, bridge
  <2>4. k \in Descriptors /\ k # 0
    BY BridgeFacts DEF Lowest, Free
  <2>5. Held' = Held \cup {k}
    BY <2>1, <2>2, <2>3, <2>4 DEF Held
  <2>6. /\ files' \in [Descriptors -> Nat] /\ files'[k] = plugs
        /\ \A j \in Descriptors \ {k} : files'[j] = files[j]
        /\ Descriptors \ Free' = Held' \cup lost' /\ Held' \cap lost' = {}
    BY <2>2, <2>3, <2>5, OpenedIsHeld
  <2>7. Handle0'.fd = k /\ Handle0' \in [fd : 0 .. MaxFiles, blocking : BOOLEAN]
    <3>1. k \in 0 .. MaxFiles
      BY <2>4, BridgeAssumption DEF Descriptors
    <3> QED  BY <2>2, <3>1
  <2>8. FilesAreHeld'
    BY <2>1, <2>3, <2>4, <2>6, <2>7 DEF FilesAreHeld
  <2>9. FilesOfPlugs'
    BY <2>3, <2>6, BridgeFacts DEF FilesOfPlugs
  <2>10. BridgeTypes'
    BY <2>3, <2>6, <2>7 DEF BridgeTypes
  <2>11. HandlesAt' /\ SetUpSoFar' /\ NothingStale'
    BY <2>1, <2>3, <2>4, <2>7 DEF HandlesAt, SetUpSoFar, NothingStale
  <2> QED  BY <2>8, <2>9, <2>10, <2>11
<1>3. CASE OpenSecond
  <2>1. Handle0.fd # 0 /\ Handle1.fd = 0 /\ ~connected /\ step = 1
    BY <1>3 DEF OpenSecond, HandlesAt
  <2>2. PICK k \in Lowest :
          files' = hid_open(k) /\ Handle1' = hid_set_nonblocking([fd |-> k, blocking |-> TRUE])
    BY <1>3 DEF OpenSecond
  <2>3. /\ Handle0' = [Handle0 EXCEPT !.blocking = FALSE]
        /\ UNCHANGED <<plugs, plugged, taken, break, early, late, toCome>>
        /\ UNCHANGED <<lost, connected, queued, step, returned, cutShort>>
        /\ pc' = "configure"
    BY <1>3 DEF OpenSecond, GoTo, bridge, hid_set_nonblocking
  <2>4. k \in Descriptors /\ k # 0
    BY BridgeFacts DEF Lowest, Free
  <2>5. Handle0'.fd = Handle0.fd /\ Handle0' \in [fd : 0 .. MaxFiles, blocking : BOOLEAN]
    <3>1. Handle0 \in [fd : 0 .. MaxFiles, blocking : BOOLEAN] /\ FALSE \in BOOLEAN
      BY DEF BridgeTypes
    <3> QED  BY <2>3, <3>1
  <2>6. Handle1'.fd = k /\ Handle1' \in [fd : 0 .. MaxFiles, blocking : BOOLEAN]
    <3>1. Handle1' = [fd |-> k, blocking |-> FALSE]
      BY <2>2 DEF hid_set_nonblocking
    <3>2. k \in 0 .. MaxFiles
      BY <2>4, BridgeAssumption DEF Descriptors
    <3> QED  BY <3>1, <3>2
  <2>7. Held' = Held \cup {k}
    BY <2>1, <2>4, <2>5, <2>6 DEF Held
  <2>8. /\ files' \in [Descriptors -> Nat] /\ files'[k] = plugs /\ k \notin Held
        /\ \A j \in Descriptors \ {k} : files'[j] = files[j]
        /\ Descriptors \ Free' = Held' \cup lost' /\ Held' \cap lost' = {}
    BY <2>2, <2>3, <2>7, OpenedIsHeld
  <2>9. FilesAreHeld'
    <3>1. Handle0'.fd # Handle1'.fd
      BY <2>1, <2>5, <2>6, <2>8 DEF Held
    <3> QED  BY <2>8, <3>1 DEF FilesAreHeld
  <2>10. FilesOfPlugs'
    BY <2>3, <2>8, BridgeFacts DEF FilesOfPlugs
  <2>11. BridgeTypes'
    BY <2>3, <2>5, <2>6, <2>8 DEF BridgeTypes
  <2>12. HandlesAt' /\ SetUpSoFar' /\ NothingStale'
    BY <2>1, <2>3, <2>4, <2>6 DEF HandlesAt, SetUpSoFar, NothingStale
  <2> QED  BY <2>9, <2>10, <2>11, <2>12
<1> QED  BY <1>1, <1>2, <1>3

\* A report of the set-up that the bridge took, or the end of the connection.
LEMMA ConfigureStep ==
  ASSUME BridgeInv, Configure
  PROVE  BridgeInv'
<1> USE DEF BridgeInv
<1>1. PICK ok \in {FALSE, Alive(Handle1)} :
        /\ taken' = IF ok THEN taken \cup {SetUp[step]} ELSE taken
        /\ break' = IF ok /\ SetUp[step] = "UART_BREAK" THEN FALSE ELSE break
        /\ AfterReport(ok)
  BY DEF Configure, hid_send_feature_report
<1>2. /\ UNCHANGED <<plugs, plugged, early, late, toCome>>
      /\ UNCHANGED <<files, lost, Handle0, Handle1, connected, queued>> /\ pc = "configure"
  BY DEF Configure, record
<1>3. Handle1.fd # 0 /\ ~connected /\ Alive(Handle1)' = Alive(Handle1) /\ step \in 1 .. 5
  BY <1>2 DEF HandlesAt, Alive, BridgeTypes
<1>4. CASE ~ok
  BY <1>1, <1>2, <1>3, <1>4
     DEF AfterReport, Finish, BridgeTypes, HandlesAt, FilesOfPlugs, SetUpSoFar,
         FilesAreHeld, Held, Free, NothingStale
<1>5. CASE ok
  <2>1. /\ Alive(Handle1) /\ taken' = taken \cup {SetUp[step]}
        /\ \A i \in 1 .. step - 1 : SetUp[i] \in taken
        /\ step = 5 => ~break
    BY <1>1, <1>2, <1>5 DEF SetUpSoFar
  <2>2. /\ \A i \in 1 .. step : SetUp[i] \in taken'
        /\ taken' \subseteq Settings /\ break' \in BOOLEAN
        /\ step = 4 => ~break'
        /\ step = 5 => ~break'
    <3>1. SetUp[step] \in Settings
      BY <1>3, SettingsAre DEF Settings
    <3>2. \A i \in 1 .. step : SetUp[i] \in taken'
      BY <1>3, <2>1
    <3>3. break' \in BOOLEAN /\ (step = 4 => ~break') /\ (step = 5 => ~break')
      BY <1>1, <1>5, <2>1, SettingsAre DEF BridgeTypes
    <3> QED  BY <2>1, <3>1, <3>2, <3>3 DEF BridgeTypes
  <2>3. CASE step < 5
    <3>1. pc' = "configure" /\ step' = step + 1 /\ UNCHANGED <<returned, cutShort>>
      BY <1>1, <1>5, <2>3 DEF AfterReport, NextReport
    <3>2. step' \in 1 .. 5 /\ 1 .. step' - 1 = 1 .. step /\ (step' = 5 => step = 4)
      BY <1>3, <2>3, <3>1
    <3> QED
      BY <1>2, <1>3, <2>2, <3>1, <3>2
         DEF BridgeTypes, HandlesAt, FilesOfPlugs, SetUpSoFar, FilesAreHeld, Held, Free,
             NothingStale
  <2>4. CASE ~ (step < 5)
    <3>1. pc' = "drain" /\ step = 5 /\ step' = step /\ UNCHANGED <<returned, cutShort>>
      BY <1>1, <1>3, <1>5, <2>4 DEF AfterReport, GoTo
    <3>2. taken' = Settings
      BY <2>2, <3>1, SettingsAre
    <3> QED
      BY <1>2, <1>3, <2>2, <3>1, <3>2
         DEF BridgeTypes, HandlesAt, FilesOfPlugs, SetUpSoFar, FilesAreHeld, Held, Free,
             NothingStale
  <2> QED  BY <2>3, <2>4
<1> QED  BY <1>4, <1>5

\* A read takes one of the reports that are there.
LEMMA ReportTaken ==
  ASSUME BridgeInv, TakeReport, UNCHANGED <<record, call>>
  PROVE  BridgeInv'
<1>2. /\ early' \in Nat /\ late' \in Nat /\ early' <= early
      /\ UNCHANGED <<plugs, plugged, taken, break, toCome>>
  BY DEF TakeReport, Pending, BridgeInv, BridgeTypes
<1> QED
  BY <1>2
     DEF BridgeInv, record, call, BridgeTypes, HandlesAt, FilesOfPlugs, SetUpSoFar,
         FilesAreHeld, Held, Free, NothingStale, Alive

\* Connecting ends when nothing is there, or at an empty report.
LEMMA DrainEndsStep ==
  ASSUME BridgeInv, DrainEnds \/ DrainCut
  PROVE  BridgeInv' /\ plugged' /\ taken' = Settings /\ ~break'
<1>1. /\ pc = "drain" /\ Alive(Handle1) /\ queued' = TRUE /\ connected' = TRUE
      /\ pc' = "idle" /\ returned' = 0 /\ step' = step
      /\ UNCHANGED <<plugs, plugged, taken, break, toCome, files, lost, Handle0, Handle1>>
  BY DEF DrainEnds, DrainCut, Drained, FindsNone, SendJumpToApp, TakeReport, bridge
<1>2. Handle1.fd # 0 /\ taken = Settings /\ ~break /\ plugged
  BY <1>1 DEF BridgeInv, HandlesAt, SetUpSoFar, Alive
<1>3. early' \in Nat /\ late' \in Nat /\ cutShort' \in BOOLEAN /\ NothingStale'
  <2>1. early \in Nat /\ late \in Nat /\ cutShort \in BOOLEAN
    BY DEF BridgeInv, BridgeTypes
  <2>2. CASE DrainEnds
    BY <2>1, <2>2 DEF DrainEnds, Drained, FindsNone, Pending, bridge, NothingStale
  <2>3. CASE DrainCut
    <3>1. cutShort' = TRUE /\ TakeReport
      BY <2>3 DEF DrainCut
    <3> QED  BY <2>1, <3>1 DEF TakeReport, Pending, NothingStale
  <2> QED  BY <2>2, <2>3
<1>4. BridgeTypes'
  BY <1>1, <1>3 DEF BridgeInv, BridgeTypes
<1>5. HandlesAt' /\ FilesOfPlugs' /\ SetUpSoFar' /\ FilesAreHeld'
  BY <1>1, <1>2 DEF BridgeInv, HandlesAt, FilesOfPlugs, SetUpSoFar, FilesAreHeld, Held, Free
<1> QED  BY <1>1, <1>2, <1>3, <1>4, <1>5 DEF BridgeInv

\* The calls that end in a failure, a tick, and what they do to break and queued.
LEMMA OtherCallStep ==
  ASSUME BridgeInv,
         \/ OpenFails \/ DrainFails \/ Tick \/ ReadNone \/ ReadFails
         \/ SendUARTBreak \/ Write \/ BreakReport
  PROVE  BridgeInv'
<1>1. CASE OpenFails \/ DrainFails \/ ReadFails
  BY <1>1, OnlyCall DEF OpenFails, DrainFails, ReadFails, Finish
<1>2. CASE Tick
  BY <1>2, OnlyCall DEF Tick, GoTo, BridgeInv, BridgeTypes, HandlesAt
<1>3. CASE ReadNone
  <2>1. /\ UNCHANGED <<record, step, cutShort>> /\ pc' \in {"idle", "write"}
        /\ returned' \in {-1, 0} /\ Handle1.fd # 0
    BY <1>3 DEF ReadNone, FindsNone, Alive, GoTo, Finish, BridgeInv, BridgeTypes
  <2>2. CASE UNCHANGED bridge
    BY <2>1, <2>2, OnlyCall
  <2>3. CASE TakeReport
    <3>1. /\ early' \in Nat /\ late' \in Nat /\ early' <= early
          /\ UNCHANGED <<plugs, plugged, taken, break, toCome>>
      BY <2>3 DEF TakeReport, Pending, BridgeInv, BridgeTypes
    <3>2. UNCHANGED <<files, lost, Handle0, Handle1, connected, queued>>
      BY <2>1 DEF record
    <3>3. BridgeTypes'
      BY <2>1, <3>1, <3>2 DEF BridgeInv, BridgeTypes
    <3>4. HandlesAt' /\ FilesOfPlugs' /\ SetUpSoFar' /\ FilesAreHeld'
      BY <2>1, <3>1, <3>2
         DEF BridgeInv, HandlesAt, FilesOfPlugs, SetUpSoFar, FilesAreHeld, Held, Free
    <3>5. NothingStale'
      BY <2>1, <3>1, <3>2 DEF BridgeInv, BridgeTypes, NothingStale, Alive
    <3> QED  BY <3>3, <3>4, <3>5 DEF BridgeInv
  <2> QED  BY <1>3, <2>2, <2>3 DEF ReadNone
<1>4. CASE SendUARTBreak
  <2>1. CASE Handle1.fd # 0
    BY <1>4, <2>1, OnlyCall DEF SendUARTBreak, GoTo, BridgeInv, BridgeTypes
  <2>2. CASE Handle1.fd = 0
    BY <1>4, <2>2
       DEF SendUARTBreak, GoTo, BridgeInv, bridge, record, BridgeTypes, HandlesAt,
           FilesOfPlugs, SetUpSoFar, FilesAreHeld, Held, Free, NothingStale, Alive
  <2> QED  BY <2>1, <2>2
<1>5. CASE Write
  BY <1>5
     DEF Write, hid_write, Finish, bridge, BridgeInv, BridgeTypes, HandlesAt,
         FilesOfPlugs, SetUpSoFar, FilesAreHeld, Held, Free, NothingStale, Alive
<1>6. CASE BreakReport
  <2>1. /\ UNCHANGED <<plugs, plugged, taken, early, late, toCome>>
        /\ UNCHANGED <<files, lost, Handle0, Handle1, connected, queued, step, cutShort>>
    BY <1>6 DEF BreakReport, record, Finish, GoTo
  <2>2. pc' \in {"idle", "breakOff"} /\ returned' \in {-1, 0} /\ break' \in BOOLEAN
    BY <1>6 DEF BreakReport, Finish, GoTo, BridgeInv, BridgeTypes
  <2>3. BridgeTypes'
    BY <2>1, <2>2 DEF BridgeInv, BridgeTypes
  <2>4. HandlesAt' /\ FilesOfPlugs' /\ SetUpSoFar' /\ NothingStale'
    BY <2>1, <2>2 DEF BridgeInv, HandlesAt, FilesOfPlugs, SetUpSoFar, NothingStale, Alive
  <2>5. FilesAreHeld'
    BY <2>1 DEF BridgeInv, FilesAreHeld, Held, Free
  <2> QED  BY <2>3, <2>4, <2>5 DEF BridgeInv
<1> QED  BY <1>1, <1>2, <1>3, <1>4, <1>5, <1>6

\* Closing gives back every file the record holds, and no other.
LEMMA CloseStep ==
  ASSUME BridgeInv, CloseDevice
  PROVE  BridgeInv'
<1>1. /\ Handle0' = NULL /\ Handle1' = NULL /\ connected' = FALSE /\ queued' = FALSE
      /\ files' = [k \in Descriptors |-> IF k \in Held THEN 0 ELSE files[k]]
      /\ pc = "idle" /\ UNCHANGED <<bridge, lost, call>>
  BY DEF CloseDevice, Closed
<1>2. files \in [Descriptors -> Nat]
  BY DEF BridgeInv, BridgeTypes
<1>3. files' \in [Descriptors -> Nat] /\ Free' = Free \cup (Held \cap Descriptors)
  BY <1>1, <1>2 DEF Free
<1>4. Held' = {} /\ Handle0'.fd = 0 /\ Handle1'.fd = 0
  BY <1>1, NullType DEF Held
<1>5. FilesAreHeld'
  <2>1. Descriptors \ Free = Held \cup lost /\ Held \cap lost = {}
    BY DEF BridgeInv, FilesAreHeld
  <2>2. Descriptors \ Free' = Held' \cup lost' /\ Held' \cap lost' = {}
    BY <1>1, <1>3, <1>4, <2>1
  <2> QED  BY <1>4, <2>2 DEF FilesAreHeld
<1>6. FilesOfPlugs'
  BY <1>1, <1>2 DEF FilesOfPlugs, bridge, BridgeInv, BridgeTypes
<1>7. BridgeTypes'
  BY <1>1, <1>3, NullType DEF BridgeInv, BridgeTypes, bridge, call
<1>8. HandlesAt' /\ SetUpSoFar' /\ NothingStale'
  BY <1>1, <1>4 DEF HandlesAt, SetUpSoFar, NothingStale, Alive, call
<1> QED  BY <1>5, <1>6, <1>7, <1>8 DEF BridgeInv

-----------------------------------------------------------------------------
(***************************************************************************)
(* Bridge: theorems                                                        *)
(***************************************************************************)

LEMMA BridgeStart == Init => BridgeInv
<1> SUFFICES ASSUME Init PROVE BridgeInv
  OBVIOUS
<1>1. BridgeTypes
  <2>1. files \in [Descriptors -> Nat]
    BY DEF Init
  <2>2. early \in Nat /\ late \in Nat /\ toCome \in Nat /\ plugs \in Nat \ {0}
    BY BridgeAssumption DEF Init
  <2>2a. lost \subseteq Descriptors /\ cutShort \in BOOLEAN
    BY DEF Init
  <2>3. /\ plugged \in BOOLEAN /\ break \in BOOLEAN /\ connected \in BOOLEAN
        /\ queued \in BOOLEAN /\ taken \subseteq Settings
    BY DEF Init
  <2>4. step \in 1 .. 5 /\ returned \in {-1, 0} /\ pc = "idle"
    BY DEF Init
  <2>5. Handle0 = NULL /\ Handle1 = NULL
    BY DEF Init
  <2> QED  BY <2>1, <2>2, <2>2a, <2>3, <2>4, <2>5, NullType DEF BridgeTypes
<1>1a. HandlesAt
  BY DEF Init, HandlesAt
<1>2. FilesOfPlugs /\ SetUpSoFar /\ NothingStale
  BY DEF Init, FilesOfPlugs, SetUpSoFar, NothingStale, Descriptors
<1>3. FilesAreHeld
  BY DEF Init, FilesAreHeld, Held, Free, NULL
<1> QED  BY <1>1, <1>1a, <1>2, <1>3 DEF BridgeInv

LEMMA BridgeNext == BridgeInv /\ [Next]_vars => BridgeInv'
<1> SUFFICES ASSUME BridgeInv, [Next]_vars PROVE BridgeInv'
  OBVIOUS
<1>1. CASE UNCHANGED vars
  BY <1>1 DEF vars, bridge, record, call, BridgeInv, BridgeTypes, HandlesAt, FilesOfPlugs,
              SetUpSoFar, FilesAreHeld, Held, Free, NothingStale, Alive
<1>2. CASE Next
  BY <1>2, BridgeMoves, OpenStep, ConfigureStep, ReportTaken, DrainEndsStep, OtherCallStep,
     CloseStep DEF Next, CallStep, DrainReport, ReadReport
<1> QED  BY <1>1, <1>2

\* The bridge's inductive invariant holds however often it is plugged in and
\* whichever call fails (ft260.c:69-207, neoRAD-IO2.c:37-110).
THEOREM BridgeInvHolds == Spec => []BridgeInv
<1> QED  BY BridgeStart, BridgeNext, PTL DEF Spec

\* What an application does with the bridge it found is what Bridge allows.
THEOREM UsbImplementsBridge == UsbSpec => Spec
<1>1. UsbInit => Init
  BY DEF UsbInit
<1>2. [UsbNext]_usbVars => [Next]_vars
  BY DEF UsbNext, usbVars, Searching, Using
<1> QED  BY <1>1, <1>2, PTL DEF UsbSpec, Spec

\* An open file is held by one handle of the record, or was lost by connecting
\* again without closing.
THEOREM FilesAreHeldHolds == Spec => []FilesAreHeld
<1>1. BridgeInv => FilesAreHeld
  BY DEF BridgeInv
<1> QED  BY <1>1, BridgeInvHolds, PTL

\* No report of the time before the set-up is left for rxfifo, unless an empty one
\* ended the reading of them.
THEOREM NothingStaleHolds == Spec => []NothingStale
<1>1. BridgeInv => NothingStale
  BY DEF BridgeInv
<1> QED  BY <1>1, BridgeInvHolds, PTL

\* A connection that succeeds leaves the bridge with every setting and the line
\* without a break.
THEOREM ReadyWhenConnectedHolds == Spec => ReadyWhenConnected
<1>1. BridgeInv /\ [Next]_vars => [~connected /\ connected' => plugged /\ taken = Settings /\ ~break]_vars
  <2> SUFFICES ASSUME BridgeInv, Next, ~connected, connected'
               PROVE  plugged /\ taken = Settings /\ ~break
    OBVIOUS
  <2>1. DrainEnds \/ DrainCut
    BY DEF Next, CallStep, PullOut, PlugIn, Arrive, ConnectDevice, Tick, SendUARTBreak,
           CloseDevice, OpenFails, OpenFirst, OpenSecond, Configure, DrainReport, DrainFails,
           ReadReport, ReadNone, ReadFails, Write, BreakReport, record
  <2>2. UNCHANGED <<plugged, taken, break>>
    BY <2>1 DEF DrainEnds, DrainCut, TakeReport, bridge
  <2> QED  BY <2>1, <2>2, DrainEndsStep
<1> QED  BY <1>1, BridgeInvHolds, PTL DEF Spec, ReadyWhenConnected

\* The same for the application that looked for the bridge first.
THEOREM UsbBridge == UsbSpec => [](FilesAreHeld /\ NothingStale) /\ ReadyWhenConnected
<1> QED  BY UsbImplementsBridge, FilesAreHeldHolds, NothingStaleHolds,
            ReadyWhenConnectedHolds, PTL

-----------------------------------------------------------------------------
(***************************************************************************)
(* Discovery                                                               *)
(***************************************************************************)

Paths == [dev : DOMAIN Serial \cup {NoSerial}, itf : Int]
Serials == {Serial[b] : b \in DOMAIN Serial} \cup {NoSerial}
Devices == [PathInterface0 : Paths, PathInterface1 : Paths,
            SerialNumber : Serials, zeros : SUBSET Nat]

Pairs == D!PairsOf(list)

\* The pairs the search has been through: those before deviceList, or those after
\* it in the search that begins at the end.
Done == {i \in Pairs : IF variant = "hidapi" THEN i < deviceList ELSE deviceList < i}

\* d has the paths of the pair at i.
PairAt(d, i) ==
  /\ {d.PathInterface0, d.PathInterface1} = {list[i], list[i + 1]}
  /\ variant = "hidapi" => d.PathInterface0.itf = 0

InPair(j) == {j - 1, j} \cap Pairs # {}

SearchTypes ==
  /\ variant \in {"hidapi", "hidraw"} /\ list \in Lists
  /\ deviceCount \in 0 .. Supported
  /\ devices \in [0 .. Supported -> Devices]
  /\ result \in Int

\* The devices found are the pairs the search has been through, each once.
PairsFound ==
  /\ Cardinality(Done) = deviceCount
  /\ \A k \in 0 .. deviceCount - 1 : \E i \in Done : PairAt(devices[k], i)
  /\ \A i \in Done : \E k \in 0 .. deviceCount - 1 : PairAt(devices[k], i)
  /\ \A j, k \in 0 .. deviceCount - 1 :
       \A i \in Done : PairAt(devices[j], i) /\ PairAt(devices[k], i) => j = k

\* The search never stands on the second half of a pair, nor on the first when it
\* began at the end.
NotInside ==
  /\ variant = "hidapi" =>
       /\ deviceList \in 1 .. Len(list) + 1 /\ deviceList - 1 \notin Pairs
       /\ \A j \in 1 .. deviceList - 1 : list[j].itf \in {0, 1} => InPair(j)
  /\ variant = "hidraw" =>
       /\ D!Whole(list) /\ \A i \in 1 .. Len(list) : list[i].itf \in {0, 1}
       /\ deviceList = Len(list) - 2 * deviceCount /\ deviceList \in Nat
       /\ deviceList \notin Pairs

FirstHasSerial ==
  variant = "hidapi" /\ deviceCount > 0
    /\ (\A i \in 1 .. Len(list) : Serial[list[i].dev] # NoSerial) =>
    /\ devices[0].SerialNumber = Serial[devices[0].PathInterface0.dev]
    /\ devices[0].zeros = {}

HandedOut ==
  result > 0 =>
    /\ result = deviceCount /\ usbDevices = D!Found
    /\ variant = "hidapi" => deviceList = Len(list) + 1
    /\ variant = "hidraw" => deviceCount = Len(list) \div 2

SearchInv == SearchTypes /\ PairsFound /\ NotInside /\ FirstHasSerial /\ HandedOut

LEMMA ListFacts ==
  ASSUME SearchTypes
  PROVE  /\ list \in Seq([dev : DOMAIN Serial, itf : Int]) /\ Len(list) \in Nat
         /\ \A i \in 1 .. Len(list) : list[i] \in [dev : DOMAIN Serial, itf : Int]
         /\ \A i, j \in 1 .. Len(list) : list[i] = list[j] /\ list[i].itf \in {0, 1} => i = j
         /\ \A i \in 1 .. Len(list) - 1 : list[i].itf \in {0, 1} => InPair(i)
         /\ Cardinality(Pairs) <= Supported /\ Supported \in Nat
<1>1. /\ D!Enumerated(list) /\ Supported \in Nat
      /\ Cardinality(Pairs) <= Supported
  BY UsbAssumption DEF SearchTypes, Pairs
<1>2. /\ list \in Seq([dev : DOMAIN Serial, itf : Int])
      /\ \A i, j \in 1 .. Len(list) : list[i] = list[j] /\ list[i].itf \in {0, 1} => i = j
      /\ \A i \in 1 .. Len(list) - 1 : list[i].itf \in {0, 1} => InPair(i)
  BY <1>1 DEF D!Enumerated, InPair, Pairs
<1>3. Len(list) \in Nat /\ \A i \in 1 .. Len(list) : list[i] \in [dev : DOMAIN Serial, itf : Int]
  BY <1>2, LenProperties, ElementOfSeq
<1> QED  BY <1>1, <1>2, <1>3

LEMMA PairFacts ==
  ASSUME SearchTypes, NEW i \in Pairs
  PROVE  /\ i \in 1 .. Len(list) - 1 /\ i \in 1 .. Len(list) /\ i + 1 \in 1 .. Len(list)
         /\ i \in Int /\ list[i].dev = list[i + 1].dev
         /\ list[i].itf \in {0, 1} /\ list[i + 1].itf \in {0, 1}
         /\ \A n \in {0, 1} : n = list[i].itf \/ n = list[i + 1].itf
         /\ {list[i].itf, list[i + 1].itf} = {0, 1}
<1>1. Len(list) \in Nat
  BY ListFacts
<1>2. /\ i \in 1 .. Len(list) - 1 /\ list[i].dev = list[i + 1].dev
      /\ {list[i].itf, list[i + 1].itf} = {0, 1}
  BY DEF Pairs, D!PairsOf
<1>3. /\ list[i].itf \in {0, 1} /\ list[i + 1].itf \in {0, 1}
      /\ \A n \in {0, 1} : n = list[i].itf \/ n = list[i + 1].itf
  BY ONLY <1>2
<1>4. i \in 1 .. Len(list) /\ i + 1 \in 1 .. Len(list) /\ i \in Int
  BY <1>1, <1>2
<1> QED  BY <1>2, <1>3, <1>4

\* An interface of a bridge whose pair is at i is one of that pair.
LEMMA HalfOfPair ==
  ASSUME SearchTypes, NEW i \in Pairs, NEW j \in 1 .. Len(list),
         list[j].dev = list[i].dev, list[j].itf \in {0, 1}
  PROVE  j \in {i, i + 1}
<1>1. /\ i \in 1 .. Len(list) /\ i + 1 \in 1 .. Len(list)
      /\ list[i].dev = list[i + 1].dev
      /\ list[j].itf = list[i].itf \/ list[j].itf = list[i + 1].itf
  BY PairFacts
<1>2. \A n \in {i, i + 1, j} : list[n] = [dev |-> list[n].dev, itf |-> list[n].itf]
  BY <1>1, ListFacts
<1>3. list[j] = list[i] \/ list[j] = list[i + 1]
  BY <1>1, <1>2
<1> QED  BY <1>1, <1>3, ListFacts

\* A bridge has one pair, and two pairs share no element.
LEMMA OnePair ==
  ASSUME SearchTypes, NEW i \in Pairs, NEW j \in Pairs, list[i].dev = list[j].dev
  PROVE  i = j
<1>1. /\ i \in Int /\ j \in 1 .. Len(list) /\ j + 1 \in 1 .. Len(list)
      /\ list[j].itf \in {0, 1} /\ list[j + 1].itf \in {0, 1} /\ list[j + 1].dev = list[j].dev
  BY PairFacts
<1>2. j \in {i, i + 1} /\ j + 1 \in {i, i + 1}
  BY <1>1, HalfOfPair
<1> QED  BY <1>1, <1>2

LEMMA PairsApart ==
  ASSUME SearchTypes, NEW i \in Pairs
  PROVE  i + 1 \notin Pairs /\ i - 1 \notin Pairs
<1>1. i \in Int /\ list[i].dev = list[i + 1].dev
  BY PairFacts
<1>2. i + 1 \notin Pairs
  BY <1>1, OnePair
<1>3. ASSUME i - 1 \in Pairs PROVE FALSE
  <2>1. list[i - 1].dev = list[(i - 1) + 1].dev /\ (i - 1) + 1 = i
    BY <1>1, <1>3, PairFacts
  <2> QED  BY <1>1, <1>3, <2>1, OnePair
<1> QED  BY <1>2, <1>3

\* The search on Android sees pairs only.
LEMMA NodesPaired ==
  ASSUME SearchTypes, D!Whole(list), \A i \in 1 .. Len(list) : list[i].itf \in {0, 1}
  PROVE  \A j \in 1 .. Len(list) : InPair(j)
<1> SUFFICES ASSUME NEW j \in 1 .. Len(list) PROVE InPair(j)
  OBVIOUS
<1>1. PICK i \in 1 .. Len(list) - 1 :
        /\ list[i].dev = list[j].dev /\ list[i + 1].dev = list[j].dev
        /\ {list[i].itf, list[i + 1].itf} = {0, 1}
  BY DEF D!Whole
<1>2. i \in Pairs
  BY <1>1 DEF Pairs, D!PairsOf
<1>3. j \in {i, i + 1}
  BY <1>1, <1>2, HalfOfPair
<1> QED  BY <1>2, <1>3, PairFacts DEF InPair

LEMMA DoneFinite ==
  ASSUME SearchTypes
  PROVE  /\ IsFiniteSet(Pairs) /\ IsFiniteSet(Done) /\ Done \subseteq Pairs
         /\ Cardinality(Done) \in Nat /\ Cardinality(Pairs) \in Nat
<1>1. Len(list) - 1 \in Int /\ Pairs \subseteq 1 .. Len(list) - 1 /\ Done \subseteq Pairs
  BY ListFacts, PairFacts DEF Done
<1>2. IsFiniteSet(1 .. Len(list) - 1)
  BY <1>1, FS_Interval
<1> QED  BY <1>1, <1>2, FS_Subset, FS_CardinalityType

\* One more pair and one more device with its paths.
LEMMA FindsPair ==
  ASSUME SearchInv, NEW i \in Pairs, i \notin Done, Done' = Done \cup {i},
         UNCHANGED <<variant, list>>, deviceCount' = deviceCount + 1,
         deviceCount' <= Supported => PairAt(devices'[deviceCount], i),
         \A k \in 0 .. deviceCount - 1 :
           /\ devices'[k].PathInterface0 = devices[k].PathInterface0
           /\ devices'[k].PathInterface1 = devices[k].PathInterface1
  PROVE  deviceCount' \in 1 .. Supported /\ PairsFound'
<1>1. SearchTypes /\ deviceCount \in 0 .. Supported /\ Supported \in Nat /\ PairsFound
  BY UsbAssumption DEF SearchInv, SearchTypes
<1>2. Cardinality(Done') = deviceCount + 1 /\ Done' \subseteq Pairs
  BY <1>1, DoneFinite, FS_AddElement DEF PairsFound
<1>3. deviceCount' \in 1 .. Supported
  <2>1. Cardinality(Done') <= Cardinality(Pairs)
    BY <1>1, <1>2, DoneFinite, FS_Subset
  <2> QED  BY <1>1, <1>2, <2>1, ListFacts, DoneFinite
<1>4. /\ \A d, n : PairAt(d, n)' <=> PairAt(d, n)
      /\ PairAt(devices'[deviceCount], i)
      /\ 0 .. deviceCount' - 1 = (0 .. deviceCount - 1) \cup {deviceCount}
  BY <1>1, <1>3 DEF PairAt
<1>5. \A k \in 0 .. deviceCount - 1 : \A n : PairAt(devices'[k], n) <=> PairAt(devices[k], n)
  BY DEF PairAt
<1>6. \A k \in 0 .. deviceCount - 1 : ~PairAt(devices'[k], i)
  <2> SUFFICES ASSUME NEW k \in 0 .. deviceCount - 1, PairAt(devices[k], i) PROVE FALSE
    BY <1>5
  <2>1. PICK n \in Done : PairAt(devices[k], n)
    BY <1>1 DEF PairsFound
  <2>2. {list[i], list[i + 1]} = {list[n], list[n + 1]}
    BY <2>1 DEF PairAt
  <2>3. n \in Pairs /\ list[i].dev = list[n].dev
    BY <1>1, <2>1, <2>2, DoneFinite, PairFacts
  <2> QED  BY <1>1, <2>1, <2>3, OnePair
<1>7. \A n \in Done : ~PairAt(devices'[deviceCount], n)
  <2> SUFFICES ASSUME NEW n \in Done, PairAt(devices'[deviceCount], n) PROVE FALSE
    OBVIOUS
  <2>1. {list[i], list[i + 1]} = {list[n], list[n + 1]}
    BY <1>4 DEF PairAt
  <2>2. n \in Pairs /\ list[i].dev = list[n].dev
    BY <1>1, <2>1, DoneFinite, PairFacts
  <2> QED  BY <1>1, <2>2, OnePair
<1>8. \A k \in 0 .. deviceCount' - 1 : \E n \in Done' : PairAt(devices'[k], n)
  <2> SUFFICES ASSUME NEW k \in 0 .. deviceCount' - 1
               PROVE  \E n \in Done' : PairAt(devices'[k], n)
    OBVIOUS
  <2>1. CASE k = deviceCount
    BY <1>4, <2>1
  <2>2. CASE k \in 0 .. deviceCount - 1
    BY <1>1, <1>5, <2>2 DEF PairsFound
  <2> QED  BY <1>4, <2>1, <2>2
<1>9. \A n \in Done' : \E k \in 0 .. deviceCount' - 1 : PairAt(devices'[k], n)
  <2> SUFFICES ASSUME NEW n \in Done'
               PROVE  \E k \in 0 .. deviceCount' - 1 : PairAt(devices'[k], n)
    OBVIOUS
  <2>1. CASE n = i
    BY <1>4, <2>1
  <2>2. CASE n \in Done
    <3>1. PICK k \in 0 .. deviceCount - 1 : PairAt(devices[k], n)
      BY <1>1, <2>2 DEF PairsFound
    <3> QED  BY <1>4, <1>5, <3>1
  <2> QED  BY <2>1, <2>2
<1>10. \A j, k \in 0 .. deviceCount' - 1 :
         \A n \in Done' : PairAt(devices'[j], n) /\ PairAt(devices'[k], n) => j = k
  <2> SUFFICES ASSUME NEW j \in 0 .. deviceCount' - 1, NEW k \in 0 .. deviceCount' - 1,
                      NEW n \in Done', PairAt(devices'[j], n), PairAt(devices'[k], n)
               PROVE  j = k
    OBVIOUS
  <2>1. CASE n = i
    BY <1>4, <1>6, <2>1
  <2>2. CASE n \in Done
    <3>1. j \in 0 .. deviceCount - 1 /\ k \in 0 .. deviceCount - 1
      BY <1>4, <1>7, <2>2
    <3>2. PairAt(devices[j], n) /\ PairAt(devices[k], n)
      BY <1>5, <3>1
    <3> QED  BY <1>1, <2>2, <3>1, <3>2 DEF PairsFound
  <2> QED  BY <2>1, <2>2
<1> QED  BY <1>2, <1>3, <1>4, <1>8, <1>9, <1>10 DEF PairsFound

\* Storing the serial number of element j in the devices touches no path, and
\* only the next device when there is one.
Stored(d, j) ==
  /\ d \in [0 .. Supported -> Devices]
  /\ \A k \in 0 .. Supported :
       /\ d[k].PathInterface0 = devices[k].PathInterface0
       /\ d[k].PathInterface1 = devices[k].PathInterface1
  /\ Serial[list[j].dev] # NoSerial =>
       \A k \in 0 .. Supported :
         IF k = deviceCount THEN d[k].SerialNumber = Serial[list[j].dev] /\ d[k].zeros = {}
                            ELSE d[k] = devices[k]

LEMMA SerialStored ==
  ASSUME SearchTypes, NEW j \in 1 .. Len(list)
  PROVE  Stored(D!TakeSerial(list[j]), j)
<1> SUFFICES ASSUME NEW d, d = D!TakeSerial(list[j]) PROVE Stored(d, j)
  OBVIOUS
<1>1. /\ devices \in [0 .. Supported -> Devices] /\ deviceCount \in Nat /\ Supported \in Nat
      /\ deviceCount \in 0 .. Supported /\ 0 \in 0 .. Supported
  BY ListFacts DEF SearchTypes
<1>2. Serial[list[j].dev] \in Serials
  <2>1. list[j].dev \in DOMAIN Serial
    BY ListFacts
  <2> QED  BY <2>1 DEF Serials
<1>3. CASE Serial[list[j].dev] = NoSerial
  <2>1. d = [devices EXCEPT ![0].zeros = @ \cup {deviceCount}]
    BY <1>3 DEF D!TakeSerial
  <2>2. devices[0].zeros \cup {deviceCount} \in SUBSET Nat
    BY <1>1 DEF Devices
  <2>3. devices[0] \in Devices
    BY <1>1
  <2>4. PICK r : r = [devices[0] EXCEPT !.zeros = @ \cup {deviceCount}]
    OBVIOUS
  <2>5. /\ r \in Devices /\ r.PathInterface0 = devices[0].PathInterface0
        /\ r.PathInterface1 = devices[0].PathInterface1
    BY ONLY <2>2, <2>3, <2>4 DEF Devices
  <2>6. d = [devices EXCEPT ![0] = r]
    BY <1>1, <2>1, <2>4
  <2>7. d \in [0 .. Supported -> Devices]
    BY ONLY <1>1, <2>5, <2>6
  <2>8. \A k \in 0 .. Supported :
          /\ d[k].PathInterface0 = devices[k].PathInterface0
          /\ d[k].PathInterface1 = devices[k].PathInterface1
    BY ONLY <1>1, <2>5, <2>6
  <2> QED  BY <1>3, <2>7, <2>8 DEF Stored
<1>4. CASE Serial[list[j].dev] # NoSerial
  <2>1. d = [devices EXCEPT ![deviceCount].SerialNumber = Serial[list[j].dev],
                            ![deviceCount].zeros = {}]
    BY <1>4 DEF D!TakeSerial
  <2>2. PICK r : r = [devices[deviceCount] EXCEPT !.SerialNumber = Serial[list[j].dev], !.zeros = {}]
    OBVIOUS
  <2>3. devices[deviceCount] \in Devices /\ {} \in SUBSET Nat
    BY <1>1
  <2>4. /\ r \in Devices /\ r.SerialNumber = Serial[list[j].dev] /\ r.zeros = {}
        /\ r.PathInterface0 = devices[deviceCount].PathInterface0
        /\ r.PathInterface1 = devices[deviceCount].PathInterface1
    BY ONLY <1>2, <2>2, <2>3 DEF Devices
  <2>5. d = [devices EXCEPT ![deviceCount] = r]
    BY <1>1, <2>1, <2>2
  <2>6. d \in [0 .. Supported -> Devices]
    BY ONLY <1>1, <2>4, <2>5
  <2>7. \A k \in 0 .. Supported :
          /\ d[k].PathInterface0 = devices[k].PathInterface0
          /\ d[k].PathInterface1 = devices[k].PathInterface1
          /\ IF k = deviceCount THEN d[k].SerialNumber = Serial[list[j].dev] /\ d[k].zeros = {}
                                ELSE d[k] = devices[k]
    BY ONLY <1>1, <2>4, <2>5
  <2> QED  BY <2>6, <2>7 DEF Stored
<1> QED  BY <1>3, <1>4

\* An element of the list is a path a device may hold.
LEMMA IsPath ==
  ASSUME SearchTypes, NEW j \in 1 .. Len(list)
  PROVE  list[j] \in Paths
BY ListFacts DEF Paths

LEMMA FindPairStep ==
  ASSUME SearchInv, D!FindPair
  PROVE  SearchInv'
<1> DEFINE e == list[deviceList]  next == list[deviceList + 1]
<1>1. /\ variant = "hidapi" /\ result = D!Running /\ deviceList \in 1 .. Len(list)
      /\ e.itf \in {0, 1} /\ deviceList # Len(list)
      /\ devices' = [D!TakeSerial(e) EXCEPT ![deviceCount] = D!Pair(e, next, @)]
      /\ deviceList' = deviceList + 2 /\ deviceCount' = deviceCount + 1
      /\ UNCHANGED <<variant, list, result, usbDevices>>
  BY DEF D!FindPair, D!Searching, D!Last, D!AfterPair
<1>2. /\ SearchTypes /\ PairsFound /\ NotInside /\ FirstHasSerial
      /\ Len(list) \in Nat /\ Supported \in Nat /\ deviceCount \in 0 .. Supported
  BY ListFacts DEF SearchInv, SearchTypes
<1>3. deviceList \in Pairs
  <2>1. deviceList \in 1 .. Len(list) - 1
    BY <1>1, <1>2
  <2>2. InPair(deviceList) /\ deviceList - 1 \notin Pairs
    BY <1>1, <1>2, <2>1, ListFacts DEF NotInside
  <2> QED  BY <2>2 DEF InPair
<1>4. PICK d : d = D!TakeSerial(list[deviceList])
  OBVIOUS
<1>5. /\ d \in [0 .. Supported -> Devices]
      /\ \A k \in 0 .. Supported :
           /\ d[k].PathInterface0 = devices[k].PathInterface0
           /\ d[k].PathInterface1 = devices[k].PathInterface1
      /\ Serial[list[deviceList].dev] # NoSerial =>
           \A k \in 0 .. Supported :
             IF k = deviceCount THEN d[k].SerialNumber = Serial[list[deviceList].dev] /\ d[k].zeros = {}
                                ELSE d[k] = devices[k]
  <2>1. Stored(D!TakeSerial(list[deviceList]), deviceList)
    BY <1>1, <1>2, SerialStored
  <2>2. Stored(d, deviceList)
    BY <1>4, <2>1
  <2> QED  BY <2>2 DEF Stored
<1>6. /\ e \in Paths /\ next \in Paths /\ e.dev = next.dev
      /\ next.itf = IF e.itf = 0 THEN 1 ELSE 0
  <2>1. /\ deviceList + 1 \in 1 .. Len(list) /\ e.dev = next.dev
        /\ \A n \in {0, 1} : n = e.itf \/ n = next.itf
    BY <1>2, <1>3, PairFacts
  <2> QED  BY <1>1, <1>2, <2>1, IsPath
<1>7. /\ devices' \in [0 .. Supported -> Devices]
      /\ \A k \in 0 .. Supported : k # deviceCount => devices'[k] = d[k]
      /\ PairAt(devices'[deviceCount], deviceList)
      /\ devices'[deviceCount].PathInterface0.dev = e.dev
      /\ devices'[deviceCount].SerialNumber = d[deviceCount].SerialNumber
      /\ devices'[deviceCount].zeros = d[deviceCount].zeros
  <2>1. devices' = [d EXCEPT ![deviceCount] = D!Pair(e, next, @)]
    BY <1>1, <1>4
  <2>2. PICK p : p = D!Pair(e, next, d[deviceCount])
    OBVIOUS
  <2>3. d[deviceCount] \in Devices
    BY <1>2, <1>5
  <2>4. /\ p \in Devices /\ p.SerialNumber = d[deviceCount].SerialNumber
        /\ p.zeros = d[deviceCount].zeros
        /\ p.PathInterface0 = IF e.itf = 0 THEN e ELSE next
        /\ p.PathInterface1 = IF e.itf = 0 THEN next ELSE e
    BY <1>6, <2>2, <2>3 DEF D!Pair, Devices
  <2>5. PairAt(p, deviceList) /\ p.PathInterface0.dev = e.dev
    BY <1>1, <1>6, <2>4 DEF PairAt
  <2>6. devices' = [d EXCEPT ![deviceCount] = p]
    BY <2>1, <2>2
  <2> QED  BY <1>2, <1>5, <2>4, <2>5, <2>6
<1>8. Done' = Done \cup {deviceList} /\ deviceList \notin Done
  <2>1. /\ Pairs' = Pairs /\ Done = {i \in Pairs : i < deviceList}
        /\ Done' = {i \in Pairs : i < deviceList + 2}
    BY <1>1 DEF Done, Pairs
  <2>2. deviceList + 1 \notin Pairs /\ deviceList \in Int /\ \A i \in Pairs : i \in Int
    BY <1>2, <1>3, PairsApart, PairFacts
  <2>3. \A i \in Pairs : i < deviceList + 2 <=> i < deviceList \/ i = deviceList
    <3> SUFFICES ASSUME NEW i \in Pairs
                 PROVE  i < deviceList + 2 <=> i < deviceList \/ i = deviceList
      OBVIOUS
    <3>1. i \in Int /\ i # deviceList + 1 /\ deviceList \in Int
      BY <2>2
    <3> QED  BY <3>1
  <2>4. deviceList \notin Done
    BY <2>1, <2>2
  <2>5. \A i : i \in Done' <=> i \in Done \/ i = deviceList
    <3>1. deviceList < deviceList + 2
      BY <2>2
    <3> QED  BY <1>3, <2>1, <2>3, <3>1
  <2> QED  BY <2>4, <2>5
<1>9. deviceCount' \in 1 .. Supported /\ PairsFound'
  <2>1. \A k \in 0 .. deviceCount - 1 : k \in 0 .. Supported /\ k # deviceCount
    BY <1>2
  <2> QED  BY <1>1, <1>3, <1>5, <1>7, <1>8, <2>1, FindsPair
<1>10. SearchTypes'
  BY <1>1, <1>2, <1>7, <1>9 DEF SearchTypes
<1>11. NotInside'
  <2>1. deviceList' \in 1 .. Len(list') + 1
    BY <1>1, <1>2
  <2>2. deviceList' - 1 \notin Pairs'
    <3>1. deviceList' - 1 = deviceList + 1 /\ Pairs' = Pairs
      BY <1>1 DEF Pairs
    <3> QED  BY <1>2, <1>3, <3>1, PairsApart
  <2>3. ASSUME NEW j \in 1 .. deviceList' - 1, list'[j].itf \in {0, 1}
        PROVE  InPair(j)'
    <3>1. InPair(j)' <=> InPair(j)
      BY <1>1 DEF InPair, Pairs
    <3>2. CASE j \in 1 .. deviceList - 1
      BY <1>1, <1>2, <2>3, <3>1, <3>2 DEF NotInside
    <3>3. CASE j \in {deviceList, deviceList + 1}
      <4>1. InPair(j)
        BY <1>1, <1>3, <3>3 DEF InPair
      <4> QED  BY <3>1, <4>1
    <3> QED  BY <1>1, <2>3, <3>2, <3>3
  <2> QED  BY <1>1, <2>1, <2>2, <2>3 DEF NotInside
<1>12. FirstHasSerial'
  <2> SUFFICES ASSUME \A i \in 1 .. Len(list) : Serial[list[i].dev] # NoSerial
               PROVE  /\ devices'[0].SerialNumber = Serial[devices'[0].PathInterface0.dev]
                      /\ devices'[0].zeros = {}
    BY <1>1 DEF FirstHasSerial
  <2>1. Serial[e.dev] # NoSerial
    BY <1>1
  <2>2. CASE deviceCount = 0
    BY <1>2, <1>5, <1>7, <2>1, <2>2
  <2>3. CASE deviceCount # 0
    <3>1. devices'[0] = devices[0]
      BY <1>2, <1>5, <1>7, <2>1, <2>3
    <3> QED  BY <1>1, <1>2, <2>3, <3>1 DEF FirstHasSerial
  <2> QED  BY <2>2, <2>3
<1>13. HandedOut'
  BY <1>1 DEF HandedOut, D!Running
<1> QED  BY <1>9, <1>10, <1>11, <1>12, <1>13 DEF SearchInv

\* PairsFound reads only the paths of the devices that were found.
LEMMA PairsFoundKept ==
  ASSUME PairsFound, UNCHANGED <<variant, list, deviceCount>>, Done' = Done,
         \A k \in 0 .. deviceCount - 1 :
           /\ devices'[k].PathInterface0 = devices[k].PathInterface0
           /\ devices'[k].PathInterface1 = devices[k].PathInterface1
  PROVE  PairsFound'
<1>1. \A d, n : PairAt(d, n)' <=> PairAt(d, n)
  BY DEF PairAt
<1>2. \A k \in 0 .. deviceCount - 1 : \A n : PairAt(devices'[k], n) <=> PairAt(devices[k], n)
  BY DEF PairAt
<1>3. \A k \in 0 .. deviceCount - 1 : \E i \in Done : PairAt(devices'[k], i)
  BY <1>2 DEF PairsFound
<1>4. \A i \in Done : \E k \in 0 .. deviceCount - 1 : PairAt(devices'[k], i)
  BY <1>2 DEF PairsFound
<1>5. \A j, k \in 0 .. deviceCount - 1 :
        \A i \in Done : PairAt(devices'[j], i) /\ PairAt(devices'[k], i) => j = k
  BY <1>2 DEF PairsFound
<1> QED  BY <1>1, <1>3, <1>4, <1>5 DEF PairsFound

LEMMA SkipStep ==
  ASSUME SearchInv, D!SkipInterface
  PROVE  SearchInv'
<1>1. /\ variant = "hidapi" /\ result = D!Running /\ deviceList \in 1 .. Len(list)
      /\ list[deviceList].itf \notin {0, 1}
      /\ devices' = D!TakeSerial(list[deviceList]) /\ deviceList' = deviceList + 1
      /\ UNCHANGED <<variant, list, deviceCount, result, usbDevices>>
  BY DEF D!SkipInterface, D!Searching
<1>2. /\ SearchTypes /\ PairsFound /\ NotInside /\ FirstHasSerial
      /\ Len(list) \in Nat /\ Supported \in Nat /\ deviceCount \in 0 .. Supported
  BY ListFacts DEF SearchInv, SearchTypes
<1>3. /\ devices' \in [0 .. Supported -> Devices]
      /\ \A k \in 0 .. Supported :
           /\ devices'[k].PathInterface0 = devices[k].PathInterface0
           /\ devices'[k].PathInterface1 = devices[k].PathInterface1
      /\ Serial[list[deviceList].dev] # NoSerial =>
           \A k \in 0 .. Supported : k # deviceCount => devices'[k] = devices[k]
  <2>1. Stored(D!TakeSerial(list[deviceList]), deviceList)
    BY <1>1, <1>2, SerialStored
  <2>2. Stored(devices', deviceList)
    BY <1>1, <2>1
  <2> QED  BY <2>2 DEF Stored
<1>4. Pairs' = Pairs /\ deviceList \notin Pairs
  BY <1>1, <1>2, PairFacts DEF Pairs
<1>5. Done' = Done
  <2>1. \A i \in Pairs : i \in Int
    BY <1>2, PairFacts
  <2> QED  BY <1>1, <1>4, <2>1 DEF Done
<1>6. PairsFound'
  <2>1. \A k \in 0 .. deviceCount - 1 : k \in 0 .. Supported
    BY <1>2
  <2> QED  BY <1>1, <1>2, <1>3, <1>5, <2>1, PairsFoundKept
<1>7. SearchTypes'
  BY <1>1, <1>2, <1>3 DEF SearchTypes
<1>8. NotInside'
  <2>1. \A j : InPair(j)' <=> InPair(j)
    BY <1>4 DEF InPair
  <2>2. /\ deviceList' \in 1 .. Len(list') + 1 /\ deviceList' - 1 = deviceList
        /\ 1 .. deviceList' - 1 = (1 .. deviceList - 1) \cup {deviceList}
    BY <1>1, <1>2
  <2> QED  BY <1>1, <1>2, <1>4, <2>1, <2>2 DEF NotInside
<1>9. FirstHasSerial'
  <2>1. CASE deviceCount > 0 /\ Serial[list[deviceList].dev] # NoSerial
    <3>1. devices'[0] = devices[0]
      BY <1>2, <1>3, <2>1
    <3> QED  BY <1>1, <1>2, <3>1 DEF FirstHasSerial
  <2>2. CASE ~ (deviceCount > 0 /\ Serial[list[deviceList].dev] # NoSerial)
    BY <1>1, <2>2 DEF FirstHasSerial
  <2> QED  BY <2>1, <2>2
<1>10. HandedOut'
  BY <1>1 DEF HandedOut, D!Running
<1> QED  BY <1>6, <1>7, <1>8, <1>9, <1>10 DEF SearchInv

\* The half of a bridge at the end of the list: the search stays where it is.
LEMMA FindHalfStep ==
  ASSUME SearchInv, D!FindHalf
  PROVE  SearchInv'
<1>1. /\ variant = "hidapi" /\ result = D!Running /\ deviceList \in 1 .. Len(list)
      /\ list[deviceList].itf \in {0, 1} /\ deviceList = Len(list)
      /\ UNCHANGED <<variant, list, deviceList, deviceCount, result, usbDevices>>
  BY DEF D!FindHalf, D!Searching, D!Last
<1>2. /\ SearchTypes /\ PairsFound /\ NotInside /\ FirstHasSerial
      /\ Len(list) \in Nat /\ Supported \in Nat /\ deviceCount \in 0 .. Supported
  BY ListFacts DEF SearchInv, SearchTypes
<1>3. PICK e, d : e = list[deviceList] /\ d = D!TakeSerial(list[deviceList])
  OBVIOUS
<1>4. Stored(d, deviceList) /\ e \in Paths
  <2>1. Stored(D!TakeSerial(list[deviceList]), deviceList)
    BY <1>1, <1>2, SerialStored
  <2> QED  BY <1>1, <1>2, <1>3, <2>1, IsPath
<1>5. devices' = [d EXCEPT ![deviceCount] = IF e.itf = 0 THEN [@ EXCEPT !.PathInterface0 = e]
                                                       ELSE [@ EXCEPT !.PathInterface1 = e]]
  BY <1>3 DEF D!FindHalf
<1>6. /\ devices' \in [0 .. Supported -> Devices]
      /\ \A k \in 0 .. Supported : k # deviceCount => devices'[k] = d[k]
  <2>1. PICK r : r = IF e.itf = 0 THEN [d[deviceCount] EXCEPT !.PathInterface0 = e]
                                 ELSE [d[deviceCount] EXCEPT !.PathInterface1 = e]
    OBVIOUS
  <2>2. d \in [0 .. Supported -> Devices] /\ d[deviceCount] \in Devices
    BY <1>2, <1>4 DEF Stored
  <2>3. r \in Devices
    BY ONLY <1>4, <2>1, <2>2 DEF Devices
  <2>4. devices' = [d EXCEPT ![deviceCount] = r]
    BY <1>5, <2>1
  <2> QED  BY ONLY <1>2, <2>2, <2>3, <2>4
<1>7. Done' = Done
  BY <1>1 DEF Done, Pairs
<1>8. PairsFound'
  <2>1. \A k \in 0 .. deviceCount - 1 : k \in 0 .. Supported /\ k # deviceCount
    BY <1>2
  <2>2. \A k \in 0 .. deviceCount - 1 :
          /\ devices'[k].PathInterface0 = devices[k].PathInterface0
          /\ devices'[k].PathInterface1 = devices[k].PathInterface1
    BY <1>4, <1>6, <2>1 DEF Stored
  <2> QED  BY <1>1, <1>2, <1>7, <2>2, PairsFoundKept
<1>9. SearchTypes' /\ NotInside' /\ HandedOut'
  BY <1>1, <1>2, <1>6 DEF SearchTypes, NotInside, InPair, Pairs, HandedOut, D!Running
<1>10. FirstHasSerial'
  <2>1. CASE deviceCount > 0 /\ Serial[list[deviceList].dev] # NoSerial
    <3>1. devices'[0] = devices[0]
      BY <1>2, <1>4, <1>6, <2>1 DEF Stored
    <3> QED  BY <1>1, <1>2, <3>1 DEF FirstHasSerial
  <2>2. CASE ~ (deviceCount > 0 /\ Serial[list[deviceList].dev] # NoSerial)
    BY <1>1, <2>2 DEF FirstHasSerial
  <2> QED  BY <2>1, <2>2
<1> QED  BY <1>8, <1>9, <1>10 DEF SearchInv

\* Two nodes of Android are the two of one bridge.
LEMMA PairNodesStep ==
  ASSUME SearchInv, D!PairNodes
  PROVE  SearchInv'
<1>1. /\ variant = "hidraw" /\ result = D!Running /\ deviceCount < Len(list) \div 2
      /\ devices' = [devices EXCEPT ![deviceCount].PathInterface0 = list[deviceList],
                                    ![deviceCount].PathInterface1 = list[deviceList - 1]]
      /\ deviceList' = deviceList - 2 /\ deviceCount' = deviceCount + 1
      /\ UNCHANGED <<variant, list, result, usbDevices>>
  BY DEF D!PairNodes
<1>2. /\ SearchTypes /\ PairsFound
      /\ Len(list) \in Nat /\ Supported \in Nat /\ deviceCount \in 0 .. Supported
      /\ D!Whole(list) /\ \A i \in 1 .. Len(list) : list[i].itf \in {0, 1}
      /\ deviceList = Len(list) - 2 * deviceCount /\ deviceList \notin Pairs
  BY <1>1, ListFacts DEF SearchInv, SearchTypes, NotInside
<1>3. /\ deviceList - 1 \in 1 .. Len(list) /\ deviceList \in 1 .. Len(list)
      /\ deviceList' \in Nat /\ deviceList' = Len(list) - 2 * deviceCount'
  <2>1. PICK n \in Nat, c \in Nat : n = Len(list) /\ c = deviceCount
    BY <1>2
  <2>2. c < n \div 2 => 2 * c + 2 <= n
    OBVIOUS
  <2>3. 2 * c + 2 <= n /\ deviceList = n - 2 * c
    BY <1>1, <1>2, <2>1, <2>2
  <2> QED  BY <1>1, <2>1, <2>3
<1>4. PICK i \in Pairs : i = deviceList - 1
  <2>1. InPair(deviceList)
    BY <1>2, <1>3, NodesPaired
  <2> QED  BY <1>2, <2>1 DEF InPair
<1>5. /\ i \in Int /\ i + 1 = deviceList
      /\ list[i] \in Paths /\ list[i + 1] \in Paths
  BY <1>2, <1>3, <1>4, IsPath
<1>6. /\ devices' \in [0 .. Supported -> Devices]
      /\ \A k \in 0 .. Supported : k # deviceCount => devices'[k] = devices[k]
      /\ PairAt(devices'[deviceCount], i)
  <2>1. PICK r : r = [devices[deviceCount] EXCEPT !.PathInterface0 = list[i + 1],
                                                  !.PathInterface1 = list[i]]
    OBVIOUS
  <2>2. devices \in [0 .. Supported -> Devices] /\ devices[deviceCount] \in Devices
    BY <1>2 DEF SearchTypes
  <2>3. r \in Devices /\ r.PathInterface0 = list[i + 1] /\ r.PathInterface1 = list[i]
    BY ONLY <1>5, <2>1, <2>2 DEF Devices
  <2>4. devices' = [devices EXCEPT ![deviceCount] = r]
    BY <1>1, <1>2, <1>4, <1>5, <2>1, <2>2
  <2>5. devices'[deviceCount] = r
    BY <1>2, <2>2, <2>4
  <2>6. PairAt(r, i)
    BY <1>1, <2>3 DEF PairAt
  <2> QED  BY <1>2, <2>2, <2>3, <2>4, <2>5, <2>6
<1>7. Pairs' = Pairs /\ deviceList' \notin Pairs /\ deviceList \in Int
  <2>1. deviceList' = i - 1
    BY <1>1, <1>3, <1>4
  <2> QED  BY <1>1, <1>2, <1>3, <2>1, PairsApart DEF Pairs
<1>8. Done' = Done \cup {i} /\ i \notin Done
  <2>1. /\ Done = {n \in Pairs : deviceList < n}
        /\ Done' = {n \in Pairs : deviceList - 2 < n}
    BY <1>1, <1>7 DEF Done
  <2>2. \A n \in Pairs : deviceList - 2 < n <=> deviceList < n \/ n = i
    <3> SUFFICES ASSUME NEW n \in Pairs
                 PROVE  deviceList - 2 < n <=> deviceList < n \/ n = i
      OBVIOUS
    <3>1. n \in Int /\ n # deviceList
      BY <1>2, PairFacts
    <3> QED  BY <1>5, <1>7, <3>1
  <2>3. i \notin Done
    BY <1>5, <1>7, <2>1
  <2>4. \A n : n \in Done' <=> n \in Done \/ n = i
    BY <2>1, <2>2
  <2> QED  BY <2>3, <2>4
<1>9. deviceCount' \in 1 .. Supported /\ PairsFound'
  <2>1. \A k \in 0 .. deviceCount - 1 : devices'[k] = devices[k]
    BY <1>2, <1>6
  <2> QED  BY <1>1, <1>6, <1>8, <2>1, FindsPair
<1>10. SearchTypes' /\ NotInside'
  <2>1. SearchTypes'
    BY <1>1, <1>2, <1>6, <1>9 DEF SearchTypes
  <2>2. D!Whole(list') /\ \A n \in 1 .. Len(list') : list'[n].itf \in {0, 1}
    BY <1>1, <1>2
  <2> QED  BY <1>1, <1>3, <1>7, <2>1, <2>2 DEF NotInside
<1>11. FirstHasSerial' /\ HandedOut'
  BY <1>1 DEF FirstHasSerial, HandedOut, D!Running
<1> QED  BY <1>9, <1>10, <1>11 DEF SearchInv

LEMMA ReturnStep ==
  ASSUME SearchInv, D!Return
  PROVE  SearchInv'
<1>1. /\ result = D!Running
      /\ UNCHANGED <<variant, list, deviceList, devices, deviceCount>>
      /\ \/ result' = -1
         \/ result' = deviceCount /\ usbDevices' = D!Found
      /\ \/ variant = "hidapi" /\ deviceList \notin 1 .. Len(list)
         \/ variant = "hidraw" /\ deviceCount = Len(list) \div 2
  BY DEF D!Return
<1>2. SearchTypes /\ PairsFound /\ NotInside /\ FirstHasSerial /\ Len(list) \in Nat
  BY ListFacts DEF SearchInv
<1>3. D!Found' = D!Found /\ Done' = Done
  BY <1>1 DEF D!Found, Done, Pairs
<1>4. PairsFound'
  BY <1>1, <1>2, <1>3, PairsFoundKept
<1>5. SearchTypes' /\ NotInside' /\ FirstHasSerial'
  BY <1>1, <1>2 DEF SearchTypes, NotInside, FirstHasSerial, InPair, Pairs
<1>6. HandedOut'
  <2>1. variant = "hidapi" => deviceList \in 1 .. Len(list) + 1
    BY <1>2 DEF NotInside
  <2>2. variant = "hidapi" => deviceList = Len(list) + 1
    BY <1>1, <1>2, <2>1
  <2> QED  BY <1>1, <1>3, <2>2 DEF HandedOut
<1> QED  BY <1>4, <1>5, <1>6 DEF SearchInv

LEMMA StartStep ==
  ASSUME SearchInv, D!Start
  PROVE  SearchInv'
<1>1. /\ result' \in Int /\ ~ (result' > 0)
      /\ UNCHANGED <<variant, list, deviceList, devices, deviceCount, usbDevices>>
  BY DEF D!Start, D!Running
<1>2. Done' = Done
  BY <1>1 DEF Done, Pairs
<1>3. PairsFound'
  BY <1>1, <1>2, PairsFoundKept DEF SearchInv
<1>4. SearchTypes' /\ NotInside' /\ FirstHasSerial' /\ HandedOut'
  BY <1>1 DEF SearchInv, SearchTypes, NotInside, FirstHasSerial, HandedOut, InPair, Pairs
<1> QED  BY <1>3, <1>4 DEF SearchInv

LEMMA SearchStart == D!Init => SearchInv
<1> SUFFICES ASSUME D!Init PROVE SearchInv
  OBVIOUS
<1>1. /\ variant \in {"hidapi", "hidraw"} /\ list \in Lists /\ deviceCount = 0
      /\ deviceList = IF variant = "hidapi" THEN 1 ELSE Len(list)
      /\ variant = "hidraw" => D!Whole(list) /\ \A i \in 1 .. Len(list) : list[i].itf \in {0, 1}
      /\ result = -3
      /\ devices = [i \in 0 .. Supported |->
                      [PathInterface0 |-> D!None, PathInterface1 |-> D!None,
                       SerialNumber |-> NoSerial, zeros |-> {}]]
  BY DEF D!Init, D!Idle
<1>2. SearchTypes
  <2>1. D!None \in Paths
    BY DEF D!None, Paths
  <2>2. NoSerial \in Serials /\ {} \in SUBSET Nat
    BY DEF Serials
  <2>3. [PathInterface0 |-> D!None, PathInterface1 |-> D!None,
         SerialNumber |-> NoSerial, zeros |-> {}] \in Devices
    BY <2>1, <2>2 DEF Devices
  <2>4. devices \in [0 .. Supported -> Devices]
    BY <1>1, <2>3
  <2> QED  BY <1>1, <2>4, UsbAssumption DEF SearchTypes
<1>3. Len(list) \in Nat /\ \A i \in Pairs : i \in 1 .. Len(list) - 1
  BY <1>2, ListFacts, PairFacts
<1>4. Done = {}
  BY <1>1, <1>3 DEF Done
<1>5. PairsFound
  BY <1>1, <1>4, FS_EmptySet DEF PairsFound
<1>6. NotInside
  BY <1>1, <1>3 DEF NotInside
<1>7. FirstHasSerial /\ HandedOut
  BY <1>1 DEF FirstHasSerial, HandedOut
<1> QED  BY <1>2, <1>5, <1>6, <1>7 DEF SearchInv

LEMMA SearchNext == SearchInv /\ [UsbNext]_usbVars => SearchInv'
<1> SUFFICES ASSUME SearchInv, [UsbNext]_usbVars PROVE SearchInv'
  OBVIOUS
<1>1. CASE UNCHANGED search
  <2>1. UNCHANGED <<variant, list, deviceList, devices, deviceCount, result, usbDevices>>
    BY <1>1 DEF search
  <2>2. Done' = Done /\ D!Found' = D!Found
    BY <2>1 DEF Done, Pairs, D!Found
  <2>3. PairsFound'
    BY <2>1, <2>2, PairsFoundKept DEF SearchInv
  <2>4. SearchTypes' /\ NotInside' /\ FirstHasSerial' /\ HandedOut'
    BY <2>1, <2>2 DEF SearchInv, SearchTypes, NotInside, FirstHasSerial, HandedOut, InPair, Pairs
  <2> QED  BY <2>3, <2>4 DEF SearchInv
<1>2. CASE D!Next
  BY <1>2, StartStep, FindPairStep, FindHalfStep, SkipStep, PairNodesStep, ReturnStep DEF D!Next
<1> QED  BY <1>1, <1>2 DEF UsbNext, Searching, Using, usbVars

\* At the end every bridge of the list was found.
LEMMA AllFound ==
  ASSUME SearchInv, result > 0
  PROVE  \A j \in 1 .. Len(list) : list[j].itf \in {0, 1} => {j - 1, j} \cap Done # {}
<1>1. /\ SearchTypes /\ NotInside /\ Len(list) \in Nat
      /\ variant = "hidapi" => deviceList = Len(list) + 1
      /\ variant = "hidraw" => deviceCount = Len(list) \div 2
      /\ \A i \in Pairs : i \in 1 .. Len(list) - 1
  BY ListFacts, PairFacts DEF SearchInv, HandedOut
<1>2. CASE variant = "hidapi"
  <2>1. Done = Pairs
    BY <1>1, <1>2 DEF Done
  <2>2. \A j \in 1 .. Len(list) : list[j].itf \in {0, 1} => InPair(j)
    BY <1>1, <1>2 DEF NotInside
  <2> QED  BY <2>1, <2>2 DEF InPair
<1>3. CASE variant = "hidraw"
  <2>1. \A j \in 1 .. Len(list) : InPair(j)
    BY <1>1, <1>3, NodesPaired DEF NotInside
  <2>2. /\ deviceList = Len(list) - 2 * (Len(list) \div 2)
        /\ deviceList \in Nat /\ deviceList \notin Pairs
    BY <1>1, <1>3 DEF NotInside
  <2>3. deviceList = 0 \/ (deviceList = 1 /\ 1 \in 1 .. Len(list))
    <3>1. PICK n \in Nat : n = Len(list)
      BY <1>1
    <3>2. PICK h \in Nat : h = n \div 2 /\ 2 * h <= n /\ n <= 2 * h + 1
      <4>1. n \div 2 \in Nat /\ 2 * (n \div 2) <= n /\ n <= 2 * (n \div 2) + 1
        OBVIOUS
      <4> QED  BY <4>1
    <3>3. deviceList = n - 2 * h
      BY <2>2, <3>1, <3>2
    <3> QED  BY <3>1, <3>2, <3>3
  <2>4. deviceList # 1
    BY <1>1, <2>1, <2>2, <2>3 DEF InPair
  <2>5. Done = Pairs
    BY <1>1, <1>3, <2>3, <2>4 DEF Done
  <2> QED  BY <2>1, <2>5 DEF InPair
<1> QED  BY <1>1, <1>2, <1>3 DEF SearchTypes

LEMMA HandsOutPairs == SearchInv => PathsMatch
<1> SUFFICES ASSUME SearchInv, result > 0
             PROVE  /\ \A i \in DOMAIN usbDevices :
                         /\ usbDevices[i].PathInterface0.dev = usbDevices[i].PathInterface1.dev
                         /\ {usbDevices[i].PathInterface0.itf, usbDevices[i].PathInterface1.itf} = {0, 1}
                         /\ variant = "hidapi" => usbDevices[i].PathInterface0.itf = 0
                    /\ \A b \in {list[i].dev : i \in {j \in 1 .. Len(list) : list[j].itf \in {0, 1}}} :
                         \E i \in DOMAIN usbDevices :
                           /\ usbDevices[i].PathInterface0.dev = b
                           /\ \A j \in DOMAIN usbDevices \ {i} : usbDevices[j].PathInterface0.dev # b
  BY DEF PathsMatch, D!PathsMatch
<1>1. /\ SearchTypes /\ PairsFound /\ usbDevices = D!Found /\ deviceCount \in 0 .. Supported
      /\ devices \in [0 .. Supported -> Devices] /\ Supported \in Nat
  BY ListFacts DEF SearchInv, HandedOut, SearchTypes
<1>2. /\ DOMAIN usbDevices = 1 .. deviceCount
      /\ \A i \in 1 .. deviceCount :
           /\ usbDevices[i].PathInterface0 = devices[i - 1].PathInterface0
           /\ usbDevices[i].PathInterface1 = devices[i - 1].PathInterface1
  <2>1. usbDevices = [i \in 1 .. deviceCount |->
                        [devices[i - 1] EXCEPT !.SerialNumber = devices[0].SerialNumber,
                                               !.zeros = devices[0].zeros]]
    BY <1>1 DEF D!Found
  <2>2. \A i \in 1 .. deviceCount : devices[i - 1] \in Devices
    BY <1>1
  <2> QED  BY <2>1, <2>2 DEF Devices
<1>3. \A i \in 1 .. deviceCount : \E n \in Done : PairAt(devices[i - 1], n)
  <2>1. \A i \in 1 .. deviceCount : i - 1 \in 0 .. deviceCount - 1
    BY <1>1
  <2> QED  BY <1>1, <2>1 DEF PairsFound
<1>4. ASSUME NEW d, NEW n \in Done, PairAt(d, n)
      PROVE  /\ d.PathInterface0.dev = list[n].dev /\ d.PathInterface1.dev = list[n].dev
             /\ {d.PathInterface0.itf, d.PathInterface1.itf} = {0, 1}
             /\ variant = "hidapi" => d.PathInterface0.itf = 0
  <2>1. /\ list[n].dev = list[n + 1].dev /\ {list[n].itf, list[n + 1].itf} = {0, 1}
        /\ {d.PathInterface0, d.PathInterface1} = {list[n], list[n + 1]}
        /\ variant = "hidapi" => d.PathInterface0.itf = 0
    BY <1>1, <1>4, DoneFinite, PairFacts DEF PairAt
  <2>2. \/ d.PathInterface0 = list[n] /\ d.PathInterface1 = list[n + 1]
        \/ d.PathInterface0 = list[n + 1] /\ d.PathInterface1 = list[n]
    BY ONLY <2>1
  <2> QED  BY <2>1, <2>2
<1>5. \A i \in DOMAIN usbDevices :
        /\ usbDevices[i].PathInterface0.dev = usbDevices[i].PathInterface1.dev
        /\ {usbDevices[i].PathInterface0.itf, usbDevices[i].PathInterface1.itf} = {0, 1}
        /\ variant = "hidapi" => usbDevices[i].PathInterface0.itf = 0
  BY <1>2, <1>3, <1>4
<1>6. ASSUME NEW m \in 1 .. Len(list), list[m].itf \in {0, 1}
      PROVE  \E i \in DOMAIN usbDevices :
               /\ usbDevices[i].PathInterface0.dev = list[m].dev
               /\ \A j \in DOMAIN usbDevices \ {i} : usbDevices[j].PathInterface0.dev # list[m].dev
  <2>1. PICK n \in Done : n = m \/ n + 1 = m
    <3>1. PICK n \in Done : n \in {m - 1, m}
      BY <1>6, AllFound
    <3> QED  BY <3>1
  <2>2. n \in Pairs /\ list[n].dev = list[m].dev
    BY <1>1, <2>1, DoneFinite, PairFacts
  <2>3. PICK k \in 0 .. deviceCount - 1 : PairAt(devices[k], n)
    BY <1>1 DEF PairsFound
  <2>4. k + 1 \in 1 .. deviceCount /\ usbDevices[k + 1].PathInterface0.dev = list[m].dev
    <3>1. k + 1 \in 1 .. deviceCount /\ (k + 1) - 1 = k
      BY <1>1
    <3> QED  BY <1>2, <1>4, <2>2, <2>3, <3>1
  <2>5. ASSUME NEW j \in 1 .. deviceCount, j # k + 1, usbDevices[j].PathInterface0.dev = list[m].dev
        PROVE  FALSE
    <3>1. PICK o \in Done : PairAt(devices[j - 1], o)
      BY <1>3
    <3>2. list[o].dev = list[n].dev /\ o \in Pairs
      <4>1. devices[j - 1].PathInterface0.dev = list[o].dev
        BY <1>4, <3>1
      <4>2. devices[j - 1].PathInterface0 = usbDevices[j].PathInterface0
        BY <1>2
      <4> QED  BY <1>1, <2>2, <2>5, <4>1, <4>2, DoneFinite
    <3>3. o = n
      BY <1>1, <2>2, <3>2, OnePair
    <3>4. j - 1 \in 0 .. deviceCount - 1
      BY <1>1
    <3>5. j - 1 = k
      BY <1>1, <2>3, <3>1, <3>3, <3>4 DEF PairsFound
    <3> QED  BY <2>5, <3>5
  <2>6. \A j \in DOMAIN usbDevices \ {k + 1} : usbDevices[j].PathInterface0.dev # list[m].dev
    BY <1>2, <2>5
  <2>7. k + 1 \in DOMAIN usbDevices
    BY <1>2, <2>4
  <2> QED  BY <2>4, <2>6, <2>7
<1>7. ASSUME NEW b \in {list[i].dev : i \in {j \in 1 .. Len(list) : list[j].itf \in {0, 1}}}
      PROVE  \E i \in DOMAIN usbDevices :
               /\ usbDevices[i].PathInterface0.dev = b
               /\ \A j \in DOMAIN usbDevices \ {i} : usbDevices[j].PathInterface0.dev # b
  BY <1>6
<1> QED  BY <1>5, <1>7

LEMMA HandsOutSerial == SearchInv => FirstSerial
<1> SUFFICES ASSUME SearchInv, variant = "hidapi", result > 0,
                    \A i \in 1 .. Len(list) : Serial[list[i].dev] # NoSerial
             PROVE  /\ usbDevices[1].SerialNumber = Serial[usbDevices[1].PathInterface0.dev]
                    /\ usbDevices[1].zeros = {}
  BY DEF FirstSerial, D!FirstSerial
<1>1. /\ usbDevices = D!Found /\ deviceCount > 0 /\ FirstHasSerial
      /\ devices[0] \in Devices /\ 1 \in 1 .. deviceCount
  BY ListFacts DEF SearchInv, HandedOut, SearchTypes
<1>2. usbDevices[1] = [devices[0] EXCEPT !.SerialNumber = devices[0].SerialNumber,
                                         !.zeros = devices[0].zeros]
  <2>1. \A i \in 1 .. deviceCount :
          usbDevices[i] = [devices[i - 1] EXCEPT !.SerialNumber = devices[0].SerialNumber,
                                                 !.zeros = devices[0].zeros]
    BY <1>1 DEF D!Found
  <2>2. 1 - 1 = 0
    OBVIOUS
  <2> QED  BY <1>1, <2>1, <2>2
<1> QED  BY <1>1, <1>2 DEF Devices, FirstHasSerial

\* Whatever the list and however many bridges are in it: the devices handed out are
\* the bridges, each with its own two paths (ft260.c:18-101).
THEOREM PathsMatchHolds == UsbSpec => []PathsMatch
<1>1. UsbInit => SearchInv
  BY SearchStart DEF UsbInit
<1> QED  BY <1>1, SearchNext, HandsOutPairs, PTL DEF UsbSpec

\* The first of them has the serial number it reports.
THEOREM FirstSerialHolds == UsbSpec => []FirstSerial
<1>1. UsbInit => SearchInv
  BY SearchStart DEF UsbInit
<1> QED  BY <1>1, SearchNext, HandsOutSerial, PTL DEF UsbSpec
=============================================================================
