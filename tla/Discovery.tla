------------------------------ MODULE Discovery ------------------------------
(***************************************************************************)
(* neoRADIO2FindDevices: the bridges are found by pairing the two HID      *)
(* interfaces that each of them has.  There are two searches: one through  *)
(* hidapi's list of interfaces, and one through the names of the hidraw    *)
(* nodes on Android.  A path is identified with the interface it leads to. *)
(***************************************************************************)
EXTENDS Integers, Sequences

CONSTANTS
  Lists,      (* the lists of interfaces that may be found; an interface is  *)
              (* a record of its bridge, dev, and its number, itf            *)
  Serial,     (* bridge -> the serial number it reports, or NoSerial         *)
  NoSerial,
  Supported   (* NEORADIO2_MAX_SUPPORTED_USB_DEVICES                         *)

None == [dev |-> NoSerial, itf |-> -1]   \* a path that was not written

VARIABLES
  variant,      (* which search was built: "hidapi" or "hidraw"              *)
  list,         (* what hid_enumerate, or ls, gave                           *)
  deviceList,   (* the element the search is at; past an end stands for NULL *)
  devices, deviceCount,
  result,       (* what neoRADIO2FindDevices returned                        *)
  usbDevices

vars == <<variant, list, deviceList, devices, deviceCount, result, usbDevices>>

\* Of result: not yet called, and not yet returned.
Idle == -3
Running == -2

\* The elements of a list that begin a bridge: its other interface is the next.
PairsOf(l) ==
  {i \in 1 .. Len(l) - 1 :
     l[i].dev = l[i + 1].dev /\ {l[i].itf, l[i + 1].itf} = {0, 1}}

\* No interface 0 or 1 is there twice, and only the last element may lack its
\* other half.
Enumerated(l) ==
  /\ l \in Seq([dev : DOMAIN Serial, itf : Int])
  /\ \A i, j \in 1 .. Len(l) : l[i] = l[j] /\ l[i].itf \in {0, 1} => i = j
  /\ \A i \in 1 .. Len(l) - 1 : l[i].itf \in {0, 1} => {i - 1, i} \cap PairsOf(l) # {}

\* Every bridge in the list has both its interfaces there, side by side.
Whole(l) ==
  \A b \in {l[i].dev : i \in {j \in 1 .. Len(l) : l[j].itf \in {0, 1}}} :
    \E i \in 1 .. Len(l) - 1 :
      l[i].dev = b /\ l[i + 1].dev = b /\ {l[i].itf, l[i + 1].itf} = {0, 1}

\* Of the serial number a ft260_device holds, only whose it is and which characters
\* of it were overwritten with '0' is kept.  The hidraw nodes are those of bridges
\* only: that search looks at nothing but their names.
Init ==
  /\ variant \in {"hidapi", "hidraw"}
  /\ list \in Lists
  /\ variant = "hidraw" => Whole(list) /\ \A i \in 1 .. Len(list) : list[i].itf \in {0, 1}
  /\ deviceList = IF variant = "hidapi" THEN 1 ELSE Len(list)
  /\ devices = [i \in 0 .. Supported |->
                  [PathInterface0 |-> None, PathInterface1 |-> None,
                   SerialNumber |-> NoSerial, zeros |-> {}]]
  /\ deviceCount = 0
  /\ result = Idle
  /\ usbDevices = <<>>

-----------------------------------------------------------------------------
\* hid_init or popen may fail.
Start ==
  /\ result = Idle
  /\ result' \in {Running, IF variant = "hidapi" THEN -1 ELSE 0}
  /\ UNCHANGED <<variant, list, deviceList, devices, deviceCount, usbDevices>>

\* The serial number of interface e goes into the next device.  If e has none,
\* one character of the first device's is overwritten.
TakeSerial_first(e) ==
  [devices EXCEPT ![0].SerialNumber = Serial[e.dev], ![0].zeros = {}]
TakeSerial(e) ==
  IF Serial[e.dev] = NoSerial
  THEN [devices EXCEPT ![0].zeros = @ \cup {deviceCount}]
  ELSE [devices EXCEPT ![deviceCount].SerialNumber = Serial[e.dev],
                       ![deviceCount].zeros = {}]

Last == deviceList = Len(list)

\* An interface 0 or 1 takes the next element for its other half.
Pair_anyOrder(e, next, d) == [d EXCEPT !.PathInterface0 = e, !.PathInterface1 = next]
Pair(e, next, d) ==
  IF e.itf = 0 THEN [d EXCEPT !.PathInterface0 = e, !.PathInterface1 = next]
               ELSE [d EXCEPT !.PathInterface0 = next, !.PathInterface1 = e]

AfterPair_one == deviceList + 1
AfterPair == deviceList + 2

Searching == variant = "hidapi" /\ result = Running /\ deviceList \in 1 .. Len(list)

FindPair ==
  /\ Searching /\ list[deviceList].itf \in {0, 1} /\ ~Last
  /\ devices' = [TakeSerial(list[deviceList]) EXCEPT
                   ![deviceCount] = Pair(list[deviceList], list[deviceList + 1], @)]
  /\ deviceList' = AfterPair
  /\ deviceCount' = deviceCount + 1
  /\ UNCHANGED <<variant, list, result, usbDevices>>

\* The last element is an interface 0 or 1: its path is copied, and the loop does
\* not move on.
FindHalf ==
  LET e == list[deviceList]
  IN  /\ Searching /\ e.itf \in {0, 1} /\ Last
      /\ devices' = [TakeSerial(e) EXCEPT
                       ![deviceCount] = IF e.itf = 0 THEN [@ EXCEPT !.PathInterface0 = e]
                                                     ELSE [@ EXCEPT !.PathInterface1 = e]]
      /\ UNCHANGED <<variant, list, deviceList, deviceCount, result, usbDevices>>

SkipInterface ==
  /\ Searching /\ list[deviceList].itf \notin {0, 1}
  /\ devices' = TakeSerial(list[deviceList])
  /\ deviceList' = deviceList + 1
  /\ UNCHANGED <<variant, list, deviceCount, result, usbDevices>>

\* The search on Android takes the nodes two by two, from the last.
PairNodes ==
  /\ variant = "hidraw" /\ result = Running /\ deviceCount < Len(list) \div 2
  /\ devices' = [devices EXCEPT ![deviceCount].PathInterface0 = list[deviceList],
                                ![deviceCount].PathInterface1 = list[deviceList - 1]]
  /\ deviceList' = deviceList - 2
  /\ deviceCount' = deviceCount + 1
  /\ UNCHANGED <<variant, list, result, usbDevices>>

\* neoRADIO2FindDevices hands out what was found.  Every device gets the serial
\* number of the first.
Found ==
  [i \in 1 .. deviceCount |->
     [devices[i - 1] EXCEPT !.SerialNumber = devices[0].SerialNumber,
                            !.zeros = devices[0].zeros]]

\* hid_enumerate gives NULL for an empty list, which is an error.
Return ==
  /\ result = Running
  /\ \/ variant = "hidapi" /\ deviceList \notin 1 .. Len(list)
     \/ variant = "hidraw" /\ deviceCount = Len(list) \div 2
  /\ IF variant = "hidapi" /\ list = <<>>
     THEN result' = -1 /\ UNCHANGED usbDevices
     ELSE result' = deviceCount /\ usbDevices' = Found
  /\ UNCHANGED <<variant, list, deviceList, devices, deviceCount>>

Next == Start \/ FindPair \/ FindHalf \/ SkipInterface \/ PairNodes \/ Return

-----------------------------------------------------------------------------
Returned == result \notin {Idle, Running}

\* Each device that is handed out has the paths of the two interfaces of one
\* bridge, no bridge is handed out twice, and none is left out, wherever
\* interfaces of no interest stand in the list (ft260.c:25-58, 94-101).
PathsMatch ==
  result > 0 =>
    /\ \A i \in DOMAIN usbDevices :
         /\ usbDevices[i].PathInterface0.dev = usbDevices[i].PathInterface1.dev
         /\ {usbDevices[i].PathInterface0.itf, usbDevices[i].PathInterface1.itf} = {0, 1}
         /\ variant = "hidapi" => usbDevices[i].PathInterface0.itf = 0
    /\ \A b \in {list[i].dev : i \in {j \in 1 .. Len(list) : list[j].itf \in {0, 1}}} :
         \E i \in DOMAIN usbDevices :
           /\ usbDevices[i].PathInterface0.dev = b
           /\ \A j \in DOMAIN usbDevices \ {i} : usbDevices[j].PathInterface0.dev # b

\* On a desktop, when every bridge in the list has a serial number, the first device is handed
\* out with its own, whatever was in the list before and after it (ft260.c:32-35,
\* neoRAD-IO2.c:30-31).
FirstSerial ==
  variant = "hidapi" /\ result > 0 /\ (\A i \in 1 .. Len(list) : Serial[list[i].dev] # NoSerial) =>
    /\ usbDevices[1].SerialNumber = Serial[usbDevices[1].PathInterface0.dev]
    /\ usbDevices[1].zeros = {}

\* The search ends when every bridge in the list has both its interfaces there.
WholeListEnds == Whole(list) ~> Returned

\* neoRAD-IO2.c:14, "returns: Number of devices found": the search ends.
SearchEnds == <>Returned
=============================================================================
