--------------------------------- MODULE Usb ---------------------------------
(***************************************************************************)
(* An application that looks for bridges and, when it finds one, uses it:  *)
(* Discovery first and then Bridge.                                        *)
(***************************************************************************)
EXTENDS Bridge, Sequences, FiniteSets

CONSTANTS Lists, Serial, NoSerial, Supported

VARIABLES variant, list, deviceList, devices, deviceCount, result, usbDevices

search == <<variant, list, deviceList, devices, deviceCount, result, usbDevices>>
usbVars == <<vars, search>>

D == INSTANCE Discovery

\* The application has room for the bridges in the list.
ASSUME UsbAssumption ==
  /\ Supported \in Nat
  /\ \A l \in Lists : D!Enumerated(l) /\ Cardinality(D!PairsOf(l)) <= Supported

UsbInit == Init /\ D!Init

\* FindDevices returns before the application goes on, and the bridge is the one
\* that was found.
Searching == D!Next /\ UNCHANGED vars
Using(A) == result = 1 /\ A /\ UNCHANGED search

UsbNext == Searching \/ Using(Next)

\* Calls that have begun go on.
UsbSpec ==
  /\ UsbInit /\ [][UsbNext]_usbVars
  /\ WF_usbVars(Searching) /\ WF_usbVars(Using(CallStep))

-----------------------------------------------------------------------------
\* The paths of a device are those of the two interfaces of one bridge, see
\* Discovery (ft260.c:25-58, 94-101).
PathsMatch == D!PathsMatch

\* The first device has its own serial number, see Discovery (ft260.c:32-35).
FirstSerial == D!FirstSerial

\* The search ends when the list is whole, see Discovery.
WholeListEnds == D!WholeListEnds

\* neoRAD-IO2.c:14, "returns: Number of devices found": the search ends, see
\* Discovery.
SearchEnds == D!SearchEnds
=============================================================================
