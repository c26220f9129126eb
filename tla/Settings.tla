------------------------------ MODULE Settings ------------------------------
(***************************************************************************)
(* What a session promises about the settings of the banks, whatever is    *)
(* exchanged for it: a bank uses what it was offered as a whole, and what  *)
(* the host shows as valid is what the bank uses.  Nothing is promised of  *)
(* a bank the application is excused for: one it did not wait for.         *)
(***************************************************************************)
CONSTANTS Banks, Images

VARIABLES
  used,      (* the settings a bank uses                                     *)
  offered,   (* the settings the application gave it                         *)
  shown,     (* the settings of a bank the host calls valid: none or one     *)
  excused    (* the banks nothing is promised of                             *)

vars == <<used, offered, shown, excused>>

Init ==
  /\ used \in [Banks -> Images]
  /\ offered = [p \in Banks |-> {used[p]}]
  /\ shown = [p \in Banks |-> {}]
  /\ excused = {}

\* A connection is opened or closed, or the settings are asked for again.
Forget ==
  /\ UNCHANGED <<used, offered, excused>>
  /\ \E S \in SUBSET Banks : shown' = [p \in Banks |-> IF p \in S THEN {} ELSE shown[p]]

\* The application gives a bank new settings, in time or not.
Offer ==
  /\ UNCHANGED used
  /\ \E p \in Banks, image \in Images :
       /\ offered' = [offered EXCEPT ![p] = @ \cup {image}]
       /\ shown' = [shown EXCEPT ![p] = {}]
       /\ excused' \in {excused, excused \cup {p}}

\* A bank begins to use other settings, but none that are shown.
Store ==
  /\ UNCHANGED <<offered, shown, excused>>
  /\ \E p \in Banks :
       /\ shown[p] = {}
       /\ p \notin excused => used'[p] \in offered[p]
       /\ used' = [used EXCEPT ![p] = used'[p]]

\* The host has read or written the settings of a bank.
Show ==
  /\ UNCHANGED <<used, offered, excused>>
  /\ \E p \in Banks \ excused : shown' = [shown EXCEPT ![p] = {used[p]}]

\* The application does not wait for the end of an exchange.
Misuse ==
  /\ UNCHANGED <<used, offered>>
  /\ excused' = Banks /\ shown' = [p \in Banks |-> {}]

\* The chain is identified: what was promised holds again.
Renew ==
  /\ excused' = {} /\ shown' = [p \in Banks |-> {}]
  /\ offered' = [p \in Banks |-> offered[p] \cup {used[p]}]
  /\ UNCHANGED used

Next == Forget \/ Offer \/ Store \/ Show \/ Misuse \/ Renew

Spec == Init /\ [][Next]_vars
=============================================================================
