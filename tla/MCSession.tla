------------------------------ MODULE MCSession ------------------------------
EXTENDS Session, TLC

\* Types as in neoRADIO2GetDeviceNumberOfBanks, with 2 for its 8: device 0 has
\* two banks, device 1 has one, and no type is that of a zeroed ChipInfo.
MCBanksOf == (0 :> 2) @@ (1 :> 2) @@ (2 :> 1)
MCChain == (0 :> 1) @@ (1 :> 2)
MCIdentOrder == <<<<1, 0>>, <<0, 1>>, <<0, 0>>>>
\* The parts of a written image differ.
MCImages == {ZeroImage, [k \in Parts |-> k + 1]}

Budget(connects, requests, edits, losses, early) ==
  [connects |-> connects, requests |-> requests, edits |-> edits, losses |-> losses,
   early |-> early]
\* One connection with much to do, two with less to do and a loss, two with two
\* edits, one with edits and a call that come too early, and two with a call that
\* comes too early.
MCBudgets == {Budget(1, 2, 2, 0, 0), Budget(2, 1, 1, 1, 0), Budget(2, 0, 2, 0, 0),
              Budget(1, 0, 2, 0, 1), Budget(2, 1, 0, 0, 1),
              Budget(2, 0, 1, 0, 1)}
MCOnce == {Budget(1, 1, 1, 0, 0)}

MCLastBank == {<<1, 0>>}
=============================================================================
