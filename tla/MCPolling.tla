------------------------------ MODULE MCPolling ------------------------------
EXTENDS Polling, TLC

\* A DIO with one input and one output, and an AIN.
MCTypes == (0 :> "DIO") @@ (1 :> "AIN")
MCBanksOf == ("DIO" :> 2) @@ ("AIN" :> 1)
Config(rate, c1, c2) ==
  [poll_rate_ms |-> rate, channel_1_config |-> c1, channel_2_config |-> c2,
   channel_3_config |-> 0]
MCConfigs == {Config(0, 1, 1), Config(1, 1, 0), Config(2, 0, 1), Config(2, 1, 1)}
=============================================================================
