--------------------------------- MODULE Jni ---------------------------------
(***************************************************************************)
(* What threads of Java share in the library although each of them uses    *)
(* devices of its own: the CRC table, without a lock, and envInfos, with   *)
(* one.  deviceInfos[n] is shared, too, when two threads use device n: it  *)
(* has no lock, and the code promises nothing about it.                    *)
(***************************************************************************)
EXTENDS Crc8, EnvInfos

Init == CrcInit /\ EnvInit

\* A thread receives frames in ProcessIncomingData, or copies a record of a device
\* to Java or back.
Next ==
  \/ \E t \in Threads : at[t] = "none" /\ CalcCRC8(t) /\ UNCHANGED envVars
  \/ \E t \in Threads : calc[t] = "none" /\ getEnvInfo(t) /\ UNCHANGED crcVars
  \/ Settle /\ UNCHANGED envVars

Spec == Init /\ [][Next]_<<crcVars, envVars>>
=============================================================================
