---------------------------- MODULE TransportFair ----------------------------
(***************************************************************************)
(* Transport on a line without noise or loss, called again and again       *)
(* ("This must be called every 1 ms", neoRAD-IO2.c:116), with USB calls    *)
(* that may fail any number of times but not for ever.                     *)
(***************************************************************************)
EXTENDS Transport

CONSTANT Line   (* the frames the device sends, each a sequence of bytes *)

ASSUME LineAssumption ==
  \A k \in DOMAIN Line :
    Len(Line[k]) >= MinPacket /\ ValidFrameAt(Line[k], 0)

\* The bytes up to the end of frame k.
UpTo[k \in 0 .. Len(Line)] == IF k = 0 THEN <<>> ELSE UpTo[k - 1] \o Line[k]

\* What enters rxfifo continues the line, and all of a report does.
CleanLine ==
  /\ Len(accepted') <= Len(UpTo[Len(Line)])
  /\ accepted' = SubSeq(UpTo[Len(Line)], 1, Len(accepted'))
  /\ ReceiveReport => pc' = "receive"

\* Ticks keep being made and a tick that was started goes on; again and again
\* the read loop ends without an error and a report takes bytes of txfifo.
Fairness ==
  /\ WF_vars(Tick) /\ WF_vars(TransmitNothing) /\ WF_vars(Parse) /\ WF_vars(Dispatch)
  /\ SF_vars(ReceiveNone)
  /\ SF_vars(Transmit /\ wire' # wire)

FairSpec == Init /\ [][Next /\ CleanLine]_vars /\ Fairness

\* Every frame that arrived whole is handed to a handler, though a tick may end
\* early on a USB error after the bytes were taken (neoRAD-IO2.c:123-125).
FramesArrive ==
  \A k \in 1 .. Len(Line) :
    Len(accepted) >= Len(UpTo[k]) ~> Len(handled) >= k

\* Every byte of a packet SendPacket took reaches the device.
PacketsLeave ==
  \A n \in 1 .. MaxTxBytes : Len(queued) >= n ~> Len(wire) >= n
=============================================================================
