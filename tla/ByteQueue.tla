------------------------------ MODULE ByteQueue ------------------------------
(***************************************************************************)
(* What the embedded FIFO promises: bounded first-in first-out queues of   *)
(* bytes.  `taken' is what the last reading call handed to its caller.     *)
(***************************************************************************)
EXTENDS Integers, Sequences

CONSTANTS
  Queues,    (* the queues                          *)
  Byte,      (* the values a byte takes             *)
  Capacity   (* Capacity[q]: how many bytes q holds *)

VARIABLES queue, taken

vars == <<queue, taken>>

Init ==
  /\ queue = [q \in Queues |-> <<>>]
  /\ taken = <<>>

\* Bytes are appended, all or none, and never more than there is room for.
Put(q) ==
  \E n \in 0 .. Capacity[q] - Len(queue[q]) : \E bytes \in [1 .. n -> Byte] :
    /\ queue' = [queue EXCEPT ![q] = @ \o bytes]
    /\ UNCHANGED taken

\* The n oldest bytes are handed out and leave the queue.
Get(q) ==
  \E n \in 0 .. Len(queue[q]) :
    /\ taken' = SubSeq(queue[q], 1, n)
    /\ queue' = [queue EXCEPT ![q] = SubSeq(@, n + 1, Len(@))]

Empty(q) ==
  /\ queue' = [queue EXCEPT ![q] = <<>>]
  /\ UNCHANGED taken

\* The n oldest bytes of src move to dst.
Transfer(dst, src) ==
  /\ dst # src
  /\ \E n \in 0 .. Len(queue[src]) :
       /\ Len(queue[dst]) + n <= Capacity[dst]
       /\ queue' = [queue EXCEPT ![dst] = @ \o SubSeq(queue[src], 1, n),
                                 ![src] = SubSeq(@, n + 1, Len(@))]
  /\ UNCHANGED taken

Next ==
  \/ \E q \in Queues : Put(q) \/ Get(q) \/ Empty(q)
  \/ \E dst, src \in Queues : Transfer(dst, src)

Spec == Init /\ [][Next]_vars
=============================================================================
