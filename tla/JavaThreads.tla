----------------------------- MODULE JavaThreads -----------------------------
(***************************************************************************)
(* The threads of Java that call the native library.                       *)
(***************************************************************************)
CONSTANT Threads
=============================================================================
