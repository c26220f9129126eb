------------------------------ MODULE EnvInfos ------------------------------
(***************************************************************************)
(* JavaEnvInfo::getEnvInfo: every thread of Java that calls the library    *)
(* gets an entry of its own, created by its first call and kept in a map   *)
(* all threads share.  The map is not made for threads: an insertion works *)
(* on what was in it when it began.                                        *)
(***************************************************************************)
EXTENDS JavaThreads, Integers

VARIABLES
  mtx,        (* the threads that hold the mutex                              *)
  envInfos,   (* thread -> its entry: which of those made for it, 0 for none  *)
  at,         (* where in getEnvInfo a thread is, "none" when it is not       *)
  met,        (* the map as it was when the thread's insertion began          *)
  ret,        (* the entry it was given last                                  *)
  made        (* how many entries were made for it                            *)

envVars == <<mtx, envInfos, at, met, ret, made>>

NoEntries == [t \in Threads |-> 0]

EnvInit ==
  /\ mtx = {} /\ envInfos = NoEntries
  /\ at = [t \in Threads |-> "none"] /\ met = [t \in Threads |-> NoEntries]
  /\ ret = NoEntries /\ made = NoEntries

Enter(t) ==
  /\ at[t] = "none" /\ at' = [at EXCEPT ![t] = "lock"]
  /\ UNCHANGED <<mtx, envInfos, met, ret, made>>

Locked_ignored(t) == FALSE
Locked(t) == mtx # {}

Lock(t) ==
  /\ at[t] = "lock" /\ ~Locked(t)
  /\ mtx' = mtx \cup {t} /\ at' = [at EXCEPT ![t] = "find"]
  /\ UNCHANGED <<envInfos, met, ret, made>>

Find(t) ==
  /\ at[t] = "find"
  /\ IF envInfos[t] # 0
     THEN /\ ret' = [ret EXCEPT ![t] = envInfos[t]]
          /\ at' = [at EXCEPT ![t] = "unlock"]
     ELSE at' = [at EXCEPT ![t] = "make"] /\ UNCHANGED ret
  /\ UNCHANGED <<mtx, envInfos, met, made>>

Make(t) ==
  /\ at[t] = "make" /\ at' = [at EXCEPT ![t] = "insert"]
  /\ made' = [made EXCEPT ![t] = @ + 1]
  /\ met' = [met EXCEPT ![t] = envInfos]
  /\ UNCHANGED <<mtx, envInfos, ret>>

Insert(t) ==
  /\ at[t] = "insert" /\ at' = [at EXCEPT ![t] = "unlock"]
  /\ envInfos' = [met[t] EXCEPT ![t] = made[t]]
  /\ met' = [met EXCEPT ![t] = NoEntries]
  /\ ret' = [ret EXCEPT ![t] = made[t]]
  /\ UNCHANGED <<mtx, made>>

Unlock(t) ==
  /\ at[t] = "unlock" /\ at' = [at EXCEPT ![t] = "none"]
  /\ mtx' = mtx \ {t}
  /\ UNCHANGED <<envInfos, met, ret, made>>

getEnvInfo(t) == Enter(t) \/ Lock(t) \/ Find(t) \/ Make(t) \/ Insert(t) \/ Unlock(t)

-----------------------------------------------------------------------------
\* For a thread one entry is made at most, and it is the one the thread gets each
\* time and finds in the map again; no two threads' first calls, at once, lose
\* one of them (neoRADIO2_jni.cpp:63-83).
EnvOnce ==
  \A t \in Threads :
    /\ made[t] <= 1
    /\ at[t] = "none" => ret[t] = made[t] /\ envInfos[t] = made[t]
=============================================================================
