----------------------------- MODULE DurableMap -----------------------------
(***************************************************************************)
(* What a persistent key-value store promises its client, with no buffer,  *)
(* no file and no cache: a map `mem` of the latest write to every key, and *)
(* the part `dur` of it that survives the death of the process.  A write   *)
(* whose value is Absent is a delete.                                      *)
(***************************************************************************)
CONSTANTS Keys, Values, Absent

VARIABLES
  mem,  \* the latest write to each key
  dur   \* what a restart would find

vars == <<mem, dur>>

Stored == Values \cup {Absent}

TypeOK == mem \in [Keys -> Stored] /\ dur \in [Keys -> Stored]

Init == mem = [k \in Keys |-> Absent] /\ dur = mem

(* The map that answers m's value on the keys of K and d's value elsewhere. *)
Mix(m, d, K) == [k \in Keys |-> IF k \in K THEN m[k] ELSE d[k]]

(* A write, after which the store may have made everything durable. *)
Put(k, v) ==
  /\ mem' = [mem EXCEPT ![k] = v]
  /\ dur' \in {dur, mem'}

Sync == dur' = mem /\ UNCHANGED mem

(* The process dies while everything in m was being made durable: for each *)
(* key the old durable value survives, or the latest one, and no third.    *)
LoseUnsynced(m) ==
  \E K \in SUBSET Keys : dur' = Mix(m, dur, K) /\ mem' = dur'

Crash == LoseUnsynced(mem)

CrashInPut(k, v) == LoseUnsynced([mem EXCEPT ![k] = v])

(* Everything durable is dropped; writes not yet durable may stay. *)
Reset ==
  /\ dur' = [k \in Keys |-> Absent]
  /\ \E K \in SUBSET Keys :
       /\ \A k \in Keys : mem[k] # dur[k] => k \in K
       /\ mem' = Mix(mem, dur', K)

(* The process dies in a reset: a key keeps its durable value or loses it, *)
(* it never falls back to one that had been overwritten.                   *)
CrashInReset ==
  \E K \in SUBSET Keys :
    /\ dur' = [k \in Keys |-> IF k \in K THEN dur[k] ELSE Absent]
    /\ mem' = dur'

Next ==
  \/ \E k \in Keys, v \in Stored : Put(k, v) \/ CrashInPut(k, v)
  \/ Sync
  \/ Crash
  \/ Reset
  \/ CrashInReset

Spec == Init /\ [][Next]_vars
=============================================================================
