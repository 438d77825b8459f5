------------------------- MODULE CacheServerProofs -------------------------
(***************************************************************************)
(* Proofs that the locks of the in-memory server do their work, for any    *)
(* number of connections, keys and values: no concurrent map access, every *)
(* number of a sequence handed out once, statistics that list what they    *)
(* counted.                                                                *)
(***************************************************************************)
EXTENDS CacheServer, FiniteSetTheorems, TLAPS

Labels == {"idle", "rlock", "rwait", "read", "keys", "send", "runlock", "body", "lock",
           "claimed", "write", "result", "unlock", "respond", "dead"}

(* The types the proofs use. *)
Replies == Int \cup {Cardinality(S) : S \in SUBSET Keys}

Locks == [claim : Clients \cup {None}, readers : SUBSET Clients, queued : SUBSET Clients]

Shape ==
  /\ data \in [Keys -> Values \cup {Absent}]
  /\ seq \in [Keys -> Int]
  /\ lock \in [Maps -> Locks]
  /\ pc \in [Clients -> Labels]
  /\ req \in [Clients -> Request \cup {NoRequest}]
  /\ reply \in [Clients -> Replies]
  /\ listed \in [Clients -> SUBSET Keys]
  /\ given \in [Keys -> SUBSET Int]
  /\ \A c \in Clients :
       /\ pc[c] = "result" => req[c].op = "increment"
       /\ pc[c] \in {"keys", "send"} => req[c].op = "stats"

(* What a goroutine's place says of the lock of its map. *)
Claimed(c) == pc[c] \in {"claimed", "write", "result", "unlock"}

ClaimsHeld == \A c \in Clients : Claimed(c) => lock[MapOf(c)].claim = c
ReadersIn == \A c \in Clients : Reading(c) => c \in lock[MapOf(c)].readers
WritersAlone == \A c \in Clients : Writing(c) => lock[MapOf(c)].readers = {}
QueuedWait ==
  \A m \in Maps : \A c \in lock[m].queued : pc[c] \in {"rwait", "dead"} /\ MapOf(c) = m

LockInv == Shape /\ ClaimsHeld /\ ReadersIn /\ WritersAlone /\ QueuedWait
-----------------------------------------------------------------------------
(* Types *)

LEMMA MapOfType == \A c \in Clients : MapOf(c) \in Maps
BY DEF MapOf, Maps

LEMMA InitShape == Init => Shape
BY DEF Init, Shape, Labels, Maps, Locks, Replies

(* A goroutine past the start of a request serves a real one. *)
LEMMA RequestType ==
  ASSUME Shape, NEW c \in Clients, req[c].op # "none"
  PROVE  req[c].key \in Keys /\ req[c].val \in Values
<1>1. req[c] # NoRequest
  BY DEF NoRequest
<1>2. req[c] \in Request
  BY <1>1 DEF Shape
<1> QED BY <1>2 DEF Request

LEMMA NextShape == Shape /\ [Next]_vars => Shape'
<1> SUFFICES ASSUME Shape, [Next]_vars PROVE Shape'
  OBVIOUS
<1>1. ASSUME NEW c \in Clients, NEW r \in Request, Accept(c, r) PROVE Shape'
  BY <1>1 DEF Accept, Shape, Goto, Labels
<1>2. ASSUME NEW c \in Clients,
             RLock(c) \/ RUnlock(c) \/ Claim(c) \/ Lock(c)
      PROVE  Shape'
  <2> DEFINE m == MapOf(c)
  <2>1. m \in Maps /\ lock[m] \in Locks
    BY MapOfType DEF Shape
  <2>2. /\ [lock[m] EXCEPT !.readers = @ \cup {c}] \in Locks
        /\ [lock[m] EXCEPT !.readers = @ \ {c}] \in Locks
        /\ [lock[m] EXCEPT !.queued = @ \cup {c}] \in Locks
        /\ [lock[m] EXCEPT !.claim = c] \in Locks
    BY <2>1 DEF Locks
  <2>3. \/ lock' = lock
        \/ lock' = [lock EXCEPT ![m] = [lock[m] EXCEPT !.readers = @ \cup {c}]]
        \/ lock' = [lock EXCEPT ![m] = [lock[m] EXCEPT !.readers = @ \ {c}]]
        \/ lock' = [lock EXCEPT ![m] = [lock[m] EXCEPT !.queued = @ \cup {c}]]
        \/ lock' = [lock EXCEPT ![m] = [lock[m] EXCEPT !.claim = c]]
    BY <1>2 DEF RLock, RUnlock, Claim, Lock
  <2>4. lock' \in [Maps -> Locks]
    <3> HIDE DEF m
    <3> QED BY <2>1, <2>2, <2>3 DEF Shape
  <2>5. pc' \in [Clients -> Labels]
    BY <1>2 DEF RLock, RUnlock, Claim, Lock, Shape, Goto, Labels
  <2>6. UNCHANGED <<data, seq, req, reply, listed, given>>
    BY <1>2 DEF RLock, RUnlock, Claim, Lock
  <2>7. \A d \in Clients : pc'[d] \in {"result", "keys", "send"} => pc'[d] = pc[d]
    BY <1>2 DEF RLock, RUnlock, Claim, Lock, Shape, Goto
  <2> QED BY <2>4, <2>5, <2>6, <2>7 DEF Shape
<1>3. ASSUME NEW c \in Clients, Unlock(c) PROVE Shape'
  <2> DEFINE m == MapOf(c)
  <2>1. m \in Maps /\ lock[m] \in Locks
    BY MapOfType DEF Shape
  <2>2. [claim |-> None, readers |-> lock[m].readers \cup lock[m].queued, queued |-> {}]
          \in Locks
    BY <2>1 DEF Locks
  <2>3. lock' \in [Maps -> Locks]
    BY <1>3, <2>1, <2>2 DEF Unlock, Shape
  <2>4. /\ pc' \in [Clients -> Labels]
        /\ \A d \in Clients : pc'[d] \in {"respond", "read", pc[d]}
    BY <1>3 DEF Unlock, Shape, Labels
  <2>5. UNCHANGED <<data, seq, req, reply, listed, given>>
    BY <1>3 DEF Unlock
  <2>6. \A d \in Clients :
          /\ pc'[d] = "result" => req[d].op = "increment"
          /\ pc'[d] \in {"keys", "send"} => req[d].op = "stats"
    BY <2>4 DEF Shape
  <2> QED BY <2>3, <2>4, <2>5, <2>6 DEF Shape
<1>4. ASSUME NEW c \in Clients, ReadBody(c) \/ BodyFails(c) PROVE Shape'
  BY <1>4 DEF ReadBody, BodyFails, Shape, Goto, Labels
<1>5. ASSUME NEW c \in Clients, Get(c) \/ Set(c) \/ Delete(c) PROVE Shape'
  <2>1. CASE Get(c)  BY <2>1 DEF Get, Shape, Goto, Labels
  <2>2. CASE Set(c)
    <3>1. req[c].val \in Values
      BY <2>2, RequestType DEF Set
    <3> QED BY <2>2, <3>1 DEF Set, Shape, Goto, Labels
  <2>3. CASE Delete(c)  BY <2>3 DEF Delete, Shape, Goto, Labels
  <2> QED BY <1>5, <2>1, <2>2, <2>3
<1>6. ASSUME NEW c \in Clients, Increment(c) PROVE Shape'
  <2>1. req[c].key \in Keys
    BY <1>6, RequestType DEF Increment
  <2> QED BY <1>6, <2>1 DEF Increment, Shape, Goto, Labels
<1>7. ASSUME NEW c \in Clients, Result(c) PROVE Shape'
  <2> DEFINE k == req[c].key
  <2>1. k \in Keys
    <3>1. req[c].op # "none"
      BY <1>7 DEF Result, Shape
    <3> QED BY <3>1, RequestType
  <2>2. seq[k] \in Int /\ seq[k] \in Replies
    BY <2>1 DEF Shape, Replies
  <2>3. given[k] \cup {seq[k]} \in SUBSET Int
    BY <2>1, <2>2 DEF Shape
  <2> HIDE DEF k
  <2>4. /\ reply' = [reply EXCEPT ![c] = seq[k]]
        /\ given' = [given EXCEPT ![k] = given[k] \cup {seq[k]}]
        /\ pc' = [pc EXCEPT ![c] = "unlock"]
        /\ UNCHANGED <<data, seq, lock, req, listed>>
    BY <1>7 DEF Result, Goto, k
  <2> QED BY <2>1, <2>2, <2>3, <2>4 DEF Shape, Labels
<1>8. ASSUME NEW c \in Clients, SeqDelete(c) PROVE Shape'
  <2>1. req[c].key \in Keys
    BY <1>8, RequestType DEF SeqDelete
  <2> QED BY <1>8, <2>1 DEF SeqDelete, Shape, Goto, Labels
<1>9. ASSUME NEW c \in Clients, Respond(c) PROVE Shape'
  BY <1>9 DEF Respond, Shape, Goto, Labels, Replies
<1>10. ASSUME NEW c \in Clients,
              StatsCount(c) \/ StatsCollect(c) \/ StatsCollected(c) \/ StatsSend(c)
       PROVE  Shape'
  <2>1. Present \in SUBSET Keys /\ Cardinality(Present) \in Replies
    BY DEF Present, Replies
  <2>2. CASE StatsCount(c)  BY <2>1, <2>2 DEF StatsCount, Shape, Goto, Labels
  <2>3. CASE StatsCollect(c)  BY <2>1, <2>3 DEF StatsCollect, Shape
  <2>4. CASE StatsCollected(c)  BY <2>4 DEF StatsCollected, Shape, Goto, Labels
  <2>5. CASE StatsSend(c)  BY <2>5 DEF StatsSend, Shape, Goto, Labels
  <2> QED BY <1>10, <2>2, <2>3, <2>4, <2>5
<1>11. CASE UNCHANGED vars
  BY <1>11 DEF vars, Shape
<1> QED BY <1>1, <1>2, <1>3, <1>4, <1>5, <1>6, <1>7, <1>8, <1>9, <1>10, <1>11 DEF Next, Step

(* Every reachable state is well typed, with no bound on the numbers of a  *)
(* sequence, and a goroutine in the middle of a handler serves a request   *)
(* of that handler (types.go:39-75, sparkv.go:40-56).                     *)
THEOREM ServerTyping == Spec => []Shape
<1> QED BY InitShape, NextShape, PTL DEF Spec
-----------------------------------------------------------------------------
(* Mutual exclusion *)

LEMMA Exclusion ==
  ASSUME LockInv, NEW c \in Clients, NEW d \in Clients, c # d, MapOf(c) = MapOf(d),
         Claimed(c)
  PROVE  ~Claimed(d) /\ (Writing(c) => ~Reading(d))
BY DEF LockInv, ClaimsHeld, ReadersIn, WritersAlone

(* A step of c that leaves the locks alone keeps the invariant when it     *)
(* does not enter a critical section.                                      *)
LEMMA QuietStep ==
  ASSUME LockInv, NEW c \in Clients, UNCHANGED lock,
         pc[c] \notin {"rwait", "dead"},
         \A d \in Clients \ {c} : pc'[d] = pc[d] /\ req'[d] = req[d],
         Claimed(c)' \/ Reading(c)' => req'[c] = req[c],
         Claimed(c)' => Claimed(c),
         Reading(c)' => Reading(c),
         Writing(c)' => Writing(c) \/ lock[MapOf(c)].readers = {}
  PROVE  ClaimsHeld' /\ ReadersIn' /\ WritersAlone' /\ QueuedWait'
<1>1. ClaimsHeld'
  BY DEF LockInv, ClaimsHeld, Claimed, MapOf
<1>2. ReadersIn'
  BY DEF LockInv, ReadersIn, Reading, MapOf
<1>3. WritersAlone'
  BY DEF LockInv, WritersAlone, Writing, Claimed, MapOf
<1>4. QueuedWait'
  <2> SUFFICES ASSUME NEW m \in Maps, NEW d \in lock[m].queued
               PROVE  pc'[d] \in {"rwait", "dead"} /\ MapOf(d)' = m
    BY DEF QueuedWait
  <2>1. d \in Clients
    BY DEF LockInv, Shape, Locks
  <2>2. pc[d] \in {"rwait", "dead"} /\ MapOf(d) = m
    BY DEF LockInv, QueuedWait
  <2> QED BY <2>1, <2>2 DEF MapOf
<1> QED BY <1>1, <1>2, <1>3, <1>4

LEMMA LockStep == LockInv /\ [Next]_vars => LockInv'
<1> SUFFICES ASSUME LockInv, [Next]_vars
             PROVE  ClaimsHeld' /\ ReadersIn' /\ WritersAlone' /\ QueuedWait'
  BY NextShape DEF LockInv
<1>1. ASSUME NEW c \in Clients,
             \/ \E r \in Request : Accept(c, r)
             \/ ReadBody(c) \/ Lock(c) \/ Get(c) \/ Set(c) \/ Delete(c)
             \/ Increment(c) \/ Result(c) \/ SeqDelete(c) \/ Respond(c)
             \/ StatsCount(c) \/ StatsCollect(c) \/ StatsCollected(c) \/ StatsSend(c)
      PROVE  ClaimsHeld' /\ ReadersIn' /\ WritersAlone' /\ QueuedWait'
  <2>1. UNCHANGED lock /\ pc[c] \notin {"rwait", "dead"}
    BY <1>1 DEF Accept, ReadBody, Lock, Get, Set, Delete, Increment, Result, SeqDelete,
                Respond, StatsCount, StatsCollect, StatsCollected, StatsSend
  <2>2. \A d \in Clients \ {c} : pc'[d] = pc[d] /\ req'[d] = req[d]
    BY <1>1 DEF Accept, ReadBody, Lock, Get, Set, Delete, Increment, Result, SeqDelete,
                Respond, StatsCount, StatsCollect, StatsCollected, StatsSend, Goto,
                LockInv, Shape
  <2>3. pc \in [Clients -> Labels]
    BY DEF LockInv, Shape
  <2>4. /\ Claimed(c)' => Claimed(c)
        /\ Reading(c)' => Reading(c)
        /\ Writing(c)' => Writing(c) \/ lock[MapOf(c)].readers = {}
    BY <1>1, <2>3 DEF Accept, ReadBody, Lock, Get, Set, Delete, Increment, Result,
         SeqDelete, Respond, StatsCount, StatsCollect, StatsCollected, StatsSend, Goto,
         Claimed, Reading, Writing
  <2>5. Claimed(c)' \/ Reading(c)' => req'[c] = req[c]
    BY <1>1, <2>3 DEF Accept, ReadBody, Lock, Get, Set, Delete, Increment, Result,
         SeqDelete, Respond, StatsCount, StatsCollect, StatsCollected, StatsSend, Goto,
         Claimed, Reading
  <2> QED BY <2>1, <2>2, <2>4, <2>5, QuietStep
<1>2. ASSUME NEW c \in Clients, RLock(c)
      PROVE  ClaimsHeld' /\ ReadersIn' /\ WritersAlone' /\ QueuedWait'
  <2> DEFINE m == MapOf(c)
  <2>0. m \in Maps /\ lock \in [Maps -> Locks] /\ pc \in [Clients -> Labels]
    BY MapOfType DEF LockInv, Shape
  <2>1. \A d \in Clients : MapOf(d)' = MapOf(d) /\ MapOf(d) \in Maps
    BY <1>2, MapOfType DEF RLock, MapOf
  <2>2. \A n \in Maps : lock'[n].claim = lock[n].claim
    BY <1>2, <2>0 DEF RLock, Locks
  <2>3. pc[c] = "rlock" /\ pc' = [pc EXCEPT ![c] = pc'[c]] /\ pc'[c] \in {"read", "rwait"}
    BY <1>2, <2>0 DEF RLock, Goto
  <2>4. \A n \in Maps : lock[n].readers \subseteq lock'[n].readers
    BY <1>2, <2>0 DEF RLock, Locks
  <2>5. pc'[c] = "read" => c \in lock'[m].readers /\ lock[m].claim = None
    BY <1>2, <2>0 DEF RLock, Goto, Locks
  <2>6. \A n \in Maps : n # m \/ lock[m].claim # None => lock'[n].readers = lock[n].readers
    BY <1>2, <2>0 DEF RLock, Locks
  <2>7. \A n \in Maps : \A d \in lock'[n].queued :
          d \in lock[n].queued \/ (d = c /\ n = m /\ pc'[c] = "rwait")
    BY <1>2, <2>0 DEF RLock, Locks, Goto
  <2>8. ClaimsHeld'
    BY <2>0, <2>1, <2>2, <2>3 DEF LockInv, ClaimsHeld, Claimed
  <2>9. ReadersIn'
    BY <2>0, <2>1, <2>3, <2>4, <2>5 DEF LockInv, ReadersIn, Reading
  <2>10. WritersAlone'
    <3> SUFFICES ASSUME NEW d \in Clients, Writing(d)' PROVE lock'[MapOf(d)'].readers = {}
      BY DEF WritersAlone
    <3>1. Writing(d) /\ Claimed(d) /\ d # c
      BY <2>0, <2>3 DEF Writing, Claimed
    <3>2. lock[MapOf(d)].claim = d /\ lock[MapOf(d)].readers = {} /\ d # None
      BY <3>1, NamesAssumption DEF LockInv, ClaimsHeld, WritersAlone
    <3> QED BY <3>2, <2>1, <2>6
  <2>11. QueuedWait'
    BY <2>0, <2>1, <2>3, <2>7 DEF LockInv, QueuedWait, Locks
  <2> QED BY <2>8, <2>9, <2>10, <2>11
<1>3. ASSUME NEW c \in Clients, RUnlock(c)
      PROVE  ClaimsHeld' /\ ReadersIn' /\ WritersAlone' /\ QueuedWait'
  <2> DEFINE m == MapOf(c)
  <2>0. m \in Maps /\ lock \in [Maps -> Locks] /\ pc \in [Clients -> Labels]
    BY MapOfType DEF LockInv, Shape
  <2>1. \A d \in Clients : MapOf(d)' = MapOf(d) /\ MapOf(d) \in Maps
    BY <1>3, MapOfType DEF RUnlock, MapOf
  <2>2. \A n \in Maps : /\ lock'[n].claim = lock[n].claim
                        /\ lock'[n].queued = lock[n].queued
                        /\ lock'[n].readers \in {lock[n].readers, lock[n].readers \ {c}}
    BY <1>3, <2>0 DEF RUnlock, Locks
  <2>3. pc[c] = "runlock" /\ pc' = [pc EXCEPT ![c] = "respond"]
    BY <1>3 DEF RUnlock, Goto
  <2>4. ClaimsHeld'
    BY <2>0, <2>1, <2>2, <2>3 DEF LockInv, ClaimsHeld, Claimed
  <2>5. ReadersIn'
    BY <2>0, <2>1, <2>2, <2>3 DEF LockInv, ReadersIn, Reading
  <2>6. WritersAlone'
    BY <2>0, <2>1, <2>2, <2>3 DEF LockInv, WritersAlone, Writing
  <2>7. QueuedWait'
    BY <2>0, <2>1, <2>2, <2>3 DEF LockInv, QueuedWait, Locks
  <2> QED BY <2>4, <2>5, <2>6, <2>7
<1>4. ASSUME NEW c \in Clients, Claim(c)
      PROVE  ClaimsHeld' /\ ReadersIn' /\ WritersAlone' /\ QueuedWait'
  <2> DEFINE m == MapOf(c)
  <2>0. m \in Maps /\ lock \in [Maps -> Locks] /\ pc \in [Clients -> Labels]
    BY MapOfType DEF LockInv, Shape
  <2>1. \A d \in Clients : MapOf(d)' = MapOf(d) /\ MapOf(d) \in Maps
    BY <1>4, MapOfType DEF Claim, MapOf
  <2>2. \A n \in Maps : /\ lock'[n].readers = lock[n].readers
                        /\ lock'[n].queued = lock[n].queued
                        /\ lock'[n].claim = IF n = m THEN c ELSE lock[n].claim
    BY <1>4, <2>0 DEF Claim, Locks
  <2>3. /\ lock[m].claim = None
        /\ pc[c] = "lock"
        /\ pc' = [pc EXCEPT ![c] = "claimed"]
    BY <1>4 DEF Claim, Goto
  <2>4. ClaimsHeld'
    <3> SUFFICES ASSUME NEW d \in Clients, Claimed(d)' PROVE lock'[MapOf(d)'].claim = d
      BY DEF ClaimsHeld
    <3>1. CASE d = c
      BY <3>1, <2>1, <2>2
    <3>2. CASE d # c
      <4>1. lock[MapOf(d)].claim = d /\ d # None
        BY <3>2, <2>0, <2>3, NamesAssumption DEF LockInv, ClaimsHeld, Claimed
      <4> QED BY <4>1, <2>1, <2>2, <2>3
    <3> QED BY <3>1, <3>2
  <2>5. ReadersIn'
    BY <2>0, <2>1, <2>2, <2>3 DEF LockInv, ReadersIn, Reading
  <2>6. WritersAlone'
    BY <2>0, <2>1, <2>2, <2>3 DEF LockInv, WritersAlone, Writing
  <2>7. QueuedWait'
    BY <2>0, <2>1, <2>2, <2>3 DEF LockInv, QueuedWait, Locks
  <2> QED BY <2>4, <2>5, <2>6, <2>7
<1>5. ASSUME NEW c \in Clients, Unlock(c)
      PROVE  ClaimsHeld' /\ ReadersIn' /\ WritersAlone' /\ QueuedWait'
  <2> DEFINE m == MapOf(c)
             q == lock[m].queued
  <2>0. m \in Maps /\ lock \in [Maps -> Locks] /\ pc \in [Clients -> Labels]
    BY MapOfType DEF LockInv, Shape
  <2>1. \A d \in Clients : MapOf(d)' = MapOf(d) /\ MapOf(d) \in Maps
    BY <1>5, MapOfType DEF Unlock, MapOf
  <2>2. /\ lock'[m].readers = lock[m].readers \cup q
        /\ lock'[m].queued = {}
        /\ \A n \in Maps \ {m} : lock'[n] = lock[n]
    BY <1>5, <2>0 DEF Unlock, Locks
  <2>3. /\ pc[c] = "unlock" /\ Claimed(c) /\ Writing(c)
        /\ \A d \in Clients :
             pc'[d] = IF d = c THEN "respond" ELSE IF d \in q THEN "read" ELSE pc[d]
    <3>1. pc[c] = "unlock"
      BY <1>5 DEF Unlock
    <3>2. \A d \in Clients : pc'[d] = CASE d = c -> "respond"
                                        [] d \in q -> "read"
                                        [] OTHER -> pc[d]
      BY <1>5, Zenon DEF Unlock
    <3>3. \A d \in q : pc[d] \in {"rwait", "dead"}
      BY <2>0 DEF LockInv, QueuedWait
    <3>4. c \notin q
      BY <3>1, <3>3
    <3> QED BY <3>1, <3>2, <3>4 DEF Claimed, Writing
  <2>4. \A d \in q : MapOf(d) = m /\ pc[d] \in {"rwait", "dead"}
    BY <2>0 DEF LockInv, QueuedWait
  <2>5. \A d \in Clients : Claimed(d)' => Claimed(d) /\ MapOf(d) # m
    <3> SUFFICES ASSUME NEW d \in Clients, Claimed(d)' PROVE Claimed(d) /\ MapOf(d) # m
      OBVIOUS
    <3>1. d # c /\ Claimed(d)
      BY <2>3 DEF Claimed
    <3> QED BY <3>1, <2>3, Exclusion
  <2>6. ClaimsHeld'
    BY <2>1, <2>2, <2>5 DEF LockInv, ClaimsHeld
  <2>7. ReadersIn'
    <3> SUFFICES ASSUME NEW d \in Clients, Reading(d)'
                 PROVE  d \in lock'[MapOf(d)'].readers
      BY DEF ReadersIn
    <3>1. d \in q \/ Reading(d)
      BY <2>3 DEF Reading
    <3> QED BY <3>1, <2>1, <2>2, <2>4 DEF LockInv, ReadersIn
  <2>8. WritersAlone'
    <3> SUFFICES ASSUME NEW d \in Clients, Writing(d)' PROVE lock'[MapOf(d)'].readers = {}
      BY DEF WritersAlone
    <3>1. Claimed(d)' /\ Writing(d)
      BY <2>3 DEF Writing, Claimed
    <3> QED BY <3>1, <2>1, <2>2, <2>5 DEF LockInv, WritersAlone
  <2>9. QueuedWait'
    <3> SUFFICES ASSUME NEW n \in Maps, n # m, NEW d \in lock'[n].queued
                 PROVE  pc'[d] \in {"rwait", "dead"} /\ MapOf(d)' = n
      BY <2>2 DEF QueuedWait
    <3>1. d \in lock[n].queued /\ d \in Clients
      BY <2>0, <2>2 DEF Locks
    <3>2. pc[d] \in {"rwait", "dead"} /\ MapOf(d) = n
      BY <3>1 DEF LockInv, QueuedWait
    <3>3. d # c /\ d \notin q
      BY <3>2, <2>3, <2>4
    <3> QED BY <3>1, <3>2, <3>3, <2>1, <2>3
  <2> QED BY <2>6, <2>7, <2>8, <2>9
<1>6. ASSUME NEW c \in Clients, BodyFails(c)
      PROVE  ClaimsHeld' /\ ReadersIn' /\ WritersAlone' /\ QueuedWait'
  <2>1. /\ UNCHANGED <<lock, req>>
        /\ \A d \in Clients : pc'[d] = "dead"
    BY <1>6 DEF BodyFails
  <2>2. \A m \in Maps : lock[m].queued \subseteq Clients
    BY DEF LockInv, Shape, Locks
  <2> QED BY <2>1, <2>2 DEF LockInv, ClaimsHeld, ReadersIn, WritersAlone, QueuedWait,
                            Claimed, Reading, Writing, MapOf
<1>7. CASE UNCHANGED vars
  BY <1>7 DEF vars, LockInv, ClaimsHeld, ReadersIn, WritersAlone, QueuedWait,
              Claimed, Reading, Writing, MapOf
<1> QED BY <1>1, <1>2, <1>3, <1>4, <1>5, <1>6, <1>7 DEF Next, Step

LEMMA LockInit == Init => LockInv
<1> SUFFICES ASSUME Init PROVE LockInv
  OBVIOUS
<1> QED BY InitShape DEF Init, LockInv, ClaimsHeld, ReadersIn, WritersAlone, QueuedWait,
                         Claimed, Reading, Writing, Maps

(* With the lock discipline of types.go:39-75 and sparkv.go:41-55 no       *)
(* goroutine is at a Go map that another one writes, whatever the clients  *)
(* ask for and however the goroutines are scheduled.                       *)
THEOREM MapsAreExclusive == Spec => []NoConcurrentMapWrite
<1>1. LockInv => NoConcurrentMapWrite
  BY Exclusion DEF NoConcurrentMapWrite, Writing, Claimed
<1> QED BY <1>1, LockInit, LockStep, PTL DEF Spec
-----------------------------------------------------------------------------
(* Sequences *)

(* No number handed out exceeds the sequence's, and while a goroutine      *)
(* holds its increment, all are below it.                                  *)
GivenBelow == \A k \in Keys : \A n \in given[k] : n <= seq[k]
NextIsFresh ==
  \A c \in Clients : pc[c] = "result" => \A n \in given[req[c].key] : n < seq[req[c].key]

SequenceInv == LockInv /\ GivenBelow /\ NextIsFresh

LEMMA SequenceInit == Init => SequenceInv
BY LockInit DEF Init, SequenceInv, GivenBelow, NextIsFresh

(* The goroutine at work on a sequence is alone there.                     *)
LEMMA AloneAtSequence ==
  ASSUME LockInv, NEW c \in Clients, NEW d \in Clients, c # d,
         pc[c] = "write", req[c].op \in {"increment", "seqdelete"}
  PROVE  pc[d] # "result"
<1> SUFFICES ASSUME pc[d] = "result" PROVE FALSE
  OBVIOUS
<1>1. req[d].op = "increment"
  BY DEF LockInv, Shape
<1>2. MapOf(c) = MapOf(d)
  BY <1>1 DEF MapOf
<1> QED BY <1>2, Exclusion DEF Claimed

LEMMA SequenceStep == SequenceInv /\ [Next]_vars => SequenceInv'
<1> SUFFICES ASSUME SequenceInv, [Next]_vars PROVE GivenBelow' /\ NextIsFresh'
  BY LockStep DEF SequenceInv
<1> USE DEF SequenceInv
<1>0. /\ pc \in [Clients -> Labels] /\ seq \in [Keys -> Int]
      /\ given \in [Keys -> SUBSET Int]
  BY DEF LockInv, Shape
<1>1. ASSUME UNCHANGED <<seq, given>>,
             \A c \in Clients : pc'[c] = "result" => pc[c] = "result" /\ req'[c] = req[c]
      PROVE  GivenBelow' /\ NextIsFresh'
  BY <1>1 DEF GivenBelow, NextIsFresh
<1>2. ASSUME NEW c \in Clients, Increment(c) PROVE GivenBelow' /\ NextIsFresh'
  <2> DEFINE k == req[c].key
  <2>1. k \in Keys
    BY <1>2, RequestType DEF Increment, LockInv
  <2>2. /\ seq' = [seq EXCEPT ![k] = seq[k] + 1]
        /\ UNCHANGED <<given, req>>
    BY <1>2 DEF Increment
  <2>3. \A d \in Clients : pc'[d] = "result" => d = c
    BY <1>2, <1>0, AloneAtSequence DEF Increment, Goto
  <2>4. GivenBelow'
    <3> SUFFICES ASSUME NEW j \in Keys, NEW n \in given[j] PROVE n <= seq'[j]
      BY <2>2 DEF GivenBelow
    <3>1. n \in Int /\ seq[j] \in Int /\ n <= seq[j]
      BY <1>0 DEF GivenBelow
    <3>2. seq'[j] = seq[j] \/ seq'[j] = seq[j] + 1
      BY <1>0, <2>2
    <3> QED BY <3>1, <3>2
  <2>5. NextIsFresh'
    <3> SUFFICES ASSUME NEW n \in given[k] PROVE n < seq'[k]
      BY <2>2, <2>3 DEF NextIsFresh
    <3>1. n \in Int /\ seq[k] \in Int /\ n <= seq[k]
      BY <1>0, <2>1 DEF GivenBelow
    <3>2. seq'[k] = seq[k] + 1
      BY <1>0, <2>1, <2>2
    <3> QED BY <3>1, <3>2
  <2> QED BY <2>4, <2>5
<1>3. ASSUME NEW c \in Clients, Result(c) PROVE GivenBelow' /\ NextIsFresh'
  <2> DEFINE k == req[c].key
  <2>1. /\ pc[c] = "result" /\ given' = [given EXCEPT ![k] = given[k] \cup {seq[k]}]
        /\ pc' = [pc EXCEPT ![c] = "unlock"]
        /\ UNCHANGED <<seq, req>>
    BY <1>3 DEF Result, Goto
  <2>2. \A d \in Clients : pc'[d] = "result" => d # c /\ pc[d] = "result"
    BY <2>1, <1>0
  <2>3. \A d \in Clients : pc'[d] # "result"
    <3> SUFFICES ASSUME NEW d \in Clients, pc'[d] = "result" PROVE FALSE
      OBVIOUS
    <3>1. d # c /\ req[c].op = "increment" /\ req[d].op = "increment"
      BY <2>1, <2>2 DEF LockInv, Shape
    <3>2. MapOf(c) = MapOf(d)
      BY <3>1 DEF MapOf
    <3> QED BY <3>1, <3>2, <2>1, <2>2, Exclusion DEF Claimed
  <2>4. GivenBelow'
    <3> SUFFICES ASSUME NEW j \in Keys, NEW n \in given'[j] PROVE n <= seq[j]
      BY <2>1 DEF GivenBelow
    <3>1. n \in given[j] \/ n = seq[j]
      BY <2>1, <1>0
    <3> QED BY <3>1, <1>0 DEF GivenBelow
  <2> QED BY <2>3, <2>4 DEF NextIsFresh
<1>4. ASSUME NEW c \in Clients, SeqDelete(c) PROVE GivenBelow' /\ NextIsFresh'
  <2> DEFINE k == req[c].key
  <2>1. /\ seq' = [seq EXCEPT ![k] = -1]
        /\ given' = [given EXCEPT ![k] = {}]
    BY <1>4 DEF SeqDelete
  <2>2. \A d \in Clients : pc'[d] # "result"
    BY <1>4, <1>0, AloneAtSequence DEF SeqDelete, Goto
  <2>3. GivenBelow'
    <3> SUFFICES ASSUME NEW j \in Keys, NEW n \in given'[j] PROVE n <= seq'[j]
      BY DEF GivenBelow
    <3>1. j # k /\ n \in given[j]
      BY <2>1, <1>0
    <3>2. seq'[j] = seq[j]
      BY <3>1, <2>1, <1>0
    <3> QED BY <3>1, <3>2 DEF GivenBelow
  <2> QED BY <2>2, <2>3 DEF NextIsFresh
<1>5. ASSUME NEW c \in Clients,
             \/ \E r \in Request : Accept(c, r)
             \/ ReadBody(c) \/ Claim(c) \/ RLock(c) \/ RUnlock(c) \/ Lock(c)
             \/ Get(c) \/ Set(c) \/ Delete(c) \/ Respond(c) \/ BodyFails(c)
             \/ StatsCount(c) \/ StatsCollect(c) \/ StatsCollected(c) \/ StatsSend(c)
      PROVE  GivenBelow' /\ NextIsFresh'
  <2>1. UNCHANGED <<seq, given>>
    BY <1>5 DEF Accept, ReadBody, Claim, RLock, RUnlock, Lock, Get, Set, Delete, Respond,
                BodyFails, StatsCount, StatsCollect, StatsCollected, StatsSend
  <2>2. \A d \in Clients : pc'[d] = "result" => pc[d] = "result" /\ req'[d] = req[d]
    BY <1>5, <1>0 DEF Accept, ReadBody, Claim, RLock, RUnlock, Lock, Get, Set, Delete,
       Respond, BodyFails, StatsCount, StatsCollect, StatsCollected, StatsSend, Goto,
       LockInv, Shape
  <2> QED BY <2>1, <2>2, <1>1
<1>6. ASSUME NEW c \in Clients, Unlock(c) PROVE GivenBelow' /\ NextIsFresh'
  BY <1>6, <1>1 DEF Unlock
<1>7. CASE UNCHANGED vars
  BY <1>7, <1>1 DEF vars
<1> QED BY <1>2, <1>3, <1>4, <1>5, <1>6, <1>7 DEF Next, Step

(* A sequence never answers two GETs with one number unless it is deleted  *)
(* in between: Increment holds the write lock from the increment to the    *)
(* read of its result (types.go:39-50).                                    *)
THEOREM NumbersAreHandedOutOnce == Spec => NumbersAreUnique
<1> DEFINE Fresh == \A c \in Clients : pc[c] = "result" /\ pc'[c] = "unlock"
                                         => reply'[c] \notin given[req[c].key]
<1>1. SequenceInv /\ [Next]_vars => [Fresh]_vars
  <2> SUFFICES ASSUME SequenceInv, Next, NEW c \in Clients,
                      pc[c] = "result", pc'[c] = "unlock"
               PROVE  reply'[c] \notin given[req[c].key]
    BY DEF vars
  <2>0. /\ pc \in [Clients -> Labels] /\ seq \in [Keys -> Int]
        /\ given \in [Keys -> SUBSET Int] /\ reply \in [Clients -> Replies]
    BY DEF SequenceInv, LockInv, Shape
  <2>1. Result(c)
    <3>1. PICK d \in Clients :
            \/ \E r \in Request : Accept(d, r)
            \/ ReadBody(d) \/ BodyFails(d) \/ Claim(d) \/ Step(d)
      BY DEF Next
    <3>2. CASE Unlock(d)
      BY <3>2, Zenon DEF Unlock
    <3>3. CASE d # c /\ ~Unlock(d)
      BY <3>1, <3>3, <2>0 DEF Accept, ReadBody, BodyFails, Claim, Step, RLock, RUnlock,
         Lock, Get, Set, Delete, Increment, Result, SeqDelete, Respond, StatsCount,
         StatsCollect, StatsCollected, StatsSend, Goto
    <3>4. CASE d = c /\ ~Unlock(d)
      BY <3>1, <3>4, <2>0 DEF Accept, ReadBody, BodyFails, Claim, Step, RLock, RUnlock,
         Lock, Get, Set, Delete, Increment, SeqDelete, Respond, StatsCount,
         StatsCollect, StatsCollected, StatsSend, Goto
    <3> QED BY <3>2, <3>3, <3>4
  <2>2. req[c].key \in Keys
    <3>1. req[c].op # "none"
      BY DEF SequenceInv, LockInv, Shape
    <3> QED BY <3>1, RequestType DEF SequenceInv, LockInv
  <2>3. reply'[c] = seq[req[c].key]
    BY <2>0, <2>1 DEF Result
  <2>4. \A n \in given[req[c].key] : n \in Int /\ n < seq[req[c].key]
    BY <2>0, <2>2 DEF SequenceInv, NextIsFresh
  <2> QED BY <2>0, <2>2, <2>3, <2>4
<1> QED BY <1>1, SequenceInit, SequenceStep, PTL DEF Spec, NumbersAreUnique
-----------------------------------------------------------------------------
(* Statistics *)

(* What a statistics goroutine has counted is still what the Map holds,    *)
(* and what it has listed is part of it.                                   *)
CountHolds ==
  \A c \in Clients :
    /\ pc[c] \in {"keys", "send"} => /\ reply[c] = Cardinality(Present)
                                     /\ listed[c] \subseteq Present
    /\ pc[c] = "send" => listed[c] = Present

(* A goroutine lists keys only between its StatsCount and its Respond.     *)
NothingListed ==
  \A c \in Clients : pc[c] \in {"idle", "rlock", "rwait", "read"} => listed[c] = {}

(* The process ends as a whole. *)
DeadTogether == \A c, d \in Clients : pc[c] = "dead" => pc[d] = "dead"

StatsInv == LockInv /\ NothingListed /\ CountHolds /\ DeadTogether

LEMMA StatsInit == Init => StatsInv
BY LockInit DEF Init, StatsInv, NothingListed, CountHolds, DeadTogether

LEMMA DeadStep == LockInv /\ DeadTogether /\ [Next]_vars => DeadTogether'
<1> SUFFICES ASSUME LockInv, DeadTogether, [Next]_vars PROVE DeadTogether'
  OBVIOUS
<1>0. pc \in [Clients -> Labels]
  BY DEF LockInv, Shape
<1>1. CASE \E c \in Clients : BodyFails(c)
  BY <1>1 DEF BodyFails, DeadTogether
<1>2. ASSUME NEW c \in Clients, Unlock(c) PROVE DeadTogether'
  <2>1. \A d \in Clients : pc'[d] \in {"respond", "read", pc[d]}
    BY <1>2 DEF Unlock
  <2>2. pc[c] = "unlock"
    BY <1>2 DEF Unlock
  <2> QED BY <2>1, <2>2 DEF DeadTogether
<1>3. ASSUME NEW c \in Clients,
             \/ \E r \in Request : Accept(c, r)
             \/ ReadBody(c) \/ Claim(c)
             \/ Step(c) /\ ~Unlock(c)
      PROVE  DeadTogether'
  <2>1. /\ pc[c] # "dead"
        /\ \A d \in Clients : pc'[d] = "dead" => pc[d] = "dead"
    BY <1>3, <1>0 DEF Accept, ReadBody, Claim, Step, RLock, RUnlock, Lock, Get, Set, Delete,
       Increment, Result, SeqDelete, Respond, StatsCount, StatsCollect, StatsCollected,
       StatsSend, Goto
  <2> QED BY <2>1 DEF DeadTogether
<1>4. CASE UNCHANGED vars
  BY <1>4 DEF vars, DeadTogether
<1> QED BY <1>1, <1>2, <1>3, <1>4 DEF Next

(* While statistics is read no goroutine writes the Map.                   *)
LEMMA NoWriterAtStats ==
  ASSUME LockInv, NEW c \in Clients, NEW d \in Clients,
         pc[c] = "write", req[c].op \in {"put", "delete"}
  PROVE  pc[d] \notin {"keys", "send"}
<1> SUFFICES ASSUME pc[d] \in {"keys", "send"} PROVE FALSE
  OBVIOUS
<1>1. req[d].op = "stats" /\ c # d
  BY DEF LockInv, Shape
<1>2. MapOf(c) = MapOf(d)
  BY <1>1 DEF MapOf
<1> QED BY <1>1, <1>2, Exclusion DEF Claimed, Writing, Reading

LEMMA StatsStep == StatsInv /\ [Next]_vars => StatsInv'
<1> SUFFICES ASSUME StatsInv, [Next]_vars PROVE NothingListed' /\ CountHolds'
  BY LockStep, DeadStep DEF StatsInv
<1> USE DEF StatsInv
<1>0. /\ pc \in [Clients -> Labels] /\ reply \in [Clients -> Replies]
      /\ listed \in [Clients -> SUBSET Keys]
  BY DEF LockInv, Shape
<1>1. ASSUME UNCHANGED data,
             \A d \in Clients :
               /\ pc'[d] \in {"keys", "send"} =>
                    pc'[d] = pc[d] /\ reply'[d] = reply[d] /\ listed'[d] = listed[d]
               /\ pc'[d] \in {"idle", "rlock", "rwait", "read"} =>
                    \/ listed'[d] = {}
                    \/ /\ pc[d] \in {"idle", "rlock", "rwait", "read"}
                       /\ listed'[d] = listed[d]
      PROVE  NothingListed' /\ CountHolds'
  <2>1. Present' = Present
    BY <1>1 DEF Present
  <2> QED BY <1>1, <2>1 DEF NothingListed, CountHolds
<1>2. ASSUME NEW c \in Clients, Set(c) \/ Delete(c) PROVE NothingListed' /\ CountHolds'
  <2>1. \A d \in Clients : pc'[d] \notin {"keys", "send"}
    BY <1>2, <1>0, NoWriterAtStats DEF Set, Delete, Goto
  <2>2. UNCHANGED listed /\ pc' = [pc EXCEPT ![c] = "unlock"]
    BY <1>2 DEF Set, Delete, Goto
  <2> QED BY <1>0, <2>1, <2>2 DEF NothingListed, CountHolds
<1>3. ASSUME NEW c \in Clients, StatsCount(c) PROVE NothingListed' /\ CountHolds'
  <2>1. /\ pc[c] = "read" /\ pc' = [pc EXCEPT ![c] = "keys"]
        /\ reply' = [reply EXCEPT ![c] = Cardinality(Present)]
        /\ Present' = Present /\ UNCHANGED listed
    BY <1>3 DEF StatsCount, Goto, Present
  <2> QED BY <1>0, <2>1 DEF NothingListed, CountHolds
<1>4. ASSUME NEW c \in Clients, StatsCollect(c) PROVE NothingListed' /\ CountHolds'
  <2>1. /\ pc[c] = "keys" /\ UNCHANGED <<pc, reply>> /\ Present' = Present
        /\ \E k \in Present : listed' = [listed EXCEPT ![c] = @ \cup {k}]
    BY <1>4 DEF StatsCollect, Present
  <2> QED BY <1>0, <2>1 DEF NothingListed, CountHolds
<1>5. ASSUME NEW c \in Clients, StatsCollected(c) PROVE NothingListed' /\ CountHolds'
  <2>1. /\ pc[c] = "keys" /\ pc' = [pc EXCEPT ![c] = "send"]
        /\ Present \subseteq listed[c]
        /\ UNCHANGED <<reply, listed>> /\ Present' = Present
    BY <1>5 DEF StatsCollected, Goto, Present
  <2> QED BY <1>0, <2>1 DEF NothingListed, CountHolds
<1>6. ASSUME NEW c \in Clients,
             \/ \E r \in Request : Accept(c, r)
             \/ ReadBody(c) \/ Claim(c) \/ RLock(c) \/ RUnlock(c) \/ Lock(c)
             \/ Get(c) \/ Respond(c) \/ BodyFails(c) \/ StatsSend(c)
             \/ Increment(c) \/ Result(c) \/ SeqDelete(c)
      PROVE  NothingListed' /\ CountHolds'
  <2>1. UNCHANGED data
    BY <1>6 DEF Accept, ReadBody, Claim, RLock, RUnlock, Lock, Get, Respond, BodyFails,
                StatsSend, Increment, Result, SeqDelete
  <2>2. ASSUME NEW d \in Clients, pc'[d] \in {"keys", "send"}
        PROVE  pc'[d] = pc[d] /\ reply'[d] = reply[d] /\ listed'[d] = listed[d]
    BY <1>6, <2>2, <1>0 DEF Accept, ReadBody, Claim, RLock, RUnlock, Lock, Get, Respond,
       BodyFails, StatsSend, Increment, Result, SeqDelete, Goto
  <2>3. ASSUME NEW d \in Clients, pc'[d] \in {"idle", "rlock", "rwait", "read"}
        PROVE  \/ listed'[d] = {}
               \/ /\ pc[d] \in {"idle", "rlock", "rwait", "read"}
                  /\ listed'[d] = listed[d]
    BY <1>6, <2>3, <1>0 DEF Accept, ReadBody, Claim, RLock, RUnlock, Lock, Get, Respond,
       BodyFails, StatsSend, Increment, Result, SeqDelete, Goto
  <2> QED BY <2>1, <2>2, <2>3, <1>1
<1>7. ASSUME NEW c \in Clients, Unlock(c) PROVE NothingListed' /\ CountHolds'
  <2> DEFINE q == lock[MapOf(c)].queued
  <2>1. UNCHANGED <<data, reply, listed>>
    BY <1>7 DEF Unlock
  <2>2. \A d \in Clients : pc'[d] = CASE d = c -> "respond"
                                      [] d \in q -> "read"
                                      [] OTHER -> pc[d]
    BY <1>7, Zenon DEF Unlock
  <2>3. \A d \in q : d \in Clients /\ pc[d] \in {"rwait", "dead"}
    BY MapOfType DEF LockInv, Shape, Locks, QueuedWait
  <2>4. \A d \in q : pc[d] = "rwait"
    BY <1>7, <2>3 DEF Unlock, DeadTogether
  <2> QED BY <2>1, <2>2, <2>3, <2>4, <1>1
<1>8. CASE UNCHANGED vars
  BY <1>8, <1>1 DEF vars
<1> QED BY <1>2, <1>3, <1>4, <1>5, <1>6, <1>7, <1>8 DEF Next, Step

(* When there are finitely many keys, statistics lists exactly as many of  *)
(* them as it announced, and never writes past the slice it made, whatever *)
(* writers wait behind it (sparkv.go:41-55).                               *)
THEOREM StatisticsAreConsistent == IsFiniteSet(Keys) => (Spec => []StatsAreConsistent)
<1> SUFFICES ASSUME IsFiniteSet(Keys) PROVE Spec => []StatsAreConsistent
  OBVIOUS
<1>1. StatsInv => StatsAreConsistent
  <2> SUFFICES ASSUME StatsInv, NEW c \in Clients, pc[c] \in {"keys", "send"}
               PROVE  /\ Cardinality(listed[c]) <= reply[c]
                      /\ pc[c] = "send" => Cardinality(listed[c]) = reply[c]
    BY DEF StatsAreConsistent
  <2>1. reply[c] = Cardinality(Present) /\ listed[c] \subseteq Present
    BY DEF StatsInv, CountHolds
  <2>2. IsFiniteSet(Present)
    BY FS_Subset DEF Present
  <2>3. Cardinality(listed[c]) <= Cardinality(Present)
    BY <2>1, <2>2, FS_Subset
  <2>4. pc[c] = "send" => listed[c] = Present
    BY DEF StatsInv, CountHolds
  <2> QED BY <2>1, <2>3, <2>4
<1> QED BY <1>1, StatsInit, StatsStep, PTL DEF Spec
-----------------------------------------------------------------------------
(* The bound *)

(* The requests that are still to take a number of k. *)
Awaiting(k) ==
  {d \in Clients : /\ pc[d] \in {"lock", "claimed", "write"}
                   /\ req[d].op = "increment" /\ req[d].key = k}

WithinBound ==
  \A k \in Keys : -1 <= seq[k] /\ seq[k] + Cardinality(Awaiting(k)) <= MaxSeq

NumbersGiven ==
  /\ \A c \in Clients : pc[c] = "result" => 0 <= seq[req[c].key]
  /\ \A c \in Clients : pc[c] = "body" => req[c].op = "put"
  /\ \A k \in Keys : given[k] \subseteq 0..MaxSeq
  /\ \A c \in Clients : reply[c] \in Nat

BoundInv == SequenceInv /\ up \in BOOLEAN /\ WithinBound /\ NumbersGiven

Finite == IsFiniteSet(Clients) /\ IsFiniteSet(Keys) /\ MaxSeq \in Nat

LEMMA AwaitingFinite ==
  ASSUME Finite, NEW k
  PROVE  IsFiniteSet(Awaiting(k)) /\ Cardinality(Awaiting(k)) \in Nat
<1>1. Awaiting(k) \in SUBSET Clients
  BY DEF Awaiting
<1> QED BY <1>1, FS_Subset, FS_CardinalityType DEF Finite

LEMMA BoundInit == Finite /\ Init => BoundInv
<1> SUFFICES ASSUME Finite, Init PROVE BoundInv
  OBVIOUS
<1>1. \A k \in Keys : Awaiting(k) = {}
  BY DEF Init, Awaiting
<1>2. Cardinality({}) = 0
  BY FS_EmptySet
<1>3. \A k \in Keys : seq[k] = -1 /\ given[k] = {}
  BY DEF Init
<1>4. \A k \in Keys : -1 <= seq[k] /\ seq[k] + Cardinality(Awaiting(k)) <= MaxSeq
  BY <1>1, <1>2, <1>3 DEF Finite
<1>5. \A c \in Clients : pc[c] = "idle" /\ reply[c] = 0
  BY DEF Init
<1>6. SequenceInv /\ up \in BOOLEAN
  BY SequenceInit DEF Init
<1> QED BY <1>3, <1>4, <1>5, <1>6 DEF BoundInv, WithinBound, NumbersGiven

(* A step that lets no request start to wait for a number, and takes none. *)
LEMMA FewerAwaiting ==
  ASSUME Finite, BoundInv, UNCHANGED seq,
         \A d \in Clients : pc'[d] \in {"lock", "claimed", "write"} /\ req'[d].op = "increment"
           => pc[d] \in {"lock", "claimed", "write"} /\ req'[d] = req[d]
  PROVE  WithinBound'
<1> SUFFICES ASSUME NEW k \in Keys
             PROVE  -1 <= seq'[k] /\ seq'[k] + Cardinality(Awaiting(k)') <= MaxSeq
  BY DEF WithinBound
<1>1. Awaiting(k)' \in SUBSET Awaiting(k)
  BY DEF Awaiting
<1> DEFINE A == Awaiting(k)
           B == Awaiting(k)'
<1>2. Cardinality(A) \in Nat /\ Cardinality(B) \in Nat /\ Cardinality(B) <= Cardinality(A)
  <2>1. IsFiniteSet(A) /\ B \in SUBSET A
    BY <1>1, AwaitingFinite
  <2> HIDE DEF A, B
  <2> QED BY <2>1, FS_Subset, FS_CardinalityType
<1>3. seq[k] \in Int /\ seq'[k] = seq[k] /\ MaxSeq \in Int
  BY DEF BoundInv, WithinBound, NumbersGiven, SequenceInv, LockInv, Shape, Finite
<1>4. -1 <= seq[k] /\ seq[k] + Cardinality(A) <= MaxSeq
  BY DEF BoundInv, WithinBound, NumbersGiven
<1> HIDE DEF A
<1>5. -1 <= seq'[k] /\ seq'[k] + Cardinality(B) <= MaxSeq
  <2> HIDE DEF B
  <2> QED BY <1>2, <1>3, <1>4
<1> QED BY <1>5

LEMMA UpKeeps == up \in BOOLEAN /\ [Next]_vars => up' \in BOOLEAN
BY DEF Next, Step, vars, Accept, ReadBody, BodyFails, Claim, RLock, RUnlock, Lock, Unlock,
       Get, Set, Delete, Increment, Result, SeqDelete, StatsCount, StatsCollect,
       StatsCollected, StatsSend, Respond

LEMMA BoundStep == Finite /\ BoundInv /\ [Next]_vars => BoundInv'
<1> SUFFICES ASSUME Finite, BoundInv, [Next]_vars PROVE WithinBound' /\ NumbersGiven'
  BY SequenceStep, UpKeeps DEF BoundInv, WithinBound, NumbersGiven
<1>1. /\ pc \in [Clients -> Labels] /\ seq \in [Keys -> Int] /\ MaxSeq \in Nat
      /\ req \in [Clients -> Request \cup {NoRequest}] /\ reply \in [Clients -> Replies]
      /\ given \in [Keys -> SUBSET Int]
      /\ LockInv /\ Shape
  BY DEF BoundInv, WithinBound, NumbersGiven, SequenceInv, LockInv, Shape, Finite
<1>2. ASSUME NEW c \in Clients,
             \/ ReadBody(c) \/ Claim(c) \/ RLock(c) \/ RUnlock(c) \/ Lock(c)
             \/ Get(c) \/ Set(c) \/ Delete(c) \/ Respond(c)
             \/ StatsCollect(c) \/ StatsCollected(c) \/ StatsSend(c)
      PROVE  WithinBound' /\ NumbersGiven'
  <2>1. UNCHANGED <<seq, given>>
    BY <1>2 DEF ReadBody, Claim, RLock, RUnlock, Lock, Get, Set, Delete, Respond,
                StatsCollect, StatsCollected, StatsSend
  <2>2. \A d \in Clients : pc'[d] \in {"lock", "claimed", "write"} /\ req'[d].op = "increment"
           => pc[d] \in {"lock", "claimed", "write"} /\ req'[d] = req[d]
    BY <1>1, <1>2 DEF ReadBody, Claim, RLock, RUnlock, Lock, Get, Set, Delete, Respond,
                StatsCollect, StatsCollected, StatsSend, Goto, BoundInv, NumbersGiven, NoRequest
  <2>3. \A d \in Clients : pc'[d] \in {"result", "body"} => pc'[d] = pc[d] /\ req'[d] = req[d]
    BY <1>1, <1>2 DEF ReadBody, Claim, RLock, RUnlock, Lock, Get, Set, Delete, Respond,
                StatsCollect, StatsCollected, StatsSend, Goto
  <2>4. \A d \in Clients : reply'[d] \in Nat
    BY <1>1, <1>2 DEF ReadBody, Claim, RLock, RUnlock, Lock, Get, Set, Delete, Respond,
                StatsCollect, StatsCollected, StatsSend, BoundInv, NumbersGiven
  <2>5. WithinBound'
    BY <2>1, <2>2, FewerAwaiting
  <2> QED BY <2>1, <2>3, <2>4, <2>5 DEF BoundInv, WithinBound, NumbersGiven
<1>3. ASSUME NEW c \in Clients, StatsCount(c) PROVE WithinBound' /\ NumbersGiven'
  <2>1. Cardinality(Present) \in Nat
    <3>1. Present \in SUBSET Keys
      BY DEF Present
    <3> QED BY <3>1, FS_Subset, FS_CardinalityType DEF Finite
  <2>2. /\ UNCHANGED <<seq, given, req>> /\ reply' = [reply EXCEPT ![c] = Cardinality(Present)]
        /\ pc' = [pc EXCEPT ![c] = "keys"]
    BY <1>3 DEF StatsCount, Goto
  <2>3. \A d \in Clients : pc'[d] = pc[d] \/ pc'[d] = "keys"
    BY <1>1, <2>2
  <2>4. WithinBound'
    BY <2>2, <2>3, FewerAwaiting
  <2> QED BY <1>1, <2>1, <2>2, <2>3, <2>4 DEF BoundInv, WithinBound, NumbersGiven
<1>4. ASSUME NEW c \in Clients, BodyFails(c) PROVE WithinBound' /\ NumbersGiven'
  <2>1. UNCHANGED <<seq, given, reply>> /\ \A d \in Clients : pc'[d] = "dead"
    BY <1>4 DEF BodyFails
  <2>2. WithinBound'
    BY <2>1, FewerAwaiting
  <2> QED BY <2>1, <2>2 DEF BoundInv, WithinBound, NumbersGiven
<1>5. ASSUME NEW c \in Clients, Unlock(c) PROVE WithinBound' /\ NumbersGiven'
  <2>1. UNCHANGED <<seq, given, reply, req>>
        /\ \A d \in Clients : pc'[d] = pc[d] \/ pc'[d] \in {"respond", "read"}
    BY <1>5 DEF Unlock
  <2>2. WithinBound'
    BY <2>1, FewerAwaiting
  <2> QED BY <2>1, <2>2 DEF BoundInv, WithinBound, NumbersGiven
<1>6. ASSUME NEW c \in Clients, Result(c) PROVE WithinBound' /\ NumbersGiven'
  <2> DEFINE k == req[c].key
  <2>1. /\ pc[c] = "result" /\ UNCHANGED <<seq, req>> /\ pc' = [pc EXCEPT ![c] = "unlock"]
        /\ reply' = [reply EXCEPT ![c] = seq[k]]
        /\ given' = [given EXCEPT ![k] = given[k] \cup {seq[k]}]
    BY <1>6 DEF Result, Goto
  <2>2. \A d \in Clients : pc'[d] = pc[d] \/ pc'[d] = "unlock"
    BY <1>1, <2>1
  <2>3. WithinBound'
    BY <2>1, <2>2, FewerAwaiting
  <2>4. k \in Keys
    BY <1>1, <2>1, RequestType DEF Shape
  <2>5. seq[k] \in 0..MaxSeq
    <3>1. 0 <= seq[k] /\ seq[k] + Cardinality(Awaiting(k)) <= MaxSeq /\ seq[k] \in Int
      BY <1>1, <2>1, <2>4 DEF BoundInv, WithinBound, NumbersGiven
    <3>2. Cardinality(Awaiting(k)) \in Nat
      BY AwaitingFinite
    <3> HIDE DEF k
    <3> QED BY <1>1, <3>1, <3>2
  <2>6. \A j \in Keys : given'[j] \subseteq 0..MaxSeq
    BY <1>1, <2>1, <2>4, <2>5 DEF BoundInv, WithinBound, NumbersGiven
  <2>7. \A d \in Clients : reply'[d] \in Nat
    BY <1>1, <2>1, <2>5 DEF BoundInv, WithinBound, NumbersGiven
  <2> QED BY <2>1, <2>2, <2>3, <2>6, <2>7 DEF BoundInv, WithinBound, NumbersGiven
<1>7. ASSUME NEW c \in Clients, NEW r \in Request, Accept(c, r) PROVE WithinBound' /\ NumbersGiven'
  <2>1. /\ UNCHANGED <<seq, given, reply>> /\ pc[c] = "idle"
        /\ req' = [req EXCEPT ![c] = r]
        /\ pc'[c] = "body" => r.op = "put"
        /\ pc'[c] # "result"
        /\ \A d \in Clients \ {c} : pc'[d] = pc[d] /\ req'[d] = req[d]
        /\ req'[c] = r
    BY <1>1, <1>7 DEF Accept, Goto, Reads
  <2>2. NumbersGiven'
    BY <2>1 DEF BoundInv, WithinBound, NumbersGiven
  <2>3. CASE r.op # "increment"
    <3>1. WithinBound'
      BY <2>1, <2>3, FewerAwaiting
    <3> QED BY <2>2, <3>1
  <2>4. CASE r.op = "increment"
    <3> SUFFICES ASSUME NEW k \in Keys
                 PROVE  -1 <= seq'[k] /\ seq'[k] + Cardinality(Awaiting(k)') <= MaxSeq
      BY <2>2 DEF WithinBound
    <3> DEFINE A == Awaiting(k)
               B == Awaiting(k)'
               C == {d \in Clients : req[d].op = "increment"}
    <3>1. IsFiniteSet(A) /\ IsFiniteSet(C) /\ A \in SUBSET C
      <4>1. A \in SUBSET C /\ C \in SUBSET Clients
        BY DEF Awaiting
      <4> HIDE DEF A, C
      <4> QED BY <4>1, FS_Subset DEF Finite
    <3>2. r.key # k => B \in SUBSET A
      BY <2>1 DEF Awaiting
    <3>3. B \in SUBSET (A \cup {c})
      BY <2>1 DEF Awaiting
    <3>4. seq[k] \in Int /\ seq'[k] = seq[k] /\ -1 <= seq[k] /\ seq[k] + Cardinality(A) <= MaxSeq
      BY <1>1, <2>1 DEF BoundInv, WithinBound, NumbersGiven
    <3>5. r.key = k => seq[k] + Cardinality(C) < MaxSeq
      BY <1>7, <2>4 DEF Accept
    <3> HIDE DEF A, C, B
    <3>6. /\ IsFiniteSet(A \cup {c}) /\ Cardinality(A \cup {c}) <= Cardinality(A) + 1
          /\ Cardinality(A) \in Nat /\ Cardinality(C) \in Nat /\ Cardinality(A) <= Cardinality(C)
          /\ Cardinality(A \cup {c}) \in Nat
      <4>1. Cardinality(A) \in Nat /\ Cardinality(C) \in Nat /\ Cardinality(A) <= Cardinality(C)
        BY <3>1, FS_Subset, FS_CardinalityType
      <4>2. /\ IsFiniteSet(A \cup {c})
            /\ Cardinality(A \cup {c}) = IF c \in A THEN Cardinality(A) ELSE Cardinality(A) + 1
        BY <3>1, FS_AddElement
      <4> QED BY <4>1, <4>2
    <3>7. CASE r.key # k
      <4>1. Cardinality(B) \in Nat /\ Cardinality(B) <= Cardinality(A)
        BY <3>1, <3>2, <3>7, FS_Subset, FS_CardinalityType
      <4>2. -1 <= seq'[k] /\ seq'[k] + Cardinality(B) <= MaxSeq
        BY <1>1, <3>4, <3>6, <4>1
      <4> QED BY <4>2 DEF B
    <3>8. CASE r.key = k
      <4>1. Cardinality(B) \in Nat /\ Cardinality(B) <= Cardinality(A \cup {c})
        BY <3>3, <3>6, FS_Subset, FS_CardinalityType
      <4>2. -1 <= seq'[k] /\ seq'[k] + Cardinality(B) <= MaxSeq
        BY <1>1, <3>4, <3>5, <3>6, <3>8, <4>1
      <4> QED BY <4>2 DEF B
    <3> QED BY <3>7, <3>8
  <2> QED BY <2>3, <2>4
<1>8. ASSUME NEW c \in Clients, Increment(c) PROVE WithinBound' /\ NumbersGiven'
  <2> DEFINE k == req[c].key
  <2>1. /\ pc[c] = "write" /\ req[c].op = "increment" /\ UNCHANGED <<given, reply, req>>
        /\ pc' = [pc EXCEPT ![c] = "result"]
        /\ seq' = [seq EXCEPT ![k] = seq[k] + 1]
    BY <1>8 DEF Increment, Goto
  <2>2. k \in Keys
    BY <1>1, <2>1, RequestType
  <2>3. \A d \in Clients : d # c => pc'[d] = pc[d] /\ pc[d] # "result"
    BY <1>1, <2>1, AloneAtSequence
  <2>4. seq'[k] = seq[k] + 1 /\ \A j \in Keys : j # k => seq'[j] = seq[j]
    BY <1>1, <2>1, <2>2
  <2>5. seq[k] \in Int /\ -1 <= seq[k] /\ seq[k] + Cardinality(Awaiting(k)) <= MaxSeq
    BY <1>1, <2>2 DEF BoundInv, WithinBound, NumbersGiven
  <2>6. pc'[c] = "result"
    BY <1>1, <2>1
  <2>7. NumbersGiven'
    <3>1. 0 <= seq'[k]
      <4> HIDE DEF k
      <4> QED BY <2>4, <2>5
    <3> QED BY <2>1, <2>3, <2>6, <3>1 DEF BoundInv, WithinBound, NumbersGiven
  <2>8. WithinBound'
    <3> SUFFICES ASSUME NEW j \in Keys
                 PROVE  -1 <= seq'[j] /\ seq'[j] + Cardinality(Awaiting(j)') <= MaxSeq
      BY DEF WithinBound
    <3> DEFINE A == Awaiting(j)
               B == Awaiting(j)'
    <3>1. IsFiniteSet(A) /\ Cardinality(A) \in Nat
      BY AwaitingFinite
    <3>2. B = A \ {c} /\ (j = k => c \in A)
      BY <2>1, <2>3, <2>6 DEF Awaiting
    <3>3. seq[j] \in Int /\ -1 <= seq[j] /\ seq[j] + Cardinality(A) <= MaxSeq
      BY <1>1 DEF BoundInv, WithinBound, NumbersGiven
    <3> HIDE DEF A, B, k
    <3>4. Cardinality(B) = IF c \in A THEN Cardinality(A) - 1 ELSE Cardinality(A)
      BY <3>1, <3>2, FS_RemoveElement
    <3>5. CASE j = k
      <4>1. -1 <= seq'[j] /\ seq'[j] + Cardinality(B) <= MaxSeq
        BY <1>1, <2>4, <3>1, <3>2, <3>3, <3>4, <3>5
      <4> QED BY <4>1 DEF B
    <3>6. CASE j # k
      <4>1. -1 <= seq'[j] /\ seq'[j] + Cardinality(B) <= MaxSeq
        BY <1>1, <2>4, <3>1, <3>3, <3>4, <3>6
      <4> QED BY <4>1 DEF B
    <3> QED BY <3>5, <3>6
  <2> QED BY <2>7, <2>8
<1>9. ASSUME NEW c \in Clients, SeqDelete(c) PROVE WithinBound' /\ NumbersGiven'
  <2> DEFINE k == req[c].key
  <2>1. /\ pc[c] = "write" /\ req[c].op = "seqdelete" /\ UNCHANGED <<reply, req>>
        /\ pc' = [pc EXCEPT ![c] = "unlock"]
        /\ seq' = [seq EXCEPT ![k] = -1]
        /\ given' = [given EXCEPT ![k] = {}]
    BY <1>9 DEF SeqDelete, Goto
  <2>2. \A d \in Clients : d # c => pc'[d] = pc[d] /\ pc[d] # "result"
    BY <1>1, <2>1, AloneAtSequence
  <2>3. pc'[c] = "unlock"
    BY <1>1, <2>1
  <2>4. \A j \in Keys : seq'[j] = seq[j] \/ seq'[j] = -1
    BY <1>1, <2>1
  <2>5. \A j \in Keys : given'[j] \subseteq given[j]
    BY <1>1, <2>1
  <2>6. NumbersGiven'
    BY <2>1, <2>2, <2>3, <2>5 DEF BoundInv, WithinBound, NumbersGiven
  <2>7. WithinBound'
    <3> SUFFICES ASSUME NEW j \in Keys
                 PROVE  -1 <= seq'[j] /\ seq'[j] + Cardinality(Awaiting(j)') <= MaxSeq
      BY DEF WithinBound
    <3>1. Awaiting(j)' = Awaiting(j)
      BY <2>1, <2>2, <2>3 DEF Awaiting
    <3>2. seq[j] \in Int /\ -1 <= seq[j] /\ seq[j] + Cardinality(Awaiting(j)) <= MaxSeq
      BY <1>1 DEF BoundInv, WithinBound, NumbersGiven
    <3>3. Cardinality(Awaiting(j)) \in Nat
      BY AwaitingFinite
    <3>4. -1 <= seq'[j] /\ seq'[j] + Cardinality(Awaiting(j)) <= MaxSeq
      BY <1>1, <2>4, <3>2, <3>3
    <3> QED BY <3>1, <3>4
  <2> QED BY <2>6, <2>7
<1>10. CASE UNCHANGED vars
  <2>1. UNCHANGED <<pc, req, seq, given, reply>>
    BY <1>10 DEF vars
  <2>2. WithinBound'
    BY <2>1, FewerAwaiting
  <2>3. NumbersGiven'
    BY <2>1 DEF BoundInv, WithinBound, NumbersGiven
  <2> QED BY <2>2, <2>3
<1>11. CASE Next
  <2>1. PICK c \in Clients :
          \/ \E r \in Request : Accept(c, r)
          \/ ReadBody(c) \/ BodyFails(c) \/ Claim(c) \/ Step(c)
    BY <1>11 DEF Next
  <2>2. CASE \E r \in Request : Accept(c, r)
    BY <1>7, <2>2
  <2>3. CASE Step(c)
    BY <1>2, <1>3, <1>5, <1>6, <1>8, <1>9, <2>3 DEF Step
  <2> QED BY <1>2, <1>4, <2>1, <2>2, <2>3
<1> QED BY <1>10, <1>11

(* types.go, http.go, sparkv.go: every variable has its type; a sequence's *)
(* number is one given or -1, and never beyond what requests were accepted *)
(* for, of which those still waiting for the lock take a number each.      *)
THEOREM ServerTypesHold == Finite => (Spec => []TypeOK)
<1>1. Finite => (BoundInv => TypeOK)
  <2> SUFFICES ASSUME Finite, BoundInv PROVE TypeOK
    OBVIOUS
  <2>1. Shape /\ MaxSeq \in Nat
    BY DEF Finite, BoundInv, WithinBound, NumbersGiven, SequenceInv, LockInv
  <2>2. seq \in [Keys -> -1..MaxSeq]
    <3>1. ASSUME NEW k \in Keys PROVE seq[k] \in -1..MaxSeq
      <4>1. seq[k] \in Int /\ -1 <= seq[k] /\ seq[k] + Cardinality(Awaiting(k)) <= MaxSeq
        BY <2>1 DEF BoundInv, WithinBound, NumbersGiven, Shape
      <4>2. Cardinality(Awaiting(k)) \in Nat
        BY AwaitingFinite
      <4> QED BY <2>1, <4>1, <4>2
    <3> QED BY <2>1, <3>1 DEF Shape
  <2>3. given \in [Keys -> SUBSET (0..MaxSeq)] /\ reply \in [Clients -> Nat] /\ up \in BOOLEAN
    BY <2>1 DEF BoundInv, WithinBound, NumbersGiven, Shape
  <2> QED BY <2>1, <2>2, <2>3 DEF TypeOK, Shape, Locks, Labels
<1>2. Finite /\ Init => BoundInv
  BY BoundInit
<1>3. Finite /\ BoundInv /\ [Next]_vars => BoundInv'
  BY BoundStep
<1>4. SUFFICES ASSUME Finite PROVE Spec => []TypeOK
  OBVIOUS
<1>5. Init => BoundInv
  BY <1>2, <1>4
<1>6. BoundInv /\ [Next]_vars => BoundInv'
  BY <1>3, <1>4
<1>7. BoundInv => TypeOK
  BY <1>1, <1>4
<1> QED BY <1>5, <1>6, <1>7, PTL DEF Spec
=============================================================================
