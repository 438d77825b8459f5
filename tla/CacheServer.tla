----------------------------- MODULE CacheServer -----------------------------
(***************************************************************************)
(* The in-memory server of sparkv: the key/value Map and the Sequence of   *)
(* go/kv-store/cache, each a Go map under a sync.RWMutex, served over HTTP *)
(* with one goroutine per request, and the statistics handler of           *)
(* sparkv.go, which lists the Map to its client under the read lock.       *)
(*                                                                         *)
(* A client is a connection with at most one request in progress.  The     *)
(* model stops at every point where a goroutine can be descheduled, wait   *)
(* for a lock, or wait for its client.                                     *)
(***************************************************************************)
EXTENDS Integers, FiniteSets

CONSTANTS
  Clients,  \* connections
  Keys,     \* request paths
  Values,   \* bodies
  Absent,   \* no value for a key
  None,     \* no client
  Ops,      \* the requests made: bounds a run to some of the handlers
  MaxSeq    \* bound: requests are accepted up to this sequence number

VARIABLES
  up,     \* whether the server process runs
  data,   \* Map.Data
  seq,    \* Sequence.Data, -1 for a key it does not hold
  lock,   \* the RWMutex of each
  pc,     \* where each client's goroutine is
  req,    \* the request it serves
  reply,  \* the sequence number it will answer, or statistics' key count
  listed, \* the keys a statistics goroutine has collected
  given   \* history: the numbers read for each key since its deletion

vars == <<up, data, seq, lock, pc, req, reply, listed, given>>

ASSUME OpsAssumption ==
  Ops \subseteq {"get", "put", "delete", "increment", "seqdelete", "stats"}
ASSUME NamesAssumption == None \notin Clients /\ Absent \notin Values

Reads == {"get", "stats"}
Request == [op : Ops, key : Keys, val : Values]
NoRequest == [op |-> "none", key |-> None, val |-> Absent]
Maps == {"map", "sequence"}

MapOf(c) == IF req[c].op \in {"increment", "seqdelete"} THEN "sequence" ELSE "map"
Present == {k \in Keys : data[k] # Absent}

(* A goroutine is in the critical section of its map's lock. *)
Reading(c) == pc[c] \in {"read", "keys", "send", "runlock"}
Writing(c) == pc[c] \in {"write", "result", "unlock"}

Init ==
  /\ up = TRUE
  /\ data = [k \in Keys |-> Absent]
  /\ seq = [k \in Keys |-> -1]
  /\ lock = [m \in Maps |-> [claim |-> None, readers |-> {}, queued |-> {}]]
  /\ pc = [c \in Clients |-> "idle"]
  /\ req = [c \in Clients |-> NoRequest]
  /\ reply = [c \in Clients |-> 0]
  /\ listed = [c \in Clients |-> {}]
  /\ given = [k \in Keys |-> {}]

Goto(c, label) == pc' = [pc EXCEPT ![c] = label]
-----------------------------------------------------------------------------
(* sync.RWMutex.  A writer first claims the mutex, which holds back later  *)
(* readers, then waits for the readers inside to leave.  Its Unlock lets   *)
(* every reader in that queued behind it.                                  *)

RLock(c) ==
  LET l == lock[MapOf(c)]
  IN  /\ pc[c] = "rlock"
      /\ IF l.claim = None
         THEN /\ lock' = [lock EXCEPT ![MapOf(c)].readers = @ \cup {c}]
              /\ Goto(c, "read")
         ELSE /\ lock' = [lock EXCEPT ![MapOf(c)].queued = @ \cup {c}]
              /\ Goto(c, "rwait")
      /\ UNCHANGED <<up, data, seq, req, reply, listed, given>>

RUnlock(c) ==
  /\ pc[c] = "runlock"
  /\ lock' = [lock EXCEPT ![MapOf(c)].readers = @ \ {c}]
  /\ Goto(c, "respond")
  /\ UNCHANGED <<up, data, seq, req, reply, listed, given>>

Claim(c) ==
  /\ pc[c] = "lock"
  /\ lock[MapOf(c)].claim = None
  /\ lock' = [lock EXCEPT ![MapOf(c)].claim = c]
  /\ Goto(c, "claimed")
  /\ UNCHANGED <<up, data, seq, req, reply, listed, given>>

Lock(c) ==
  /\ pc[c] = "claimed"
  /\ lock[MapOf(c)].readers = {}
  /\ Goto(c, "write")
  /\ UNCHANGED <<up, data, seq, lock, req, reply, listed, given>>

Unlock(c) ==
  LET l == lock[MapOf(c)]
  IN  /\ pc[c] = "unlock"
      /\ lock' = [lock EXCEPT ![MapOf(c)] =
                    [claim |-> None, readers |-> l.readers \cup l.queued, queued |-> {}]]
      /\ pc' = [d \in Clients |-> CASE d = c -> "respond"
                                    [] d \in l.queued -> "read"
                                    [] OTHER -> pc[d]]
      /\ UNCHANGED <<up, data, seq, req, reply, listed, given>>
-----------------------------------------------------------------------------
(* ServeHTTP of Map and Sequence *)

(* The request line and headers have arrived.  The body is read before any *)
(* lock is taken.                                                          *)
Accept(c, r) ==
  /\ pc[c] = "idle"
  /\ r.op = "increment" =>
       seq[r.key] + Cardinality({d \in Clients : req[d].op = "increment"}) < MaxSeq
  /\ req' = [req EXCEPT ![c] = r]
  /\ Goto(c, CASE r.op \in Reads -> "rlock"
               [] r.op = "put" -> "body"
               [] OTHER -> "lock")
  /\ UNCHANGED <<up, data, seq, lock, reply, listed, given>>

(* Mutant: Set is called without Lock. *)
ReadBodyOnly(c) ==
  /\ pc[c] = "body"
  /\ Goto(c, "write")
  /\ UNCHANGED <<up, data, seq, lock, req, reply, listed, given>>

ReadBody(c) ==
  /\ pc[c] = "body"
  /\ Goto(c, "lock")
  /\ UNCHANGED <<up, data, seq, lock, req, reply, listed, given>>

(* The upload breaks off: log.Fatalln ends the whole process. *)
BodyFails(c) ==
  /\ pc[c] = "body"
  /\ up' = FALSE
  /\ pc' = [d \in Clients |-> "dead"]
  /\ UNCHANGED <<data, seq, lock, req, reply, listed, given>>

(* Mutant: the handler returns without RUnlock. *)
GetKeepingLock(c) ==
  /\ pc[c] = "read" /\ req[c].op = "get"
  /\ Goto(c, "respond")
  /\ UNCHANGED <<up, data, seq, lock, req, reply, listed, given>>

Get(c) ==
  /\ pc[c] = "read" /\ req[c].op = "get"
  /\ Goto(c, "runlock")
  /\ UNCHANGED <<up, data, seq, lock, req, reply, listed, given>>

Set(c) ==
  /\ pc[c] = "write" /\ req[c].op = "put"
  /\ data' = [data EXCEPT ![req[c].key] = req[c].val]
  /\ Goto(c, "unlock")
  /\ UNCHANGED <<up, seq, lock, req, reply, listed, given>>

Delete(c) ==
  /\ pc[c] = "write" /\ req[c].op = "delete"
  /\ data' = [data EXCEPT ![req[c].key] = Absent]
  /\ Goto(c, "unlock")
  /\ UNCHANGED <<up, seq, lock, req, reply, listed, given>>

(* Mutant: the lock is released before the result is read. *)
IncrementUnlocking(c) ==
  /\ pc[c] = "write" /\ req[c].op = "increment"
  /\ seq' = [seq EXCEPT ![req[c].key] = @ + 1]
  /\ lock' = [lock EXCEPT ![MapOf(c)].claim = None]
  /\ Goto(c, "result")
  /\ UNCHANGED <<up, data, req, reply, listed, given>>

(* Mutant: a present key is incremented twice. *)
IncrementTwice(c) ==
  /\ pc[c] = "write" /\ req[c].op = "increment"
  /\ seq' = [seq EXCEPT ![req[c].key] = @ + 2]
  /\ Goto(c, "result")
  /\ UNCHANGED <<up, data, lock, req, reply, listed, given>>

(* Increment writes the next number, a new key's being 0 ... *)
Increment(c) ==
  /\ pc[c] = "write" /\ req[c].op = "increment"
  /\ seq' = [seq EXCEPT ![req[c].key] = @ + 1]
  /\ Goto(c, "result")
  /\ UNCHANGED <<up, data, lock, req, reply, listed, given>>

(* ... and reads it back as the result. *)
Result(c) ==
  LET k == req[c].key
  IN  /\ pc[c] = "result"
      /\ reply' = [reply EXCEPT ![c] = seq[k]]
      /\ given' = [given EXCEPT ![k] = @ \cup {seq[k]}]
      /\ Goto(c, "unlock")
      /\ UNCHANGED <<up, data, seq, lock, req, listed>>

SeqDelete(c) ==
  /\ pc[c] = "write" /\ req[c].op = "seqdelete"
  /\ seq' = [seq EXCEPT ![req[c].key] = -1]
  /\ given' = [given EXCEPT ![req[c].key] = {}]
  /\ Goto(c, "unlock")
  /\ UNCHANGED <<up, data, lock, req, reply, listed>>

(* The response is written with no lock held. *)
Respond(c) ==
  /\ pc[c] = "respond"
  /\ Goto(c, "idle")
  /\ req' = [req EXCEPT ![c] = NoRequest]
  /\ reply' = [reply EXCEPT ![c] = 0]
  /\ listed' = [listed EXCEPT ![c] = {}]
  /\ UNCHANGED <<up, data, seq, lock, given>>
-----------------------------------------------------------------------------
(* /api/stats: the handler keeps the read lock while it writes to w.       *)

(* Mutant: the lock is released once the keys are counted. *)
StatsCountUnlocking(c) ==
  /\ pc[c] = "read" /\ req[c].op = "stats"
  /\ reply' = [reply EXCEPT ![c] = Cardinality(Present)]
  /\ lock' = [lock EXCEPT ![MapOf(c)].readers = @ \ {c}]
  /\ Goto(c, "keys")
  /\ UNCHANGED <<up, data, seq, req, listed, given>>

(* It writes the number of keys and makes a slice of that length. *)
StatsCount(c) ==
  /\ pc[c] = "read" /\ req[c].op = "stats"
  /\ reply' = [reply EXCEPT ![c] = Cardinality(Present)]
  /\ Goto(c, "keys")
  /\ UNCHANGED <<up, data, seq, lock, req, listed, given>>

(* keys[i] = k: one turn of the loop over the map. *)
StatsCollect(c) ==
  /\ pc[c] = "keys"
  /\ \E k \in Present \ listed[c] : listed' = [listed EXCEPT ![c] = @ \cup {k}]
  /\ UNCHANGED <<up, data, seq, lock, pc, req, reply, given>>

StatsCollected(c) ==
  /\ pc[c] = "keys"
  /\ Present \subseteq listed[c]
  /\ Goto(c, "send")
  /\ UNCHANGED <<up, data, seq, lock, req, reply, listed, given>>

(* The client has taken the last line. *)
StatsSend(c) ==
  /\ pc[c] = "send"
  /\ Goto(c, "runlock")
  /\ UNCHANGED <<up, data, seq, lock, req, reply, listed, given>>
-----------------------------------------------------------------------------
(* What a goroutine does on its own, or with its client reading. *)
Step(c) ==
  \/ RLock(c) \/ RUnlock(c) \/ Lock(c) \/ Unlock(c)
  \/ Get(c) \/ Set(c) \/ Delete(c)
  \/ Increment(c) \/ Result(c) \/ SeqDelete(c)
  \/ StatsCount(c) \/ StatsCollect(c) \/ StatsCollected(c) \/ StatsSend(c)
  \/ Respond(c)

Next ==
  \E c \in Clients :
    \/ \E r \in Request : Accept(c, r)
    \/ ReadBody(c)
    \/ BodyFails(c)
    \/ Claim(c)
    \/ Step(c)

Spec == Init /\ [][Next]_vars

(* Goroutines are scheduled, clients read their responses, and the mutex   *)
(* among writers starves nobody (sync.Mutex's starvation mode).  Nothing   *)
(* makes a client send its next request or the rest of its body.           *)
FairSpec == Spec /\ \A c \in Clients : WF_vars(Step(c)) /\ SF_vars(Claim(c))
-----------------------------------------------------------------------------
(* Properties *)

(* Every variable has its type. *)
TypeOK ==
  /\ up \in BOOLEAN
  /\ data \in [Keys -> Values \cup {Absent}]
  /\ seq \in [Keys -> -1..MaxSeq]
  /\ lock \in [Maps -> [claim : Clients \cup {None},
                        readers : SUBSET Clients, queued : SUBSET Clients]]
  /\ pc \in [Clients -> {"idle", "rlock", "rwait", "read", "keys", "send", "runlock",
                         "body", "lock", "claimed", "write", "result", "unlock",
                         "respond", "dead"}]
  /\ req \in [Clients -> Request \cup {NoRequest}]
  /\ reply \in [Clients -> Nat]
  /\ listed \in [Clients -> SUBSET Keys]
  /\ given \in [Keys -> SUBSET (0..MaxSeq)]

(* No goroutine touches a Go map while another writes it, the "concurrent  *)
(* map read and map write" of the link at types.go:14, which ends the      *)
(* program.                                                                *)
NoConcurrentMapWrite ==
  \A c, d \in Clients :
    c # d /\ Writing(c) /\ (Reading(d) \/ Writing(d)) => MapOf(c) # MapOf(d)

(* Two GETs of a sequence never get the same number, unless the sequence   *)
(* was deleted in between (types.go:39-50).                                *)
NumbersAreUnique ==
  [][\A c \in Clients :
       pc[c] = "result" /\ pc'[c] = "unlock" => reply'[c] \notin given[req[c].key]]_vars

(* Statistics lists exactly the keys it counted: keys[i] stays inside the  *)
(* slice, and no entry of it is left empty (sparkv.go:44-50).              *)
StatsAreConsistent ==
  \A c \in Clients :
    /\ pc[c] \in {"keys", "send"} => Cardinality(listed[c]) <= reply[c]
    /\ pc[c] = "send" => Cardinality(listed[c]) = reply[c]

(* Every request whose body has arrived is answered, whatever bodies are   *)
(* still on their way, unless the process ends.                            *)
RequestsAreAnswered ==
  \A c \in Clients : pc[c] \notin {"idle", "body"} ~> (pc[c] = "idle" \/ ~up)
=============================================================================
