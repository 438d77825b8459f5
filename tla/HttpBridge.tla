------------------------------ MODULE HttpBridge ------------------------------
(***************************************************************************)
(* The rendezvous between the C thread that serves HTTP and the Scheme     *)
(* thread that computes responses (http/start-server.h, http-server.sld).  *)
(* One mutex and one condition variable carry both wake-ups: "a request is *)
(* there" and "the response is ready".  Neither side tests a predicate.    *)
(*                                                                         *)
(* Requests are numbered; a request's response has its number.  0 is the   *)
(* NULL both shared pointers hold before the first request.                *)
(***************************************************************************)
EXTENDS Integers

CONSTANTS
  MaxRequests,  \* bound: requests accepted
  MaxSpurious   \* bound: waits that return without a broadcast

ASSUME BridgeAssumption == MaxRequests \in Nat /\ MaxSpurious \in Nat

VARIABLES
  http,     \* where the C thread is
  scheme,   \* where the Scheme thread is
  owner,    \* who holds the mutex: "http", "scheme" or "none"
  shared,   \* the request and the response the shared pointers point to
  last,     \* how many requests were accepted
  filled,   \* the responses a handler has filled in
  freed,    \* the requests answered, whose response http_respond has freed
  lost,     \* history: some broadcast found the other thread not waiting
  spurious  \* how many waits returned without a broadcast

vars == <<http, scheme, owner, shared, last, filled, freed, lost, spurious>>

HttpStates == {"listen", "setreq", "setresp", "broadcast", "lock", "wait",
               "waiting", "woken", "unlock", "respond"}
SchemeStates == {"lock", "wait", "waiting", "woken", "handling", "broadcast", "print"}

Init ==
  /\ http = "listen"
  /\ scheme = "lock"
  /\ owner = "none"
  /\ shared = [req |-> 0, resp |-> 0]
  /\ last = 0
  /\ filled = {}
  /\ freed = {}
  /\ lost = FALSE
  /\ spurious = 0
-----------------------------------------------------------------------------
(* The C thread: handle_request *)

(* Mutant: the Scheme thread is woken before the pointers are set. *)
AcceptAndWake ==
  /\ http = "listen" /\ last < MaxRequests
  /\ last' = last + 1
  /\ http' = "setreq"
  /\ scheme' = IF scheme = "waiting" THEN "woken" ELSE scheme
  /\ UNCHANGED <<owner, shared, filled, freed, lost, spurious>>

Accept ==
  /\ http = "listen" /\ last < MaxRequests
  /\ last' = last + 1
  /\ http' = "setreq"
  /\ UNCHANGED <<scheme, owner, shared, filled, freed, lost, spurious>>

(* Mutant: the response pointer is not set. *)
SetRequestOnly ==
  /\ http = "setreq"
  /\ shared' = [shared EXCEPT !.req = last]
  /\ http' = "broadcast"
  /\ UNCHANGED <<scheme, owner, last, filled, freed, lost, spurious>>

SetRequest ==
  /\ http = "setreq"
  /\ shared' = [shared EXCEPT !.req = last]
  /\ http' = "setresp"
  /\ UNCHANGED <<scheme, owner, last, filled, freed, lost, spurious>>

SetResponse ==
  /\ http = "setresp"
  /\ shared' = [shared EXCEPT !.resp = last]
  /\ http' = "broadcast"
  /\ UNCHANGED <<scheme, owner, last, filled, freed, lost, spurious>>

(* pthread_cond_broadcast, without the mutex. *)
HttpBroadcast ==
  /\ http = "broadcast"
  /\ http' = "lock"
  /\ scheme' = IF scheme = "waiting" THEN "woken" ELSE scheme
  /\ lost' = (lost \/ scheme # "waiting")
  /\ UNCHANGED <<owner, shared, last, filled, freed, spurious>>

(* Mutant: the mutex is not taken before the wait. *)
HttpLockMissing ==
  /\ http = "lock"
  /\ http' = "wait"
  /\ UNCHANGED <<scheme, owner, shared, last, filled, freed, lost, spurious>>

(* Mutant: the C thread does not wait. *)
HttpLockOnly ==
  /\ http = "lock" /\ owner = "none"
  /\ owner' = "http"
  /\ http' = "unlock"
  /\ UNCHANGED <<scheme, shared, last, filled, freed, lost, spurious>>

HttpLock ==
  /\ http = "lock" /\ owner = "none"
  /\ owner' = "http"
  /\ http' = "wait"
  /\ UNCHANGED <<scheme, shared, last, filled, freed, lost, spurious>>

(* pthread_cond_wait releases the mutex and sleeps in one step ... *)
HttpWait ==
  /\ http = "wait"
  /\ owner' = "none"
  /\ http' = "waiting"
  /\ UNCHANGED <<scheme, shared, last, filled, freed, lost, spurious>>

(* ... and takes it again before it returns. *)
HttpRelock ==
  /\ http = "woken" /\ owner = "none"
  /\ owner' = "http"
  /\ http' = "unlock"
  /\ UNCHANGED <<scheme, shared, last, filled, freed, lost, spurious>>

HttpUnlock ==
  /\ http = "unlock"
  /\ owner' = "none"
  /\ http' = "respond"
  /\ UNCHANGED <<scheme, shared, last, filled, freed, lost, spurious>>

(* http_respond sends the response and frees it. *)
Respond ==
  /\ http = "respond"
  /\ freed' = freed \cup {last}
  /\ http' = "listen"
  /\ UNCHANGED <<scheme, owner, shared, last, filled, lost, spurious>>
-----------------------------------------------------------------------------
(* The Scheme thread: the loop of make-http-server *)

SchemeLock ==
  /\ scheme = "lock" /\ owner = "none"
  /\ owner' = "scheme"
  /\ scheme' = "wait"
  /\ UNCHANGED <<http, shared, last, filled, freed, lost, spurious>>

(* (mutex-unlock! lock cv) *)
SchemeWait ==
  /\ scheme = "wait"
  /\ owner' = "none"
  /\ scheme' = "waiting"
  /\ UNCHANGED <<http, shared, last, filled, freed, lost, spurious>>

(* Mutant: the broadcast comes before the handler has run. *)
HandleAfterBroadcast ==
  /\ scheme = "woken"
  /\ scheme' = "handling"
  /\ http' = IF http = "waiting" THEN "woken" ELSE http
  /\ UNCHANGED <<owner, shared, last, filled, freed, lost, spurious>>

Handle ==
  /\ scheme = "woken"
  /\ scheme' = "handling"
  /\ UNCHANGED <<http, owner, shared, last, filled, freed, lost, spurious>>

(* handle-request returns, having written to what resp points to. *)
Handled ==
  /\ scheme = "handling"
  /\ filled' = filled \cup {shared.resp}
  /\ scheme' = "broadcast"
  /\ UNCHANGED <<http, owner, shared, last, freed, lost, spurious>>

(* Mutant: nothing is broadcast. *)
SchemeNoBroadcast ==
  /\ scheme = "broadcast"
  /\ scheme' = "print"
  /\ lost' = (lost \/ http # "waiting")
  /\ UNCHANGED <<http, owner, shared, last, filled, freed, spurious>>

SchemeBroadcast ==
  /\ scheme = "broadcast"
  /\ scheme' = "print"
  /\ http' = IF http = "waiting" THEN "woken" ELSE http
  /\ lost' = (lost \/ http # "waiting")
  /\ UNCHANGED <<owner, shared, last, filled, freed, spurious>>

(* (write `(iterate loop)) *)
Iterate ==
  /\ scheme = "print"
  /\ scheme' = "lock"
  /\ UNCHANGED <<http, owner, shared, last, filled, freed, lost, spurious>>
-----------------------------------------------------------------------------
(* POSIX lets a wait return for no reason. *)
SpuriousWakeup ==
  /\ spurious < MaxSpurious
  /\ spurious' = spurious + 1
  /\ \/ http = "waiting" /\ http' = "woken" /\ UNCHANGED scheme
     \/ scheme = "waiting" /\ scheme' = "woken" /\ UNCHANGED http
  /\ UNCHANGED <<owner, shared, last, filled, freed, lost>>

HttpThread ==
  \/ SetRequest \/ SetResponse \/ HttpBroadcast \/ HttpLock \/ HttpWait
  \/ HttpRelock \/ HttpUnlock \/ Respond

SchemeThread ==
  SchemeLock \/ SchemeWait \/ Handle \/ Handled \/ SchemeBroadcast \/ Iterate

Next == Accept \/ HttpThread \/ SchemeThread \/ SpuriousWakeup

Spec == Init /\ [][Next]_vars

(* Both threads are scheduled; requests need not come. *)
FairSpec == Spec /\ WF_vars(HttpThread) /\ WF_vars(SchemeThread)
-----------------------------------------------------------------------------
(* Properties *)

(* Every variable has its type, and each thread owns the mutex exactly     *)
(* where it calls what only the owner may call: pthread_cond_wait and      *)
(* pthread_mutex_unlock, or mutex-unlock!.                                 *)
TypeOK ==
  /\ http \in HttpStates
  /\ scheme \in SchemeStates
  /\ owner \in {"http", "scheme", "none"}
  /\ owner = "http" <=> http \in {"wait", "unlock"}
  /\ owner = "scheme" <=> scheme = "wait"
  /\ shared \in [req : 0..MaxRequests, resp : 0..MaxRequests]
  /\ last \in 0..MaxRequests
  /\ filled \subseteq 0..MaxRequests
  /\ freed \subseteq 1..MaxRequests
  /\ lost \in BOOLEAN
  /\ spurious \in 0..MaxSpurious

(* As long as no wait has returned spuriously, the handler works on the    *)
(* request being served and on its response: not on NULL, not on a request *)
(* and a response that do not belong together, not on one that             *)
(* http_respond has freed (http-server.sld:110).                           *)
HandlerSeesTheRequest ==
  scheme = "handling" /\ spurious = 0 =>
    /\ shared.req = shared.resp
    /\ shared.resp \in 1..last \ (filled \cup freed)

(* A response is sent only when the handler has filled it in: "when scheme *)
(* is done, it needs to do its own broadcast to wake us back up"           *)
(* (start-server.h:39-40).  A spurious wake-up would break this, for the   *)
(* wait tests no predicate.                                                *)
RespondAfterHandler == http = "respond" /\ spurious = 0 => last \in filled

(* Every accepted request is answered: "Wake up SCM thread"                *)
(* (start-server.h:36), "broadcast back to http thread that response is    *)
(* ready" (http-server.sld:112).                                           *)
RequestsAreAnswered == http = "setreq" ~> http = "listen"

(* Lost wake-ups are the only thing that keeps a request from its answer.  *)
AnsweredUnlessWakeupLost == [](~lost) => RequestsAreAnswered

(* A lost wake-up is final: with no spurious wake-up to repair it, both    *)
(* threads end up waiting for each other for ever.                         *)
BothWaiting == http = "waiting" /\ scheme = "waiting"
LostWakeupStopsServer == [](spurious = 0) => [](lost => <>[]BothWaiting)

(* Even with spurious wake-ups, the shared pointers are dangling (NULL or  *)
(* freed) or mismatched only before a request is published: a handler that *)
(* starts after the C thread's broadcast has the right pair, whatever woke *)
(* it (start-server.h:33-37 publishes before it broadcasts).               *)
StaleOnlyBeforeBroadcast ==
  shared.req # shared.resp \/ shared.resp \in {0} \cup freed =>
    http \in {"listen", "setreq", "setresp"}
=============================================================================
