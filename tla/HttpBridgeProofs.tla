-------------------------- MODULE HttpBridgeProofs --------------------------
(***************************************************************************)
(* Theorems about HttpBridge, for any number of requests and of spurious   *)
(* wake-ups.  Every safety property the TLC run checks follows from one    *)
(* inductive invariant, whose parts say what each thread knows of the      *)
(* other while it is at a given place.                                     *)
(***************************************************************************)
EXTENDS HttpBridge, TLAPS

Serving == {"setreq", "setresp", "broadcast", "lock", "wait", "waiting",
            "woken", "unlock", "respond"}
Published == Serving \ {"setreq", "setresp"}

(* No number runs ahead of the requests accepted, and the request being    *)
(* served is not freed yet.                                                *)
Numbers ==
  /\ shared.req \in 0..last /\ shared.resp \in 0..last
  /\ filled \subseteq 0..last
  /\ freed \subseteq 1..last
  /\ http \in Serving => last # 0 /\ last \notin freed

(* The pointers are set one by one, and both stay until the next request.  *)
Pointers ==
  /\ http = "setresp" => shared.req = last
  /\ http \in Published => shared.req = last /\ shared.resp = last

(* The rendezvous, until a wait returns spuriously: the Scheme thread has  *)
(* been woken only by the request being served, which waits for it.        *)
Rendezvous ==
  spurious = 0 =>
    /\ http \in {"setreq", "setresp", "broadcast"} => last \notin filled
    /\ scheme \in {"woken", "handling", "broadcast"} => http \in {"lock", "wait", "waiting"}
    /\ scheme \in {"woken", "handling"} => last \notin filled
    /\ scheme = "broadcast" => last \in filled
    /\ http \in {"woken", "unlock", "respond"} => last \in filled

BridgeInv == TypeOK /\ Numbers /\ Pointers /\ Rendezvous

(* The invariant holds when the server starts (start-server.h:56-66).      *)
LEMMA InitBridgeInv == Init => BridgeInv
<1> SUFFICES ASSUME Init PROVE BridgeInv
  OBVIOUS
<1>1. TypeOK
  <2>1. http \in HttpStates /\ scheme \in SchemeStates
    BY DEF Init, HttpStates, SchemeStates
  <2>2. shared \in [req : 0..MaxRequests, resp : 0..MaxRequests]
    BY BridgeAssumption DEF Init
  <2>3. last \in 0..MaxRequests /\ spurious \in 0..MaxSpurious
    BY BridgeAssumption DEF Init
  <2>4. /\ owner \in {"http", "scheme", "none"} /\ lost \in BOOLEAN
        /\ owner = "http" <=> http \in {"wait", "unlock"}
        /\ owner = "scheme" <=> scheme = "wait"
    BY DEF Init
  <2>5. filled \subseteq 0..MaxRequests /\ freed \subseteq 1..MaxRequests
    BY DEF Init
  <2> QED  BY <2>1, <2>2, <2>3, <2>4, <2>5 DEF TypeOK
<1>2. Numbers
  BY DEF Init, Numbers, Serving
<1>3. Pointers /\ Rendezvous
  BY DEF Init, Pointers, Rendezvous, Serving, Published
<1> QED  BY <1>1, <1>2, <1>3 DEF BridgeInv

(* Types: only Accept counts, and only up to its bound.                    *)
LEMMA NextTypeOK == BridgeInv /\ [Next]_vars => TypeOK'
<1> SUFFICES ASSUME TypeOK, Numbers, [Next]_vars PROVE TypeOK'
  BY DEF BridgeInv
<1> USE BridgeAssumption DEF TypeOK, HttpStates, SchemeStates
<1>1. CASE Accept  BY <1>1 DEF Accept
<1>2. CASE SetRequest  BY <1>2 DEF SetRequest
<1>3. CASE SetResponse  BY <1>3 DEF SetResponse
<1>4. CASE HttpBroadcast  BY <1>4 DEF HttpBroadcast
<1>5. CASE HttpLock \/ HttpWait \/ HttpRelock \/ HttpUnlock
  BY <1>5 DEF HttpLock, HttpWait, HttpRelock, HttpUnlock
<1>6. CASE Respond  BY <1>6 DEF Respond, Numbers, Serving
<1>7. CASE SchemeLock \/ SchemeWait \/ Handle \/ Iterate
  BY <1>7 DEF SchemeLock, SchemeWait, Handle, Iterate
<1>8. CASE Handled  BY <1>8 DEF Handled
<1>9. CASE SchemeBroadcast  BY <1>9 DEF SchemeBroadcast
<1>10. CASE SpuriousWakeup  BY <1>10 DEF SpuriousWakeup
<1>11. CASE UNCHANGED vars  BY <1>11 DEF vars
<1> QED
  BY <1>1, <1>2, <1>3, <1>4, <1>5, <1>6, <1>7, <1>8, <1>9, <1>10, <1>11
  DEF Next, HttpThread, SchemeThread

(* Numbers: a request is freed by the step that stops serving it.          *)
LEMMA NextNumbers == BridgeInv /\ [Next]_vars => Numbers'
<1> SUFFICES ASSUME TypeOK, Numbers, Pointers, [Next]_vars PROVE Numbers'
  BY DEF BridgeInv
<1> USE BridgeAssumption DEF TypeOK, HttpStates, Numbers, Serving
<1>1. CASE Accept  BY <1>1 DEF Accept
<1>2. CASE SetRequest  BY <1>2 DEF SetRequest
<1>3. CASE SetResponse  BY <1>3 DEF SetResponse
<1>4. CASE HttpBroadcast  BY <1>4 DEF HttpBroadcast
<1>5. CASE HttpLock \/ HttpWait \/ HttpRelock \/ HttpUnlock
  BY <1>5 DEF HttpLock, HttpWait, HttpRelock, HttpUnlock
<1>6. CASE Respond  BY <1>6 DEF Respond
<1>7. CASE SchemeLock \/ SchemeWait \/ Handle \/ Iterate
  BY <1>7 DEF SchemeLock, SchemeWait, Handle, Iterate
<1>8. CASE Handled  BY <1>8 DEF Handled
<1>9. CASE SchemeBroadcast  BY <1>9 DEF SchemeBroadcast
<1>10. CASE SpuriousWakeup  BY <1>10 DEF SpuriousWakeup
<1>11. CASE UNCHANGED vars  BY <1>11 DEF vars
<1> QED
  BY <1>1, <1>2, <1>3, <1>4, <1>5, <1>6, <1>7, <1>8, <1>9, <1>10, <1>11
  DEF Next, HttpThread, SchemeThread

(* Pointers: they change only where the C thread is not past its broadcast. *)
LEMMA NextPointers == BridgeInv /\ [Next]_vars => Pointers'
<1> SUFFICES ASSUME TypeOK, Pointers, [Next]_vars PROVE Pointers'
  BY DEF BridgeInv
<1> USE DEF Pointers, Serving, Published
<1>1. CASE Accept  BY <1>1 DEF Accept
<1>2. CASE SetRequest  BY <1>2 DEF SetRequest, TypeOK
<1>3. CASE SetResponse  BY <1>3 DEF SetResponse, TypeOK
<1>4. CASE HttpBroadcast  BY <1>4 DEF HttpBroadcast
<1>5. CASE HttpLock \/ HttpWait \/ HttpRelock \/ HttpUnlock
  BY <1>5 DEF HttpLock, HttpWait, HttpRelock, HttpUnlock
<1>6. CASE Respond  BY <1>6 DEF Respond
<1>7. CASE SchemeLock \/ SchemeWait \/ Handle \/ Handled \/ Iterate
  BY <1>7 DEF SchemeLock, SchemeWait, Handle, Handled, Iterate
<1>8. CASE SchemeBroadcast  BY <1>8 DEF SchemeBroadcast
<1>9. CASE SpuriousWakeup  BY <1>9 DEF SpuriousWakeup
<1>10. CASE UNCHANGED vars  BY <1>10 DEF vars
<1> QED
  BY <1>1, <1>2, <1>3, <1>4, <1>5, <1>6, <1>7, <1>8, <1>9, <1>10
  DEF Next, HttpThread, SchemeThread

(* Rendezvous: a new request is not filled in, the broadcast of one wakes  *)
(* the Scheme thread, and that thread's broadcast comes after its handler. *)
LEMMA NextRendezvous == BridgeInv /\ [Next]_vars => Rendezvous'
<1> SUFFICES ASSUME BridgeInv, [Next]_vars, spurious' = 0 PROVE Rendezvous'
  BY DEF Rendezvous
<1>0. spurious = 0 \/ SpuriousWakeup
  BY DEF Next, HttpThread, SchemeThread, vars, Accept, SetRequest, SetResponse, HttpBroadcast,
         HttpLock, HttpWait, HttpRelock, HttpUnlock, Respond, SchemeLock, SchemeWait, Handle,
         Handled, SchemeBroadcast, Iterate
<1> USE DEF BridgeInv, Rendezvous
<1>1. CASE Accept
  BY <1>0, <1>1 DEF Accept, SpuriousWakeup, Numbers, TypeOK
<1>2. CASE SetRequest \/ SetResponse
  BY <1>0, <1>2 DEF SetRequest, SetResponse, SpuriousWakeup, TypeOK
<1>3. CASE HttpBroadcast  BY <1>0, <1>3 DEF HttpBroadcast, SpuriousWakeup, TypeOK
<1>4. CASE HttpLock \/ HttpWait \/ HttpRelock \/ HttpUnlock
  BY <1>0, <1>4 DEF HttpLock, HttpWait, HttpRelock, HttpUnlock, SpuriousWakeup, TypeOK
<1>5. CASE Respond  BY <1>0, <1>5 DEF Respond, SpuriousWakeup, TypeOK
<1>6. CASE SchemeLock \/ SchemeWait \/ Handle \/ Iterate
  BY <1>0, <1>6 DEF SchemeLock, SchemeWait, Handle, Iterate, SpuriousWakeup, TypeOK
<1>7. CASE Handled
  BY <1>0, <1>7 DEF Handled, SpuriousWakeup, TypeOK, Pointers, Serving, Published
<1>8. CASE SchemeBroadcast  BY <1>0, <1>8 DEF SchemeBroadcast, SpuriousWakeup, TypeOK
<1>9. CASE SpuriousWakeup  BY <1>9 DEF SpuriousWakeup, TypeOK
<1>10. CASE UNCHANGED vars  BY <1>10 DEF vars
<1> QED
  BY <1>1, <1>2, <1>3, <1>4, <1>5, <1>6, <1>7, <1>8, <1>9, <1>10
  DEF Next, HttpThread, SchemeThread

(* The invariant holds in every state of the bridge. *)
THEOREM Bridging == Spec => []BridgeInv
<1>1. BridgeInv /\ [Next]_vars => BridgeInv'
  BY NextTypeOK, NextNumbers, NextPointers, NextRendezvous DEF BridgeInv
<1> QED  BY InitBridgeInv, <1>1, PTL DEF Spec

(* Every variable keeps its type, and no thread waits with a mutex or      *)
(* unlocks one that it does not own (start-server.h:41-43).                *)
THEOREM BridgeTyping == Spec => []TypeOK
<1>1. BridgeInv => TypeOK  BY DEF BridgeInv
<1> QED  BY Bridging, <1>1, PTL

(* Until a wait returns spuriously, the handler works on the request being *)
(* served, once, and on a response not freed (http-server.sld:110).        *)
THEOREM HandlersSeeTheRequest == Spec => []HandlerSeesTheRequest
<1>1. BridgeInv => HandlerSeesTheRequest
  BY DEF BridgeInv, TypeOK, Numbers, Pointers, Rendezvous, Serving, Published,
         HandlerSeesTheRequest
<1> QED  BY Bridging, <1>1, PTL

(* Until a wait returns spuriously, no response leaves before the handler  *)
(* has filled it in, lost wake-ups or not (start-server.h:39-45).          *)
THEOREM ResponsesAreFilled == Spec => []RespondAfterHandler
<1>1. BridgeInv => RespondAfterHandler
  BY DEF BridgeInv, Rendezvous, RespondAfterHandler
<1> QED  BY Bridging, <1>1, PTL

(* However many waits return spuriously, the shared pointers are stale     *)
(* only before a request is published (start-server.h:33-37).              *)
THEOREM PublishedPointersAreFresh == Spec => []StaleOnlyBeforeBroadcast
<1>1. BridgeInv => StaleOnlyBeforeBroadcast
  BY DEF BridgeInv, TypeOK, HttpStates, Numbers, Pointers, Serving, Published,
         StaleOnlyBeforeBroadcast
<1> QED  BY Bridging, <1>1, PTL
=============================================================================
