------------------------------ MODULE LinkedList ------------------------------
(***************************************************************************)
(* The singly-linked list of c-linked-list/linked-list.c.  A list is a     *)
(* pointer to a head node, whose value is not used, so any node of a list  *)
(* is the head of the list of the nodes after it: that is what list_cdr    *)
(* returns, and the client may add to, remove from or reverse such a rest. *)
(* A step is one round of an operation's loop.                             *)
(***************************************************************************)
EXTENDS Integers, Sequences, SequencesExt, FiniteSets, FiniteSetsExt

CONSTANTS
  Nodes,      \* what malloc can return; bounds the list
  Vals,       \* the values added
  MaxArray    \* bounds the array list_from_array takes

NULL == 0       \* no address: Nodes are the numbers from 1
Unset == -1     \* what list_car returns for an empty list

VARIABLES
  next, val,  \* the nodes
  live,       \* the nodes allocated
  head,       \* the list the client holds, or NULL
  pc,         \* "idle", or the operation that runs
  ptr, prev,  \* its cursor, and list_reverse's prev
  at,         \* the list it was called with: head or a list_cdr of it
  data,       \* the values still to add; the value to remove
  count,      \* list_length's count
  expect      \* history: what the list must be when the operation ends

vars == <<next, val, live, head, pc, ptr, prev, at, data, count, expect>>
nodes == <<next, val, live>>
locals == <<ptr, prev, at, data, count>>

Init ==
  /\ next = [n \in Nodes |-> NULL]
  /\ val = [n \in Nodes |-> Unset]
  /\ live = {} /\ head = NULL
  /\ pc = "idle" /\ ptr = NULL /\ prev = NULL /\ at = NULL
  /\ data = <<>> /\ count = -1
  /\ expect = <<>>

(* The operation ends, and its variables with it. *)
Returns ==
  /\ pc' = "idle"
  /\ ptr' = NULL /\ prev' = NULL /\ at' = NULL /\ data' = <<>> /\ count' = -1

list_cdr(h) == IF h = NULL THEN NULL ELSE next[h]

(* The i-th list_cdr of h. *)
Rest(h) == LET r[i \in Nat] == IF i = 0 THEN h ELSE list_cdr(r[i - 1]) IN r

Lists == {Rest(head)[i] : i \in 0..Cardinality(Nodes)} \ {NULL}

(* The values of list h, as list_print goes through them. *)
Contents(h) ==
  LET n == Cardinality(Nodes)
      end == Min({i \in 1..n + 1 : i = n + 1 \/ Rest(h)[i] = NULL})
  IN  [i \in 1..end - 1 |-> val[Rest(h)[i]]]

(* The values of s that are not v, in order. *)
Without(s, v) ==
  LET kept[n \in 0..Len(s)] ==
        IF n = 0 THEN <<>>
        ELSE IF s[n] = v THEN kept[n - 1] ELSE Append(kept[n - 1], s[n])
  IN  kept[Len(s)]

list_car(h) == IF h = NULL \/ list_cdr(h) = NULL THEN Unset ELSE val[next[h]]

(* The node malloc returns; no operation compares addresses, so any free   *)
(* one will do.  What a freed node holds is not kept.                      *)
New == Min(Nodes \ live)
Freed(n) ==
  /\ live' = live \ {n}
  /\ val' = [val EXCEPT ![n] = Unset]

(* A call on list h is to leave what comes before h, and to make s of h.   *)
Leaves(h, s) ==
  LET all == Contents(head)
  IN  expect' = SubSeq(all, 1, Len(all) - Len(Contents(h))) \o s
-----------------------------------------------------------------------------
(* list, list_from_array, list_destroy *)

(* malloc does not fail: what bounds the list is that calls need not do    *)
(* more than the nodes allow.                                              *)
Room(n) == Cardinality(Nodes \ live) >= n

list ==
  /\ pc = "idle" /\ head = NULL /\ Room(1)
  /\ live' = live \cup {New} /\ head' = New
  /\ next' = [next EXCEPT ![New] = NULL]
  /\ UNCHANGED <<val, pc, locals, expect>>

(* list(), then list_add for each value; of an empty array it is list().   *)
list_from_array(s) ==
  /\ pc = "idle" /\ head = NULL /\ Room(1 + Len(s))
  /\ live' = live \cup {New} /\ head' = New
  /\ next' = [next EXCEPT ![New] = NULL]
  /\ pc' = "add" /\ at' = New /\ ptr' = New /\ data' = s
  /\ expect' = s
  /\ UNCHANGED <<val, prev, count>>

list_destroy ==
  /\ pc = "idle" /\ head # NULL
  /\ pc' = "destroy" /\ ptr' = head /\ head' = NULL
  /\ expect' = <<>>
  /\ UNCHANGED <<nodes, prev, at, data, count>>

DestroyNode ==
  /\ pc = "destroy"
  /\ IF ptr = NULL
     THEN Returns /\ UNCHANGED <<live, next, val>>
     ELSE /\ ptr' = next[ptr]
          /\ Freed(ptr)
          /\ next' = [next EXCEPT ![ptr] = NULL]
          /\ UNCHANGED <<pc, prev, at, data, count>>
  /\ UNCHANGED <<head, expect>>
-----------------------------------------------------------------------------
(* list_add *)

list_add(h, v) ==
  /\ pc = "idle" /\ Room(1)
  /\ pc' = "add" /\ at' = h /\ ptr' = h /\ data' = <<v>>
  /\ Leaves(h, Append(Contents(h), v))
  /\ UNCHANGED <<nodes, head, prev, count>>

AddWalk ==
  /\ pc = "add" /\ next[ptr] # NULL
  /\ ptr' = next[ptr]
  /\ UNCHANGED <<nodes, head, pc, prev, at, data, count, expect>>

(* The new node goes behind the last; list_from_array starts over at the   *)
(* head with its next value.                                               *)
AddNode ==
  /\ pc = "add" /\ next[ptr] = NULL
  /\ live' = live \cup {New}
  /\ next' = [next EXCEPT ![ptr] = New, ![New] = NULL]
  /\ val' = [val EXCEPT ![New] = Head(data)]
  /\ IF Len(data) = 1
     THEN Returns
     ELSE data' = Tail(data) /\ ptr' = at /\ UNCHANGED <<pc, prev, at, count>>
  /\ UNCHANGED <<head, expect>>
-----------------------------------------------------------------------------
(* list_remove *)

list_remove(h, v) ==
  /\ pc = "idle"
  /\ pc' = "remove" /\ ptr' = h /\ data' = <<v>>
  /\ Leaves(h, Without(Contents(h), v))
  /\ UNCHANGED <<nodes, head, prev, at, count>>

(* Mutant: the cursor moves on after a removal too. *)
RemoveAndStep ==
  /\ pc = "remove" /\ next[ptr] # NULL
  /\ IF val[next[ptr]] = data[1]
     THEN /\ Freed(next[ptr])
          /\ next' = [next EXCEPT ![ptr] = next[next[ptr]], ![next[ptr]] = NULL]
          /\ ptr' = IF next'[ptr] = NULL THEN ptr ELSE next'[ptr]
     ELSE ptr' = next[ptr] /\ UNCHANGED nodes
  /\ UNCHANGED <<head, pc, prev, at, data, count, expect>>

RemoveNode ==
  /\ pc = "remove" /\ next[ptr] # NULL
  /\ IF val[next[ptr]] = data[1]
     THEN /\ Freed(next[ptr])
          /\ next' = [next EXCEPT ![ptr] = next[next[ptr]], ![next[ptr]] = NULL]
          /\ UNCHANGED ptr
     ELSE ptr' = next[ptr] /\ UNCHANGED nodes
  /\ UNCHANGED <<head, pc, prev, at, data, count, expect>>

RemoveEnds ==
  /\ pc = "remove" /\ next[ptr] = NULL
  /\ Returns
  /\ UNCHANGED <<nodes, head, expect>>
-----------------------------------------------------------------------------
(* list_reverse *)

list_reverse(h) ==
  /\ pc = "idle"
  /\ pc' = "reverse" /\ at' = h /\ ptr' = next[h] /\ prev' = NULL
  /\ Leaves(h, Reverse(Contents(h)))
  /\ UNCHANGED <<nodes, head, data, count>>

ReverseNode ==
  /\ pc = "reverse" /\ ptr # NULL
  /\ next' = [next EXCEPT ![ptr] = prev]
  /\ prev' = ptr /\ ptr' = next[ptr]
  /\ UNCHANGED <<val, live, head, pc, at, data, count, expect>>

ReverseEnds ==
  /\ pc = "reverse" /\ ptr = NULL
  /\ next' = [next EXCEPT ![at] = prev]
  /\ Returns
  /\ UNCHANGED <<val, live, head, expect>>
-----------------------------------------------------------------------------
(* list_length *)

list_length(h) ==
  /\ pc = "idle"
  /\ pc' = "length" /\ ptr' = h /\ at' = h /\ count' = -1
  /\ UNCHANGED <<nodes, head, prev, data, expect>>

LengthNode ==
  /\ pc = "length"
  /\ IF ptr = NULL
     THEN Returns
     ELSE ptr' = next[ptr] /\ count' = count + 1 /\ UNCHANGED <<pc, prev, at, data>>
  /\ UNCHANGED <<nodes, head, expect>>
-----------------------------------------------------------------------------
Arrays == UNION {[1..n -> Vals] : n \in 1..MaxArray}

Next ==
  \/ list \/ list_destroy \/ DestroyNode
  \/ \E s \in Arrays : list_from_array(s)
  \/ \E h \in Lists, v \in Vals : list_add(h, v) \/ list_remove(h, v)
  \/ \E h \in Lists : list_reverse(h) \/ list_length(h)
  \/ AddWalk \/ AddNode \/ RemoveNode \/ RemoveEnds
  \/ ReverseNode \/ ReverseEnds \/ LengthNode

Spec == Init /\ [][Next]_vars
-----------------------------------------------------------------------------
(* Whatever operations came before, and on whichever rest of the list: an  *)
(* operation that ends leaves the values a sequence would hold after it,   *)
(* and the nodes allocated are those of the list, so that none leaked and  *)
(* none on the list was freed; list_length returns, and list_cdr and       *)
(* list_car go through, the list's values; and while an operation runs its *)
(* cursor never stands on a freed node.                                    *)
OperationsAreExact ==
  /\ pc = "idle" =>
       /\ expect = IF head = NULL THEN <<>> ELSE Contents(head)
       /\ live = Lists
       /\ \A i \in DOMAIN expect : list_car(Rest(head)[i - 1]) = expect[i]
  /\ pc = "length" /\ ptr = NULL => count = Len(Contents(at))
  /\ {ptr, list_cdr(ptr)} \subseteq live \cup {NULL}
=============================================================================
