--------------------------- MODULE CollectedHeap ---------------------------
(***************************************************************************)
(* What a garbage-collected heap promises: objects are created, linked and *)
(* dropped from a stack of roots, and a collection removes, at once,       *)
(* exactly the objects the stack no longer reaches.                        *)
(***************************************************************************)
EXTENDS Integers, Sequences

CONSTANTS
  Objects,  \* the addresses objects can have
  StackMax  \* the size of the stack

VARIABLES
  stack,  \* the roots, the top last
  heap,   \* the objects that exist
  sons,   \* the objects each one refers to: none, or head and tail; memory
          \* that is no object keeps what it held
  status  \* "run", "closing" in the destructor, "down" after it, "failed"

vars == <<stack, heap, sons, status>>

Members(s) == {s[i] : i \in DOMAIN s}

(* A set that contains the roots and whatever its members refer to. *)
Closed(S) == Members(stack) \subseteq S /\ \A o \in S : Members(sons[o]) \subseteq S

(* The objects the stack reaches: the least closed set. *)
Live == {o \in Objects : \A S \in SUBSET Objects : Closed(S) => o \in S}

Init ==
  /\ stack = <<>>
  /\ heap = {}
  /\ sons = [o \in Objects |-> <<>>]
  /\ status = "run"

PushInt ==
  /\ status = "run" /\ Len(stack) < StackMax
  /\ \E o \in Objects \ heap :
       /\ heap' = heap \cup {o}
       /\ sons' = [sons EXCEPT ![o] = <<>>]
       /\ stack' = Append(stack, o)
  /\ UNCHANGED status

PushPair ==
  LET n == Len(stack)
  IN  /\ status = "run" /\ n >= 2
      /\ \E o \in Objects \ heap :
           /\ heap' = heap \cup {o}
           /\ sons' = [sons EXCEPT ![o] = <<stack[n - 1], stack[n]>>]
           /\ stack' = Append(SubSeq(stack, 1, n - 2), o)
      /\ UNCHANGED status

Pop ==
  /\ status = "run" /\ stack # <<>>
  /\ stack' = SubSeq(stack, 1, Len(stack) - 1)
  /\ UNCHANGED <<heap, sons, status>>

(* The client changes the tail of a pair it can reach. *)
Link ==
  /\ status = "run"
  /\ \E a, b \in Live :
       /\ sons[a] # <<>>
       /\ sons' = [sons EXCEPT ![a] = <<sons[a][1], b>>]
  /\ UNCHANGED <<stack, heap, status>>

Collect ==
  /\ status \in {"run", "closing"}
  /\ heap' = Live
  /\ UNCHANGED <<stack, sons, status>>

Close ==
  /\ status = "run"
  /\ stack' = <<>>
  /\ status' = "closing"
  /\ UNCHANGED <<heap, sons>>

(* The destructor ends with nothing left. *)
Down ==
  /\ status = "closing" /\ heap = {}
  /\ status' = "down"
  /\ UNCHANGED <<stack, heap, sons>>

(* A failed assertion ends the program. *)
Fail ==
  /\ status' = "failed"
  /\ UNCHANGED <<stack, heap, sons>>

Next == PushInt \/ PushPair \/ Pop \/ Link \/ Collect \/ Close \/ Down \/ Fail

Spec == Init /\ [][Next]_vars
=============================================================================
