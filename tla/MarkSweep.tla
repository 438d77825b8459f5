------------------------------ MODULE MarkSweep ------------------------------
(***************************************************************************)
(* The mark-sweep collector of zig/: the C program main.c and its port to  *)
(* Zig.  The virtual machine has a stack of roots and a linked list of all *)
(* objects; a collection marks from the stack, recursively, and sweeps the *)
(* list.                                                                   *)
(*                                                                         *)
(* The collector runs to completion inside a call, so its single steps are *)
(* no interleavings: they are there so that the recursion and the walk     *)
(* over the list can be checked and proved, against CollectedHeap, which   *)
(* collects at once.                                                       *)
(***************************************************************************)
EXTENDS Integers, Sequences

CONSTANTS
  Objects,        \* the addresses malloc can return: bounds the heap
  Ports,          \* the programs: "c", "zig"
  StackMax,       \* STACK_MAX
  InitObjNumMax,  \* INIT_OBJ_NUM_MAX
  MaxU32          \* the largest u32

ASSUME PortsAssumption == Ports \subseteq {"c", "zig"}
ASSUME SizesAssumption ==
  /\ StackMax \in Nat \ {0, 1}
  /\ InitObjNumMax \in Nat \ {0}
  /\ MaxU32 \in Nat

VARIABLES
  port,    \* which of the programs runs
  stack,   \* stack[0 .. stackSize-1]
  list,    \* the objects linked from firstObject, or, in a sweep, from *object
  swept,   \* in a sweep: the objects ahead of the cursor
  sons,    \* head and tail of a pair, nothing for an int; freed memory keeps them
  marked,  \* the objects whose mark is set
  todo,    \* the calls of mark still to be made, the next one first
  num,     \* numObjects
  max,     \* maxObjects
  pc,      \* "run" between calls, "mark", "sweep" and then "new" in one, and
           \* "exited" or "freed"
  then     \* the call the collection was started by

vars == <<port, stack, list, swept, sons, marked, todo, num, max, pc, then>>

Allocated == {list[i] : i \in DOMAIN list} \cup {swept[i] : i \in DOMAIN swept}
Status == IF pc = "exited" THEN "failed"
          ELSE IF pc = "freed" THEN "down"
          ELSE IF then = "free" THEN "closing" ELSE "run"

(* What is left once the sweep will be over. *)
Kept == IF pc = "sweep"
        THEN {o \in Allocated : o \in marked \/ \E i \in DOMAIN swept : swept[i] = o}
        ELSE Allocated

Heap == INSTANCE CollectedHeap WITH heap <- Kept, status <- Status

Reachable == Heap!Live

Init ==
  /\ port \in Ports
  /\ stack = <<>> /\ list = <<>> /\ swept = <<>> /\ todo = <<>>
  /\ sons = [o \in Objects |-> <<>>]
  /\ marked = {}
  /\ num = 0
  /\ max = IF port = "c" THEN InitObjNumMax ELSE StackMax
  /\ pc = "run" /\ then = "none"
-----------------------------------------------------------------------------
(* newObject, pushInt, pushPair *)

(* Mutant: the limit is looked at one object too late. *)
MustCollectLate == port = "c" /\ num = max + 1

(* newObject collects first when as many objects exist as maxObjects says; *)
(* the port to Zig never does.                                             *)
MustCollect == port = "c" /\ num = max

(* Mutant: the operands of a pair are popped before the collection. *)
StartCollectionPopped(op) ==
  /\ pc' = "mark"
  /\ then' = op
  /\ todo' = IF op = "pair" /\ Len(stack) >= 2 THEN SubSeq(stack, 1, Len(stack) - 2) ELSE stack

StartCollection(op) ==
  /\ pc' = "mark"
  /\ then' = op
  /\ todo' = stack

(* The call op collects, or has no need to, or has done so. *)
CollectFirst(op) ==
  /\ pc = "run" /\ MustCollect
  /\ StartCollection(op)
  /\ UNCHANGED <<port, stack, list, swept, sons, marked, num, max>>

Ready(op) == (pc = "run" /\ ~MustCollect) \/ (pc = "new" /\ then = op)

Return == pc' = "run" /\ then' = "none"

(* Mutant: the object is not counted. *)
AllocateUncounted(o) ==
  /\ o \notin Allocated
  /\ list' = <<o>> \o list
  /\ UNCHANGED num

(* malloc returns memory that is not in use; it goes first in the list. *)
Allocate(o) ==
  /\ o \notin Allocated
  /\ list' = <<o>> \o list
  /\ num' = num + 1

(* Mutant: the stack's size is not looked at. *)
PushIntUnchecked ==
  /\ Ready("int")
  /\ \E o \in Objects :
       /\ Allocate(o)
       /\ sons' = [sons EXCEPT ![o] = <<>>]
       /\ stack' = Append(stack, o)
  /\ Return
  /\ UNCHANGED <<port, swept, marked, todo, max>>

PushInt ==
  /\ Ready("int") /\ Len(stack) < StackMax
  /\ \E o \in Objects :
       /\ Allocate(o)
       /\ sons' = [sons EXCEPT ![o] = <<>>]
       /\ stack' = Append(stack, o)
  /\ Return
  /\ UNCHANGED <<port, swept, marked, todo, max>>

(* The operands stay on the stack until newObject has returned. *)
PushPair ==
  LET n == Len(stack)
  IN  /\ Ready("pair") /\ n >= 2
      /\ \E o \in Objects :
           /\ Allocate(o)
           /\ sons' = [sons EXCEPT ![o] = <<stack[n - 1], stack[n]>>]
           /\ stack' = Append(SubSeq(stack, 1, n - 2), o)
      /\ Return
      /\ UNCHANGED <<port, swept, marked, todo, max>>

(* Stack overflow or underflow: the program ends, in Zig too, whose        *)
(* unreachable panics.  What was allocated or popped before ends with it.  *)
Overrun ==
  /\ \/ Ready("int") /\ Len(stack) = StackMax
     \/ Ready("pair") /\ Len(stack) < 2
     \/ pc = "run" /\ stack = <<>>
  /\ pc' = "exited"
  /\ UNCHANGED <<port, stack, list, swept, sons, marked, todo, num, max, then>>

Pop ==
  /\ pc = "run" /\ stack # <<>>
  /\ stack' = SubSeq(stack, 1, Len(stack) - 1)
  /\ UNCHANGED <<port, list, swept, sons, marked, todo, num, max, pc, then>>

(* a->tail = b, by a client that reaches both. *)
Link ==
  /\ pc = "run"
  /\ \E a, b \in Reachable :
       /\ sons[a] # <<>>
       /\ sons' = [sons EXCEPT ![a] = <<sons[a][1], b>>]
  /\ UNCHANGED <<port, stack, list, swept, marked, todo, num, max, pc, then>>
-----------------------------------------------------------------------------
(* gc, freeVM *)

Gc ==
  /\ pc = "run"
  /\ StartCollection("none")
  /\ UNCHANGED <<port, stack, list, swept, sons, marked, num, max>>

FreeVM ==
  /\ pc = "run"
  /\ stack' = <<>>
  /\ pc' = "mark" /\ then' = "free" /\ todo' = <<>>
  /\ UNCHANGED <<port, list, swept, sons, marked, num, max>>

(* Mutant: only the head of a pair is marked. *)
MarkHeads ==
  LET o == Head(todo)
  IN  /\ pc = "mark" /\ todo # <<>>
      /\ marked' = marked \cup {o}
      /\ todo' = (IF o \in marked \/ sons[o] = <<>> THEN <<>> ELSE <<sons[o][1]>>)
                   \o Tail(todo)
      /\ UNCHANGED <<port, stack, list, swept, sons, num, max, pc, then>>

(* One call of mark: a marked object is left alone, the head and tail of   *)
(* another are marked next.                                                *)
Mark ==
  LET o == Head(todo)
  IN  /\ pc = "mark" /\ todo # <<>>
      /\ marked' = marked \cup {o}
      /\ todo' = (IF o \in marked THEN <<>> ELSE sons[o]) \o Tail(todo)
      /\ UNCHANGED <<port, stack, list, swept, sons, num, max, pc, then>>

MarkEnds ==
  /\ pc = "mark" /\ todo = <<>>
  /\ pc' = "sweep"
  /\ UNCHANGED <<port, stack, list, swept, sons, marked, todo, num, max, then>>

Free ==
  LET o == Head(list)
  IN  /\ pc = "sweep" /\ list # <<>> /\ o \notin marked
      /\ list' = Tail(list)
      /\ num' = num - 1
      /\ UNCHANGED <<port, stack, swept, sons, marked, todo, max, pc, then>>

(* Mutant: the mark stays. *)
KeepMarked ==
  LET o == Head(list)
  IN  /\ pc = "sweep" /\ list # <<>> /\ o \in marked
      /\ list' = Tail(list)
      /\ swept' = Append(swept, o)
      /\ UNCHANGED <<port, stack, sons, marked, todo, num, max, pc, then>>

(* Mutant: the cursor does not move on. *)
KeepCursor ==
  /\ pc = "sweep" /\ list # <<>> /\ Head(list) \in marked
  /\ UNCHANGED vars

Keep ==
  LET o == Head(list)
  IN  /\ pc = "sweep" /\ list # <<>> /\ o \in marked
      /\ list' = Tail(list)
      /\ swept' = Append(swept, o)
      /\ marked' = marked \ {o}
      /\ UNCHANGED <<port, stack, sons, todo, num, max, pc, then>>

NewMax == IF num = 0 THEN InitObjNumMax ELSE IF port = "c" THEN 2 * num ELSE 2 * max

AfterGc == CASE then = "none" -> "run" [] then = "free" -> "freed" [] OTHER -> "new"

(* maxObjects is set from what is left; in Zig it doubles, and the program *)
(* ends when a u32 cannot hold it.                                         *)
SweepEnds ==
  /\ pc = "sweep" /\ list = <<>>
  /\ list' = swept
  /\ swept' = <<>>
  /\ IF port = "zig" /\ NewMax > MaxU32
     THEN pc' = "exited" /\ UNCHANGED max
     ELSE pc' = AfterGc /\ max' = NewMax
  /\ UNCHANGED <<port, stack, sons, marked, todo, num, then>>
-----------------------------------------------------------------------------
Collector == Mark \/ MarkEnds \/ Free \/ Keep \/ SweepEnds

Next ==
  \/ \E op \in {"int", "pair"} : CollectFirst(op)
  \/ PushInt \/ PushPair \/ Overrun \/ Pop \/ Link
  \/ Gc \/ FreeVM
  \/ Collector

Spec == Init /\ [][Next]_vars

(* The collector runs on by itself. *)
FairSpec == Spec /\ WF_vars(Collector)
-----------------------------------------------------------------------------
(* Properties *)

(* Every variable has its type. *)
TypeOK ==
  /\ port \in Ports
  /\ stack \in Seq(Objects) /\ Len(stack) <= StackMax
  /\ list \in Seq(Objects) /\ swept \in Seq(Objects) /\ todo \in Seq(Objects)
  /\ sons \in [Objects -> {<<>>} \cup (Objects \X Objects)]
  /\ marked \subseteq Objects
  /\ num \in Nat /\ max \in Nat
  /\ pc \in {"run", "mark", "sweep", "new", "exited", "freed"}
  /\ then \in {"none", "int", "pair", "free"}

(* An object that the stack reaches is never freed, neither in a           *)
(* collection nor before the pair that is being made refers to it.         *)
ReachableStay == Reachable \subseteq Kept

(* numObjects counts the objects in the list.                              *)
CountIsListLength == num = Len(list) + Len(swept)

(* The sweep takes every mark off again: a mark left over would make the   *)
(* next collection pass over what that object refers to.                   *)
UnmarkedBetweenCollections == pc \notin {"mark", "sweep"} => marked = {}

(* newObject compares with ==, so a count that once got past maxObjects    *)
(* would never start a collection again.                                   *)
CountWithinThreshold == port = "c" => num <= max

(* Marking ends on cyclic data too, and so does the sweep.                 *)
CollectionsEnd == pc \in {"mark", "sweep"} ~> pc \notin {"mark", "sweep"}

(* The steps of a collection amount to removing at once exactly what is    *)
(* out of reach, and the destructor leaves nothing behind.                 *)
ImplementsHeap == Heap!Spec
=============================================================================
