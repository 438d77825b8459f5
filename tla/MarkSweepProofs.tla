--------------------------- MODULE MarkSweepProofs ---------------------------
(***************************************************************************)
(* Proofs that the collector frees what is out of reach and nothing else,  *)
(* for any number of objects and any size of the stack, and that it        *)
(* implements CollectedHeap.                                               *)
(***************************************************************************)
EXTENDS MarkSweep, TLAPS

Members(s) == {s[i] : i \in DOMAIN s}
Closed(S) == Members(stack) \subseteq S /\ \A o \in S : Members(sons[o]) \subseteq S

Distinct(s) == \A i, j \in DOMAIN s : s[i] = s[j] => i = j

(* The list and what the sweep has passed are disjoint and hold no object  *)
(* twice.                                                                  *)
Disjoint ==
  Distinct(list) /\ Distinct(swept) /\ Members(list) \cap Members(swept) = {}

(* What a phase leaves alone. *)
Phases ==
  /\ pc # "mark" => todo = <<>>
  /\ pc # "sweep" => swept = <<>>
  /\ pc \notin {"mark", "sweep"} => marked = {}
  /\ pc = "run" => then = "none"
  /\ pc = "new" => then \in {"int", "pair"}
  /\ then = "free" => stack = <<>>

(* The objects that exist refer to existing ones only. *)
HeapClosed == Closed(Kept)

(* While marking: what is marked and what is still to be marked is live,   *)
(* contains the roots, and what the marked objects refer to.               *)
Marking ==
  pc = "mark" =>
    /\ marked \cup Members(todo) \subseteq Reachable
    /\ Members(stack) \subseteq marked \cup Members(todo)
    /\ \A o \in marked : Members(sons[o]) \subseteq marked \cup Members(todo)

(* While sweeping: what is kept is what is live.                           *)
Sweeping ==
  pc = "sweep" => Kept = Reachable /\ marked \subseteq Members(list)

(* After the sweep nothing else is left. *)
Swept == pc \in {"new", "freed"} => Kept = Reachable

MarkSweepInv ==
  /\ TypeOK
  /\ CountIsListLength
  /\ Disjoint
  /\ Phases
  /\ HeapClosed
  /\ Marking
  /\ Sweeping
  /\ Swept
-----------------------------------------------------------------------------
(* The least closed set *)

(* What a sequence's elements are after each operation on it. *)
LEMMA MembersConcat ==
  \A s, t \in Seq(Objects) :
    s \o t \in Seq(Objects) /\ Members(s \o t) = Members(s) \cup Members(t)
<1> SUFFICES ASSUME NEW s \in Seq(Objects), NEW t \in Seq(Objects)
             PROVE  s \o t \in Seq(Objects) /\ Members(s \o t) = Members(s) \cup Members(t)
  OBVIOUS
<1>1. s \o t \in Seq(Objects) /\ Len(s \o t) = Len(s) + Len(t)
  OBVIOUS
<1>2. Members(s \o t) \subseteq Members(s) \cup Members(t)
  <2> SUFFICES ASSUME NEW i \in 1..(Len(s) + Len(t))
               PROVE  (s \o t)[i] \in Members(s) \cup Members(t)
    BY <1>1 DEF Members
  <2>1. CASE i <= Len(s)
    BY <2>1 DEF Members
  <2>2. CASE i > Len(s)
    <3>1. (s \o t)[i] = t[i - Len(s)] /\ i - Len(s) \in 1..Len(t)
      BY <2>2
    <3> QED BY <3>1 DEF Members
  <2> QED BY <2>1, <2>2
<1>3. ASSUME NEW i \in 1..Len(s) PROVE s[i] \in Members(s \o t)
  <2>1. s[i] = (s \o t)[i]
    OBVIOUS
  <2>2. i \in 1..Len(s \o t)
    BY <1>1
  <2> QED BY <2>1, <2>2, <1>1 DEF Members
<1>4. ASSUME NEW i \in 1..Len(t) PROVE t[i] \in Members(s \o t)
  <2>1. t[i] = (s \o t)[i + Len(s)] /\ i + Len(s) \in 1..Len(s \o t)
    BY <1>1
  <2> QED BY <2>1, <1>1 DEF Members
<1>5. Members(s) \cup Members(t) \subseteq Members(s \o t)
  <2> DEFINE W == Members(s \o t)
  <2>1. \A i \in 1..Len(s) : s[i] \in W
    BY <1>3
  <2>2. \A i \in 1..Len(t) : t[i] \in W
    BY <1>4
  <2> HIDE DEF W
  <2>3. Members(s) \cup Members(t) \subseteq W
    BY <2>1, <2>2 DEF Members
  <2> QED BY <2>3 DEF W
<1> QED BY <1>1, <1>2, <1>5

LEMMA MembersAppend ==
  \A s \in Seq(Objects), o \in Objects :
    Append(s, o) \in Seq(Objects) /\ Members(Append(s, o)) = Members(s) \cup {o}
<1> SUFFICES ASSUME NEW s \in Seq(Objects), NEW o \in Objects
             PROVE  /\ Append(s, o) \in Seq(Objects)
                    /\ Members(Append(s, o)) = Members(s) \cup {o}
  OBVIOUS
<1>1. /\ Append(s, o) \in Seq(Objects)
      /\ DOMAIN Append(s, o) = 1..(Len(s) + 1) /\ DOMAIN s = 1..Len(s)
      /\ \A i \in 1..Len(s) : Append(s, o)[i] = s[i]
      /\ Append(s, o)[Len(s) + 1] = o
  OBVIOUS
<1>2. 1..(Len(s) + 1) = 1..Len(s) \cup {Len(s) + 1}
  OBVIOUS
<1> QED BY <1>1, <1>2 DEF Members

LEMMA MembersPush ==
  \A s \in Seq(Objects), o \in Objects :
    <<o>> \o s \in Seq(Objects) /\ Members(<<o>> \o s) = Members(s) \cup {o}
<1> SUFFICES ASSUME NEW s \in Seq(Objects), NEW o \in Objects
             PROVE  /\ <<o>> \o s \in Seq(Objects)
                    /\ Members(<<o>> \o s) = Members(s) \cup {o}
  OBVIOUS
<1>1. <<o>> \in Seq(Objects) /\ Members(<<o>>) = {o}
  BY DEF Members
<1>2. /\ <<o>> \o s \in Seq(Objects)
      /\ Members(<<o>> \o s) = Members(<<o>>) \cup Members(s)
  BY <1>1, MembersConcat
<1> QED BY <1>1, <1>2

LEMMA MembersHeadTail ==
  \A s \in Seq(Objects) : s # <<>> =>
    /\ Head(s) \in Objects /\ Tail(s) \in Seq(Objects)
    /\ Members(s) = {Head(s)} \cup Members(Tail(s))
<1> SUFFICES ASSUME NEW s \in Seq(Objects), s # <<>>
             PROVE  /\ Head(s) \in Objects /\ Tail(s) \in Seq(Objects)
                    /\ Members(s) = {Head(s)} \cup Members(Tail(s))
  OBVIOUS
<1>1. /\ Len(s) \in Nat \ {0} /\ DOMAIN s = 1..Len(s)
      /\ Head(s) = s[1] /\ Head(s) \in Objects /\ Tail(s) \in Seq(Objects)
      /\ DOMAIN Tail(s) = 1..(Len(s) - 1)
      /\ \A i \in 1..(Len(s) - 1) : Tail(s)[i] = s[i + 1]
  OBVIOUS
<1>2. ASSUME NEW i \in 1..Len(s) PROVE s[i] \in {Head(s)} \cup Members(Tail(s))
  <2>1. CASE i = 1
    BY <1>1, <2>1
  <2>2. CASE i # 1
    <3>1. i - 1 \in 1..(Len(s) - 1) /\ s[i] = Tail(s)[i - 1]
      BY <1>1, <2>2
    <3> QED BY <1>1, <3>1 DEF Members
  <2> QED BY <2>1, <2>2
<1>3. ASSUME NEW i \in 1..(Len(s) - 1) PROVE Tail(s)[i] \in Members(s)
  <2>1. i + 1 \in 1..Len(s) /\ Tail(s)[i] = s[i + 1]
    BY <1>1
  <2> QED BY <1>1, <2>1 DEF Members
<1>4. Head(s) \in Members(s)
  BY <1>1 DEF Members
<1> QED BY <1>1, <1>2, <1>3, <1>4 DEF Members

LEMMA MembersSubSeq ==
  \A s \in Seq(Objects) : \A n \in 0..Len(s) :
    /\ SubSeq(s, 1, n) \in Seq(Objects) /\ Len(SubSeq(s, 1, n)) = n
    /\ Members(SubSeq(s, 1, n)) \subseteq Members(s)
BY DEF Members

LEMMA DistinctPush ==
  ASSUME NEW s \in Seq(Objects), NEW o \in Objects, Distinct(s), o \notin Members(s)
  PROVE  Distinct(<<o>> \o s)
<1>1. /\ DOMAIN (<<o>> \o s) = 1..(Len(s) + 1) /\ DOMAIN s = 1..Len(s)
      /\ Len(s) \in Nat /\ (<<o>> \o s)[1] = o
      /\ \A i \in 2..(Len(s) + 1) : (<<o>> \o s)[i] = s[i - 1]
  OBVIOUS
<1>2. \A i \in 2..(Len(s) + 1) : i - 1 \in 1..Len(s)
  BY <1>1
<1>3. \A i \in 2..(Len(s) + 1) : (<<o>> \o s)[i] # o
  BY <1>1, <1>2 DEF Members
<1>4. \A i, j \in 2..(Len(s) + 1) : (<<o>> \o s)[i] = (<<o>> \o s)[j] => i = j
  BY <1>1, <1>2 DEF Distinct
<1>5. \A i \in 1..(Len(s) + 1) : i = 1 \/ i \in 2..(Len(s) + 1)
  BY <1>1
<1> QED BY <1>1, <1>3, <1>4, <1>5 DEF Distinct

LEMMA DistinctAppend ==
  ASSUME NEW s \in Seq(Objects), NEW o \in Objects, Distinct(s), o \notin Members(s)
  PROVE  Distinct(Append(s, o))
<1>1. /\ DOMAIN Append(s, o) = 1..(Len(s) + 1) /\ DOMAIN s = 1..Len(s)
      /\ Len(s) \in Nat /\ Append(s, o)[Len(s) + 1] = o
      /\ \A i \in 1..Len(s) : Append(s, o)[i] = s[i]
  OBVIOUS
<1>2. \A i \in 1..Len(s) : s[i] # o
  BY <1>1 DEF Members
<1>3. \A i \in 1..(Len(s) + 1) : i = Len(s) + 1 \/ i \in 1..Len(s)
  BY <1>1
<1> QED BY <1>1, <1>2, <1>3 DEF Distinct

LEMMA DistinctTail ==
  ASSUME NEW s \in Seq(Objects), s # <<>>, Distinct(s)
  PROVE  Distinct(Tail(s)) /\ Head(s) \notin Members(Tail(s))
<1>1. /\ Len(s) \in Nat \ {0} /\ DOMAIN s = 1..Len(s) /\ Head(s) = s[1]
      /\ DOMAIN Tail(s) = 1..(Len(s) - 1)
      /\ \A i \in 1..(Len(s) - 1) : Tail(s)[i] = s[i + 1]
  OBVIOUS
<1>2. \A i \in 1..(Len(s) - 1) : i + 1 \in 1..Len(s) /\ i + 1 # 1 /\ 1 \in 1..Len(s)
  BY <1>1
<1>3. Head(s) \notin Members(Tail(s))
  BY <1>1, <1>2 DEF Distinct, Members
<1>4. Distinct(Tail(s))
  BY <1>1, <1>2 DEF Distinct
<1> QED BY <1>3, <1>4

LEMMA PairType ==
  \A p \in Objects \X Objects : p \in Seq(Objects) /\ Members(p) = {p[1], p[2]}
<1> SUFFICES ASSUME NEW p \in Objects \X Objects
             PROVE  p \in Seq(Objects) /\ Members(p) = {p[1], p[2]}
  OBVIOUS
<1>1. p = <<p[1], p[2]>> /\ p[1] \in Objects /\ p[2] \in Objects
  OBVIOUS
<1> DEFINE a == p[1]
           b == p[2]
<1> HIDE DEF a, b
<1>2. <<a, b>> \in Seq(Objects) /\ Members(<<a, b>>) = {a, b}
  <2>1. DOMAIN <<a, b>> = 1..2 /\ 1..2 = {1, 2}
    OBVIOUS
  <2> QED BY <2>1, <1>1 DEF Members, a, b
<1> QED BY <1>1, <1>2 DEF a, b

LEMMA SonsType ==
  ASSUME TypeOK, NEW o \in Objects
  PROVE  sons[o] \in Seq(Objects)
<1>1. sons[o] \in {<<>>} \cup (Objects \X Objects)
  BY DEF TypeOK
<1>2. <<>> \in Seq(Objects)
  OBVIOUS
<1> QED BY <1>1, <1>2, PairType

LEMMA MembersType == \A s \in Seq(Objects) : Members(s) \subseteq Objects
BY DEF Members

LEMMA ReachableDef ==
  Reachable = {o \in Objects : \A S \in SUBSET Objects : Closed(S) => o \in S}
BY DEF Reachable, Heap!Live, Heap!Closed, Heap!Members, Closed, Members

LEMMA ReachableLeast ==
  ASSUME NEW S \in SUBSET Objects, Closed(S)
  PROVE  Reachable \subseteq S
BY ReachableDef

LEMMA ReachableClosed == TypeOK => Closed(Reachable)
<1> SUFFICES ASSUME TypeOK PROVE Closed(Reachable)
  OBVIOUS
<1>1. Members(stack) \subseteq Reachable
  BY ReachableDef, MembersType DEF Closed, TypeOK
<1>2. ASSUME NEW o \in Reachable PROVE Members(sons[o]) \subseteq Reachable
  <2>1. o \in Objects /\ \A S \in SUBSET Objects : Closed(S) => o \in S
    BY ReachableDef
  <2>2. Members(sons[o]) \subseteq Objects
    BY <2>1, SonsType, MembersType
  <2>3. \A S \in SUBSET Objects : Closed(S) => Members(sons[o]) \subseteq S
    BY <2>1 DEF Closed
  <2> QED BY <2>2, <2>3, ReachableDef
<1> QED BY <1>1, <1>2 DEF Closed
-----------------------------------------------------------------------------
(* Types and counts *)

LEMMA InitTypes == Init => TypeOK /\ CountIsListLength
<1> SUFFICES ASSUME Init PROVE TypeOK /\ CountIsListLength
  OBVIOUS
<1>1. <<>> \in Seq(Objects) /\ Len(<<>>) = 0
  OBVIOUS
<1> QED BY <1>1, SizesAssumption DEF Init, TypeOK, CountIsListLength

LEMMA NextTypes == TypeOK /\ CountIsListLength /\ [Next]_vars => TypeOK' /\ CountIsListLength'
<1> SUFFICES ASSUME TypeOK, CountIsListLength, [Next]_vars
             PROVE  TypeOK' /\ CountIsListLength'
  OBVIOUS
<1>0. StackMax \in Nat /\ InitObjNumMax \in Nat
  BY SizesAssumption
<1>1. ASSUME NEW op \in {"int", "pair"}, CollectFirst(op)
      PROVE  TypeOK' /\ CountIsListLength'
  BY <1>1 DEF CollectFirst, StartCollection, TypeOK, CountIsListLength
<1>2. ASSUME NEW o \in Objects, Allocate(o), UNCHANGED swept
      PROVE  list' \in Seq(Objects) /\ num' \in Nat /\ CountIsListLength'
  BY <1>2 DEF Allocate, TypeOK, CountIsListLength
<1>3. CASE PushInt
  <2>1. PICK o \in Objects :
          Allocate(o) /\ sons' = [sons EXCEPT ![o] = <<>>] /\ stack' = Append(stack, o)
    BY <1>3 DEF PushInt
  <2>2. stack' \in Seq(Objects) /\ Len(stack') <= StackMax
    BY <1>3, <2>1, <1>0 DEF PushInt, TypeOK
  <2>3. sons' \in [Objects -> {<<>>} \cup (Objects \X Objects)]
    BY <2>1 DEF TypeOK
  <2>4. pc' = "run" /\ then' = "none" /\ UNCHANGED <<port, swept, marked, todo, max>>
    BY <1>3 DEF PushInt, Return
  <2> QED BY <1>2, <2>1, <2>2, <2>3, <2>4 DEF TypeOK
<1>4. CASE PushPair
  <2> DEFINE n == Len(stack)
  <2>1. PICK o \in Objects :
          /\ Allocate(o)
          /\ sons' = [sons EXCEPT ![o] = <<stack[n - 1], stack[n]>>]
          /\ stack' = Append(SubSeq(stack, 1, n - 2), o)
    BY <1>4 DEF PushPair
  <2>2. n >= 2 /\ n \in Nat /\ n <= StackMax /\ stack \in Seq(Objects)
    BY <1>4 DEF PushPair, TypeOK
  <2>3. stack' \in Seq(Objects) /\ Len(stack') <= StackMax
    <3>0. n - 2 \in 0..Len(stack)
      BY <2>2
    <3>1. SubSeq(stack, 1, n - 2) \in Seq(Objects) /\ Len(SubSeq(stack, 1, n - 2)) = n - 2
      BY <2>2, <3>0, MembersSubSeq
    <3> QED BY <2>1, <2>2, <3>1, <1>0
  <2>4. stack[n - 1] \in Objects /\ stack[n] \in Objects
    BY <2>2
  <2>5. sons' \in [Objects -> {<<>>} \cup (Objects \X Objects)]
    <3> HIDE DEF n
    <3> QED BY <2>1, <2>4 DEF TypeOK
  <2>6. pc' = "run" /\ then' = "none" /\ UNCHANGED <<port, swept, marked, todo, max>>
    BY <1>4 DEF PushPair, Return
  <2> QED BY <1>2, <2>1, <2>3, <2>5, <2>6 DEF TypeOK
<1>5. CASE Overrun
  BY <1>5 DEF Overrun, TypeOK, CountIsListLength
<1>6. CASE Pop
  <2>1. stack' \in Seq(Objects) /\ Len(stack') <= StackMax
    BY <1>6, <1>0 DEF Pop, TypeOK
  <2> QED BY <1>6, <2>1 DEF Pop, TypeOK, CountIsListLength
<1>7. CASE Link
  <2>1. PICK a \in Objects, b \in Objects :
          sons[a] # <<>> /\ sons' = [sons EXCEPT ![a] = <<sons[a][1], b>>]
    BY <1>7, ReachableDef DEF Link
  <2>2. sons[a][1] \in Objects
    BY <2>1 DEF TypeOK
  <2>3. sons' \in [Objects -> {<<>>} \cup (Objects \X Objects)]
    BY <2>1, <2>2 DEF TypeOK
  <2> QED BY <1>7, <2>3 DEF Link, TypeOK, CountIsListLength
<1>8. CASE Gc
  BY <1>8 DEF Gc, StartCollection, TypeOK, CountIsListLength
<1>9. CASE FreeVM
  <2>1. <<>> \in Seq(Objects) /\ Len(<<>>) = 0
    OBVIOUS
  <2> QED BY <1>9, <2>1, <1>0 DEF FreeVM, TypeOK, CountIsListLength
<1>10. CASE Mark
  <2> DEFINE o == Head(todo)
             s == IF o \in marked THEN <<>> ELSE sons[o]
  <2>1. o \in Objects /\ Tail(todo) \in Seq(Objects)
    BY <1>10, MembersHeadTail DEF Mark, TypeOK
  <2>2. s \in Seq(Objects)
    BY <2>1, SonsType
  <2>3. todo' = s \o Tail(todo) /\ marked' = marked \cup {o}
    BY <1>10 DEF Mark
  <2>4. todo' \in Seq(Objects)
    <3> HIDE DEF s, o
    <3> QED BY <2>1, <2>2, <2>3, MembersConcat
  <2> QED BY <1>10, <2>1, <2>3, <2>4 DEF Mark, TypeOK, CountIsListLength
<1>11. CASE MarkEnds
  BY <1>11 DEF MarkEnds, TypeOK, CountIsListLength
<1>12. CASE Free
  <2>1. /\ list' = Tail(list) /\ list # <<>> /\ num' = num - 1
        /\ UNCHANGED <<port, stack, swept, sons, marked, todo, max, pc, then>>
    BY <1>12 DEF Free
  <2>2. /\ list \in Seq(Objects) /\ swept \in Seq(Objects)
        /\ num = Len(list) + Len(swept)
    BY DEF TypeOK, CountIsListLength
  <2>3. /\ Tail(list) \in Seq(Objects) /\ Len(Tail(list)) = Len(list) - 1
        /\ Len(list) \in Nat \ {0} /\ Len(swept) \in Nat
    BY <2>1, <2>2
  <2>4. num' \in Nat /\ num' = Len(list') + Len(swept')
    BY <2>1, <2>2, <2>3
  <2> QED BY <2>1, <2>3, <2>4 DEF TypeOK, CountIsListLength
<1>13. CASE Keep
  <2> DEFINE o == Head(list)
  <2>1. /\ list' = Tail(list) /\ list # <<>> /\ swept' = Append(swept, o)
        /\ marked' = marked \ {o}
        /\ UNCHANGED <<port, stack, sons, todo, num, max, pc, then>>
    BY <1>13 DEF Keep
  <2>2. /\ list \in Seq(Objects) /\ swept \in Seq(Objects)
        /\ num = Len(list) + Len(swept)
    BY DEF TypeOK, CountIsListLength
  <2>3. /\ Tail(list) \in Seq(Objects) /\ Len(Tail(list)) = Len(list) - 1
        /\ Append(swept, o) \in Seq(Objects) /\ Len(Append(swept, o)) = Len(swept) + 1
        /\ Len(list) \in Nat \ {0} /\ Len(swept) \in Nat
    BY <2>1, <2>2
  <2>4. num = Len(list') + Len(swept')
    BY <2>1, <2>2, <2>3
  <2> QED BY <2>1, <2>3, <2>4 DEF TypeOK, CountIsListLength
<1>14. CASE SweepEnds
  <2>1. /\ list = <<>> /\ list' = swept /\ swept' = <<>>
        /\ UNCHANGED <<port, stack, sons, marked, todo, num, then>>
    BY <1>14 DEF SweepEnds
  <2>2. <<>> \in Seq(Objects) /\ Len(<<>>) = 0
    OBVIOUS
  <2>3. NewMax \in Nat
    BY <1>0 DEF NewMax, TypeOK
  <2>4. max' \in Nat /\ pc' \in {"run", "new", "freed", "exited"}
    BY <1>14, <2>3 DEF SweepEnds, AfterGc, TypeOK
  <2> QED BY <2>1, <2>2, <2>4 DEF TypeOK, CountIsListLength
<1>15. CASE UNCHANGED vars
  BY <1>15 DEF vars, TypeOK, CountIsListLength
<1> QED BY <1>1, <1>3, <1>4, <1>5, <1>6, <1>7, <1>8, <1>9, <1>10, <1>11, <1>12, <1>13,
           <1>14, <1>15 DEF Next, Collector

(* Every variable keeps its type, for any stack and any number of objects. *)
THEOREM MarkSweepTyping == Spec => []TypeOK
<1> QED BY InitTypes, NextTypes, PTL DEF Spec

(* numObjects is the length of the list of objects at every moment         *)
(* (main.c:94-139): no step of a sweep loses or miscounts one.             *)
THEOREM ObjectsAreCounted == Spec => []CountIsListLength
<1> QED BY InitTypes, NextTypes, PTL DEF Spec
-----------------------------------------------------------------------------
(* The threshold *)

(* A collection that newObject asked for leaves room below maxObjects. *)
ThresholdInv == CountWithinThreshold /\ (port = "c" /\ pc = "new" => num < max)

(* The C program's count of objects never gets past maxObjects, so that    *)
(* the comparison with == at main.c:128 never misses it (main.c:121).      *)
THEOREM ThresholdIsMet == Spec => []CountWithinThreshold
<1>1. Init => ThresholdInv
  BY SizesAssumption DEF Init, ThresholdInv, CountWithinThreshold
<1>2. TypeOK /\ ThresholdInv /\ [Next]_vars => ThresholdInv'
  <2> SUFFICES ASSUME TypeOK, ThresholdInv, [Next]_vars PROVE ThresholdInv'
    OBVIOUS
  <2>0. num \in Nat /\ max \in Nat /\ InitObjNumMax \in Nat \ {0}
    BY SizesAssumption DEF TypeOK
  <2> USE DEF ThresholdInv, CountWithinThreshold
  <2>1. ASSUME NEW op \in {"int", "pair"}, Ready(op), num' = num + 1, pc' = "run",
               UNCHANGED <<port, max>>
        PROVE  ThresholdInv'
    BY <2>1, <2>0 DEF Ready, MustCollect
  <2>2. CASE PushInt
    BY <2>2, <2>1 DEF PushInt, Allocate, Return
  <2>3. CASE PushPair
    BY <2>3, <2>1 DEF PushPair, Allocate, Return
  <2>4. CASE SweepEnds
    BY <2>4, <2>0 DEF SweepEnds, NewMax
  <2>5. CASE Free
    BY <2>5, <2>0 DEF Free
  <2>6. CASE \E op \in {"int", "pair"} : CollectFirst(op)
    BY <2>6 DEF CollectFirst, StartCollection
  <2>7. CASE Overrun \/ Pop \/ Link
    BY <2>7 DEF Overrun, Pop, Link
  <2>8. CASE Gc \/ FreeVM \/ Mark \/ MarkEnds \/ Keep
    BY <2>8 DEF Gc, StartCollection, FreeVM, Mark, MarkEnds, Keep
  <2>9. CASE UNCHANGED vars
    BY <2>9 DEF vars
  <2> QED BY <2>2, <2>3, <2>4, <2>5, <2>6, <2>7, <2>8, <2>9 DEF Next, Collector
<1>3. ThresholdInv => CountWithinThreshold
  BY DEF ThresholdInv
<1> QED BY <1>1, <1>2, <1>3, MarkSweepTyping, PTL DEF Spec
-----------------------------------------------------------------------------
(* Safety *)

LEMMA KeptDef ==
  Kept = IF pc = "sweep" THEN (marked \cap Members(list)) \cup Members(swept)
         ELSE Members(list) \cup Members(swept)
BY DEF Kept, Allocated, Members

LEMMA ReachableSame == UNCHANGED <<stack, sons>> => Reachable' = Reachable
BY DEF Reachable, Heap!Live, Heap!Closed, Heap!Members

LEMMA KeptType == TypeOK => Kept \subseteq Objects
BY KeptDef, MembersType DEF TypeOK

LEMMA InitInv == Init => MarkSweepInv
<1> SUFFICES ASSUME Init PROVE MarkSweepInv
  OBVIOUS
<1>1. Members(<<>>) = {} /\ Distinct(<<>>)
  BY DEF Members, Distinct
<1>2. Disjoint /\ Phases
  BY <1>1 DEF Init, Disjoint, Phases
<1>3. HeapClosed
  BY <1>1, KeptDef DEF Init, HeapClosed, Closed
<1> QED BY <1>2, <1>3, InitTypes DEF Init, MarkSweepInv, Marking, Sweeping, Swept

(* A call that starts a collection. *)
LEMMA StartStep ==
  ASSUME MarkSweepInv, NEW op, StartCollection(op), pc = "run", op # "free",
         UNCHANGED <<stack, list, swept, sons, marked>>
  PROVE  Disjoint' /\ Phases' /\ HeapClosed' /\ Marking' /\ Sweeping' /\ Swept'
<1> USE DEF MarkSweepInv, StartCollection
<1>1. Reachable' = Reachable /\ Members(stack) \subseteq Reachable
  BY ReachableSame, ReachableClosed DEF Closed
<1>2. marked = {} /\ swept = <<>>
  BY DEF Phases
<1>3. Kept' = Kept
  BY DEF Kept, Allocated
<1>4. HeapClosed'
  BY <1>3 DEF HeapClosed, Closed, Members
<1>5. Marking'
  BY <1>1, <1>2 DEF Marking, Members
<1> QED BY <1>4, <1>5 DEF Disjoint, Phases, Sweeping, Swept, Distinct, Members

(* A call that ends with a new object. *)
LEMMA AllocateStep ==
  ASSUME MarkSweepInv, NEW o \in Objects, Allocate(o), Return, pc \in {"run", "new"},
         UNCHANGED <<swept, marked, todo>>
  PROVE  /\ Disjoint' /\ Phases'
         /\ Kept' = Kept \cup {o} /\ o \notin Kept
         /\ Marking' /\ Sweeping' /\ Swept'
<1> USE DEF MarkSweepInv, Return
<1>1. list' = <<o>> \o list /\ o \notin Members(list) /\ o \notin Members(swept)
  BY DEF Allocate, Allocated, Members
<1>2. list \in Seq(Objects) /\ swept = <<>> /\ Members(<<>>) = {}
  BY DEF TypeOK, Phases, Members
<1>3. Members(list') = Members(list) \cup {o} /\ Distinct(list')
  BY <1>1, <1>2, MembersPush, DistinctPush DEF Disjoint
<1>4. Disjoint'
  BY <1>1, <1>2, <1>3 DEF Disjoint, Distinct, Members
<1>5. Kept' = Kept \cup {o} /\ o \notin Kept
  <2>1. Kept = Members(list)
    BY <1>2, KeptDef
  <2>2. Kept' = Members(list')
    BY <1>2 DEF Kept, Allocated, Members
  <2> QED BY <2>1, <2>2, <1>1, <1>3
<1> QED BY <1>4, <1>5 DEF Phases, Marking, Sweeping, Swept

LEMMA MarkStep ==
  ASSUME MarkSweepInv, Mark
  PROVE  Disjoint' /\ Phases' /\ HeapClosed' /\ Marking' /\ Sweeping' /\ Swept' /\ Kept' = Kept
<1> USE DEF MarkSweepInv
<1> DEFINE o == Head(todo)
           s == IF o \in marked THEN <<>> ELSE sons[o]
<1>1. /\ pc = "mark" /\ todo # <<>> /\ marked' = marked \cup {o} /\ todo' = s \o Tail(todo)
      /\ UNCHANGED <<stack, list, swept, sons, pc, then>>
  BY DEF Mark
<1>2. /\ o \in Objects /\ Tail(todo) \in Seq(Objects)
      /\ Members(todo) = {o} \cup Members(Tail(todo))
  BY <1>1, MembersHeadTail DEF TypeOK
<1>3. s \in Seq(Objects)
  BY <1>2, SonsType
<1>4. Members(todo') = Members(s) \cup Members(Tail(todo))
  <2> HIDE DEF s, o
  <2> QED BY <1>1, <1>2, <1>3, MembersConcat
<1>5. Reachable' = Reachable /\ Closed(Reachable)
  BY <1>1, ReachableSame, ReachableClosed
<1>6. Kept' = Kept
  BY <1>1 DEF Kept, Allocated
<1>7. Members(s) = IF o \in marked THEN {} ELSE Members(sons[o])
  BY DEF Members
<1>8. Marking'
  <2>1. marked' \cup Members(todo') \subseteq Reachable
    BY <1>1, <1>2, <1>4, <1>5, <1>7 DEF Marking, Closed
  <2>2. Members(stack) \subseteq marked' \cup Members(todo')
    BY <1>1, <1>2, <1>4 DEF Marking
  <2>3. ASSUME NEW x \in marked' PROVE Members(sons[x]) \subseteq marked' \cup Members(todo')
    <3>1. CASE x \in marked
      BY <3>1, <1>1, <1>2, <1>4 DEF Marking
    <3>2. CASE x \notin marked
      BY <3>2, <1>1, <1>4, <1>7
    <3> QED BY <3>1, <3>2
  <2> HIDE DEF s, o
  <2>4. UNCHANGED <<stack, sons>>
    BY <1>1
  <2> QED BY <2>1, <2>2, <2>3, <2>4, <1>5 DEF Marking, Members
<1>9. HeapClosed'
  BY <1>1, <1>6 DEF HeapClosed, Closed, Members
<1> QED BY <1>1, <1>6, <1>8, <1>9 DEF Disjoint, Distinct, Members, Phases, Sweeping, Swept

(* Marking ends with exactly the live objects marked. *)
LEMMA MarkEndsStep ==
  ASSUME MarkSweepInv, MarkEnds
  PROVE  /\ Disjoint' /\ Phases' /\ HeapClosed' /\ Marking' /\ Sweeping' /\ Swept'
         /\ Kept' = Reachable
<1> USE DEF MarkSweepInv
<1>1. /\ pc = "mark" /\ pc' = "sweep" /\ todo = <<>>
      /\ UNCHANGED <<stack, list, swept, sons, marked, todo, then>>
  BY DEF MarkEnds
<1>2. Members(todo) = {} /\ swept = <<>> /\ Members(swept) = {}
  BY <1>1 DEF Members, Phases
<1>3. Closed(marked) /\ marked \subseteq Reachable
  BY <1>1, <1>2 DEF Marking, Closed
<1>4. Reachable = marked
  BY <1>3, ReachableLeast DEF TypeOK
<1>5. Kept = Members(list)
  BY <1>1, <1>2, KeptDef
<1>6. marked \subseteq Members(list)
  BY <1>4, <1>5, KeptType, ReachableLeast DEF HeapClosed
<1>7. Kept' = marked
  <2>1. Kept' = (marked \cap Members(list)) \cup Members(swept)
    BY <1>1 DEF Kept, Allocated, Members
  <2> QED BY <2>1, <1>2, <1>6
<1>8. Reachable' = Reachable
  BY <1>1, ReachableSame
<1>9. HeapClosed'
  BY <1>1, <1>3, <1>7 DEF HeapClosed, Closed, Members
<1>10. Sweeping'
  BY <1>1, <1>4, <1>6, <1>7, <1>8 DEF Sweeping, Members
<1>11. Disjoint' /\ Phases' /\ Marking' /\ Swept'
  BY <1>1 DEF Disjoint, Distinct, Members, Phases, Marking, Swept
<1> QED BY <1>4, <1>7, <1>9, <1>10, <1>11

LEMMA FreeStep ==
  ASSUME MarkSweepInv, Free
  PROVE  Disjoint' /\ Phases' /\ HeapClosed' /\ Marking' /\ Sweeping' /\ Swept' /\ Kept' = Kept
<1> USE DEF MarkSweepInv
<1> DEFINE o == Head(list)
<1>1. /\ pc = "sweep" /\ list # <<>> /\ o \notin marked /\ list' = Tail(list)
      /\ UNCHANGED <<stack, swept, sons, marked, todo, pc, then>>
  BY DEF Free
<1>2. /\ Members(list) = {o} \cup Members(list') /\ Distinct(list')
      /\ list \in Seq(Objects)
  BY <1>1, MembersHeadTail, DistinctTail DEF TypeOK, Disjoint
<1>3. Kept' = Kept
  <2>1. Kept' = (marked \cap Members(list')) \cup Members(swept)
    BY <1>1 DEF Kept, Allocated, Members
  <2>2. Kept = (marked \cap Members(list)) \cup Members(swept)
    BY <1>1, KeptDef
  <2> QED BY <2>1, <2>2, <1>1, <1>2
<1>4. Reachable' = Reachable
  BY <1>1, ReachableSame
<1>5. HeapClosed'
  BY <1>1, <1>3 DEF HeapClosed, Closed, Members
<1>6. Sweeping'
  <2>1. marked \subseteq Members(list') /\ Kept' = Reachable'
    BY <1>1, <1>2, <1>3, <1>4 DEF Sweeping
  <2> QED BY <1>1, <2>1 DEF Sweeping, Members
<1>7. Disjoint'
  <2>1. Distinct(swept) /\ Members(list') \cap Members(swept) = {}
    BY <1>2 DEF Disjoint
  <2> QED BY <1>1, <1>2, <2>1 DEF Disjoint, Distinct, Members
<1> QED BY <1>1, <1>3, <1>5, <1>6, <1>7 DEF Phases, Marking, Swept

LEMMA KeepStep ==
  ASSUME MarkSweepInv, Keep
  PROVE  Disjoint' /\ Phases' /\ HeapClosed' /\ Marking' /\ Sweeping' /\ Swept' /\ Kept' = Kept
<1> USE DEF MarkSweepInv
<1> DEFINE o == Head(list)
<1>1. /\ pc = "sweep" /\ list # <<>> /\ o \in marked /\ list' = Tail(list)
      /\ swept' = Append(swept, o) /\ marked' = marked \ {o}
      /\ UNCHANGED <<stack, sons, todo, pc, then>>
  BY DEF Keep
<1>2. /\ Members(list) = {o} \cup Members(list') /\ Distinct(list') /\ o \notin Members(list')
      /\ list \in Seq(Objects) /\ swept \in Seq(Objects) /\ o \in Objects
  BY <1>1, MembersHeadTail, DistinctTail DEF TypeOK, Disjoint
<1>3. Members(swept') = Members(swept) \cup {o} /\ Distinct(swept')
  BY <1>1, <1>2, MembersAppend, DistinctAppend DEF Disjoint
<1>4. Kept' = Kept
  <2>1. Kept' = (marked' \cap Members(list')) \cup Members(swept')
    BY <1>1 DEF Kept, Allocated, Members
  <2>2. Kept = (marked \cap Members(list)) \cup Members(swept)
    BY <1>1, KeptDef
  <2> QED BY <2>1, <2>2, <1>1, <1>2, <1>3
<1>5. Reachable' = Reachable
  BY <1>1, ReachableSame
<1>6. HeapClosed'
  BY <1>1, <1>4 DEF HeapClosed, Closed, Members
<1>7. Sweeping'
  <2>1. marked' \subseteq Members(list') /\ Kept' = Reachable'
    BY <1>1, <1>2, <1>4, <1>5 DEF Sweeping
  <2> QED BY <2>1 DEF Sweeping, Members
<1>8. Disjoint'
  <2>1. Members(list') \cap Members(swept') = {}
    BY <1>2, <1>3 DEF Disjoint
  <2> QED BY <1>2, <1>3, <2>1 DEF Disjoint, Distinct, Members
<1> QED BY <1>1, <1>4, <1>6, <1>7, <1>8 DEF Phases, Marking, Swept

LEMMA SweepEndsStep ==
  ASSUME MarkSweepInv, SweepEnds
  PROVE  Disjoint' /\ Phases' /\ HeapClosed' /\ Marking' /\ Sweeping' /\ Swept' /\ Kept' = Kept
<1> USE DEF MarkSweepInv
<1>1. /\ pc = "sweep" /\ list = <<>> /\ list' = swept /\ swept' = <<>>
      /\ pc' \in {"exited", "run", "freed", "new"}
      /\ pc' = "exited" \/ pc' = AfterGc
      /\ UNCHANGED <<stack, sons, marked, todo, then>>
  BY DEF SweepEnds, AfterGc
<1>2. Members(<<>>) = {} /\ Distinct(<<>>)
  BY DEF Members, Distinct
<1>3. marked = {}
  BY <1>1, <1>2 DEF Sweeping
<1>4. Kept' = Kept
  <2>1. Kept' = Members(list') \cup Members(swept')
    BY <1>1 DEF Kept, Allocated, Members
  <2>2. Kept = (marked \cap Members(list)) \cup Members(swept)
    BY <1>1, KeptDef
  <2> QED BY <2>1, <2>2, <1>1, <1>2, <1>3
<1>5. Reachable' = Reachable /\ Kept = Reachable
  BY <1>1, ReachableSame DEF Sweeping
<1>6. HeapClosed'
  BY <1>1, <1>4 DEF HeapClosed, Closed, Members
<1>7. Disjoint'
  <2>1. Distinct(list') /\ Distinct(swept') /\ Members(list') \cap Members(swept') = {}
    BY <1>1, <1>2 DEF Disjoint
  <2> QED BY <2>1 DEF Disjoint, Distinct, Members
<1>8. Phases'
  BY <1>1, <1>3 DEF Phases, AfterGc, TypeOK
<1> QED BY <1>1, <1>4, <1>5, <1>6, <1>7, <1>8 DEF Marking, Sweeping, Swept

(* The client's own calls. *)
LEMMA PushIntStep ==
  ASSUME MarkSweepInv, PushInt
  PROVE  /\ Disjoint' /\ Phases' /\ HeapClosed' /\ Marking' /\ Sweeping' /\ Swept'
         /\ \E o \in Objects \ Kept :
              /\ Kept' = Kept \cup {o}
              /\ sons' = [sons EXCEPT ![o] = <<>>] /\ stack' = Append(stack, o)
<1> USE DEF MarkSweepInv
<1>1. PICK o \in Objects :
        Allocate(o) /\ sons' = [sons EXCEPT ![o] = <<>>] /\ stack' = Append(stack, o)
  BY DEF PushInt
<1>2. /\ pc \in {"run", "new"} /\ Return
      /\ UNCHANGED <<swept, marked, todo>>
  BY DEF PushInt, Ready
<1>3. /\ Disjoint' /\ Phases' /\ Marking' /\ Sweeping' /\ Swept'
      /\ Kept' = Kept \cup {o} /\ o \notin Kept
  BY <1>1, <1>2, AllocateStep
<1>4. Members(stack') = Members(stack) \cup {o}
  BY <1>1, MembersAppend DEF TypeOK
<1>5. HeapClosed'
  <2>1. ASSUME NEW x \in Kept' PROVE Members(sons'[x]) \subseteq Kept'
    <3>1. x = o => Members(sons'[x]) = {}
      BY <1>1 DEF Members, TypeOK
    <3>2. x # o => x \in Kept /\ sons'[x] = sons[x]
      BY <2>1, <1>1, <1>3 DEF TypeOK
    <3> QED BY <3>1, <3>2, <1>3 DEF HeapClosed, Closed
  <2>2. Members(stack') \subseteq Kept'
    BY <1>3, <1>4 DEF HeapClosed, Closed
  <2> QED BY <2>1, <2>2 DEF HeapClosed, Closed, Members
<1> QED BY <1>1, <1>3, <1>5

LEMMA PushPairStep ==
  ASSUME MarkSweepInv, PushPair
  PROVE  /\ Disjoint' /\ Phases' /\ HeapClosed' /\ Marking' /\ Sweeping' /\ Swept'
         /\ \E o \in Objects \ Kept :
              /\ Kept' = Kept \cup {o}
              /\ sons' = [sons EXCEPT ![o] = <<stack[Len(stack) - 1], stack[Len(stack)]>>]
              /\ stack' = Append(SubSeq(stack, 1, Len(stack) - 2), o)
<1> USE DEF MarkSweepInv
<1> DEFINE n == Len(stack)
           a == stack[n - 1]
           b == stack[n]
           s == SubSeq(stack, 1, n - 2)
<1>1. PICK o \in Objects :
        Allocate(o) /\ sons' = [sons EXCEPT ![o] = <<a, b>>] /\ stack' = Append(s, o)
  BY DEF PushPair
<1>2. /\ pc \in {"run", "new"} /\ Return /\ n >= 2
      /\ UNCHANGED <<swept, marked, todo>>
  BY DEF PushPair, Ready
<1>3. /\ Disjoint' /\ Phases' /\ Marking' /\ Sweeping' /\ Swept'
      /\ Kept' = Kept \cup {o} /\ o \notin Kept
  BY <1>1, <1>2, AllocateStep
<1>4. a \in Members(stack) /\ b \in Members(stack) /\ a \in Objects /\ b \in Objects
  BY <1>2 DEF Members, TypeOK
<1>5. s \in Seq(Objects) /\ Members(s) \subseteq Members(stack)
  <2>1. n - 2 \in 0..Len(stack) /\ stack \in Seq(Objects)
    BY <1>2 DEF TypeOK
  <2> QED BY <2>1, MembersSubSeq
<1> HIDE DEF a, b, s
<1>6. Members(stack') \subseteq Members(stack) \cup {o}
  BY <1>1, <1>5, MembersAppend
<1>7. Members(<<a, b>>) = {a, b}
  BY <1>4, PairType
<1>8. HeapClosed'
  <2>1. ASSUME NEW x \in Kept' PROVE Members(sons'[x]) \subseteq Kept'
    <3>1. x = o => sons'[x] = <<a, b>>
      BY <1>1 DEF TypeOK
    <3>2. x # o => x \in Kept /\ sons'[x] = sons[x]
      BY <2>1, <1>1, <1>3 DEF TypeOK
    <3> QED BY <3>1, <3>2, <1>3, <1>4, <1>7 DEF HeapClosed, Closed
  <2>2. Members(stack') \subseteq Kept'
    BY <1>3, <1>6 DEF HeapClosed, Closed
  <2> QED BY <2>1, <2>2 DEF HeapClosed, Closed, Members
<1> QED BY <1>1, <1>3, <1>8 DEF a, b, s

LEMMA PopStep ==
  ASSUME MarkSweepInv, Pop
  PROVE  Disjoint' /\ Phases' /\ HeapClosed' /\ Marking' /\ Sweeping' /\ Swept' /\ Kept' = Kept
<1> USE DEF MarkSweepInv
<1>1. /\ pc = "run" /\ stack # <<>> /\ stack' = SubSeq(stack, 1, Len(stack) - 1)
      /\ UNCHANGED <<list, swept, sons, marked, todo, pc, then>>
  BY DEF Pop
<1>2. Members(stack') \subseteq Members(stack)
  <2>1. Len(stack) - 1 \in 0..Len(stack) /\ stack \in Seq(Objects)
    BY <1>1 DEF TypeOK
  <2> QED BY <1>1, <2>1, MembersSubSeq
<1>3. Kept' = Kept
  BY <1>1 DEF Kept, Allocated
<1>4. HeapClosed'
  <2>1. Members(stack') \subseteq Kept /\ \A x \in Kept : Members(sons[x]) \subseteq Kept
    BY <1>2 DEF HeapClosed, Closed
  <2> QED BY <2>1, <1>1, <1>3 DEF HeapClosed, Closed, Members
<1> QED BY <1>1, <1>3, <1>4 DEF Disjoint, Distinct, Members, Phases, Marking, Sweeping, Swept

LEMMA LinkStep ==
  ASSUME MarkSweepInv, Link
  PROVE  Disjoint' /\ Phases' /\ HeapClosed' /\ Marking' /\ Sweeping' /\ Swept' /\ Kept' = Kept
<1> USE DEF MarkSweepInv
<1>1. PICK a \in Reachable, b \in Reachable :
        sons[a] # <<>> /\ sons' = [sons EXCEPT ![a] = <<sons[a][1], b>>]
  BY DEF Link
<1>2. pc = "run" /\ UNCHANGED <<stack, list, swept, marked, todo, pc, then>>
  BY DEF Link
<1>3. Kept' = Kept /\ Kept \subseteq Objects /\ Reachable \subseteq Kept
  BY <1>2, KeptType, ReachableLeast DEF Kept, Allocated, HeapClosed
<1> DEFINE h == sons[a][1]
<1>4. h \in Objects /\ h \in Members(sons[a])
  <2>1. sons[a] \in Objects \X Objects
    BY <1>1, <1>3 DEF TypeOK
  <2> QED BY <2>1, PairType
<1> HIDE DEF h
<1>5. Members(<<h, b>>) \subseteq Kept
  <2>1. Members(<<h, b>>) = {h, b}
    BY <1>3, <1>4, PairType
  <2> QED BY <2>1, <1>3, <1>4 DEF HeapClosed, Closed
<1>6. HeapClosed'
  <2>1. ASSUME NEW x \in Kept PROVE Members(sons'[x]) \subseteq Kept
    <3>1. x = a => sons'[x] = <<h, b>>
      BY <1>1, <1>3 DEF TypeOK, h
    <3>2. x # a => sons'[x] = sons[x]
      BY <1>1, <1>3 DEF TypeOK
    <3> QED BY <3>1, <3>2, <1>5 DEF HeapClosed, Closed
  <2>2. Members(stack) \subseteq Kept
    BY DEF HeapClosed, Closed
  <2> QED BY <2>1, <2>2, <1>2, <1>3 DEF HeapClosed, Closed, Members
<1> QED BY <1>2, <1>3, <1>6 DEF Disjoint, Distinct, Members, Phases, Marking, Sweeping, Swept

LEMMA FreeVMStep ==
  ASSUME MarkSweepInv, FreeVM
  PROVE  Disjoint' /\ Phases' /\ HeapClosed' /\ Marking' /\ Sweeping' /\ Swept' /\ Kept' = Kept
<1> USE DEF MarkSweepInv
<1>1. /\ pc = "run" /\ pc' = "mark" /\ then' = "free" /\ todo' = <<>> /\ stack' = <<>>
      /\ UNCHANGED <<list, swept, sons, marked>>
  BY DEF FreeVM
<1>2. Kept' = Kept
  BY <1>1 DEF Kept, Allocated
<1>3. marked = {} /\ swept = <<>> /\ Members(<<>>) = {}
  BY <1>1 DEF Phases, Members
<1>4. HeapClosed'
  <2>1. \A x \in Kept : Members(sons[x]) \subseteq Kept
    BY DEF HeapClosed, Closed
  <2> QED BY <2>1, <1>1, <1>2, <1>3 DEF HeapClosed, Closed, Members
<1>5. Marking'
  BY <1>1, <1>3 DEF Marking, Members
<1> QED BY <1>1, <1>2, <1>3, <1>4, <1>5 DEF Disjoint, Distinct, Members, Phases, Sweeping, Swept

LEMMA OverrunStep ==
  ASSUME MarkSweepInv, Overrun
  PROVE  Disjoint' /\ Phases' /\ HeapClosed' /\ Marking' /\ Sweeping' /\ Swept' /\ Kept' = Kept
<1> USE DEF MarkSweepInv
<1>1. /\ pc \in {"run", "new"} /\ pc' = "exited"
      /\ UNCHANGED <<stack, list, swept, sons, marked, todo, then>>
  BY DEF Overrun, Ready
<1>2. Kept' = Kept
  BY <1>1 DEF Kept, Allocated
<1>3. HeapClosed'
  BY <1>1, <1>2 DEF HeapClosed, Closed, Members
<1> QED BY <1>1, <1>2, <1>3 DEF Disjoint, Distinct, Members, Phases, Marking, Sweeping, Swept

LEMMA InvStep == MarkSweepInv /\ [Next]_vars => MarkSweepInv'
<1> SUFFICES ASSUME MarkSweepInv, [Next]_vars
             PROVE  Disjoint' /\ Phases' /\ HeapClosed' /\ Marking' /\ Sweeping' /\ Swept'
  BY NextTypes DEF MarkSweepInv
<1>1. ASSUME NEW op \in {"int", "pair"}, CollectFirst(op)
      PROVE  Disjoint' /\ Phases' /\ HeapClosed' /\ Marking' /\ Sweeping' /\ Swept'
  BY <1>1, StartStep DEF CollectFirst
<1>2. CASE Gc
  BY <1>2, StartStep DEF Gc
<1>3. CASE UNCHANGED vars
  <2>1. Reachable' = Reachable /\ Kept' = Kept
    BY <1>3, ReachableSame DEF vars, Kept, Allocated
  <2> QED BY <1>3, <2>1 DEF vars, MarkSweepInv, Disjoint, Distinct, Members, Phases, HeapClosed,
                            Closed, Marking, Sweeping, Swept
<1> QED BY <1>1, <1>2, <1>3, PushIntStep, PushPairStep, OverrunStep, PopStep, LinkStep,
           FreeVMStep, MarkStep, MarkEndsStep, FreeStep, KeepStep, SweepEndsStep
        DEF Next, Collector

(* No object that the stack reaches is ever freed, however the pairs are   *)
(* linked and whenever collections happen (main.c:74-156).                 *)
THEOREM ReachableObjectsStay == Spec => []ReachableStay
<1>1. MarkSweepInv => ReachableStay
  BY KeptType, ReachableLeast DEF MarkSweepInv, HeapClosed, ReachableStay
<1> QED BY <1>1, InitInv, InvStep, PTL DEF Spec

(* No mark survives a collection (main.c:107-110).                         *)
THEOREM MarksAreCleared == Spec => []UnmarkedBetweenCollections
<1>1. MarkSweepInv => UnmarkedBetweenCollections
  BY DEF MarkSweepInv, Phases, UnmarkedBetweenCollections
<1> QED BY <1>1, InitInv, InvStep, PTL DEF Spec
-----------------------------------------------------------------------------
(* Refinement *)

LEMMA StatusRun == Phases /\ pc \in {"run", "new"} => Status = "run"
BY DEF Phases, Status

LEMMA StepRefines == MarkSweepInv /\ [Next]_vars => [Heap!Next]_Heap!vars
<1> SUFFICES ASSUME MarkSweepInv, [Next]_vars PROVE [Heap!Next]_Heap!vars
  OBVIOUS
<1> USE DEF MarkSweepInv
<1>1. ASSUME NEW op \in {"int", "pair"}, CollectFirst(op) PROVE UNCHANGED Heap!vars
  BY <1>1 DEF CollectFirst, StartCollection, Heap!vars, Kept, Allocated, Status, Phases
<1>2. CASE PushInt
  <2>1. \E o \in Objects \ Kept :
          /\ Kept' = Kept \cup {o}
          /\ sons' = [sons EXCEPT ![o] = <<>>] /\ stack' = Append(stack, o)
    BY <1>2, PushIntStep
  <2>2. Len(stack) < StackMax /\ Status = "run" /\ Status' = "run"
    BY <1>2, StatusRun DEF PushInt, Ready, Return, Status
  <2>3. Heap!PushInt
    BY <2>1, <2>2 DEF Heap!PushInt
  <2> QED BY <2>3 DEF Heap!Next
<1>3. CASE PushPair
  <2>1. \E o \in Objects \ Kept :
          /\ Kept' = Kept \cup {o}
          /\ sons' = [sons EXCEPT ![o] = <<stack[Len(stack) - 1], stack[Len(stack)]>>]
          /\ stack' = Append(SubSeq(stack, 1, Len(stack) - 2), o)
    BY <1>3, PushPairStep
  <2>2. Len(stack) >= 2 /\ Status = "run" /\ Status' = "run"
    BY <1>3, StatusRun DEF PushPair, Ready, Return, Status
  <2>3. Heap!PushPair
    BY <2>1, <2>2 DEF Heap!PushPair
  <2> QED BY <2>3 DEF Heap!Next
<1>4. CASE Overrun
  <2>1. Kept' = Kept /\ Status' = "failed" /\ UNCHANGED <<stack, sons>>
    BY <1>4, OverrunStep DEF Overrun, Status
  <2> QED BY <2>1 DEF Heap!Next, Heap!Fail
<1>5. CASE Pop
  <2>1. Kept' = Kept /\ Status = "run" /\ Status' = Status /\ UNCHANGED sons
    BY <1>5, PopStep, StatusRun DEF Pop, Status
  <2>2. Heap!Pop
    BY <1>5, <2>1 DEF Pop, Heap!Pop
  <2> QED BY <2>2 DEF Heap!Next
<1>6. CASE Link
  <2>1. Kept' = Kept /\ Status = "run" /\ Status' = Status /\ UNCHANGED stack
    BY <1>6, LinkStep, StatusRun DEF Link, Status
  <2>2. Heap!Link
    BY <1>6, <2>1 DEF Link, Heap!Link, Reachable
  <2> QED BY <2>2 DEF Heap!Next
<1>7. CASE Gc
  BY <1>7 DEF Gc, StartCollection, Heap!vars, Kept, Allocated, Status, Phases
<1>8. CASE FreeVM
  <2>1. /\ Kept' = Kept /\ Status = "run" /\ Status' = "closing"
        /\ stack' = <<>> /\ UNCHANGED sons
    BY <1>8, FreeVMStep, StatusRun DEF FreeVM, Status
  <2> QED BY <2>1 DEF Heap!Next, Heap!Close
<1>9. CASE Mark
  <2>1. Kept' = Kept /\ Status' = Status /\ UNCHANGED <<stack, sons>>
    BY <1>9, MarkStep DEF Mark, Status
  <2> QED BY <2>1 DEF Heap!vars
<1>10. CASE MarkEnds
  <2>1. /\ Kept' = Reachable /\ Status \in {"run", "closing"} /\ Status' = Status
        /\ UNCHANGED <<stack, sons>>
    BY <1>10, MarkEndsStep DEF MarkEnds, Status
  <2>2. Heap!Collect
    BY <2>1 DEF Heap!Collect, Reachable
  <2> QED BY <2>2 DEF Heap!Next
<1>11. CASE Free
  <2>1. Kept' = Kept /\ Status' = Status /\ UNCHANGED <<stack, sons>>
    BY <1>11, FreeStep DEF Free, Status
  <2> QED BY <2>1 DEF Heap!vars
<1>12. CASE Keep
  <2>1. Kept' = Kept /\ Status' = Status /\ UNCHANGED <<stack, sons>>
    BY <1>12, KeepStep DEF Keep, Status
  <2> QED BY <2>1 DEF Heap!vars
<1>13. CASE SweepEnds
  <2>1. Kept' = Kept /\ UNCHANGED <<stack, sons, then>> /\ pc = "sweep"
    BY <1>13, SweepEndsStep DEF SweepEnds
  <2>2. CASE pc' = "exited"
    BY <2>1, <2>2 DEF Status, Heap!Next, Heap!Fail
  <2>3. CASE pc' = "freed"
    <3>1. then = "free"
      BY <1>13, <2>3 DEF SweepEnds, AfterGc
    <3>2. stack = <<>>
      BY <3>1 DEF Phases
    <3>3. Closed({})
      BY <3>2 DEF Closed, Members
    <3>4. Kept = {}
      BY <2>1, <3>3, ReachableLeast DEF Sweeping
    <3>5. Status = "closing" /\ Status' = "down"
      BY <2>1, <2>3, <3>1 DEF Status
    <3> QED BY <2>1, <3>4, <3>5 DEF Heap!Next, Heap!Down
  <2>4. CASE pc' \in {"run", "new"}
    <3>1. then # "free"
      BY <1>13, <2>4 DEF SweepEnds, AfterGc
    <3>2. Status' = Status
      BY <2>1, <2>4, <3>1 DEF Status
    <3> QED BY <2>1, <3>2 DEF Heap!vars
  <2>5. pc' \in {"exited", "freed", "run", "new"}
    BY <1>13 DEF SweepEnds, AfterGc
  <2> QED BY <2>2, <2>3, <2>4, <2>5
<1>14. CASE UNCHANGED vars
  BY <1>14 DEF vars, Heap!vars, Kept, Allocated, Status
<1> QED BY <1>1, <1>2, <1>3, <1>4, <1>5, <1>6, <1>7, <1>8, <1>9, <1>10, <1>11, <1>12,
           <1>13, <1>14 DEF Next, Collector

(* The collector implements CollectedHeap: all the steps of a collection   *)
(* amount to one that removes exactly the objects out of reach, every      *)
(* other call does what it says to the stack and the objects, and freeVM   *)
(* leaves nothing behind.                                                  *)
THEOREM CollectorImplementsHeap == Spec => ImplementsHeap
<1>1. Init => Heap!Init
  <2> SUFFICES ASSUME Init PROVE Heap!Init
    OBVIOUS
  <2>1. Kept = {}
    BY KeptDef DEF Init, Members
  <2>2. Status = "run"
    BY DEF Init, Status
  <2> QED BY <2>1, <2>2 DEF Init, Heap!Init
<1> QED BY <1>1, InitInv, InvStep, StepRefines, PTL DEF Spec, ImplementsHeap, Heap!Spec
=============================================================================
