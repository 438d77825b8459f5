---------------------------- MODULE LogStoreProofs ----------------------------
(***************************************************************************)
(* Proofs about LogStore for any keys, values, writers and length of the   *)
(* log: its types, that no finished line is altered, that a read is as     *)
(* recent as the last append acknowledged after running alone, and that a  *)
(* file nothing spoiled has only lines that parse.                         *)
(***************************************************************************)
EXTENDS LogStore, SequenceTheorems, WellFoundedInduction, TLAPS

(* The entries of k in a log l, and the newest of them. *)
Hits(l, k) == {i \in 1..Len(l) : l[i] # Garbage /\ l[i].key = k}
Newest(l, k) == IF Hits(l, k) = {} THEN Absent ELSE l[Max(Hits(l, k))].val

(* While the last line is open, what is left when a second text spoils it  *)
(* must be an answer a read may give too.                                  *)
RecentIfSpoiled ==
  open => \A k \in Keys : Newest(Front(log), k) \in may[k]

(* A writer alone on its line will finish the line it wrote. *)
AloneIsLast ==
  \A w \in Writers : pc[w] = "newline" /\ alone[w] =>
    /\ open
    /\ entry[w] \in Entry /\ log[Len(log)] = entry[w]
    /\ \A x \in Writers \ {w} : pc[x] # "newline"

(* In an unspoiled file the last line is open exactly while one writer has *)
(* its newline to write.                                                   *)
OpenByOne ==
  clean => /\ open <=> Unfinished # {}
           /\ \A w, x \in Unfinished : w = x
           /\ \A i \in 1..Len(log) : log[i] # Garbage

LogInv ==
  /\ TypeOK
  /\ \A k \in Keys : Newest(log, k) \in may[k]
  /\ RecentIfSpoiled
  /\ AloneIsLast
  /\ OpenByOne
-----------------------------------------------------------------------------
(* Sequences *)

LEMMA LargestExists ==
  ASSUME NEW N \in Nat, NEW S, S \subseteq 1..N, S # {}
  PROVE  Max(S) \in S /\ \A y \in S : y <= Max(S)
<1> DEFINE T == {N - x : x \in S}
           R == OpToRel(<, Nat)
<1>1. T \subseteq Nat /\ T # {}
  <2>1. \A x \in S : N - x \in Nat
    OBVIOUS
  <2>2. T # {}
    OBVIOUS
  <2> QED BY <2>1, <2>2
<1>2. \A i, j \in Nat : i < j => <<i, j>> \in R
  BY DEF OpToRel
<1>3. PICK m \in T : \A y \in T : ~(<<y, m>> \in R)
  <2>1. IsWellFoundedOn(R, Nat)
    BY NatLessThanWellFounded
  <2> HIDE DEF T, R
  <2> QED BY <2>1, <1>1, WFMin, Zenon
<1> HIDE DEF R
<1>4. ASSUME NEW y \in T PROVE m <= y
  <2>1. m \in Nat /\ y \in Nat
    BY <1>1
  <2>2. ~(y < m)
    BY <2>1, <1>2, <1>3
  <2> QED BY <2>1, <2>2
<1>5. PICK x \in S : m = N - x
  OBVIOUS
<1>6. ASSUME NEW y \in S PROVE x >= y
  <2>1. m <= N - y
    BY <1>4
  <2> QED BY <1>5, <2>1
<1>7. Max(S) \in S /\ \A y \in S : Max(S) >= y
  BY <1>6 DEF Max
<1> QED BY <1>7

LEMMA SeqFacts ==
  ASSUME NEW S, NEW s \in Seq(S), NEW e \in S
  PROVE  /\ Append(s, e) \in Seq(S) /\ Append(s, e) # <<>>
         /\ Len(Append(s, e)) = Len(s) + 1 /\ Append(s, e)[Len(s) + 1] = e
         /\ \A i \in 1..Len(s) : Append(s, e)[i] = s[i]
         /\ Front(Append(s, e)) = s
         /\ IsPrefix(s, s) /\ IsPrefix(s, Append(s, e))
<1>1. /\ Append(s, e) \in Seq(S) /\ Append(s, e) # <<>>
      /\ Len(Append(s, e)) = Len(s) + 1 /\ Append(s, e)[Len(s) + 1] = e
      /\ \A i \in 1..Len(s) : Append(s, e)[i] = s[i]
  BY AppendProperties
<1>2. Len(s) \in Nat /\ \A i \in 1..Len(s) : s[i] \in S
  OBVIOUS
<1>3. SubSeq(Append(s, e), 1, Len(s)) = s /\ SubSeq(s, 1, Len(s)) = s
  BY <1>1, <1>2
<1> QED BY <1>1, <1>2, <1>3 DEF Front, IsPrefix

LEMMA FrontFacts ==
  ASSUME NEW S, NEW s \in Seq(S), s # <<>>
  PROVE  /\ Front(s) \in Seq(S) /\ Len(Front(s)) = Len(s) - 1
         /\ \A i \in 1..Len(s) - 1 : Front(s)[i] = s[i]
         /\ IsPrefix(Front(s), s)
<1>1. Len(s) \in Nat \ {0} /\ \A i \in 1..Len(s) : s[i] \in S
  BY EmptySeq, LenProperties
<1>2. \A i \in 1..Len(s) - 1 : s[i] \in S
  BY <1>1
<1>3. /\ Front(s) \in Seq(S) /\ Len(Front(s)) = Len(s) - 1
      /\ \A i \in 1..Len(s) - 1 : Front(s)[i] = s[i]
  <2>1. Len(s) - 1 \in Nat
    BY <1>1
  <2>2. Front(s) \in Seq(S)
    BY <1>1, <1>2, <2>1, SubSeqProperties DEF Front
  <2> DEFINE n == Len(s) - 1
  <2>3. Len(Front(s)) = Len(s) - 1
    <3>1. n \in Nat /\ \A i \in 1..n : s[i] \in S
      BY <1>2, <2>1
    <3> HIDE DEF n
    <3>2. Len(SubSeq(s, 1, n)) = IF 1 <= n THEN n - 1 + 1 ELSE 0
      BY <3>1, SubSeqProperties
    <3>3. Len(SubSeq(s, 1, n)) = n
      BY <3>1, <3>2
    <3> QED BY <3>3 DEF Front, n
  <2>4. \A i \in 1..Len(s) - 1 : Front(s)[i] = s[i]
    BY <1>1, <1>2, <2>1 DEF Front
  <2> QED BY <2>2, <2>3, <2>4
<1>4. SubSeq(Front(s), 1, Len(Front(s))) = Front(s)
  BY <1>1, <1>3
<1> QED BY <1>1, <1>3, <1>4 DEF IsPrefix, Front
-----------------------------------------------------------------------------
(* The newest entry *)

(* Get answers the newest entry, but for a line that is read as one of "". *)
LEMMA GetIsNewest ==
  ASSUME NEW k \in Keys, log \in Seq(Line)
  PROVE  \/ Get(k) = Newest(log, k)
         \/ /\ k = EmptyKey /\ Get(k) = ZeroValue
            /\ \E i \in 1..Len(log) : log[i] = Garbage
<1> DEFINE R == {i \in 1..Len(log) : IsFor(log[i], k)}
           i == Max(R)
<1>1. Len(log) \in Nat
  OBVIOUS
<1>2. Get(k) = IF R = {} THEN Absent ELSE IF i = 0 THEN Absent ELSE ValueOf(log[i])
  BY DEF Get, SelectLastInSeq
<1>3. Hits(log, k) \subseteq R
  BY DEF Hits, IsFor
<1>4. CASE R = {}
  BY <1>2, <1>3, <1>4 DEF Newest
<1>5. CASE R # {}
  <2> HIDE DEF i
  <2>1. R \subseteq 1..Len(log)
    OBVIOUS
  <2>2. i \in R /\ \A j \in R : j <= i
    <3> HIDE DEF R
    <3> QED BY <1>1, <1>5, <2>1, LargestExists DEF i
  <2>3. i \in 1..Len(log) /\ i # 0 /\ IsFor(log[i], k)
    BY <2>2
  <2>4. Get(k) = ValueOf(log[i])
    BY <1>2, <1>5, <2>3
  <2>5. CASE log[i] = Garbage
    BY <2>3, <2>4, <2>5 DEF IsFor, ValueOf
  <2>6. CASE log[i] # Garbage
    <3>1. i \in Hits(log, k)
      BY <2>3, <2>6 DEF Hits, IsFor
    <3>2. Hits(log, k) \subseteq 1..Len(log)
      BY DEF Hits
    <3>3. Max(Hits(log, k)) \in Hits(log, k) /\ i <= Max(Hits(log, k))
      BY <1>1, <3>1, <3>2, LargestExists
    <3>4. Max(Hits(log, k)) \in R
      BY <1>3, <3>3
    <3>5. Max(Hits(log, k)) = i
      <4>1. Max(Hits(log, k)) <= i
        BY <2>2, <3>4
      <4>2. Max(Hits(log, k)) \in Nat /\ i \in Nat
        BY <2>3, <3>2, <3>3
      <4> QED BY <3>3, <4>1, <4>2
    <3> QED BY <2>4, <2>6, <3>1, <3>5 DEF Newest, ValueOf
  <2> QED BY <2>5, <2>6
<1> QED BY <1>4, <1>5

(* A line appended is the newest entry of its key and leaves the others;   *)
(* one that does not parse leaves all.                                     *)
LEMMA NewestAppended ==
  ASSUME NEW l \in Seq(Line), NEW x \in Line, NEW k \in Keys
  PROVE  Newest(Append(l, x), k) =
           IF x # Garbage /\ x.key = k THEN x.val ELSE Newest(l, k)
<1> DEFINE n == Len(l)
           a == Append(l, x)
<1>1. n \in Nat /\ Len(a) = n + 1 /\ a[n + 1] = x /\ \A i \in 1..n : a[i] = l[i]
  BY SeqFacts
<1> HIDE DEF a
<1>2. CASE x # Garbage /\ x.key = k
  <2>1. n + 1 \in Hits(a, k) /\ Hits(a, k) \subseteq 1..n + 1
    BY <1>1, <1>2 DEF Hits
  <2>2. Max(Hits(a, k)) \in 1..n + 1 /\ n + 1 <= Max(Hits(a, k))
    BY <1>1, <2>1, LargestExists
  <2>3. Max(Hits(a, k)) = n + 1
    BY <1>1, <2>2
  <2> QED BY <1>1, <1>2, <2>1, <2>3 DEF Newest, a
<1>3. CASE ~(x # Garbage /\ x.key = k)
  <2>1. Hits(a, k) = Hits(l, k)
    BY <1>1, <1>3 DEF Hits
  <2>2. CASE Hits(l, k) = {}
    BY <1>3, <2>1, <2>2 DEF Newest, a
  <2>3. CASE Hits(l, k) # {}
    <3>1. Max(Hits(l, k)) \in 1..n
      BY <1>1, <2>3, LargestExists DEF Hits
    <3> QED BY <1>1, <1>3, <2>1, <2>3, <3>1 DEF Newest, a
  <2> QED BY <2>2, <2>3
<1> QED BY <1>2, <1>3 DEF a

LEMMA EntryFacts ==
  /\ Garbage \in Line /\ Garbage \notin Entry
  /\ \A k \in Keys, v \in Stored : [key |-> k, val |-> v] \in Entry
  /\ Entry \subseteq Line /\ Absent \in Stored /\ Values \subseteq Stored
  /\ \A e \in Entry : e.key \in Keys /\ e.val \in Stored /\ e # Garbage
BY LogAssumption DEF Entry, Line, Stored
-----------------------------------------------------------------------------
(* A text written leaves what a read may answer before it, or its own.     *)

LEMMA AppendedIsRecent ==
  ASSUME LogInv, NEW x \in Line
  PROVE  /\ Appended(x) \in Seq(Line) /\ Appended(x) # <<>>
         /\ Front(Appended(x)) = Terminated
         /\ Terminated \in Seq(Line)
         /\ \A k \in Keys : Newest(Terminated, k) \in may[k]
         /\ \A k \in Keys : \/ Newest(Appended(x), k) \in may[k]
                            \/ x # Garbage /\ x.key = k /\ Newest(Appended(x), k) = x.val
         /\ ~open => /\ Appended(x)[Len(Appended(x))] = x
                     /\ Len(Appended(x)) = Len(log) + 1
                     /\ \A i \in 1..Len(log) : Appended(x)[i] = log[i]
<1>1. log \in Seq(Line) /\ (open => log # <<>>)
  BY DEF LogInv, TypeOK
<1>2. CASE open
  <2>1. Front(log) \in Seq(Line)
    BY <1>1, <1>2, FrontFacts
  <2>2. Appended(x) = Append(Front(log), Garbage) /\ Terminated = Front(log)
    BY <1>2 DEF Appended, Terminated
  <2>3. \A k \in Keys : Newest(Front(log), k) \in may[k]
    BY <1>2 DEF LogInv, RecentIfSpoiled
  <2>4. \A k \in Keys : Newest(Append(Front(log), Garbage), k) = Newest(Front(log), k)
    BY <2>1, NewestAppended, EntryFacts
  <2>5. /\ Append(Front(log), Garbage) \in Seq(Line) /\ Append(Front(log), Garbage) # <<>>
        /\ Front(Append(Front(log), Garbage)) = Front(log)
    BY <2>1, SeqFacts, EntryFacts
  <2> QED BY <1>2, <2>1, <2>2, <2>3, <2>4, <2>5
<1>3. CASE ~open
  <2>1. Appended(x) = Append(log, x) /\ Terminated = log
    BY <1>3 DEF Appended, Terminated
  <2>2. \A k \in Keys : Newest(log, k) \in may[k]
    BY DEF LogInv
  <2>3. \A k \in Keys : Newest(Append(log, x), k) =
          IF x # Garbage /\ x.key = k THEN x.val ELSE Newest(log, k)
    BY <1>1, NewestAppended
  <2>4. /\ Append(log, x) \in Seq(Line) /\ Append(log, x) # <<>>
        /\ Front(Append(log, x)) = log
        /\ Len(Append(log, x)) = Len(log) + 1 /\ Append(log, x)[Len(log) + 1] = x
        /\ \A i \in 1..Len(log) : Append(log, x)[i] = log[i]
    BY <1>1, SeqFacts
  <2> QED BY <1>1, <1>3, <2>1, <2>2, <2>3, <2>4
<1> QED BY <1>2, <1>3

LEMMA WriteTextKeeps ==
  ASSUME LogInv, NEW w \in Writers, NEW k \in Keys, NEW v \in Stored, WriteText(w, k, v)
  PROVE  LogInv'
<1> DEFINE e == [key |-> k, val |-> v]
           single == ~open /\ \A x \in Writers : Idle(x)
<1>1. /\ log' = Appended(e) /\ open' = TRUE
      /\ pc' = [pc EXCEPT ![w] = "newline"]
      /\ entry' = [entry EXCEPT ![w] = e]
      /\ alone' = [x \in Writers |-> x = w /\ single]
      /\ may' = [may EXCEPT ![k] = @ \cup {v}]
      /\ clean' = (clean /\ Unfinished = {})
  BY DEF WriteText
<1>2. e \in Entry /\ e \in Line /\ e.key = k /\ e.val = v
  BY EntryFacts
<1>t. TypeOK
  BY DEF LogInv
<1> HIDE DEF e
<1>3. TypeOK'
  <2>1. log' \in Seq(Line) /\ log' # <<>> /\ open' \in BOOLEAN
    BY <1>1, <1>2, AppendedIsRecent
  <2>2. pc' \in [Writers -> {"idle", "newline", "unlinked"}] /\ entry' \in [Writers -> Line]
    BY <1>1, <1>2, <1>t DEF TypeOK
  <2>3. alone' \in [Writers -> BOOLEAN]
    BY <1>1, <1>t DEF TypeOK, Idle
  <2>4. may' \in [Keys -> SUBSET Stored]
    BY <1>1, <1>t DEF TypeOK
  <2>5. clean' \in BOOLEAN
    BY <1>1, <1>t DEF TypeOK
  <2> QED BY <2>1, <2>2, <2>3, <2>4, <2>5 DEF TypeOK
<1>4. \A j \in Keys : may[j] \subseteq may'[j] /\ v \in may'[k]
  BY <1>1, <1>t DEF TypeOK
<1>5. \A j \in Keys : Newest(log', j) \in may'[j]
  BY <1>1, <1>2, <1>4, AppendedIsRecent
<1>6. RecentIfSpoiled'
  <2>1. Front(log') = Terminated
    BY <1>1, <1>2, AppendedIsRecent
  <2>2. \A j \in Keys : Newest(Front(log'), j) \in may'[j]
    BY <2>1, <1>2, <1>4, AppendedIsRecent
  <2> QED BY <2>2 DEF RecentIfSpoiled
<1>7. AloneIsLast'
  <2> SUFFICES ASSUME NEW x \in Writers, pc'[x] = "newline", alone'[x]
               PROVE  /\ open'
                      /\ entry'[x] \in Entry /\ log'[Len(log')] = entry'[x]
                      /\ \A y \in Writers \ {x} : pc'[y] # "newline"
    BY DEF AloneIsLast
  <2>1. x = w /\ single
    BY <1>1
  <2>2. entry'[x] = e
    BY <1>1, <1>t, <2>1 DEF TypeOK
  <2>3. log'[Len(log')] = e
    BY <1>1, <1>2, <2>1, AppendedIsRecent
  <2>4. \A y \in Writers \ {x} : pc'[y] = "idle"
    BY <1>1, <1>t, <2>1 DEF TypeOK, Idle
  <2> QED BY <1>1, <1>2, <2>2, <2>3, <2>4
<1>8. OpenByOne'
  <2> SUFFICES ASSUME clean, Unfinished = {}
               PROVE  /\ open' <=> Unfinished' # {}
                      /\ \A x, y \in Unfinished' : x = y
                      /\ \A i \in 1..Len(log') : log'[i] # Garbage
    BY <1>1 DEF OpenByOne
  <2>1. Unfinished' = {w}
    BY <1>1, <1>t DEF TypeOK, Unfinished
  <2>2. ~open /\ \A i \in 1..Len(log) : log[i] # Garbage
    BY DEF LogInv, OpenByOne
  <2>3. Len(log) \in Nat /\ e # Garbage
    BY <1>2, <1>t, EntryFacts DEF TypeOK
  <2>4. \A i \in 1..Len(log') : log'[i] # Garbage
    <3>1. /\ log'[Len(log')] = e /\ Len(log') = Len(log) + 1
          /\ \A i \in 1..Len(log) : log'[i] = log[i]
      BY <1>1, <1>2, <2>2, AppendedIsRecent
    <3> QED BY <2>2, <2>3, <3>1
  <2> QED BY <1>1, <2>1, <2>4
<1> QED BY <1>3, <1>5, <1>6, <1>7, <1>8 DEF LogInv

LEMMA WriteNewlineKeeps ==
  ASSUME LogInv, NEW w \in Writers, WriteNewline(w)
  PROVE  LogInv'
<1>1. /\ pc[w] = "newline" /\ open' = FALSE
      /\ log' = IF open THEN log ELSE Append(log, Garbage)
      /\ may' = IF alone[w] THEN [may EXCEPT ![entry[w].key] = {entry[w].val}] ELSE may
      /\ pc' = [pc EXCEPT ![w] = "idle"]
      /\ entry' = [entry EXCEPT ![w] = Garbage]
      /\ alone' = [alone EXCEPT ![w] = FALSE]
      /\ clean' = clean
  BY DEF WriteNewline, Return
<1>t. TypeOK
  BY DEF LogInv
<1>2. log' \in Seq(Line) /\ \A k \in Keys : Newest(log', k) = Newest(log, k)
  <2>1. log \in Seq(Line) /\ Garbage \in Line
    BY <1>t, EntryFacts DEF TypeOK
  <2> QED BY <1>1, <2>1, SeqFacts, NewestAppended
<1>3. OpenByOne'
  <2> SUFFICES ASSUME clean
               PROVE  /\ Unfinished' = {}
                      /\ \A i \in 1..Len(log') : log'[i] # Garbage
    BY <1>1 DEF OpenByOne
  <2>1. w \in Unfinished
    BY <1>1 DEF Unfinished
  <2>2. /\ open /\ \A x \in Unfinished : x = w
        /\ \A i \in 1..Len(log) : log[i] # Garbage
    BY <2>1 DEF LogInv, OpenByOne
  <2>3. Unfinished' = {}
    BY <1>1, <1>t, <2>2 DEF TypeOK, Unfinished
  <2> QED BY <1>1, <2>2, <2>3
<1>4. CASE alone[w]
  <2>1. /\ open /\ entry[w] \in Entry /\ log[Len(log)] = entry[w]
        /\ \A x \in Writers \ {w} : pc[x] # "newline"
    BY <1>1, <1>4 DEF LogInv, AloneIsLast
  <2> DEFINE e == entry[w]
  <2>2. e.key \in Keys /\ e.val \in Stored /\ e # Garbage
    BY <2>1, EntryFacts
  <2>3. Newest(log, e.key) = e.val
    <3>1. log \in Seq(Line) /\ log # <<>>
      BY <1>t, <2>1 DEF TypeOK
    <3>2. Len(log) \in Nat \ {0}
      BY <3>1, EmptySeq, LenProperties
    <3>3. Len(log) \in Hits(log, e.key) /\ Hits(log, e.key) \subseteq 1..Len(log)
      BY <3>2, <2>1, <2>2 DEF Hits
    <3>4. Max(Hits(log, e.key)) \in 1..Len(log) /\ Len(log) <= Max(Hits(log, e.key))
      BY <3>2, <3>3, LargestExists
    <3>5. Max(Hits(log, e.key)) = Len(log)
      BY <3>2, <3>4
    <3> QED BY <2>1, <3>3, <3>5 DEF Newest
  <2>4. may' = [may EXCEPT ![e.key] = {e.val}]
    BY <1>1, <1>4
  <2>5. may' \in [Keys -> SUBSET Stored]
    BY <1>t, <2>2, <2>4 DEF TypeOK
  <2>6. \A k \in Keys : Newest(log', k) \in may'[k]
    BY <1>t, <1>2, <2>2, <2>3, <2>4 DEF TypeOK, LogInv
  <2>7. TypeOK'
    BY <1>t, <1>1, <1>2, <2>5, EntryFacts DEF TypeOK
  <2>8. AloneIsLast'
    BY <1>t, <1>1, <2>1 DEF TypeOK, AloneIsLast
  <2> QED BY <1>1, <1>3, <2>6, <2>7, <2>8 DEF LogInv, RecentIfSpoiled
<1>5. CASE ~alone[w]
  <2>1. may' = may
    BY <1>1, <1>5
  <2>2. TypeOK'
    BY <1>t, <1>1, <1>2, <2>1, EntryFacts DEF TypeOK
  <2>3. \A k \in Keys : Newest(log', k) \in may'[k]
    BY <1>2, <2>1 DEF LogInv
  <2>4. AloneIsLast'
    <3> SUFFICES ASSUME NEW x \in Writers, pc'[x] = "newline", alone'[x] PROVE FALSE
      BY DEF AloneIsLast
    <3>1. x # w /\ pc[x] = "newline" /\ alone[x]
      BY <1>t, <1>1 DEF TypeOK
    <3>2. pc[w] # "newline"
      BY <3>1 DEF LogInv, AloneIsLast
    <3> QED BY <1>1, <3>2
  <2> QED BY <1>1, <1>3, <2>2, <2>3, <2>4 DEF LogInv, RecentIfSpoiled
<1> QED BY <1>4, <1>5

LEMMA WriteUnlinkedKeeps ==
  ASSUME LogInv, NEW w \in Writers, WriteUnlinked(w)
  PROVE  LogInv'
<1>1. /\ pc' = [pc EXCEPT ![w] = "idle"]
      /\ entry' = [entry EXCEPT ![w] = Garbage]
      /\ alone' = [alone EXCEPT ![w] = FALSE]
      /\ log' = log /\ open' = open /\ may' = may /\ clean' = clean
      /\ pc[w] = "unlinked"
  BY DEF WriteUnlinked, Return
<1>t. TypeOK
  BY DEF LogInv
<1>2. TypeOK'
  BY <1>1, <1>t, EntryFacts DEF TypeOK
<1>3. AloneIsLast'
  BY <1>1, <1>t DEF LogInv, TypeOK, AloneIsLast
<1>4. Unfinished' = Unfinished
  BY <1>1, <1>t DEF TypeOK, Unfinished
<1>5. OpenByOne'
  BY <1>1, <1>4 DEF LogInv, OpenByOne
<1> QED BY <1>1, <1>2, <1>3, <1>5 DEF LogInv, RecentIfSpoiled

LEMMA ResetKeeps ==
  ASSUME LogInv, ResetDB
  PROVE  LogInv'
<1>1. /\ log' = <<>> /\ open' = FALSE
      /\ pc' = [w \in Writers |-> IF Idle(w) THEN "idle" ELSE "unlinked"]
      /\ may' = [k \in Keys |-> {Absent}]
      /\ entry' = entry /\ alone' = alone /\ clean' = TRUE
  BY DEF ResetDB
<1>t. TypeOK
  BY DEF LogInv
<1>2. TypeOK'
  <2>1. log' \in Seq(Line) /\ open' \in BOOLEAN /\ ~open'
    BY <1>1, EmptySeq
  <2>2. pc' \in [Writers -> {"idle", "newline", "unlinked"}]
    BY <1>1
  <2>3. may' \in [Keys -> SUBSET Stored]
    BY <1>1, EntryFacts
  <2> QED BY <1>1, <1>t, <2>1, <2>2, <2>3 DEF TypeOK
<1>3. \A k \in Keys : Newest(log', k) \in may'[k]
  BY <1>1 DEF Newest, Hits
<1>4. \A w \in Writers : pc'[w] # "newline"
  BY <1>1
<1>5. OpenByOne'
  BY <1>1, <1>4 DEF OpenByOne, Unfinished
<1> QED BY <1>1, <1>2, <1>3, <1>4, <1>5 DEF LogInv, RecentIfSpoiled, AloneIsLast

LEMMA DeathKeeps ==
  ASSUME LogInv, Die, may' = may,
         \/ log' = log /\ open' = open /\ clean' = (clean /\ Unfinished = {})
         \/ log' = Appended(Garbage) /\ open' = TRUE /\ clean' = FALSE
  PROVE  LogInv'
<1>t. TypeOK
  BY DEF LogInv
<1>1. \A w \in Writers : pc'[w] = "idle"
  BY DEF Die
<1>2. log' \in Seq(Line) /\ open' \in BOOLEAN /\ (open' => log' # <<>>)
  <2>1. CASE log' = log /\ open' = open
    BY <1>t, <2>1 DEF TypeOK
  <2>2. CASE log' = Appended(Garbage) /\ open' = TRUE
    <3>1. Garbage \in Line
      BY EntryFacts
    <3>2. Appended(Garbage) \in Seq(Line) /\ Appended(Garbage) # <<>>
      BY <3>1, AppendedIsRecent
    <3> QED BY <2>2, <3>2
  <2> QED BY <2>1, <2>2
<1>3. TypeOK'
  BY <1>t, <1>2, EntryFacts DEF TypeOK, Die
<1>4. OpenByOne'
  BY <1>1 DEF LogInv, OpenByOne, Unfinished
<1>5. (\A k \in Keys : Newest(log', k) \in may'[k]) /\ RecentIfSpoiled'
  <2>1. CASE log' = log /\ open' = open
    BY <2>1 DEF LogInv, RecentIfSpoiled
  <2>2. CASE log' = Appended(Garbage) /\ open' = TRUE
    <3>1. Garbage \in Line
      BY EntryFacts
    <3>2. Front(log') = Terminated /\ \A k \in Keys : Newest(Terminated, k) \in may[k]
      BY <2>2, <3>1, AppendedIsRecent
    <3>3. \A k \in Keys : Newest(log', k) \in may[k]
      BY <2>2, <3>1, AppendedIsRecent
    <3> QED BY <3>2, <3>3 DEF RecentIfSpoiled
  <2> QED BY <2>1, <2>2
<1> QED BY <1>1, <1>3, <1>5, <1>4 DEF LogInv, AloneIsLast

LEMMA LogInvHolds == Spec => []LogInv
<1>1. Init => LogInv
  <2> SUFFICES ASSUME Init PROVE LogInv
    OBVIOUS
  <2>1. log \in Seq(Line) /\ open = FALSE
    BY EmptySeq DEF Init
  <2>2. entry \in [Writers -> Line] /\ may \in [Keys -> SUBSET Stored]
    BY EntryFacts DEF Init
  <2>3. TypeOK
    BY <2>1, <2>2 DEF Init, TypeOK
  <2>4. \A k \in Keys : Newest(log, k) \in may[k]
    BY DEF Init, Newest, Hits
  <2>5. AloneIsLast
    BY DEF Init, AloneIsLast
  <2>6. OpenByOne
    BY DEF Init, OpenByOne, Unfinished
  <2> QED BY <2>1, <2>3, <2>4, <2>5, <2>6 DEF LogInv, RecentIfSpoiled
<1>2. LogInv /\ [Next]_vars => LogInv'
  <2> SUFFICES ASSUME LogInv, [Next]_vars PROVE LogInv'
    OBVIOUS
  <2>1. ASSUME NEW w \in Writers, NEW k \in Keys, Delete(w, k) PROVE LogInv'
    BY <2>1, WriteTextKeeps, EntryFacts DEF Delete
  <2>2. ASSUME NEW w \in Writers, NEW k \in Keys, NEW v \in Values, Set(w, k, v) PROVE LogInv'
    <3>1. v \in Stored /\ WriteText(w, k, v)
      BY <2>2, EntryFacts DEF Set
    <3> QED BY <3>1, WriteTextKeeps
  <2>3. ASSUME NEW w \in Writers, CrashInText(w) PROVE LogInv'
    BY <2>3, DeathKeeps DEF CrashInText
  <2>4. CASE Crash
    BY <2>4, DeathKeeps DEF Crash
  <2>5. CASE UNCHANGED vars
    BY <2>5 DEF vars, LogInv, TypeOK, RecentIfSpoiled, AloneIsLast, OpenByOne, Unfinished
  <2> QED
    BY <2>1, <2>2, <2>3, <2>4, <2>5, WriteNewlineKeeps, WriteUnlinkedKeeps, ResetKeeps DEF Next
<1> QED BY <1>1, <1>2, PTL DEF Spec
-----------------------------------------------------------------------------
(* Every variable keeps its type, and an unterminated line exists. *)
THEOREM LogTyping == Spec => []TypeOK
<1>1. LogInv => TypeOK
  BY DEF LogInv
<1> QED BY <1>1, LogInvHolds, PTL

(* Get (log.go:81-96) answers the last write that ran alone on a line of   *)
(* its own and was acknowledged, or one begun since, for any writers, and  *)
(* whatever deaths, torn lines and resets there are; for "" the zero value *)
(* of a line that does not parse comes in, once the file is spoiled.       *)
THEOREM ReadsAreRecent == Spec => []GetIsRecent
<1>1. LogInv => GetIsRecent
  <2> SUFFICES ASSUME LogInv, NEW k \in Keys
               PROVE  Get(k) \in may[k] \/ (k = EmptyKey /\ ~clean /\ Get(k) = ZeroValue)
    BY DEF GetIsRecent
  <2>1. \/ Get(k) = Newest(log, k)
        \/ /\ k = EmptyKey /\ Get(k) = ZeroValue
           /\ \E i \in 1..Len(log) : log[i] = Garbage
    BY GetIsNewest DEF LogInv, TypeOK
  <2>2. clean => \A i \in 1..Len(log) : log[i] # Garbage
    BY DEF LogInv, OpenByOne
  <2> QED BY <2>1, <2>2 DEF LogInv
<1> QED BY <1>1, LogInvHolds, PTL

(* A file that no two appends overlapped in and none was cut short in has  *)
(* only lines that parse, and an unfinished one only while its writer is   *)
(* at work, whatever writers a reset (log.go:65) left behind.              *)
THEOREM UnspoiledLogParses == Spec => []CleanLogParses
<1>1. LogInv => CleanLogParses
  BY LenProperties DEF LogInv, TypeOK, OpenByOne, CleanLogParses
<1> QED BY <1>1, LogInvHolds, PTL

(* AppendLog never alters a line that has its newline (log.go:19). *)
THEOREM FinishedLinesStay == Spec => WholeLinesStay
<1> DEFINE Kept == log' = <<>> \/ IsPrefix(Terminated, Terminated')
<1>1. LogInv /\ [Next]_vars => [Kept]_vars
  <2> SUFFICES ASSUME LogInv, Next PROVE Kept
    OBVIOUS
  <2>1. log \in Seq(Line) /\ (open => log # <<>>) /\ Garbage \in Line
    BY EntryFacts DEF LogInv, TypeOK
  <2>2. Terminated \in Seq(Line)
    BY <2>1, AppendedIsRecent
  <2>3. IsPrefix(Terminated, Terminated)
    BY <2>1, <2>2, SeqFacts
  <2>4. ASSUME NEW x \in Line, log' = Appended(x), open' = TRUE PROVE Kept
    <3>1. Terminated' = Front(log')
      BY <2>4 DEF Terminated
    <3>2. Front(log') = Terminated
      BY <2>4, AppendedIsRecent
    <3> QED BY <2>3, <3>1, <3>2
  <2>5. ASSUME NEW w \in Writers, NEW k \in Keys, NEW v \in Stored, WriteText(w, k, v) PROVE Kept
    BY <2>4, <2>5, EntryFacts DEF WriteText
  <2>6. ASSUME NEW w \in Writers, WriteNewline(w) PROVE Kept
    <3>1. open' = FALSE /\ log' = IF open THEN log ELSE Append(log, Garbage)
      BY <2>6 DEF WriteNewline
    <3>2. Terminated' = log'
      BY <3>1 DEF Terminated
    <3>3. CASE open
      BY <2>1, <3>1, <3>2, <3>3, FrontFacts DEF Terminated
    <3>4. CASE ~open
      BY <2>1, <3>1, <3>2, <3>4, SeqFacts DEF Terminated
    <3> QED BY <3>3, <3>4
  <2>7. ASSUME log' = log, open' = open PROVE Kept
    <3>1. Terminated' = Terminated
      BY <2>7 DEF Terminated
    <3> QED BY <2>3, <3>1
  <2>8. ASSUME NEW w \in Writers, WriteUnlinked(w) PROVE Kept
    BY <2>7, <2>8 DEF WriteUnlinked
  <2>9. ASSUME NEW w \in Writers, CrashInText(w) PROVE Kept
    BY <2>1, <2>4, <2>9 DEF CrashInText
  <2>10. CASE ResetDB
    BY <2>10 DEF ResetDB
  <2>11. CASE Crash
    BY <2>7, <2>11 DEF Crash
  <2> HIDE DEF Kept
  <2> QED
    BY <2>5, <2>6, <2>8, <2>9, <2>10, <2>11, EntryFacts DEF Next, Set, Delete
<1> QED BY <1>1, LogInvHolds, PTL DEF Spec, WholeLinesStay
=============================================================================
