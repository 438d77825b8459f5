--------------------------- MODULE SstStoreProofs ---------------------------
(***************************************************************************)
(* Proofs about SstStore for every value of its constants: type            *)
(* correctness, that filters and caches agree with the files, that the     *)
(* handles are all the files there are, oldest first, that binary search   *)
(* finds every whole line, that Get answers the latest write of a key      *)
(* buffered at most once, and that every step is a step of DurableMap or   *)
(* changes nothing of it.                                                  *)
(***************************************************************************)
EXTENDS SstStore, FiniteSetTheorems, SequenceTheorems, TLAPS

-----------------------------------------------------------------------------
(* Names *)

(* A non-empty set of naturals below a bound has a largest element. *)
LEMMA LargestExists ==
  ASSUME NEW N \in Nat, NEW S, S \subseteq 0..N, S # {}
  PROVE  \E x \in S : \A y \in S : y <= x
<1> DEFINE T == {N - x : x \in S}
           R == OpToRel(<, Nat)
<1>1. \A x \in S : N - x \in Nat
  OBVIOUS
<1>2. T \subseteq Nat
  BY <1>1
<1>3. T # {}
  OBVIOUS
<1>4. \A i, j \in Nat : i < j => <<i, j>> \in R
  BY DEF OpToRel
<1>5. PICK m \in T : \A y \in T : ~(<<y, m>> \in R)
  <2>1. IsWellFoundedOn(R, Nat)
    BY NatLessThanWellFounded
  <2> HIDE DEF T, R
  <2> QED BY <2>1, <1>2, <1>3, WFMin, Zenon
<1> HIDE DEF R
<1>6. ASSUME NEW y \in T PROVE m <= y
  <2>1. m \in Nat /\ y \in Nat
    BY <1>2
  <2>2. ~(y < m)
    BY <2>1, <1>4, <1>5
  <2> QED BY <2>1, <2>2
<1>7. PICK x \in S : m = N - x
  OBVIOUS
<1>8. ASSUME NEW y \in S PROVE y <= x
  <2>1. m <= N - y
    BY <1>6
  <2> QED BY <1>7, <2>1
<1> QED BY <1>8

LEMMA BoundsFacts ==
  /\ MaxBufferLength \in Nat \ {0}
  /\ LastNum \in Nat /\ OverflowPrefix \in 0..(LastNum - 1)
  /\ Overflow \in Nat /\ Slots \subseteq 0..Overflow /\ 0 \in Slots
  /\ MaxFlushes \in Nat
BY BoundsAssumption DEF Overflow, Slots

LEMMA ListedInSlots == Listed \subseteq Slots
BY DEF Listed

(* The order of the listing has a last name. *)
LEMMA LatestExists ==
  ASSUME Listed # {}
  PROVE  \E n \in Listed : \A m \in Listed \ {n} : Before(m, n)
<1> DEFINE S == Listed \ {Overflow}
<1>1. S \subseteq 0..LastNum /\ LastNum \in Nat
  BY BoundsFacts, ListedInSlots DEF Slots, Overflow
<1>2. CASE S = {}
  <2>1. Listed = {Overflow}
    BY <1>2
  <2> QED BY <2>1
<1>3. CASE S # {}
  <2>1. PICK x \in S : \A y \in S : y <= x
    <3> HIDE DEF S
    <3> QED BY <1>1, <1>3, LargestExists
  <2>2. x \in 0..LastNum /\ x # Overflow /\ x \in Listed
    BY <1>1
  <2>3. \A m \in S \ {x} : Before(m, x)
    BY <1>1, <2>1, <2>2 DEF Before
  <2>4. CASE Overflow \notin Listed
    BY <2>2, <2>3, <2>4
  <2>5. CASE Overflow \in Listed /\ x > OverflowPrefix
    <3>1. Before(Overflow, x)
      BY <2>2, <2>5 DEF Before
    <3> QED BY <2>2, <2>3, <3>1
  <2>6. CASE Overflow \in Listed /\ ~(x > OverflowPrefix)
    <3>1. \A m \in S : m <= OverflowPrefix
      BY <1>1, <2>1, <2>2, <2>6, BoundsFacts
    <3>2. \A m \in Listed \ {Overflow} : Before(m, Overflow)
      BY <1>1, <3>1, BoundsFacts DEF Before, Overflow
    <3> QED BY <2>6, <3>2
  <2> QED BY <2>4, <2>5, <2>6
<1> QED BY <1>2, <1>3

(* The number read off the last name is that of a listed file, cut to the  *)
(* digits that are read.                                                   *)
LEMMA NextNameCases ==
  \/ Listed = {} /\ NextSstFilename = 0
  \/ \E n \in Listed : /\ NextSstFilename = FourDigits(n) + 1
                       /\ \A m \in Listed \ {n} : Before(m, n)
BY LatestExists DEF NextSstFilename

LEMMA NextNameType == NextSstFilename \in Slots
<1>1. CASE Listed = {} /\ NextSstFilename = 0
  BY <1>1, BoundsFacts
<1>2. ASSUME NEW n \in Listed, NextSstFilename = FourDigits(n) + 1
      PROVE  NextSstFilename \in Slots
  BY <1>2, ListedInSlots, BoundsFacts DEF FourDigits, Slots, Overflow
<1> QED BY <1>1, <1>2, NextNameCases

LEMMA FilenamesType ==
  ASSUME NEW names \in SstFilenames
  PROVE  names \in Seq(Slots) /\ \A i \in DOMAIN names : names[i] \in Listed
<1>1. IsFiniteSet(Slots)
  BY FS_Interval, BoundsFacts DEF Slots
<1>2. Cardinality(Listed) \in Nat
  BY <1>1, ListedInSlots, FS_Subset, FS_CardinalityType
<1>3. names \in [1..Cardinality(Listed) -> Listed]
  BY DEF SstFilenames
<1> QED BY <1>2, <1>3, ListedInSlots
-----------------------------------------------------------------------------
(* The types of what the operators return *)

LEMMA LastEntriesFinite ==
  ASSUME NEW b \in Seq(Entry)
  PROVE  IsFiniteSet(LastEntries(b)) /\ LastEntries(b) \subseteq Entry
<1> DEFINE E == LastEntries(b)
           R == {b[i] : i \in DOMAIN b}
<1>1. E \subseteq R
  BY DEF LastEntries
<1>2. Len(b) \in Nat /\ DOMAIN b = 1..Len(b) /\ b \in [1..Len(b) -> Entry]
  BY LenProperties
<1>3. b \in Surjection(1..Len(b), R)
  BY <1>2 DEF Surjection
<1>4. IsFiniteSet(1..Len(b))
  BY <1>2, FS_Interval
<1>5. R \subseteq Entry
  BY <1>2
<1> HIDE DEF E, R
<1>6. IsFiniteSet(R)
  BY <1>3, <1>4, FS_Surjection
<1>7. IsFiniteSet(E)
  BY <1>1, <1>6, FS_Subset
<1> QED BY <1>1, <1>5, <1>7 DEF E

LEMMA TablesType ==
  ASSUME NEW b \in Seq(Entry), NEW t \in Tables(b)
  PROVE  t \in Seq(Entry)
<1> DEFINE E == LastEntries(b)
<1>1. Cardinality(E) \in Nat /\ E \subseteq Entry
  BY LastEntriesFinite, FS_CardinalityType
<1>2. t \in [1..Cardinality(E) -> E]
  BY DEF Tables
<1> HIDE DEF E
<1> QED BY <1>1, <1>2

LEMMA ZeroEntryType == ZeroEntry \in Entry
BY DEF ZeroEntry, Entry

LEMMA LoadEntriesType ==
  ASSUME disk \in [Slots -> File], NEW n \in Slots
  PROVE  LoadEntries(n) \in Seq(Entry)
<1>1. disk[n].lines \in Seq(Entry)
  BY DEF File
<1> QED BY <1>1, ZeroEntryType DEF LoadEntries, Parsed, File

LEMMA ContentsType ==
  ASSUME TypeOK, NEW i \in DOMAIN files
  PROVE  Contents(i) \in Seq(Entry) /\ files[i] \in Handle
<1>1. files[i] \in Handle
  BY DEF TypeOK
<1>2. files[i].num \in Slots /\ files[i].cache \in Seq(Entry)
  BY <1>1 DEF Handle
<1> QED BY <1>1, <1>2, LoadEntriesType DEF TypeOK, Contents

LEMMA FilterOfType ==
  ASSUME NEW s \in Seq(Entry)
  PROVE  FilterOf(s) \subseteq Nat
<1>1. ASSUME NEW e \in Range(s)
      PROVE  e.key \in Keys \cup {EmptyKey}
  <2>1. PICK i \in DOMAIN s : e = s[i]
    BY DEF Range
  <2>2. e \in Entry
    BY <2>1, LenProperties, ElementOfSeq
  <2> QED BY <2>2 DEF Entry
<1> QED BY <1>1, HashAssumption DEF FilterOf

-----------------------------------------------------------------------------
(* Type correctness *)

LEMMA EmptyBuffer ==
  /\ <<>> \in Seq(Entry) /\ <<>> \in Seq(Handle)
  /\ Len(<<>>) < MaxBufferLength
<1>1. Len(<<>>) = 0 /\ 0 < MaxBufferLength
  BY BoundsFacts
<1> QED BY <1>1

LEMMA InitType == Init => TypeOK
<1> SUFFICES ASSUME Init PROVE TypeOK
  OBVIOUS
<1>1. NoFile \in File
  BY DEF NoFile, File
<1> QED BY <1>1, EmptyBuffer, BoundsFacts DEF Init, TypeOK

LEMMA CreateType ==
  ASSUME TypeOK, NEW n \in Slots, NEW lines \in Seq(Entry), NEW torn \in BOOLEAN,
         CreateSstFile(n, lines, torn)
  PROVE  disk' \in [Slots -> File] /\ flushes' \in 0..MaxFlushes
<1>1. flushes \in Nat /\ flushes' = flushes + 1 /\ flushes' \in 0..MaxFlushes
  BY BoundsFacts DEF TypeOK, CreateSstFile
<1>2. [lines |-> lines, torn |-> torn, age |-> flushes + 1] \in File
  BY <1>1 DEF File
<1> QED BY <1>1, <1>2 DEF TypeOK, CreateSstFile

LEMMA FlushBufferType ==
  ASSUME TypeOK, NEW b \in Seq(Entry), FlushBuffer(b)
  PROVE  /\ buffer' = <<>>
         /\ files' \in Seq(Handle)
         /\ disk' \in [Slots -> File]
         /\ flushes' \in 0..MaxFlushes
<1>1. PICK t \in Tables(b) :
        /\ CreateSstFile(NextSstFilename, t, FALSE)
        /\ files' = Append(files, [num |-> NextSstFilename, filter |-> FilterOf(t),
                                   cache |-> <<>>])
        /\ buffer' = <<>>
  BY DEF FlushBuffer
<1>2. t \in Seq(Entry) /\ FilterOf(t) \subseteq Nat
  BY TablesType, FilterOfType
<1>3. disk' \in [Slots -> File] /\ flushes' \in 0..MaxFlushes
  BY <1>1, <1>2, NextNameType, CreateType
<1>4. [num |-> NextSstFilename, filter |-> FilterOf(t), cache |-> <<>>] \in Handle
  BY <1>2, NextNameType DEF Handle
<1>5. files' \in Seq(Handle)
  BY <1>1, <1>4 DEF TypeOK
<1> QED BY <1>1, <1>3, <1>5

LEMMA TearFlushType ==
  ASSUME TypeOK, NEW b \in Seq(Entry), TearFlush(b)
  PROVE  disk' \in [Slots -> File] /\ flushes' \in 0..MaxFlushes
<1>1. PICK t \in Tables(b) : \E written \in 0..Len(t) : \E torn \in BOOLEAN :
        CreateSstFile(NextSstFilename, SubSeq(t, 1, written), torn)
  BY DEF TearFlush
<1> PICK written \in 0..Len(t), torn \in BOOLEAN :
        CreateSstFile(NextSstFilename, SubSeq(t, 1, written), torn)
  BY <1>1
<1>2. t \in Seq(Entry)
  BY TablesType
<1>3. SubSeq(t, 1, written) \in Seq(Entry)
  <2>1. Len(t) \in Nat /\ written \in Int /\ \A i \in 1..written : t[i] \in Entry
    BY <1>2, LenProperties
  <2> QED BY <2>1, SubSeqProperties
<1> QED BY <1>1, <1>3, NextNameType, CreateType

LEMMA ErasedType ==
  ASSUME disk \in [Slots -> File], NEW names
  PROVE  Erased(names) \in [Slots -> File]
BY DEF Erased, NoFile, File

LEMMA DieType ==
  ASSUME Die
  PROVE  /\ up' \in BOOLEAN
         /\ buffer' \in Seq(Entry) /\ Len(buffer') < MaxBufferLength
         /\ filter' \subseteq Nat
         /\ files' \in Seq(Handle)
BY EmptyBuffer DEF Die

LEMMA PutType ==
  ASSUME TypeOK, NEW k \in Keys, NEW v \in Values \cup {Absent}, Put(k, v)
  PROVE  TypeOK'
<1> DEFINE e == [key |-> k, val |-> v]
           b == Append(buffer, e)
<1>1. e \in Entry
  BY DEF Entry
<1>2. b \in Seq(Entry)
  BY <1>1 DEF TypeOK
<1>3. filter' \subseteq Nat /\ up' \in BOOLEAN
  BY HashAssumption DEF Put, TypeOK
<1>4. CASE Len(b) < MaxBufferLength
  <2>1. buffer' = b /\ UNCHANGED <<files, disk, flushes>>
    BY <1>4 DEF Put
  <2> QED BY <1>2, <1>3, <1>4, <2>1 DEF TypeOK
<1>5. CASE ~(Len(b) < MaxBufferLength)
  <2>1. FlushBuffer(b)
    BY <1>5 DEF Put
  <2> HIDE DEF b
  <2>2. /\ buffer' = <<>>
        /\ files' \in Seq(Handle)
        /\ disk' \in [Slots -> File]
        /\ flushes' \in 0..MaxFlushes
    BY <1>2, <2>1, FlushBufferType
  <2> QED BY <1>3, <2>2, BoundsFacts DEF TypeOK
<1> QED BY <1>4, <1>5

LEMMA GetType ==
  ASSUME TypeOK, NEW k \in Keys \cup {EmptyKey}, Get(k)
  PROVE  TypeOK'
<1> DEFINE F == [i \in DOMAIN files |->
                   IF i \in Visited(k) THEN [files[i] EXCEPT !.cache = Contents(i)]
                                       ELSE files[i]]
<1>1. ASSUME NEW i \in DOMAIN files
      PROVE  F[i] \in Handle
  BY ContentsType DEF Handle
<1>2. Len(files) \in Nat /\ DOMAIN files = 1..Len(files)
  BY LenProperties DEF TypeOK
<1>3. F \in Seq(Handle)
  BY <1>1, <1>2
<1>4. files' = files \/ files' = F
  BY DEF Get
<1> QED BY <1>3, <1>4 DEF Get, TypeOK

LEMMA RestartType ==
  ASSUME TypeOK, Restart
  PROVE  TypeOK'
<1>1. PICK names \in SstFilenames :
        files' = [i \in DOMAIN names |->
                    [num |-> names[i], filter |-> FilterOf(LoadEntries(names[i])),
                     cache |-> <<>>]]
  BY DEF Restart
<1>2. names \in Seq(Slots)
  BY FilenamesType
<1>3. Len(names) \in Nat /\ DOMAIN names = 1..Len(names)
  BY <1>2, LenProperties
<1>4. ASSUME NEW i \in DOMAIN names
      PROVE  files'[i] \in Handle
  <2>1. names[i] \in Slots
    BY <1>2, <1>3, ElementOfSeq
  <2>2. FilterOf(LoadEntries(names[i])) \subseteq Nat
    BY <2>1, LoadEntriesType, FilterOfType DEF TypeOK
  <2> QED BY <1>1, <2>1, <2>2 DEF Handle
<1>5. files' \in Seq(Handle)
  BY <1>1, <1>3, <1>4
<1> QED BY <1>5 DEF Restart, TypeOK

LEMMA NextType == TypeOK /\ [Next]_vars => TypeOK'
<1> SUFFICES ASSUME TypeOK, [Next]_vars PROVE TypeOK'
  OBVIOUS
<1>1. ASSUME NEW k \in Keys \cup {EmptyKey}, Get(k) PROVE TypeOK'
  BY <1>1, GetType
<1>2. ASSUME NEW k \in Keys, Delete(k) PROVE TypeOK'
  BY <1>2, PutType DEF Delete
<1>3. ASSUME NEW k \in Keys, NEW v \in Values, Set(k, v) PROVE TypeOK'
  BY <1>3, PutType DEF Set
<1>4. ASSUME NEW k \in Keys, NEW v \in Values \cup {Absent}, CrashInPut(k, v)
      PROVE  TypeOK'
  <2> DEFINE b == Append(buffer, [key |-> k, val |-> v])
  <2>1. b \in Seq(Entry)
    BY DEF TypeOK, Entry
  <2>2. TearFlush(b) /\ Die
    BY <1>4 DEF CrashInPut
  <2> HIDE DEF b
  <2> QED BY <2>1, <2>2, TearFlushType, DieType DEF TypeOK
<1>5. CASE Flush
  <2>1. FlushBuffer(buffer) /\ UNCHANGED <<up, filter>> /\ buffer \in Seq(Entry)
    BY <1>5 DEF Flush, TypeOK
  <2>2. /\ buffer' = <<>>
        /\ files' \in Seq(Handle)
        /\ disk' \in [Slots -> File]
        /\ flushes' \in 0..MaxFlushes
    BY <2>1, FlushBufferType
  <2> QED BY <2>1, <2>2, EmptyBuffer DEF TypeOK
<1>6. CASE ResetDB
  BY <1>6, ErasedType DEF ResetDB, TypeOK
<1>7. CASE Crash
  BY <1>7, DieType DEF Crash, TypeOK
<1>8. CASE CrashInFlush
  BY <1>8, TearFlushType, DieType DEF CrashInFlush, TypeOK
<1>9. CASE CrashInReset
  BY <1>9, ErasedType, DieType DEF CrashInReset, TypeOK
<1>10. CASE Restart
  BY <1>10, RestartType
<1>11. CASE UNCHANGED vars
  BY <1>11 DEF vars, TypeOK
<1> QED BY <1>1, <1>2, <1>3, <1>4, <1>5, <1>6, <1>7, <1>8, <1>9, <1>10, <1>11 DEF Next

(* Every variable has its type, and set never finds the buffer full.       *)
THEOREM Typing == Spec => []TypeOK
BY InitType, NextType, PTL DEF Spec
-----------------------------------------------------------------------------
(* Filters and caches agree with the files.  Two facts make the properties *)
(* inductive: every handle is that of an existing file, and the numbers of *)
(* existing files are below the number of flushes, so that a new file      *)
(* never takes the name of an old one.  Both need the files to be listed   *)
(* where they are created, and their numbers to fit four digits.           *)

HandlesExist == \A i \in DOMAIN files : disk[files[i].num] # NoFile

NumbersBelowFlushes == \A n \in Slots : disk[n] # NoFile => n < flushes

FilesInv == HandlesExist /\ NumbersBelowFlushes /\ CacheIsCurrent /\ FilterComplete

NamesFit == PathIsCwd /\ MaxFlushes <= LastNum + 1

LEMMA NextNameIsFresh ==
  ASSUME NamesFit, TypeOK, NumbersBelowFlushes, flushes < MaxFlushes
  PROVE  disk[NextSstFilename] = NoFile /\ NextSstFilename <= flushes
<1>1. flushes \in Nat /\ flushes <= LastNum /\ LastNum \in Nat
  BY BoundsFacts DEF NamesFit, TypeOK
<1>2. Listed = {n \in Slots : disk[n] # NoFile}
  BY DEF NamesFit, Listed
<1>3. CASE Listed = {} /\ NextSstFilename = 0
  BY <1>1, <1>2, <1>3, BoundsFacts
<1>4. ASSUME NEW n \in Listed, NextSstFilename = FourDigits(n) + 1,
             \A m \in Listed \ {n} : Before(m, n)
      PROVE  disk[NextSstFilename] = NoFile /\ NextSstFilename <= flushes
  <2>1. n \in Nat /\ n < flushes
    BY <1>2 DEF NumbersBelowFlushes, Slots
  <2>2. NextSstFilename = n + 1 /\ n + 1 \in Slots
    BY <1>1, <1>4, <2>1, NextNameType DEF FourDigits, Overflow
  <2>3. SUFFICES ASSUME n + 1 \in Listed PROVE FALSE
    BY <1>1, <1>2, <2>1, <2>2
  <2>4. Before(n + 1, n)
    BY <1>4, <2>1, <2>3
  <2> QED BY <1>1, <2>1, <2>4 DEF Before, Overflow
<1> QED BY <1>3, <1>4, NextNameCases

(* Creating a file touches no other, and keeps numbers below flushes. *)
LEMMA CreateKeepsFiles ==
  ASSUME NamesFit, TypeOK, FilesInv, NEW lines, NEW torn,
         CreateSstFile(NextSstFilename, lines, torn)
  PROVE  /\ NumbersBelowFlushes'
         /\ disk'[NextSstFilename] = [lines |-> lines, torn |-> torn, age |-> flushes + 1]
         /\ disk'[NextSstFilename] # NoFile
         /\ \A i \in DOMAIN files : disk'[files[i].num] = disk[files[i].num]
<1> DEFINE next == NextSstFilename
           new == [lines |-> lines, torn |-> torn, age |-> flushes + 1]
<1>1. /\ flushes < MaxFlushes /\ flushes' = flushes + 1
      /\ disk' = [disk EXCEPT ![next] = new]
  BY DEF CreateSstFile
<1>2. next \in Slots /\ disk[next] = NoFile /\ next <= flushes
  BY <1>1, NextNameIsFresh, NextNameType DEF FilesInv
<1>3. flushes \in Nat
  BY BoundsFacts DEF TypeOK
<1>4. disk'[next] = new /\ \A n \in Slots \ {next} : disk'[n] = disk[n]
  BY <1>1, <1>2 DEF TypeOK
<1>5. new # NoFile
  BY <1>3 DEF NoFile
<1>6. NumbersBelowFlushes'
  <2> SUFFICES ASSUME NEW n \in Slots, disk'[n] # NoFile PROVE n < flushes'
    BY DEF NumbersBelowFlushes
  <2>1. n \in Nat
    BY DEF Slots
  <2>2. CASE n = next
    BY <1>1, <1>2, <1>3, <2>1, <2>2
  <2>3. CASE n # next
    <3>1. n < flushes
      BY <1>4, <2>3 DEF FilesInv, NumbersBelowFlushes
    <3> QED BY <1>1, <1>3, <2>1, <3>1
  <2> QED BY <2>2, <2>3
<1>7. ASSUME NEW i \in DOMAIN files
      PROVE  disk'[files[i].num] = disk[files[i].num]
  <2>1. files[i].num \in Slots
    BY ContentsType DEF Handle
  <2>2. files[i].num # next
    BY <1>2 DEF FilesInv, HandlesExist
  <2> QED BY <1>4, <2>1, <2>2
<1> QED BY <1>4, <1>5, <1>6, <1>7

LEMMA FlushBufferKeepsFilesInv ==
  ASSUME NamesFit, TypeOK, FilesInv, NEW b \in Seq(Entry), FlushBuffer(b)
  PROVE  FilesInv'
<1> DEFINE next == NextSstFilename
<1>1. PICK t \in Tables(b) :
        /\ CreateSstFile(next, t, FALSE)
        /\ files' = Append(files, [num |-> next, filter |-> FilterOf(t), cache |-> <<>>])
  BY DEF FlushBuffer
<1>2. /\ NumbersBelowFlushes'
      /\ disk'[next] = [lines |-> t, torn |-> FALSE, age |-> flushes + 1]
      /\ disk'[next] # NoFile
      /\ \A i \in DOMAIN files : disk'[files[i].num] = disk[files[i].num]
  BY <1>1, CreateKeepsFiles
<1>3. /\ Len(files) \in Nat /\ DOMAIN files = 1..Len(files)
      /\ DOMAIN files' = 1..(Len(files) + 1)
  BY <1>1, LenProperties DEF TypeOK
<1>4. \A i \in DOMAIN files : files'[i] = files[i]
  BY <1>1, <1>3 DEF TypeOK
<1>5. files'[Len(files) + 1] = [num |-> next, filter |-> FilterOf(t), cache |-> <<>>]
  BY <1>1, <1>3 DEF TypeOK
<1>6. HandlesExist'
  BY <1>2, <1>3, <1>4, <1>5 DEF FilesInv, HandlesExist
<1>7. CacheIsCurrent'
  <2> SUFFICES ASSUME NEW i \in DOMAIN files', files'[i].cache # <<>>
               PROVE  files'[i].cache = Parsed(disk'[files'[i].num])
    BY DEF CacheIsCurrent, LoadEntries
  <2>1. i \in DOMAIN files
    BY <1>3, <1>5
  <2> QED BY <1>2, <1>4, <2>1 DEF FilesInv, CacheIsCurrent, LoadEntries
<1>8. FilterComplete'
  <2> SUFFICES ASSUME NEW i \in DOMAIN files', NEW e \in Range(Parsed(disk'[files'[i].num]))
               PROVE  Test(files'[i].filter, e.key)
    BY DEF FilterComplete, LoadEntries
  <2>1. CASE i \in DOMAIN files
    BY <1>2, <1>4, <2>1 DEF FilesInv, FilterComplete, LoadEntries
  <2>2. CASE i = Len(files) + 1
    <3>1. Parsed(disk'[next]) = t
      BY <1>2 DEF Parsed
    <3>2. e \in Range(t)
      BY <1>5, <2>2, <3>1
    <3> QED BY <1>5, <2>2, <3>2 DEF FilterOf, Test
  <2> QED BY <1>3, <2>1, <2>2
<1> QED BY <1>2, <1>6, <1>7, <1>8 DEF FilesInv

(* A dead process holds no handle. *)
LEMMA NoHandles ==
  ASSUME files' = <<>>, NumbersBelowFlushes'
  PROVE  FilesInv'
BY DEF FilesInv, HandlesExist, CacheIsCurrent, FilterComplete

LEMMA ErasedKeepsNumbers ==
  ASSUME NumbersBelowFlushes, NEW names, disk' = Erased(names), flushes' = flushes
  PROVE  NumbersBelowFlushes'
BY DEF NumbersBelowFlushes, Erased

LEMMA TearFlushKeepsNumbers ==
  ASSUME NamesFit, TypeOK, FilesInv, NEW b, TearFlush(b)
  PROVE  NumbersBelowFlushes'
BY CreateKeepsFiles DEF TearFlush

LEMMA GetKeepsFilesInv ==
  ASSUME TypeOK, FilesInv, NEW k, Get(k)
  PROVE  FilesInv'
<1>1. UNCHANGED <<disk, flushes>>
  BY DEF Get
<1>2. DOMAIN files' = DOMAIN files
  BY DEF Get
<1>3. ASSUME NEW i \in DOMAIN files
      PROVE  /\ files'[i].num = files[i].num /\ files'[i].filter = files[i].filter
             /\ files'[i].cache \in {files[i].cache, Contents(i)}
  <2>1. files[i] \in Handle
    BY ContentsType
  <2>2. files'[i] \in {files[i], [files[i] EXCEPT !.cache = Contents(i)]}
    BY DEF Get
  <2> QED BY <2>1, <2>2 DEF Handle
<1>4. ASSUME NEW i \in DOMAIN files, files'[i].cache # <<>>
      PROVE  files'[i].cache = LoadEntries(files[i].num)
  BY <1>3, <1>4 DEF FilesInv, CacheIsCurrent, Contents
<1>5. HandlesExist' /\ NumbersBelowFlushes' /\ FilterComplete'
  BY <1>1, <1>2, <1>3
     DEF FilesInv, HandlesExist, NumbersBelowFlushes, FilterComplete, LoadEntries
<1>6. CacheIsCurrent'
  BY <1>1, <1>2, <1>3, <1>4 DEF CacheIsCurrent, LoadEntries
<1> QED BY <1>5, <1>6 DEF FilesInv

LEMMA RestartKeepsFilesInv ==
  ASSUME NamesFit, TypeOK, FilesInv, Restart
  PROVE  FilesInv'
<1>1. PICK names \in SstFilenames :
        files' = [i \in DOMAIN names |->
                    [num |-> names[i], filter |-> FilterOf(LoadEntries(names[i])),
                     cache |-> <<>>]]
  BY DEF Restart
<1>2. UNCHANGED <<disk, flushes>>
  BY DEF Restart
<1>3. \A i \in DOMAIN names : names[i] \in Listed
  BY FilenamesType
<1>4. HandlesExist' /\ NumbersBelowFlushes' /\ CacheIsCurrent'
  BY <1>1, <1>2, <1>3
     DEF NamesFit, Listed, FilesInv, HandlesExist, NumbersBelowFlushes, CacheIsCurrent
<1>5. FilterComplete'
  BY <1>1, <1>2 DEF FilterComplete, FilterOf, Test, LoadEntries
<1> QED BY <1>4, <1>5 DEF FilesInv

LEMMA NextKeepsFilesInv ==
  ASSUME NamesFit, TypeOK, FilesInv, [Next]_vars
  PROVE  FilesInv'
<1>1. ASSUME NEW k \in Keys \cup {EmptyKey}, Get(k) PROVE FilesInv'
  BY <1>1, GetKeepsFilesInv
<1>2. ASSUME NEW k \in Keys, NEW v \in Values \cup {Absent}, Put(k, v)
      PROVE  FilesInv'
  <2> DEFINE b == Append(buffer, [key |-> k, val |-> v])
  <2>1. b \in Seq(Entry)
    BY DEF TypeOK, Entry
  <2>2. UNCHANGED <<files, disk, flushes>> \/ FlushBuffer(b)
    BY <1>2 DEF Put
  <2>3. CASE UNCHANGED <<files, disk, flushes>>
    BY <2>3 DEF FilesInv, HandlesExist, NumbersBelowFlushes, CacheIsCurrent,
                FilterComplete, LoadEntries
  <2> HIDE DEF b
  <2> QED BY <2>1, <2>2, <2>3, FlushBufferKeepsFilesInv
<1>3. ASSUME NEW k \in Keys, NEW v \in Values \cup {Absent}, CrashInPut(k, v)
      PROVE  FilesInv'
  BY <1>3, TearFlushKeepsNumbers, NoHandles DEF CrashInPut, Die
<1>4. CASE Flush
  BY <1>4, FlushBufferKeepsFilesInv DEF Flush, TypeOK
<1>5. CASE ResetDB
  BY <1>5, ErasedKeepsNumbers, NoHandles DEF ResetDB, FilesInv
<1>6. CASE Crash
  BY <1>6, NoHandles DEF Crash, Die, FilesInv, NumbersBelowFlushes
<1>7. CASE CrashInFlush
  BY <1>7, TearFlushKeepsNumbers, NoHandles DEF CrashInFlush, Die
<1>8. CASE CrashInReset
  BY <1>8, ErasedKeepsNumbers, NoHandles DEF CrashInReset, Die, FilesInv
<1>9. CASE Restart
  BY <1>9, RestartKeepsFilesInv
<1>10. CASE UNCHANGED vars
  BY <1>10 DEF vars, FilesInv, HandlesExist, NumbersBelowFlushes, CacheIsCurrent,
               FilterComplete, LoadEntries
<1> QED BY <1>1, <1>2, <1>3, <1>4, <1>5, <1>6, <1>7, <1>8, <1>9, <1>10
        DEF Next, Set, Delete

LEMMA InitFilesInv == Init => FilesInv
BY DEF Init, FilesInv, HandlesExist, NumbersBelowFlushes, CacheIsCurrent, FilterComplete

LEMMA FilesInvHolds == NamesFit => (Spec => []FilesInv)
<1> SUFFICES ASSUME NamesFit PROVE Spec => []FilesInv
  OBVIOUS
<1>1. TypeOK /\ FilesInv /\ [Next]_vars => FilesInv'
  BY NextKeepsFilesInv
<1> QED BY <1>1, InitFilesInv, Typing, PTL DEF Spec

(* While file numbers fit four digits and the files are listed where they  *)
(* are created, no cache is ever stale (sst.go:279-285): what Get reads    *)
(* from a cache is what it would read from the file.                       *)
THEOREM CachesAreCurrent == NamesFit => (Spec => []CacheIsCurrent)
<1>1. FilesInv => CacheIsCurrent
  BY DEF FilesInv
<1> QED BY <1>1, FilesInvHolds, PTL

(* Under the same conditions no bloom filter ever hides an entry of its    *)
(* file, whether a flush built it (sst.go:111-116) or a restart read the   *)
(* file back, torn lines included (sst.go:84-96).                          *)
THEOREM FiltersAreComplete == NamesFit => (Spec => []FilterComplete)
<1>1. FilesInv => FilterComplete
  BY DEF FilesInv
<1> QED BY <1>1, FilesInvHolds, PTL
-----------------------------------------------------------------------------
(* The handles are all the files there are, in the order they were         *)
(* written, as long as file numbers fit the digits of their names and the  *)
(* files are listed where they are created.                                *)

Exists(n) == disk[n] # NoFile

(* No file is younger than the last flush. *)
AgesBelowFlushes == \A n \in Slots : Exists(n) => disk[n].age <= flushes

(* Among the files there are, a larger number is a younger file. *)
AgesFollowNumbers ==
  \A m, n \in Slots : Exists(m) /\ Exists(n) /\ m < n => disk[m].age < disk[n].age

(* The handles are in the order of their numbers. *)
HandlesAscend == \A i, j \in DOMAIN files : i < j => files[i].num < files[j].num

OrderInv ==
  /\ FilesInv
  /\ AgesBelowFlushes /\ AgesFollowNumbers
  /\ HandlesAscend /\ AllSstFilesLoaded
-----------------------------------------------------------------------------
(* Names *)

(* Before the numbers overflow, the listing is in numerical order. *)
LEMMA ListedInOrder ==
  ASSUME NamesFit, TypeOK, NumbersBelowFlushes, NEW m \in Listed, NEW n \in Listed
  PROVE  m \in Nat /\ n \in Nat /\ (Before(m, n) => m < n)
<1>1. Listed = {x \in Slots : Exists(x)}
  BY DEF NamesFit, Listed, Exists
<1>2. m \in Nat /\ n \in Nat /\ m < flushes /\ n < flushes
  BY <1>1 DEF NumbersBelowFlushes, Exists, Slots
<1>3. flushes \in Nat /\ flushes <= LastNum + 1 /\ LastNum \in Nat
  BY BoundsFacts DEF NamesFit, TypeOK
<1> QED BY <1>2, <1>3 DEF Before, Overflow

(* A new file's number is larger than any there is (sst.go:170-173). *)
LEMMA NextNameIsLargest ==
  ASSUME NamesFit, TypeOK, NumbersBelowFlushes, NEW n \in Slots, Exists(n)
  PROVE  n < NextSstFilename
<1>1. n \in Listed
  BY DEF NamesFit, Listed, Exists
<1>2. PICK latest \in Listed : /\ NextSstFilename = FourDigits(latest) + 1
                               /\ \A m \in Listed \ {latest} : Before(m, latest)
  BY <1>1, NextNameCases
<1>3. n \in Nat /\ latest \in Nat /\ n <= latest
  BY <1>1, <1>2, ListedInOrder
<1>4. latest < flushes /\ flushes \in Nat /\ flushes <= LastNum + 1 /\ LastNum \in Nat
  BY <1>2, BoundsFacts DEF NamesFit, TypeOK, NumbersBelowFlushes, Listed
<1>5. FourDigits(latest) = latest
  BY <1>3, <1>4 DEF FourDigits, Overflow
<1> QED BY <1>2, <1>3, <1>5

(* The listing has every file, each once. *)
LEMMA FilenamesComplete ==
  ASSUME NamesFit, TypeOK, NumbersBelowFlushes, NEW names \in SstFilenames
  PROVE  /\ \A i, j \in DOMAIN names : i < j => names[i] < names[j]
         /\ {names[i] : i \in DOMAIN names} = Listed
<1> DEFINE N == Cardinality(Listed)
<1>1. IsFiniteSet(Listed) /\ N \in Nat
  <2>1. IsFiniteSet(Slots)
    BY FS_Interval, BoundsFacts DEF Slots
  <2> QED BY <2>1, ListedInSlots, FS_Subset, FS_CardinalityType
<1>2. /\ names \in [1..N -> Listed] /\ DOMAIN names = 1..N
      /\ \A i, j \in DOMAIN names : i < j => Before(names[i], names[j])
  BY DEF SstFilenames
<1>3. \A i, j \in DOMAIN names : i < j => names[i] < names[j]
  BY <1>2, ListedInOrder
<1>4. names \in Injection(1..N, Listed)
  <2>1. ASSUME NEW i \in 1..N, NEW j \in 1..N, names[i] = names[j]
        PROVE  i = j
    <3>1. i \in Nat /\ j \in Nat /\ names[i] \in Nat
      BY <1>1, <1>2, ListedInOrder
    <3>2. ~(i < j) /\ ~(j < i)
      BY <1>2, <1>3, <2>1, <3>1
    <3> QED BY <3>1, <3>2
  <2> QED BY <1>2, <2>1 DEF Injection, IsInjective
<1>5. Cardinality(1..N) = N
  BY <1>1, FS_Interval
<1>6. names \in Surjection(1..N, Listed)
  BY <1>1, <1>4, <1>5, FS_Injection
<1>7. {names[i] : i \in DOMAIN names} = Listed
  BY <1>2, <1>6 DEF Surjection
<1> QED BY <1>3, <1>7
-----------------------------------------------------------------------------
(* The steps that create a file *)

LEMMA CreateKeepsAges ==
  ASSUME NamesFit, TypeOK, OrderInv, NEW lines, NEW torn,
         CreateSstFile(NextSstFilename, lines, torn)
  PROVE  AgesBelowFlushes' /\ AgesFollowNumbers'
<1> DEFINE next == NextSstFilename
<1>1. flushes \in Nat /\ flushes' = flushes + 1
  BY BoundsFacts DEF TypeOK, CreateSstFile
<1>2. next \in Slots
  BY NextNameType
<1>3. disk' = [disk EXCEPT ![next] = [lines |-> lines, torn |-> torn, age |-> flushes + 1]]
  BY DEF CreateSstFile
<1>4. disk'[next].age = flushes + 1 /\ \A n \in Slots \ {next} : disk'[n] = disk[n]
  BY <1>2, <1>3 DEF TypeOK
<1>5. ASSUME NEW n \in Slots \ {next}, Exists(n)'
      PROVE  /\ Exists(n) /\ n < next
             /\ disk'[n].age \in Nat /\ disk'[n].age <= flushes
  <2>1. Exists(n) /\ disk'[n] = disk[n]
    BY <1>4, <1>5 DEF Exists
  <2>2. n < next
    BY <2>1, NextNameIsLargest DEF OrderInv, FilesInv
  <2>3. disk[n].age \in Nat
    BY DEF TypeOK, File
  <2>4. disk[n].age <= flushes
    BY <2>1 DEF OrderInv, AgesBelowFlushes
  <2> QED BY <2>1, <2>2, <2>3, <2>4
<1>6. AgesBelowFlushes'
  BY <1>1, <1>4, <1>5 DEF AgesBelowFlushes, Exists
<1>7. AgesFollowNumbers'
  <2> SUFFICES ASSUME NEW m \in Slots, NEW n \in Slots, Exists(m)', Exists(n)', m < n
               PROVE  disk'[m].age < disk'[n].age
    BY DEF AgesFollowNumbers
  <2>1. m \in Nat /\ n \in Nat /\ next \in Nat
    BY <1>2 DEF Slots
  <2>2. CASE n = next
    BY <1>1, <1>4, <1>5, <2>1, <2>2
  <2>3. CASE n # next
    <3>1. m # next
      BY <1>5, <2>1, <2>3
    <3> QED BY <1>4, <1>5, <2>3, <3>1 DEF OrderInv, AgesFollowNumbers
  <2> QED BY <2>2, <2>3
<1> QED BY <1>6, <1>7

LEMMA FlushBufferKeepsOrder ==
  ASSUME NamesFit, TypeOK, OrderInv, up, up' = up, NEW b \in Seq(Entry), FlushBuffer(b)
  PROVE  OrderInv'
<1> DEFINE next == NextSstFilename
<1>1. PICK t \in Tables(b) :
        /\ CreateSstFile(next, t, FALSE)
        /\ files' = Append(files, [num |-> next, filter |-> FilterOf(t), cache |-> <<>>])
  BY DEF FlushBuffer
<1>2. FilesInv'
  BY FlushBufferKeepsFilesInv DEF OrderInv
<1>3. AgesBelowFlushes' /\ AgesFollowNumbers'
  BY <1>1, CreateKeepsAges
<1>4. /\ Len(files) \in Nat /\ DOMAIN files = 1..Len(files)
      /\ DOMAIN files' = 1..(Len(files) + 1)
  BY <1>1, LenProperties DEF TypeOK
<1>5. /\ \A i \in DOMAIN files : files'[i] = files[i]
      /\ files'[Len(files) + 1].num = next
  BY <1>1, <1>4 DEF TypeOK
<1>6. next \in Slots
  BY NextNameType
<1>7. ASSUME NEW i \in DOMAIN files
      PROVE  files[i].num \in Slots /\ files[i].num < next
  <2>1. files[i].num \in Slots
    BY ContentsType DEF Handle
  <2>2. Exists(files[i].num)
    BY DEF OrderInv, FilesInv, HandlesExist, Exists
  <2> QED BY <2>1, <2>2, NextNameIsLargest DEF OrderInv, FilesInv
<1>8. HandlesAscend'
  <2> SUFFICES ASSUME NEW i \in DOMAIN files', NEW j \in DOMAIN files', i < j
               PROVE  files'[i].num < files'[j].num
    BY DEF HandlesAscend
  <2>1. i \in DOMAIN files
    BY <1>4
  <2>2. CASE j \in DOMAIN files
    BY <1>5, <2>1, <2>2 DEF OrderInv, HandlesAscend
  <2>3. CASE j = Len(files) + 1
    BY <1>5, <1>7, <2>1, <2>3
  <2> QED BY <1>4, <2>2, <2>3
<1>9. {files'[i].num : i \in DOMAIN files'} = {files[i].num : i \in DOMAIN files} \cup {next}
  BY <1>4, <1>5
<1>10. {n \in Slots : disk'[n] # NoFile} = {n \in Slots : disk[n] # NoFile} \cup {next}
  <2>1. disk'[next] # NoFile
    BY <1>1, CreateKeepsFiles DEF OrderInv
  <2>2. \A n \in Slots \ {next} : disk'[n] = disk[n]
    BY <1>1, <1>6 DEF CreateSstFile, TypeOK
  <2> QED BY <1>6, <2>1, <2>2
<1>11. AllSstFilesLoaded'
  <2>1. {files[i].num : i \in DOMAIN files} = {n \in Slots : disk[n] # NoFile}
    BY DEF OrderInv, AllSstFilesLoaded
  <2>2. {files'[i].num : i \in DOMAIN files'} = {n \in Slots : disk'[n] # NoFile}
    BY <1>9, <1>10, <2>1
  <2> QED BY <2>2 DEF AllSstFilesLoaded
<1> QED BY <1>2, <1>3, <1>8, <1>11 DEF OrderInv
-----------------------------------------------------------------------------
(* The other steps *)

(* A dead process holds no handle. *)
LEMMA NoHandlesInOrder ==
  ASSUME FilesInv', AgesBelowFlushes', AgesFollowNumbers', files' = <<>>, up' = FALSE
  PROVE  OrderInv'
BY DEF OrderInv, HandlesAscend, AllSstFilesLoaded

LEMMA ErasedKeepsAges ==
  ASSUME TypeOK, OrderInv, NEW names, disk' = Erased(names), flushes' = flushes
  PROVE  AgesBelowFlushes' /\ AgesFollowNumbers'
<1>1. \A n \in Slots : Exists(n)' => Exists(n) /\ disk'[n] = disk[n]
  BY DEF Erased, Exists
<1> QED BY <1>1 DEF OrderInv, AgesBelowFlushes, AgesFollowNumbers

LEMMA TearFlushKeepsAges ==
  ASSUME NamesFit, TypeOK, OrderInv, NEW b, TearFlush(b)
  PROVE  AgesBelowFlushes' /\ AgesFollowNumbers'
BY CreateKeepsAges DEF TearFlush

(* Nothing but handles' caches, and what is not about files, changes. *)
LEMMA SameFilesKeepOrder ==
  ASSUME OrderInv, FilesInv', UNCHANGED <<up, disk, flushes>>,
         DOMAIN files' = DOMAIN files,
         \A i \in DOMAIN files : files'[i].num = files[i].num
  PROVE  OrderInv'
<1>1. AgesBelowFlushes' /\ AgesFollowNumbers'
  BY DEF OrderInv, AgesBelowFlushes, AgesFollowNumbers, Exists
<1>2. HandlesAscend'
  BY DEF OrderInv, HandlesAscend
<1>3. {files'[i].num : i \in DOMAIN files'} = {files[i].num : i \in DOMAIN files}
  OBVIOUS
<1>4. AllSstFilesLoaded'
  BY <1>3 DEF OrderInv, AllSstFilesLoaded
<1> QED BY <1>1, <1>2, <1>4 DEF OrderInv

LEMMA ResetKeepsOrder ==
  ASSUME NamesFit, TypeOK, OrderInv, FilesInv', ResetDB
  PROVE  OrderInv'
<1>1. files' = <<>> /\ disk' = Erased(Listed) /\ flushes' = flushes
  BY DEF ResetDB
<1>2. AgesBelowFlushes' /\ AgesFollowNumbers'
  BY <1>1, ErasedKeepsAges
<1>3. {n \in Slots : disk'[n] # NoFile} = {}
  BY <1>1 DEF Erased, Listed, NamesFit
<1>4. HandlesAscend' /\ AllSstFilesLoaded'
  BY <1>1, <1>3 DEF HandlesAscend, AllSstFilesLoaded
<1> QED BY <1>2, <1>4 DEF OrderInv

LEMMA RestartKeepsOrder ==
  ASSUME NamesFit, TypeOK, OrderInv, FilesInv', Restart
  PROVE  OrderInv'
<1>1. PICK names \in SstFilenames :
        files' = [i \in DOMAIN names |->
                    [num |-> names[i], filter |-> FilterOf(LoadEntries(names[i])),
                     cache |-> <<>>]]
  BY DEF Restart
<1>2. UNCHANGED <<disk, flushes>>
  BY DEF Restart
<1>3. /\ \A i, j \in DOMAIN names : i < j => names[i] < names[j]
      /\ {names[i] : i \in DOMAIN names} = Listed
  BY FilenamesComplete DEF OrderInv, FilesInv
<1>4. DOMAIN files' = DOMAIN names /\ \A i \in DOMAIN names : files'[i].num = names[i]
  BY <1>1
<1>5. AgesBelowFlushes' /\ AgesFollowNumbers'
  BY <1>2 DEF OrderInv, AgesBelowFlushes, AgesFollowNumbers, Exists
<1>6. HandlesAscend'
  BY <1>3, <1>4 DEF HandlesAscend
<1>7. {files'[i].num : i \in DOMAIN files'} = Listed
  BY <1>3, <1>4
<1>8. AllSstFilesLoaded'
  BY <1>2, <1>7 DEF AllSstFilesLoaded, NamesFit, Listed
<1> QED BY <1>5, <1>6, <1>8 DEF OrderInv

LEMMA NextKeepsOrder ==
  ASSUME NamesFit, TypeOK, OrderInv, [Next]_vars
  PROVE  OrderInv'
<1>0. FilesInv'
  BY NextKeepsFilesInv DEF OrderInv
<1>1. ASSUME NEW k \in Keys \cup {EmptyKey}, Get(k) PROVE OrderInv'
  <2>1. DOMAIN files' = DOMAIN files /\ UNCHANGED <<up, disk, flushes>>
    BY <1>1 DEF Get
  <2>2. ASSUME NEW i \in DOMAIN files PROVE files'[i].num = files[i].num
    <3>1. files'[i] \in {files[i], [files[i] EXCEPT !.cache = Contents(i)]}
      BY <1>1 DEF Get
    <3> QED BY <3>1, ContentsType DEF Handle
  <2> QED BY <1>0, <2>1, <2>2, SameFilesKeepOrder
<1>2. ASSUME NEW k \in Keys, NEW v \in Values \cup {Absent}, Put(k, v)
      PROVE  OrderInv'
  <2> DEFINE b == Append(buffer, [key |-> k, val |-> v])
  <2>1. b \in Seq(Entry) /\ up /\ up' = up
    BY <1>2 DEF TypeOK, Entry, Put
  <2>2. UNCHANGED <<files, disk, flushes>> \/ FlushBuffer(b)
    BY <1>2 DEF Put
  <2> HIDE DEF b
  <2> QED BY <1>0, <2>1, <2>2, FlushBufferKeepsOrder, SameFilesKeepOrder
<1>3. ASSUME NEW k \in Keys, NEW v \in Values \cup {Absent}, CrashInPut(k, v)
      PROVE  OrderInv'
  BY <1>0, <1>3, TearFlushKeepsAges, NoHandlesInOrder DEF CrashInPut, Die
<1>4. CASE Flush
  BY <1>4, FlushBufferKeepsOrder DEF Flush, TypeOK
<1>5. CASE ResetDB
  BY <1>0, <1>5, ResetKeepsOrder
<1>6. CASE Crash
  <2>1. AgesBelowFlushes' /\ AgesFollowNumbers'
    BY <1>6 DEF Crash, OrderInv, AgesBelowFlushes, AgesFollowNumbers, Exists
  <2> QED BY <1>0, <1>6, <2>1, NoHandlesInOrder DEF Crash, Die
<1>7. CASE CrashInFlush
  BY <1>0, <1>7, TearFlushKeepsAges, NoHandlesInOrder DEF CrashInFlush, Die
<1>8. CASE CrashInReset
  BY <1>0, <1>8, ErasedKeepsAges, NoHandlesInOrder DEF CrashInReset, Die
<1>9. CASE Restart
  BY <1>0, <1>9, RestartKeepsOrder
<1>10. CASE UNCHANGED vars
  BY <1>0, <1>10, SameFilesKeepOrder DEF vars
<1> QED BY <1>1, <1>2, <1>3, <1>4, <1>5, <1>6, <1>7, <1>8, <1>9, <1>10
        DEF Next, Set, Delete

LEMMA InitOrder == Init => OrderInv
BY InitFilesInv
DEF Init, OrderInv, AgesBelowFlushes, AgesFollowNumbers, HandlesAscend, AllSstFilesLoaded, Exists

LEMMA OrderInvHolds == NamesFit => (Spec => []OrderInv)
<1> SUFFICES ASSUME NamesFit PROVE Spec => []OrderInv
  OBVIOUS
<1>1. TypeOK /\ OrderInv /\ [Next]_vars => OrderInv'
  BY NextKeepsOrder
<1> QED BY <1>1, InitOrder, Typing, PTL DEF Spec

(* While file numbers fit their digits and the files are listed where they *)
(* are created, a process always knows every sst file there is and none    *)
(* that is gone, through flushes, resets, deaths and restarts              *)
(* (sst.go:83-96, 98-129, 304-310).                                        *)
THEOREM AllFilesAreLoaded == NamesFit => (Spec => []AllSstFilesLoaded)
<1>1. OrderInv => AllSstFilesLoaded
  BY DEF OrderInv
<1> QED BY <1>1, OrderInvHolds, PTL

(* Under the same conditions the handles are in the order their files were *)
(* written, so that the scan of sst.go:273 is from the newest file to the  *)
(* oldest, before a restart and after.                                     *)
THEOREM HandlesAreInOrder == NamesFit => (Spec => []NewestLast)
<1>1. TypeOK /\ OrderInv => NewestLast
  <2> SUFFICES ASSUME TypeOK, OrderInv, NEW i \in DOMAIN files, NEW j \in DOMAIN files, i < j
               PROVE  disk[files[i].num].age <= disk[files[j].num].age
    BY DEF NewestLast
  <2>1. files[i].num \in Slots /\ files[j].num \in Slots
    BY ContentsType DEF Handle
  <2>2. Exists(files[i].num) /\ Exists(files[j].num) /\ files[i].num < files[j].num
    BY DEF OrderInv, FilesInv, HandlesExist, HandlesAscend, Exists
  <2>3. disk[files[i].num].age < disk[files[j].num].age
    BY <2>1, <2>2 DEF OrderInv, AgesFollowNumbers
  <2>4. disk[files[i].num].age \in Nat /\ disk[files[j].num].age \in Nat
    BY <2>1 DEF TypeOK, File
  <2> QED BY <2>3, <2>4
<1> QED BY <1>1, OrderInvHolds, Typing, PTL
-----------------------------------------------------------------------------
(* The store as a map *)

(* The entries clients write. *)
Written == [key : Keys, val : Values \cup {Absent}]

Sorted(s) == \A i, j \in DOMAIN s : i < j => s[i].key < s[j].key

-----------------------------------------------------------------------------
(* Binary search *)

(* e is a file as it is read: n sorted lines, then perhaps the zero entry  *)
(* of a torn line.                                                         *)
Searchable(e, n) ==
  /\ e \in Seq(Entry) /\ n \in Nat
  /\ \/ n = Len(e)
     \/ n + 1 = Len(e) /\ e[Len(e)].key = EmptyKey
  /\ \A i, j \in 1..n : i < j => e[i].key < e[j].key

(* The loop's answer when it is to look at the entries from l to r: the    *)
(* zero entry is no hit unless it is all there is to look at, for then its *)
(* key "" may be the one looked for.                                       *)
HitsBetween(k, e, n, l, r) == {i \in l..r : e[i].key = k /\ (i <= n \/ l = r)}

AnyOf(S) == IF S = {} THEN 0 ELSE CHOOSE i \in S : TRUE

Answer(k, e, n, l, r) == AnyOf(HitsBetween(k, e, n, l, r))

LEMMA KeysAreNumbers ==
  /\ \A k \in Keys : k \in Nat
  /\ \A e \in Entry : e.key \in Nat
<1>1. \A k \in Keys \cup {EmptyKey} : k \in Nat
  BY KeysAssumption DEF EmptyKey
<1>2. \A e \in Entry : e.key \in Keys \cup {EmptyKey}
  BY DEF Entry
<1> QED BY <1>1, <1>2

LEMMA SearchableFacts ==
  ASSUME NEW e, NEW n, Searchable(e, n)
  PROVE  /\ Len(e) \in Nat /\ n \in Nat /\ n <= Len(e) /\ Len(e) <= n + 1
         /\ \A i \in 1..Len(e) : e[i].key \in Nat
         /\ \A i \in 1..Len(e) : i > n => e[i].key = 0
<1>1. Len(e) \in Nat /\ \A i \in 1..Len(e) : e[i] \in Entry
  BY LenProperties DEF Searchable
<1>2. \A i \in 1..Len(e) : e[i].key \in Nat
  BY <1>1, KeysAreNumbers
<1> QED BY <1>1, <1>2 DEF Searchable, EmptyKey

Mid(l, r) == l + ((r - l) \div 2)

(* One round of the loop. *)
LEMMA AnswerRound ==
  ASSUME NEW e, NEW n, Searchable(e, n), NEW k \in Keys,
         NEW l \in 1..Len(e), NEW r \in 1..Len(e), l <= r
  PROVE  LET mid == Mid(l, r) IN
         /\ mid \in l..r
         /\ e[mid].key = k => Answer(k, e, n, l, r) = mid
         /\ e[mid].key > k => Answer(k, e, n, l, r) = Answer(k, e, n, l, mid - 1)
         /\ e[mid].key < k => Answer(k, e, n, l, r) = Answer(k, e, n, mid + 1, r)
<1> DEFINE mid == Mid(l, r)
<1>1. /\ Len(e) \in Nat /\ n \in Nat /\ n <= Len(e) /\ Len(e) <= n + 1
      /\ \A i \in 1..Len(e) : e[i].key \in Nat
      /\ \A i \in 1..Len(e) : i > n => e[i].key = 0
  BY SearchableFacts
<1>2. k \in Nat
  BY KeysAreNumbers
<1>3. mid \in l..r /\ (mid = r => l = r) /\ l..(mid - 1) \subseteq l..r
  BY <1>1 DEF Mid
<1> HIDE DEF mid
<1>4. mid \in 1..Len(e) /\ \A i \in l..r : i \in 1..Len(e)
  BY <1>1, <1>3
<1>5. \A i, j \in 1..n : i < j => e[i].key < e[j].key
  BY DEF Searchable
<1>6. e[mid].key = k => HitsBetween(k, e, n, l, r) = {mid}
  <2> SUFFICES ASSUME e[mid].key = k
               PROVE  HitsBetween(k, e, n, l, r) = {mid}
    OBVIOUS
  <2>1. mid <= n \/ l = r
    BY <1>1, <1>3, <1>4
  <2>2. ASSUME NEW i \in l..r, e[i].key = k, i <= n \/ l = r PROVE i = mid
    <3>1. CASE l = r
      BY <1>1, <1>3, <3>1
    <3>2. CASE l # r
      <4>1. i \in 1..n /\ mid \in 1..n
        BY <1>1, <1>4, <2>1, <2>2, <3>2
      <4>2. ~(i < mid) /\ ~(mid < i)
        BY <1>1, <1>2, <1>4, <1>5, <2>2, <4>1
      <4> QED BY <4>1, <4>2
    <3> QED BY <3>1, <3>2
  <2> QED BY <1>3, <2>1, <2>2 DEF HitsBetween
<1>7. e[mid].key > k => HitsBetween(k, e, n, l, r) = HitsBetween(k, e, n, l, mid - 1)
  <2> SUFFICES ASSUME e[mid].key > k
               PROVE  HitsBetween(k, e, n, l, r) = HitsBetween(k, e, n, l, mid - 1)
    OBVIOUS
  <2>1. mid <= n
    BY <1>1, <1>2, <1>4
  <2>2. ASSUME NEW i \in l..r, e[i].key = k, i <= n \/ l = r
        PROVE  i \in l..(mid - 1) /\ i <= n
    <3>1. l # r
      BY <1>1, <1>2, <1>3, <1>4, <2>2
    <3>2. i \in 1..n /\ mid \in 1..n
      BY <1>1, <1>4, <2>1, <2>2, <3>1
    <3>3. ~(mid < i) /\ mid # i
      BY <1>1, <1>2, <1>4, <1>5, <2>2, <3>2
    <3> QED BY <3>2, <3>3
  <2>3. \A i \in l..(mid - 1) : i \in l..r /\ i <= n
    BY <1>1, <1>3, <1>4, <2>1
  <2> QED BY <2>2, <2>3 DEF HitsBetween
<1>8. e[mid].key < k => HitsBetween(k, e, n, l, r) = HitsBetween(k, e, n, mid + 1, r)
  <2> SUFFICES ASSUME e[mid].key < k
               PROVE  HitsBetween(k, e, n, l, r) = HitsBetween(k, e, n, mid + 1, r)
    OBVIOUS
  <2>1. \A i \in l..r : e[i].key = k => i <= n
    <3>1. k # 0
      BY <1>1, <1>2, <1>4
    <3> QED BY <1>1, <1>4, <3>1
  <2>2. ASSUME NEW i \in l..r, e[i].key = k PROVE i \in (mid + 1)..r
    <3>1. i \in 1..n
      BY <1>1, <1>4, <2>1, <2>2
    <3>2. CASE mid <= n
      <4>1. mid \in 1..n
        BY <1>4, <3>2
      <4>2. ~(i < mid) /\ mid # i
        BY <1>1, <1>2, <1>4, <1>5, <2>2, <3>1, <4>1
      <4> QED BY <3>1, <4>1, <4>2
    <3>3. CASE mid > n
      BY <1>1, <1>3, <1>4, <3>1, <3>3
    <3> QED BY <1>1, <1>4, <3>2, <3>3
  <2>3. (mid + 1)..r \subseteq l..r
    BY <1>3
  <2> QED BY <2>1, <2>2, <2>3 DEF HitsBetween
<1>9. e[mid].key = k => Answer(k, e, n, l, r) = mid
  BY <1>6 DEF Answer, AnyOf
<1>10. e[mid].key > k => Answer(k, e, n, l, r) = Answer(k, e, n, l, mid - 1)
  BY <1>7 DEF Answer
<1>11. e[mid].key < k => Answer(k, e, n, l, r) = Answer(k, e, n, mid + 1, r)
  BY <1>8 DEF Answer
<1> QED BY <1>3, <1>9, <1>10, <1>11 DEF mid

(* The loop computes that answer. *)
LEMMA SearchAnswers ==
  ASSUME NEW e, NEW n, Searchable(e, n), NEW k \in Keys
  PROVE  FindEntryValue(k, e) = Answer(k, e, n, 1, Len(e))
<1> DEFINE N == Len(e)
           Spans == (1..(N + 1)) \X (0..N)
           mid(p) == Mid(p[1], p[2])
           left(p) == <<p[1], mid(p) - 1>>
           right(p) == <<mid(p) + 1, p[2]>>
           body(s, p) == IF p[1] > p[2]
                         THEN 0
                         ELSE CASE e[mid(p)].key = k -> mid(p)
                                [] e[mid(p)].key > k -> s[left(p)]
                                [] OTHER -> s[right(p)]
           Round(s) == [p \in Spans |-> body(s, p)]
           search == CHOOSE s : s = Round(s)
           ans(p) == Answer(k, e, n, p[1], p[2])
           answer == [p \in Spans |-> ans(p)]
<1>1. FindEntryValue(k, e) = search[<<1, N>>]
  BY DEF FindEntryValue, Mid
<1>2. N \in Nat /\ \A i \in 1..N : e[i].key \in Nat
  BY SearchableFacts
<1>3. ASSUME NEW p \in Spans, p[1] > p[2]
      PROVE  ans(p) = 0
  <2>1. HitsBetween(k, e, n, p[1], p[2]) = {}
    BY <1>2, <1>3 DEF HitsBetween
  <2> QED BY <2>1 DEF Answer, AnyOf
<1>4. ASSUME NEW p \in Spans, p[1] <= p[2]
      PROVE  /\ mid(p) \in 1..N /\ mid(p) \in p[1]..p[2]
             /\ left(p) \in Spans /\ right(p) \in Spans
             /\ e[mid(p)].key = k => ans(p) = mid(p)
             /\ e[mid(p)].key > k => ans(p) = ans(left(p))
             /\ e[mid(p)].key < k => ans(p) = ans(right(p))
  <2> DEFINE l == p[1]
             r == p[2]
             m == mid(p)
  <2>1. l \in 1..Len(e) /\ r \in 1..Len(e) /\ l <= r
    BY <1>2, <1>4
  <2>3. /\ m \in l..r
        /\ e[m].key = k => Answer(k, e, n, l, r) = m
        /\ e[m].key > k => Answer(k, e, n, l, r) = Answer(k, e, n, l, m - 1)
        /\ e[m].key < k => Answer(k, e, n, l, r) = Answer(k, e, n, m + 1, r)
    BY <2>1, AnswerRound
  <2>4. m \in 1..N /\ left(p) \in Spans /\ right(p) \in Spans
    <3>1. m \in 1..N /\ m - 1 \in 0..N /\ m + 1 \in 1..(N + 1)
      <4> HIDE DEF m, l, r
      <4> QED BY <1>2, <2>1, <2>3
    <3>2. l \in 1..(N + 1) /\ r \in 0..N
      OBVIOUS
    <3> HIDE DEF m, l, r
    <3> QED BY <3>1, <3>2 DEF m, l, r
  <2>5. ans(left(p)) = Answer(k, e, n, l, m - 1) /\ ans(right(p)) = Answer(k, e, n, m + 1, r)
    OBVIOUS
  <2> QED BY <2>3, <2>4, <2>5
<1>5. ASSUME NEW s, \A p \in Spans : s[p] = ans(p), NEW p \in Spans
      PROVE  ans(p) = body(s, p)
  <2>1. CASE p[1] > p[2]
    BY <1>3, <2>1
  <2>2. CASE ~(p[1] > p[2])
    <3> DEFINE m == mid(p)
    <3>1. p[1] <= p[2]
      BY <1>2, <2>2
    <3>2. /\ m \in 1..N
          /\ e[m].key = k => ans(p) = m
          /\ e[m].key > k => ans(p) = s[left(p)]
          /\ e[m].key < k => ans(p) = s[right(p)]
      BY <1>4, <1>5, <3>1
    <3>3. body(s, p) = CASE e[m].key = k -> m
                         [] e[m].key > k -> s[left(p)]
                         [] OTHER -> s[right(p)]
      BY <2>2
    <3>4. e[m].key \in Nat /\ k \in Nat
      BY <1>2, <3>2, KeysAreNumbers
    <3> HIDE DEF m, body, left, right, ans
    <3> QED BY <3>2, <3>3, <3>4
  <2> QED BY <2>1, <2>2
<1>6. answer = Round(answer)
  <2>1. \A p \in Spans : answer[p] = ans(p)
    OBVIOUS
  <2>2. \A p \in Spans : ans(p) = body(answer, p)
    <3> HIDE DEF body, ans, answer, Spans
    <3> QED BY <1>5, <2>1
  <2> HIDE DEF body, ans
  <2> QED BY <2>2
<1>7. search = Round(search)
  <2> HIDE DEF answer, Round
  <2> QED BY <1>6, Zenon
<1> HIDE DEF search
<1>8. \A p \in Spans : search[p] = body(search, p)
  <2> HIDE DEF body, Spans
  <2> QED BY <1>7
<1>9. \A p \in Spans : search[p] = ans(p)
  <2> DEFINE bad == {x \in 0..N : \E p \in Spans :
                       p[1] <= p[2] /\ x = N - (p[2] - p[1]) /\ search[p] # ans(p)}
  <2>1. ASSUME bad # {} PROVE FALSE
    <3>1. PICK x \in bad : \A y \in bad : y <= x
      <4>1. bad \subseteq 0..N
        OBVIOUS
      <4> HIDE DEF bad
      <4> QED BY <1>2, <2>1, <4>1, LargestExists
    <3>2. PICK p \in Spans : p[1] <= p[2] /\ x = N - (p[2] - p[1]) /\ search[p] # ans(p)
      OBVIOUS
    <3>3. ASSUME NEW q \in Spans, q[2] - q[1] < p[2] - p[1]
          PROVE  search[q] = ans(q)
      <4>1. CASE q[1] > q[2]
        BY <1>3, <1>8, <4>1
      <4>2. CASE q[1] <= q[2]
        <5>1. N - (q[2] - q[1]) \in 0..N /\ ~(N - (q[2] - q[1]) <= x)
          BY <1>2, <3>2, <3>3, <4>2
        <5> HIDE DEF ans, Spans
        <5> QED BY <3>1, <4>2, <5>1
      <4> QED BY <1>2, <4>1, <4>2
    <3> DEFINE m == mid(p)
    <3>4. /\ m \in p[1]..p[2] /\ m \in 1..N
          /\ left(p) \in Spans /\ right(p) \in Spans
          /\ e[m].key = k => ans(p) = m
          /\ e[m].key > k => ans(p) = ans(left(p))
          /\ e[m].key < k => ans(p) = ans(right(p))
      BY <1>4, <3>2
    <3>5. search[p] = CASE e[m].key = k -> m
                        [] e[m].key > k -> search[left(p)]
                        [] OTHER -> search[right(p)]
      <4>1. ~(p[1] > p[2])
        BY <1>2, <3>2
      <4> QED BY <1>8, <4>1
    <3>6. search[left(p)] = ans(left(p)) /\ search[right(p)] = ans(right(p))
      <4>1. left(p)[2] - left(p)[1] < p[2] - p[1] /\ right(p)[2] - right(p)[1] < p[2] - p[1]
        <5>1. left(p) = <<p[1], m - 1>> /\ right(p) = <<m + 1, p[2]>>
          OBVIOUS
        <5> HIDE DEF m, left, right
        <5> QED BY <1>2, <3>4, <5>1
      <4> HIDE DEF left, right, ans, Spans
      <4> QED BY <3>3, <3>4, <4>1
    <3>7. e[m].key \in Nat /\ k \in Nat
      BY <1>2, <3>4, KeysAreNumbers
    <3> HIDE DEF m, ans, left, right, Spans
    <3> QED BY <3>2, <3>4, <3>5, <3>6, <3>7
  <2>2. ASSUME NEW p \in Spans PROVE search[p] = ans(p)
    <3>1. CASE p[1] > p[2]
      BY <1>3, <1>8, <3>1
    <3>2. CASE p[1] <= p[2]
      <4>1. N - (p[2] - p[1]) \in 0..N
        BY <1>2, <3>2
      <4> HIDE DEF ans, Spans
      <4> QED BY <2>1, <3>2, <4>1
    <3> QED BY <1>2, <3>1, <3>2
  <2> QED BY <2>2
<1>10. <<1, N>> \in Spans
  BY <1>2
<1> QED BY <1>1, <1>9, <1>10

(* It finds the whole line of a key or nothing, but for the zero entry of  *)
(* a file that has no whole line.                                          *)
LEMMA SearchFinds ==
  ASSUME NEW e, NEW n, Searchable(e, n), NEW k \in Keys
  PROVE  LET found == FindEntryValue(k, e) IN
         /\ found # 0 => \/ found \in 1..n /\ e[found].key = k
                         \/ n = 0 /\ Len(e) = 1 /\ k = EmptyKey
         /\ \A i \in 1..n : e[i].key = k => found = i
<1> DEFINE H == HitsBetween(k, e, n, 1, Len(e))
           found == FindEntryValue(k, e)
<1>1. found = AnyOf(H)
  BY SearchAnswers DEF Answer
<1>2. /\ Len(e) \in Nat /\ n \in Nat /\ n <= Len(e)
      /\ \A i \in 1..Len(e) : e[i].key \in Nat
      /\ \A i \in 1..Len(e) : i > n => e[i].key = EmptyKey
      /\ \A i, j \in 1..n : i < j => e[i].key < e[j].key
  BY SearchableFacts DEF Searchable, EmptyKey
<1>3. \A i : i \in H <=> /\ i \in 1..Len(e) /\ e[i].key = k
                         /\ i \in 1..n \/ Len(e) = 1
  BY <1>2 DEF HitsBetween
<1>4. found = 0 \/ found \in H
  BY <1>1 DEF AnyOf
<1>5. ASSUME NEW i \in 1..n, e[i].key = k
      PROVE  found = i
  <2>1. i \in H
    BY <1>2, <1>3, <1>5
  <2>2. ASSUME NEW j \in H PROVE j = i
    <3>1. j \in 1..n /\ e[j].key = e[i].key /\ i \in 1..Len(e)
      BY <1>2, <1>3, <1>5
    <3>2. ~(i < j) /\ ~(j < i)
      BY <1>2, <3>1
    <3> QED BY <3>1, <3>2
  <2>3. found \in H
    BY <1>1, <2>1 DEF AnyOf
  <2> QED BY <2>2, <2>3
<1>6. ASSUME found \in H
      PROVE  \/ found \in 1..n /\ e[found].key = k
             \/ n = 0 /\ Len(e) = 1 /\ k = EmptyKey
  <2> HIDE DEF H, found
  <2>1. found \in 1..Len(e) /\ e[found].key = k /\ (found \in 1..n \/ Len(e) = 1)
    BY <1>3, <1>6
  <2>2. CASE found \notin 1..n
    BY <1>2, <2>1, <2>2
  <2> QED BY <2>1, <2>2
<1> HIDE DEF H, found
<1> QED BY <1>4, <1>5, <1>6 DEF found

(* What a file is read as, torn or not. *)
LEMMA FileIsSearchable ==
  ASSUME NEW f \in File, f.lines \in Seq(Written), Sorted(f.lines)
  PROVE  /\ Searchable(Parsed(f), Len(f.lines))
         /\ DOMAIN f.lines = 1..Len(f.lines)
         /\ \A i \in 1..Len(f.lines) : Parsed(f)[i] = f.lines[i]
<1> DEFINE s == f.lines
           e == Parsed(f)
<1>1. s \in Seq(Entry) /\ Len(s) \in Nat /\ DOMAIN s = 1..Len(s)
  BY LenProperties DEF File
<1>2. \A i, j \in 1..Len(s) : i < j => s[i].key < s[j].key
  BY <1>1 DEF Sorted
<1>3. CASE ~f.torn
  <2>1. e = s
    BY <1>3 DEF Parsed
  <2> HIDE DEF e
  <2> QED BY <1>1, <1>2, <2>1 DEF Searchable, e
<1>4. CASE f.torn
  <2>1. e = Append(s, ZeroEntry)
    BY <1>4 DEF Parsed
  <2> HIDE DEF e, s
  <2>2. /\ e \in Seq(Entry) /\ Len(e) = Len(s) + 1
        /\ \A i \in 1..Len(s) : e[i] = s[i]
        /\ e[Len(s) + 1] = ZeroEntry
    BY <1>1, <2>1, ZeroEntryType, AppendProperties
  <2>3. e[Len(e)].key = EmptyKey
    BY <2>2 DEF ZeroEntry
  <2> QED BY <1>1, <1>2, <2>2, <2>3 DEF Searchable, s, e
<1> QED BY <1>3, <1>4
-----------------------------------------------------------------------------
(* What clients wrote: in the buffer every key has its bits in the filter, *)
(* and the lines of every file are sorted, each key once.                  *)

BufferInv ==
  \A i \in DOMAIN buffer : buffer[i] \in Written /\ Test(filter, buffer[i].key)

LinesInv == \A n \in Slots : disk[n].lines \in Seq(Written) /\ Sorted(disk[n].lines)

(* A table is sorted, and holds the last entry of every key. *)
LEMMA TableOfBuffer ==
  ASSUME NEW b \in Seq(Entry), NEW t \in Tables(b)
  PROVE  Sorted(t) /\ Range(t) = LastEntries(b)
<1> DEFINE E == LastEntries(b)
           N == Cardinality(E)
<1>1. IsFiniteSet(E) /\ N \in Nat
  BY LastEntriesFinite, FS_CardinalityType
<1>2. t \in [1..N -> E] /\ \A i, j \in 1..N : i < j => t[i].key < t[j].key
  BY DEF Tables
<1>3. \A x \in E : x.key \in Nat
  BY LastEntriesFinite, KeysAreNumbers
<1> HIDE DEF E, N
<1>4. t \in Injection(1..N, E)
  <2>1. ASSUME NEW i \in 1..N, NEW j \in 1..N, t[i] = t[j]
        PROVE  i = j
    <3>1. i \in Nat /\ j \in Nat /\ t[i].key \in Nat
      BY <1>1, <1>2, <1>3
    <3>2. ~(i < j) /\ ~(j < i)
      BY <1>2, <2>1, <3>1
    <3> QED BY <3>1, <3>2
  <2> QED BY <1>2, <2>1 DEF Injection, IsInjective
<1>5. Cardinality(1..N) = N
  BY <1>1, FS_Interval
<1>6. t \in Surjection(1..N, E)
  BY <1>1, <1>4, <1>5, FS_Injection DEF N
<1>7. Range(t) = E
  BY <1>2, <1>6 DEF Surjection, Range
<1> QED BY <1>2, <1>7 DEF Sorted, E

LEMMA WrittenFacts ==
  /\ Written \subseteq Entry
  /\ \A k \in Keys, v \in Values \cup {Absent} : [key |-> k, val |-> v] \in Written
BY DEF Written, Entry

LEMMA WrittenTable ==
  ASSUME NEW b \in Seq(Written), NEW t \in Tables(b)
  PROVE  t \in Seq(Written) /\ Sorted(t) /\ Range(t) = LastEntries(b)
<1>1. Len(b) \in Nat /\ DOMAIN b = 1..Len(b) /\ \A i \in 1..Len(b) : b[i] \in Written
  BY LenProperties
<1>2. b \in Seq(Entry)
  BY <1>1, WrittenFacts
<1>3. t \in Seq(Entry) /\ Sorted(t) /\ Range(t) = LastEntries(b)
  BY <1>2, TablesType, TableOfBuffer
<1>4. LastEntries(b) \subseteq Written
  BY <1>1 DEF LastEntries
<1>5. Len(t) \in Nat /\ DOMAIN t = 1..Len(t)
  BY <1>3, LenProperties
<1>6. \A i \in DOMAIN t : t[i] \in Written
  BY <1>3, <1>4 DEF Range
<1>7. t \in Seq(Written)
  BY <1>5, <1>6, <1>3
<1> QED BY <1>3, <1>7

LEMMA WrittenPrefix ==
  ASSUME NEW t \in Seq(Written), Sorted(t), NEW w \in 0..Len(t)
  PROVE  /\ SubSeq(t, 1, w) \in Seq(Written) /\ Sorted(SubSeq(t, 1, w))
         /\ DOMAIN SubSeq(t, 1, w) = 1..w
         /\ \A i \in 1..w : i \in DOMAIN t /\ SubSeq(t, 1, w)[i] = t[i]
<1> DEFINE s == SubSeq(t, 1, w)
<1>1. Len(t) \in Nat /\ DOMAIN t = 1..Len(t) /\ w \in Int /\ \A i \in 1..w : t[i] \in Written
  BY LenProperties
<1>2. /\ s \in Seq(Written) /\ Len(s) = w
      /\ \A i \in 1..w : s[i] = t[i]
  <2>1. s \in Seq(Written)
    BY <1>1, SubSeqProperties
  <2>2. Len(s) = w /\ \A i \in 1..w : s[i] = t[i]
    BY <1>1
  <2> QED BY <2>1, <2>2
<1> HIDE DEF s
<1>3. DOMAIN s = 1..w
  BY <1>2, LenProperties
<1>4. \A i \in 1..w : i \in DOMAIN t
  BY <1>1
<1>5. Sorted(s)
  BY <1>2, <1>3, <1>4 DEF Sorted
<1> QED BY <1>2, <1>3, <1>4, <1>5 DEF s

LEMMA BufferWritten ==
  ASSUME TypeOK, BufferInv
  PROVE  /\ buffer \in Seq(Written)
         /\ \A k \in Keys, v \in Values \cup {Absent} :
              Append(buffer, [key |-> k, val |-> v]) \in Seq(Written)
<1>1. Len(buffer) \in Nat /\ DOMAIN buffer = 1..Len(buffer) /\ buffer \in Seq(Entry)
  BY LenProperties DEF TypeOK
<1>2. buffer \in Seq(Written)
  BY <1>1 DEF BufferInv
<1>3. ASSUME NEW e \in Written PROVE Append(buffer, e) \in Seq(Written)
  BY <1>2
<1> QED BY <1>2, <1>3, WrittenFacts

LEMMA CreateKeepsLines ==
  ASSUME TypeOK, LinesInv, NEW lines \in Seq(Written), Sorted(lines), NEW torn,
         CreateSstFile(NextSstFilename, lines, torn)
  PROVE  LinesInv'
<1>1. NextSstFilename \in Slots
  BY NextNameType
<1>2. disk'[NextSstFilename].lines = lines
  BY <1>1 DEF CreateSstFile, TypeOK
<1>3. \A n \in Slots \ {NextSstFilename} : disk'[n] = disk[n]
  BY <1>1 DEF CreateSstFile, TypeOK
<1> QED BY <1>2, <1>3 DEF LinesInv

LEMMA FlushKeepsLines ==
  ASSUME TypeOK, LinesInv, NEW b \in Seq(Written), FlushBuffer(b)
  PROVE  LinesInv' /\ buffer' = <<>>
<1>1. PICK t \in Tables(b) : CreateSstFile(NextSstFilename, t, FALSE)
  BY DEF FlushBuffer
<1>2. t \in Seq(Written) /\ Sorted(t)
  BY WrittenTable
<1> QED BY <1>1, <1>2, CreateKeepsLines DEF FlushBuffer

LEMMA TearKeepsLines ==
  ASSUME TypeOK, LinesInv, NEW b \in Seq(Written), TearFlush(b)
  PROVE  LinesInv'
<1>1. PICK t \in Tables(b) : \E w \in 0..Len(t) : \E torn \in BOOLEAN :
        CreateSstFile(NextSstFilename, SubSeq(t, 1, w), torn)
  BY DEF TearFlush
<1>2. t \in Seq(Written) /\ Sorted(t)
  BY WrittenTable
<1>3. PICK w \in 0..Len(t), torn \in BOOLEAN :
        CreateSstFile(NextSstFilename, SubSeq(t, 1, w), torn)
  BY <1>1
<1>4. SubSeq(t, 1, w) \in Seq(Written) /\ Sorted(SubSeq(t, 1, w))
  BY <1>2, WrittenPrefix
<1> QED BY <1>3, <1>4, CreateKeepsLines

LEMMA ErasedKeepsLines ==
  ASSUME LinesInv, NEW names, disk' = Erased(names)
  PROVE  LinesInv'
<1>1. \A n \in Slots : disk'[n] \in {disk[n], NoFile}
  BY DEF Erased
<1>2. NoFile.lines = <<>>
  BY DEF NoFile
<1>3. <<>> \in Seq(Written) /\ Sorted(<<>>)
  BY DEF Sorted
<1> QED BY <1>1, <1>2, <1>3 DEF LinesInv

LEMMA EmptyBufferInv ==
  ASSUME buffer' = <<>>
  PROVE  BufferInv'
BY DEF BufferInv

LEMMA PutKeepsBuffer ==
  ASSUME TypeOK, BufferInv, NEW k \in Keys, NEW v \in Values \cup {Absent},
         buffer' = Append(buffer, [key |-> k, val |-> v]), filter' = filter \cup Hash[k]
  PROVE  BufferInv'
<1> DEFINE e == [key |-> k, val |-> v]
<1>1. e \in Written /\ e.key = k
  BY WrittenFacts
<1> HIDE DEF e
<1>2. buffer' = Append(buffer, e) /\ buffer \in Seq(Entry) /\ e \in Entry
  BY <1>1, WrittenFacts DEF e, TypeOK
<1>3. /\ DOMAIN buffer' = 1..(Len(buffer) + 1) /\ DOMAIN buffer = 1..Len(buffer)
      /\ Len(buffer) \in Nat
      /\ \A i \in DOMAIN buffer : buffer'[i] = buffer[i]
      /\ buffer'[Len(buffer) + 1] = e
  BY <1>2, LenProperties, AppendProperties
<1>4. \A i \in DOMAIN buffer : buffer'[i] \in Written /\ Test(filter', buffer'[i].key)
  <2>1. \A i \in DOMAIN buffer : buffer[i] \in Written /\ Test(filter, buffer[i].key)
    BY DEF BufferInv
  <2>2. filter \subseteq filter'
    OBVIOUS
  <2> QED BY <1>3, <2>1, <2>2 DEF Test
<1>5. e \in Written /\ Test(filter', e.key)
  BY <1>1 DEF Test
<1>6. \A i \in DOMAIN buffer' : i \in DOMAIN buffer \/ i = Len(buffer) + 1
  BY <1>3
<1> QED BY <1>3, <1>4, <1>5, <1>6 DEF BufferInv

LEMMA NextKeepsTables ==
  ASSUME TypeOK, BufferInv, LinesInv, [Next]_vars
  PROVE  BufferInv' /\ LinesInv'
<1>1. ASSUME NEW k \in Keys \cup {EmptyKey}, Get(k) PROVE BufferInv' /\ LinesInv'
  BY <1>1 DEF Get, BufferInv, LinesInv
<1>2. ASSUME NEW k \in Keys, NEW v \in Values \cup {Absent}, Put(k, v)
      PROVE  BufferInv' /\ LinesInv'
  <2> DEFINE b == Append(buffer, [key |-> k, val |-> v])
  <2>1. b \in Seq(Written) /\ filter' = filter \cup Hash[k]
    BY <1>2, BufferWritten DEF Put
  <2>2. (buffer' = b /\ UNCHANGED disk) \/ FlushBuffer(b)
    BY <1>2 DEF Put
  <2>3. (buffer' = b /\ UNCHANGED disk) => BufferInv' /\ LinesInv'
    BY <2>1, PutKeepsBuffer DEF LinesInv
  <2>4. FlushBuffer(b) => BufferInv' /\ LinesInv'
    <3> HIDE DEF b
    <3> QED BY <2>1, FlushKeepsLines, EmptyBufferInv
  <2> QED BY <2>2, <2>3, <2>4
<1>3. ASSUME NEW k \in Keys, NEW v \in Values \cup {Absent}, CrashInPut(k, v)
      PROVE  BufferInv' /\ LinesInv'
  <2> DEFINE b == Append(buffer, [key |-> k, val |-> v])
  <2>1. b \in Seq(Written) /\ TearFlush(b) /\ buffer' = <<>>
    BY <1>3, BufferWritten DEF CrashInPut, Die
  <2> HIDE DEF b
  <2> QED BY <2>1, TearKeepsLines, EmptyBufferInv
<1>4. CASE Flush
  BY <1>4, BufferWritten, FlushKeepsLines, EmptyBufferInv DEF Flush
<1>5. CASE ResetDB
  BY <1>5, ErasedKeepsLines DEF ResetDB, BufferInv
<1>6. CASE Crash
  BY <1>6, EmptyBufferInv DEF Crash, Die, LinesInv
<1>7. CASE CrashInFlush
  BY <1>7, BufferWritten, TearKeepsLines, EmptyBufferInv DEF CrashInFlush, Die
<1>8. CASE CrashInReset
  BY <1>8, ErasedKeepsLines, EmptyBufferInv DEF CrashInReset, Die
<1>9. CASE Restart
  BY <1>9 DEF Restart, BufferInv, LinesInv
<1>10. CASE UNCHANGED vars
  BY <1>10 DEF vars, BufferInv, LinesInv
<1> QED BY <1>1, <1>2, <1>3, <1>4, <1>5, <1>6, <1>7, <1>8, <1>9, <1>10
        DEF Next, Set, Delete

LEMMA InitTables == Init => BufferInv /\ LinesInv
<1>1. <<>> \in Seq(Written) /\ Sorted(<<>>) /\ NoFile.lines = <<>>
  BY DEF Sorted, NoFile
<1>2. Init => \A n \in Slots : disk[n].lines = <<>>
  BY <1>1 DEF Init
<1>3. Init => BufferInv
  BY DEF Init, BufferInv
<1> QED BY <1>1, <1>2, <1>3 DEF LinesInv

LEMMA TablesInvHolds == Spec => [](BufferInv /\ LinesInv)
<1>1. TypeOK /\ BufferInv /\ LinesInv /\ [Next]_vars => BufferInv' /\ LinesInv'
  BY NextKeepsTables
<1> QED BY <1>1, InitTables, Typing, PTL DEF Spec

(* Every line a flush wrote whole is found by the binary search of a later *)
(* Get (sst.go:231-248), in files torn by a crash too, whose last line is  *)
(* read as the zero entry and leaves the entries unsorted; with no         *)
(* assumption on names, numbers or paths.                                  *)
THEOREM WholeLinesFound == Spec => []WholeLinesAreFound
<1>1. TypeOK /\ LinesInv => WholeLinesAreFound
  <2> SUFFICES ASSUME TypeOK, LinesInv, NEW n \in Slots, NEW i \in DOMAIN disk[n].lines
               PROVE  FindEntryValue(disk[n].lines[i].key, LoadEntries(n)) = i
    BY DEF WholeLinesAreFound
  <2> DEFINE f == disk[n]
  <2>1. f \in File /\ f.lines \in Seq(Written) /\ Sorted(f.lines)
    BY DEF TypeOK, LinesInv
  <2> HIDE DEF f
  <2>2. /\ Searchable(Parsed(f), Len(f.lines)) /\ i \in 1..Len(f.lines)
        /\ Parsed(f)[i] = f.lines[i]
    BY <2>1, FileIsSearchable DEF f
  <2>3. f.lines[i].key \in Keys
    <3>1. f.lines[i] \in Written
      BY <2>1, <2>2
    <3> QED BY <3>1 DEF Written
  <2>4. FindEntryValue(f.lines[i].key, Parsed(f)) = i
    BY <2>2, <2>3, SearchFinds
  <2> QED BY <2>4 DEF f, LoadEntries
<1> QED BY <1>1, TablesInvHolds, Typing, PTL
-----------------------------------------------------------------------------
(* What the files say of a key.  The operators take the disk, so that what *)
(* is shown of them holds before a step and after it.                      *)

Holders(d, k) == {n \in Slots : \E i \in DOMAIN d[n].lines : d[n].lines[i].key = k}

Durably(d, k) ==
  IF Holders(d, k) = {}
  THEN Absent
  ELSE LET n == CHOOSE n \in Holders(d, k) :
                  \A m \in Holders(d, k) : d[m].age <= d[n].age
       IN  (CHOOSE e \in Range(d[n].lines) : e.key = k).val

(* Line i of file n is what the store durably holds of k. *)
IsDurableLine(d, k, n, i) ==
  /\ n \in Holders(d, k) /\ \A m \in Holders(d, k) : m <= n
  /\ i \in DOMAIN d[n].lines /\ d[n].lines[i].key = k

GoodDisk(d) ==
  /\ d \in [Slots -> File]
  /\ \A n \in Slots : d[n].lines \in Seq(Written) /\ Sorted(d[n].lines)
  /\ \A m, n \in Slots : d[m] # NoFile /\ d[n] # NoFile /\ m < n => d[m].age < d[n].age

LEMMA DurableNow ==
  ASSUME NEW k
  PROVE  DurableValue(k) = Durably(disk, k) /\ DurableValue(k)' = Durably(disk', k)
<1>1. HoldersOf(k) = Holders(disk, k) /\ HoldersOf(k)' = Holders(disk', k)
  BY DEF HoldersOf, Holders, Range
<1>2. DurableValue(k) = Durably(disk, k)
  BY <1>1 DEF DurableValue, Durably
<1>3. DurableValue(k)' = Durably(disk', k)
  BY <1>1 DEF DurableValue, Durably
<1> QED BY <1>2, <1>3

LEMMA GoodDiskNow == TypeOK /\ LinesInv /\ OrderInv => GoodDisk(disk)
BY DEF TypeOK, LinesInv, OrderInv, AgesFollowNumbers, Exists, GoodDisk

LEMMA GoodDiskNext == TypeOK' /\ LinesInv' /\ OrderInv' => GoodDisk(disk')
BY DEF TypeOK, LinesInv, OrderInv, AgesFollowNumbers, Exists, GoodDisk

LEMMA HolderFacts ==
  ASSUME NEW d, GoodDisk(d), NEW k, NEW n \in Holders(d, k)
  PROVE  n \in Slots /\ n \in Nat /\ d[n] # NoFile /\ d[n].age \in Nat
<1>1. n \in Slots /\ n \in Nat
  BY BoundsFacts DEF Holders, Slots
<1>2. d[n].lines # <<>>
  BY DEF Holders
<1> QED BY <1>1, <1>2 DEF GoodDisk, File, NoFile

LEMMA DurableLineIsUnique ==
  ASSUME NEW d, GoodDisk(d), NEW k, NEW n, NEW i, IsDurableLine(d, k, n, i)
  PROVE  Durably(d, k) = d[n].lines[i].val
<1> DEFINE H == Holders(d, k)
           newest == CHOOSE x \in H : \A m \in H : d[m].age <= d[x].age
           s == d[n].lines
           e == CHOOSE x \in Range(s) : x.key = k
<1>1. n \in H /\ \A m \in H : m <= n
  BY DEF IsDurableLine
<1>2. \A m \in H : m \in Nat /\ d[m].age \in Nat /\ (m # n => d[m].age < d[n].age)
  <2> SUFFICES ASSUME NEW m \in H
               PROVE  m \in Nat /\ d[m].age \in Nat /\ (m # n => d[m].age < d[n].age)
    OBVIOUS
  <2>1. /\ m \in Nat /\ m \in Slots /\ d[m] # NoFile /\ d[m].age \in Nat
        /\ n \in Nat /\ n \in Slots /\ d[n] # NoFile
    BY <1>1, HolderFacts
  <2>2. m # n => m < n
    BY <1>1, <2>1
  <2> QED BY <2>1, <2>2 DEF GoodDisk
<1>3. newest \in H /\ \A m \in H : d[m].age <= d[newest].age
  <2>1. \E x \in H : \A m \in H : d[m].age <= d[x].age
    BY <1>1, <1>2
  <2> HIDE DEF H
  <2> QED BY <2>1
<1>4. newest = n
  <2> HIDE DEF newest, H
  <2> QED BY <1>1, <1>2, <1>3
<1>5. s \in Seq(Written) /\ Sorted(s) /\ i \in DOMAIN s /\ s[i].key = k
  BY <1>1 DEF GoodDisk, IsDurableLine, Holders
<1>6. \A x \in Range(s) : x.key = k => x = s[i]
  <2> HIDE DEF s
  <2> SUFFICES ASSUME NEW j \in DOMAIN s, s[j].key = k PROVE j = i
    BY DEF Range
  <2>1. i \in Nat /\ j \in Nat
    BY <1>5, LenProperties
  <2>2. s[i] \in Written /\ s[j] \in Written
    BY <1>5, LenProperties
  <2>3. s[i].key \in Nat /\ s[j].key = s[i].key
    BY <1>5, <2>2, KeysAreNumbers DEF Written
  <2>4. ~(i < j) /\ ~(j < i)
    BY <1>5, <2>3 DEF Sorted
  <2> QED BY <2>1, <2>4
<1>7. s[i] \in Range(s)
  BY <1>5 DEF Range
<1>8. e = s[i]
  <2> HIDE DEF s
  <2> QED BY <1>5, <1>6, <1>7
<1>9. Durably(d, k) = (CHOOSE x \in Range(d[newest].lines) : x.key = k).val
  BY <1>1 DEF Durably
<1>10. (CHOOSE x \in Range(d[newest].lines) : x.key = k) = e
  <2> HIDE DEF newest
  <2> QED BY <1>4
<1> HIDE DEF newest, e
<1> QED BY <1>8, <1>9, <1>10

LEMMA DurableLineExists ==
  ASSUME NEW d, GoodDisk(d), NEW k, Holders(d, k) # {}
  PROVE  \E n \in Slots : \E i : IsDurableLine(d, k, n, i)
<1> DEFINE H == Holders(d, k)
<1>1. H \subseteq 0..Overflow /\ Overflow \in Nat
  BY BoundsFacts DEF Holders
<1>2. PICK n \in H : \A m \in H : m <= n
  <2> HIDE DEF H
  <2> QED BY <1>1, LargestExists DEF H
<1>3. n \in Slots /\ \E i \in DOMAIN d[n].lines : d[n].lines[i].key = k
  BY DEF Holders
<1> QED BY <1>2, <1>3 DEF IsDurableLine

LEMMA DurablyType ==
  ASSUME NEW d, GoodDisk(d), NEW k \in Keys
  PROVE  Durably(d, k) \in Values \cup {Absent}
<1>1. CASE Holders(d, k) = {}
  BY <1>1 DEF Durably
<1>2. CASE Holders(d, k) # {}
  <2>1. PICK n \in Slots : \E i : IsDurableLine(d, k, n, i)
    BY <1>2, DurableLineExists
  <2>2. PICK i : IsDurableLine(d, k, n, i)
    BY <2>1
  <2>3. i \in DOMAIN d[n].lines /\ d[n].lines \in Seq(Written)
    BY <2>2 DEF IsDurableLine, GoodDisk
  <2>4. d[n].lines[i] \in Written
    BY <2>3, LenProperties
  <2> QED BY <2>2, <2>4, DurableLineIsUnique DEF Written
<1> QED BY <1>1, <1>2

(* A new file with the largest number decides for the keys it holds, and   *)
(* leaves the others as they were.                                         *)
LEMMA CreateDurably ==
  ASSUME NEW d, GoodDisk(d), NEW new, GoodDisk(new), NEW next \in Slots,
         \A n \in Slots \ {next} : new[n] = d[n],
         d[next] = NoFile, \A n \in Slots : d[n] # NoFile => n < next,
         NEW k
  PROVE  /\ \A i \in DOMAIN new[next].lines :
              new[next].lines[i].key = k => Durably(new, k) = new[next].lines[i].val
         /\ (\A i \in DOMAIN new[next].lines : new[next].lines[i].key # k)
              => Durably(new, k) = Durably(d, k)
<1> DEFINE s == new[next].lines
<1>1. \A n \in Holders(d, k) : n \in Slots /\ n \in Nat /\ n < next
  BY HolderFacts
<1>2. next \notin Holders(d, k) /\ next \in Nat
  BY <1>1, BoundsFacts DEF Slots
<1>3. \A n \in Holders(new, k) : n = next \/ n \in Holders(d, k)
  BY DEF Holders
<1>4. \A n \in Holders(d, k) : n \in Holders(new, k)
  BY <1>1, <1>2 DEF Holders
<1>5. ASSUME NEW i \in DOMAIN s, s[i].key = k
      PROVE  Durably(new, k) = s[i].val
  <2>1. next \in Holders(new, k)
    BY <1>5 DEF Holders
  <2>2. \A m \in Holders(new, k) : m <= next
    BY <1>1, <1>2, <1>3
  <2>3. IsDurableLine(new, k, next, i)
    BY <1>5, <2>1, <2>2 DEF IsDurableLine
  <2> QED BY <2>3, DurableLineIsUnique
<1>6. ASSUME \A i \in DOMAIN s : s[i].key # k
      PROVE  Durably(new, k) = Durably(d, k)
  <2>1. next \notin Holders(new, k)
    BY <1>6 DEF Holders
  <2>2. Holders(new, k) = Holders(d, k)
    BY <1>3, <1>4, <2>1
  <2>3. CASE Holders(d, k) = {}
    BY <2>2, <2>3 DEF Durably
  <2>4. CASE Holders(d, k) # {}
    <3>1. PICK n \in Slots : \E i : IsDurableLine(d, k, n, i)
      BY <2>4, DurableLineExists
    <3>2. PICK i : IsDurableLine(d, k, n, i)
      BY <3>1
    <3>3. new[n] = d[n]
      BY <1>2, <3>2 DEF IsDurableLine
    <3>4. IsDurableLine(new, k, n, i)
      BY <2>2, <3>2, <3>3 DEF IsDurableLine
    <3>5. Durably(new, k) = new[n].lines[i].val /\ Durably(d, k) = d[n].lines[i].val
      BY <3>2, <3>4, DurableLineIsUnique
    <3> QED BY <3>3, <3>5
  <2> QED BY <2>3, <2>4
<1> QED BY <1>5, <1>6
-----------------------------------------------------------------------------
(* What the buffer says of a key *)

HitsIn(b, k) == {i \in DOMAIN b : b[i].key = k}

Latest(b, d, k) ==
  IF HitsIn(b, k) = {}
  THEN Durably(d, k)
  ELSE b[CHOOSE i \in HitsIn(b, k) : \A j \in HitsIn(b, k) : i >= j].val

LEMMA LatestNow ==
  ASSUME NEW k
  PROVE  LastWrite(k) = Latest(buffer, disk, k) /\ LastWrite(k)' = Latest(buffer', disk', k)
<1>1. BufferHits(k) = HitsIn(buffer, k) /\ BufferHits(k)' = HitsIn(buffer', k)
  BY DEF BufferHits, HitsIn
<1>2. LastWrite(k) = Latest(buffer, disk, k)
  BY <1>1, DurableNow DEF LastWrite, Latest
<1>3. LastWrite(k)' = Latest(buffer', disk', k)
  BY <1>1, DurableNow DEF LastWrite, Latest
<1> QED BY <1>2, <1>3

IsLastHit(b, k, i) == i \in HitsIn(b, k) /\ \A j \in HitsIn(b, k) : j <= i

LEMMA LastHitIsUnique ==
  ASSUME NEW b \in Seq(Entry), NEW d, NEW k, NEW i, IsLastHit(b, k, i)
  PROVE  Latest(b, d, k) = b[i].val
<1> DEFINE H == HitsIn(b, k)
           last == CHOOSE x \in H : \A j \in H : x >= j
<1>1. i \in H /\ \A j \in H : j <= i
  BY DEF IsLastHit
<1>2. \A j \in H : j \in Nat
  BY LenProperties DEF HitsIn
<1>3. last = i
  <2>1. \A j \in H : i >= j
    BY <1>1, <1>2
  <2>2. \A x \in H : (\A j \in H : x >= j) => x = i
    BY <1>1, <1>2
  <2> HIDE DEF H
  <2> QED BY <1>1, <2>1, <2>2
<1>4. Latest(b, d, k) = b[last].val
  BY <1>1 DEF Latest
<1> HIDE DEF last
<1> QED BY <1>3, <1>4

LEMMA LastHitExists ==
  ASSUME NEW b \in Seq(Entry), NEW k, HitsIn(b, k) # {}
  PROVE  \E i \in DOMAIN b : IsLastHit(b, k, i)
<1>1. Len(b) \in Nat /\ HitsIn(b, k) \subseteq 0..Len(b)
  BY LenProperties DEF HitsIn
<1>2. PICK i \in HitsIn(b, k) : \A j \in HitsIn(b, k) : j <= i
  BY <1>1, LargestExists
<1> QED BY <1>2 DEF IsLastHit, HitsIn

LEMMA EmptyLatest ==
  ASSUME NEW d, NEW k
  PROVE  Latest(<<>>, d, k) = Durably(d, k)
BY DEF Latest, HitsIn

LEMMA LatestType ==
  ASSUME NEW d, GoodDisk(d), NEW b \in Seq(Written), NEW k \in Keys
  PROVE  Latest(b, d, k) \in Values \cup {Absent}
<1>1. b \in Seq(Entry) /\ \A i \in DOMAIN b : b[i] \in Written
  BY LenProperties, WrittenFacts
<1>2. CASE HitsIn(b, k) = {}
  BY <1>2, DurablyType DEF Latest
<1>3. CASE HitsIn(b, k) # {}
  <2>1. PICK i \in DOMAIN b : IsLastHit(b, k, i)
    BY <1>1, <1>3, LastHitExists
  <2>2. Latest(b, d, k) = b[i].val
    BY <1>1, <2>1, LastHitIsUnique
  <2> QED BY <1>1, <2>2 DEF Written
<1> QED BY <1>2, <1>3

(* A write to the buffer is the latest of its key and of no other. *)
LEMMA AppendLatest ==
  ASSUME NEW b \in Seq(Written), NEW e \in Written, NEW d, NEW k
  PROVE  Latest(Append(b, e), d, k) = IF k = e.key THEN e.val ELSE Latest(b, d, k)
<1> DEFINE a == Append(b, e)
           n == Len(b) + 1
<1>1. b \in Seq(Entry) /\ e \in Entry
  BY LenProperties, WrittenFacts
<1>2. /\ a \in Seq(Entry)
      /\ Len(b) \in Nat /\ DOMAIN b = 1..Len(b) /\ DOMAIN a = 1..n
      /\ \A i \in DOMAIN b : a[i] = b[i]
      /\ a[n] = e
  BY <1>1, LenProperties, AppendProperties
<1> HIDE DEF a
<1>3. CASE k = e.key
  <2>1. IsLastHit(a, k, n)
    BY <1>2, <1>3 DEF IsLastHit, HitsIn
  <2>2. Latest(a, d, k) = a[n].val
    BY <1>2, <2>1, LastHitIsUnique
  <2> QED BY <1>2, <1>3, <2>2 DEF a
<1>4. CASE k # e.key
  <2>1. HitsIn(a, k) = HitsIn(b, k)
    BY <1>2, <1>4 DEF HitsIn
  <2>2. CASE HitsIn(b, k) = {}
    <3>1. Latest(a, d, k) = Durably(d, k) /\ Latest(b, d, k) = Durably(d, k)
      BY <2>1, <2>2 DEF Latest
    <3> QED BY <1>4, <3>1 DEF a
  <2>3. CASE HitsIn(b, k) # {}
    <3>1. PICK i \in DOMAIN b : IsLastHit(b, k, i)
      BY <1>1, <2>3, LastHitExists
    <3>2. IsLastHit(a, k, i)
      BY <2>1, <3>1 DEF IsLastHit
    <3>3. Latest(a, d, k) = a[i].val /\ Latest(b, d, k) = b[i].val
      BY <1>1, <1>2, <3>1, <3>2, LastHitIsUnique
    <3> QED BY <1>2, <1>4, <3>3 DEF a
  <2> QED BY <2>2, <2>3
<1> QED BY <1>3, <1>4

(* A table has the latest write to every key of the buffer, and no other   *)
(* key.                                                                    *)
LEMMA TableLatest ==
  ASSUME NEW b \in Seq(Written), NEW t \in Tables(b), NEW d, NEW k
  PROVE  /\ \A i \in DOMAIN t : t[i].key = k => t[i].val = Latest(b, d, k)
         /\ (\A i \in DOMAIN t : t[i].key # k) => Latest(b, d, k) = Durably(d, k)
<1>1. b \in Seq(Entry) /\ DOMAIN b = 1..Len(b) /\ Len(b) \in Nat
  BY LenProperties, WrittenFacts
<1>2. Range(t) = LastEntries(b)
  BY WrittenTable
<1>3. ASSUME NEW i \in DOMAIN t, t[i].key = k
      PROVE  t[i].val = Latest(b, d, k)
  <2>1. t[i] \in LastEntries(b)
    BY <1>2 DEF Range
  <2>2. PICK j \in DOMAIN b : t[i] = b[j] /\ \A l \in DOMAIN b : l > j => b[l].key # b[j].key
    BY <2>1 DEF LastEntries
  <2>3. IsLastHit(b, k, j)
    BY <1>1, <1>3, <2>2 DEF IsLastHit, HitsIn
  <2> QED BY <1>1, <2>2, <2>3, LastHitIsUnique
<1>4. ASSUME \A i \in DOMAIN t : t[i].key # k
      PROVE  Latest(b, d, k) = Durably(d, k)
  <2>1. ASSUME HitsIn(b, k) # {} PROVE FALSE
    <3>1. PICK j \in DOMAIN b : IsLastHit(b, k, j)
      BY <1>1, <2>1, LastHitExists
    <3>2. b[j].key = k /\ \A l \in DOMAIN b : l > j => b[l].key # b[j].key
      BY <1>1, <3>1 DEF IsLastHit, HitsIn
    <3>3. b[j] \in Range(t)
      BY <1>2, <3>2 DEF LastEntries
    <3> QED BY <1>4, <3>2, <3>3 DEF Range
  <2> QED BY <2>1 DEF Latest
<1> QED BY <1>3, <1>4
-----------------------------------------------------------------------------
(* Get *)

(* A file with no whole line answers "" by the line torn in it. *)
TornOnly(k, n) == k = EmptyKey /\ disk[n].torn /\ disk[n].lines = <<>>

(* Get finds k in every file that holds it, and in no other but those.     *)
LEMMA FileSearch ==
  ASSUME TypeOK, OrderInv, LinesInv, NEW k \in Keys, NEW i \in DOMAIN files
  PROVE  LET n == files[i].num
             x == FindEntryValue(k, Contents(i))
         IN  /\ n \in Slots
             /\ n \in Holders(disk, k) => /\ i \in FileHits(k)
                                          /\ x \in DOMAIN disk[n].lines
                                          /\ disk[n].lines[x].key = k
                                          /\ Contents(i)[x] = disk[n].lines[x]
             /\ i \in FileHits(k) => n \in Holders(disk, k) \/ TornOnly(k, n)
<1> DEFINE n == files[i].num
           s == disk[n].lines
           e == Parsed(disk[n])
           x == FindEntryValue(k, e)
<1>1. n \in Slots
  BY ContentsType DEF Handle
<1>2. Contents(i) = e
  BY DEF Contents, LoadEntries, OrderInv, FilesInv, CacheIsCurrent
<1>3. /\ Searchable(e, Len(s)) /\ DOMAIN s = 1..Len(s)
      /\ \A j \in 1..Len(s) : e[j] = s[j]
  <2>1. disk[n] \in File /\ s \in Seq(Written) /\ Sorted(s)
    BY <1>1 DEF TypeOK, LinesInv
  <2> QED BY <2>1, FileIsSearchable
<1>4. /\ x # 0 => \/ x \in 1..Len(s) /\ e[x].key = k
                  \/ Len(s) = 0 /\ Len(e) = 1 /\ k = EmptyKey
      /\ \A j \in 1..Len(s) : e[j].key = k => x = j
  BY <1>3, SearchFinds
<1>5. n \in Holders(disk, k) <=> \E j \in DOMAIN s : s[j].key = k
  BY <1>1 DEF Holders
<1>6. ASSUME x # 0 PROVE n \in Holders(disk, k) \/ TornOnly(k, n)
  <2>1. CASE x \in 1..Len(s) /\ e[x].key = k
    BY <1>3, <1>5, <2>1
  <2>2. CASE Len(s) = 0 /\ Len(e) = 1 /\ k = EmptyKey
    <3>1. disk[n] \in File /\ s \in Seq(Written)
      BY <1>1 DEF TypeOK, LinesInv
    <3>2. s = <<>>
      BY <2>2, <3>1, EmptySeq
    <3>3. disk[n].torn \in BOOLEAN /\ (~disk[n].torn => e = s)
      BY <3>1 DEF Parsed, File
    <3> QED BY <2>2, <3>2, <3>3 DEF TornOnly
  <2> QED BY <1>4, <1>6, <2>1, <2>2
<1>7. ASSUME n \in Holders(disk, k)
      PROVE  /\ x # 0 /\ Test(files[i].filter, k)
             /\ x \in DOMAIN s /\ s[x].key = k /\ e[x] = s[x]
  <2>1. PICK j \in DOMAIN s : s[j].key = k
    BY <1>5, <1>7
  <2>2. j \in 1..Len(s) /\ Len(s) \in Nat /\ e[j].key = k
    BY <1>3, <2>1 DEF Searchable
  <2>3. x # 0 /\ x = j
    BY <1>4, <2>2
  <2>4. j \in DOMAIN e
    <3>1. e \in Seq(Entry) /\ Len(s) <= Len(e)
      BY <1>3, SearchableFacts DEF Searchable
    <3> HIDE DEF e, s
    <3>2. DOMAIN e = 1..Len(e) /\ Len(e) \in Nat
      BY <3>1, LenProperties
    <3> QED BY <2>2, <3>1, <3>2
  <2>5. e[j] \in Range(LoadEntries(n))
    <3>1. LoadEntries(n) = e
      BY DEF LoadEntries
    <3> HIDE DEF e
    <3> QED BY <2>4, <3>1 DEF Range
  <2>6. Test(files[i].filter, e[j].key)
    BY <2>5 DEF OrderInv, FilesInv, FilterComplete
  <2> QED BY <1>3, <2>1, <2>2, <2>3, <2>6
<1>8. i \in FileHits(k) <=> Test(files[i].filter, k) /\ x # 0
  BY <1>2 DEF FileHits
<1> HIDE DEF n, s, e, x
<1>9. FindEntryValue(k, Contents(i)) = x
  BY <1>2 DEF x
<1> QED BY <1>1, <1>2, <1>6, <1>7, <1>8, <1>9 DEF n, s

(* The scan of the handles stops at the file written last among those that *)
(* hold k, unless a younger one hides it.                                  *)
LEMMA FilesAnswerDurably ==
  ASSUME TypeOK, OrderInv, LinesInv, up, NEW k \in Keys, ~Hidden(k)
  PROVE  SearchFiles(k) = Durably(disk, k)
<1>1. \A n \in Holders(disk, k) : \E i \in DOMAIN files : files[i].num = n
  <2>1. {files[i].num : i \in DOMAIN files} = {n \in Slots : disk[n] # NoFile}
    BY DEF OrderInv, AllSstFilesLoaded
  <2>2. \A n \in Holders(disk, k) : n \in Slots /\ disk[n] # NoFile
    BY GoodDiskNow, HolderFacts
  <2>3. \A n \in Holders(disk, k) : n \in {files[i].num : i \in DOMAIN files}
    BY <2>1, <2>2
  <2> QED BY <2>3
<1>2. CASE FileHits(k) = {}
  <2>1. Holders(disk, k) = {}
    BY <1>1, <1>2, FileSearch
  <2> QED BY <1>2, <2>1 DEF SearchFiles, Durably
<1>3. CASE FileHits(k) # {}
  <2> DEFINE i == NewestHit(k)
             n == files[i].num
             x == FindEntryValue(k, Contents(i))
  <2>1. \A j \in FileHits(k) : j \in DOMAIN files /\ j \in Nat
    BY LenProperties DEF FileHits, TypeOK
  <2>2. i \in FileHits(k) /\ \A j \in FileHits(k) : i >= j
    <3>1. FileHits(k) \subseteq 0..Len(files) /\ Len(files) \in Nat
      BY LenProperties DEF FileHits, TypeOK
    <3>2. PICK y \in FileHits(k) : \A j \in FileHits(k) : j <= y
      BY <1>3, <3>1, LargestExists
    <3>3. \A j \in FileHits(k) : y >= j
      BY <2>1, <3>2
    <3> QED BY <3>3 DEF NewestHit
  <2> HIDE DEF i
  <2>3. n \in Slots /\ n \in Nat /\ (n \in Holders(disk, k) \/ TornOnly(k, n))
    <3>1. n \in Slots /\ (n \in Holders(disk, k) \/ TornOnly(k, n))
      BY <2>1, <2>2, FileSearch
    <3> QED BY <3>1, BoundsFacts DEF Slots
  <2>4. ASSUME NEW m \in Holders(disk, k) PROVE m <= n
    <3>1. PICK j \in DOMAIN files : files[j].num = m
      BY <1>1
    <3>2. j \in FileHits(k)
      BY <3>1, FileSearch
    <3>3. j \in Nat /\ i \in Nat /\ i \in DOMAIN files /\ (j = i \/ j < i)
      BY <2>1, <2>2, <3>2
    <3>4. m \in Nat /\ n \in Nat
      BY <2>3, GoodDiskNow, HolderFacts
    <3> QED BY <3>1, <3>3, <3>4 DEF OrderInv, HandlesAscend
  <2>5. ASSUME TornOnly(k, n) PROVE FALSE
    <3>1. Exists(n)
      BY <2>1, <2>2 DEF OrderInv, FilesInv, HandlesExist, Exists
    <3>2. ASSUME NEW m \in Holders(disk, k) PROVE disk[m].age < disk[n].age
      <4>1. m \in Slots /\ m \in Nat /\ Exists(m)
        BY GoodDiskNow, HolderFacts DEF Exists
      <4>2. m # n
        BY <2>5 DEF TornOnly, Holders
      <4>3. m < n
        BY <2>3, <2>4, <4>1, <4>2
      <4> QED BY <2>3, <3>1, <4>1, <4>3 DEF OrderInv, AgesFollowNumbers
    <3>3. HoldersOf(k) = Holders(disk, k)
      BY DEF HoldersOf, Holders, Range
    <3> QED BY <2>3, <2>5, <3>2, <3>3 DEF TornOnly, Hidden
  <2>6. /\ n \in Slots /\ n \in Holders(disk, k)
        /\ x \in DOMAIN disk[n].lines /\ disk[n].lines[x].key = k
        /\ Contents(i)[x] = disk[n].lines[x]
    <3>1. n \in Holders(disk, k)
      BY <2>3, <2>5
    <3> QED BY <2>1, <2>2, <2>3, <3>1, FileSearch
  <2>7. IsDurableLine(disk, k, n, x)
    BY <2>6, <2>4 DEF IsDurableLine
  <2>8. Durably(disk, k) = disk[n].lines[x].val
    BY <2>7, GoodDiskNow, DurableLineIsUnique
  <2>9. SearchFiles(k) = Contents(i)[x].val
    BY <1>3 DEF SearchFiles, i
  <2> QED BY <2>6, <2>8, <2>9
<1> QED BY <1>2, <1>3

(* While file numbers fit their digits and the files are listed where they *)
(* are created, Get (sst.go:257-300) answers the latest write of every key *)
(* that was not written twice since the last flush, whatever flushes,      *)
(* reads, resets, deaths in the middle of them and restarts came before;   *)
(* of "" only while no flush that died in its first line hides it.         *)
THEOREM FreshReads == NamesFit => (Spec => []FreshIfBufferedOnce)
<1>1. TypeOK /\ BufferInv /\ LinesInv /\ OrderInv => FreshIfBufferedOnce
  <2> SUFFICES ASSUME TypeOK, BufferInv, LinesInv, OrderInv, up, NEW k \in Keys,
                      \/ Cardinality(BufferHits(k)) = 1
                      \/ BufferHits(k) = {} /\ ~Hidden(k)
               PROVE  Lookup(k) = LastWrite(k)
    BY DEF FreshIfBufferedOnce
  <2>1. CASE BufferHits(k) = {} /\ ~Hidden(k)
    <3>1. Lookup(k) = SearchFiles(k)
      BY <2>1 DEF Lookup, InBuffer
    <3>2. LastWrite(k) = Durably(disk, k)
      BY <2>1, DurableNow DEF LastWrite
    <3> QED BY <2>1, <3>1, <3>2, FilesAnswerDurably
  <2>2. CASE Cardinality(BufferHits(k)) = 1
    <3>1. Len(buffer) \in Nat /\ DOMAIN buffer = 1..Len(buffer)
      BY LenProperties DEF TypeOK
    <3>2. IsFiniteSet(BufferHits(k))
      <4>1. BufferHits(k) \subseteq 1..Len(buffer)
        BY <3>1 DEF BufferHits
      <4>2. IsFiniteSet(1..Len(buffer))
        BY <3>1, FS_Interval
      <4> HIDE DEF BufferHits
      <4> QED BY <4>1, <4>2, FS_Subset
    <3>4. PICK i : BufferHits(k) = {i}
      BY <2>2, <3>2, FS_Singleton
    <3>5. i \in DOMAIN buffer /\ buffer[i].key = k /\ i \in Nat
      BY <3>1, <3>4 DEF BufferHits
    <3>6. InBuffer(k)
      BY <3>4, <3>5 DEF InBuffer, BufferInv
    <3>7. FirstHit(k) = i
      BY <3>4, <3>5 DEF FirstHit
    <3>8. LastWrite(k) = buffer[i].val
      <4>1. buffer \in Seq(Entry) /\ IsLastHit(buffer, k, i)
        BY <3>4, <3>5 DEF IsLastHit, HitsIn, BufferHits, TypeOK
      <4> QED BY <4>1, LastHitIsUnique, LatestNow
    <3> QED BY <3>6, <3>7, <3>8 DEF Lookup
  <2> QED BY <2>1, <2>2
<1> QED BY <1>1, OrderInvHolds, TablesInvHolds, Typing, PTL
-----------------------------------------------------------------------------
(* The refinement mapping *)

MemOf(b, d) == [k \in Keys |-> Latest(b, d, k)]
DurOf(d) == [k \in Keys |-> Durably(d, k)]
MixOf(m, d, K) == [k \in Keys |-> IF k \in K THEN m[k] ELSE d[k]]

LEMMA MapsNow ==
  /\ [k \in Keys |-> LastWrite(k)] = MemOf(buffer, disk)
  /\ [k \in Keys |-> DurableValue(k)] = DurOf(disk)
  /\ [k \in Keys |-> LastWrite(k)]' = MemOf(buffer', disk')
  /\ [k \in Keys |-> DurableValue(k)]' = DurOf(disk')
<1>1. \A k \in Keys : LastWrite(k) = Latest(buffer, disk, k)
  BY LatestNow
<1>2. \A k \in Keys : LastWrite(k)' = Latest(buffer', disk', k)
  BY LatestNow
<1>3. \A k \in Keys : DurableValue(k) = Durably(disk, k)
  BY DurableNow
<1>4. \A k \in Keys : DurableValue(k)' = Durably(disk', k)
  BY DurableNow
<1> QED BY <1>1, <1>2, <1>3, <1>4 DEF MemOf, DurOf

MapInv == TypeOK /\ OrderInv /\ BufferInv /\ LinesInv

LEMMA NextKeepsMapInv ==
  ASSUME NamesFit, MapInv, [Next]_vars
  PROVE  MapInv'
BY NextType, NextKeepsOrder, NextKeepsTables DEF MapInv

LEMMA GoodDisks ==
  ASSUME MapInv, MapInv'
  PROVE  GoodDisk(disk) /\ GoodDisk(disk')
BY GoodDiskNow, GoodDiskNext DEF MapInv

(* What an operation does to the disk when it creates a file. *)
LEMMA CreateAdds ==
  ASSUME NamesFit, MapInv, NEW lines, NEW torn, CreateSstFile(NextSstFilename, lines, torn)
  PROVE  /\ NextSstFilename \in Slots
         /\ disk'[NextSstFilename].lines = lines
         /\ disk[NextSstFilename] = NoFile
         /\ \A n \in Slots \ {NextSstFilename} : disk'[n] = disk[n]
         /\ \A n \in Slots : disk[n] # NoFile => n < NextSstFilename
<1>1. NextSstFilename \in Slots
  BY NextNameType
<1>2. /\ disk'[NextSstFilename].lines = lines
      /\ \A n \in Slots \ {NextSstFilename} : disk'[n] = disk[n]
  BY <1>1 DEF CreateSstFile, MapInv, TypeOK
<1>3. disk[NextSstFilename] = NoFile
  BY NextNameIsFresh DEF MapInv, OrderInv, FilesInv, CreateSstFile
<1>4. \A n \in Slots : disk[n] # NoFile => n < NextSstFilename
  BY NextNameIsLargest DEF MapInv, OrderInv, FilesInv, Exists
<1> QED BY <1>1, <1>2, <1>3, <1>4

(* A flush makes everything durable that was written. *)
LEMMA FlushSyncs ==
  ASSUME NamesFit, MapInv, MapInv', NEW b \in Seq(Written), FlushBuffer(b)
  PROVE  DurOf(disk') = MemOf(b, disk) /\ MemOf(buffer', disk') = MemOf(b, disk)
<1> DEFINE next == NextSstFilename
<1>1. PICK t \in Tables(b) : CreateSstFile(next, t, FALSE) /\ buffer' = <<>>
  BY DEF FlushBuffer
<1>2. /\ next \in Slots /\ disk'[next].lines = t /\ disk[next] = NoFile
      /\ \A n \in Slots \ {next} : disk'[n] = disk[n]
      /\ \A n \in Slots : disk[n] # NoFile => n < next
  BY <1>1, CreateAdds
<1> HIDE DEF next
<1>3. ASSUME NEW k \in Keys PROVE Durably(disk', k) = Latest(b, disk, k)
  <2>1. CASE \E i \in DOMAIN t : t[i].key = k
    <3>1. PICK i \in DOMAIN t : t[i].key = k
      BY <2>1
    <3>2. Durably(disk', k) = t[i].val
      BY <1>2, <3>1, GoodDisks, CreateDurably
    <3> QED BY <3>1, <3>2, TableLatest
  <2>2. CASE \A i \in DOMAIN t : t[i].key # k
    <3>1. Durably(disk', k) = Durably(disk, k)
      BY <1>2, <2>2, GoodDisks, CreateDurably
    <3> QED BY <2>2, <3>1, TableLatest
  <2> QED BY <2>1, <2>2
<1>4. DurOf(disk') = MemOf(b, disk)
  BY <1>3 DEF DurOf, MemOf
<1>5. MemOf(buffer', disk') = DurOf(disk')
  BY <1>1, EmptyLatest DEF DurOf, MemOf
<1> QED BY <1>4, <1>5

(* A death in the middle of a flush makes some keys durable. *)
LEMMA TearMixes ==
  ASSUME NamesFit, MapInv, MapInv', NEW b \in Seq(Written), TearFlush(b)
  PROVE  \E K \in SUBSET Keys : DurOf(disk') = MixOf(MemOf(b, disk), DurOf(disk), K)
<1> DEFINE next == NextSstFilename
<1>1. PICK t \in Tables(b) : \E w \in 0..Len(t) : \E torn \in BOOLEAN :
        CreateSstFile(next, SubSeq(t, 1, w), torn)
  BY DEF TearFlush
<1>2. PICK w \in 0..Len(t), torn \in BOOLEAN : CreateSstFile(next, SubSeq(t, 1, w), torn)
  BY <1>1
<1> DEFINE s == SubSeq(t, 1, w)
           K == {k \in Keys : \E i \in DOMAIN s : s[i].key = k}
<1>3. DOMAIN s = 1..w /\ \A i \in 1..w : i \in DOMAIN t /\ s[i] = t[i]
  BY WrittenTable, WrittenPrefix
<1> HIDE DEF s
<1>4. /\ next \in Slots /\ disk'[next].lines = s /\ disk[next] = NoFile
      /\ \A n \in Slots \ {next} : disk'[n] = disk[n]
      /\ \A n \in Slots : disk[n] # NoFile => n < next
  BY <1>2, CreateAdds DEF s
<1> HIDE DEF next
<1>5. ASSUME NEW k \in Keys
      PROVE  Durably(disk', k) = IF k \in K THEN Latest(b, disk, k) ELSE Durably(disk, k)
  <2>1. CASE k \in K
    <3>1. PICK i \in DOMAIN s : s[i].key = k
      BY <2>1
    <3>2. Durably(disk', k) = s[i].val
      BY <1>4, <3>1, GoodDisks, CreateDurably
    <3>3. i \in DOMAIN t /\ s[i] = t[i]
      BY <1>3
    <3>4. t[i].val = Latest(b, disk, k)
      BY <3>1, <3>3, TableLatest
    <3> QED BY <2>1, <3>2, <3>3, <3>4
  <2>2. CASE k \notin K
    <3>1. \A i \in DOMAIN s : s[i].key # k
      BY <2>2
    <3>2. Durably(disk', k) = Durably(disk, k)
      BY <1>4, <3>1, GoodDisks, CreateDurably
    <3> QED BY <2>2, <3>2
  <2> QED BY <2>1, <2>2
<1>6. K \in SUBSET Keys
  OBVIOUS
<1> HIDE DEF K
<1>7. DurOf(disk') = MixOf(MemOf(b, disk), DurOf(disk), K)
  BY <1>5 DEF DurOf, MemOf, MixOf
<1> QED BY <1>6, <1>7

(* A reset leaves no durable value. *)
LEMMA ResetErases ==
  ASSUME NamesFit, MapInv, MapInv', disk' = Erased(Listed), NEW k
  PROVE  Durably(disk', k) = Absent
<1>1. \A n \in Slots : disk'[n] = NoFile
  BY DEF Erased, Listed, NamesFit
<1>2. Holders(disk', k) = {}
  BY <1>1, GoodDisks, HolderFacts
<1> QED BY <1>2 DEF Durably

(* Files are removed oldest first: the value of a key stays, or no file    *)
(* holds the key any more.                                                 *)
LEMMA PartialResetErases ==
  ASSUME NamesFit, MapInv, MapInv', NEW names \in SstFilenames, NEW removed \in 0..Len(names),
         disk' = Erased({names[i] : i \in 1..removed}), NEW k
  PROVE  Durably(disk', k) \in {Durably(disk, k), Absent}
<1> DEFINE gone == {names[i] : i \in 1..removed}
<1>1. \A n \in Slots : disk'[n] = IF n \in gone THEN NoFile ELSE disk[n]
  BY DEF Erased
<1>2. CASE Holders(disk', k) = {}
  BY <1>2 DEF Durably
<1>3. CASE Holders(disk', k) # {}
  <2>1. PICK n \in Slots : \E i : IsDurableLine(disk', k, n, i)
    BY <1>3, GoodDisks, DurableLineExists
  <2>2. PICK h : IsDurableLine(disk', k, n, h)
    BY <2>1
  <2>3. n \in Holders(disk', k) /\ n \in Nat /\ disk'[n] # NoFile
    BY <2>2, GoodDisks, HolderFacts DEF IsDurableLine
  <2>4. n \notin gone /\ disk'[n] = disk[n]
    <3> HIDE DEF gone
    <3> QED BY <1>1, <2>3
  <2>5. n \in Holders(disk, k)
    BY <2>3, <2>4 DEF Holders
  <2>6. ASSUME NEW m \in Holders(disk, k), n < m PROVE FALSE
    <3>1. m \in Slots /\ m \in Nat /\ disk[m] # NoFile
      BY GoodDisks, HolderFacts
    <3>2. m \notin Holders(disk', k)
      BY <2>2, <2>3, <2>6, <3>1 DEF IsDurableLine
    <3>3. m \in gone
      <4> HIDE DEF gone
      <4>1. disk'[m] # disk[m]
        BY <3>1, <3>2 DEF Holders
      <4> QED BY <1>1, <3>1, <4>1
    <3>4. PICK x \in 1..removed : names[x] = m
      BY <3>3
    <3>5. /\ \A i, j \in DOMAIN names : i < j => names[i] < names[j]
          /\ {names[i] : i \in DOMAIN names} = Listed
      BY FilenamesComplete DEF MapInv, OrderInv, FilesInv
    <3>6. n \in Listed
      BY <2>1, <2>3, <2>4 DEF Listed, NamesFit
    <3>7. PICK y \in DOMAIN names : names[y] = n
      BY <3>5, <3>6
    <3>8. Len(names) \in Nat /\ DOMAIN names = 1..Len(names)
      BY FilenamesType, LenProperties
    <3>9. x \in Nat /\ y \in Nat /\ x \in DOMAIN names /\ x <= removed /\ removed \in Nat
      BY <3>4, <3>7, <3>8
    <3>10. ~(x < y) /\ x # y
      BY <2>3, <2>6, <3>1, <3>4, <3>5, <3>7, <3>9
    <3>11. y \in 1..removed
      BY <3>7, <3>8, <3>9, <3>10
    <3>12. n \in gone
      BY <3>7, <3>11
    <3> QED BY <2>4, <3>12
  <2>7. \A m \in Holders(disk, k) : m <= n
    BY <2>3, <2>6, GoodDisks, HolderFacts
  <2>8. IsDurableLine(disk, k, n, h)
    BY <2>2, <2>4, <2>5, <2>7 DEF IsDurableLine
  <2>9. Durably(disk', k) = disk'[n].lines[h].val /\ Durably(disk, k) = disk[n].lines[h].val
    BY <2>2, <2>8, GoodDisks, DurableLineIsUnique
  <2> QED BY <2>4, <2>9
<1> QED BY <1>2, <1>3

(* A write, as the map sees it. *)
LEMMA AppendMem ==
  ASSUME NEW b \in Seq(Written), NEW k \in Keys, NEW v \in Values \cup {Absent}, NEW d
  PROVE  MemOf(Append(b, [key |-> k, val |-> v]), d) = [MemOf(b, d) EXCEPT ![k] = v]
<1> DEFINE e == [key |-> k, val |-> v]
<1>1. e \in Written /\ e.key = k /\ e.val = v
  BY WrittenFacts
<1> HIDE DEF e
<1>2. \A x \in Keys : Latest(Append(b, e), d, x) = IF x = k THEN v ELSE Latest(b, d, x)
  BY <1>1, AppendLatest
<1>3. MemOf(Append(b, e), d) = [MemOf(b, d) EXCEPT ![k] = v]
  BY <1>2 DEF MemOf
<1> QED BY <1>3 DEF e

LEMMA DeathForgets ==
  ASSUME buffer' = <<>>
  PROVE  MemOf(buffer', disk') = DurOf(disk')
BY EmptyLatest DEF MemOf, DurOf

LEMMA MixIsALoss ==
  ASSUME NEW m, NEW K \in SUBSET Keys, buffer' = <<>>,
         DurOf(disk') = MixOf(m, DurOf(disk), K)
  PROVE  Durable!LoseUnsynced(m)
<1> DEFINE dur == [k \in Keys |-> DurableValue(k)]
           mem == [k \in Keys |-> LastWrite(k)]
<1>1. dur' = DurOf(disk') /\ dur = DurOf(disk) /\ mem' = dur'
  BY DeathForgets, MapsNow
<1>2. Durable!Mix(m, dur, K) = MixOf(m, dur, K)
  BY DEF Durable!Mix, MixOf
<1>3. dur' = Durable!Mix(m, dur, K) /\ mem' = dur'
  <2> HIDE DEF dur, mem
  <2> QED BY <1>1, <1>2
<1> QED BY <1>3 DEF Durable!LoseUnsynced

LEMMA PutRefines ==
  ASSUME NamesFit, MapInv, MapInv', NEW k \in Keys, NEW v \in Values \cup {Absent}, Put(k, v)
  PROVE  Durable!Put(k, v)
<1> DEFINE b == Append(buffer, [key |-> k, val |-> v])
<1>1. b \in Seq(Written) /\ MemOf(b, disk) = [MemOf(buffer, disk) EXCEPT ![k] = v]
  BY BufferWritten, AppendMem DEF MapInv
<1>2. (buffer' = b /\ UNCHANGED disk) \/ FlushBuffer(b)
  BY DEF Put
<1> HIDE DEF b
<1>3. /\ MemOf(buffer', disk') = [MemOf(buffer, disk) EXCEPT ![k] = v]
      /\ DurOf(disk') \in {DurOf(disk), MemOf(buffer', disk')}
  <2>1. (buffer' = b /\ UNCHANGED disk) => MemOf(buffer', disk') = MemOf(b, disk)
    OBVIOUS
  <2>2. FlushBuffer(b) => /\ MemOf(buffer', disk') = MemOf(b, disk)
                          /\ DurOf(disk') = MemOf(buffer', disk')
    BY <1>1, FlushSyncs
  <2> QED BY <1>1, <1>2, <2>1, <2>2
<1> QED BY <1>3, MapsNow DEF Durable!Put

LEMMA CrashInPutRefines ==
  ASSUME NamesFit, MapInv, MapInv', NEW k \in Keys, NEW v \in Values \cup {Absent},
         CrashInPut(k, v)
  PROVE  Durable!CrashInPut(k, v)
<1> DEFINE b == Append(buffer, [key |-> k, val |-> v])
<1>1. b \in Seq(Written) /\ MemOf(b, disk) = [MemOf(buffer, disk) EXCEPT ![k] = v]
  BY BufferWritten, AppendMem DEF MapInv
<1>2. TearFlush(b) /\ buffer' = <<>>
  BY DEF CrashInPut, Die
<1> HIDE DEF b
<1>3. PICK K \in SUBSET Keys : DurOf(disk') = MixOf(MemOf(b, disk), DurOf(disk), K)
  BY <1>1, <1>2, TearMixes
<1>4. Durable!LoseUnsynced(MemOf(b, disk))
  BY <1>2, <1>3, MixIsALoss
<1>5. Durable!CrashInPut(k, v) = Durable!LoseUnsynced([[x \in Keys |-> LastWrite(x)] EXCEPT ![k] = v])
  BY DEF Durable!CrashInPut
<1> QED BY <1>1, <1>4, <1>5, MapsNow

LEMMA FlushRefines ==
  ASSUME NamesFit, MapInv, MapInv', Flush
  PROVE  Durable!Sync
<1>1. /\ DurOf(disk') = MemOf(buffer, disk)
      /\ MemOf(buffer', disk') = MemOf(buffer, disk)
  BY BufferWritten, FlushSyncs DEF Flush, MapInv
<1> QED BY <1>1, MapsNow DEF Durable!Sync

LEMMA CrashInFlushRefines ==
  ASSUME NamesFit, MapInv, MapInv', CrashInFlush
  PROVE  Durable!Crash
<1>1. TearFlush(buffer) /\ buffer' = <<>>
  BY DEF CrashInFlush, Die
<1>2. PICK K \in SUBSET Keys : DurOf(disk') = MixOf(MemOf(buffer, disk), DurOf(disk), K)
  BY <1>1, TearMixes, BufferWritten DEF MapInv
<1> QED BY <1>1, <1>2, MixIsALoss, MapsNow DEF Durable!Crash

LEMMA CrashRefines ==
  ASSUME MapInv, Crash
  PROVE  Durable!Crash
<1>1. disk' = disk /\ buffer' = <<>>
  BY DEF Crash, Die
<1>2. DurOf(disk') = MixOf(MemOf(buffer, disk), DurOf(disk), {})
  BY <1>1 DEF MixOf, DurOf
<1> QED BY <1>1, <1>2, MixIsALoss, MapsNow DEF Durable!Crash

LEMMA ResetRefines ==
  ASSUME NamesFit, MapInv, MapInv', ResetDB
  PROVE  Durable!Reset
<1> DEFINE K == {k \in Keys : HitsIn(buffer, k) # {}}
<1>1. disk' = Erased(Listed) /\ buffer' = buffer
  BY DEF ResetDB
<1>2. \A k \in Keys : Durably(disk', k) = Absent
  BY <1>1, ResetErases
<1>3. DurOf(disk') = [k \in Keys |-> Absent]
  BY <1>2 DEF DurOf
<1>4. \A k \in Keys : MemOf(buffer, disk)[k] # DurOf(disk)[k] => k \in K
  BY DEF MemOf, DurOf, Latest
<1>5. MemOf(buffer', disk') = MixOf(MemOf(buffer, disk), DurOf(disk'), K)
  <2>1. ASSUME NEW k \in Keys
        PROVE  Latest(buffer', disk', k) =
                 IF k \in K THEN Latest(buffer, disk, k) ELSE Durably(disk', k)
    BY <1>1 DEF Latest
  <2> HIDE DEF K
  <2> QED BY <2>1 DEF MemOf, DurOf, MixOf
<1>6. K \in SUBSET Keys
  OBVIOUS
<1> HIDE DEF K
<1> QED BY <1>3, <1>4, <1>5, <1>6, MapsNow DEF MixOf, Durable!Reset, Durable!Mix

LEMMA CrashInResetRefines ==
  ASSUME NamesFit, MapInv, MapInv', CrashInReset
  PROVE  Durable!CrashInReset
<1> DEFINE K == {k \in Keys : Durably(disk', k) = Durably(disk, k)}
<1>1. PICK names \in SstFilenames : \E removed \in 0..Len(names) :
        disk' = Erased({names[i] : i \in 1..removed})
  BY DEF CrashInReset
<1>2. PICK removed \in 0..Len(names) : disk' = Erased({names[i] : i \in 1..removed})
  BY <1>1
<1>3. \A k \in Keys : Durably(disk', k) \in {Durably(disk, k), Absent}
  BY <1>2, PartialResetErases
<1>4. DurOf(disk') = [k \in Keys |-> IF k \in K THEN DurOf(disk)[k] ELSE Absent]
  BY <1>3 DEF DurOf
<1>5. MemOf(buffer', disk') = DurOf(disk')
  BY DeathForgets DEF CrashInReset, Die
<1>6. K \in SUBSET Keys
  OBVIOUS
<1> HIDE DEF K
<1> QED BY <1>4, <1>5, <1>6, MapsNow DEF Durable!CrashInReset

LEMMA StepRefines ==
  ASSUME NamesFit, MapInv, MapInv', [Next]_vars
  PROVE  [Durable!Next]_Durable!vars
<1>1. ASSUME UNCHANGED <<buffer, disk>> PROVE UNCHANGED Durable!vars
  BY <1>1, MapsNow DEF Durable!vars
<1>2. ASSUME NEW k \in Keys, NEW v \in Values \cup {Absent}, Put(k, v)
      PROVE  Durable!Next
  BY <1>2, PutRefines DEF Durable!Next, Durable!Stored
<1>3. ASSUME NEW k \in Keys, NEW v \in Values \cup {Absent}, CrashInPut(k, v)
      PROVE  Durable!Next
  BY <1>3, CrashInPutRefines DEF Durable!Next, Durable!Stored
<1>4. CASE Flush
  BY <1>4, FlushRefines DEF Durable!Next
<1>5. CASE ResetDB
  BY <1>5, ResetRefines DEF Durable!Next
<1>6. CASE Crash
  BY <1>6, CrashRefines DEF Durable!Next
<1>7. CASE CrashInFlush
  BY <1>7, CrashInFlushRefines DEF Durable!Next
<1>8. CASE CrashInReset
  BY <1>8, CrashInResetRefines DEF Durable!Next
<1>9. CASE Restart
  BY <1>1, <1>9 DEF Restart
<1>10. ASSUME NEW k \in Keys \cup {EmptyKey}, Get(k)
       PROVE  UNCHANGED Durable!vars
  BY <1>1, <1>10 DEF Get
<1>11. CASE UNCHANGED vars
  BY <1>1, <1>11 DEF vars
<1> QED BY <1>2, <1>3, <1>4, <1>5, <1>6, <1>7, <1>8, <1>9, <1>10, <1>11
        DEF Next, Set, Delete

LEMMA InitRefines == Init => Durable!Init
<1> SUFFICES ASSUME Init PROVE Durable!Init
  OBVIOUS
<1>1. \A k : Holders(disk, k) = {}
  BY DEF Init, NoFile, Holders
<1>2. \A k \in Keys : Durably(disk, k) = Absent
  BY <1>1 DEF Durably
<1>3. DurOf(disk) = [k \in Keys |-> Absent]
  BY <1>2 DEF DurOf
<1>4. MemOf(buffer, disk) = DurOf(disk)
  BY EmptyLatest DEF Init, MemOf, DurOf
<1> QED BY <1>3, <1>4, MapsNow DEF Durable!Init

(* While file numbers fit their digits and the files are listed where they *)
(* are created, the store is a durable map: every operation of it, and     *)
(* every death in the middle of one, is a step of DurableMap, with the     *)
(* latest write to a key as what the map holds, and the value in the file  *)
(* written last among those that hold the key as what survives a death     *)
(* (sst.go:52-129, 175-212, 304-310).                                      *)
THEOREM StoreIsDurableMap == NamesFit => (Spec => ImplementsDurableMap)
<1> SUFFICES ASSUME NamesFit PROVE Spec => ImplementsDurableMap
  OBVIOUS
<1>1. MapInv /\ [Next]_vars => MapInv'
  BY NextKeepsMapInv
<1>2. Init => MapInv
  BY InitType, InitOrder, InitTables DEF MapInv
<1>3. MapInv /\ MapInv' /\ [Next]_vars => [Durable!Next]_Durable!vars
  BY StepRefines
<1> QED BY <1>1, <1>2, <1>3, InitRefines, PTL DEF Spec, ImplementsDurableMap, Durable!Spec
=============================================================================
