------------------------------ MODULE SstStore ------------------------------
(***************************************************************************)
(* The sorted-string-table store of sparkv (go/kv-store/lsb/sst.go): a     *)
(* write buffer, flushed when full to a new file of sorted entries, and a  *)
(* list of file handles, each with a bloom filter and a lazily filled      *)
(* cache.  One process uses the store; it may die between two calls or in  *)
(* the middle of one, and a new process then builds the store from disk.   *)
(*                                                                         *)
(* Abstractions.  A key is a natural number in the order of the strings,   *)
(* 0 being "", which clients may use too: Set checks no key.  A tombstone  *)
(* is an entry whose val is Absent.  A file is the lines written to it,    *)
(* and whether a torn line follows them.  A bloom filter is the set of     *)
(* bits set in it, and Hash the bits of each key.                          *)
(***************************************************************************)
EXTENDS Integers, Sequences, FiniteSets, Functions

CONSTANTS
  Keys,             \* the keys clients use
  Values,           \* the values clients store
  Absent,           \* the value of a tombstone, and Get's answer for no value
  ZeroValue,        \* Go's zero Value, of an entry that failed to parse
  Hash,             \* the bloom filter bits of each key
  MaxBufferLength,  \* the capacity of the write buffer
  LastNum,          \* the largest number that fits the name's digits: 9999
  OverflowPrefix,   \* LastNum+1 without its last digit: 1000
  PathIsCwd,        \* whether SstBuf.Path is the working directory
  MaxFlushes        \* bound: how many files are ever created

EmptyKey == 0

ASSUME KeysAssumption == Keys \subseteq Nat
ASSUME ValuesAssumption == Absent \notin Values \cup {ZeroValue}
ASSUME HashAssumption == Hash \in [Keys \cup {EmptyKey} -> SUBSET Nat]
ASSUME BoundsAssumption ==
  /\ MaxBufferLength \in Nat \ {0}
  /\ LastNum \in Nat /\ OverflowPrefix \in 0..(LastNum - 1)
  /\ PathIsCwd \in BOOLEAN
  /\ MaxFlushes \in Nat

VARIABLES
  up,       \* whether a process holds the store
  buffer,   \* Buffer[0 .. BufferSize-1]
  filter,   \* the bits of every key written since the process started
  files,    \* the file handles, oldest first
  disk,     \* the files sorted-string-table-<n>.json of the working directory
  flushes   \* how many files were ever created

vars == <<up, buffer, filter, files, disk, flushes>>

(* The numbers of files; the last one needs a digit more than the others. *)
Overflow == LastNum + 1
Slots == 0..Overflow

Entry == [key : Keys \cup {EmptyKey}, val : Values \cup {Absent, ZeroValue}]
File == [lines : Seq(Entry), torn : BOOLEAN, age : Nat]
Handle == [num : Slots, filter : SUBSET Nat, cache : Seq(Entry)]

(* A missing file: nothing to read in it. *)
NoFile == [lines |-> <<>>, torn |-> FALSE, age |-> 0]

Init ==
  /\ up = TRUE
  /\ buffer = <<>>
  /\ filter = {}
  /\ files = <<>>
  /\ disk = [n \in Slots |-> NoFile]
  /\ flushes = 0
-----------------------------------------------------------------------------
(* Bloom filters *)

(* Mutant: the last entry is left out. *)
FilterWithoutLast(entries) == UNION {Hash[entries[i].key] : i \in 1..(Len(entries) - 1)}

FilterOf(entries) == UNION {Hash[e.key] : e \in Range(entries)}

Test(bits, k) == Hash[k] \subseteq bits

(* Names.  The directory that is listed is Path; the files are opened,     *)
(* created and removed in the working directory.                           *)

Listed == IF PathIsCwd THEN {n \in Slots : disk[n] # NoFile} ELSE {}

(* ReadDir sorts names as strings: "...-10000.json" comes right after      *)
(* "...-1000.json" and before "...-1001.json".                             *)
Before(m, n) ==
  CASE m = n -> FALSE
    [] m = Overflow -> n > OverflowPrefix
    [] n = Overflow -> m <= OverflowPrefix
    [] OTHER -> m < n

(* Mutant: newest first. *)
SstFilenamesReversed ==
  {s \in [1..Cardinality(Listed) -> Listed] :
     \A i, j \in DOMAIN s : i < j => Before(s[j], s[i])}

SstFilenames ==
  {s \in [1..Cardinality(Listed) -> Listed] :
     \A i, j \in DOMAIN s : i < j => Before(s[i], s[j])}

(* Characters 20..24 of a name: the first four digits of its number. *)
FourDigits(n) == IF n = Overflow THEN OverflowPrefix ELSE n

(* Mutant: the latest number itself, not the one after it. *)
LatestSstFilename ==
  IF Listed = {} THEN 0 ELSE CHOOSE n \in Listed : \A m \in Listed \ {n} : Before(m, n)

NextSstFilename ==
  IF Listed = {}
  THEN 0
  ELSE LET latest == CHOOSE n \in Listed : \A m \in Listed \ {n} : Before(m, n)
       IN  FourDigits(latest) + 1

(* Files.  A torn line does not parse and is read as the zero entry. *)

ZeroEntry == [key |-> EmptyKey, val |-> ZeroValue]

Parsed(file) == IF file.torn THEN Append(file.lines, ZeroEntry) ELSE file.lines

LoadEntries(n) == Parsed(disk[n])

(* Mutant: the first entry of each key is kept. *)
FirstEntries(b) ==
  {b[i] : i \in {j \in DOMAIN b : \A l \in DOMAIN b : l < j => b[l].key # b[j].key}}

(* The last entry of each key, sorted by key: the map m and the list keys. *)
LastEntries(b) ==
  {b[i] : i \in {j \in DOMAIN b : \A l \in DOMAIN b : l > j => b[l].key # b[j].key}}

Tables(b) ==
  LET E == LastEntries(b)
  IN  {t \in [1..Cardinality(E) -> E] :
         \A i, j \in DOMAIN t : i < j => t[i].key < t[j].key}
-----------------------------------------------------------------------------
(* Reading *)

(* Mutant: the loop stops with one entry left to look at. *)
FindEntryValueEarlyStop(k, entries) ==
  LET search[span \in (1..(Len(entries) + 1)) \X (0..Len(entries))] ==
        LET left == span[1]
            right == span[2]
            mid == left + ((right - left) \div 2)
        IN  IF left >= right
            THEN 0
            ELSE CASE entries[mid].key = k -> mid
                   [] entries[mid].key > k -> search[<<left, mid - 1>>]
                   [] OTHER -> search[<<mid + 1, right>>]
  IN  search[<<1, Len(entries)>>]

(* The loop of FindEntryValue: the index of an entry for k, or 0. *)
FindEntryValue(k, entries) ==
  LET search[span \in (1..(Len(entries) + 1)) \X (0..Len(entries))] ==
        LET left == span[1]
            right == span[2]
            mid == left + ((right - left) \div 2)
        IN  IF left > right
            THEN 0
            ELSE CASE entries[mid].key = k -> mid
                   [] entries[mid].key > k -> search[<<left, mid - 1>>]
                   [] OTHER -> search[<<mid + 1, right>>]
  IN  search[<<1, Len(entries)>>]

(* findLatestBufferEntryValue: the first entry for k, scanning up from 0. *)
BufferHits(k) == {i \in DOMAIN buffer : buffer[i].key = k}
InBuffer(k) == Test(filter, k) /\ BufferHits(k) # {}
FirstHit(k) == CHOOSE i \in BufferHits(k) : \A j \in BufferHits(k) : i <= j

Contents(i) ==
  IF files[i].cache = <<>> THEN LoadEntries(files[i].num) ELSE files[i].cache

FileHits(k) ==
  {i \in DOMAIN files : Test(files[i].filter, k) /\ FindEntryValue(k, Contents(i)) # 0}

(* Mutant: the files are searched oldest first. *)
OldestHit(k) == CHOOSE i \in FileHits(k) : \A j \in FileHits(k) : i <= j

NewestHit(k) == CHOOSE i \in FileHits(k) : \A j \in FileHits(k) : i >= j

SearchFiles(k) ==
  IF FileHits(k) = {}
  THEN Absent
  ELSE LET i == NewestHit(k) IN Contents(i)[FindEntryValue(k, Contents(i))].val

(* What Get answers for k. *)
Lookup(k) == IF InBuffer(k) THEN buffer[FirstHit(k)].val ELSE SearchFiles(k)

(* Get fills the cache of every file it looks into, newest to oldest, up   *)
(* to the one that holds k.                                                *)
Visited(k) ==
  {i \in DOMAIN files : /\ Test(files[i].filter, k)
                        /\ \A j \in FileHits(k) : j <= i}

Get(k) ==
  /\ up
  /\ files' = IF InBuffer(k)
              THEN files
              ELSE [i \in DOMAIN files |->
                      IF i \in Visited(k)
                      THEN [files[i] EXCEPT !.cache = Contents(i)]
                      ELSE files[i]]
  /\ UNCHANGED <<up, buffer, filter, disk, flushes>>
-----------------------------------------------------------------------------
(* Writing *)

(* os.Create truncates a file of that name. *)
CreateSstFile(n, lines, torn) ==
  /\ flushes < MaxFlushes
  /\ flushes' = flushes + 1
  /\ disk' = [disk EXCEPT ![n] = [lines |-> lines, torn |-> torn, age |-> flushes + 1]]

FlushBuffer(b) ==
  \E t \in Tables(b) :
    /\ CreateSstFile(NextSstFilename, t, FALSE)
    /\ files' = Append(files, [num |-> NextSstFilename, filter |-> FilterOf(t), cache |-> <<>>])
    /\ buffer' = <<>>

Flush ==
  /\ up /\ buffer # <<>>
  /\ FlushBuffer(buffer)
  /\ UNCHANGED <<up, filter>>

(* Mutant: the buffer is flushed one entry too late. *)
PutLate(k, v) ==
  LET b == Append(buffer, [key |-> k, val |-> v])
  IN  /\ up
      /\ filter' = filter \cup Hash[k]
      /\ IF Len(b) <= MaxBufferLength
         THEN buffer' = b /\ UNCHANGED <<files, disk, flushes>>
         ELSE FlushBuffer(b)
      /\ UNCHANGED up

(* set: buffer the entry, and flush if that fills the buffer. *)
Put(k, v) ==
  LET b == Append(buffer, [key |-> k, val |-> v])
  IN  /\ up
      /\ filter' = filter \cup Hash[k]
      /\ IF Len(b) < MaxBufferLength
         THEN buffer' = b /\ UNCHANGED <<files, disk, flushes>>
         ELSE FlushBuffer(b)
      /\ UNCHANGED up

Set(k, v) == Put(k, v)
Delete(k) == Put(k, Absent)

Erased(names) == [n \in Slots |-> IF n \in names THEN NoFile ELSE disk[n]]

(* Mutant: the handles of the removed files are kept. *)
ResetDiskOnly ==
  /\ up
  /\ disk' = Erased(Listed)
  /\ UNCHANGED <<up, buffer, filter, files, flushes>>

ResetDB ==
  /\ up
  /\ files' = <<>>
  /\ disk' = Erased(Listed)
  /\ UNCHANGED <<up, buffer, filter, flushes>>
-----------------------------------------------------------------------------
(* Death and restart of the process *)

Die == up' = FALSE /\ buffer' = <<>> /\ filter' = {} /\ files' = <<>>

Crash == up /\ Die /\ UNCHANGED <<disk, flushes>>

(* The process dies, or a write fails and panics, in CreateSstFile: some   *)
(* lines are in the file, and perhaps a part of the next one.              *)
TearFlush(b) ==
  \E t \in Tables(b) : \E written \in 0..Len(t) : \E torn \in BOOLEAN :
    /\ torn => written < Len(t)
    /\ CreateSstFile(NextSstFilename, SubSeq(t, 1, written), torn)

CrashInFlush == up /\ buffer # <<>> /\ TearFlush(buffer) /\ Die

CrashInPut(k, v) ==
  LET b == Append(buffer, [key |-> k, val |-> v])
  IN  up /\ Len(b) >= MaxBufferLength /\ TearFlush(b) /\ Die

(* The files are removed in the order they are listed. *)
CrashInReset ==
  /\ up
  /\ \E names \in SstFilenames : \E removed \in 0..Len(names) :
       disk' = Erased({names[i] : i \in 1..removed})
  /\ Die
  /\ UNCHANGED flushes

(* NewSstBuf: a handle for every file listed. *)
Restart ==
  /\ ~up
  /\ up' = TRUE
  /\ \E names \in SstFilenames :
       files' = [i \in DOMAIN names |->
                   [num |-> names[i], filter |-> FilterOf(LoadEntries(names[i])),
                    cache |-> <<>>]]
  /\ UNCHANGED <<buffer, filter, disk, flushes>>

Next ==
  \/ \E k \in Keys \cup {EmptyKey} : Get(k)
  \/ \E k \in Keys : Delete(k) \/ CrashInPut(k, Absent)
  \/ \E k \in Keys, v \in Values : Set(k, v) \/ CrashInPut(k, v)
  \/ Flush
  \/ ResetDB
  \/ Crash
  \/ CrashInFlush
  \/ CrashInReset
  \/ Restart

Spec == Init /\ [][Next]_vars
-----------------------------------------------------------------------------
(* Properties *)

(* Every variable has its type, and the buffer is never left full, so that *)
(* set never writes past the end of Buffer (sst.go:70).                    *)
TypeOK ==
  /\ up \in BOOLEAN
  /\ buffer \in Seq(Entry) /\ Len(buffer) < MaxBufferLength
  /\ filter \subseteq Nat
  /\ files \in Seq(Handle)
  /\ disk \in [Slots -> File]
  /\ flushes \in 0..MaxFlushes

(* A cached file is what a fresh read of that file would give: no flush,   *)
(* reset or restart leaves a stale cache behind (sst.go:279-285).          *)
CacheIsCurrent ==
  \A i \in DOMAIN files :
    files[i].cache # <<>> => files[i].cache = LoadEntries(files[i].num)

(* No filter hides an entry: Get skips a file only if the key is not in    *)
(* it, whether the filter was built by a flush or read back by a restart.  *)
FilterComplete ==
  \A i \in DOMAIN files : \A e \in Range(LoadEntries(files[i].num)) :
    Test(files[i].filter, e.key)

(* A process holding the store knows every sst file there is ("Read all    *)
(* sst files from disk", sst.go:83), and no file that is gone.             *)
AllSstFilesLoaded ==
  up => {files[i].num : i \in DOMAIN files} = {n \in Slots : disk[n] # NoFile}

(* A process that wrote nothing since NewSstBuf, where it was to "Read all *)
(* sst files from disk" (sst.go:83), knows every one of them.              *)
StartsWithAllFiles == filter = {} => AllSstFilesLoaded

(* The handles are in the order the files were written, so that Get's scan *)
(* is "newest file to oldest" (sst.go:272), after a restart too.           *)
NewestLast ==
  \A i, j \in DOMAIN files :
    i < j => disk[files[i].num].age <= disk[files[j].num].age

(* A file cut short by a crash keeps every entry whose line is whole: the  *)
(* unsorted zero entry its torn line is read as misleads no binary search. *)
WholeLinesAreFound ==
  \A n \in Slots : \A i \in DOMAIN disk[n].lines :
    FindEntryValue(disk[n].lines[i].key, LoadEntries(n)) = i

(* The value of k in the file written last among those that hold k. *)
HoldersOf(k) == {n \in Slots : \E e \in Range(disk[n].lines) : e.key = k}

DurableValue(k) ==
  IF HoldersOf(k) = {}
  THEN Absent
  ELSE LET n == CHOOSE n \in HoldersOf(k) :
                  \A m \in HoldersOf(k) : disk[m].age <= disk[n].age
       IN  (CHOOSE e \in Range(disk[n].lines) : e.key = k).val

LastWrite(k) ==
  IF BufferHits(k) = {}
  THEN DurableValue(k)
  ELSE buffer[CHOOSE i \in BufferHits(k) : \A j \in BufferHits(k) : i >= j].val

(* "Give it a key, get back a value. You can [...] update values"          *)
(* (Readme.md:3): Get answers the latest write.                            *)
GetReturnsLastWrite == up => \A k \in Keys : Lookup(k) = LastWrite(k)

(* A torn line is read as an entry for "" (sst.go:147).  In a file with no *)
(* whole line the search finds it, and if that file is younger than all    *)
(* that hold "", its zero value hides what was stored there.               *)
Hidden(k) ==
  /\ k = EmptyKey
  /\ \E n \in Slots : /\ disk[n].torn /\ disk[n].lines = <<>>
                      /\ \A m \in HoldersOf(k) : disk[m].age < disk[n].age

(* What holds of Get: it answers the latest write of every key that was    *)
(* not written twice since the last flush, through whatever flushes,       *)
(* reads, resets, deaths and restarts came before; but not of "" once a    *)
(* flush died in its first line, until "" is written again.                *)
FreshIfBufferedOnce ==
  up => \A k \in Keys :
    \/ Cardinality(BufferHits(k)) = 1
    \/ BufferHits(k) = {} /\ ~Hidden(k)
    => Lookup(k) = LastWrite(k)

(* What the store holds, by the whole lines on disk and the buffer, is a   *)
(* durable map: a flush changes no value, a death loses unflushed writes   *)
(* only, one during a flush leaves each key its old or its new value, and  *)
(* one during a reset brings no overwritten value back.  The property      *)
(* above says when Get reads that map.                                     *)
Durable == INSTANCE DurableMap WITH
  mem <- [k \in Keys |-> LastWrite(k)],
  dur <- [k \in Keys |-> DurableValue(k)]

ImplementsDurableMap == Durable!Spec
=============================================================================
