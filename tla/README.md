# Formal models of justinethier-misc

The repository is a collection of programs. This directory holds TLA+ models of
those whose correctness depends on order, concurrency or failure, the TLC
configurations that check them, and TLAPS proofs of what holds for every value
of the constants. Everything is translated from the source; line numbers below
are of the repository.

| file | contents |
| --- | --- |
| `SstStore.tla`, `MCSstStore.tla` | sparkv's sorted-string-table store |
| `SstStoreProofs.tla` | theorems about it |
| `DurableMap.tla` | what a persistent map promises; `SstStore` implements it |
| `LogStore.tla` | sparkv's append-only log |
| `LogStoreProofs.tla` | theorems about it |
| `CacheServer.tla`, `MCCacheServer.tla` | sparkv's in-memory HTTP server |
| `CacheServerProofs.tla` | theorems about it |
| `HttpBridge.tla` | the C/Scheme rendezvous of `http/` |
| `HttpBridgeProofs.tla` | theorems about it |
| `MarkSweep.tla` | the mark-sweep collectors of `zig/` |
| `CollectedHeap.tla` | what a collected heap promises; `MarkSweep` implements it |
| `MarkSweepProofs.tla` | theorems about it |
| `ConservativeGc.tla` | the conservative collector of `conservative-gc/` |
| `ConservativeGcProofs.tla` | theorems about it |
| `LinkedList.tla` | the list of `c-linked-list/` |
| `MergeSort.tla` | the sort of `merge-sort/` |
| `QuestionPoll.tla` | the poller of `stack-exchange-api/` |
| `GoSql.tla` | the SQL shell of `go/repl/` |
| `GoSqlProofs.tla` | theorems about it |
| `MCPrograms.tla` | the collector and the four above, to check in one run |
| `MCProgramsProofs.tla` | theorems about those four |
| `*.cfg` | one TLC run each |
| `PROJECT.json` | components, runs, mutants, source map, findings, hazards, theorems |

## 1. Inventory

**sparkv, SST store** (`go/kv-store/lsb/sst.go`). State: a write buffer of
`MaxBufferLength` entries, a bloom filter of the keys written by this process, a
list of file handles (name, bloom filter, cache of the parsed entries), and the
files `sorted-string-table-NNNN.json` on disk. Operations: `Set`, `Delete`,
`Get`, `Flush`, `ResetDB`, and `NewSstBuf`, which rebuilds the handles from
disk. One process, no locking ("not thread safe", line 1). Hard: a read
combines buffer, filters, caches and files whose order decides which value
wins; the process may die between two calls or half way through a flush or a
reset; file numbers are limited by the four digits of their names. Correct
when: Get answers the latest write, a death loses only unflushed writes,
filters and caches never hide or age an entry, handles stay in the order the
files were written. It does not answer the latest write of a key set twice since
the last flush (`SstStaleRead`), nor always that of the key "" after a torn flush.

**sparkv, append-only log** (`go/kv-store/lsb/log.go`). State: `store.json`.
Every `Set`/`Delete` opens it with `O_APPEND` and makes two writes, text and
newline; `Get` parses the whole file and takes the newest entry; `ResetDB`
removes it. Hard: interleaved and torn appends. Correct when: finished lines are
never altered, reads never fall behind an append that completed undisturbed, and
a file nothing disturbed parses whole.

**sparkv, in-memory server** (`go/kv-store/cache`, `sparkv.go`). State: a map
and a map of sequence numbers, each under a `sync.RWMutex`; one goroutine per
request; `/api/stats` writes to its client under the read lock. Hard: the lock
discipline, a body that breaks off (ends the process), a client that reads
slowly. Correct when: no concurrent map access, sequence numbers unique,
statistics consistent, every request answered.

**sparkv, bloom filter** (`go/kv-store/bloom`). A bit array and a list of hash
functions. Correct when there are no false negatives. Modelled as the set of
bits in `SstStore`, for an arbitrary hash.

**HTTP bridge** (`http/start-server.h`, `http-server.sld`). A C thread parses
requests and a Scheme thread computes responses; one mutex, one condition
variable, two shared pointers. Hard: broadcasts without the mutex, waits
without a predicate, a response freed by its sender. Correct when: the handler
sees the request being served, no response leaves before it is filled in, every
request is answered.

**Mark-sweep collectors** (`zig/main.c`, `zig/mark-sweep.zig`). A VM stack, a
list of all objects, a threshold that triggers a collection. Hard: a collection
in the middle of making a pair, cycles, marks left over, the counter and the
list getting out of step, a threshold compared with `==`. Correct when:
reachable objects survive, unreachable ones go, `numObjects` is the length of
the list.

**Conservative collector** (`conservative-gc/main.c`). A free list, circular and
in address order, and a circular used list; a used block is marked in the lowest
bit of its link. Operations: `GC_malloc`, which cuts a block off the free list
or has `morecore` add to it, and `GC_collect`. Hard: the lists through joining,
cutting and sweeping; a search that walks a list it adds to; which blocks the
scans look into. Correct when: the free list and the blocks given out divide the
heap, nothing in use is freed, nothing not in use is lost to both lists, marks
do not outlive a collection, every call returns. It frees some blocks in use
(see `GcReachable`).

**gosql** (`go/repl`). A shell that reads lines of SQL statements and executes
them on tables in memory. Hard: a statement that fails half way, and a line of
several statements. Correct when: no statement finds half a table, rows are not
lost.

**Stack Exchange poller** (`stack-exchange-api`). Every quarter of an hour it
fetches a page of questions and prints those more recently active than on the
page before. Hard: failed polls, questions that leave the page and come back,
dates in whole seconds. Correct when: what is printed is news and all of it.

**Linked list, merge sort** (`c-linked-list`, `merge-sort`). The list has a head
node whose value is not used, so that `list_cdr` can return any node as the list
behind it. Hard: lists that share nodes with the list they are the rest of;
index arithmetic. Correct when: each call leaves what a sequence would hold, and
the nodes allocated are those on the list; the sort sorts, in place.

**Others.** `fastcgi`, `cloudburst`, `template` (Scheme web code), and code with
nothing to model: vendored (`http/httpserver.h`, the FastCGI library), generated
(`apply`, `bench`, `loop-dev`, ...), scripts, documents and data. `PROJECT.json`
lists each with its status and the reason.

The programs do not call each other. Inside sparkv, the server uses the
in-memory maps only; the SST store and the log are libraries beside it, driven
by `sst-test.go` and the Go tests, and the store uses the bloom filter. The
bridge connects two threads by shared memory.

## 2. Plan

1. *Done:* `SstStore` with its abstract specification `DurableMap`, `LogStore`,
   `CacheServer`, `HttpBridge`, `MarkSweep` with its abstract specification
   `CollectedHeap`, `ConservativeGc`, `LinkedList`, `MergeSort`, `QuestionPoll`
   and `GoSql`. Every safety property and both refinements have a theorem.
2. *Left:* liveness stays with TLC (section 5). Worth adding on the safety side:
   that a key written before the last flush survives a death at any point
   (`DurableMap` states it one step at a time), as a theorem of `DurableMap`.
3. *Dropped:* a module for the bloom filter's sizing and hashing. The size is
   computed in floating point and the hash is a fixed function: a model could
   only repeat them. That a filter has no false negatives does not depend on
   either, and is proved for any hash (`FiltersAreComplete`).

## 3. The models

### SstStore

| variable | code |
| --- | --- |
| `buffer` | `Buffer[0 .. BufferSize-1]`, a sequence |
| `filter` | `SstBuf.filter`, the set of its bits; it is never cleared |
| `files` | `SstBuf.files`; a handle has its file's number, filter and cache |
| `disk` | the files of the working directory by number: the whole lines, whether a torn line follows, and a history field `age` that only properties read |
| `up` | whether a process holds the store |
| `flushes` | how many files were ever created: the bound, and the source of `age` |

Each exported method is one action: `Set`, `Delete` (with the flush they may end
in), `Get` (with the caches it fills), `Flush`, `ResetDB`. `Restart` is
`NewSstBuf`. The process is single threaded, so a call is atomic unless the
process dies in it, and that is a separate action for every call that writes
files: `CrashInPut`, `CrashInFlush` (some lines written, perhaps part of the
next) and `CrashInReset` (some files removed). A torn line does not parse;
`json.Unmarshal`'s error is dropped and the line is read as the zero entry, key
"", which sorts before every other key and stands last in the file. A client may
use "" too, for `Set` does not check its key. In a file with a whole line the
search does not find the zero entry or finds the client's entry first; in one
that is nothing but a torn line it finds the zero entry, which then hides what
older files hold for "" (`Hidden`) until "" is written again.

Data is abstracted: a key is a natural number in the order of the strings, 0
being "", and is one that JSON preserves (valid UTF-8); a tombstone is the value
`Absent`; a file name is its number, and `Before` is the order `ReadDir` lists
names in, where the number one digit too long sorts in the middle.
`OverflowPrefix` is what characters 20..24 of that name read as (1000 of 10000).
`PathIsCwd` says whether `SstBuf.Path` is the directory the files are opened in.
`cachedAt` is written and never read, and is left out. A failing `Open`,
`ReadDir` or `Remove` of a file that exists is left out.

The refinement mapping to `DurableMap`: `mem` is the value of the last write to
each key, `dur` its value in the youngest file that holds the key. `Set` and
`Delete` map to `Put`, a flush to `Sync`, a death to `Crash`, `CrashInPut` or
`CrashInReset`, a reset to `Reset`, reads and restarts to stuttering.

### LogStore

`log` is the sequence of lines, a line being the entry it parses to or
`Garbage`, which `Get` reads as an entry of the key "" without data; `open`
tells whether the last line lacks its newline. An append is two actions per
writer, `WriteText` and `WriteNewline`, for the two `write(2)` calls. Text
written on an unterminated line makes that line unparsable. A reset between the
two leaves the writer with an unlinked file (`WriteUnlinked`). The history
variable `clean` says that in this file no two appends overlapped and none was
cut short; `alone` and `may` give, for each key, the values a read may answer:
those of the last append that ran alone on a line of its own and was
acknowledged, and of every append begun since. Reads are atomic: `ReadLog` reads
a file that only grows, so what it returns is the log at the moment it met the
end of the file.

### CacheServer

A client is a connection with at most one request. `pc` stops at each point
where a goroutine can wait: for the body, for the lock, for its client. The
`RWMutex` is modelled by its documented behaviour: a writer first claims it,
which holds back later readers, then waits for the readers inside; `Unlock`
admits every reader that queued behind it. Between lock and unlock each map
access is a step of its own, so an exclusion failure would be a state.
`StatsCount`, `StatsCollect` and `StatsSend` follow the statistics handler,
which writes to its client before it unlocks. `BodyFails` is `log.Fatalln`: the
process ends.

### HttpBridge

The program counters `http` and `scheme` follow `handle_request` and the loop
of `make-http-server`. The two pointers are set in two steps. A broadcast wakes
the other thread only if it is in its wait. `pthread_cond_wait` releases the
mutex and sleeps in one step and takes it again before it returns;
`(mutex-unlock! lock cv)` leaves the mutex unlocked. `freed` records responses
`http_respond` has freed, `lost` that some broadcast found nobody waiting, and
`spurious` counts waits that returned without one.

### MarkSweep

One module for both programs: `port` says which one runs. They differ in the
first `maxObjects`, in what a collection sets it to, and in `newObject`, which
in Zig never collects, although a comment calls `maxObjects` "the number of
objects required to trigger a GC" (mark-sweep.zig:36, 170).

| variable | code |
| --- | --- |
| `stack` | `stack[0 .. stackSize-1]` |
| `list`, `swept` | the objects linked from `firstObject`; in a sweep, those from `*object` on and those the sweep has passed |
| `sons` | `type`, `head` and `tail`: nothing for an int; freed memory keeps what it held |
| `marked` | the objects whose `marked` is set |
| `todo` | the calls of `mark` still to be made: the recursion and `markAll`'s loop |
| `num`, `max` | `numObjects`, `maxObjects` |
| `pc`, `then` | where the collector is, and the call it runs in |

Nothing runs concurrently: `pushInt`, `pushPair`, `pop`, `gc` and `freeVM` are
one action each unless they collect. A collection is a sequence of steps (one
call of `mark`, one turn of the sweep's loop) within the call, which goes on at
`pc = "new"` when `newObject` asked for it. `Link` is the client's `a->tail = b`
(`test4`), on pairs it can reach. A failed assertion ends the program, and in
Zig so do `unreachable` and the doubling that no longer fits in a `u32`: the
Makefile builds with safety checks on. Left out: integer values, a failing
`malloc`, and the native stack the recursion uses.

The refinement mapping to `CollectedHeap`: the heap is `Kept`, the objects that
will be left once the sweep is over. The end of marking is then the step at
which everything unreachable disappears at once, and the sweep stutters.

### ConservativeGc

Memory is an array of units of `sizeof(header_t)`, two words each, which is what
the code's casts to `unsigned int` assume; `size` and `next` are the first and
the second word of each unit, whether it is a header or part of what the client
got. `base` is unit 0, below the heap. The free and the used list are what walks
over `next` from `freep` and `usedp` come to, so the model writes links where the
code does and keeps no list of its own.

| variable | code |
| --- | --- |
| `size`, `next`, `tagged` | memory; the headers whose link has its lowest bit set |
| `freep`, `usedp` | themselves |
| `brk` | the program break, which `sbrk` moves |
| `pc`, `p`, `prevp`, `units` | where a call is, its cursors, `num_units` |
| `var` | what the client's variables point to: the roots |
| `held` | history: the blocks given out and not freed |

A step is one round of a loop: of `GC_malloc`'s search, of `scan_heap`, of the
sweep. `scan_region` over static data and stack is one step, and so is
`add_to_free_list` (no client runs between its rounds). The client stores a
pointer in a block it holds, loads one, or forgets one; it does not use freed
memory. Words are what the client's variables and blocks hold, the collector's
own static variables, and the header past the end of a block, which the code
takes for the block's (main.c:121, 142). Left out: other words that happen to
look like an address, words of integers, pointers into the middle of a block.
The code does not compile as it stands (`stack_bottom` and `assert` are not
declared); it is read as if it did. `sbrk` fails at `HeapMax`.

### LinkedList

`next`, `val` and `live` are the nodes; `head` is the list the client holds. Each
function is an action that begins it and one for each round of its loop, with
`ptr`, `prev` and `at` for its cursors; `h` is any rest of the list. The history
variable `expect` says what the list must hold when the call ends. The comment
on `list_add` (linked-list.c:34-35) has it construct a list for a null pointer
and return the list: it returns 0 or 1 and constructs none; the model does as
the code. `malloc` does not fail and returns the first free node, for no
function compares addresses.

### MergeSort

`frames` is the stack of the calls of `merge`, `buf` the copy in `merge_sorted`.
The first call is for any part of any array, as the tests' are.

### QuestionPoll

A round of main's loop reads the site once, in `http_get`, and the rest of the
round is the program's own, so `Poll` is one step; between rounds questions are
active, appear and disappear, in whole seconds. `oldQs` maps the ids of the last
page to their dates. Whatever is wrong with an answer, `parse_se` makes an empty
array of it, never NULL (`PollFails`).

### GoSql

`tables` is the backend's map, `first` the line's first statement, which every
`CREATE TABLE` of the line executes (repl.go:31). A statement is a step, a line
that does not parse (`BadLine`) ends the program, and so does the first error
(`state = "panic"`); `"fault"` is an index out of range or a nil dereference. The
lexer and the parser are modelled by what they can yield: expressions are
literals; `'...'` never gets through, because `lexCharacterDelimited` returns a
cursor at the closing quote, from where lexing goes on (lexer.go:192); of the
column types only `text` is a keyword, so no column is an `int`, and any other
keyword is an invalid type. A number that is no integer panics in `tokenToCell`.
memory.go:157 does not compile (`from` is a token); it is read as `from.value`.

## 4. Runs

Passing runs:

| run | shows | bounds |
| --- | --- | --- |
| `SstStore` | `TypeOK` (the buffer is never full between calls), `CacheIsCurrent`, `FilterComplete`, `FreshIfBufferedOnce`, and the refinement `ImplementsDurableMap` | 2 keys, one of them "", and tombstones, a buffer of 3, 2 files; a hash with false positives |
| `SstFiles` | `AllSstFilesLoaded`, `NewestLast`, `WholeLinesAreFound` | 3 keys, one of them "", a buffer of 3, 3 files using every number the names have; all entries are tombstones, for these properties do not read values |
| `LogStore` | `CleanLogParses`, `GetIsRecent`, `WholeLinesStay` | 2 writers, 2 keys, one of them "", 2 values, 4 lines |
| `CacheServer` | `TypeOK`, `NoConcurrentMapWrite`, `StatsAreConsistent`, `NumbersAreUnique`, `RequestsAreAnswered` | 3 clients, 1 key, 1 value, every request; no symmetry, for liveness is checked |
| `HttpBridge` | `TypeOK` (with who holds the mutex where), `HandlerSeesTheRequest`, `RespondAfterHandler`, `StaleOnlyBeforeBroadcast`, `AnsweredUnlessWakeupLost`, `LostWakeupStopsServer` | 4 requests, 2 spurious wake-ups |
| `MarkSweep` | `TypeOK`, `ReachableStay`, `CountIsListLength`, `UnmarkedBetweenCollections`, `CountWithinThreshold`, `CollectionsEnd`, the refinement `ImplementsHeap` | 4 objects, a stack of 3, a first threshold of 2, `u32` up to 6; both programs |
| `MCPrograms` | `OperationsAreExact`; `SortsInPlace`; `PrintedIsNews`; `TablesAreWhole`, `RowsAreKept`; `HeapIsTiled`, `FreeListIsSorted`, `TagsCleared`, `LostOnlyWithFirst`, `RootedStay`, `CallsReturn` | 4 list nodes, 2 values, arrays of 2; sorts of 5 with 3 numbers; 2 questions, a page of 1, clock up to 2; 2 tables, 1 column name, 2 columns, 2 rows; a heap of 6 units, `MIN_ALLOC_SIZE` of 2 headers, requests of 2 and of 5 units, 2 variables |

Why these bounds: in the store, an overwritten value, a value that a false
positive looks for, a newer and an older file, a cache filled before and after a
flush, a table torn at any line, and one torn in its first line
in front of an older file that holds "" all occur with two keys, two or three
files and a buffer that can hold a key twice unflushed. In the log, three
appends on one line need two writers and a death. Three clients make the
reader, the waiting writer and the reader it holds back. The bridge returns to
the same control state after each request, so two requests show one serving the
other's leftovers. Four objects allow a cycle of two pairs, a shared son and
garbage at either end of the list and in its middle; the threshold is met at
two objects and, doubled, at four; the `u32` overflows at the second doubling. One
key is enough for the server, whose maps only tell present from absent; its
theorems are for any number.

`MCPrograms` runs one of five programs that share nothing, chosen in its first
state, so that each is explored as if alone. Three nodes behind the head give a
rest with a node before and behind what is removed; five elements are halved
into two and three, and three of those unevenly again. Two questions on a page
of one push each other off. Two columns of one name are a repeated column and
the place where a half-made table differs from a whole one. Six units hold three
blocks: enough to join with either neighbour, to cut one block from another, to
sweep the first, a middle and the last, and for a request too big for the heap.

Runs that TLC finds violated, each stating what the code's own words say:

| run | disagreement |
| --- | --- |
| `SstStaleRead` (`GetReturnsLastWrite`) | `findLatestBufferEntryValue` returns the oldest buffered entry (sst.go:204): an update of a key already buffered is invisible until the flush. What does hold is `FreshIfBufferedOnce`. |
| `SstOverflow` (`NewestLast`) | number 10000 sorts between 1000 and 1001 (sst.go:173), so a restart puts its file among the older ones. The last name listed is still that of 9999, so each later flush writes to 10000 again. The model has fewer digits, which only makes it happen sooner. |
| `SstPath` (`StartsWithAllFiles`) | names are listed in `Path` and opened in the working directory (sst.go:138, 156): a process dies leaving a file, and the next one has no handle for it. `StartsWithAllFiles` is `AllSstFilesLoaded` of a process that has written nothing yet. |
| `HttpLostWakeup` (`RequestsAreAnswered`) | broadcasts without the mutex (start-server.h:37, http-server.sld:113) get lost, and both threads then wait for ever. No spurious wake-up is needed. |
| `GcReachable` (`ReachableStay`) | `GC_collect` frees blocks in use: `scan_heap` begins behind the first used block and never scans it (main.c:138), so what only that block points to is freed. What does hold is `RootedStay`: no block a variable points to is freed, nor what such a block refers to if it stands in the used list and is not the first there. The first is not scanned; one that dropped out of the list with an earlier first block (main.c:220) is neither marked nor scanned. |

The passing HTTP run also says what a spurious wake-up would do:
`RespondAfterHandler` and `HandlerSeesTheRequest` hold only before the first,
because neither wait tests a predicate.

Three more disagreements are modelled and not run: `ResetDB`, "Clear from memory"
(sst.go:305), keeps the write buffer, so entries set since the last flush outlive
a reset; a file that is nothing but a torn line hides the stored value of ""
(`Hidden`); and what `scan_heap` marks behind its cursor it does not scan.

**Deadlock.** `CHECK_DEADLOCK FALSE` stands in the runs whose bound stops the
model (files created, sequence numbers, requests, addresses) and where the
program may end or hang; in `MCPrograms` a sort ends and a shell panics.
`LogStore` is checked for deadlock.

**Fairness.** Safety runs assume none. `CacheServer`: weak fairness of each
goroutine's steps, because the Go runtime schedules runnable goroutines and
clients are assumed to read their responses; strong fairness of `Claim`,
because `sync.Mutex` hands itself over to a writer that has waited long. No
fairness of arrivals or of bodies: a client may never send them. `HttpBridge`:
weak fairness of each thread and no more; a blocked thread is not enabled.
`MarkSweep`: weak fairness of the collector's own steps, which run in one
thread without waiting for anything; none of the client's calls.
`ConservativeGc`: the same. The other programs have none.

**Mutants.** Each property of a passing run has a mutant operator beside the
definition it changes, a plausible bug in that code (entries flushed too late,
the oldest file first, a lock not held, a broadcast forgotten); TLC finds the
property violated when it replaces the definition.

## 5. Proofs

`SstStoreProofs.tla` (TLAPS, from the named assumptions of `SstStore` only):

- `Typing`: `Spec => []TypeOK`, for every set of keys, hash, buffer length and
  number of files. The part that is not typing is `Len(buffer) <
  MaxBufferLength`: a call leaves room for the next one's entry.
- `CachesAreCurrent` and `FiltersAreComplete`: under `NamesFit`, which says that
  Path is the working directory and that at most `LastNum + 1` files are ever
  created (the `SstPath` and `SstOverflow` runs show that neither can be
  dropped), `[]CacheIsCurrent` and `[]FilterComplete`.

Neither invariant is inductive: a cache goes stale if a flush writes to a number
some handle already has. The inductive invariant `FilesInv` adds `HandlesExist`
(every handle's file is on disk) and `NumbersBelowFlushes` (file numbers are
smaller than the count of files created). With `NamesFit` no number is ever
that of `Overflow`, so `Before` is `<` on the numbers in use, `NextSstFilename`
is one more than the largest, and the lemma `NextNameIsFresh` gives what the
flush step needs: the file it creates is no handle's.

It goes on, under `NamesFit` again, to `AllFilesAreLoaded` and
`HandlesAreInOrder`: `[]AllSstFilesLoaded` and `[]NewestLast`. The age of a file
is a history field, so the invariant `OrderInv` ties it to the file's number:
a larger number means a larger age (`AgesFollowNumbers`), no age has been
reached yet (`AgesBelowFlushes`), and the handles' numbers ascend
(`HandlesAscend`). A restart rebuilds the handles in the order of the names,
which is the order of the numbers; a flush adds the largest.

The rest of that module is about the store as a map: `WholeLinesFound`
(`[]WholeLinesAreFound`), and under `NamesFit` `FreshReads`
(`[]FreshIfBufferedOnce`) and `StoreIsDurableMap`, that `SstStore` implements
`DurableMap`. The invariants behind them are `LinesInv` (the whole lines of
every file are sorted, each key once) and `BufferInv` (a buffered entry is one
that was written, and the filter in memory has its key); `MapInv` joins them
with `TypeOK` and `OrderInv`. The binary search is a recursion, but of a
function of the two bounds, so it is unfolded one halving at a time: were there
bounds around a line that it does not find, there would be such bounds at a
least distance, and the next halving brings them closer. From that, and the
order of the handles, the scan through filters and caches returns the youngest
entry of a key (`FilesAnswerDurably`), which is what `Get` answers for a key the
buffer holds at most once. For "" that needs `~Hidden`, as the property says:
the search comes to a torn line's zero entry only where it is all there is. The
refinement maps each action: a flush makes the durable values those in memory
(`FlushSyncs`); a death in a flush makes those of some set of keys durable and
loses the others (`TearMixes`); a reset, whole or cut off by a death, is a step
of the map's own.

`CacheServerProofs.tla` proves every safety property of the in-memory server
for any clients and keys (`Keys` finite where keys are counted):
`MapsAreExclusive`, `NumbersAreHandedOutOnce` and `StatisticsAreConsistent`,
with the typing they rest on. `ServerTypesHold` is the run's `TypeOK` itself, the
model's bound on sequence numbers included: an increment passes its guard before
it takes a number, so the invariant `BoundInv` adds to the numbers given the
increments that are past the guard and still waiting (`Awaiting`, a finite set
since the clients are). Mutual exclusion is not inductive
by itself: `LockInv` says what a goroutine's place says of its lock (a writer
holds the claim, a reader is among the readers, no reader is in while one
writes, whoever is queued waits there). On it rest `SequenceInv` (no number
given exceeds the sequence's, and all are below it while an increment is held)
and `StatsInv` (what was counted is still what the map holds; for that the
process must be known to die as a whole, or a dead reader could be let in).

`HttpBridgeProofs.tla` proves every safety property of the bridge for any number
of requests and spurious wake-ups: `BridgeTyping` (with who holds the mutex),
`HandlersSeeTheRequest`, `ResponsesAreFilled`, `PublishedPointersAreFresh`.
Again none is inductive. The invariant `BridgeInv` adds `Numbers` (the request
being served is not freed), `Pointers` (both pointers are its own from the
broadcast on) and `Rendezvous`: until a wait returns spuriously, the Scheme
thread, once woken, finds the C thread in or before its wait and the response
not yet filled in, and the C thread, once woken, finds it filled in. A lost
wake-up disturbs none of this: it stops the bridge, it does not make it answer
wrongly.

`MarkSweepProofs.tla` proves, for any number of objects, stack and threshold,
every safety property of the collectors (`MarkSweepTyping`, `ObjectsAreCounted`,
`ThresholdIsMet`, `ReachableObjectsStay`, `MarksAreCleared`) and that they
implement `CollectedHeap` (`CollectorImplementsHeap`). Reachability is stated
without recursion, as the least set that contains the stack and whatever its
members refer to, so that the proofs need no induction over paths: what is
marked when nothing is left to mark is such a set, and lies within every other.
The inductive invariant `MarkSweepInv` says so at each phase: in `Marking`, what
is marked or to be marked is live, and whatever a marked object refers to is
one of these; in `Sweeping`, what is kept is what is live and every mark is
still ahead of the sweep; `HeapClosed` that no object refers to a freed one;
`Disjoint` that the list holds no object twice, without which clearing one mark
could unmark another entry; `Phases` what each phase leaves alone.

`LogStoreProofs.tla` proves every property of the log for any keys, values and
writers: `UnspoiledLogParses`, `ReadsAreRecent`, `FinishedLinesStay`.
`GetIsRecent` is not inductive: a text written on an open line spoils that line,
so what is left without it must be a recent answer too (`RecentIfSpoiled`), and
when a writer that ran alone returns, its line must still be the last
(`AloneIsLast`). `CleanLogParses` needs `OpenByOne`: in an undisturbed file at
most one writer is between its two writes, and only while the last line is open.
What Get computes is brought to one lemma, `NewestAppended`: a line appended is
the newest entry of its key and leaves those of the others.

`ConservativeGcProofs.tla` proves, for any heap, any sizes of request and any
client, all safety properties of the conservative collector: `HeapStaysTiled`,
`FreeListStaysSorted`, `MarksAreCleared`, `BlocksAreLostWithFirst` and
`RootedBlocksStay`. The lists exist only as links in memory, and a walk over
them is a recursion, so the proofs name what the walks meet: an existentially
quantified set of free and of used blocks, of which each list is a circle, the
free one in the order of addresses, the used one in an order given by a number
for each block. A walk of at most `HeapMax` links along such a circle meets
exactly its set. The invariant then says that the free blocks and those the
client holds, used or lost, tile the heap; which blocks are marked in each phase
(those still ahead of the sweep); and that a block a root points to, and what
such a block points to if it is in the used list and not the first there, is not
freed.

`GoSqlProofs.tla` proves both properties of the SQL shell for any tables and
statements of any length (`MaxColumns \in Nat`): `TablesStayWhole` and `RowsStay`.
The invariant `SqlInv` is `TablesAreWhole` with the types; that a SELECT stays
within a row is `FoundInBounds`, and that a CREATE TABLE that fails cannot be
followed by another statement is that its state is no longer "running".

`MCProgramsProofs.tla` proves the properties of the small programs, of the
specification the run checks. The shell's two are those of `GoSqlProofs`, by
`INSTANCE`. For the others:

- `PollPrintsNews`, for any finite set of questions and any size of page. `PollInv`
  relates the site now to the site at the last poll, and the ids kept to a page it
  could have sent then; that two pages of one site differ only in questions of
  equal date is the lemma `PageExchanges`, by counting.
- `ArraysAreSorted`, for any array of integers and any part of it. `SortInv` is
  about the stack of calls (each is for a half of the one below), the halves
  already sorted, and, within a merge, the copies and what is still pending: the
  values written so far are in order and none is larger than one pending. That no
  value is lost is a count of each over the places written and pending.
- `ListOperationsAreExact`, for any finite memory (`Addresses`), values and order
  of calls. `ListInv` says for each operation what the nodes are in the middle of
  it, by a sequence of the nodes: linked from the first to the last; while a rest
  is reversed, turned round up to the cursor; while values are removed, with the
  values kept so far before the cursor (`Sifting`). `RestOf`, `ContentsOf` and
  `ListsOf` say what the model's walks along `next` make of linked nodes, and the
  recursion that states what list_remove is to leave (`Without`) is brought to
  its steps by `WithoutKeeps`.

The assumptions are those the modules name, and where a theorem states one of
its own it is about the bounds only: that sets of clients, keys, questions or
addresses are finite, and that lengths are numbers. `NamesFit` is the one that
restricts the program, and two runs show what happens without it. What is not
promised of the key "" is in the properties themselves (`Hidden` in the store,
`~clean` in the log), not in an assumption.

Only model-checked: liveness (`RequestsAreAnswered`, `AnsweredUnlessWakeupLost`,
`LostWakeupStopsServer`, `CollectionsEnd`, `CallsReturn`), which needs fairness
and `ENABLED` and is beyond TLAPS as used here; and the properties of the runs
expected to find a violation.

## 6. Not modelled

In what is modelled: the hash functions and sizing of the bloom filter;
`cachedAt`; errors of file operations other than a write that panics; request
parsing, headers and response text; SIGTERM in the bridge; SQL text and JSON;
what a failing `malloc` does.

Other components, each with its reason in `PROJECT.json`: the web frameworks are
serial and keep their state in a third-party library; templates and CPS
conversion are recursions over text and terms without state; the rest is
vendored, generated, documents, data, or single-file exercises.

By lines, nearly all the C in the repository is generated or vendored:
`matrix.c`, `puzzle.c`, `mbrot.c`, `loop-dev/*.c` and `bench/*` are what Scheme
compilers made of a few dozen lines each, in copies, for comparison of their
output; `http_parser.c` and `httpserver.h` are third-party libraries. A model of
a compiler's output would say nothing of the compiler, which is not in the
repository. Of the hand-written C, what keeps state is modelled in full (the two
collectors, the list, the sort, the poller) or in part (the bridge); so the
models cover a small share of all lines and most of the code written here in C,
Go and Zig that has state to get wrong.
