---------------------------- MODULE ConservativeGc ----------------------------
(***************************************************************************)
(* The conservative collector of conservative-gc/main.c: GC_malloc takes   *)
(* blocks from a free list, circular and in address order, and puts them   *)
(* in a circular used list; GC_collect marks the used blocks that some     *)
(* word of the static data, the stack or a marked block points into, and   *)
(* frees the others.                                                       *)
(*                                                                         *)
(* Memory is an array of units of sizeof(header_t), two words each, as on  *)
(* the 32-bit machine the code is written for.  A block is named by the    *)
(* unit of its header; what the client gets is the unit after it.          *)
(***************************************************************************)
EXTENDS Integers, FiniteSetsExt

CONSTANTS
  HeapMax,       \* the last unit sbrk can give: bounds the heap
  HeaderSize,    \* sizeof(header_t)
  MinAllocSize,  \* MIN_ALLOC_SIZE
  AllocSizes,    \* the sizes the client asks for, in bytes
  Vars           \* the client's variables, on the stack or static

ASSUME SizesAssumption ==
  /\ HeapMax \in Nat \ {0} /\ HeaderSize \in Nat \ {0}
  /\ MinAllocSize \in Nat /\ MinAllocSize >= HeaderSize
  /\ AllocSizes \subseteq Nat

NULL == -1
Base == 0              \* the header `base', below the heap
Units == Base..HeapMax

VARIABLES
  size,    \* the first word of each unit: in a header, the block's units
  next,    \* the second word: in a header its link, elsewhere the client's
  tagged,  \* the headers whose link has its lowest bit set: marked blocks
  freep,   \* a block of the free list
  usedp,   \* the first block of the used list, or NULL
  brk,     \* the program break: the first unit that is not the heap's
  var,     \* what the client's variables hold
  pc,      \* "run", or in GC_malloc "search", in GC_collect "scan", "sweep"
  p, prevp,  \* the cursor of the loop pc is in, and the block before it
  units,   \* num_units
  held     \* history: the blocks GC_malloc gave out and nothing freed

vars == <<size, next, tagged, freep, usedp, brk, var, pc, p, prevp, units, held>>

Init ==
  /\ size = [u \in Units |-> 0]
  /\ next = [u \in Units |-> IF u = Base THEN Base ELSE NULL]
  /\ tagged = {}
  /\ freep = Base /\ usedp = NULL /\ brk = 1
  /\ var = [x \in Vars |-> NULL]
  /\ pc = "run" /\ p = Base /\ prevp = Base /\ units = 0
  /\ held = {}

(* What a walk of i links from a block comes to. *)
FreeAt[i \in Nat] == IF i = 0 THEN freep ELSE next[FreeAt[i - 1]]
UsedAt[i \in Nat] == IF i = 0 THEN usedp ELSE next[UsedAt[i - 1]]

FreeBlocks == {FreeAt[i] : i \in Units}
UsedBlocks == IF usedp = NULL THEN {} ELSE {UsedAt[i] : i \in Units}
-----------------------------------------------------------------------------
(* add_to_free_list *)

(* The loop over the free list stops at q: b lies between q and the next   *)
(* block, or q is the last and b is beyond either end.                     *)
StopsAt(q, b) ==
  \/ q < b /\ b < next[q]
  \/ q >= next[q] /\ (b > q \/ b < next[q])

Place(b) == FreeAt[Min({i \in Units : StopsAt(FreeAt[i], b)})]

(* Mutant: a block is not joined with the one after it. *)
AddedUnjoined(b, n) ==
  LET q == Place(b)
  IN  IF q + size[q] = b
      THEN [size |-> [size EXCEPT ![q] = @ + n, ![b] = n],
            next |-> [next EXCEPT ![b] = next[q]], freep |-> q]
      ELSE [size |-> [size EXCEPT ![b] = n],
            next |-> [next EXCEPT ![b] = next[q], ![q] = b], freep |-> q]

(* The memory and freep once block b of n units is in the free list,       *)
(* joined with the block after it and with the one before.                 *)
Added(b, n) ==
  LET q == Place(b)
      joins == b + n = next[q]
      total == IF joins THEN n + size[next[q]] ELSE n
      after == IF joins THEN next[next[q]] ELSE next[q]
  IN  IF q + size[q] = b
      THEN [size |-> [size EXCEPT ![q] = @ + total, ![b] = total],
            next |-> [next EXCEPT ![b] = after, ![q] = after], freep |-> q]
      ELSE [size |-> [size EXCEPT ![b] = total],
            next |-> [next EXCEPT ![b] = after, ![q] = b], freep |-> q]
-----------------------------------------------------------------------------
(* GC_malloc *)

Returns == pc' = "run" /\ p' = Base /\ prevp' = Base /\ units' = 0

Malloc(bytes) ==
  /\ pc = "run"
  /\ pc' = "search"
  /\ units' = (bytes + HeaderSize - 1) \div HeaderSize + 1
  /\ prevp' = freep /\ p' = next[freep]
  /\ UNCHANGED <<size, next, tagged, freep, usedp, brk, var, held>>

(* A block that is too big gives its upper end. *)
Taken == IF size[p] = units THEN p ELSE p + size[p] - units

(* Mutant: the remaining block keeps its size. *)
FoundUncut(x) ==
  LET b == Taken
      unlinked == IF b = p THEN [next EXCEPT ![prevp] = next[p]] ELSE next
  IN  /\ pc = "search" /\ size[p] >= units
      /\ size' = [size EXCEPT ![b] = units]
      /\ IF usedp = NULL
         THEN usedp' = b /\ next' = [unlinked EXCEPT ![b] = b]
         ELSE UNCHANGED usedp /\ next' = [unlinked EXCEPT ![b] = next[usedp], ![usedp] = b]
      /\ freep' = prevp
      /\ var' = [var EXCEPT ![x] = b + 1]
      /\ held' = held \cup {b}
      /\ Returns
      /\ UNCHANGED <<tagged, brk>>

(* Mutant: the new block is linked to the first one only. *)
FoundCutting(x) ==
  LET b == Taken
      unlinked == IF b = p THEN [next EXCEPT ![prevp] = next[p]] ELSE next
  IN  /\ pc = "search" /\ size[p] >= units
      /\ size' = IF b = p THEN size ELSE [size EXCEPT ![p] = @ - units, ![b] = units]
      /\ IF usedp = NULL
         THEN usedp' = b /\ next' = [unlinked EXCEPT ![b] = b]
         ELSE UNCHANGED usedp /\ next' = [unlinked EXCEPT ![b] = usedp, ![usedp] = b]
      /\ freep' = prevp
      /\ var' = [var EXCEPT ![x] = b + 1]
      /\ held' = held \cup {b}
      /\ Returns
      /\ UNCHANGED <<tagged, brk>>

(* p is big enough; the block taken goes second in the used list. *)
Found(x) ==
  LET b == Taken
      unlinked == IF b = p THEN [next EXCEPT ![prevp] = next[p]] ELSE next
  IN  /\ pc = "search" /\ size[p] >= units
      /\ size' = IF b = p THEN size ELSE [size EXCEPT ![p] = @ - units, ![b] = units]
      /\ IF usedp = NULL
         THEN usedp' = b /\ next' = [unlinked EXCEPT ![b] = b]
         ELSE UNCHANGED usedp /\ next' = [unlinked EXCEPT ![b] = next[usedp], ![usedp] = b]
      /\ freep' = prevp
      /\ var' = [var EXCEPT ![x] = b + 1]
      /\ held' = held \cup {b}
      /\ Returns
      /\ UNCHANGED <<tagged, brk>>

(* Mutant: the search goes round without asking for memory. *)
SearchRound ==
  /\ pc = "search" /\ size[p] < units
  /\ prevp' = p /\ p' = next[p]
  /\ UNCHANGED <<size, next, tagged, freep, usedp, brk, var, pc, units, held>>

SearchOn ==
  /\ pc = "search" /\ size[p] < units /\ p # freep
  /\ prevp' = p /\ p' = next[p]
  /\ UNCHANGED <<size, next, tagged, freep, usedp, brk, var, pc, units, held>>

(* Units compared with bytes: a request above it gets less than it needs,  *)
(* and the search comes back for more; one below gets no whole page.       *)
Chunk == IF units > MinAllocSize THEN MinAllocSize \div HeaderSize ELSE units

(* The whole free list is too small: morecore adds to it, and the search   *)
(* goes on behind what it returned.                                        *)
MoreCore ==
  LET a == Added(brk, Chunk)
  IN  /\ pc = "search" /\ size[p] < units /\ p = freep
      /\ brk + Chunk - 1 <= HeapMax
      /\ size' = a.size /\ next' = a.next /\ freep' = a.freep
      /\ brk' = brk + Chunk
      /\ prevp' = a.freep /\ p' = a.next[a.freep]
      /\ UNCHANGED <<tagged, usedp, var, pc, units, held>>

(* sbrk fails, and with it GC_malloc. *)
OutOfMemory(x) ==
  /\ pc = "search" /\ size[p] < units /\ p = freep
  /\ brk + Chunk - 1 > HeapMax
  /\ var' = [var EXCEPT ![x] = NULL]
  /\ Returns
  /\ UNCHANGED <<size, next, tagged, freep, usedp, brk, held>>
-----------------------------------------------------------------------------
(* The client.  It uses what GC_malloc gave it and nothing freed.          *)

Payload(b) == b + 1 .. b + size[b] - 1

Holds(x) == var[x] - 1 \in held

(* *x = y *)
Store(x, y) ==
  /\ pc = "run" /\ Holds(x)
  /\ \E u \in Payload(var[x] - 1) : next' = [next EXCEPT ![u] = var[y]]
  /\ UNCHANGED <<size, tagged, freep, usedp, brk, var, pc, p, prevp, units, held>>

(* x = *y *)
Load(x, y) ==
  /\ pc = "run" /\ Holds(y)
  /\ \E u \in Payload(var[y] - 1) :
       /\ next[u] - 1 \in held
       /\ var' = [var EXCEPT ![x] = next[u]]
  /\ UNCHANGED <<size, next, tagged, freep, usedp, brk, pc, p, prevp, units, held>>

(* x = NULL *)
Forget(x) ==
  /\ pc = "run" /\ var[x] # NULL
  /\ var' = [var EXCEPT ![x] = NULL]
  /\ UNCHANGED <<size, next, tagged, freep, usedp, brk, pc, p, prevp, units, held>>
-----------------------------------------------------------------------------
(* GC_collect *)

(* The words that mark block b: they reach a unit past its end, where they *)
(* are the header of the block after it.                                   *)
Marking(b) == b + 1 .. b + size[b]

(* Used blocks do not overlap, so at most one is marked by a word, and the *)
(* order of the list does not matter.                                      *)
MarkedBy(words) == {b \in UsedBlocks : Marking(b) \cap words # {}}

(* The collector's own variables are static data too. *)
Statics == {freep, usedp, next[Base]}

(* Mutant: only static data is scanned. *)
CollectUnrooted ==
  /\ pc = "run" /\ usedp # NULL
  /\ tagged' = tagged \cup MarkedBy(Statics)
  /\ pc' = "scan" /\ p' = next[usedp]
  /\ UNCHANGED <<size, next, freep, usedp, brk, var, prevp, units, held>>

Collect ==
  /\ pc = "run" /\ usedp # NULL
  /\ tagged' = tagged \cup MarkedBy(Statics \cup {var[x] : x \in Vars})
  /\ pc' = "scan" /\ p' = next[usedp]
  /\ UNCHANGED <<size, next, freep, usedp, brk, var, prevp, units, held>>

(* The words scanned in a marked block, and the header past its end; what  *)
(* lies past the break holds no address.                                   *)
Words(b) == {next[u] : u \in {v \in Marking(b) : v < brk}}

(* scan_heap, one block: it begins behind the first one and never scans it. *)
ScanHeap ==
  /\ pc = "scan" /\ p # usedp
  /\ tagged' = IF p \in tagged THEN tagged \cup (MarkedBy(Words(p)) \ {p}) ELSE tagged
  /\ p' = next[p]
  /\ UNCHANGED <<size, next, freep, usedp, brk, var, pc, prevp, units, held>>

ScanEnds ==
  /\ pc = "scan" /\ p = usedp
  /\ pc' = "sweep" /\ prevp' = usedp /\ p' = next[usedp]
  /\ UNCHANGED <<size, next, tagged, freep, usedp, brk, var, units, held>>

(* An unmarked block is freed.  If it is the first, the used list is given *)
(* up with whatever is left in it.                                         *)
Free ==
  LET a == Added(p, size[p])
  IN  /\ pc = "sweep" /\ p \notin tagged
      /\ size' = a.size /\ freep' = a.freep
      /\ held' = held \ {p}
      /\ IF p = usedp
         THEN usedp' = NULL /\ next' = a.next /\ Returns
         ELSE /\ next' = [a.next EXCEPT ![prevp] = next[p]]
              /\ p' = next[p]
              /\ UNCHANGED <<usedp, pc, prevp, units>>
      /\ UNCHANGED <<tagged, brk, var>>

(* Mutant: the tag stays. *)
KeepTagged ==
  /\ pc = "sweep" /\ p \in tagged
  /\ IF p = usedp
     THEN Returns
     ELSE prevp' = p /\ p' = next[p] /\ UNCHANGED <<pc, units>>
  /\ UNCHANGED <<size, next, tagged, freep, usedp, brk, var, held>>

Keep ==
  /\ pc = "sweep" /\ p \in tagged
  /\ tagged' = tagged \ {p}
  /\ IF p = usedp
     THEN Returns
     ELSE prevp' = p /\ p' = next[p] /\ UNCHANGED <<pc, units>>
  /\ UNCHANGED <<size, next, freep, usedp, brk, var, held>>
-----------------------------------------------------------------------------
(* The steps of a call that has begun. *)
Step ==
  \/ \E x \in Vars : Found(x) \/ OutOfMemory(x)
  \/ SearchOn \/ MoreCore
  \/ ScanHeap \/ ScanEnds \/ Free \/ Keep

Next ==
  \/ \E bytes \in AllocSizes : Malloc(bytes)
  \/ \E x, y \in Vars : Store(x, y) \/ Load(x, y)
  \/ \E x \in Vars : Forget(x)
  \/ Collect
  \/ Step

Spec == Init /\ [][Next]_vars

(* A call runs on by itself. *)
FairSpec == Spec /\ WF_vars(Step)
-----------------------------------------------------------------------------
(* Properties *)

Extent(b) == b .. b + size[b] - 1

(* The blocks in the free list and those the client holds, the ones that   *)
(* dropped out of the used list (main.c:220) among them, divide the heap:  *)
(* none overlap, and no unit is in neither.                                *)
HeapIsTiled ==
  LET free == FreeBlocks
      blocks == (free \ {Base}) \cup held
  IN  /\ free \cap held = {}
      /\ UNION {Extent(b) : b \in blocks} = 1..brk - 1
      /\ \A b, c \in blocks : b # c => Extent(b) \cap Extent(c) = {}

(* The free list is a circle in address order, no two blocks of it touch,  *)
(* and the search of GC_malloc can start from freep.                       *)
FreeListIsSorted ==
  /\ Base \in FreeBlocks
  /\ \A b \in FreeBlocks :
       /\ next[b] > b \/ next[b] = Base
       /\ b # Base => b + size[b] # next[b]

(* A mark left over would keep its block in the next collection, and       *)
(* GC_malloc would copy it with the link of the first used block.          *)
TagsCleared == pc \notin {"scan", "sweep"} => tagged \cap held = {}

(* A block the client holds drops out of the used list, and so of all      *)
(* collections, only when the first used block is freed (main.c:220).      *)
LosesOnlyWithFirst ==
  usedp' # NULL => UsedBlocks \cap held' \subseteq UsedBlocks'
LostOnlyWithFirst == [][LosesOnlyWithFirst]_vars

(* No block is freed that a variable points to.  If that block is in the   *)
(* used list and not the first there, neither is one its words point to.   *)
(* Of the two others nothing is promised: the first used block is not      *)
(* scanned (main.c:138), and one that dropped out of the list with an      *)
(* earlier first block (main.c:220) is neither marked nor scanned.         *)
KeepsRooted ==
  \A x \in Vars : Holds(x) =>
    LET b == var[x] - 1
    IN  /\ b \in held'
        /\ b \in UsedBlocks \ {usedp} =>
             {next[u] - 1 : u \in Payload(b)} \cap held \subseteq held'
RootedStay == [][KeepsRooted]_vars

(* GC_malloc's circular search ends, whatever memory it has to ask for,    *)
(* and so do the loops of a collection.                                    *)
CallsReturn == pc # "run" ~> pc = "run"

(* "Mark blocks of memory in use and free the ones not in use."            *)
(* (main.c:187): what the client reaches is in use.                        *)
Targets(S) == {c \in held : \E b \in S : \E u \in Payload(b) : next[u] = c + 1}
Reachable ==
  LET closed(S) == {var[x] - 1 : x \in {y \in Vars : Holds(y)}} \subseteq S /\ Targets(S) \subseteq S
  IN  {b \in held : \A S \in SUBSET held : closed(S) => b \in S}
ReachableStay == [][Reachable \subseteq held']_vars
=============================================================================
