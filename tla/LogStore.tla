------------------------------ MODULE LogStore ------------------------------
(***************************************************************************)
(* The append-only log of sparkv (go/kv-store/lsb/log.go): every write     *)
(* appends a line to store.json with one write(2) for the JSON text and    *)
(* another for its newline, and every read parses the whole file.  Several *)
(* goroutines may write ("none of this is thread safe!!", log.go:1), and   *)
(* the process may die between and in those writes.                        *)
(*                                                                         *)
(* A line is the entry it parses to, or Garbage when it does not parse: a  *)
(* torn line, two texts on one line, an empty line.  Garbage is read as    *)
(* the zero Log, an entry of the key "" with no data.                      *)
(***************************************************************************)
EXTENDS Integers, Sequences, SequencesExt

CONSTANTS
  Keys, Values, Absent,  \* Absent is the value of a deleted entry
  EmptyKey,              \* "", which clients may use too
  ZeroValue,             \* the value of an entry that has no data
  Writers,               \* the goroutines that call Set and Delete
  Garbage,               \* a line that does not parse
  MaxLines               \* bound: how many lines the log may hold

ASSUME LogAssumption ==
  /\ Absent \notin Values
  /\ Garbage \notin [key : Keys, val : Values \cup {Absent}]
  /\ MaxLines \in Nat

VARIABLES
  log,    \* the lines of store.json
  open,   \* whether its last line still lacks a newline
  pc,     \* each writer: "idle", "newline" (text written), or "unlinked"
  entry,  \* the entry each writer is appending, Garbage when it is idle
  alone,  \* history: no other append touched this writer's line or overlapped
  may,    \* history: per key, the values a read may answer
  clean   \* history: no two appends to this file overlapped, none was cut short

vars == <<log, open, pc, entry, alone, may, clean>>

Stored == Values \cup {Absent}
Entry == [key : Keys, val : Stored]
Line == Entry \cup {Garbage}

Init ==
  /\ log = <<>>
  /\ open = FALSE
  /\ pc = [w \in Writers |-> "idle"]
  /\ entry = [w \in Writers |-> Garbage]
  /\ alone = [w \in Writers |-> FALSE]
  /\ may = [k \in Keys |-> {Absent}]
  /\ clean = TRUE
-----------------------------------------------------------------------------
IsFor(l, k) == IF l = Garbage THEN k = EmptyKey ELSE l.key = k
ValueOf(l) == IF l = Garbage THEN ZeroValue ELSE l.val

(* Mutant: the oldest entry of k. *)
GetOldest(k) ==
  LET i == SelectInSeq(log, LAMBDA l : IsFor(l, k))
  IN  IF i = 0 THEN Absent ELSE ValueOf(log[i])

(* Get: the newest entry of k. *)
Get(k) ==
  LET i == SelectLastInSeq(log, LAMBDA l : IsFor(l, k))
  IN  IF i = 0 THEN Absent ELSE ValueOf(log[i])

(* Mutant: the file is opened without O_APPEND and written from its start. *)
Overwritten(line) == <<line>> \o (IF log = <<>> THEN <<>> ELSE Tail(log))

(* Text written where the file ends: on the unterminated line if there is  *)
(* one, and then neither text parses any more.                             *)
Appended(line) ==
  IF open THEN Append(Front(log), Garbage) ELSE Append(log, line)

Idle(w) == pc[w] = "idle"
Unfinished == {w \in Writers : pc[w] = "newline"}

(* AppendLog's first write(2): the JSON text. *)
WriteText(w, k, v) ==
  LET e == [key |-> k, val |-> v]
      single == ~open /\ \A x \in Writers : Idle(x)
  IN  /\ Idle(w)
      /\ Len(log) < MaxLines
      /\ log' = Appended(e)
      /\ open' = TRUE
      /\ pc' = [pc EXCEPT ![w] = "newline"]
      /\ entry' = [entry EXCEPT ![w] = e]
      /\ alone' = [x \in Writers |-> x = w /\ single]
      /\ may' = [may EXCEPT ![k] = @ \cup {v}]
      /\ clean' = (clean /\ Unfinished = {})

Set(w, k, v) == WriteText(w, k, v)
Delete(w, k) == WriteText(w, k, Absent)

Return(w) ==
  /\ pc' = [pc EXCEPT ![w] = "idle"]
  /\ entry' = [entry EXCEPT ![w] = Garbage]
  /\ alone' = [alone EXCEPT ![w] = FALSE]

(* AppendLog's second write(2), after which the call returns. *)
WriteNewline(w) ==
  /\ pc[w] = "newline"
  /\ log' = IF open THEN log ELSE Append(log, Garbage)
  /\ open' = FALSE
  /\ may' = IF alone[w] THEN [may EXCEPT ![entry[w].key] = {entry[w].val}] ELSE may
  /\ Return(w)
  /\ UNCHANGED clean

(* The newline of a writer whose file ResetDB removed meanwhile. *)
WriteUnlinked(w) ==
  /\ pc[w] = "unlinked"
  /\ Return(w)
  /\ UNCHANGED <<log, open, may, clean>>

(* Mutant: the file is truncated and not removed, so that a writer in the  *)
(* middle of an append has the new file open.                              *)
ResetTruncating ==
  /\ log' = <<>>
  /\ open' = FALSE
  /\ may' = [k \in Keys |-> {Absent}]
  /\ clean' = TRUE
  /\ UNCHANGED <<pc, entry, alone>>

ResetDB ==
  /\ log' = <<>>
  /\ open' = FALSE
  /\ pc' = [w \in Writers |-> IF Idle(w) THEN "idle" ELSE "unlinked"]
  /\ may' = [k \in Keys |-> {Absent}]
  /\ clean' = TRUE
  /\ UNCHANGED <<entry, alone>>

(* The process dies, or panics on a failed write. *)
Die ==
  /\ pc' = [w \in Writers |-> "idle"]
  /\ entry' = [w \in Writers |-> Garbage]
  /\ alone' = [w \in Writers |-> FALSE]

Crash ==
  /\ Die
  /\ clean' = (clean /\ Unfinished = {})
  /\ UNCHANGED <<log, open, may>>

(* It dies with a part of the text written. *)
CrashInText(w) ==
  /\ Idle(w)
  /\ Len(log) < MaxLines
  /\ log' = Appended(Garbage)
  /\ open' = TRUE
  /\ Die
  /\ clean' = FALSE
  /\ UNCHANGED may

Next ==
  \/ \E w \in Writers, k \in Keys : Delete(w, k) \/ \E v \in Values : Set(w, k, v)
  \/ \E w \in Writers : WriteNewline(w) \/ WriteUnlinked(w) \/ CrashInText(w)
  \/ ResetDB
  \/ Crash

Spec == Init /\ [][Next]_vars
-----------------------------------------------------------------------------
(* Properties *)

(* Every variable has its type, and only a line that exists can be open.   *)
(* The proofs rest on it.                                                  *)
TypeOK ==
  /\ log \in Seq(Line)
  /\ open \in BOOLEAN
  /\ pc \in [Writers -> {"idle", "newline", "unlinked"}]
  /\ entry \in [Writers -> Line]
  /\ alone \in [Writers -> BOOLEAN]
  /\ may \in [Keys -> SUBSET Stored]
  /\ clean \in BOOLEAN
  /\ open => log # <<>>

(* Get (log.go:81-96) answers the last write that was acknowledged after   *)
(* running alone on a line of its own, or one begun since; a torn line     *)
(* costs at most the write appended to it and never brings back a value    *)
(* older than the last such write.  Only "" may be answered with the zero  *)
(* value of a line that does not parse, and only in a spoiled file.        *)
GetIsRecent ==
  \A k \in Keys : Get(k) \in may[k] \/ (k = EmptyKey /\ ~clean /\ Get(k) = ZeroValue)

(* In a file where no two appends overlapped and none was cut short every  *)
(* line parses and none is left unfinished: not even a writer whose file   *)
(* was removed in the middle of its append (log.go:65) leaves anything in  *)
(* the next one.                                                           *)
CleanLogParses ==
  clean => /\ \A i \in DOMAIN log : log[i] # Garbage
           /\ open => Unfinished # {}

(* AppendLog never alters a line that has its newline (O_APPEND,           *)
(* log.go:19): only the unterminated last line can be spoiled.             *)
Terminated == IF open THEN Front(log) ELSE log
WholeLinesStay == [][log' = <<>> \/ IsPrefix(Terminated, Terminated')]_vars
=============================================================================
