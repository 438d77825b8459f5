------------------------------ MODULE MCPrograms ------------------------------
(***************************************************************************)
(* The small programs of the repository, checked in one run: `program'     *)
(* says which of them runs, and the variables of the others stay as they   *)
(* are.  They share no state; nothing here models how they would meet.     *)
(* The largest, ConservativeGc, is extended, the others are instances.     *)
(***************************************************************************)
EXTENDS ConservativeGc, Sequences

CONSTANTS
  Nodes, Vals, MaxArray,                     \* LinkedList
  Length, Numbers,                           \* MergeSort
  Questions, NoQuestions, PageSize, MaxTime, \* QuestionPoll
  Names, ColumnNames, MaxColumns, MaxRows    \* GoSql

VARIABLES
  program,
  lnext, val, live, head, lpc, ptr, prev, at, data, count, expect,  \* LinkedList
  lis, frames, buf, i, ll, rr, start,                               \* MergeSort
  now, date, oldQs, printed, since, poll,                           \* QuestionPoll
  tables, first, state                                              \* GoSql

List == INSTANCE LinkedList WITH next <- lnext, pc <- lpc
Sort == INSTANCE MergeSort
Poll == INSTANCE QuestionPoll WITH NULL <- NoQuestions
Sql == INSTANCE GoSql

listVars == <<lnext, val, live, head, lpc, ptr, prev, at, data, count, expect>>
sortVars == <<lis, frames, buf, i, ll, rr, start>>
pollVars == <<now, date, oldQs, printed, since, poll>>
sqlVars == <<tables, first, state>>
allVars == <<program, vars, listVars, sortVars, pollVars, sqlVars>>

Off == "off"
SortOff ==
  lis = Off /\ frames = Off /\ buf = Off /\ i = Off /\ ll = Off /\ rr = Off /\ start = Off
PollOff ==
  now = Off /\ date = Off /\ oldQs = Off /\ printed = Off /\ since = Off /\ poll = Off

MCInit ==
  /\ Init /\ List!Init /\ Sql!Init
  /\ \/ program \in {"list", "sql", "gc"} /\ SortOff /\ PollOff
     \/ program = "sort" /\ Sort!Init /\ PollOff
     \/ program = "poll" /\ SortOff /\ Poll!Init

ListNext == program = "list" /\ List!Next /\ UNCHANGED <<vars, sortVars, pollVars, sqlVars>>
SortNext == program = "sort" /\ Sort!Next /\ UNCHANGED <<vars, listVars, pollVars, sqlVars>>
PollNext == program = "poll" /\ Poll!Next /\ UNCHANGED <<vars, listVars, sortVars, sqlVars>>
SqlNext == program = "sql" /\ Sql!Next /\ UNCHANGED <<vars, listVars, sortVars, pollVars>>
GcNext == program = "gc" /\ Next /\ UNCHANGED <<listVars, sortVars, pollVars, sqlVars>>

MCNext ==
  /\ ListNext \/ SortNext \/ PollNext \/ SqlNext \/ GcNext
  /\ UNCHANGED program

(* A program of the others is done for good, and any may rest; of a call   *)
(* of the collector's, see ConservativeGc.                                 *)
MCSpec == MCInit /\ [][MCNext]_allVars /\ WF_vars(program = "gc" /\ Step)
-----------------------------------------------------------------------------
(* LinkedList: every operation leaves what a sequence would hold, leaks no *)
(* node and uses none that it freed.                                       *)
OperationsAreExact == program = "list" => List!OperationsAreExact

(* MergeSort: the part of the array is sorted in place, and nothing else   *)
(* of the array is written.                                                *)
SortsInPlace == program = "sort" => Sort!SortsInPlace

(* QuestionPoll: what is printed is news, but for three cases the program  *)
(* cannot tell.                                                            *)
PrintedIsNews == program = "poll" => Poll!PrintedIsNews

(* GoSql: while the shell runs no row or type is missing from a table, and *)
(* only a CREATE TABLE behind another statement ends it by a fault.        *)
TablesAreWhole == program = "sql" => Sql!TablesAreWhole

(* GoSql: rows are lost only to a CREATE TABLE in a line that begins with  *)
(* one of the same table.                                                  *)
RowsAreKept == [][program = "sql" => Sql!KeepsRows]_sqlVars
=============================================================================
