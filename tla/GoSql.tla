-------------------------------- MODULE GoSql --------------------------------
(***************************************************************************)
(* The SQL shell of go/repl: repl.go reads a line, executes each of its    *)
(* statements on the backend of memory.go, and panics on the first error.  *)
(*                                                                         *)
(* Statements are those the parser can yield.  Expressions are literals;   *)
(* a string never gets through the lexer, which goes on from its closing   *)
(* quote, so what is left is identifiers and numbers.  Of the types only   *)
(* "text" is a keyword.  A line that does not parse executes nothing and   *)
(* ends the program, so a line is given here statement by statement.       *)
(***************************************************************************)
EXTENDS Integers, Sequences, SequencesExt, FiniteSetsExt

CONSTANTS
  Names,       \* of tables
  ColumnNames,
  MaxColumns,  \* bounds the lists of a statement
  MaxRows      \* bounds the rows of a table

NoTable == [columns |-> <<>>, types |-> <<>>, rows |-> <<>>, made |-> FALSE]
NoStatement == [kind |-> "none"]

VARIABLES
  tables,   \* each name's table, or NoTable
  first,    \* ast.Statements[0] of the line under way, or NoStatement
  state     \* "running"; "panic" at an error, "fault" at a bad index or nil

vars == <<tables, first, state>>

Init ==
  /\ tables = [n \in Names |-> NoTable]
  /\ first = NoStatement
  /\ state = "running"

Lists(S) == BoundedSeq(S, MaxColumns)

(* A column type is a keyword; a value a name, a whole number, or one that *)
(* strconv.Atoi rejects.                                                   *)
Creates == [kind : {"create"}, name : Names,
            cols : Lists([name : ColumnNames, datatype : {"text", "from"}])]
Inserts == [kind : {"insert"}, name : Names, values : Lists({"name", "int", "decimal"})]
Selects == [kind : {"select"}, name : Names, item : Lists(ColumnNames \cup {"number"})]
-----------------------------------------------------------------------------
(* CreateTable *)

Invalid(crt) == {i \in DOMAIN crt.cols : crt.cols[i].datatype # "text"}

(* Columns are added up to the first whose type is invalid, that one's     *)
(* name too; the table is in the map before.                               *)
Made(crt) ==
  LET n == Min(Invalid(crt) \cup {Len(crt.cols) + 1})
  IN  [columns |-> [i \in 1..Min({n, Len(crt.cols)}) |-> crt.cols[i].name],
       types |-> [i \in 1..n - 1 |-> "text"],
       rows |-> <<>>, made |-> TRUE]

(* The line's first statement, which is this one or one before it. *)
First(s) == IF first = NoStatement THEN s ELSE first

(* Mutant: an error is printed and the program goes on. *)
CreateReported(s) ==
  LET crt == First(s)
  IN  /\ state' = IF crt.kind # "create" THEN "fault" ELSE "running"
      /\ tables' = IF crt.kind # "create" THEN tables
                   ELSE [tables EXCEPT ![crt.name] = Made(crt)]

(* The statement executed is the line's first, whichever this one is.      *)
Create(s) ==
  LET crt == First(s)
  IN  IF crt.kind # "create"
      THEN state' = "fault" /\ UNCHANGED tables
      ELSE /\ tables' = [tables EXCEPT ![crt.name] = Made(crt)]
           /\ state' = IF Invalid(crt) = {} THEN "running" ELSE "panic"
-----------------------------------------------------------------------------
(* Insert *)

Fits(inst) ==
  /\ tables[inst.name].made
  /\ Len(inst.values) = Len(tables[inst.name].columns)
  /\ \A i \in DOMAIN inst.values : inst.values[i] # "decimal"

(* tokenToCell: a name becomes a cell of no bytes. *)
Cell(value) == IF value = "int" THEN "number" ELSE "nil"
Row(inst) == [i \in DOMAIN inst.values |-> Cell(inst.values[i])]

(* Mutant: the rows there were are forgotten. *)
InsertOver(inst) ==
  /\ Len(tables[inst.name].rows) < MaxRows
  /\ state' = IF Fits(inst) THEN "running" ELSE "panic"
  /\ tables' = IF Fits(inst)
               THEN [tables EXCEPT ![inst.name].rows = <<Row(inst)>>]
               ELSE tables

Insert(inst) ==
  /\ Len(tables[inst.name].rows) < MaxRows
  /\ state' = IF Fits(inst) THEN "running" ELSE "panic"
  /\ tables' = IF Fits(inst)
               THEN [tables EXCEPT ![inst.name].rows = Append(@, Row(inst))]
               ELSE tables
-----------------------------------------------------------------------------
(* Select, and the loop that prints its results *)

At(t, col) == Min({i \in DOMAIN t.columns : t.columns[i] = col})

(* Nothing is looked up in a table without rows. *)
Select(slct) ==
  LET t == tables[slct.name]
      known == {k \in DOMAIN slct.item : slct.item[k] \in ToSet(t.columns)}
      faults == \E k \in known, r \in DOMAIN t.rows :
                  At(t, slct.item[k]) > Min({Len(t.types), Len(t.rows[r])})
      fails == ~t.made \/ (t.rows # <<>> /\ known # DOMAIN slct.item)
  IN  /\ UNCHANGED tables
      /\ state' = IF faults THEN "fault" ELSE IF fails THEN "panic" ELSE "running"
-----------------------------------------------------------------------------
(* main *)

Statement(s) ==
  /\ state = "running"
  /\ CASE s.kind = "create" -> Create(s)
       [] s.kind = "insert" -> Insert(s)
       [] OTHER -> Select(s)
  /\ first' = First(s)

(* The next line is read; one of no statements changes nothing, and at the *)
(* end of the input every line is.                                         *)
NextLine ==
  /\ state = "running" /\ first # NoStatement
  /\ first' = NoStatement
  /\ UNCHANGED <<tables, state>>

BadLine ==
  /\ state = "running" /\ first = NoStatement
  /\ state' = "panic"
  /\ UNCHANGED <<tables, first>>

Next ==
  \/ \E s \in Creates \cup Inserts \cup Selects : Statement(s)
  \/ NextLine \/ BadLine

Spec == Init /\ [][Next]_vars
-----------------------------------------------------------------------------
(* While the program runs every table is whole: a failed CREATE TABLE      *)
(* leaves half of one, but the program does not outlive it (repl.go:33).   *)
(* So no SELECT gets past a row or the types (memory.go:189, :194), and    *)
(* what is left to fault is a CREATE TABLE behind another kind of          *)
(* statement (repl.go:31).                                                 *)
TablesAreWhole ==
  /\ state = "running" =>
       \A n \in Names :
         /\ Len(tables[n].types) = Len(tables[n].columns)
         /\ \A r \in DOMAIN tables[n].rows : Len(tables[n].rows[r]) = Len(tables[n].columns)
  /\ state = "fault" => first.kind \in {"insert", "select"}

(* Rows stay, in their order, until the table is created anew; which is    *)
(* not only by its own statement: a line that begins with CREATE TABLE n   *)
(* empties n again at any CREATE TABLE after that (repl.go:31).            *)
KeepsRows ==
  \A n \in Names :
    \/ IsPrefix(tables[n].rows, tables'[n].rows)
    \/ first'.kind = "create" /\ first'.name = n /\ tables'[n].rows = <<>>
RowsAreKept == [][KeepsRows]_vars
=============================================================================
