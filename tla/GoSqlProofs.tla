------------------------------ MODULE GoSqlProofs ------------------------------
(***************************************************************************)
(* Proofs about GoSql for any names, columns and lengths of statements     *)
(* and tables.                                                             *)
(***************************************************************************)
EXTENDS GoSql, SequenceTheorems, WellFoundedInduction, TLAPS

Statements == Creates \cup Inserts \cup Selects

Columns == [name : ColumnNames, datatype : {"text", "from"}]

Table == [columns : Seq(ColumnNames), types : Seq({"text"}),
          rows : Seq(Seq({"number", "nil"})), made : BOOLEAN]

Whole(t) ==
  /\ Len(t.types) = Len(t.columns)
  /\ \A r \in DOMAIN t.rows : Len(t.rows[r]) = Len(t.columns)

(* The inductive invariant: TablesAreWhole with the types. *)
SqlInv ==
  /\ tables \in [Names -> Table]
  /\ first \in Statements \cup {NoStatement}
  /\ state \in {"running", "panic", "fault"}
  /\ state = "running" => \A n \in Names : Whole(tables[n])
  /\ state = "fault" => first.kind \in {"insert", "select"}
-----------------------------------------------------------------------------
(* Lists, and the least of a set of positions *)

LEMMA LeastIsMin ==
  ASSUME NEW S, S \subseteq Nat, S # {}
  PROVE  Min(S) \in S /\ \A y \in S : Min(S) <= y
<1> DEFINE R == OpToRel(<, Nat)
<1>1. \A i, j \in Nat : i < j => <<i, j>> \in R
  BY DEF OpToRel
<1>2. PICK m \in S : \A y \in S : ~(<<y, m>> \in R)
  <2>1. IsWellFoundedOn(R, Nat)
    BY NatLessThanWellFounded
  <2> HIDE DEF R
  <2> QED BY <2>1, WFMin, Zenon
<1> HIDE DEF R
<1>3. \A y \in S : m <= y
  <2> SUFFICES ASSUME NEW y \in S PROVE m <= y
    OBVIOUS
  <2>1. m \in Nat /\ y \in Nat
    OBVIOUS
  <2>2. ~(y < m)
    BY <2>1, <1>1, <1>2
  <2> QED BY <2>1, <2>2
<1> QED BY <1>3 DEF Min

LEMMA ListsAreSequences ==
  ASSUME NEW S, NEW l \in Lists(S), MaxColumns \in Nat
  PROVE  l \in Seq(S)
<1>1. PICK m \in 0..MaxColumns : l \in [1..m -> S]
  BY DEF Lists, BoundedSeq, SeqOf
<1> QED BY <1>1, IsASeq

LEMMA StatementTypes ==
  ASSUME NEW s \in Statements, MaxColumns \in Nat
  PROVE  /\ s.kind \in {"create", "insert", "select"}
         /\ s.name \in Names
         /\ s.kind = "create" => s.cols \in Seq(Columns)
         /\ s.kind = "insert" => s.values \in Seq({"name", "int", "decimal"})
<1>1. CASE s \in Creates
  <2>1. s.kind = "create" /\ s.name \in Names /\ s.cols \in Lists(Columns)
    BY <1>1 DEF Creates, Columns
  <2> QED BY <2>1, ListsAreSequences
<1>2. CASE s \in Inserts
  <2>1. s.kind = "insert" /\ s.name \in Names /\ s.values \in Lists({"name", "int", "decimal"})
    BY <1>2 DEF Inserts
  <2> QED BY <2>1, ListsAreSequences
<1>3. CASE s \in Selects
  BY <1>3 DEF Selects
<1> QED BY <1>1, <1>2, <1>3 DEF Statements

LEMMA NoStatementIsNone == NoStatement \notin Statements /\ NoStatement.kind = "none"
BY DEF NoStatement, Statements, Creates, Inserts, Selects
-----------------------------------------------------------------------------
(* What a CREATE TABLE makes has its columns' types, and a type for each   *)
(* column unless one was invalid.                                          *)
LEMMA MadeIsTyped ==
  ASSUME NEW crt, crt.cols \in Seq(Columns)
  PROVE  /\ Made(crt) \in Table
         /\ Made(crt).rows = <<>>
         /\ Invalid(crt) = {} => Whole(Made(crt))
<1> DEFINE k == Len(crt.cols)
           S == Invalid(crt) \cup {k + 1}
           n == Min(S)
<1>1. k \in Nat /\ DOMAIN crt.cols = 1..k
  OBVIOUS
<1>2. Invalid(crt) \subseteq 1..k
  BY <1>1 DEF Invalid
<1> HIDE DEF k
<1>3. n \in S /\ n \in 1..k + 1
  <2>1. S \subseteq 1..k + 1 /\ S \subseteq Nat /\ S # {}
    BY <1>1, <1>2
  <2> HIDE DEF S
  <2> QED BY <2>1, LeastIsMin
<1> HIDE DEF n
<1> DEFINE j == Min({n, k})
<1>4. j \in {n, k} /\ j \in Nat /\ j <= k
  <2>1. {n, k} \subseteq Nat /\ {n, k} # {}
    BY <1>1, <1>3
  <2>2. \A y \in {n, k} : Min({n, k}) <= y
    BY <2>1, LeastIsMin
  <2> QED BY <2>1, <2>2, LeastIsMin
<1> HIDE DEF j
<1>5. Made(crt) = [columns |-> [i \in 1..j |-> crt.cols[i].name],
                   types |-> [i \in 1..n - 1 |-> "text"],
                   rows |-> <<>>, made |-> TRUE]
  BY DEF Made, n, j, k
<1>6. \A i \in 1..j : crt.cols[i].name \in ColumnNames
  <2>1. \A i \in 1..k : crt.cols[i] \in Columns
    BY <1>1
  <2> QED BY <2>1, <1>1, <1>4 DEF Columns
<1>7. [i \in 1..j |-> crt.cols[i].name] \in Seq(ColumnNames) /\ Len([i \in 1..j |-> crt.cols[i].name]) = j
  <2>1. j \in Nat
    BY <1>4
  <2> QED BY <2>1, <1>6
<1>8. [i \in 1..n - 1 |-> "text"] \in Seq({"text"}) /\ Len([i \in 1..n - 1 |-> "text"]) = n - 1
  BY <1>1, <1>3
<1>9. ASSUME Invalid(crt) = {} PROVE j = n - 1
  <2>1. n = k + 1
    BY <1>3, <1>9
  <2> QED BY <2>1, <1>1, <1>4
<1>10. Made(crt) \in Table /\ Made(crt).rows = <<>>
  BY <1>5, <1>7, <1>8 DEF Table
<1>11. ASSUME Invalid(crt) = {} PROVE Whole(Made(crt))
  <2>1. Len(Made(crt).types) = n - 1 /\ Len(Made(crt).columns) = j
    <3>1. /\ Made(crt).types = [i \in 1..n - 1 |-> "text"]
          /\ Made(crt).columns = [i \in 1..j |-> crt.cols[i].name]
      BY <1>5
    <3> QED BY <3>1, <1>7, <1>8, Zenon
  <2>2. DOMAIN Made(crt).rows = {}
    BY <1>10
  <2> QED BY <2>1, <2>2, <1>9, <1>11 DEF Whole
<1> QED BY <1>10, <1>11

(* A row that fits has a cell for each column. *)
LEMMA RowIsTyped ==
  ASSUME NEW inst, inst.values \in Seq({"name", "int", "decimal"})
  PROVE  Row(inst) \in Seq({"number", "nil"}) /\ Len(Row(inst)) = Len(inst.values)
<1>1. Len(inst.values) \in Nat /\ DOMAIN inst.values = 1..Len(inst.values)
  OBVIOUS
<1>2. Row(inst) \in [1..Len(inst.values) -> {"number", "nil"}]
  BY <1>1 DEF Row, Cell
<1> QED BY <1>1, <1>2, IsASeq

(* Where a column is found there are a type and, in every row, a cell. *)
LEMMA FoundInBounds ==
  ASSUME NEW t \in Table, Whole(t), NEW col \in ToSet(t.columns), NEW r \in DOMAIN t.rows
  PROVE  ~(At(t, col) > Min({Len(t.types), Len(t.rows[r])}))
<1> DEFINE S == {i \in DOMAIN t.columns : t.columns[i] = col}
           c == Len(t.columns)
<1>1. t.columns \in Seq(ColumnNames) /\ c \in Nat /\ DOMAIN t.columns = 1..c
  BY DEF Table
<1>2. S \subseteq Nat /\ S # {}
  BY <1>1 DEF ToSet
<1>3. At(t, col) \in 1..c
  BY <1>1, <1>2, LeastIsMin DEF At
<1>4. Len(t.types) = c /\ Len(t.rows[r]) = c
  BY DEF Whole
<1>5. Min({Len(t.types), Len(t.rows[r])}) = c
  <2>1. {Len(t.types), Len(t.rows[r])} = {c}
    BY <1>4
  <2>2. {c} \subseteq Nat /\ {c} # {}
    BY <1>1
  <2>3. Min({c}) \in {c}
    BY <2>2, LeastIsMin
  <2> QED BY <2>1, <2>3
<1> QED BY <1>1, <1>3, <1>5
-----------------------------------------------------------------------------
(* The steps *)

LEMMA InitIsWhole == Init => SqlInv
<1> SUFFICES ASSUME Init PROVE SqlInv
  OBVIOUS
<1>1. NoTable \in Table /\ Whole(NoTable)
  BY DEF NoTable, Table, Whole
<1> QED BY <1>1 DEF Init, SqlInv

(* The line's first statement is one. *)
LEMMA FirstIsStatement ==
  ASSUME SqlInv, NEW s \in Statements
  PROVE  First(s) \in Statements
BY DEF SqlInv, First

LEMMA StatementKeepsWhole ==
  ASSUME SqlInv, MaxColumns \in Nat, NEW s \in Statements, Statement(s)
  PROVE  SqlInv'
<1>1. state = "running" /\ first' = First(s) /\ first' \in Statements
  BY FirstIsStatement DEF Statement
<1>2. s.name \in Names /\ First(s).name \in Names
  BY StatementTypes, <1>1
<1>3. tables \in [Names -> Table] /\ \A n \in Names : Whole(tables[n])
  BY <1>1 DEF SqlInv
<1>4. CASE s.kind = "create"
  <2> DEFINE crt == First(s)
  <2>1. Create(s)
    BY <1>4 DEF Statement
  <2>2. CASE crt.kind # "create"
    <3>1. state' = "fault" /\ tables' = tables
      BY <2>1, <2>2 DEF Create
    <3>2. crt.kind \in {"insert", "select"}
      BY <1>1, <2>2, StatementTypes
    <3> QED BY <1>1, <1>3, <3>1, <3>2 DEF SqlInv
  <2>3. CASE crt.kind = "create"
    <3>1. /\ tables' = [tables EXCEPT ![crt.name] = Made(crt)]
          /\ state' = IF Invalid(crt) = {} THEN "running" ELSE "panic"
      BY <2>1, <2>3 DEF Create
    <3>2. crt.cols \in Seq(Columns)
      BY <1>1, <2>3, StatementTypes
    <3>3. Made(crt) \in Table /\ (Invalid(crt) = {} => Whole(Made(crt)))
      BY <3>2, MadeIsTyped
    <3>4. tables' \in [Names -> Table]
      BY <1>3, <3>1, <3>3
    <3>5. ASSUME state' = "running", NEW n \in Names PROVE Whole(tables'[n])
      BY <1>2, <1>3, <3>1, <3>3, <3>5
    <3>6. state' \in {"running", "panic"}
      BY <3>1
    <3> QED BY <1>1, <3>4, <3>5, <3>6 DEF SqlInv
  <2> QED BY <2>2, <2>3
<1>5. CASE s.kind = "insert"
  <2>1. Insert(s)
    BY <1>5 DEF Statement
  <2>2. CASE ~Fits(s)
    <3>1. tables' = tables /\ state' = "panic"
      BY <2>1, <2>2 DEF Insert
    <3> QED BY <1>1, <1>3, <3>1 DEF SqlInv
  <2>3. CASE Fits(s)
    <3> DEFINE t == tables[s.name]
               u == [t EXCEPT !.rows = Append(@, Row(s))]
    <3>1. tables' = [tables EXCEPT ![s.name] = u] /\ state' = "running"
      BY <2>1, <2>3 DEF Insert
    <3>2. s.values \in Seq({"name", "int", "decimal"}) /\ Len(s.values) = Len(t.columns)
      BY <1>5, <2>3, StatementTypes DEF Fits
    <3>3. Row(s) \in Seq({"number", "nil"}) /\ Len(Row(s)) = Len(t.columns)
      BY <3>2, RowIsTyped
    <3>4. t \in Table /\ Whole(t)
      BY <1>2, <1>3
    <3> DEFINE rows == Append(t.rows, Row(s))
    <3>5. t.rows \in Seq(Seq({"number", "nil"}))
      BY <3>4 DEF Table
    <3>6. /\ rows \in Seq(Seq({"number", "nil"})) /\ DOMAIN rows = 1..Len(t.rows) + 1
          /\ \A r \in 1..Len(t.rows) : rows[r] = t.rows[r]
          /\ rows[Len(t.rows) + 1] = Row(s)
          /\ Len(t.rows) \in Nat /\ DOMAIN t.rows = 1..Len(t.rows)
      BY <3>3, <3>5, AppendProperties, LenProperties
    <3>7. /\ u.columns = t.columns /\ u.types = t.types /\ u.rows = rows
          /\ u \in Table
      BY <3>4, <3>6 DEF Table
    <3>8. ASSUME NEW r \in DOMAIN rows PROVE Len(rows[r]) = Len(t.columns)
      <4> HIDE DEF rows, t
      <4>1. CASE r = Len(t.rows) + 1
        BY <4>1, <3>3, <3>6
      <4>2. CASE r \in 1..Len(t.rows)
        BY <4>2, <3>4, <3>6 DEF Whole
      <4> QED BY <3>8, <3>6, <4>1, <4>2
    <3>9. Whole(u)
      BY <3>4, <3>7, <3>8 DEF Whole
    <3>10. tables' \in [Names -> Table] /\ \A n \in Names : Whole(tables'[n])
      <4> HIDE DEF u
      <4> QED BY <1>2, <1>3, <3>1, <3>7, <3>9
    <3> QED BY <1>1, <3>1, <3>10 DEF SqlInv
  <2> QED BY <2>2, <2>3
<1>6. CASE s.kind = "select"
  <2> DEFINE t == tables[s.name]
  <2>1. Select(s)
    BY <1>6 DEF Statement
  <2>2. t \in Table /\ Whole(t)
    BY <1>2, <1>3
  <2>3. \A col \in ToSet(t.columns), r \in DOMAIN t.rows :
          ~(At(t, col) > Min({Len(t.types), Len(t.rows[r])}))
    BY <2>2, FoundInBounds
  <2>4. tables' = tables /\ state' \in {"running", "panic"}
    BY <2>1, <2>3 DEF Select
  <2> QED BY <1>1, <1>3, <2>4 DEF SqlInv
<1> QED BY <1>4, <1>5, <1>6, StatementTypes

LEMMA StepKeepsWhole ==
  ASSUME SqlInv, MaxColumns \in Nat, [Next]_vars
  PROVE  SqlInv'
<1>1. ASSUME NEW s \in Creates \cup Inserts \cup Selects, Statement(s) PROVE SqlInv'
  BY <1>1, StatementKeepsWhole DEF Statements
<1>2. CASE NextLine
  BY <1>2 DEF NextLine, SqlInv, Whole
<1>3. CASE BadLine
  BY <1>3 DEF BadLine, SqlInv
<1>4. CASE UNCHANGED vars
  BY <1>4 DEF vars, SqlInv, Whole
<1> QED BY <1>1, <1>2, <1>3, <1>4 DEF Next

LEMMA SqlInvHolds ==
  ASSUME MaxColumns \in Nat
  PROVE  Spec => []SqlInv
<1>1. Init => SqlInv
  BY InitIsWhole
<1>2. SqlInv /\ [Next]_vars => SqlInv'
  BY StepKeepsWhole
<1> QED BY <1>1, <1>2, PTL DEF Spec

LEMMA WholeTables == SqlInv => TablesAreWhole
BY DEF SqlInv, Whole, TablesAreWhole

(* No statement finds half a table and no SELECT gets past a row or the    *)
(* types (memory.go:189, :194), whatever the lines; only a CREATE TABLE    *)
(* behind another kind of statement faults (repl.go:31).                   *)
THEOREM TablesStayWhole ==
  ASSUME MaxColumns \in Nat
  PROVE  Spec => []TablesAreWhole
BY WholeTables, SqlInvHolds, PTL
-----------------------------------------------------------------------------
(* Rows *)

LEMMA AppendedIsPrefix ==
  ASSUME NEW S, NEW q \in Seq(S), NEW e \in S
  PROVE  IsPrefix(q, q) /\ IsPrefix(q, Append(q, e))
<1>1. Len(q) \in Nat /\ \A i \in 1..Len(q) : q[i] \in S
  OBVIOUS
<1>2. SubSeq(q, 1, Len(q)) = SubSeq(Append(q, e), 1, Len(q))
  BY <1>1
<1> QED BY <1>1, <1>2 DEF IsPrefix

LEMMA StepKeepsRows ==
  ASSUME SqlInv, MaxColumns \in Nat, Next
  PROVE  KeepsRows
<1>1. \A n \in Names : IsPrefix(tables[n].rows, tables[n].rows)
  <2>1. \A n \in Names : tables[n].rows \in Seq(Seq({"number", "nil"}))
    BY DEF SqlInv, Table
  <2> QED BY <2>1, AppendedIsPrefix, EmptySeq
<1>2. tables' = tables => KeepsRows
  BY <1>1 DEF KeepsRows
<1>3. ASSUME NEW s \in Statements, Statement(s), s.kind = "create" PROVE KeepsRows
  <2> DEFINE crt == First(s)
  <2>1. Create(s) /\ first' = crt
    BY <1>3 DEF Statement
  <2>2. CASE crt.kind = "create"
    <3>1. tables' = [tables EXCEPT ![crt.name] = Made(crt)]
      BY <2>1, <2>2 DEF Create
    <3>2. Made(crt).rows = <<>>
      BY DEF Made
    <3>3. tables \in [Names -> Table]
      BY DEF SqlInv
    <3> QED BY <1>1, <2>1, <2>2, <3>1, <3>2, <3>3 DEF KeepsRows
  <2>3. CASE crt.kind # "create"
    <3>1. tables' = tables
      BY <2>1, <2>3 DEF Create
    <3> QED BY <1>2, <3>1
  <2> QED BY <2>2, <2>3
<1>4. ASSUME NEW s \in Statements, Statement(s), s.kind = "insert" PROVE KeepsRows
  <2> DEFINE t == tables[s.name]
  <2>1. Insert(s)
    BY <1>4 DEF Statement
  <2>2. CASE Fits(s)
    <3>1. tables' = [tables EXCEPT ![s.name] = [t EXCEPT !.rows = Append(@, Row(s))]]
      BY <2>1, <2>2 DEF Insert
    <3>2. Row(s) \in Seq({"number", "nil"})
      BY <1>4, StatementTypes, RowIsTyped
    <3>3. tables \in [Names -> Table] /\ s.name \in Names
      BY <1>4, StatementTypes DEF SqlInv
    <3>4. t \in Table /\ t.rows \in Seq(Seq({"number", "nil"}))
      BY <3>3 DEF Table
    <3>5. IsPrefix(t.rows, Append(t.rows, Row(s)))
      BY <3>2, <3>4, AppendedIsPrefix
    <3>6. tables'[s.name].rows = Append(t.rows, Row(s))
      BY <3>1, <3>3, <3>4 DEF Table
    <3>7. \A n \in Names \ {s.name} : tables'[n] = tables[n]
      BY <3>1, <3>3
    <3> QED BY <1>1, <3>5, <3>6, <3>7 DEF KeepsRows
  <2>3. CASE ~Fits(s)
    <3>1. tables' = tables
      BY <2>1, <2>3 DEF Insert
    <3> QED BY <1>2, <3>1
  <2> QED BY <2>2, <2>3
<1>5. ASSUME NEW s \in Statements, Statement(s), s.kind = "select" PROVE KeepsRows
  <2>1. tables' = tables
    BY <1>5 DEF Statement, Select
  <2> QED BY <1>2, <2>1
<1>6. CASE NextLine \/ BadLine
  <2>1. tables' = tables
    BY <1>6 DEF NextLine, BadLine
  <2> QED BY <1>2, <2>1
<1> QED BY <1>3, <1>4, <1>5, <1>6, StatementTypes DEF Next, Statements

(* Rows stay, in their order, until a line that began with CREATE TABLE of *)
(* their table comes to a CREATE TABLE (repl.go:31).                       *)
THEOREM RowsStay ==
  ASSUME MaxColumns \in Nat
  PROVE  Spec => RowsAreKept
<1>1. SqlInv /\ [Next]_vars => [KeepsRows]_vars
  BY StepKeepsRows
<1> QED BY <1>1, SqlInvHolds, PTL DEF Spec, RowsAreKept
=============================================================================
