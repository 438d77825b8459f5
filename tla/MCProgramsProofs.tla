--------------------------- MODULE MCProgramsProofs ---------------------------
(***************************************************************************)
(* Proofs about the small programs of MCPrograms: the poller for any site  *)
(* and page, the sort for any array of integers, the list for any number   *)
(* of nodes.  The shell's invariant is that of GoSqlProofs.                *)
(***************************************************************************)
EXTENDS MCPrograms, FiniteSetTheorems, SequenceTheorems, TLAPS

-----------------------------------------------------------------------------
(* QuestionPoll *)

NoDate == Poll!NoDate

Dates == {d \in [Questions -> Int] : \A q \in Questions : NoDate <= d[q] /\ d[q] <= now}

Goings == [active : SUBSET Questions, gone : BOOLEAN]

ListedIn(d) == {q \in Questions : d[q] # NoDate}

(* S is a page the site could send when its dates were d. *)
IsPage(S, d) ==
  /\ S \subseteq ListedIn(d)
  /\ Cardinality(S) <= PageSize
  /\ Cardinality(S) < PageSize => S = ListedIn(d)
  /\ \A q \in S, u \in ListedIn(d) \ S : d[q] >= d[u]

(* What went on since the last poll is what the dates differ by. *)
SinceLastPoll ==
  \A q \in Questions :
    /\ date[q] >= poll.date[q] \/ (since.gone /\ date[q] = NoDate)
    /\ q \notin since.active => date[q] = poll.date[q] \/ since.gone

(* The page of the last poll holds that poll's dates. *)
LastPage ==
  oldQs # NoQuestions =>
    /\ DOMAIN oldQs \subseteq ListedIn(poll.date)
    /\ \A q \in DOMAIN oldQs : oldQs[q] = poll.date[q]
    /\ poll.failed \/ IsPage(DOMAIN oldQs, poll.date)

PollInv ==
  /\ now \in Nat
  /\ date \in Dates /\ poll.date \in Dates
  /\ since \in Goings
  /\ SinceLastPoll
  /\ LastPage
  /\ Poll!PrintedIsNews

LEMMA SameCardinality == \A S : Poll!Cardinality(S) = Cardinality(S)
BY Zenon DEF Poll!Cardinality, Cardinality

LEMMA PollStarts == Poll!Init => PollInv
<1> SUFFICES ASSUME Poll!Init PROVE PollInv
  OBVIOUS
<1>1. now = 0 /\ date \in [Questions -> {NoDate, 0}] /\ poll.date = date
  BY DEF Poll!Init, NoDate
<1>2. NoDate = -1
  BY DEF NoDate, Poll!NoDate
<1>3. date \in Dates
  BY <1>1, <1>2 DEF Dates
<1>4. oldQs = NoQuestions /\ poll.first
  BY DEF Poll!Init
<1>5. SinceLastPoll
  BY <1>1, <1>3 DEF SinceLastPoll, Dates
<1>6. since \in Goings
  BY DEF Poll!Init, Poll!Quiet, Goings
<1> QED BY <1>1, <1>3, <1>4, <1>5, <1>6 DEF PollInv, LastPage, Poll!PrintedIsNews

(* What the site does leaves the program alone. *)
LEMMA SiteKeeps ==
  ASSUME PollInv, Poll!Tick \/ \E q \in Questions : Poll!Activity(q) \/ Poll!Unlist(q)
  PROVE  PollInv'
<1>1. UNCHANGED <<oldQs, printed, poll>>
  BY DEF Poll!Tick, Poll!Activity, Poll!Unlist, Poll!program
<1>2. LastPage' /\ Poll!PrintedIsNews'
  BY <1>1 DEF PollInv, LastPage, Poll!PrintedIsNews, IsPage, ListedIn
<1>3. NoDate = -1
  BY DEF NoDate, Poll!NoDate
<1>4. /\ now \in Nat /\ date \in [Questions -> Int] /\ poll.date \in [Questions -> Int]
      /\ \A q \in Questions : /\ NoDate <= date[q] /\ date[q] <= now
                              /\ NoDate <= poll.date[q] /\ poll.date[q] <= now
  BY DEF PollInv, Dates
<1>5. CASE Poll!Tick
  <2>1. now' = now + 1 /\ date' = date /\ since' = since
    BY <1>5 DEF Poll!Tick
  <2>2. now' \in Nat /\ date' \in Dates' /\ poll'.date \in Dates'
    BY <1>1, <1>3, <1>4, <2>1 DEF Dates
  <2> QED BY <1>1, <1>2, <2>1, <2>2 DEF PollInv, SinceLastPoll, Goings
<1>6. ASSUME NEW q \in Questions, Poll!Activity(q) PROVE PollInv'
  <2>1. now' = now /\ date' = [date EXCEPT ![q] = now]
    BY <1>6 DEF Poll!Activity
  <2>2. since' = [since EXCEPT !.active = @ \cup {q}] /\ since \in Goings
    BY <1>6 DEF Poll!Activity, PollInv
  <2>3. since' \in Goings /\ since'.gone = since.gone /\ since'.active = since.active \cup {q}
    BY <2>2 DEF Goings
  <2>4. date' \in Dates' /\ poll'.date \in Dates'
    BY <1>1, <1>3, <1>4, <2>1 DEF Dates
  <2>5. SinceLastPoll'
    BY <1>1, <1>3, <1>4, <2>1, <2>3 DEF PollInv, SinceLastPoll
  <2> QED BY <1>2, <1>4, <2>1, <2>3, <2>4, <2>5 DEF PollInv, Goings
<1>7. ASSUME NEW q \in Questions, Poll!Unlist(q) PROVE PollInv'
  <2>1. now' = now /\ date' = [date EXCEPT ![q] = NoDate]
    BY <1>7 DEF Poll!Unlist, NoDate
  <2>2. since' = [since EXCEPT !.gone = TRUE] /\ since \in Goings
    BY <1>7 DEF Poll!Unlist, PollInv
  <2>3. since' \in Goings /\ since'.gone /\ since'.active = since.active
    BY <2>2 DEF Goings
  <2>4. date' \in Dates' /\ poll'.date \in Dates'
    BY <1>1, <1>3, <1>4, <2>1 DEF Dates
  <2>5. SinceLastPoll'
    BY <1>1, <1>3, <1>4, <2>1, <2>3 DEF PollInv, SinceLastPoll
  <2> QED BY <1>2, <1>4, <2>1, <2>3, <2>4, <2>5 DEF PollInv, Goings
<1> QED BY <1>5, <1>6, <1>7

(* A page that has a question the one before had not, which was listed     *)
(* then, has lost one that was as recently active as this.                 *)
LEMMA PageExchanges ==
  ASSUME IsFiniteSet(Questions), PageSize \in Nat,
         NEW d \in Dates, NEW e \in Dates, NEW S, NEW T, IsPage(S, d), IsPage(T, e),
         \A u \in Questions : e[u] >= d[u],
         NEW q \in T \ S, e[q] = d[q]
  PROVE  \E u \in Questions \ {q} : e[u] = e[q]
<1>1. /\ \A u \in Questions : d[u] \in Int /\ e[u] \in Int
      /\ NoDate \in Int
      /\ \A u \in Questions : NoDate <= d[u]
  BY DEF Dates, NoDate, Poll!NoDate
<1>2. /\ S \subseteq Questions /\ T \subseteq Questions /\ q \in Questions
      /\ q \in ListedIn(d) /\ \A u \in S : u \in ListedIn(e)
  BY <1>1 DEF IsPage, ListedIn
<1>3. IsFiniteSet(S) /\ IsFiniteSet(T) /\ Cardinality(S) \in Nat /\ Cardinality(T) \in Nat
  BY <1>2, FS_Subset, FS_CardinalityType
<1>4. Cardinality(S) = PageSize
  BY <1>2, <1>3 DEF IsPage
<1>5. PICK u \in S : u \notin T
  <2> SUFFICES ASSUME S \subseteq T PROVE FALSE
    OBVIOUS
  <2>1. Cardinality(T) <= Cardinality(S)
    BY <1>4 DEF IsPage
  <2>2. Cardinality(S) <= Cardinality(T) /\ (Cardinality(S) = Cardinality(T) => T = S)
    BY <1>3, FS_Subset
  <2> QED BY <1>3, <2>1, <2>2
<1>6. d[u] >= d[q] /\ e[q] >= e[u] /\ e[u] >= d[u]
  BY <1>2, <1>5 DEF IsPage
<1>7. u \in Questions \ {q} /\ e[u] = e[q]
  BY <1>1, <1>2, <1>5, <1>6
<1> QED BY <1>7

LEMMA PollKeeps ==
  ASSUME PollInv, IsFiniteSet(Questions), PageSize \in Nat,
         NEW newQs, NEW failed \in BOOLEAN, Poll!Poll(newQs, failed),
         IF failed THEN DOMAIN newQs = {} ELSE IsPage(DOMAIN newQs, date),
         DOMAIN newQs \subseteq ListedIn(date),
         \A q \in DOMAIN newQs : newQs[q] = date[q]
  PROVE  PollInv'
<1>1. /\ printed' = Poll!Updates(newQs) /\ oldQs' = newQs /\ since' = Poll!Quiet
      /\ poll' = [before |-> since, date |-> date, last |-> poll.date,
                  failed |-> failed, lastFailed |-> poll.failed, first |-> oldQs = NoQuestions]
      /\ now' = now /\ date' = date
  BY DEF Poll!Poll
<1>2. /\ poll'.before = since /\ poll'.date = date /\ poll'.last = poll.date
      /\ poll'.failed = failed /\ poll'.lastFailed = poll.failed
      /\ poll'.first = (oldQs = NoQuestions)
  BY <1>1
<1>3. now' \in Nat /\ date' \in Dates' /\ poll'.date \in Dates'
  BY <1>1, <1>2 DEF PollInv, Dates
<1>4. since' \in Goings /\ since'.active = {} /\ since'.gone = FALSE
  BY <1>1 DEF Poll!Quiet, Goings
<1>5. /\ now \in Nat /\ date \in [Questions -> Int] /\ poll.date \in [Questions -> Int]
      /\ \A q \in Questions : date[q] \in Int /\ poll.date[q] \in Int
  BY DEF PollInv, Dates
<1>6. SinceLastPoll'
  BY <1>1, <1>2, <1>5 DEF SinceLastPoll
<1>7. LastPage'
  BY <1>1, <1>2 DEF LastPage, IsPage, ListedIn
<1>8. Poll!PrintedIsNews'
  <2> SUFFICES ASSUME oldQs # NoQuestions PROVE Poll!PrintedIsNews'
    BY <1>2 DEF Poll!PrintedIsNews
  <2>1. printed' = {q \in DOMAIN newQs : q \in DOMAIN oldQs => newQs[q] > oldQs[q]}
    BY <1>1 DEF Poll!Updates, Poll!se_has_update
  <2>2. /\ DOMAIN oldQs \subseteq ListedIn(poll.date)
        /\ \A q \in DOMAIN oldQs : oldQs[q] = poll.date[q]
        /\ poll.failed \/ IsPage(DOMAIN oldQs, poll.date)
    BY DEF PollInv, LastPage
  <2>3. ASSUME NEW q \in printed', q \notin since.active, ~poll.failed, ~since.gone
        PROVE  \E u \in Questions \ {q} : date[u] = date[q]
    <3>1. q \in DOMAIN newQs /\ q \in Questions /\ newQs[q] = date[q]
      BY <2>1, <2>3 DEF ListedIn
    <3>2. date[q] = poll.date[q] /\ \A u \in Questions : date[u] >= poll.date[u]
      BY <2>3, <3>1 DEF PollInv, SinceLastPoll
    <3>3. q \notin DOMAIN oldQs
      BY <1>5, <2>1, <2>2, <2>3, <3>1, <3>2
    <3>4. IsPage(DOMAIN newQs, date)
      BY <3>1
    <3>5. IsPage(DOMAIN oldQs, poll.date)
      BY <2>2, <2>3
    <3> QED BY <3>1, <3>2, <3>3, <3>4, <3>5, PageExchanges DEF PollInv
  <2>4. ASSUME NEW q \in DOMAIN newQs, q \notin printed'
        PROVE  date[q] = poll.date[q]
    <3>1. q \in DOMAIN oldQs /\ ~(newQs[q] > oldQs[q])
      BY <2>1, <2>4
    <3>2. q \in Questions /\ date[q] # NoDate /\ newQs[q] = date[q] /\ oldQs[q] = poll.date[q]
      BY <2>2, <2>4, <3>1 DEF ListedIn
    <3>3. date[q] >= poll.date[q]
      BY <3>2 DEF PollInv, SinceLastPoll
    <3> QED BY <1>5, <3>1, <3>2, <3>3
  <2> QED BY <1>1, <1>2, <2>3, <2>4 DEF Poll!PrintedIsNews
<1> QED BY <1>3, <1>4, <1>6, <1>7, <1>8 DEF PollInv, Goings

LEMMA PollStepKeeps ==
  ASSUME PollInv, IsFiniteSet(Questions), PageSize \in Nat, Poll!Next
  PROVE  PollInv'
<1>1. CASE Poll!Tick \/ \E q \in Questions : Poll!Activity(q) \/ Poll!Unlist(q)
  BY <1>1, SiteKeeps
<1>2. CASE Poll!PollAnswered
  <2>1. PICK S \in Poll!Pages : Poll!Poll([q \in S |-> date[q]], FALSE)
    BY <1>2 DEF Poll!PollAnswered
  <2>2. IsPage(S, date)
    BY <2>1, SameCardinality DEF Poll!Pages, Poll!Listed, IsPage, ListedIn, NoDate
  <2> DEFINE newQs == [q \in S |-> date[q]]
  <2>3. DOMAIN newQs = S /\ \A q \in S : newQs[q] = date[q]
    OBVIOUS
  <2>4. S \subseteq ListedIn(date) /\ Poll!Poll(newQs, FALSE)
    BY <2>1, <2>2 DEF IsPage
  <2> HIDE DEF newQs
  <2> QED BY <2>2, <2>3, <2>4, PollKeeps
<1>3. CASE Poll!PollFails
  <2> DEFINE newQs == [q \in {} |-> NoDate]
  <2>1. Poll!Poll(newQs, TRUE) /\ DOMAIN newQs = {}
    BY <1>3 DEF Poll!PollFails, NoDate
  <2> HIDE DEF newQs
  <2> QED BY <2>1, PollKeeps
<1> QED BY <1>1, <1>2, <1>3 DEF Poll!Next

(* stack-exchange-poll.c: from its second round on the poller prints what  *)
(* was active since the round before, but for a failed round, a question   *)
(* that comes back to the page, and activity in the very second of a poll; *)
(* for any questions and any page size.                                    *)
THEOREM PollPrintsNews ==
  ASSUME IsFiniteSet(Questions), PageSize \in Nat
  PROVE  MCSpec => []PrintedIsNews
<1> DEFINE Inv == program = "poll" => PollInv
<1>1. MCInit => Inv
  BY PollStarts DEF MCInit
<1>2. Inv /\ [MCNext]_allVars => Inv'
  <2> SUFFICES ASSUME Inv, [MCNext]_allVars PROVE Inv'
    OBVIOUS
  <2>1. program' = program
    BY DEF MCNext, allVars
  <2>2. CASE PollNext
    BY <2>1, <2>2, PollStepKeeps DEF PollNext
  <2>3. CASE UNCHANGED pollVars
    <3>1. UNCHANGED <<now, date, oldQs, printed, since, poll>>
      BY <2>3 DEF pollVars
    <3>2. PollInv => PollInv'
      BY <3>1 DEF PollInv, SinceLastPoll, LastPage, Poll!PrintedIsNews, Dates, Goings, IsPage, ListedIn
    <3> QED BY <2>1, <3>2
  <2>4. PollNext \/ UNCHANGED pollVars
    BY DEF MCNext, allVars, ListNext, SortNext, SqlNext, GcNext
  <2> QED BY <2>2, <2>3, <2>4
<1>3. Inv => PrintedIsNews
  BY DEF PollInv, PrintedIsNews
<1> QED BY <1>1, <1>2, <1>3, PTL DEF MCSpec
-----------------------------------------------------------------------------
(* GoSql *)

Shell == INSTANCE GoSqlProofs

(* GoSqlProofs is about the shell that runs here. *)
LEMMA SameInit == Sql!Init => Shell!Init
BY Zenon DEF Sql!Init, Shell!Init, Sql!NoTable, Shell!NoTable, Sql!NoStatement, Shell!NoStatement

LEMMA SameSteps == Sql!Next => Shell!Next
BY Zenon
   DEF Sql!Next, Sql!Creates, Sql!Inserts, Sql!Selects, Sql!Lists, Sql!BoundedSeq, Sql!SeqOf,
       Sql!Statement, Sql!First, Sql!NoStatement, Sql!Create, Sql!Made, Sql!Invalid, Sql!Min,
       Sql!Insert, Sql!Fits, Sql!Row, Sql!Cell, Sql!Select, Sql!At, Sql!ToSet,
       Sql!NextLine, Sql!BadLine,
       Shell!Next, Shell!Creates, Shell!Inserts, Shell!Selects, Shell!Lists, Shell!BoundedSeq,
       Shell!SeqOf, Shell!Statement, Shell!First, Shell!NoStatement, Shell!Create, Shell!Made,
       Shell!Invalid, Shell!Min, Shell!Insert, Shell!Fits, Shell!Row, Shell!Cell, Shell!Select,
       Shell!At, Shell!ToSet, Shell!NextLine, Shell!BadLine

LEMMA SameProperties ==
  /\ Shell!TablesAreWhole => Sql!TablesAreWhole
  /\ Shell!KeepsRows => Sql!KeepsRows
BY Zenon DEF Sql!TablesAreWhole, Shell!TablesAreWhole, Sql!KeepsRows, Shell!KeepsRows, Sql!IsPrefix, Shell!IsPrefix
ShellInv == program = "sql" => Shell!SqlInv

LEMMA ShellInvHolds ==
  ASSUME MaxColumns \in Nat
  PROVE  MCSpec => []ShellInv
<1>1. MCInit => ShellInv
  BY SameInit, Shell!InitIsWhole DEF MCInit, ShellInv
<1>2. ShellInv /\ [MCNext]_allVars => ShellInv'
  <2> SUFFICES ASSUME ShellInv, [MCNext]_allVars PROVE ShellInv'
    OBVIOUS
  <2>1. program' = program
    BY DEF MCNext, allVars
  <2>2. (program = "sql" /\ Shell!Next) \/ UNCHANGED sqlVars
    BY SameSteps DEF MCNext, allVars, ListNext, SortNext, PollNext, SqlNext, GcNext
  <2>3. Shell!Next \/ UNCHANGED Shell!vars
    BY <2>2 DEF sqlVars, Shell!vars
  <2> QED BY <2>1, <2>2, <2>3, Shell!StepKeepsWhole DEF ShellInv
<1> QED BY <1>1, <1>2, PTL DEF MCSpec

(* repl.go and memory.go: no statement finds half a table, no SELECT gets  *)
(* past a row or the types, and only a CREATE TABLE behind another kind of *)
(* statement faults, for any statements of any length.                     *)
THEOREM ShellTablesStayWhole ==
  ASSUME MaxColumns \in Nat
  PROVE  MCSpec => []TablesAreWhole
<1>1. ShellInv => TablesAreWhole
  BY Shell!WholeTables, SameProperties DEF ShellInv, TablesAreWhole
<1> QED BY <1>1, ShellInvHolds, PTL

(* repl.go:31: rows are lost only to a CREATE TABLE in a line that begins  *)
(* with one of their table.                                                *)
THEOREM ShellRowsStay ==
  ASSUME MaxColumns \in Nat
  PROVE  MCSpec => RowsAreKept
<1>1. ShellInv /\ [MCNext]_allVars => [program = "sql" => Sql!KeepsRows]_sqlVars
  <2> SUFFICES ASSUME ShellInv, [MCNext]_allVars, program = "sql", sqlVars' # sqlVars
               PROVE  Sql!KeepsRows
    OBVIOUS
  <2>1. Shell!Next
    BY SameSteps DEF MCNext, allVars, ListNext, SortNext, PollNext, SqlNext, GcNext
  <2> QED BY <2>1, Shell!StepKeepsRows, SameProperties DEF ShellInv
<1> QED BY <1>1, ShellInvHolds, PTL DEF MCSpec, RowsAreKept
-----------------------------------------------------------------------------
(* MergeSort *)

Calls == [l : Int, r : Int, calls : 0..2]

Asc(f, l, r) == \A j, k \in l..r : j < k => f[j] <= f[k]

Count(f, D, v) == Cardinality({j \in D : f[j] = v})

Places == start.l..start.r

(* g is a call made by one that f made, or by f itself: it does not reach  *)
(* out of f's part, nor back into the half that f has sorted.              *)
Within(g, f) ==
  /\ f.l <= g.l /\ g.r <= f.r
  /\ f.calls = 2 => Sort!Middle(f) < g.l

(* g is the call that f waits for. *)
HalfOf(g, f) ==
  /\ f.l < f.r
  /\ \/ f.calls = 1 /\ g.l = f.l /\ g.r = Sort!Middle(f)
     \/ f.calls = 2 /\ g.l = Sort!Middle(f) + 1 /\ g.r = f.r

Stack ==
  /\ frames \in Seq(Calls)
  /\ \A k \in 1..Len(frames) : start.l <= frames[k].l /\ frames[k].r <= start.r
  /\ frames # <<>> => frames[Len(frames)].l = start.l /\ frames[Len(frames)].r = start.r
  /\ \A k \in 1..Len(frames) - 1 : HalfOf(frames[k], frames[k + 1])
  /\ \A j, k \in 1..Len(frames) : j < k => Within(frames[j], frames[k])

(* The half a waiting call is done with is sorted, whatever goes on in the *)
(* other; and so are those of the innermost call until it merges them.     *)
Halves ==
  /\ \A k \in 2..Len(frames) :
       frames[k].calls = 2 => Asc(lis, frames[k].l, Sort!Middle(frames[k]))
  /\ frames # <<>> /\ buf = <<>> =>
       /\ Sort!top.calls \in {1, 2} => Asc(lis, Sort!top.l, Sort!Middle(Sort!top))
       /\ Sort!top.calls = 2 => Asc(lis, Sort!Middle(Sort!top) + 1, Sort!top.r)
  /\ frames = <<>> => Asc(lis, start.l, start.r)

(* What merge_sorted has not yet put back. *)
Pending == (ll..Sort!mm) \cup (rr..Sort!len - 1)

Merging ==
  /\ frames # <<>> /\ Sort!top.calls = 2 /\ Sort!top.l < Sort!top.r
  /\ buf \in [0..Sort!len - 1 -> Numbers]
  /\ Asc(buf, 0, Sort!mm) /\ Asc(buf, Sort!mm + 1, Sort!len - 1)
  /\ ll \in 0..Sort!mm + 1 /\ rr \in Sort!mm + 1..Sort!len
  /\ i = Sort!top.l + ll + (rr - Sort!mm - 1)
  /\ Asc(lis, Sort!top.l, i - 1)
  /\ \A j \in Sort!top.l..i - 1, k \in Pending : lis[j] <= buf[k]

(* No value is lost: it is in the part, or still to be put back there. *)
Values ==
  \A v \in Numbers :
    Count(start.lis, Places, v) =
      IF buf = <<>> THEN Count(lis, Places, v)
      ELSE Count(lis, Places \ (i..Sort!top.r), v) + Count(buf, Pending, v)

SortInv ==
  /\ lis \in Sort!Arrays /\ start.lis \in Sort!Arrays
  /\ start.l \in 0..Length - 1 /\ start.r \in start.l - 1..Length - 1
  /\ Stack
  /\ Halves
  /\ buf # <<>> => Merging
  /\ Values
  /\ \A j \in 0..Length - 1 : j \notin Places => lis[j] = start.lis[j]

(* Sequences of calls *)

LEMMA CallPushed ==
  ASSUME NEW S, NEW s \in Seq(S), s # <<>>, NEW f \in S, NEW g \in S, NEW t,
         t = <<f>> \o <<g>> \o Tail(s)
  PROVE  /\ t \in Seq(S) /\ Len(t) = Len(s) + 1 /\ t # <<>>
         /\ t[1] = f /\ t[2] = g
         /\ \A k \in 3..Len(t) : t[k] = s[k - 1]
<1>1. Len(s) \in Nat \ {0} /\ \A k \in 1..Len(s) : s[k] \in S
  BY EmptySeq, LenProperties
<1>2. Tail(s) \in Seq(S) /\ Len(Tail(s)) = Len(s) - 1 /\ \A k \in 1..Len(s) - 1 : Tail(s)[k] = s[k + 1]
  BY <1>1
<1> DEFINE two == <<f>> \o <<g>>
<1>3. two \in Seq(S) /\ Len(two) = 2 /\ two[1] = f /\ two[2] = g
  <2>1. <<f>> \in Seq(S) /\ <<g>> \in Seq(S) /\ Len(<<f>>) = 1 /\ Len(<<g>>) = 1
    OBVIOUS
  <2> QED BY <2>1, ConcatProperties
<1> HIDE DEF two
<1>4. /\ t \in Seq(S) /\ Len(t) = 2 + Len(Tail(s))
      /\ \A k \in 1..2 + Len(Tail(s)) : t[k] = IF k <= 2 THEN two[k] ELSE Tail(s)[k - 2]
  BY <1>2, <1>3, ConcatProperties DEF two
<1>5. Len(t) = Len(s) + 1 /\ t # <<>>
  BY <1>1, <1>2, <1>4
<1>6. t[1] = f /\ t[2] = g
  BY <1>1, <1>2, <1>3, <1>4
<1>7. ASSUME NEW k \in 3..Len(t) PROVE t[k] = s[k - 1]
  <2>1. k - 2 \in 1..Len(s) - 1
    BY <1>1, <1>5
  <2>2. t[k] = Tail(s)[k - 2]
    BY <1>1, <1>2, <1>4, <1>5
  <2> QED BY <1>1, <1>2, <2>1, <2>2
<1> QED BY <1>4, <1>5, <1>6, <1>7

LEMMA CallPopped ==
  ASSUME NEW S, NEW s \in Seq(S), s # <<>>, NEW t, t = Tail(s)
  PROVE  /\ t \in Seq(S) /\ Len(t) = Len(s) - 1
         /\ \A k \in 1..Len(t) : t[k] = s[k + 1]
         /\ t = <<>> <=> Len(s) = 1
<1>1. Len(s) \in Nat \ {0}
  BY EmptySeq, LenProperties
<1>2. t \in Seq(S) /\ Len(t) = Len(s) - 1 /\ \A k \in 1..Len(t) : t[k] = s[k + 1]
  BY HeadTailProperties
<1>3. t = <<>> <=> Len(t) = 0
  BY <1>2, EmptySeq
<1> QED BY <1>1, <1>2, <1>3

-----------------------------------------------------------------------------
(* Order and counts *)

LEMMA MiddleBetween ==
  ASSUME NEW f \in Calls, f.l < f.r
  PROVE  Sort!Middle(f) \in Int /\ f.l <= Sort!Middle(f) /\ Sort!Middle(f) < f.r
<1>1. f.l \in Int /\ f.r \in Int
  BY DEF Calls
<1> QED BY <1>1 DEF Sort!Middle

LEMMA AscSame ==
  ASSUME NEW f, NEW g, NEW l, NEW r, Asc(f, l, r), \A j \in l..r : g[j] = f[j]
  PROVE  Asc(g, l, r)
BY DEF Asc

LEMMA AscExtends ==
  ASSUME NEW f, NEW g, NEW l \in Int, NEW n \in Int, Asc(f, l, n - 1),
         \A j \in l..n - 1 : g[j] = f[j] /\ f[j] <= g[n]
  PROVE  Asc(g, l, n)
<1> SUFFICES ASSUME NEW j \in l..n, NEW k \in l..n, j < k PROVE g[j] <= g[k]
  BY DEF Asc
<1>1. j \in l..n - 1
  OBVIOUS
<1>2. CASE k = n
  BY <1>1, <1>2
<1>3. CASE k # n
  <2>1. k \in l..n - 1
    BY <1>3
  <2> QED BY <1>1, <2>1 DEF Asc
<1> QED BY <1>2, <1>3

LEMMA CountAdds ==
  ASSUME NEW f, NEW D, IsFiniteSet(D), NEW e, e \notin D, NEW v
  PROVE  /\ Count(f, D, v) \in Nat
         /\ Count(f, D \cup {e}, v) = Count(f, D, v) + (IF f[e] = v THEN 1 ELSE 0)
<1> DEFINE C == {j \in D : f[j] = v}
<1>1. IsFiniteSet(C) /\ e \notin C /\ Cardinality(C) \in Nat
  BY FS_Subset, FS_CardinalityType
<1>2. {j \in D \cup {e} : f[j] = v} = IF f[e] = v THEN C \cup {e} ELSE C
  OBVIOUS
<1>3. Cardinality(C \cup {e}) = Cardinality(C) + 1
  <2> HIDE DEF C
  <2> QED BY <1>1, FS_AddElement
<1> QED BY <1>1, <1>2, <1>3 DEF Count

LEMMA CountSame ==
  ASSUME NEW f, NEW g, NEW D, \A j \in D : f[j] = g[j], NEW v
  PROVE  Count(f, D, v) = Count(g, D, v)
<1>1. {j \in D : f[j] = v} = {j \in D : g[j] = v}
  OBVIOUS
<1> QED BY <1>1 DEF Count

LEMMA CountSplits ==
  ASSUME NEW f, NEW D, NEW E, IsFiniteSet(D), IsFiniteSet(E), D \cap E = {}, NEW v
  PROVE  /\ Count(f, D, v) \in Nat /\ Count(f, E, v) \in Nat
         /\ Count(f, D \cup E, v) = Count(f, D, v) + Count(f, E, v)
<1> DEFINE C == {j \in D : f[j] = v}
           B == {j \in E : f[j] = v}
<1>1. IsFiniteSet(C) /\ Cardinality(C) \in Nat
  BY FS_Subset, FS_CardinalityType
<1>2. IsFiniteSet(B) /\ Cardinality(B) \in Nat
  BY FS_Subset, FS_CardinalityType
<1>3. C \cap B = {} /\ {j \in D \cup E : f[j] = v} = C \cup B
  OBVIOUS
<1>4. Cardinality(C \cup B) = Cardinality(C) + Cardinality(B)
  <2> HIDE DEF C, B
  <2>1. Cardinality(C \cap B) = 0
    BY <1>3, FS_EmptySet
  <2>2. Cardinality(C \cup B) = Cardinality(C) + Cardinality(B) - Cardinality(C \cap B)
    BY <1>1, <1>2, FS_Union
  <2> QED BY <1>1, <1>2, <2>1, <2>2
<1> QED BY <1>1, <1>2, <1>3, <1>4 DEF Count

(* g holds at 0..n what f holds from l on. *)
Copies(g, f, l, n) == \A j \in 0..n : g[j] = f[l + j]

(* A copy of a part has the part's values. *)
LEMMA CountShifts ==
  ASSUME NEW f, NEW g, NEW l \in Int, NEW n \in Int, NEW r \in Int, r = l + n,
         Copies(g, f, l, n), NEW v
  PROVE  Count(g, 0..n, v) = Count(f, l..r, v)
<1> DEFINE C == {j \in 0..n : g[j] = v}
           B == {j \in l..r : f[j] = v}
           h == [j \in C |-> l + j]
<1> USE DEF Copies
<1>1. IsFiniteSet(C)
  <2>1. IsFiniteSet(0..n) /\ C \in SUBSET (0..n)
    BY FS_Interval
  <2> HIDE DEF C
  <2> QED BY <2>1, FS_Subset
<1>2. h \in Bijection(C, B)
  <2>1. ASSUME NEW j \in C PROVE l + j \in B
    OBVIOUS
  <2>2. ASSUME NEW b \in B PROVE b - l \in C /\ h[b - l] = b
    <3>1. b - l \in 0..n /\ l + (b - l) = b
      OBVIOUS
    <3> QED BY <3>1
  <2>3. ASSUME NEW j \in C, NEW k \in C, h[j] = h[k] PROVE j = k
    BY <2>3
  <2>4. h \in [C -> B]
    BY <2>1
  <2> HIDE DEF h, C, B
  <2> QED BY <2>2, <2>3, <2>4 DEF Bijection, Injection, Surjection, IsInjective
<1>3. ExistsBijection(C, B)
  BY <1>2 DEF ExistsBijection
<1>4. Cardinality(B) = Cardinality(C)
  <2> HIDE DEF C, B, h
  <2> QED BY <1>1, <1>3, FS_Bijection
<1> QED BY <1>4 DEF Count

-----------------------------------------------------------------------------
(* The steps *)

LEMMA InnermostCall ==
  ASSUME SortInv, frames # <<>>
  PROVE  /\ frames \in Seq(Calls) /\ Len(frames) \in Nat \ {0}
         /\ \A k \in 1..Len(frames) : frames[k] \in Calls
         /\ Sort!top = frames[1] /\ Sort!top \in Calls
         /\ Sort!top.l \in Int /\ Sort!top.r \in Int
         /\ start.l <= Sort!top.l /\ Sort!top.r <= start.r
         /\ start.l \in Nat /\ start.r \in Int /\ start.r <= Length - 1
<1>1. frames \in Seq(Calls) /\ Len(frames) \in Nat \ {0}
  BY EmptySeq, LenProperties DEF SortInv, Stack
<1>2. \A k \in 1..Len(frames) : frames[k] \in Calls
  BY <1>1
<1>3. start.l <= frames[1].l /\ frames[1].r <= start.r
  BY <1>1 DEF SortInv, Stack
<1> QED BY <1>1, <1>2, <1>3 DEF SortInv, Sort!top, Calls

(* merge calls itself on one of its halves. *)
LEMMA CallKeeps ==
  ASSUME SortInv, Length \in Nat, Sort!InMerge,
         NEW f \in Calls, f.calls = 0,
         NEW g \in Calls, g.l = Sort!top.l, g.r = Sort!top.r, g.calls = Sort!top.calls + 1,
         HalfOf(f, g),
         frames' = <<f>> \o <<g>> \o Tail(frames),
         UNCHANGED <<lis, buf, i, ll, rr, start>>
  PROVE  SortInv'
<1> DEFINE n == Len(frames)
<1>1. frames # <<>> /\ buf = <<>> /\ buf' = <<>>
  BY DEF Sort!InMerge
<1>2. /\ frames \in Seq(Calls) /\ n \in Nat \ {0}
      /\ \A k \in 1..n : frames[k] \in Calls
      /\ Sort!top = frames[1] /\ Sort!top \in Calls
      /\ start.l <= Sort!top.l /\ Sort!top.r <= start.r
  BY <1>1, InnermostCall
<1>3. /\ frames' \in Seq(Calls) /\ Len(frames') = n + 1 /\ frames' # <<>>
      /\ frames'[1] = f /\ frames'[2] = g
      /\ \A k \in 3..n + 1 : frames'[k] = frames[k - 1]
  BY <1>1, <1>2, CallPushed
<1>4. Sort!Middle(g) = Sort!Middle(Sort!top) /\ Sort!top.calls \in {0, 1}
  BY <1>2 DEF Sort!Middle, HalfOf, Calls
<1>5. /\ f.l \in Int /\ f.r \in Int /\ g.l \in Int /\ g.r \in Int
      /\ Sort!Middle(g) \in Int /\ g.l <= Sort!Middle(g) /\ Sort!Middle(g) < g.r
  BY MiddleBetween DEF HalfOf, Calls
<1>6. g.l <= f.l /\ f.r <= g.r /\ (g.calls = 2 => Sort!Middle(g) < f.l)
  BY <1>5 DEF HalfOf
<1>7. ASSUME NEW k \in 3..n + 1
      PROVE  /\ k - 1 \in 2..n /\ k - 1 \in 1..n /\ frames'[k] = frames[k - 1]
             /\ Within(f, frames[k - 1]) /\ Within(g, frames[k - 1])
  <2>1. k - 1 \in 2..n /\ k - 1 \in 1..n /\ frames'[k] = frames[k - 1]
    BY <1>2, <1>3
  <2>2. Within(frames[1], frames[k - 1])
    <3>1. 1 \in 1..Len(frames) /\ k - 1 \in 1..Len(frames) /\ 1 < k - 1
      BY <1>2, <2>1
    <3> QED BY <3>1 DEF SortInv, Stack
  <2>3. frames[k - 1].l \in Int /\ frames[k - 1].r \in Int
    BY <1>2, <2>1 DEF Calls
  <2>4. frames[k - 1].calls = 2 =>
          Sort!Middle(frames[k - 1]) \in Int /\ Sort!Middle(frames[k - 1]) < g.l
    <3>1. Sort!Middle(frames[k - 1]) \in Int
      BY <2>3 DEF Sort!Middle
    <3> QED BY <1>2, <2>2, <3>1 DEF Within
  <2> QED BY <1>2, <1>5, <1>6, <2>1, <2>2, <2>3, <2>4 DEF Within
<1>8. Stack'
  <2>1. ASSUME NEW k \in 1..n + 1 PROVE start.l <= frames'[k].l /\ frames'[k].r <= start.r
    <3>1. CASE k = 1
      BY <1>2, <1>3, <1>5, <1>6, <3>1, InnermostCall, <1>1
    <3>2. CASE k = 2
      BY <1>2, <1>3, <3>2
    <3>3. CASE k \in 3..n + 1
      BY <1>7, <3>3 DEF SortInv, Stack
    <3> QED BY <1>2, <3>1, <3>2, <3>3
  <2>2. frames'[n + 1].l = start.l /\ frames'[n + 1].r = start.r
    <3>1. frames[n].l = start.l /\ frames[n].r = start.r
      BY <1>1 DEF SortInv, Stack
    <3>2. CASE n = 1
      BY <1>2, <1>3, <3>1, <3>2
    <3>3. CASE n # 1
      <4>1. n + 1 \in 3..n + 1 /\ n + 1 - 1 = n
        BY <1>2, <3>3
      <4> QED BY <1>3, <3>1, <4>1
    <3> QED BY <3>2, <3>3
  <2>3. ASSUME NEW k \in 1..n PROVE HalfOf(frames'[k], frames'[k + 1])
    <3>1. CASE k = 1
      BY <1>3, <3>1
    <3>2. CASE k = 2
      <4>1. k + 1 \in 3..n + 1 /\ k + 1 - 1 = 2 /\ 1 \in 1..n - 1
        BY <1>2, <3>2
      <4>2. frames'[k + 1] = frames[2] /\ HalfOf(frames[1], frames[1 + 1])
        BY <1>3, <4>1 DEF SortInv, Stack
      <4> QED BY <1>2, <1>3, <3>2, <4>2 DEF HalfOf
    <3>3. CASE k \in 3..n
      <4>1. k \in 3..n + 1 /\ k + 1 \in 3..n + 1 /\ k - 1 \in 1..n - 1 /\ k + 1 - 1 = k - 1 + 1
        BY <1>2, <3>3
      <4>2. HalfOf(frames[k - 1], frames[k - 1 + 1])
        BY <4>1 DEF SortInv, Stack
      <4> QED BY <1>3, <4>1, <4>2
    <3> QED BY <1>2, <3>1, <3>2, <3>3
  <2>4. ASSUME NEW j \in 1..n + 1, NEW k \in 1..n + 1, j < k PROVE Within(frames'[j], frames'[k])
    <3>1. CASE k = 2
      <4>1. j = 1
        BY <2>4, <3>1
      <4> QED BY <1>3, <1>6, <3>1, <4>1 DEF Within
    <3>2. CASE k \in 3..n + 1 /\ j \in {1, 2}
      BY <1>3, <1>7, <3>2
    <3>3. CASE k \in 3..n + 1 /\ j \in 3..n + 1
      <4>1. k - 1 \in 1..n /\ j - 1 \in 1..n /\ j - 1 < k - 1
        BY <1>2, <2>4, <3>3
      <4>2. Within(frames[j - 1], frames[k - 1])
        BY <4>1 DEF SortInv, Stack
      <4> QED BY <1>3, <3>3, <4>2
    <3> QED BY <1>2, <2>4, <3>1, <3>2, <3>3
  <2>5. Len(frames') - 1 = n
    BY <1>2, <1>3
  <2> HIDE DEF n
  <2> QED BY <1>3, <2>1, <2>2, <2>3, <2>4, <2>5 DEF Stack
<1>9. Halves'
  <2>1. ASSUME NEW k \in 2..n + 1, frames'[k].calls = 2
        PROVE  Asc(lis, frames'[k].l, Sort!Middle(frames'[k]))
    <3>1. CASE k = 2
      <4>1. Sort!top.calls = 1
        BY <1>3, <1>4, <2>1, <3>1
      <4> QED BY <1>1, <1>3, <1>4, <3>1, <4>1 DEF SortInv, Halves
    <3>2. CASE k \in 3..n + 1
      BY <1>7, <2>1, <3>2 DEF SortInv, Halves
    <3> QED BY <1>2, <3>1, <3>2
  <2>2. Sort!top' = f
    BY <1>3 DEF Sort!top
  <2> HIDE DEF n
  <2> QED BY <1>3, <2>1, <2>2 DEF Halves
<1>10. Values'
  BY <1>1 DEF SortInv, Values, Places
<1> QED BY <1>1, <1>8, <1>9, <1>10 DEF SortInv, Places

(* A call of merge returns, its part sorted. *)
LEMMA ReturnKeeps ==
  ASSUME SortInv, frames # <<>>, Asc(lis, Sort!top.l, Sort!top.r),
         \A v \in Numbers : Count(lis, Places, v) = Count(start.lis, Places, v),
         frames' = Tail(frames), buf' = <<>>,
         UNCHANGED <<lis, start>>
  PROVE  SortInv'
<1> DEFINE n == Len(frames)
<1>1. /\ frames \in Seq(Calls) /\ n \in Nat \ {0}
      /\ \A k \in 1..n : frames[k] \in Calls
      /\ Sort!top = frames[1]
  BY InnermostCall
<1>2. /\ frames' \in Seq(Calls) /\ Len(frames') = n - 1
      /\ \A k \in 1..n - 1 : frames'[k] = frames[k + 1]
      /\ frames' = <<>> <=> n = 1
  BY <1>1, CallPopped
<1>3. \A k \in 1..n - 1 : k + 1 \in 2..n /\ k + 1 \in 1..n
  BY <1>1
<1>4. Stack'
  <2>1. \A k \in 1..n - 1 : start.l <= frames'[k].l /\ frames'[k].r <= start.r
    BY <1>2, <1>3 DEF SortInv, Stack
  <2>2. ASSUME frames' # <<>> PROVE frames'[n - 1].l = start.l /\ frames'[n - 1].r = start.r
    <3>1. n - 1 \in 1..n - 1 /\ n - 1 + 1 = n
      BY <1>1, <1>2, <2>2
    <3> QED BY <1>2, <3>1 DEF SortInv, Stack
  <2>3. ASSUME NEW k \in 1..n - 1 - 1 PROVE HalfOf(frames'[k], frames'[k + 1])
    <3>1. k \in 1..n - 1 /\ k + 1 \in 1..n - 1
      BY <1>1
    <3>2. HalfOf(frames[k + 1], frames[k + 1 + 1])
      BY <3>1 DEF SortInv, Stack
    <3> QED BY <1>2, <3>1, <3>2
  <2>4. ASSUME NEW j \in 1..n - 1, NEW k \in 1..n - 1, j < k PROVE Within(frames'[j], frames'[k])
    <3>1. j + 1 \in 1..n /\ k + 1 \in 1..n /\ j + 1 < k + 1
      BY <1>1, <2>4
    <3>2. Within(frames[j + 1], frames[k + 1])
      BY <3>1 DEF SortInv, Stack
    <3> QED BY <1>2, <3>2
  <2> HIDE DEF n
  <2> QED BY <1>2, <2>1, <2>2, <2>3, <2>4 DEF Stack
<1>5. Halves'
  <2>1. ASSUME NEW k \in 1..n - 1, frames'[k].calls = 2
        PROVE  Asc(lis, frames'[k].l, Sort!Middle(frames'[k]))
    BY <1>2, <1>3, <2>1 DEF SortInv, Halves
  <2>2. CASE n = 1
    <3>1. Sort!top.l = start.l /\ Sort!top.r = start.r
      BY <1>1, <2>2 DEF SortInv, Stack
    <3>2. Len(frames') = 0 /\ frames' = <<>> /\ 2..0 = {}
      BY <1>2, <2>2
    <3> QED BY <3>1, <3>2 DEF Halves
  <2>3. CASE n # 1
    <3>1. 1 \in 1..n - 1 /\ \A k \in 2..n - 1 : k \in 1..n - 1
      <4>1. n \in Nat \ {0} /\ n # 1
        BY <1>1, <2>3
      <4> HIDE DEF n
      <4> QED BY <4>1
    <3>2. frames'[1] = frames[2] /\ frames' # <<>> /\ Sort!top' = frames[2]
      BY <1>2, <2>3, <3>1 DEF Sort!top
    <3>3. HalfOf(Sort!top, frames[2])
      <4>1. HalfOf(frames[1], frames[1 + 1])
        BY <3>1 DEF SortInv, Stack
      <4> QED BY <1>1, <4>1
    <3>4. frames[2].calls = 1 => Asc(lis, frames[2].l, Sort!Middle(frames[2]))
      BY <3>3 DEF HalfOf
    <3>5. frames[2].calls = 2 => Asc(lis, frames[2].l, Sort!Middle(frames[2]))
      BY <2>1, <3>1, <3>2
    <3>6. frames[2].calls = 2 => Asc(lis, Sort!Middle(frames[2]) + 1, frames[2].r)
      BY <3>3 DEF HalfOf
    <3> HIDE DEF n
    <3> QED BY <1>2, <2>1, <3>1, <3>2, <3>4, <3>5, <3>6 DEF Halves
  <2> QED BY <2>2, <2>3
<1>6. Values'
  BY DEF Values, Places
<1> QED BY <1>4, <1>5, <1>6 DEF SortInv, Places

(* merge_sorted begins: buf holds what both halves do. *)
LEMMA CopyKeeps ==
  ASSUME SortInv, Length \in Nat, Sort!Copy
  PROVE  SortInv'
<1>1. /\ frames # <<>> /\ buf = <<>> /\ Sort!top.l < Sort!top.r /\ Sort!top.calls = 2
      /\ buf' = [j \in 0..Sort!len - 1 |-> lis[Sort!top.l + j]]
      /\ i' = Sort!top.l /\ ll' = 0 /\ rr' = Sort!mm + 1
      /\ lis' = lis /\ frames' = frames /\ start' = start
  BY DEF Sort!Copy, Sort!InMerge
<1>2. /\ Sort!top \in Calls /\ Sort!top.l \in Int /\ Sort!top.r \in Int
      /\ start.l <= Sort!top.l /\ Sort!top.r <= start.r
      /\ start.l \in Nat /\ start.r \in Int /\ start.r <= Length - 1
  BY <1>1, InnermostCall
<1>3. PICK l \in Nat, r \in Nat : l = Sort!top.l /\ r = Sort!top.r
  BY <1>1, <1>2
<1>4. l < r /\ start.l <= l /\ r <= start.r
  BY <1>1, <1>2, <1>3
<1>5. PICK m \in Int : m = Sort!Middle(Sort!top) /\ l <= m /\ m < r
  BY <1>1, <1>2, <1>3, MiddleBetween
<1>6. PICK d \in Nat : d = r - l /\ d # 0 /\ l + d = r
  BY <1>4
<1>7. PICK e \in Nat : e = m - l /\ e < d /\ l + e = m
  BY <1>5, <1>6
<1>8. Sort!len = d + 1 /\ Sort!mm = e
  BY <1>3, <1>5, <1>6, <1>7 DEF Sort!len, Sort!mm
<1>9. Sort!len' = d + 1 /\ Sort!mm' = e /\ Sort!top' = Sort!top /\ d + 1 - 1 = d
  BY <1>1, <1>8 DEF Sort!len, Sort!mm, Sort!top
<1>10. DOMAIN buf' = 0..d /\ \A j \in 0..d : buf'[j] = lis[l + j]
  BY <1>1, <1>3, <1>8, <1>9
<1>11. buf' \in [0..d -> Numbers] /\ buf' # <<>>
  <2>1. ASSUME NEW j \in 0..d PROVE lis[l + j] \in Numbers
    <3>1. l + j \in 0..Length - 1
      BY <1>2, <1>4, <1>6
    <3>2. lis \in [0..Length - 1 -> Numbers]
      BY DEF SortInv, Sort!Arrays
    <3> QED BY <3>1, <3>2
  <2>2. buf' = [j \in 0..d |-> lis[l + j]]
    BY <1>1, <1>3, <1>8, <1>9
  <2>3. 0 \in DOMAIN buf' /\ DOMAIN <<>> = {}
    BY <1>10
  <2> QED BY <2>1, <2>2, <2>3
<1>12. Asc(buf', 0, e) /\ Asc(buf', e + 1, d)
  <2>1. Asc(lis, l, m) /\ Asc(lis, m + 1, r)
    BY <1>1, <1>3, <1>5 DEF SortInv, Halves
  <2>2. ASSUME NEW j \in 0..e, NEW k \in 0..e, j < k PROVE buf'[j] <= buf'[k]
    <3>1. l + j \in l..m /\ l + k \in l..m /\ l + j < l + k /\ j \in 0..d /\ k \in 0..d
      BY <1>6, <1>7, <2>2
    <3> QED BY <1>10, <2>1, <3>1 DEF Asc
  <2>3. ASSUME NEW j \in e + 1..d, NEW k \in e + 1..d, j < k PROVE buf'[j] <= buf'[k]
    <3>1. /\ l + j \in m + 1..r /\ l + k \in m + 1..r /\ l + j < l + k
          /\ j \in 0..d /\ k \in 0..d
      BY <1>6, <1>7, <2>3
    <3> QED BY <1>10, <2>1, <3>1 DEF Asc
  <2> QED BY <2>2, <2>3 DEF Asc
<1>13. Merging'
  <2>1. l..i' - 1 = {}
    BY <1>1, <1>3
  <2>2. Asc(lis, l, i' - 1)
    BY <2>1 DEF Asc
  <2>3. ll' \in 0..Sort!mm' + 1 /\ rr' \in Sort!mm' + 1..Sort!len'
    <3>1. 0 \in 0..e + 1 /\ e + 1 \in e + 1..d + 1
      BY <1>7
    <3> QED BY <1>1, <1>8, <1>9, <3>1
  <2>4. i' = l + ll' + (rr' - Sort!mm' - 1)
    BY <1>1, <1>3, <1>8, <1>9
  <2>5. /\ buf' \in [0..Sort!len' - 1 -> Numbers]
        /\ Asc(buf', 0, Sort!mm') /\ Asc(buf', Sort!mm' + 1, Sort!len' - 1)
    BY <1>9, <1>11, <1>12
  <2> QED BY <1>1, <1>3, <1>9, <2>1, <2>2, <2>3, <2>4, <2>5 DEF Merging
<1>14. Values'
  <2> DEFINE part == l..r
             rest == Places \ part
  <2>1. Pending' = 0..d
    <3>1. Pending' = (0..e) \cup (e + 1..d)
      BY <1>1, <1>8, <1>9 DEF Pending
    <3> QED BY <1>7, <3>1
  <2>2. IsFiniteSet(part) /\ IsFiniteSet(rest) /\ rest \cup part = Places /\ rest \cap part = {}
    <3>1. IsFiniteSet(Places) /\ IsFiniteSet(part)
      <4>1. start.l \in Int /\ start.r \in Int /\ l \in Int /\ r \in Int
        BY <1>2
      <4> QED BY <4>1, FS_Interval DEF Places
    <3>2. \A j \in part : j \in Places
      BY <1>2, <1>4 DEF Places
    <3> HIDE DEF part
    <3>3. rest \in SUBSET Places /\ rest \cup part = Places /\ rest \cap part = {}
      BY <3>2
    <3> HIDE DEF rest
    <3> QED BY <3>1, <3>3, FS_Subset
  <2>3. ASSUME NEW v
        PROVE  Count(lis, Places, v) = Count(lis, rest, v) + Count(lis, part, v)
    <3> HIDE DEF part, rest
    <3>1. Count(lis, rest \cup part, v) = Count(lis, rest, v) + Count(lis, part, v)
      BY <2>2, CountSplits
    <3> QED BY <2>2, <3>1
  <2>4. ASSUME NEW v PROVE Count(buf', 0..d, v) = Count(lis, part, v)
    <3>1. l \in Int /\ r \in Int /\ d \in Int /\ r = l + d
      BY <1>6
    <3>2. Copies(buf', lis, l, d)
      BY <1>10 DEF Copies
    <3> QED BY <3>1, <3>2, CountShifts
  <2>5. Places' \ (i'..Sort!top'.r) = rest /\ Places' = Places
    BY <1>1, <1>3, <1>9 DEF Places
  <2>6. \A v \in Numbers : Count(start.lis, Places, v) = Count(lis, Places, v)
    BY <1>1 DEF SortInv, Values
  <2> HIDE DEF part, rest
  <2> QED BY <1>1, <1>11, <2>1, <2>3, <2>4, <2>5, <2>6 DEF Values
<1>15. Stack' /\ Halves'
  BY <1>1, <1>11 DEF SortInv, Stack, Halves
<1> QED BY <1>1, <1>13, <1>14, <1>15 DEF SortInv, Places

(* The value at k, which no pending one is less than, is put back. *)
Takes(k) ==
  /\ buf # <<>>
  /\ \A j \in Pending : buf[k] <= buf[j]
  /\ lis' = [lis EXCEPT ![i] = buf[k]] /\ i' = i + 1
  /\ Pending' = Pending \ {k}
  /\ ll' \in 0..Sort!mm + 1 /\ rr' \in Sort!mm + 1..Sort!len /\ ll' + rr' = ll + rr + 1
  /\ UNCHANGED <<frames, buf, start>>

LEMMA TakeKeeps ==
  ASSUME SortInv, Length \in Nat, Numbers \subseteq Int, NEW at0 \in Pending, Takes(at0)
  PROVE  SortInv'
<1>1. /\ frames' = frames /\ buf' = buf /\ start' = start /\ i' = i + 1 /\ buf # <<>>
      /\ Sort!top' = Sort!top /\ Sort!len' = Sort!len /\ Sort!mm' = Sort!mm /\ Places' = Places
  BY DEF Takes, Sort!top, Sort!len, Sort!mm, Places
<1>2. Merging
  BY DEF Takes, SortInv
<1>3. /\ frames # <<>> /\ Sort!top.calls = 2 /\ Sort!top.l < Sort!top.r
      /\ Sort!top \in Calls /\ Sort!top.l \in Int /\ Sort!top.r \in Int
      /\ start.l <= Sort!top.l /\ Sort!top.r <= start.r
      /\ start.l \in Nat /\ start.r \in Int /\ start.r <= Length - 1
      /\ Sort!top = frames[1]
  BY <1>2, InnermostCall DEF Merging
<1>4. PICK l \in Nat, r \in Nat : l = Sort!top.l /\ r = Sort!top.r
  BY <1>3
<1>5. l < r /\ start.l <= l /\ r <= start.r
  BY <1>3, <1>4
<1>6. PICK m \in Int : m = Sort!Middle(Sort!top) /\ l <= m /\ m < r
  BY <1>3, <1>4, MiddleBetween
<1>7. PICK n \in Nat : n = r - l + 1
  <2>1. r - l + 1 \in Nat
    BY <1>5
  <2> QED BY <2>1
<1>8. PICK e \in Nat : e = m - l /\ e < n - 1
  <2>1. m - l \in Nat /\ m - l < n - 1
    BY <1>5, <1>6, <1>7
  <2> QED BY <2>1
<1>9. Sort!len = n /\ Sort!mm = e
  BY <1>4, <1>6, <1>7, <1>8 DEF Sort!len, Sort!mm
<1>10. /\ ll \in 0..e + 1 /\ rr \in e + 1..n /\ i = l + ll + (rr - e - 1)
      /\ ll' \in 0..e + 1 /\ rr' \in e + 1..n /\ ll' + rr' = ll + rr + 1
      /\ Pending = (ll..e) \cup (rr..n - 1)
      /\ buf \in [0..n - 1 -> Numbers]
      /\ Asc(buf, 0, e) /\ Asc(buf, e + 1, n - 1)
      /\ Asc(lis, l, i - 1)
      /\ \A j \in l..i - 1, k \in Pending : lis[j] <= buf[k]
  BY <1>2, <1>4, <1>9 DEF Takes, Merging, Pending
<1>11. /\ i \in Int /\ l <= i /\ i <= r /\ i \in Places /\ i \in 0..Length - 1
       /\ i' = l + ll' + (rr' - e - 1)
  <2>1. at0 \in ll..e \/ at0 \in rr..n - 1
    BY <1>10
  <2>2. i \in Int /\ l <= i /\ i <= r
    BY <1>5, <1>7, <1>8, <1>10, <2>1
  <2>3. i' = l + ll' + (rr' - e - 1)
    <3>1. i' = i + 1 /\ ll' + rr' = ll + rr + 1
      BY <1>1, <1>10
    <3>2. i = l + ll + (rr - e - 1)
      BY <1>10
    <3>3. ll \in Int /\ ll' \in Int
      BY <1>8, <1>10
    <3>4. rr \in Int /\ rr' \in Int
      BY <1>8, <1>7, <1>10
    <3>5. PICK a \in Int, b \in Int : a = ll' /\ b = rr'
      BY <3>3, <3>4
    <3>6. a + b = ll + rr + 1
      BY <3>1, <3>5
    <3>7. i + 1 = l + a + (b - e - 1)
      BY <3>2, <3>3, <3>4, <3>6
    <3> QED BY <3>1, <3>5, <3>7
  <2> QED BY <1>3, <1>5, <2>2, <2>3 DEF Places
<1>12. at0 \in 0..n - 1 /\ buf[at0] \in Numbers /\ Pending \subseteq 0..n - 1
  BY <1>7, <1>8, <1>10
<1>13. /\ lis \in [0..Length - 1 -> Numbers] /\ lis' \in [0..Length - 1 -> Numbers]
       /\ lis'[i] = buf[at0]
       /\ \A j \in 0..Length - 1 : j # i => lis'[j] = lis[j]
  BY <1>11, <1>12 DEF Takes, SortInv, Sort!Arrays
<1>14. \A j \in 0..Length - 1 : j \notin Places => lis'[j] = start'.lis[j]
  BY <1>1, <1>11, <1>13 DEF SortInv
<1>15. Merging'
  <2>1. ASSUME NEW j \in l..i - 1 PROVE lis'[j] = lis[j] /\ lis[j] <= buf[at0]
    <3>1. j \in 0..Length - 1 /\ j # i
      BY <1>3, <1>5, <1>11
    <3> QED BY <1>10, <1>13, <3>1
  <2>2. Asc(lis', l, i)
    <3>1. \A j \in l..i - 1 : lis'[j] = lis[j] /\ lis[j] <= lis'[i]
      BY <1>13, <2>1
    <3>2. l \in Int /\ i \in Int /\ Asc(lis, l, i - 1)
      BY <1>10, <1>11
    <3> QED BY <3>1, <3>2, AscExtends
  <2>3. ASSUME NEW j \in l..i, NEW k \in Pending' PROVE lis'[j] <= buf[k]
    <3>1. k \in Pending /\ buf[at0] <= buf[k]
      BY DEF Takes
    <3>2. CASE j = i
      BY <1>13, <3>1, <3>2
    <3>3. CASE j # i
      <4>1. j \in l..i - 1
        BY <1>11, <3>3
      <4> QED BY <1>10, <2>1, <3>1, <4>1
    <3> QED BY <3>2, <3>3
  <2>4. i' - 1 = i /\ buf # <<>>
    BY <1>11 DEF Takes
  <2> QED BY <1>1, <1>3, <1>4, <1>9, <1>10, <1>11, <2>2, <2>3, <2>4 DEF Merging
<1>16. Stack'
  BY <1>1 DEF SortInv, Stack
<1>17. Halves'
  <2>1. ASSUME NEW k \in 2..Len(frames), frames[k].calls = 2
        PROVE  Asc(lis', frames[k].l, Sort!Middle(frames[k]))
    <3>1. Within(frames[1], frames[k])
      <4>1. 1 \in 1..Len(frames) /\ k \in 1..Len(frames) /\ 1 < k
        BY <1>3, InnermostCall
      <4> QED BY <4>1 DEF SortInv, Stack
    <3>2. start.l <= frames[k].l /\ frames[k].l \in Int /\ frames[k].r \in Int
      <4>1. k \in 1..Len(frames) /\ frames[k] \in Calls
        BY <1>3, InnermostCall
      <4> QED BY <4>1 DEF SortInv, Stack, Calls
    <3>3. Sort!Middle(frames[k]) \in Int
      BY <3>2 DEF Sort!Middle
    <3>4. Sort!Middle(frames[k]) < l
      BY <1>3, <1>4, <2>1, <3>1 DEF Within
    <3>5. ASSUME NEW j \in frames[k].l..Sort!Middle(frames[k]) PROVE lis'[j] = lis[j]
      <4>1. j \in Int /\ start.l <= j /\ j < l
        BY <1>3, <3>2, <3>3, <3>4
      <4>2. 0 <= j
        BY <1>3, <4>1
      <4>3. j <= Length - 1 /\ j < i
        BY <1>3, <1>5, <1>11, <4>1
      <4>4. j \in 0..Length - 1 /\ j # i
        BY <1>11, <4>1, <4>2, <4>3
      <4> QED BY <1>13, <4>4
    <3>6. Asc(lis, frames[k].l, Sort!Middle(frames[k]))
      BY <2>1 DEF SortInv, Halves
    <3> QED BY <3>5, <3>6, AscSame
  <2> QED BY <1>1, <1>3, <2>1 DEF Halves
<1>18. Values'
  <2> DEFINE rest == Places \ (i..r)
             kept == Pending'
  <2>1. /\ IsFiniteSet(rest) /\ IsFiniteSet(kept) /\ i \notin rest /\ at0 \notin kept
        /\ Places' \ (i'..r) = rest \cup {i} /\ Pending = kept \cup {at0}
    <3>1. IsFiniteSet(Places)
      <4>1. start.l \in Int /\ start.r \in Int
        BY <1>3
      <4> QED BY <4>1, FS_Interval DEF Places
    <3>2. IsFiniteSet(0..n - 1)
      <4>1. 0 \in Int /\ n - 1 \in Int
        BY <1>7
      <4> QED BY <4>1, FS_Interval
    <3>3. rest \in SUBSET Places /\ kept \in SUBSET (0..n - 1)
      BY <1>12 DEF Takes
    <3>4. i \notin rest /\ at0 \notin kept /\ Pending = kept \cup {at0}
      BY <1>11 DEF Takes
    <3>5. Places' \ (i'..r) = rest \cup {i}
      <4>1. \A j \in Places : j \in Int
        BY DEF Places
      <4>2. i' = i + 1 /\ \A j \in Int : j \in i + 1..r <=> (j \in i..r /\ j # i)
        BY <1>11 DEF Takes
      <4> QED BY <1>1, <1>11, <4>1, <4>2
    <3> HIDE DEF rest, kept
    <3> QED BY <3>1, <3>2, <3>3, <3>4, <3>5, FS_Subset
  <2> SUFFICES ASSUME NEW v \in Numbers
               PROVE  Count(start.lis, Places, v)
                        = Count(lis', Places' \ (i'..r), v) + Count(buf, Pending', v)
    BY <1>1, <1>4 DEF Takes, Values
  <2>2. Count(start.lis, Places, v) = Count(lis, rest, v) + Count(buf, Pending, v)
    BY <1>4 DEF Takes, SortInv, Values
  <2> HIDE DEF rest
  <2>3. /\ Count(lis', rest, v) \in Nat
        /\ Count(lis', rest \cup {i}, v) = Count(lis', rest, v) + (IF lis'[i] = v THEN 1 ELSE 0)
    BY <2>1, CountAdds
  <2>4. /\ Count(buf, kept, v) \in Nat
        /\ Count(buf, kept \cup {at0}, v) = Count(buf, kept, v) + (IF buf[at0] = v THEN 1 ELSE 0)
    <3> HIDE DEF kept
    <3> QED BY <2>1, CountAdds
  <2>5. Count(lis', rest, v) = Count(lis, rest, v)
    <3>1. \A j \in rest : lis'[j] = lis[j]
      <4>1. \A j \in rest : j \in 0..Length - 1 /\ j # i
        BY <1>3, <2>1 DEF rest, Places
      <4> QED BY <1>13, <4>1
    <3> QED BY <3>1, CountSame
  <2>6. Count(lis', Places' \ (i'..r), v) = Count(lis', rest, v) + (IF lis'[i] = v THEN 1 ELSE 0)
    BY <2>1, <2>3
  <2>7. Count(buf, Pending, v) = Count(buf, kept, v) + (IF lis'[i] = v THEN 1 ELSE 0)
    BY <1>13, <2>1, <2>4
  <2> HIDE DEF kept
  <2>8. Count(start.lis, Places, v) = Count(lis', Places' \ (i'..r), v) + Count(buf, kept, v)
    BY <2>2, <2>3, <2>4, <2>5, <2>6, <2>7
  <2> QED BY <2>8 DEF kept
<1> QED BY <1>1, <1>13, <1>14, <1>15, <1>16, <1>17, <1>18 DEF SortInv, Sort!Arrays

(* What merge_sorted is about. *)
LEMMA MergingFacts ==
  ASSUME SortInv, Numbers \subseteq Int, buf # <<>>
  PROVE  /\ frames # <<>>
         /\ Sort!mm \in Nat /\ Sort!len \in Nat /\ Sort!mm < Sort!len - 1
         /\ ll \in 0..Sort!mm + 1 /\ rr \in Sort!mm + 1..Sort!len
         /\ ll \in Nat /\ rr \in Nat /\ Sort!top.l \in Nat /\ Sort!top.r \in Nat
         /\ Sort!len = Sort!top.r - Sort!top.l + 1
         /\ i = Sort!top.l + ll + (rr - Sort!mm - 1)
         /\ \A j \in 0..Sort!len - 1 : buf[j] \in Int
         /\ \A j \in Pending : j \in 0..Sort!len - 1
         /\ \A j \in ll..Sort!mm : buf[ll] <= buf[j]
         /\ \A j \in rr..Sort!len - 1 : buf[rr] <= buf[j]
<1>1. Merging
  BY DEF SortInv
<1>2. /\ frames # <<>> /\ Sort!top \in Calls /\ Sort!top.l < Sort!top.r
      /\ Sort!top.l \in Int /\ Sort!top.r \in Int /\ start.l \in Nat /\ start.l <= Sort!top.l
  BY <1>1, InnermostCall DEF Merging
<1>3. PICK l \in Nat, r \in Nat, m \in Int :
        l = Sort!top.l /\ r = Sort!top.r /\ m = Sort!Middle(Sort!top) /\ l <= m /\ m < r
  BY <1>2, MiddleBetween
<1>4. PICK n \in Nat : n = r - l + 1
  <2>1. r - l + 1 \in Nat
    BY <1>3
  <2> QED BY <2>1
<1>5. PICK e \in Nat : e = m - l /\ e < n - 1
  <2>1. m - l \in Nat /\ m - l < n - 1
    BY <1>3, <1>4
  <2> QED BY <2>1
<1>6. Sort!len = n /\ Sort!mm = e
  BY <1>3, <1>4, <1>5 DEF Sort!len, Sort!mm
<1>7. /\ ll \in 0..e + 1 /\ rr \in e + 1..n /\ i = l + ll + (rr - e - 1)
      /\ buf \in [0..n - 1 -> Numbers] /\ Asc(buf, 0, e) /\ Asc(buf, e + 1, n - 1)
      /\ Pending = (ll..e) \cup (rr..n - 1)
  BY <1>1, <1>3, <1>6 DEF Merging, Pending
<1>8. ll \in Nat /\ rr \in Nat
  BY <1>5, <1>7
<1>9. \A j \in 0..n - 1 : buf[j] \in Int
  BY <1>7
<1>10. ASSUME NEW j \in Pending PROVE j \in 0..n - 1
  BY <1>4, <1>5, <1>7, <1>8
<1>11. ASSUME NEW j \in ll..e PROVE buf[ll] <= buf[j]
  <2>1. ll \in 0..e /\ j \in 0..e /\ (ll < j \/ ll = j) /\ ll \in 0..n - 1
    BY <1>5, <1>8, <1>11
  <2>2. buf[ll] \in Int
    BY <1>9, <2>1
  <2> QED BY <1>7, <2>1, <2>2 DEF Asc
<1>12. ASSUME NEW j \in rr..n - 1 PROVE buf[rr] <= buf[j]
  <2>1. rr \in e + 1..n - 1 /\ j \in e + 1..n - 1 /\ (rr < j \/ rr = j) /\ rr \in 0..n - 1
    BY <1>5, <1>7, <1>8, <1>12
  <2>2. buf[rr] \in Int
    BY <1>9, <2>1
  <2> QED BY <1>7, <2>1, <2>2 DEF Asc
<1> QED BY <1>2, <1>3, <1>4, <1>5, <1>6, <1>7, <1>8, <1>9, <1>10, <1>11, <1>12

LEMMA LeftIsTaken ==
  ASSUME SortInv, Length \in Nat, Numbers \subseteq Int, buf # <<>>, ll <= Sort!mm,
         rr < Sort!len => buf[ll] <= buf[rr],
         Sort!TakeLeft
  PROVE  SortInv'
<1>1. /\ lis' = [lis EXCEPT ![i] = buf[ll]] /\ i' = i + 1 /\ ll' = ll + 1
      /\ frames' = frames /\ buf' = buf /\ rr' = rr /\ start' = start
  BY DEF Sort!TakeLeft
<1>2. Sort!len' = Sort!len /\ Sort!mm' = Sort!mm
  BY <1>1 DEF Sort!len, Sort!mm, Sort!top
<1>3. PICK e \in Nat, n \in Nat : e = Sort!mm /\ n = Sort!len
  BY MergingFacts
<1>4. /\ e < n - 1 /\ ll \in Nat /\ rr \in Nat /\ ll <= e /\ e + 1 <= rr /\ rr <= n
  BY <1>3, MergingFacts
<1>5. ll \in Pending
  BY <1>3, <1>4 DEF Pending
<1>6. ASSUME NEW j \in Pending PROVE buf[ll] <= buf[j]
  <2>1. CASE j \in ll..e
    BY <1>3, <2>1, MergingFacts
  <2>2. CASE j \in rr..n - 1
    <3>1. buf[ll] <= buf[rr] /\ buf[rr] <= buf[j]
      BY <1>3, <1>4, <2>2, MergingFacts
    <3>2. ll \in 0..n - 1 /\ rr \in 0..n - 1 /\ j \in 0..n - 1
      BY <1>3, <1>4, <2>2
    <3>3. buf[ll] \in Int /\ buf[rr] \in Int /\ buf[j] \in Int
      BY <1>3, <3>2, MergingFacts
    <3> QED BY <3>1, <3>3
  <2> QED BY <1>3, <2>1, <2>2 DEF Pending
<1>7. Pending' = Pending \ {ll}
  <2>1. Pending' = (ll + 1..e) \cup (rr..n - 1) /\ Pending = (ll..e) \cup (rr..n - 1)
    BY <1>1, <1>2, <1>3 DEF Pending
  <2>2. \A j : j \in ll + 1..e <=> j \in ll..e /\ j # ll
    BY <1>3, <1>4
  <2>3. ll \notin rr..n - 1
    BY <1>3, <1>4
  <2> QED BY <2>1, <2>2, <2>3
<1>8. ll' \in 0..e + 1 /\ rr' \in e + 1..n /\ ll' + rr' = ll + rr + 1
  BY <1>1, <1>3, <1>4
<1>9. Takes(ll)
  BY <1>1, <1>3, <1>6, <1>7, <1>8 DEF Takes
<1> QED BY <1>5, <1>9, TakeKeeps

LEMMA RightIsTaken ==
  ASSUME SortInv, Length \in Nat, Numbers \subseteq Int, buf # <<>>, rr < Sort!len,
         ll <= Sort!mm => buf[rr] <= buf[ll],
         Sort!TakeRight
  PROVE  SortInv'
<1>1. /\ lis' = [lis EXCEPT ![i] = buf[rr]] /\ i' = i + 1 /\ rr' = rr + 1
      /\ frames' = frames /\ buf' = buf /\ ll' = ll /\ start' = start
  BY DEF Sort!TakeRight
<1>2. Sort!len' = Sort!len /\ Sort!mm' = Sort!mm
  BY <1>1 DEF Sort!len, Sort!mm, Sort!top
<1>3. PICK e \in Nat, n \in Nat : e = Sort!mm /\ n = Sort!len
  BY MergingFacts
<1>4. /\ e < n - 1 /\ ll \in Nat /\ rr \in Nat /\ ll <= e + 1 /\ e + 1 <= rr /\ rr < n
  BY <1>3, MergingFacts
<1>5. rr \in Pending
  BY <1>3, <1>4 DEF Pending
<1>6. ASSUME NEW j \in Pending PROVE buf[rr] <= buf[j]
  <2>1. CASE j \in rr..n - 1
    BY <1>3, <2>1, MergingFacts
  <2>2. CASE j \in ll..e
    <3>1. buf[rr] <= buf[ll] /\ buf[ll] <= buf[j]
      BY <1>3, <1>4, <2>2, MergingFacts
    <3>2. ll \in 0..n - 1 /\ rr \in 0..n - 1 /\ j \in 0..n - 1
      BY <1>3, <1>4, <2>2
    <3>3. buf[ll] \in Int /\ buf[rr] \in Int /\ buf[j] \in Int
      BY <1>3, <3>2, MergingFacts
    <3> QED BY <3>1, <3>3
  <2> QED BY <1>3, <2>1, <2>2 DEF Pending
<1>7. Pending' = Pending \ {rr}
  <2>1. Pending' = (ll..e) \cup (rr + 1..n - 1) /\ Pending = (ll..e) \cup (rr..n - 1)
    BY <1>1, <1>2, <1>3 DEF Pending
  <2>2. \A j : j \in rr + 1..n - 1 <=> j \in rr..n - 1 /\ j # rr
    BY <1>3, <1>4
  <2>3. rr \notin ll..e
    BY <1>3, <1>4
  <2> QED BY <2>1, <2>2, <2>3
<1>8. ll' \in 0..e + 1 /\ rr' \in e + 1..n /\ ll' + rr' = ll + rr + 1
  BY <1>1, <1>3, <1>4
<1>9. Takes(rr)
  BY <1>1, <1>3, <1>6, <1>7, <1>8 DEF Takes
<1> QED BY <1>5, <1>9, TakeKeeps

LEMMA MergedKeeps ==
  ASSUME SortInv, Length \in Nat, Numbers \subseteq Int, Sort!Merged
  PROVE  SortInv'
<1>1. /\ buf # <<>> /\ ll > Sort!mm /\ rr >= Sort!len
      /\ buf' = <<>> /\ frames' = Tail(frames) /\ lis' = lis /\ start' = start
  BY DEF Sort!Merged
<1>2. PICK e \in Nat, n \in Nat, l \in Nat, r \in Nat :
        /\ e = Sort!mm /\ n = Sort!len /\ l = Sort!top.l /\ r = Sort!top.r
        /\ n = r - l + 1
  BY <1>1, MergingFacts
<1>3. ll = e + 1 /\ rr = n
  BY <1>1, <1>2, MergingFacts
<1>4. i = r + 1
  <2>1. i = l + ll + (rr - e - 1)
    BY <1>1, <1>2, MergingFacts
  <2> QED BY <1>2, <1>3, <2>1
<1>5. Pending = {} /\ i..r = {}
  BY <1>2, <1>3, <1>4 DEF Pending
<1>6. Asc(lis, Sort!top.l, Sort!top.r)
  <2>1. Asc(lis, l, i - 1) /\ i - 1 = r
    BY <1>1, <1>2, <1>4 DEF SortInv, Merging
  <2> QED BY <1>2, <2>1
<1>7. ASSUME NEW v \in Numbers PROVE Count(lis, Places, v) = Count(start.lis, Places, v)
  <2>1. Count(start.lis, Places, v) = Count(lis, Places \ (i..r), v) + Count(buf, Pending, v)
    BY <1>1, <1>2 DEF SortInv, Values
  <2>2. Count(buf, {}, v) = 0
    BY FS_EmptySet DEF Count
  <2>3. Places \ (i..r) = Places /\ Count(lis, Places, v) \in Nat
    <3>1. start.l \in Int /\ start.r \in Int
      BY DEF SortInv
    <3>2. IsFiniteSet(Places) /\ {} \cap Places = {} /\ IsFiniteSet({})
      BY <3>1, FS_Interval, FS_EmptySet DEF Places
    <3>3. Count(lis, Places, v) \in Nat
      BY <3>2, CountSplits
    <3> QED BY <1>5, <3>3
  <2> QED BY <1>5, <2>1, <2>2, <2>3
<1>8. frames # <<>>
  BY <1>1, MergingFacts
<1> QED BY <1>1, <1>6, <1>7, <1>8, ReturnKeeps

-----------------------------------------------------------------------------
LEMMA SortStarts ==
  ASSUME Length \in Nat, Sort!Init
  PROVE  SortInv
<1>1. PICK a \in Sort!Arrays, l \in 0..Length - 1 : \E r \in l - 1..Length - 1 :
        /\ lis = a
        /\ frames = <<Sort!Frame(l, r, 0)>>
        /\ buf = <<>>
        /\ start = [lis |-> a, l |-> l, r |-> r]
  BY DEF Sort!Init
<1>2. PICK r \in l - 1..Length - 1 :
        /\ frames = <<Sort!Frame(l, r, 0)>>
        /\ start = [lis |-> a, l |-> l, r |-> r]
  BY <1>1
<1>3. start.lis = a /\ start.l = l /\ start.r = r /\ lis = a /\ buf = <<>>
  BY <1>1, <1>2
<1>4. l \in Int /\ r \in Int
  BY <1>1
<1> DEFINE f == Sort!Frame(l, r, 0)
<1>5. f \in Calls /\ f.l = l /\ f.r = r /\ f.calls = 0
  BY <1>4 DEF Sort!Frame, Calls
<1> HIDE DEF f
<1>6. frames \in Seq(Calls) /\ Len(frames) = 1 /\ frames[1] = f /\ frames # <<>>
  <2>1. frames = <<f>>
    BY <1>2 DEF f
  <2> QED BY <1>5, <2>1
<1>7. Stack
  BY <1>3, <1>4, <1>5, <1>6 DEF Stack
<1>8. Halves
  BY <1>5, <1>6 DEF Halves, Sort!top
<1>9. Values
  BY <1>3 DEF Values
<1> QED BY <1>1, <1>2, <1>3, <1>7, <1>8, <1>9 DEF SortInv

LEMMA SortStepKeeps ==
  ASSUME SortInv, Length \in Nat, Numbers \subseteq Int, Sort!Next
  PROVE  SortInv'
<1>1. ASSUME Sort!InMerge, Sort!top.l < Sort!top.r, Sort!top.calls \in {0, 1},
             UNCHANGED <<lis, buf, i, ll, rr, start>>,
             NEW l, NEW r, frames' = Sort!Called(Sort!Frame(l, r, 0)),
             \/ Sort!top.calls = 0 /\ l = Sort!top.l /\ r = Sort!Middle(Sort!top)
             \/ Sort!top.calls = 1 /\ l = Sort!Middle(Sort!top) + 1 /\ r = Sort!top.r
      PROVE  SortInv'
  <2> DEFINE f == Sort!Frame(l, r, 0)
             g == [Sort!top EXCEPT !.calls = @ + 1]
  <2>1. Sort!top \in Calls /\ Sort!top.l \in Int /\ Sort!top.r \in Int
    BY <1>1, InnermostCall DEF Sort!InMerge
  <2>2. Sort!Middle(Sort!top) \in Int
    BY <1>1, <2>1, MiddleBetween
  <2>3. l \in Int /\ r \in Int
    BY <1>1, <2>1, <2>2
  <2>4. f \in Calls /\ f.l = l /\ f.r = r /\ f.calls = 0
    BY <2>3 DEF Sort!Frame, Calls
  <2>5. g \in Calls /\ g.l = Sort!top.l /\ g.r = Sort!top.r /\ g.calls = Sort!top.calls + 1
    BY <1>1, <2>1 DEF Calls
  <2>6. frames' = <<f>> \o <<g>> \o Tail(frames)
    BY <1>1 DEF Sort!Called
  <2> HIDE DEF f, g
  <2>7. Sort!Middle(g) = Sort!Middle(Sort!top)
    BY <2>5 DEF Sort!Middle
  <2>8. HalfOf(f, g)
    BY <1>1, <2>4, <2>5, <2>7 DEF HalfOf
  <2> QED BY <1>1, <2>4, <2>5, <2>6, <2>8, CallKeeps
<1>2. CASE Sort!SortLeft
  BY <1>1, <1>2 DEF Sort!SortLeft
<1>3. CASE Sort!SortRight
  BY <1>1, <1>3 DEF Sort!SortRight
<1>4. CASE Sort!Return
  <2>1. /\ frames # <<>> /\ buf = <<>> /\ Sort!top.l >= Sort!top.r
        /\ frames' = Tail(frames) /\ buf' = <<>> /\ UNCHANGED <<lis, start>>
    BY <1>4 DEF Sort!Return, Sort!InMerge
  <2>2. Asc(lis, Sort!top.l, Sort!top.r)
    BY <2>1, InnermostCall DEF Asc
  <2>3. \A v \in Numbers : Count(lis, Places, v) = Count(start.lis, Places, v)
    BY <2>1 DEF SortInv, Values
  <2> QED BY <2>1, <2>2, <2>3, ReturnKeeps
<1>5. CASE Sort!Copy
  BY <1>5, CopyKeeps
<1>6. CASE Sort!Merge
  <2>1. buf # <<>> /\ ll <= Sort!mm /\ rr < Sort!len
    BY <1>6 DEF Sort!Merge
  <2>2. buf[ll] \in Int /\ buf[rr] \in Int
    <3>1. ll \in 0..Sort!len - 1 /\ rr \in 0..Sort!len - 1
      BY <2>1, MergingFacts
    <3> QED BY <2>1, <3>1, MergingFacts
  <2>3. CASE buf[ll] < buf[rr] /\ Sort!TakeLeft
    BY <2>1, <2>2, <2>3, LeftIsTaken
  <2>4. CASE ~(buf[ll] < buf[rr]) /\ Sort!TakeRight
    BY <2>1, <2>2, <2>4, RightIsTaken
  <2> QED BY <1>6, <2>3, <2>4 DEF Sort!Merge
<1>7. CASE Sort!RestOfLeft
  <2>1. buf # <<>> /\ ll <= Sort!mm /\ rr >= Sort!len /\ Sort!TakeLeft
    BY <1>7 DEF Sort!RestOfLeft
  <2>2. ~(rr < Sort!len)
    BY <2>1, MergingFacts
  <2> QED BY <2>1, <2>2, LeftIsTaken
<1>8. CASE Sort!RestOfRight
  <2>1. buf # <<>> /\ ll > Sort!mm /\ rr < Sort!len /\ Sort!TakeRight
    BY <1>8 DEF Sort!RestOfRight
  <2>2. ~(ll <= Sort!mm)
    BY <2>1, MergingFacts
  <2> QED BY <2>1, <2>2, RightIsTaken
<1>9. CASE Sort!Merged
  BY <1>9, MergedKeeps
<1> QED BY <1>2, <1>3, <1>4, <1>5, <1>6, <1>7, <1>8, <1>9 DEF Sort!Next

LEMMA SortedInPlace ==
  ASSUME SortInv
  PROVE  Sort!SortsInPlace
<1>1. \A j \in 0..Length - 1 : j \notin start.l..start.r => lis[j] = start.lis[j]
  BY DEF SortInv, Places
<1>2. ASSUME buf = <<>> PROVE Sort!Permuted(start.l..start.r)
  <2>1. \A S : Sort!Cardinality(S) = Cardinality(S)
    BY Zenon DEF Sort!Cardinality, Cardinality
  <2>2. \A v \in Numbers : Count(start.lis, Places, v) = Count(lis, Places, v)
    BY <1>2 DEF SortInv, Values
  <2> QED BY <2>1, <2>2 DEF Sort!Permuted, Count, Places
<1>3. ASSUME Sort!InMerge, Sort!top.calls = 2
      PROVE  /\ Sort!Sorted(Sort!top.l, Sort!Middle(Sort!top))
             /\ Sort!Sorted(Sort!Middle(Sort!top) + 1, Sort!top.r)
  BY <1>3 DEF SortInv, Halves, Sort!InMerge, Sort!Sorted, Asc
<1>4. frames = <<>> => Sort!Sorted(start.l, start.r)
  BY DEF SortInv, Halves, Sort!Sorted, Asc
<1> QED BY <1>1, <1>2, <1>3, <1>4 DEF Sort!SortsInPlace

(* merge.c:32-33: both halves of a part are sorted before merge_sorted     *)
(* merges them, the part is when merge returns, no value of it is lost,    *)
(* and nothing outside of it is written; for any part of any array.        *)
THEOREM ArraysAreSorted ==
  ASSUME Length \in Nat, Numbers \subseteq Int
  PROVE  MCSpec => []SortsInPlace
<1> DEFINE Inv == program = "sort" => SortInv
<1>1. MCInit => Inv
  BY SortStarts DEF MCInit
<1>2. Inv /\ [MCNext]_allVars => Inv'
  <2> SUFFICES ASSUME Inv, [MCNext]_allVars PROVE Inv'
    OBVIOUS
  <2>1. program' = program
    BY DEF MCNext, allVars
  <2>2. CASE SortNext
    BY <2>1, <2>2, SortStepKeeps DEF SortNext
  <2>3. CASE UNCHANGED sortVars
    <3>1. UNCHANGED <<lis, frames, buf, i, ll, rr, start>>
      BY <2>3 DEF sortVars
    <3>2. Stack' = Stack /\ Halves' = Halves /\ Merging' = Merging /\ Values' = Values
      BY <3>1 DEF Stack, Halves, Merging, Values, Places, Pending, Sort!top, Sort!len, Sort!mm
    <3>3. SortInv => SortInv'
      BY <3>1, <3>2 DEF SortInv, Places
    <3> QED BY <2>1, <3>3
  <2>4. SortNext \/ UNCHANGED sortVars
    BY DEF MCNext, allVars, ListNext, PollNext, SqlNext, GcNext
  <2> QED BY <2>2, <2>3, <2>4
<1>3. Inv => SortsInPlace
  BY SortedInPlace DEF SortsInPlace
<1> QED BY <1>1, <1>2, <1>3, PTL DEF MCSpec

-----------------------------------------------------------------------------
(* LinkedList *)

NoNode == List!NULL
Held == Vals \cup {List!Unset}

(* s is the n nodes from the first one to the last. *)
Linked(n, s) ==
  /\ n \in Nat
  /\ s \in [1..n -> Nodes]
  /\ \A j, k \in 1..n : s[j] = s[k] => j = k
  /\ \A k \in 1..n : lnext[s[k]] = IF k < n THEN s[k + 1] ELSE NoNode

NodesOf(n, s) == {s[k] : k \in 1..n}

(* The node at k, with none behind the last. *)
NodeAt(n, s, k) == IF k \in 1..n THEN s[k] ELSE NoNode

(* They are the list the client holds, and all there is. *)
Whole(n, s) == n # 0 /\ Linked(n, s) /\ s[1] = head /\ live = NodesOf(n, s)

ValuesTo(f, s, n) == [k \in 1..n - 1 |-> f[s[k + 1]]]

Resting ==
  /\ lpc = "idle" /\ ptr = NoNode
  /\ \/ head = NoNode /\ live = {} /\ expect = <<>>
     \/ \E n, s : Whole(n, s) /\ expect = ValuesTo(val, s, n)

Destroying ==
  /\ lpc = "destroy" /\ head = NoNode /\ expect = <<>>
  /\ \E n, s : Linked(n, s) /\ live = NodesOf(n, s) /\ ptr = NodeAt(n, s, 1)

Adding ==
  /\ lpc = "add" /\ data \in Seq(Vals) /\ data # <<>>
  /\ Cardinality(Nodes \ live) >= Len(data)
  /\ \E n, s : /\ Whole(n, s) /\ expect = ValuesTo(val, s, n) \o data
               /\ at \in live /\ ptr \in live

(* x with y behind it, unless y is v. *)
Sifted(x, y, v) == IF y = v THEN x ELSE Append(x, y)

(* e follows how the values w at 1..q are kept when they are not v. *)
KeptBy(e, w, q, v) == \A m \in 1..q : e[m] = Sifted(e[m - 1], w[m], v)

(* ptr is at s[b], and what is behind it are the values w from m on: those *)
(* before have been kept or not, and e[m] is what was.                     *)
Sifting(n, s, b, q, m, w, e) ==
  /\ Whole(n, s) /\ b \in 1..n /\ ptr = s[b]
  /\ q \in Nat /\ m \in Nat /\ m <= q /\ q - m = n - b
  /\ w \in [1..q -> Held] /\ e \in [0..q -> Seq(Held)]
  /\ KeptBy(e, w, q, data[1])
  /\ \A k \in 1..n - b : val[s[b + k]] = w[m + k]
  /\ e[m] = ValuesTo(val, s, b)
  /\ expect = e[q]

Removing == lpc = "remove" /\ \E n, s, b, q, m, w, e : Sifting(n, s, b, q, m, w, e)

(* s is the list as it was; of the nodes behind s[a] m are turned round. *)
Turned(n, s, a, m) ==
  /\ n \in Nat /\ a \in 1..n /\ m \in 0..n - a
  /\ s \in [1..n -> Nodes]
  /\ \A j, k \in 1..n : s[j] = s[k] => j = k
  /\ s[1] = head /\ live = NodesOf(n, s)
  /\ \A k \in 1..n :
       /\ k < a => lnext[s[k]] = s[k + 1]
       /\ a < k /\ k <= a + m => lnext[s[k]] = IF k = a + 1 THEN NoNode ELSE s[k - 1]
       /\ a + m < k => lnext[s[k]] = IF k < n THEN s[k + 1] ELSE NoNode

(* The values f of the nodes, those from a on in the other order. *)
Flipped(f, n, s, a) == [k \in 1..n - 1 |-> IF k < a THEN f[s[k + 1]] ELSE f[s[n - (k - a)]]]

Reversing ==
  /\ lpc = "reverse"
  /\ \E n, s, a, m :
       /\ Turned(n, s, a, m)
       /\ at = s[a]
       /\ prev = IF m = 0 THEN NoNode ELSE s[a + m]
       /\ ptr = NodeAt(n, s, a + m + 1)
       /\ expect = Flipped(val, n, s, a)

Measuring ==
  /\ lpc = "length"
  /\ \E n, s : /\ Whole(n, s) /\ expect = ValuesTo(val, s, n)
       /\ \E a \in 1..n : \E b \in a..n + 1 :
            at = s[a] /\ ptr = NodeAt(n, s, b) /\ count = b - a - 1

ListInv ==
  /\ lnext \in [Nodes -> Nodes \cup {NoNode}] /\ val \in [Nodes -> Held]
  /\ Resting \/ Destroying \/ Adding \/ Removing \/ Reversing \/ Measuring

(* malloc hands out finitely many addresses, and 0 is none of them. *)
Addresses == IsFiniteSet(Nodes) /\ Nodes \subseteq Nat \ {0} /\ MaxArray \in Nat

(* Numbers *)

LEMMA LeastNumber ==
  ASSUME NEW S, S \subseteq Nat, S # {}
  PROVE  \E m \in S : \A y \in S : m <= y
<1>1. Shell!Min(S) \in S /\ \A y \in S : Shell!Min(S) <= y
  BY Shell!LeastIsMin
<1> QED BY <1>1

(* What holds of 0, and of n + 1 when it holds of n, holds of every number. *)
LEMMA HoldsOfNumbers ==
  ASSUME NEW S, 0 \in S, \A n \in Nat : n \in S => n + 1 \in S
  PROVE  Nat \subseteq S
<1> SUFFICES ASSUME NEW k \in Nat, k \notin S PROVE FALSE
  OBVIOUS
<1> DEFINE T == {n \in Nat : n \notin S}
<1>1. PICK m \in T : \A y \in T : m <= y
  <2>1. T \subseteq Nat /\ T # {}
    OBVIOUS
  <2> HIDE DEF T
  <2> QED BY <2>1, LeastNumber
<1>2. m # 0 /\ m \in Nat
  OBVIOUS
<1>3. m - 1 \in Nat /\ m - 1 \in S
  BY <1>1, <1>2
<1>4. m - 1 + 1 \in S
  BY <1>3
<1> QED BY <1>2, <1>4

-----------------------------------------------------------------------------
(* What the operators of LinkedList make of linked nodes *)

LEMMA NoNodeIsZero == NoNode = 0 /\ List!NULL = NoNode
BY DEF NoNode, List!NULL

LEMMA CdrOf ==
  ASSUME Addresses, NEW n, NEW s, Linked(n, s), NEW k \in Nat, k # 0
  PROVE  List!list_cdr(NodeAt(n, s, k)) = NodeAt(n, s, k + 1)
<1>1. CASE k \in 1..n
  <2>1. s[k] \in Nodes /\ NodeAt(n, s, k) = s[k]
    BY <1>1 DEF Linked, NodeAt
  <2>2. s[k] # NoNode
    BY <2>1, NoNodeIsZero DEF Addresses
  <2>3. lnext[s[k]] = NodeAt(n, s, k + 1)
    BY <1>1 DEF Linked, NodeAt
  <2> QED BY <2>1, <2>2, <2>3, NoNodeIsZero DEF List!list_cdr
<1>2. CASE k \notin 1..n
  <2>1. NodeAt(n, s, k) = NoNode /\ NodeAt(n, s, k + 1) = NoNode
    BY <1>2 DEF Linked, NodeAt
  <2> QED BY <2>1, NoNodeIsZero DEF List!list_cdr
<1> QED BY <1>1, <1>2

LEMMA RestOf ==
  ASSUME Addresses, NEW n, NEW s, Linked(n, s), NEW k \in Nat, k # 0, NEW j \in Nat
  PROVE  List!Rest(NodeAt(n, s, k))[j] = NodeAt(n, s, k + j)
<1> DEFINE h == NodeAt(n, s, k)
           Next1(r) == [x \in Nat |-> IF x = 0 THEN h ELSE List!list_cdr(r[x - 1])]
           f == CHOOSE r : r = Next1(r)
           w == [x \in Nat |-> NodeAt(n, s, k + x)]
<1>1. w = Next1(w)
  <2>1. ASSUME NEW x \in Nat PROVE w[x] = IF x = 0 THEN h ELSE List!list_cdr(w[x - 1])
    <3>1. CASE x = 0
      BY <3>1
    <3>2. CASE x # 0
      <4>1. k + (x - 1) \in Nat /\ k + (x - 1) # 0 /\ x - 1 \in Nat /\ k + (x - 1) + 1 = k + x
        BY <3>2
      <4>2. List!list_cdr(NodeAt(n, s, k + (x - 1))) = NodeAt(n, s, k + (x - 1) + 1)
        BY <4>1, CdrOf
      <4>3. w[x] = NodeAt(n, s, k + x) /\ w[x - 1] = NodeAt(n, s, k + (x - 1))
        BY <4>1
      <4> QED BY <3>2, <4>1, <4>2, <4>3
    <3> QED BY <3>1, <3>2
  <2> HIDE DEF h
  <2>2. w = [x \in Nat |-> w[x]]
    OBVIOUS
  <2> HIDE DEF w
  <2> QED BY <2>1, <2>2
<1>2. f = Next1(f)
  <2> HIDE DEF w, h
  <2> QED BY <1>1
<1>3. List!Rest(h) = f
  BY DEF List!Rest
<1> DEFINE S == {x \in Nat : f[x] = w[x]}
<1>4. \A x \in Nat : f[x] = IF x = 0 THEN h ELSE List!list_cdr(f[x - 1])
  <2> HIDE DEF f, h
  <2> QED BY <1>2
<1>5. \A x \in Nat : w[x] = IF x = 0 THEN h ELSE List!list_cdr(w[x - 1])
  <2> HIDE DEF w, h
  <2> QED BY <1>1
<1> HIDE DEF f, w, h
<1>6. 0 \in S
  BY <1>4, <1>5
<1>7. ASSUME NEW x \in Nat, x \in S PROVE x + 1 \in S
  <2>1. x + 1 \in Nat /\ x + 1 # 0 /\ (x + 1) - 1 = x
    OBVIOUS
  <2>2. f[x] = w[x]
    BY <1>7
  <2>3. f[x + 1] = List!list_cdr(f[x]) /\ w[x + 1] = List!list_cdr(w[x])
    BY <1>4, <1>5, <2>1
  <2> QED BY <2>1, <2>2, <2>3
<1>8. f[j] = w[j]
  <2>1. Nat \subseteq S
    <3> HIDE DEF S
    <3> QED BY <1>6, <1>7, HoldsOfNumbers
  <2> QED BY <2>1
<1>9. w[j] = NodeAt(n, s, k + j)
  BY DEF w
<1> QED BY <1>3, <1>8, <1>9 DEF h

LEMMA NodesSuffice ==
  ASSUME Addresses, NEW n, NEW s, Linked(n, s)
  PROVE  n <= Cardinality(Nodes) /\ Cardinality(Nodes) \in Nat
<1>1. s \in Injection(1..n, Nodes)
  BY DEF Linked, Injection, IsInjective
<1>2. n \in Int /\ 1 \in Int
  BY DEF Linked
<1>3. IsFiniteSet(1..n) /\ Cardinality(1..n) = n
  BY <1>2, FS_Interval DEF Linked
<1>4. Cardinality(1..n) <= Cardinality(Nodes)
  BY <1>1, <1>3, FS_Injection DEF Addresses, ExistsInjection
<1> QED BY <1>3, <1>4, FS_CardinalityType DEF Addresses

LEMMA ListCardinality == \A S : List!Cardinality(S) = Cardinality(S)
BY Zenon DEF List!Cardinality, Cardinality

LEMMA ContentsOf ==
  ASSUME Addresses, NEW n, NEW s, Linked(n, s), NEW k \in 1..n
  PROVE  List!Contents(s[k]) = [x \in 1..n - k |-> val[s[k + x]]]
<1> DEFINE h == s[k]
           N == Cardinality(Nodes)
           S == {x \in 1..N + 1 : x = N + 1 \/ List!Rest(h)[x] = List!NULL}
           end == List!Min(S)
<1>1. N \in Nat /\ n <= N /\ n \in Nat /\ k \in Nat /\ k # 0
  <2>1. N \in Nat /\ n <= N
    BY NodesSuffice
  <2>2. n \in Nat
    BY DEF Linked
  <2> QED BY <2>1, <2>2
<1>2. ASSUME NEW x \in Nat PROVE List!Rest(h)[x] = NodeAt(n, s, k + x)
  <2>1. h = NodeAt(n, s, k)
    BY DEF NodeAt
  <2> QED BY <1>1, <2>1, RestOf
<1>3. ASSUME NEW x \in Nat PROVE List!Rest(h)[x] = List!NULL <=> k + x > n
  <2>1. CASE k + x > n
    BY <1>1, <1>2, <2>1, NoNodeIsZero DEF NodeAt
  <2>2. CASE k + x <= n
    <3>1. k + x \in 1..n
      BY <1>1, <2>2
    <3>2. s[k + x] \in Nodes /\ NodeAt(n, s, k + x) = s[k + x]
      BY <3>1 DEF Linked, NodeAt
    <3> QED BY <1>1, <1>2, <2>2, <3>2, NoNodeIsZero DEF Addresses
  <2> QED BY <1>1, <2>1, <2>2
<1> HIDE DEF h, N
<1>4. n - k + 1 \in S /\ \A x \in S : n - k + 1 <= x
  <2>1. n - k + 1 \in 1..N + 1 /\ k + (n - k + 1) > n
    BY <1>1
  <2>2. ASSUME NEW x \in S PROVE n - k + 1 <= x
    <3>1. x \in Nat /\ (x = N + 1 \/ k + x > n)
      BY <1>1, <1>3
    <3> QED BY <1>1, <3>1
  <2> QED BY <1>3, <2>1, <2>2
<1>5. end \in S /\ \A x \in S : end <= x
  <2> HIDE DEF S
  <2> QED BY <1>4 DEF List!Min
<1>6. end = n - k + 1
  <2>1. end \in Nat
    BY <1>1, <1>5
  <2>2. end <= n - k + 1 /\ n - k + 1 <= end
    BY <1>4, <1>5
  <2> HIDE DEF end
  <2> QED BY <1>1, <2>1, <2>2
<1>7. List!Contents(h) = [x \in 1..end - 1 |-> val[List!Rest(h)[x]]]
  BY ListCardinality DEF List!Contents, N
<1>8. ASSUME NEW x \in 1..n - k PROVE List!Rest(h)[x] = s[k + x]
  <2>1. x \in Nat /\ k + x \in 1..n
    BY <1>1
  <2> QED BY <1>2, <2>1 DEF NodeAt
<1> HIDE DEF end
<1>9. end - 1 = n - k
  BY <1>1, <1>6
<1> QED BY <1>7, <1>8, <1>9 DEF h

LEMMA ListsOf ==
  ASSUME Addresses, NEW n, NEW s, Linked(n, s), head = NodeAt(n, s, 1)
  PROVE  List!Lists = NodesOf(n, s)
<1> DEFINE N == Cardinality(Nodes)
<1>1. N \in Nat /\ n <= N /\ n \in Nat
  <2>1. N \in Nat /\ n <= N
    BY NodesSuffice
  <2>2. n \in Nat
    BY DEF Linked
  <2> QED BY <2>1, <2>2
<1>2. ASSUME NEW x \in Nat PROVE List!Rest(head)[x] = NodeAt(n, s, 1 + x)
  <2>1. \A k \in Nat : k # 0 => List!Rest(NodeAt(n, s, k))[x] = NodeAt(n, s, k + x)
    BY RestOf
  <2>2. List!Rest(NodeAt(n, s, 1))[x] = NodeAt(n, s, 1 + x)
    BY <2>1
  <2> QED BY <2>2
<1>3. List!Lists = {List!Rest(head)[x] : x \in 0..N} \ {NoNode}
  <2>1. List!Lists = {List!Rest(head)[x] : x \in 0..List!Cardinality(Nodes)} \ {List!NULL}
    BY Zenon DEF List!Lists
  <2>2. List!Cardinality(Nodes) = N /\ List!NULL = NoNode
    BY ListCardinality, NoNodeIsZero
  <2> QED BY <2>1, <2>2, Zenon
<1> HIDE DEF N
<1>4. ASSUME NEW x \in 0..N, List!Rest(head)[x] # NoNode PROVE List!Rest(head)[x] \in NodesOf(n, s)
  BY <1>1, <1>2, <1>4 DEF NodeAt, NodesOf
<1>5. ASSUME NEW k \in 1..n PROVE s[k] \in {List!Rest(head)[x] : x \in 0..N} \ {NoNode}
  <2>1. k - 1 \in 0..N /\ k - 1 \in Nat /\ 1 + (k - 1) = k
    BY <1>1
  <2>2. List!Rest(head)[k - 1] = s[k]
    BY <1>2, <2>1 DEF NodeAt
  <2>3. s[k] # NoNode
    BY NoNodeIsZero DEF Linked, Addresses
  <2> QED BY <2>1, <2>2, <2>3
<1> QED BY <1>3, <1>4, <1>5 DEF NodesOf

-----------------------------------------------------------------------------
(* Values *)

LEMMA FunctionIsSequence ==
  ASSUME NEW S, NEW n \in Nat, NEW u \in [1..n -> S]
  PROVE  u \in Seq(S) /\ Len(u) = n
<1>1. u \in Seq(S)
  BY IsASeq
<1> QED BY <1>1, LenProperties

LEMMA ValuesAreSequence ==
  ASSUME NEW n \in Nat, n # 0, NEW s \in [1..n -> Nodes], NEW m \in 1..n, NEW f \in [Nodes -> Held]
  PROVE  /\ ValuesTo(f, s, m) \in Seq(Held) /\ Len(ValuesTo(f, s, m)) = m - 1
         /\ \A k \in 1..m - 1 : ValuesTo(f, s, m)[k] = f[s[k + 1]]
<1>1. m - 1 \in Nat
  OBVIOUS
<1>2. ASSUME NEW k \in 1..m - 1 PROVE f[s[k + 1]] \in Held
  <2>1. k + 1 \in 1..n
    OBVIOUS
  <2> QED BY <2>1
<1>3. ValuesTo(f, s, m) \in [1..m - 1 -> Held]
  BY <1>2 DEF ValuesTo
<1>4. ValuesTo(f, s, m) \in Seq(Held) /\ Len(ValuesTo(f, s, m)) = m - 1
  <2> DEFINE c == m - 1
             u == ValuesTo(f, s, m)
  <2>1. c \in Nat /\ u \in [1..c -> Held]
    BY <1>1, <1>3
  <2> HIDE DEF c, u
  <2>2. u \in Seq(Held) /\ Len(u) = c
    BY <2>1, FunctionIsSequence
  <2> QED BY <2>2 DEF c, u
<1> QED BY <1>4 DEF ValuesTo

LEMMA ContentsAreSequence ==
  ASSUME Addresses, NEW n \in Nat, NEW s, Linked(n, s), NEW k \in 1..n, val \in [Nodes -> Held]
  PROVE  /\ List!Contents(s[k]) \in Seq(Held) /\ Len(List!Contents(s[k])) = n - k
         /\ \A x \in 1..n - k : List!Contents(s[k])[x] = val[s[k + x]]
<1>1. n - k \in Nat /\ n \in Nat
  BY DEF Linked
<1>2. ASSUME NEW x \in 1..n - k PROVE val[s[k + x]] \in Held
  <2>1. k + x \in 1..n
    BY <1>1
  <2> QED BY <2>1 DEF Linked
<1> DEFINE u == List!Contents(s[k])
           c == n - k
<1>3. u = [x \in 1..n - k |-> val[s[k + x]]]
  BY ContentsOf
<1>4. u \in [1..c -> Held] /\ c \in Nat /\ \A x \in 1..c : u[x] = val[s[k + x]]
  <2> HIDE DEF u
  <2> QED BY <1>1, <1>2, <1>3
<1> HIDE DEF u, c
<1>5. u \in Seq(Held) /\ Len(u) = c
  BY <1>4, FunctionIsSequence
<1> QED BY <1>4, <1>5 DEF u, c

LEMMA WholeIsContents ==
  ASSUME Addresses, NEW n, NEW s, Whole(n, s), val \in [Nodes -> Held]
  PROVE  /\ n \in Nat /\ n # 0 /\ s \in [1..n -> Nodes] /\ 1 \in 1..n /\ s[1] = head
         /\ Linked(n, s) /\ live = NodesOf(n, s)
         /\ head \in Nodes /\ head # NoNode
         /\ List!Contents(head) = ValuesTo(val, s, n)
         /\ List!Lists = NodesOf(n, s)
<1>1. /\ n \in Nat /\ n # 0 /\ s \in [1..n -> Nodes] /\ s[1] = head
      /\ Linked(n, s) /\ live = NodesOf(n, s)
  BY DEF Whole, Linked
<1>2. 1 \in 1..n /\ head \in Nodes /\ head # NoNode
  <2>1. 1 \in 1..n
    BY <1>1
  <2>2. s[1] \in Nodes
    BY <1>1, <2>1
  <2> QED BY <1>1, <2>1, <2>2, NoNodeIsZero DEF Addresses
<1>3. List!Contents(head) = ValuesTo(val, s, n)
  <2> DEFINE u == List!Contents(s[1])
             t == ValuesTo(val, s, n)
  <2>1. u \in Seq(Held) /\ Len(u) = n - 1 /\ \A x \in 1..n - 1 : u[x] = val[s[1 + x]]
    <3>1. \A k \in 1..n : /\ List!Contents(s[k]) \in Seq(Held) /\ Len(List!Contents(s[k])) = n - k
                          /\ \A x \in 1..n - k : List!Contents(s[k])[x] = val[s[k + x]]
      BY <1>1, ContentsAreSequence
    <3> QED BY <1>2, <3>1
  <2>2. t \in Seq(Held) /\ Len(t) = n - 1 /\ \A x \in 1..n - 1 : t[x] = val[s[x + 1]]
    <3>1. n \in 1..n
      BY <1>1
    <3> QED BY <1>1, <3>1, ValuesAreSequence
  <2> HIDE DEF u, t
  <2>3. \A x \in 1..Len(u) : u[x] = t[x]
    <3>1. ASSUME NEW x \in 1..n - 1 PROVE 1 + x = x + 1
      BY <1>1
    <3> QED BY <2>1, <2>2, <3>1
  <2>4. u = t
    BY <2>1, <2>2, <2>3, SeqEqual
  <2> QED BY <1>1, <2>4 DEF u, t
<1>4. List!Lists = NodesOf(n, s)
  <2>1. head = NodeAt(n, s, 1)
    BY <1>1, <1>2 DEF NodeAt
  <2> QED BY <1>1, <2>1, ListsOf
<1> QED BY <1>1, <1>2, <1>3, <1>4

LEMMA BeforeRest ==
  ASSUME Addresses, NEW n \in Nat, NEW s, Whole(n, s), val \in [Nodes -> Held], NEW a \in 1..n
  PROVE  /\ SubSeq(List!Contents(head), 1, Len(List!Contents(head)) - Len(List!Contents(s[a])))
              = ValuesTo(val, s, a)
         /\ ValuesTo(val, s, a) \in Seq(Held) /\ Len(ValuesTo(val, s, a)) = a - 1
         /\ \A k \in 1..a - 1 : ValuesTo(val, s, a)[k] = val[s[k + 1]]
<1> DEFINE all == List!Contents(head)
           u == ValuesTo(val, s, a)
           c == List!Contents(s[a])
<1>1. /\ n \in Nat /\ n # 0 /\ s \in [1..n -> Nodes] /\ Linked(n, s) /\ all = ValuesTo(val, s, n)
  BY WholeIsContents
<1>2. Len(c) = n - a
  <2>1. \A k \in 1..n : /\ List!Contents(s[k]) \in Seq(Held) /\ Len(List!Contents(s[k])) = n - k
                        /\ \A y \in 1..n - k : List!Contents(s[k])[y] = val[s[k + y]]
    <3>1. n \in Nat /\ Linked(n, s)
      BY <1>1
    <3> QED BY <3>1, ContentsAreSequence
  <2> QED BY <2>1
<1>3. all \in Seq(Held) /\ Len(all) = n - 1 /\ \A k \in 1..n - 1 : all[k] = val[s[k + 1]]
  <2> DEFINE t == ValuesTo(val, s, n)
  <2>1. n \in 1..n
    BY <1>1
  <2>2. t \in Seq(Held) /\ Len(t) = n - 1 /\ \A k \in 1..n - 1 : t[k] = val[s[k + 1]]
    <3>1. n # 0 /\ s \in [1..n -> Nodes]
      BY <1>1
    <3> QED BY <3>1, <2>1, ValuesAreSequence
  <2> HIDE DEF t, all
  <2>3. all = t
    BY <1>1 DEF t
  <2> QED BY <2>2, <2>3
<1>4. u \in Seq(Held) /\ Len(u) = a - 1 /\ \A k \in 1..a - 1 : u[k] = val[s[k + 1]]
  BY <1>1, ValuesAreSequence
<1> HIDE DEF all, u, c
<1>6. Len(all) - Len(c) = a - 1
  BY <1>1, <1>2, <1>3
<1>7. SubSeq(all, 1, a - 1) = u
  <2> DEFINE t == SubSeq(all, 1, a - 1)
  <2>1. a - 1 \in Int /\ 1 \in Int /\ \A k \in 1..a - 1 : all[k] \in Held
    BY <1>1, <1>3, ElementOfSeq
  <2>2. t \in Seq(Held) /\ Len(t) = a - 1 /\ \A k \in 1..a - 1 : t[k] = all[k]
    <3>1. /\ t \in Seq(Held) /\ Len(t) = IF 1 <= a - 1 THEN (a - 1) - 1 + 1 ELSE 0
          /\ \A k \in 1..(a - 1) - 1 + 1 : t[k] = all[1 + k - 1]
      BY <2>1, SubSeqProperties
    <3>2. (a - 1) - 1 + 1 = a - 1 /\ \A k \in 1..a - 1 : 1 + k - 1 = k
      OBVIOUS
    <3>3. 1 <= a - 1 \/ a - 1 = 0
      OBVIOUS
    <3> HIDE DEF t
    <3> QED BY <3>1, <3>2, <3>3
  <2> HIDE DEF t
  <2>3. \A k \in 1..Len(t) : t[k] = u[k]
    <3>1. \A k \in 1..a - 1 : k \in 1..n - 1
      BY <1>1
    <3> QED BY <1>3, <1>4, <2>2, <3>1
  <2>4. t = u
    BY <1>4, <2>2, <2>3, SeqEqual
  <2> QED BY <2>4 DEF t
<1> QED BY <1>4, <1>6, <1>7 DEF u, all, c

(* A call on the list from s[a] on leaves what comes before. *)
LEMMA LeavesBefore ==
  ASSUME Addresses, NEW n \in Nat, NEW s, Whole(n, s), val \in [Nodes -> Held],
         NEW a \in 1..n, NEW x, List!Leaves(s[a], x)
  PROVE  expect' = ValuesTo(val, s, a) \o x
<1>1. SubSeq(List!Contents(head), 1, Len(List!Contents(head)) - Len(List!Contents(s[a])))
        = ValuesTo(val, s, a)
  BY BeforeRest
<1> QED BY <1>1 DEF List!Leaves

LEMMA JoinedSequence ==
  ASSUME NEW S, NEW u \in Seq(S), NEW x \in Seq(S), NEW t \in Seq(S), Len(t) = Len(u) + Len(x),
         \A k \in 1..Len(u) : t[k] = u[k], \A k \in 1..Len(x) : t[Len(u) + k] = x[k]
  PROVE  t = u \o x
<1> DEFINE c == u \o x
<1>1. /\ c \in Seq(S) /\ Len(c) = Len(u) + Len(x)
      /\ \A k \in 1..Len(u) + Len(x) : c[k] = IF k <= Len(u) THEN u[k] ELSE x[k - Len(u)]
  BY ConcatProperties
<1>2. Len(u) \in Nat /\ Len(x) \in Nat
  BY LenProperties
<1> HIDE DEF c
<1>3. ASSUME NEW k \in 1..Len(t) PROVE t[k] = c[k]
  <2>1. CASE k <= Len(u)
    BY <1>1, <1>2, <2>1
  <2>2. CASE k > Len(u)
    <3>1. k - Len(u) \in 1..Len(x) /\ Len(u) + (k - Len(u)) = k /\ k \in 1..Len(u) + Len(x)
      BY <1>2, <2>2
    <3>2. t[Len(u) + (k - Len(u))] = x[k - Len(u)]
      BY <3>1
    <3> QED BY <1>1, <1>2, <2>2, <3>1, <3>2
  <2> QED BY <1>2, <2>1, <2>2
<1>4. t = c
  <2>1. Len(t) = Len(c)
    BY <1>1
  <2> QED BY <1>1, <1>3, <2>1, SeqEqual
<1> QED BY <1>4 DEF c

LEMMA NoValues == \A f, s : ValuesTo(f, s, 1) = <<>>
<1> TAKE f, s
<1>1. ValuesTo(f, s, 1) = [k \in 1..0 |-> f[s[k + 1]]]
  BY DEF ValuesTo
<1> DEFINE u == ValuesTo(f, s, 1)
<1>2. u \in [1..0 -> {0}] /\ 0 \in Nat
  <2> DEFINE g(k) == f[s[k + 1]]
  <2>1. u = [k \in 1..0 |-> g(k)]
    BY <1>1
  <2>2. ASSUME NEW k \in 1..0 PROVE g(k) \in {0}
    OBVIOUS
  <2> HIDE DEF u, g
  <2> QED BY <2>1, <2>2
<1> HIDE DEF u
<1>3. u \in Seq({0}) /\ Len(u) = 0
  BY <1>2, FunctionIsSequence
<1> QED BY <1>3, EmptySeq DEF u

-----------------------------------------------------------------------------
(* What the invariant says is what the operations promise. *)

LEMMA LinksOfNone ==
  ASSUME Addresses, head = NoNode
  PROVE  List!Lists = {}
<1> DEFINE s == [k \in 1..0 |-> NoNode]
<1>1. Linked(0, s)
  <2>1. s \in [1..0 -> Nodes] /\ \A k \in 1..0 : FALSE
    OBVIOUS
  <2> HIDE DEF s
  <2> QED BY <2>1 DEF Linked
<1>2. head = NodeAt(0, s, 1) /\ NodesOf(0, s) = {}
  BY DEF NodeAt, NodesOf
<1> HIDE DEF s
<1> QED BY <1>1, <1>2, ListsOf

LEMMA RestingIsExact ==
  ASSUME Addresses, val \in [Nodes -> Held], Resting
  PROVE  /\ expect = IF head = NoNode THEN <<>> ELSE List!Contents(head)
         /\ live = List!Lists
         /\ \A k \in DOMAIN expect : List!list_car(List!Rest(head)[k - 1]) = expect[k]
<1>1. CASE head = NoNode /\ live = {} /\ expect = <<>>
  BY <1>1, LinksOfNone
<1>2. CASE \E n, s : Whole(n, s) /\ expect = ValuesTo(val, s, n)
  <2>1. PICK n, s : Whole(n, s) /\ expect = ValuesTo(val, s, n)
    BY <1>2
  <2>2. /\ n \in Nat /\ n # 0 /\ s \in [1..n -> Nodes] /\ 1 \in 1..n /\ s[1] = head
        /\ Linked(n, s) /\ live = NodesOf(n, s) /\ head # NoNode
        /\ List!Contents(head) = ValuesTo(val, s, n) /\ List!Lists = NodesOf(n, s)
    BY <2>1, WholeIsContents
  <2>3. ASSUME NEW k \in DOMAIN expect PROVE List!list_car(List!Rest(head)[k - 1]) = expect[k]
    <3>1. k \in 1..n - 1 /\ expect[k] = val[s[k + 1]]
      BY <2>1, <2>3 DEF ValuesTo
    <3>2. k \in Nat /\ k # 0 /\ k - 1 \in Nat /\ k \in 1..n /\ k + 1 \in 1..n
      BY <2>2, <3>1
    <3>3. head = NodeAt(n, s, 1)
      BY <2>2 DEF NodeAt
    <3>4. List!Rest(head)[k - 1] = NodeAt(n, s, k)
      <4>1. \A b, j \in Nat : b # 0 => List!Rest(NodeAt(n, s, b))[j] = NodeAt(n, s, b + j)
        BY <2>2, RestOf
      <4>2. PICK b \in Nat : b = 1
        OBVIOUS
      <4>3. PICK j \in Nat : j = k - 1
        BY <3>2
      <4>4. List!Rest(NodeAt(n, s, b))[j] = NodeAt(n, s, b + j)
        BY <4>1, <4>2
      <4>5. b + j = k
        BY <4>2, <4>3, <3>2
      <4> QED BY <3>3, <4>2, <4>3, <4>4, <4>5
    <3>5. NodeAt(n, s, k) = s[k] /\ NodeAt(n, s, k + 1) = s[k + 1]
      BY <3>2 DEF NodeAt
    <3>6. List!list_cdr(s[k]) = s[k + 1]
      BY <2>2, <3>2, <3>5, CdrOf
    <3>7. s[k] # NoNode /\ s[k + 1] # NoNode
      BY <2>2, <3>2, NoNodeIsZero DEF Addresses
    <3>8. lnext[s[k]] = s[k + 1]
      BY <3>6, <3>7, NoNodeIsZero DEF List!list_cdr
    <3> QED BY <3>1, <3>4, <3>5, <3>6, <3>7, <3>8, NoNodeIsZero DEF List!list_car
  <2> QED BY <2>1, <2>2, <2>3
<1> QED BY <1>1, <1>2 DEF Resting

LEMMA MeasuringIsExact ==
  ASSUME Addresses, val \in [Nodes -> Held], Measuring, ptr = NoNode
  PROVE  count = Len(List!Contents(at))
<1>1. PICK n, s : /\ Whole(n, s)
                  /\ \E a \in 1..n : \E b \in a..n + 1 :
                       at = s[a] /\ ptr = NodeAt(n, s, b) /\ count = b - a - 1
  BY DEF Measuring
<1>2. n \in Nat /\ s \in [1..n -> Nodes] /\ Linked(n, s)
  BY <1>1, WholeIsContents
<1>3. PICK a \in 1..n : \E b \in a..n + 1 : at = s[a] /\ ptr = NodeAt(n, s, b) /\ count = b - a - 1
  BY <1>1
<1>6. PICK b \in a..n + 1 : at = s[a] /\ ptr = NodeAt(n, s, b) /\ count = b - a - 1
  BY <1>3
<1>4. b = n + 1
  <2>1. b \notin 1..n
    BY <1>2, <1>6, NoNodeIsZero DEF NodeAt, Addresses
  <2> QED BY <1>2, <1>6, <2>1
<1>5. Len(List!Contents(s[a])) = n - a
  <2>1. \A k \in 1..n : /\ List!Contents(s[k]) \in Seq(Held) /\ Len(List!Contents(s[k])) = n - k
                        /\ \A y \in 1..n - k : List!Contents(s[k])[y] = val[s[k + y]]
    BY <1>2, ContentsAreSequence
  <2> QED BY <2>1
<1> QED BY <1>2, <1>6, <1>4, <1>5

(* The cursor of an operation and the node behind it are not freed. *)
InUse(x) == {x, List!list_cdr(x)} \subseteq live \cup {NoNode}

LEMMA LinkedInUse ==
  ASSUME Addresses, NEW n \in Nat, NEW s, Linked(n, s), live = NodesOf(n, s)
  PROVE  InUse(NoNode) /\ \A k \in Nat : k # 0 => InUse(NodeAt(n, s, k))
<1>1. InUse(NoNode)
  BY NoNodeIsZero DEF InUse, List!list_cdr
<1>2. ASSUME NEW k \in Nat PROVE NodeAt(n, s, k) \in live \cup {NoNode}
  BY DEF NodeAt, NodesOf
<1>3. ASSUME NEW k \in Nat, k # 0 PROVE InUse(NodeAt(n, s, k))
  <2>1. List!list_cdr(NodeAt(n, s, k)) = NodeAt(n, s, k + 1)
    BY <1>3, CdrOf
  <2>2. k + 1 \in Nat
    OBVIOUS
  <2> QED BY <1>2, <2>1, <2>2 DEF InUse
<1> QED BY <1>1, <1>3

LEMMA CursorInUse ==
  ASSUME Addresses, ListInv
  PROVE  InUse(ptr)
<1>1. CASE Resting
  BY <1>1, NoNodeIsZero DEF Resting, InUse, List!list_cdr
<1>2. CASE Destroying
  <2>1. PICK n, s : Linked(n, s) /\ live = NodesOf(n, s) /\ ptr = NodeAt(n, s, 1)
    BY <1>2 DEF Destroying
  <2>2. n \in Nat
    BY <2>1 DEF Linked
  <2>3. \A k \in Nat : k # 0 => InUse(NodeAt(n, s, k))
    BY <2>1, <2>2, LinkedInUse
  <2> QED BY <2>1, <2>3
<1>3. ASSUME NEW n, NEW s, Whole(n, s), NEW k \in Nat, k # 0 PROVE InUse(NodeAt(n, s, k))
  <2>1. n \in Nat /\ Linked(n, s) /\ live = NodesOf(n, s)
    BY <1>3 DEF Whole, Linked
  <2> QED BY <2>1, <1>3, LinkedInUse
<1>4. ASSUME NEW n, NEW s, Whole(n, s), ptr \in live PROVE InUse(ptr)
  <2>1. PICK k \in 1..n : ptr = s[k]
    BY <1>4 DEF Whole, NodesOf
  <2>2. n \in Nat
    BY <1>4 DEF Whole, Linked
  <2>3. ptr = NodeAt(n, s, k) /\ k \in Nat /\ k # 0
    BY <2>1, <2>2 DEF NodeAt
  <2> QED BY <1>3, <1>4, <2>3
<1>5. CASE Adding
  BY <1>4, <1>5 DEF Adding
<1>6. CASE Removing
  <2>1. PICK n, s : Whole(n, s) /\ \E b \in 1..n : ptr = s[b]
    BY <1>6 DEF Removing, Sifting
  <2>2. ptr \in live
    BY <2>1 DEF Whole, NodesOf
  <2> QED BY <1>4, <2>1, <2>2
<1>7. CASE Reversing
  <2>1. PICK n, s, a, m : Turned(n, s, a, m) /\ ptr = NodeAt(n, s, a + m + 1)
    BY <1>7 DEF Reversing
  <2>2. n \in Nat /\ a \in 1..n /\ m \in 0..n - a /\ s \in [1..n -> Nodes] /\ live = NodesOf(n, s)
    BY <2>1 DEF Turned
  <2>3. CASE a + m + 1 \in 1..n
    <3>1. ptr = s[a + m + 1]
      BY <2>1, <2>3 DEF NodeAt
    <3>2. lnext[ptr] = IF a + m + 1 < n THEN s[a + m + 1 + 1] ELSE NoNode
      BY <2>1, <2>2, <2>3, <3>1 DEF Turned
    <3>3. ptr \in live /\ lnext[ptr] \in live \cup {NoNode}
      <4>1. a + m + 1 < n => a + m + 1 + 1 \in 1..n
        BY <2>2, <2>3
      <4> QED BY <2>2, <2>3, <3>1, <3>2, <4>1 DEF NodesOf
    <3> QED BY <3>3, NoNodeIsZero DEF InUse, List!list_cdr
  <2>4. CASE a + m + 1 \notin 1..n
    BY <2>1, <2>4, NoNodeIsZero DEF NodeAt, InUse, List!list_cdr
  <2> QED BY <2>3, <2>4
<1>8. CASE Measuring
  <2>1. PICK n, s : /\ Whole(n, s)
                    /\ \E a \in 1..n : \E b \in a..n + 1 : ptr = NodeAt(n, s, b)
    BY <1>8 DEF Measuring
  <2>2. n \in Nat
    BY <2>1 DEF Whole, Linked
  <2>3. PICK a \in 1..n : \E b \in a..n + 1 : ptr = NodeAt(n, s, b)
    BY <2>1
  <2>4. PICK b \in a..n + 1 : ptr = NodeAt(n, s, b)
    BY <2>3
  <2>5. b \in Nat /\ b # 0
    BY <2>2, <2>4
  <2> QED BY <1>3, <2>1, <2>4, <2>5
<1> QED BY <1>1, <1>2, <1>5, <1>6, <1>7, <1>8 DEF ListInv

LEMMA ListIsExact ==
  ASSUME Addresses, ListInv
  PROVE  List!OperationsAreExact
<1>1. val \in [Nodes -> Held]
  BY DEF ListInv
<1>2. lpc = "idle" => Resting
  BY DEF ListInv, Destroying, Adding, Removing, Reversing, Measuring
<1>3. lpc = "length" => Measuring
  BY DEF ListInv, Resting, Destroying, Adding, Removing, Reversing
<1>4. lpc = "idle" =>
        /\ expect = IF head = NoNode THEN <<>> ELSE List!Contents(head)
        /\ live = List!Lists
        /\ \A k \in DOMAIN expect : List!list_car(List!Rest(head)[k - 1]) = expect[k]
  BY <1>1, <1>2, RestingIsExact
<1>5. lpc = "length" /\ ptr = NoNode => count = Len(List!Contents(at))
  BY <1>1, <1>3, MeasuringIsExact
<1>6. {ptr, List!list_cdr(ptr)} \subseteq live \cup {NoNode}
  BY CursorInUse DEF InUse
<1> QED BY <1>4, <1>5, <1>6, NoNodeIsZero DEF List!OperationsAreExact

-----------------------------------------------------------------------------
(* list, list_destroy, list_length *)

LEMMA RestingOnList ==
  ASSUME Addresses, val \in [Nodes -> Held], Resting, NEW h \in List!Lists
  PROVE  \E n \in Nat : \E s : \E a \in 1..n :
           Whole(n, s) /\ expect = ValuesTo(val, s, n) /\ h = s[a]
<1>1. head # NoNode
  BY LinksOfNone
<1>2. PICK n, s : Whole(n, s) /\ expect = ValuesTo(val, s, n)
  BY <1>1 DEF Resting
<1>3. n \in Nat /\ List!Lists = NodesOf(n, s)
  BY <1>2, WholeIsContents
<1>4. PICK a \in 1..n : h = s[a]
  BY <1>3 DEF NodesOf
<1> QED BY <1>2, <1>3, <1>4

LEMMA NewIsFree ==
  ASSUME Addresses, NEW c \in Nat, c # 0, Cardinality(Nodes \ live) >= c
  PROVE  /\ List!New \in Nodes \ live
         /\ Cardinality(Nodes \ (live \cup {List!New})) >= c - 1
<1> DEFINE F == Nodes \ live
<1>1. IsFiniteSet(F) /\ F \subseteq Nat
  BY FS_Subset DEF Addresses
<1>2. F # {}
  BY FS_EmptySet
<1>3. List!New \in F
  <2>1. PICK m \in F : \A y \in F : m <= y
    BY <1>1, <1>2, LeastNumber
  <2>2. List!New = CHOOSE x \in F : \A y \in F : x <= y
    BY DEF List!New, List!Min
  <2> QED BY <2>1, <2>2
<1>4. Cardinality(F \ {List!New}) = Cardinality(F) - 1
  BY <1>1, <1>3, FS_RemoveElement
<1>5. Cardinality(F) \in Nat
  BY <1>1, FS_CardinalityType
<1>6. F \ {List!New} = Nodes \ (live \cup {List!New})
  OBVIOUS
<1> QED BY <1>3, <1>4, <1>5, <1>6

(* A head node without any behind it. *)
LEMMA NewHead ==
  ASSUME Addresses, lnext \in [Nodes -> Nodes \cup {NoNode}], NEW x \in Nodes, live' = {x}, head' = x,
         lnext' = [lnext EXCEPT ![x] = List!NULL]
  PROVE  /\ lnext' \in [Nodes -> Nodes \cup {NoNode}]
         /\ \E n, s : Whole(n, s)' /\ \A f : ValuesTo(f, s, n) = <<>>
<1> DEFINE n == 1
           s == [k \in 1..1 |-> x]
<1>1. lnext' \in [Nodes -> Nodes \cup {NoNode}] /\ lnext'[x] = NoNode
  BY NoNodeIsZero
<1>2. n \in Nat /\ n # 0 /\ s \in [1..n -> Nodes] /\ \A k \in 1..n : k = 1 /\ s[k] = x
  OBVIOUS
<1>3. \A f : ValuesTo(f, s, n) = <<>>
  BY NoValues
<1> HIDE DEF s
<1>4. NodesOf(n, s) = {x} /\ s[1] = x
  BY <1>2 DEF NodesOf
<1>5. Linked(n, s)'
  BY <1>1, <1>2 DEF Linked
<1>6. Whole(n, s)'
  BY <1>2, <1>4, <1>5 DEF Whole, NodesOf
<1> QED BY <1>1, <1>3, <1>6

LEMMA ListMade ==
  ASSUME Addresses, ListInv, List!list
  PROVE  ListInv'
<1>1. lnext \in [Nodes -> Nodes \cup {NoNode}] /\ val \in [Nodes -> Held]
  BY DEF ListInv
<1>2. Resting /\ head = NoNode
  BY NoNodeIsZero DEF ListInv, Destroying, Adding, Removing, Reversing, Measuring, List!list
<1>3. live = {} /\ expect = <<>>
  <2>1. ~(\E n, s : Whole(n, s))
    BY <1>1, <1>2, WholeIsContents
  <2> QED BY <1>2, <2>1 DEF Resting
<1>4. List!New \in Nodes \ live
  <2>1. Cardinality(Nodes \ live) >= 1
    BY ListCardinality DEF List!list, List!Room
  <2>2. \A c \in Nat : c # 0 /\ Cardinality(Nodes \ live) >= c => List!New \in Nodes \ live
    BY NewIsFree
  <2> QED BY <2>1, <2>2
<1>5. live' = {List!New} /\ head' = List!New /\ lnext' = [lnext EXCEPT ![List!New] = List!NULL]
  BY <1>3 DEF List!list
<1>6. /\ lnext' \in [Nodes -> Nodes \cup {NoNode}]
      /\ \E n, s : Whole(n, s)' /\ \A f : ValuesTo(f, s, n) = <<>>
  <2> DEFINE x == List!New
  <2>1. x \in Nodes /\ live' = {x} /\ head' = x /\ lnext' = [lnext EXCEPT ![x] = List!NULL]
    BY <1>4, <1>5
  <2> HIDE DEF x
  <2> QED BY <1>1, <2>1, NewHead
<1>7. lpc' = "idle" /\ ptr' = NoNode /\ expect' = <<>> /\ val' = val
  BY <1>2, <1>3 DEF List!list, List!locals, Resting
<1>8. Resting'
  BY <1>6, <1>7 DEF Resting
<1> QED BY <1>1, <1>6, <1>7, <1>8 DEF ListInv

LEMMA DestroyBegins ==
  ASSUME Addresses, ListInv, List!list_destroy
  PROVE  ListInv'
<1>1. lnext \in [Nodes -> Nodes \cup {NoNode}] /\ val \in [Nodes -> Held]
  BY DEF ListInv
<1>2. Resting /\ head # NoNode
  BY NoNodeIsZero DEF ListInv, Destroying, Adding, Removing, Reversing, Measuring, List!list_destroy
<1>3. PICK n, s : Whole(n, s)
  BY <1>2 DEF Resting
<1>4. /\ lpc' = "destroy" /\ head' = NoNode /\ expect' = <<>> /\ ptr' = head
      /\ live' = live /\ lnext' = lnext /\ val' = val
  BY NoNodeIsZero DEF List!list_destroy, List!nodes
<1>5. n \in Nat /\ 1 \in 1..n /\ s[1] = head /\ Linked(n, s) /\ live = NodesOf(n, s)
  BY <1>1, <1>3, WholeIsContents
<1>6. Linked(n, s)' /\ live' = NodesOf(n, s) /\ ptr' = NodeAt(n, s, 1)
  BY <1>4, <1>5 DEF Linked, NodeAt
<1>7. Destroying'
  BY <1>4, <1>6 DEF Destroying, NodesOf, NodeAt
<1> QED BY <1>1, <1>4, <1>7 DEF ListInv

LEMMA DestroyTurns ==
  ASSUME Addresses, ListInv, List!DestroyNode
  PROVE  ListInv'
<1>1. lnext \in [Nodes -> Nodes \cup {NoNode}] /\ val \in [Nodes -> Held]
  BY DEF ListInv
<1>2. Destroying
  BY DEF ListInv, Resting, Adding, Removing, Reversing, Measuring, List!DestroyNode
<1>3. PICK n, s : Linked(n, s) /\ live = NodesOf(n, s) /\ ptr = NodeAt(n, s, 1)
  BY <1>2 DEF Destroying
<1>4. n \in Nat /\ s \in [1..n -> Nodes]
  BY <1>3 DEF Linked
<1>5. CASE ptr = NoNode
  <2>1. n = 0
    <3>1. n # 0 => 1 \in 1..n /\ s[1] \in Nodes
      BY <1>4
    <3> QED BY <1>3, <1>5, <3>1, NoNodeIsZero DEF NodeAt, Addresses
  <2>2. live = {}
    BY <1>3, <2>1 DEF NodesOf
  <2>3. /\ lpc' = "idle" /\ ptr' = NoNode /\ head' = NoNode /\ live' = {} /\ expect' = <<>>
        /\ lnext' = lnext /\ val' = val
    BY <1>2, <1>5, <2>2, NoNodeIsZero DEF List!DestroyNode, List!Returns, Destroying
  <2> QED BY <1>1, <2>3 DEF ListInv, Resting
<1>6. CASE ptr # NoNode
  <2>1. n # 0 /\ 1 \in 1..n /\ ptr = s[1] /\ ptr \in Nodes
    BY <1>3, <1>4, <1>6 DEF NodeAt
  <2>2. /\ lpc' = "destroy" /\ head' = NoNode /\ expect' = <<>>
        /\ live' = live \ {ptr} /\ ptr' = lnext[ptr]
        /\ val' = [val EXCEPT ![ptr] = List!Unset]
        /\ lnext' = [lnext EXCEPT ![ptr] = NoNode]
    BY <1>2, <1>6, NoNodeIsZero DEF List!DestroyNode, List!Freed, Destroying
  <2>3. lnext' \in [Nodes -> Nodes \cup {NoNode}] /\ val' \in [Nodes -> Held]
    BY <1>1, <2>1, <2>2 DEF Held
  <2> DEFINE c == n - 1
             t == [k \in 1..c |-> s[k + 1]]
  <2>4. c \in Nat /\ n = c + 1 /\ \A k \in 1..c : k + 1 \in 1..n /\ k + 1 # 1
    BY <1>4, <2>1
  <2>5. t \in [1..c -> Nodes] /\ \A k \in 1..c : t[k] = s[k + 1] /\ t[k] # ptr
    <3>1. \A k \in 1..c : s[k + 1] \in Nodes /\ s[k + 1] # s[1]
      BY <1>3, <2>1, <2>4 DEF Linked
    <3> HIDE DEF c
    <3> QED BY <2>1, <3>1
  <2> HIDE DEF c, t
  <2>6. \A j, k \in 1..c : t[j] = t[k] => j = k
    <3>1. SUFFICES ASSUME NEW j \in 1..c, NEW k \in 1..c, t[j] = t[k] PROVE j = k
      OBVIOUS
    <3>2. j + 1 = k + 1
      BY <1>3, <2>4, <2>5, <3>1 DEF Linked
    <3> QED BY <2>4, <3>2
  <2>7. \A k \in 1..c : lnext'[t[k]] = IF k < c THEN t[k + 1] ELSE NoNode
    <3>1. SUFFICES ASSUME NEW k \in 1..c PROVE lnext'[t[k]] = IF k < c THEN t[k + 1] ELSE NoNode
      OBVIOUS
    <3>2. lnext'[t[k]] = lnext[s[k + 1]]
      BY <1>1, <2>2, <2>5
    <3>3. lnext[s[k + 1]] = IF k + 1 < n THEN s[k + 1 + 1] ELSE NoNode
      BY <1>3, <2>4 DEF Linked
    <3>4. k < c <=> k + 1 < n
      BY <2>4
    <3>5. k < c => k + 1 \in 1..c
      BY <2>4
    <3> QED BY <2>5, <3>2, <3>3, <3>4, <3>5
  <2>8. Linked(c, t)'
    BY <2>4, <2>5, <2>6, <2>7 DEF Linked
  <2>9. live' = NodesOf(c, t)
    <3>1. ASSUME NEW k \in 1..n, s[k] # ptr PROVE s[k] \in NodesOf(c, t)
      <4>1. k - 1 \in 1..c /\ k - 1 + 1 = k
        BY <1>4, <2>1, <2>4, <3>1
      <4> QED BY <2>5, <4>1 DEF NodesOf
    <3>2. ASSUME NEW k \in 1..c PROVE t[k] \in live \ {ptr}
      BY <1>3, <2>4, <2>5 DEF NodesOf
    <3> QED BY <1>3, <2>2, <3>1, <3>2 DEF NodesOf
  <2>10. ptr' = NodeAt(c, t, 1)
    <3>1. lnext[s[1]] = IF 1 < n THEN s[1 + 1] ELSE NoNode
      BY <1>3, <2>1 DEF Linked
    <3>2. 1 \in 1..c <=> 1 < n
      BY <2>4
    <3> QED BY <2>1, <2>2, <2>5, <3>1, <3>2 DEF NodeAt
  <2>11. Destroying'
    BY <2>2, <2>8, <2>9, <2>10 DEF Destroying, NodesOf, NodeAt
  <2> QED BY <2>3, <2>11 DEF ListInv
<1> QED BY <1>5, <1>6

LEMMA LengthBegins ==
  ASSUME Addresses, ListInv, NEW h \in List!Lists, List!list_length(h)
  PROVE  ListInv'
<1>1. lnext \in [Nodes -> Nodes \cup {NoNode}] /\ val \in [Nodes -> Held]
  BY DEF ListInv
<1>2. Resting
  BY DEF ListInv, Destroying, Adding, Removing, Reversing, Measuring, List!list_length
<1>3. PICK n \in Nat : \E s : \E a \in 1..n : Whole(n, s) /\ expect = ValuesTo(val, s, n) /\ h = s[a]
  BY <1>1, <1>2, RestingOnList
<1>4. PICK s : \E a \in 1..n : Whole(n, s) /\ expect = ValuesTo(val, s, n) /\ h = s[a]
  BY <1>3
<1>5. PICK a \in 1..n : Whole(n, s) /\ expect = ValuesTo(val, s, n) /\ h = s[a]
  BY <1>4
<1>6. /\ lpc' = "length" /\ ptr' = h /\ at' = h /\ count' = -1
      /\ lnext' = lnext /\ val' = val /\ live' = live /\ head' = head /\ expect' = expect
  BY DEF List!list_length, List!nodes
<1>7. Whole(n, s)' /\ expect' = ValuesTo(val', s, n)
  BY <1>5, <1>6 DEF Whole, Linked, NodesOf
<1>8. a \in a..n + 1 /\ at' = s[a] /\ ptr' = NodeAt(n, s, a) /\ count' = a - a - 1
  BY <1>5, <1>6 DEF NodeAt
<1>9. Measuring'
  BY <1>6, <1>7, <1>8 DEF Measuring, NodeAt, ValuesTo
<1> QED BY <1>1, <1>6, <1>9 DEF ListInv

LEMMA LengthTurns ==
  ASSUME Addresses, ListInv, List!LengthNode
  PROVE  ListInv'
<1>1. lnext \in [Nodes -> Nodes \cup {NoNode}] /\ val \in [Nodes -> Held]
  BY DEF ListInv
<1>2. Measuring
  BY DEF ListInv, Resting, Adding, Removing, Reversing, Destroying, List!LengthNode
<1>3. PICK n, s : /\ Whole(n, s) /\ expect = ValuesTo(val, s, n)
                  /\ \E a \in 1..n : \E b \in a..n + 1 :
                       at = s[a] /\ ptr = NodeAt(n, s, b) /\ count = b - a - 1
  BY <1>2 DEF Measuring
<1>4. n \in Nat /\ Linked(n, s)
  BY <1>3 DEF Whole, Linked
<1>5. PICK a \in 1..n : \E b \in a..n + 1 : at = s[a] /\ ptr = NodeAt(n, s, b) /\ count = b - a - 1
  BY <1>3
<1>6. PICK b \in a..n + 1 : at = s[a] /\ ptr = NodeAt(n, s, b) /\ count = b - a - 1
  BY <1>5
<1>7. lnext' = lnext /\ val' = val /\ live' = live /\ head' = head /\ expect' = expect
  BY DEF List!LengthNode, List!nodes
<1>8. Whole(n, s)' /\ expect' = ValuesTo(val', s, n)
  BY <1>3, <1>7 DEF Whole, Linked, NodesOf
<1>9. CASE ptr = NoNode
  <2>1. lpc' = "idle" /\ ptr' = NoNode
    BY <1>9, NoNodeIsZero DEF List!LengthNode, List!Returns
  <2>2. Resting'
    BY <1>8, <2>1 DEF Resting, ValuesTo
  <2> QED BY <1>1, <1>7, <2>2 DEF ListInv
<1>10. CASE ptr # NoNode
  <2>1. ptr' = lnext[ptr] /\ count' = count + 1 /\ lpc' = "length" /\ at' = at
    BY <1>10, NoNodeIsZero DEF List!LengthNode
  <2>2. b \in 1..n /\ ptr = s[b]
    BY <1>6, <1>10 DEF NodeAt
  <2>3. ptr' = NodeAt(n, s, b + 1)
    BY <1>4, <2>1, <2>2 DEF Linked, NodeAt
  <2>4. b + 1 \in a..n + 1 /\ count' = (b + 1) - a - 1
    BY <1>4, <1>6, <2>1, <2>2
  <2>5. Measuring'
    BY <1>6, <1>8, <2>1, <2>3, <2>4 DEF Measuring, NodeAt, ValuesTo
  <2> QED BY <1>1, <1>7, <2>5 DEF ListInv
<1> QED BY <1>9, <1>10

-----------------------------------------------------------------------------
(* list_from_array, list_add *)

(* w is u and the first of the values d. *)
Moves(u, w, d) ==
  /\ u \in Seq(Held) /\ w \in Seq(Held) /\ d \in Seq(Held) /\ d # <<>>
  /\ Len(w) = Len(u) + 1
  /\ \A k \in 1..Len(u) : w[k] = u[k]
  /\ w[Len(u) + 1] = d[1]

LEMMA MoveOne ==
  ASSUME NEW u, NEW w, NEW d, Moves(u, w, d)
  PROVE  /\ u \o d = w \o Tail(d)
         /\ Len(d) = 1 => u \o d = w
<1> DEFINE S == Held
<1>8. /\ u \in Seq(S) /\ w \in Seq(S) /\ d \in Seq(S) /\ d # <<>>
      /\ Len(w) = Len(u) + 1
      /\ \A k \in 1..Len(u) : w[k] = u[k]
      /\ w[Len(u) + 1] = d[1]
  BY DEF Moves
<1> HIDE DEF S
<1>1. Len(u) \in Nat /\ Len(d) \in Nat \ {0} /\ Len(w) \in Nat
  BY <1>8, LenProperties, EmptySeq
<1> DEFINE t == u \o d
           r == Tail(d)
<1>2. /\ t \in Seq(S) /\ Len(t) = Len(u) + Len(d)
      /\ \A k \in 1..Len(u) + Len(d) : t[k] = IF k <= Len(u) THEN u[k] ELSE d[k - Len(u)]
  BY <1>8, ConcatProperties
<1>3. r \in Seq(S) /\ Len(r) = Len(d) - 1 /\ \A k \in 1..Len(r) : r[k] = d[k + 1]
  BY <1>8, HeadTailProperties
<1> HIDE DEF t, r
<1>4. \A k \in 1..Len(w) : t[k] = w[k]
  <2> SUFFICES ASSUME NEW k \in 1..Len(w) PROVE t[k] = w[k]
    OBVIOUS
  <2>1. k \in 1..Len(u) + Len(d)
    BY <1>8, <1>1
  <2>2. CASE k <= Len(u)
    BY <1>8, <1>1, <1>2, <2>1, <2>2
  <2>3. CASE k = Len(u) + 1
    <3>1. k - Len(u) = 1 /\ ~(k <= Len(u))
      BY <1>8, <1>1, <2>3
    <3> QED BY <1>8, <1>2, <2>1, <2>3, <3>1
  <2> QED BY <1>8, <1>1, <2>2, <2>3
<1>5. \A k \in 1..Len(r) : t[Len(w) + k] = r[k]
  <2> SUFFICES ASSUME NEW k \in 1..Len(r) PROVE t[Len(w) + k] = r[k]
    OBVIOUS
  <2>1. Len(w) + k \in 1..Len(u) + Len(d) /\ ~(Len(w) + k <= Len(u)) /\ Len(w) + k - Len(u) = k + 1
    BY <1>8, <1>1, <1>3
  <2>2. t[Len(w) + k] = d[Len(w) + k - Len(u)]
    BY <1>8, <1>2, <2>1
  <2> QED BY <1>8, <1>3, <2>1, <2>2
<1>6. t = w \o r
  <2>1. Len(t) = Len(w) + Len(r)
    BY <1>8, <1>1, <1>2, <1>3
  <2> QED BY <1>8, <1>2, <1>3, <1>4, <1>5, <2>1, JoinedSequence
<1>7. Len(d) = 1 => t = w
  <2>1. SUFFICES ASSUME Len(d) = 1 PROVE t = w
    OBVIOUS
  <2>2. Len(t) = Len(w)
    BY <1>8, <1>1, <1>2, <2>1
  <2>3. \A k \in 1..Len(t) : t[k] = w[k]
    BY <1>8, <1>4, <2>2
  <2> QED BY <1>8, <1>2, <2>2, <2>3, SeqEqual
<1> QED BY <1>8, <1>6, <1>7 DEF t, r

LEMMA ArrayListed ==
  ASSUME Addresses, ListInv, NEW u \in List!Arrays, List!list_from_array(u)
  PROVE  ListInv'
<1>1. lnext \in [Nodes -> Nodes \cup {NoNode}] /\ val \in [Nodes -> Held]
  BY DEF ListInv
<1>2. Resting /\ head = NoNode
  BY NoNodeIsZero DEF ListInv, Destroying, Adding, Removing, Reversing, Measuring, List!list_from_array
<1>3. live = {}
  <2>1. ~(\E n, s : Whole(n, s))
    BY <1>1, <1>2, WholeIsContents
  <2> QED BY <1>2, <2>1 DEF Resting
<1>4. u \in Seq(Vals) /\ u # <<>> /\ Len(u) \in Nat /\ Len(u) # 0
  <2>1. PICK m \in 1..MaxArray : u \in [1..m -> Vals]
    BY DEF List!Arrays
  <2>2. m \in Nat /\ m # 0
    BY DEF Addresses
  <2>3. u \in Seq(Vals) /\ Len(u) = m
    BY <2>1, <2>2, FunctionIsSequence
  <2> QED BY <2>2, <2>3, EmptySeq
<1>5. /\ List!New \in Nodes \ live
      /\ Cardinality(Nodes \ (live \cup {List!New})) >= Len(u)
  <2>1. Cardinality(Nodes \ live) >= 1 + Len(u)
    BY ListCardinality DEF List!list_from_array, List!Room
  <2>2. PICK c \in Nat : c = 1 + Len(u)
    BY <1>4
  <2>3. c # 0 /\ c - 1 = Len(u) /\ Cardinality(Nodes \ live) >= c
    BY <1>4, <2>1, <2>2
  <2>4. List!New \in Nodes \ live /\ Cardinality(Nodes \ (live \cup {List!New})) >= c - 1
    BY <2>3, NewIsFree
  <2> QED BY <2>3, <2>4
<1>6. live' = {List!New} /\ head' = List!New /\ lnext' = [lnext EXCEPT ![List!New] = List!NULL]
  BY <1>3 DEF List!list_from_array
<1>7. /\ lnext' \in [Nodes -> Nodes \cup {NoNode}]
      /\ \E n, s : Whole(n, s)' /\ \A f : ValuesTo(f, s, n) = <<>>
  <2> DEFINE x == List!New
  <2>1. x \in Nodes /\ live' = {x} /\ head' = x /\ lnext' = [lnext EXCEPT ![x] = List!NULL]
    BY <1>5, <1>6
  <2> HIDE DEF x
  <2> QED BY <1>1, <2>1, NewHead
<1>8. PICK n, s : Whole(n, s)' /\ \A f : ValuesTo(f, s, n) = <<>>
  BY <1>7
<1>9. /\ lpc' = "add" /\ at' \in live' /\ ptr' \in live' /\ data' = u /\ expect' = u /\ val' = val
      /\ Cardinality(Nodes \ live') >= Len(u)
  BY <1>3, <1>5, <1>6 DEF List!list_from_array
<1>10. expect' = ValuesTo(val', s, n) \o data'
  <2>1. u = <<>> \o u
    BY <1>4, ConcatEmptySeq
  <2> QED BY <1>8, <1>9, <2>1
<1>11. Adding'
  <2>1. Whole(n, s)' /\ expect' = ValuesTo(val', s, n) \o data' /\ at' \in live' /\ ptr' \in live'
    BY <1>8, <1>9, <1>10
  <2>2. data' \in Seq(Vals) /\ data' # <<>> /\ Cardinality(Nodes \ live') >= Len(data')
    BY <1>4, <1>9
  <2> QED BY <1>9, <2>1, <2>2 DEF Adding, ValuesTo
<1> QED BY <1>1, <1>7, <1>9, <1>11 DEF ListInv

LEMMA HeldValues == Seq(Vals) \subseteq Seq(Held) /\ \A v \in Vals : v \in Held
<1>1. Vals \subseteq Held
  BY DEF Held
<1> QED BY <1>1, SeqMonotonic

(* What comes before the rest from s[a] on, the rest and one value more. *)
LEMMA AddedBehind ==
  ASSUME Addresses, NEW n \in Nat, NEW s, Whole(n, s), val \in [Nodes -> Held], NEW a \in 1..n, NEW v \in Vals
  PROVE  ValuesTo(val, s, a) \o Append(List!Contents(s[a]), v) = ValuesTo(val, s, n) \o <<v>>
<1> DEFINE u == ValuesTo(val, s, a)
           c == List!Contents(s[a])
           w == ValuesTo(val, s, n)
           x == Append(c, v)
           t == w \o <<v>>
<1>1. u \in Seq(Held) /\ Len(u) = a - 1 /\ \A k \in 1..a - 1 : u[k] = val[s[k + 1]]
  BY BeforeRest
<1>2. w \in Seq(Held) /\ Len(w) = n - 1 /\ \A k \in 1..n - 1 : w[k] = val[s[k + 1]]
  <2>1. \A b \in 1..n : /\ ValuesTo(val, s, b) \in Seq(Held) /\ Len(ValuesTo(val, s, b)) = b - 1
                        /\ \A k \in 1..b - 1 : ValuesTo(val, s, b)[k] = val[s[k + 1]]
    BY BeforeRest
  <2>2. n \in 1..n
    OBVIOUS
  <2> QED BY <2>1, <2>2
<1>3. c \in Seq(Held) /\ Len(c) = n - a /\ \A k \in 1..n - a : c[k] = val[s[a + k]]
  <2>1. Linked(n, s)
    BY DEF Whole
  <2>2. \A b \in 1..n : /\ List!Contents(s[b]) \in Seq(Held) /\ Len(List!Contents(s[b])) = n - b
                        /\ \A k \in 1..n - b : List!Contents(s[b])[k] = val[s[b + k]]
    BY <2>1, ContentsAreSequence
  <2> QED BY <2>2
<1>4. v \in Held
  BY HeldValues
<1> HIDE DEF u, c, w
<1>5. /\ x \in Seq(Held) /\ Len(x) = n - a + 1
      /\ \A k \in 1..n - a + 1 : x[k] = IF k <= n - a THEN val[s[a + k]] ELSE v
  <2>1. /\ x \in Seq(Held) /\ Len(x) = Len(c) + 1
        /\ \A k \in 1..Len(c) + 1 : x[k] = IF k <= Len(c) THEN c[k] ELSE v
    BY <1>3, <1>4, AppendProperties
  <2> HIDE DEF x
  <2> QED BY <1>3, <2>1
<1>6. /\ t \in Seq(Held) /\ Len(t) = n
      /\ \A k \in 1..n : t[k] = IF k <= n - 1 THEN val[s[k + 1]] ELSE v
  <2> DEFINE o == <<v>>
  <2>1. o \in Seq(Held) /\ Len(o) = 1 /\ o[1] = v
    BY <1>4
  <2> HIDE DEF o
  <2>2. /\ w \o o \in Seq(Held) /\ Len(w \o o) = Len(w) + Len(o)
        /\ \A k \in 1..Len(w) + Len(o) : (w \o o)[k] = IF k <= Len(w) THEN w[k] ELSE o[k - Len(w)]
    BY <1>2, <2>1, ConcatProperties
  <2>3. t = w \o o
    BY DEF o
  <2> HIDE DEF t
  <2>4. Len(w) + Len(o) = n /\ \A k \in 1..n : ~(k <= n - 1) => k - (n - 1) = 1
    BY <1>2, <2>1
  <2> QED BY <1>2, <2>1, <2>2, <2>3, <2>4
<1> HIDE DEF x, t
<1>7. Len(t) = Len(u) + Len(x)
  BY <1>1, <1>5, <1>6
<1>8. \A k \in 1..Len(u) : t[k] = u[k]
  <2> SUFFICES ASSUME NEW k \in 1..a - 1 PROVE t[k] = u[k]
    BY <1>1
  <2>1. k \in 1..n /\ k <= n - 1
    OBVIOUS
  <2> QED BY <1>1, <1>6, <2>1
<1>9. \A k \in 1..Len(x) : t[Len(u) + k] = x[k]
  <2> SUFFICES ASSUME NEW k \in 1..n - a + 1 PROVE t[a - 1 + k] = x[k]
    BY <1>1, <1>5
  <2>1. a - 1 + k \in 1..n /\ a - 1 + k + 1 = a + k /\ (a - 1 + k <= n - 1 <=> k <= n - a)
    OBVIOUS
  <2> QED BY <1>5, <1>6, <2>1
<1>10. t = u \o x
  BY <1>1, <1>5, <1>6, <1>7, <1>8, <1>9, JoinedSequence
<1> QED BY <1>10 DEF t, u, x, c, w

LEMMA AddBegins ==
  ASSUME Addresses, ListInv, NEW h \in List!Lists, NEW v \in Vals, List!list_add(h, v)
  PROVE  ListInv'
<1>1. lnext \in [Nodes -> Nodes \cup {NoNode}] /\ val \in [Nodes -> Held]
  BY DEF ListInv
<1>2. Resting
  BY DEF ListInv, Destroying, Adding, Removing, Reversing, Measuring, List!list_add
<1>3. PICK n \in Nat : \E s : \E a \in 1..n : Whole(n, s) /\ expect = ValuesTo(val, s, n) /\ h = s[a]
  BY <1>1, <1>2, RestingOnList
<1>4. PICK s : \E a \in 1..n : Whole(n, s) /\ expect = ValuesTo(val, s, n) /\ h = s[a]
  BY <1>3
<1>5. PICK a \in 1..n : Whole(n, s) /\ expect = ValuesTo(val, s, n) /\ h = s[a]
  BY <1>4
<1>6. /\ lpc' = "add" /\ ptr' = h /\ at' = h /\ data' = <<v>>
      /\ lnext' = lnext /\ val' = val /\ live' = live /\ head' = head
      /\ Cardinality(Nodes \ live) >= 1
  BY ListCardinality DEF List!list_add, List!nodes, List!Room
<1>7. Whole(n, s)'
  BY <1>5, <1>6 DEF Whole, Linked, NodesOf
<1>8. expect' = ValuesTo(val, s, n) \o <<v>>
  <2>1. List!Leaves(h, Append(List!Contents(h), v))
    BY DEF List!list_add
  <2>2. List!Leaves(s[a], Append(List!Contents(s[a]), v))
    BY <1>5, <2>1
  <2>3. expect' = ValuesTo(val, s, a) \o Append(List!Contents(s[a]), v)
    BY <1>1, <1>5, <2>2, LeavesBefore
  <2> QED BY <1>1, <1>5, <2>3, AddedBehind
<1>9. <<v>> \in Seq(Vals) /\ <<v>> # <<>> /\ Len(<<v>>) = 1
  OBVIOUS
<1>10. h \in live
  BY <1>5 DEF Whole, NodesOf
<1>11. Adding'
  <2>1. data' \in Seq(Vals) /\ data' # <<>> /\ Cardinality(Nodes \ live') >= Len(data')
    BY <1>6, <1>9
  <2>2. expect' = ValuesTo(val', s, n) \o data' /\ at' \in live' /\ ptr' \in live'
    BY <1>6, <1>8, <1>10
  <2> QED BY <1>6, <1>7, <2>1, <2>2 DEF Adding, ValuesTo
<1> QED BY <1>1, <1>6, <1>11 DEF ListInv

LEMMA AddWalks ==
  ASSUME Addresses, ListInv, List!AddWalk
  PROVE  ListInv'
<1>1. lnext \in [Nodes -> Nodes \cup {NoNode}] /\ val \in [Nodes -> Held]
  BY DEF ListInv
<1>2. Adding
  BY DEF ListInv, Resting, Measuring, Removing, Reversing, Destroying, List!AddWalk
<1>3. PICK n, s : Whole(n, s) /\ expect = ValuesTo(val, s, n) \o data /\ at \in live /\ ptr \in live
  BY <1>2 DEF Adding
<1>4. n \in Nat /\ Linked(n, s) /\ live = NodesOf(n, s)
  BY <1>3 DEF Whole, Linked
<1>5. /\ lpc' = "add" /\ ptr' = lnext[ptr] /\ lnext[ptr] # NoNode /\ at' = at /\ data' = data
      /\ lnext' = lnext /\ val' = val /\ live' = live /\ head' = head /\ expect' = expect
  BY NoNodeIsZero DEF List!AddWalk, List!nodes
<1>6. ptr' \in live
  <2>1. PICK k \in 1..n : ptr = s[k]
    BY <1>3, <1>4 DEF NodesOf
  <2>2. k < n /\ lnext[ptr] = s[k + 1] /\ k + 1 \in 1..n
    BY <1>4, <1>5, <2>1 DEF Linked
  <2> QED BY <1>4, <1>5, <2>2 DEF NodesOf
<1>7. Whole(n, s)'
  BY <1>3, <1>5 DEF Whole, Linked, NodesOf
<1>8. Adding'
  <2>1. data' \in Seq(Vals) /\ data' # <<>> /\ Cardinality(Nodes \ live') >= Len(data')
    BY <1>2, <1>5 DEF Adding
  <2>2. expect' = ValuesTo(val', s, n) \o data' /\ at' \in live' /\ ptr' \in live'
    BY <1>3, <1>5, <1>6
  <2> QED BY <1>5, <1>7, <2>1, <2>2 DEF Adding, ValuesTo
<1> QED BY <1>1, <1>5, <1>8 DEF ListInv

LEMMA NodeAdded ==
  ASSUME Addresses, ListInv, List!AddNode
  PROVE  ListInv'
<1>1. lnext \in [Nodes -> Nodes \cup {NoNode}] /\ val \in [Nodes -> Held]
  BY DEF ListInv
<1>2. Adding
  BY DEF ListInv, Resting, Measuring, Removing, Reversing, Destroying, List!AddNode
<1>3. PICK n, s : Whole(n, s) /\ expect = ValuesTo(val, s, n) \o data /\ at \in live /\ ptr \in live
  BY <1>2 DEF Adding
<1>4. /\ n \in Nat /\ n # 0 /\ 1 \in 1..n /\ n \in 1..n /\ s \in [1..n -> Nodes]
      /\ Linked(n, s) /\ live = NodesOf(n, s) /\ s[1] = head
  BY <1>3 DEF Whole, Linked
<1>5. ptr = s[n]
  <2>1. PICK k \in 1..n : ptr = s[k]
    BY <1>3, <1>4 DEF NodesOf
  <2>2. lnext[ptr] = NoNode
    BY NoNodeIsZero DEF List!AddNode
  <2>3. k < n => lnext[s[k]] = s[k + 1] /\ k + 1 \in 1..n /\ s[k + 1] # NoNode
    BY <1>4, NoNodeIsZero DEF Linked, Addresses
  <2> QED BY <1>4, <2>1, <2>2, <2>3
<1>6. data \in Seq(Vals) /\ data # <<>> /\ Len(data) \in Nat /\ Len(data) # 0
  BY <1>2, EmptySeq, LenProperties DEF Adding
<1>7. /\ List!New \in Nodes \ live
      /\ Cardinality(Nodes \ (live \cup {List!New})) >= Len(data) - 1
  BY <1>2, <1>6, NewIsFree DEF Adding
<1>8. PICK x : x = List!New
  OBVIOUS
<1>9. /\ live' = live \cup {x} /\ head' = head /\ expect' = expect
      /\ lnext' = [lnext EXCEPT ![ptr] = x, ![x] = NoNode]
      /\ val' = [val EXCEPT ![x] = Head(data)]
  BY <1>8, NoNodeIsZero DEF List!AddNode
<1>10. x \in Nodes /\ x \notin live /\ x # ptr /\ ptr \in Nodes /\ \A k \in 1..n : s[k] # x
  BY <1>3, <1>4, <1>5, <1>7, <1>8 DEF NodesOf
<1>11. Head(data) = data[1] /\ data[1] \in Vals /\ data[1] \in Held
  <2>1. 1 \in 1..Len(data)
    BY <1>6
  <2>2. data[1] \in Vals
    BY <1>6, <2>1, ElementOfSeq
  <2> QED BY <1>6, <2>2, HeadTailProperties, HeldValues
<1>12. lnext' \in [Nodes -> Nodes \cup {NoNode}] /\ val' \in [Nodes -> Held]
  BY <1>1, <1>9, <1>10, <1>11
<1>25. PICK c \in Nat : c = n + 1
  BY <1>4
<1> DEFINE t == [k \in 1..c |-> IF k = c THEN x ELSE s[k]]
<1>13. /\ c \in Nat /\ c # 0 /\ c = n + 1 /\ 1 \in 1..c /\ c \in 1..c
       /\ \A k \in 1..c : k = c \/ k \in 1..n
       /\ \A k \in 1..n : k \in 1..c /\ k # c
  BY <1>4, <1>25
<1>14. t \in [1..c -> Nodes] /\ t[c] = x /\ \A k \in 1..n : t[k] = s[k]
  BY <1>4, <1>10, <1>13
<1> HIDE DEF t
<1>15. \A j, k \in 1..c : t[j] = t[k] => j = k
  BY <1>4, <1>10, <1>13, <1>14 DEF Linked
<1>16. \A k \in 1..c : lnext'[t[k]] = IF k < c THEN t[k + 1] ELSE NoNode
  <2>1. ASSUME NEW k \in 1..n, k < n PROVE lnext'[t[k]] = t[k + 1]
    <3>1. s[k] # ptr /\ s[k] # x /\ s[k] \in Nodes
      BY <1>4, <1>5, <1>10, <2>1 DEF Linked
    <3>2. lnext'[s[k]] = lnext[s[k]]
      BY <1>1, <1>9, <3>1
    <3>3. lnext[s[k]] = s[k + 1] /\ k + 1 \in 1..n
      BY <1>4, <2>1 DEF Linked
    <3> QED BY <1>14, <3>2, <3>3
  <2>2. lnext'[t[n]] = t[c]
    BY <1>1, <1>4, <1>5, <1>9, <1>10, <1>14
  <2>3. lnext'[t[c]] = NoNode
    BY <1>1, <1>9, <1>10, <1>14
  <2>4. \A k \in 1..n : k < c /\ (k < n \/ (k = n /\ k + 1 = c))
    BY <1>4, <1>13
  <2> QED BY <1>13, <2>1, <2>2, <2>3, <2>4
<1>17. live' = NodesOf(c, t)
  BY <1>4, <1>9, <1>13, <1>14 DEF NodesOf
<1>18. Whole(c, t)'
  <2>1. Linked(c, t)'
    BY <1>13, <1>14, <1>15, <1>16 DEF Linked
  <2>2. t[1] = head'
    BY <1>4, <1>9, <1>14
  <2> QED BY <1>13, <1>17, <2>1, <2>2 DEF Whole, NodesOf
<1> DEFINE u == ValuesTo(val, s, n)
           w == ValuesTo(val', t, c)
<1>19. u \in Seq(Held) /\ Len(u) = n - 1 /\ \A k \in 1..n - 1 : u[k] = val[s[k + 1]]
  BY <1>1, <1>4, ValuesAreSequence
<1>20. w \in Seq(Held) /\ Len(w) = c - 1 /\ \A k \in 1..c - 1 : w[k] = val'[t[k + 1]]
  <2>1. PICK f \in [Nodes -> Held] : f = val'
    BY <1>12
  <2>2. /\ ValuesTo(f, t, c) \in Seq(Held) /\ Len(ValuesTo(f, t, c)) = c - 1
        /\ \A k \in 1..c - 1 : ValuesTo(f, t, c)[k] = f[t[k + 1]]
    <3>1. c # 0 /\ t \in [1..c -> Nodes] /\ c \in 1..c
      BY <1>13, <1>14
    <3> QED BY <3>1, ValuesAreSequence
  <2> QED BY <2>1, <2>2
<1>21. expect = u \o data
  BY <1>3
<1> HIDE DEF u, w
<1>22. u \o data = w \o Tail(data) /\ (Len(data) = 1 => u \o data = w)
  <2>1. Len(w) = Len(u) + 1
    BY <1>4, <1>13, <1>19, <1>20
  <2>2. \A k \in 1..Len(u) : w[k] = u[k]
    <3> SUFFICES ASSUME NEW k \in 1..n - 1 PROVE w[k] = u[k]
      BY <1>19
    <3>1. k \in 1..c - 1 /\ k + 1 \in 1..n
      BY <1>4, <1>13
    <3>2. w[k] = val'[s[k + 1]]
      BY <1>14, <1>20, <3>1
    <3>3. val'[s[k + 1]] = val[s[k + 1]]
      BY <1>1, <1>4, <1>9, <1>10, <3>1
    <3> QED BY <1>19, <3>2, <3>3
  <2>3. w[Len(u) + 1] = data[1]
    <3>1. Len(u) + 1 = n /\ n \in 1..c - 1 /\ n + 1 = c
      BY <1>4, <1>13, <1>19
    <3>2. val'[x] = data[1]
      BY <1>1, <1>9, <1>10, <1>11
    <3> QED BY <1>14, <1>20, <3>1, <3>2
  <2>4. data \in Seq(Held)
    BY <1>6, HeldValues
  <2>5. Moves(u, w, data)
    BY <1>6, <1>19, <1>20, <2>1, <2>2, <2>3, <2>4 DEF Moves
  <2> QED BY <2>5, MoveOne
<1>23. CASE Len(data) = 1
  <2>1. lpc' = "idle" /\ ptr' = NoNode
    BY <1>23, NoNodeIsZero DEF List!AddNode, List!Returns
  <2>2. expect' = ValuesTo(val', t, c)
    BY <1>9, <1>21, <1>22, <1>23 DEF w
  <2>3. Resting'
    BY <1>18, <2>1, <2>2 DEF Resting, ValuesTo
  <2> QED BY <1>12, <2>3 DEF ListInv
<1>24. CASE Len(data) # 1
  <2>1. lpc' = "add" /\ data' = Tail(data) /\ ptr' = at /\ at' = at
    BY <1>24 DEF List!AddNode
  <2>2. Tail(data) \in Seq(Vals) /\ Len(Tail(data)) = Len(data) - 1
    BY <1>6, HeadTailProperties
  <2>3. data' \in Seq(Vals) /\ data' # <<>> /\ Cardinality(Nodes \ live') >= Len(data')
    <3>1. Len(data') # 0
      BY <1>6, <1>24, <2>1, <2>2
    <3> QED BY <1>7, <1>8, <1>9, <2>1, <2>2, <3>1, EmptySeq
  <2>4. expect' = ValuesTo(val', t, c) \o data'
    BY <1>9, <1>21, <1>22, <2>1 DEF w
  <2>5. at' \in live' /\ ptr' \in live'
    BY <1>3, <1>9, <2>1
  <2>6. Adding'
    BY <1>18, <2>1, <2>3, <2>4, <2>5 DEF Adding, ValuesTo
  <2> QED BY <1>12, <2>6 DEF ListInv
<1> QED BY <1>23, <1>24

-----------------------------------------------------------------------------
(* list_remove *)

LEMMA KeepTypes ==
  ASSUME NEW x \in Seq(Held), NEW y \in Held, NEW v
  PROVE  Sifted(x, y, v) \in Seq(Held)
BY AppendProperties DEF Sifted

LEMMA KeepBehind ==
  ASSUME NEW z \in Seq(Held), NEW x \in Seq(Held), NEW y \in Held, NEW v
  PROVE  z \o Sifted(x, y, v) = Sifted(z \o x, y, v)
<1>1. CASE y = v
  BY <1>1 DEF Sifted
<1>2. CASE y # v
  <2> DEFINE o == <<y>>
  <2>1. o \in Seq(Held)
    OBVIOUS
  <2>2. Append(x, y) = x \o o /\ z \o x \in Seq(Held)
    BY AppendIsConcat, ConcatProperties
  <2>3. Append(z \o x, y) = (z \o x) \o o
    BY <2>2, AppendIsConcat
  <2> HIDE DEF o
  <2>4. z \o (x \o o) = (z \o x) \o o
    BY <2>1, ConcatAssociative
  <2> QED BY <1>2, <2>2, <2>3, <2>4 DEF Sifted
<1> QED BY <1>1, <1>2

(* What Without's recursion counts up to exists. *)
LEMMA KeptExists ==
  ASSUME NEW q \in Nat, NEW w \in [1..q -> Held], NEW v
  PROVE  \E e \in [0..q -> Seq(Held)] :
           e[0] = <<>> /\ \A k \in 1..q : e[k] = Sifted(e[k - 1], w[k], v)
<1> DEFINE Good(m, e) == /\ e \in [0..m -> Seq(Held)] /\ e[0] = <<>>
                         /\ \A k \in 1..m : e[k] = Sifted(e[k - 1], w[k], v)
           S == {m \in Nat : m <= q => \E e : Good(m, e)}
<1>1. 0 \in S
  <2> DEFINE e == [k \in 0..0 |-> <<>>]
  <2>1. <<>> \in Seq(Held)
    BY EmptySeq
  <2>2. e \in [0..0 -> Seq(Held)] /\ e[0] = <<>> /\ \A k \in 1..0 : FALSE
    BY <2>1
  <2> HIDE DEF e
  <2>3. Good(0, e)
    BY <2>2
  <2> HIDE DEF Good
  <2> QED BY <2>3
<1>2. ASSUME NEW m \in Nat, m \in S PROVE m + 1 \in S
  <2>1. SUFFICES ASSUME m + 1 <= q PROVE \E e : Good(m + 1, e)
    <3> HIDE DEF Good
    <3> QED OBVIOUS
  <2>2. PICK e : Good(m, e)
    <3>1. m <= q
      BY <2>1
    <3> HIDE DEF Good
    <3> QED BY <1>2, <3>1
  <2>3. PICK c \in Nat : c = m + 1
    OBVIOUS
  <2>4. c \in 1..q /\ w[c] \in Held /\ m \in 0..m /\ e[m] \in Seq(Held)
    BY <2>1, <2>2, <2>3
  <2>5. PICK y : y = Sifted(e[m], w[c], v)
    OBVIOUS
  <2>6. y \in Seq(Held)
    BY <2>4, <2>5, KeepTypes
  <2> DEFINE d == [k \in 0..c |-> IF k = c THEN y ELSE e[k]]
  <2>7. /\ \A k \in 0..c : k = c \/ k \in 0..m
        /\ \A k \in 0..m : k \in 0..c /\ k # c
        /\ \A k \in 1..c : (k = c /\ k - 1 = m) \/ (k \in 1..m /\ k - 1 \in 0..m /\ k \in 0..m)
        /\ c \in 0..c /\ 0 \in 0..m
    BY <2>3
  <2>8. d \in [0..c -> Seq(Held)] /\ d[c] = y /\ \A k \in 0..m : d[k] = e[k]
    BY <2>2, <2>6, <2>7
  <2> HIDE DEF d
  <2>9. \A k \in 1..c : d[k] = Sifted(d[k - 1], w[k], v)
    <3> SUFFICES ASSUME NEW k \in 1..c PROVE d[k] = Sifted(d[k - 1], w[k], v)
      OBVIOUS
    <3>1. CASE k = c /\ k - 1 = m
      BY <2>5, <2>7, <2>8, <3>1
    <3>2. CASE k \in 1..m /\ k - 1 \in 0..m /\ k \in 0..m
      BY <2>2, <2>8, <3>2
    <3> QED BY <2>7, <3>1, <3>2
  <2>10. Good(c, d)
    BY <2>2, <2>7, <2>8, <2>9
  <2> HIDE DEF Good
  <2> QED BY <2>3, <2>10
<1>3. q \in S
  <2> HIDE DEF S
  <2>1. Nat \subseteq S
    <3>1. \A m \in Nat : m \in S => m + 1 \in S
      BY <1>2
    <3> QED BY <1>1, <3>1, HoldsOfNumbers
  <2> QED BY <2>1
<1>4. \E e : Good(q, e)
  <2> HIDE DEF Good
  <2> QED BY <1>3
<1> QED BY <1>4

(* Without in terms of Sifted. *)
LEMMA WithoutKeeps ==
  ASSUME NEW u \in Seq(Held), NEW v
  PROVE  \E f \in [0..Len(u) -> Seq(Held)] :
           /\ f[0] = <<>> /\ \A k \in 1..Len(u) : f[k] = Sifted(f[k - 1], u[k], v)
           /\ List!Without(u, v) = f[Len(u)]
<1> DEFINE Next1(f) == [k \in 0..Len(u) |-> IF k = 0 THEN <<>>
                          ELSE IF u[k] = v THEN f[k - 1] ELSE Append(f[k - 1], u[k])]
           g == CHOOSE f : f = Next1(f)
<1>1. Len(u) \in Nat /\ u \in [1..Len(u) -> Held]
  BY LenProperties
<1>2. PICK e \in [0..Len(u) -> Seq(Held)] :
        e[0] = <<>> /\ \A k \in 1..Len(u) : e[k] = Sifted(e[k - 1], u[k], v)
  <2>1. PICK q : q = Len(u)
    OBVIOUS
  <2> QED BY <1>1, <2>1, KeptExists
<1>3. e = Next1(e)
  <2>1. ASSUME NEW k \in 0..Len(u)
        PROVE  e[k] = IF k = 0 THEN <<>> ELSE IF u[k] = v THEN e[k - 1] ELSE Append(e[k - 1], u[k])
    <3>1. k = 0 \/ k \in 1..Len(u)
      BY <1>1
    <3> QED BY <1>2, <3>1 DEF Sifted
  <2>2. e = [k \in 0..Len(u) |-> e[k]]
    BY <1>2
  <2> QED BY <2>1, <2>2
<1>4. g = Next1(g)
  <2> HIDE DEF Next1
  <2> QED BY <1>3
<1>5. List!Without(u, v) = g[Len(u)]
  BY DEF List!Without
<1>6. /\ \A k \in 0..Len(u) : g[k] = IF k = 0 THEN <<>>
                                ELSE IF u[k] = v THEN g[k - 1] ELSE Append(g[k - 1], u[k])
      /\ g = [k \in 0..Len(u) |-> g[k]]
  <2> HIDE DEF g
  <2> QED BY <1>4
<1> HIDE DEF g, Next1
<1>7. g[0] = <<>>
  <2>1. 0 \in 0..Len(u)
    BY <1>1
  <2> QED BY <1>6, <2>1
<1>8. \A k \in 1..Len(u) : g[k] = Sifted(g[k - 1], u[k], v)
  <2> SUFFICES ASSUME NEW k \in 1..Len(u) PROVE g[k] = Sifted(g[k - 1], u[k], v)
    OBVIOUS
  <2>1. k \in 0..Len(u) /\ k # 0
    BY <1>1
  <2> QED BY <1>6, <2>1 DEF Sifted
<1> DEFINE S == {m \in Nat : m <= Len(u) => g[m] \in Seq(Held)}
<1>9. 0 \in S
  BY <1>7, EmptySeq
<1>10. ASSUME NEW m \in Nat, m \in S PROVE m + 1 \in S
  <2> SUFFICES ASSUME m + 1 <= Len(u) PROVE g[m + 1] \in Seq(Held)
    OBVIOUS
  <2>1. PICK c \in Nat : c = m + 1
    OBVIOUS
  <2>2. c \in 1..Len(u) /\ c - 1 = m /\ g[m] \in Seq(Held) /\ u[c] \in Held
    BY <1>1, <1>10, <2>1
  <2>3. g[c] = Sifted(g[m], u[c], v)
    BY <1>8, <2>2
  <2>4. Sifted(g[m], u[c], v) \in Seq(Held)
    BY <2>2, KeepTypes
  <2> QED BY <2>1, <2>3, <2>4
<1>11. \A k \in 0..Len(u) : g[k] \in Seq(Held)
  <2>1. Nat \subseteq S
    <3> HIDE DEF S
    <3>1. \A m \in Nat : m \in S => m + 1 \in S
      BY <1>10
    <3> QED BY <1>9, <3>1, HoldsOfNumbers
  <2> QED BY <1>1, <2>1
<1>12. g \in [0..Len(u) -> Seq(Held)]
  BY <1>6, <1>11
<1> QED BY <1>5, <1>7, <1>8, <1>12

LEMMA RemoveBegins ==
  ASSUME Addresses, ListInv, NEW h \in List!Lists, NEW v \in Vals, List!list_remove(h, v)
  PROVE  ListInv'
<1>1. lnext \in [Nodes -> Nodes \cup {NoNode}] /\ val \in [Nodes -> Held]
  BY DEF ListInv
<1>2. Resting
  BY DEF ListInv, Destroying, Adding, Removing, Reversing, Measuring, List!list_remove
<1>3. PICK n \in Nat : \E s : \E a \in 1..n : Whole(n, s) /\ expect = ValuesTo(val, s, n) /\ h = s[a]
  BY <1>1, <1>2, RestingOnList
<1>4. PICK s : \E a \in 1..n : Whole(n, s) /\ expect = ValuesTo(val, s, n) /\ h = s[a]
  BY <1>3
<1>5. PICK a \in 1..n : Whole(n, s) /\ expect = ValuesTo(val, s, n) /\ h = s[a]
  BY <1>4
<1>6. /\ lpc' = "remove" /\ ptr' = h /\ data' = <<v>>
      /\ lnext' = lnext /\ val' = val /\ live' = live /\ head' = head
  BY DEF List!list_remove, List!nodes
<1>7. Whole(n, s)'
  BY <1>5, <1>6 DEF Whole, Linked, NodesOf
<1>8. PICK q \in Nat : q = n - a
  OBVIOUS
<1>9. PICK u : u = List!Contents(s[a])
  OBVIOUS
<1>10. u \in Seq(Held) /\ Len(u) = q /\ \A k \in 1..n - a : u[k] = val[s[a + k]]
  <2>1. Linked(n, s)
    BY <1>5 DEF Whole
  <2>2. \A b \in 1..n : /\ List!Contents(s[b]) \in Seq(Held) /\ Len(List!Contents(s[b])) = n - b
                        /\ \A k \in 1..n - b : List!Contents(s[b])[k] = val[s[b + k]]
    BY <1>1, <2>1, ContentsAreSequence
  <2> QED BY <1>8, <1>9, <2>2
<1>11. PICK z : z = ValuesTo(val, s, a)
  OBVIOUS
<1>12. z \in Seq(Held)
  BY <1>1, <1>5, <1>11, BeforeRest
<1>13. PICK x : x = List!Without(u, v)
  OBVIOUS
<1>14. expect' = z \o x
  <2>1. List!Leaves(h, List!Without(List!Contents(h), v))
    BY DEF List!list_remove
  <2>2. List!Leaves(s[a], x)
    BY <1>5, <1>9, <1>13, <2>1
  <2> QED BY <1>1, <1>5, <1>11, <2>2, LeavesBefore
<1>15. PICK f \in [0..q -> Seq(Held)] :
         f[0] = <<>> /\ (\A k \in 1..q : f[k] = Sifted(f[k - 1], u[k], v)) /\ x = f[q]
  <2>1. \E f \in [0..Len(u) -> Seq(Held)] :
          /\ f[0] = <<>> /\ \A k \in 1..Len(u) : f[k] = Sifted(f[k - 1], u[k], v)
          /\ List!Without(u, v) = f[Len(u)]
    BY <1>10, WithoutKeeps
  <2> QED BY <1>10, <1>13, <2>1
<1>16. u \in [1..q -> Held]
  BY <1>10, LenProperties
<1> DEFINE e == [k \in 0..q |-> z \o f[k]]
<1>17. /\ e \in [0..q -> Seq(Held)] /\ \A k \in 0..q : e[k] = z \o f[k]
  <2>1. \A k \in 0..q : z \o f[k] \in Seq(Held)
    BY <1>12, <1>15, ConcatProperties
  <2> QED BY <2>1
<1> HIDE DEF e
<1>18. e[0] = z /\ e[q] = expect'
  <2>1. 0 \in 0..q /\ q \in 0..q
    OBVIOUS
  <2>2. z \o <<>> = z
    BY <1>12, ConcatEmptySeq
  <2> QED BY <1>14, <1>15, <1>17, <2>1, <2>2
<1>19. \A k \in 1..q : e[k] = Sifted(e[k - 1], u[k], v)
  <2> SUFFICES ASSUME NEW k \in 1..q PROVE e[k] = Sifted(e[k - 1], u[k], v)
    OBVIOUS
  <2>1. PICK j \in Nat : j = k - 1
    OBVIOUS
  <2>2. j \in 0..q /\ k \in 0..q /\ f[j] \in Seq(Held) /\ u[k] \in Held
    BY <1>15, <1>16, <2>1
  <2>3. f[k] = Sifted(f[j], u[k], v)
    BY <1>15, <2>1
  <2>4. z \o Sifted(f[j], u[k], v) = Sifted(z \o f[j], u[k], v)
    BY <1>12, <2>2, KeepBehind
  <2>5. e[k] = z \o f[k] /\ e[j] = z \o f[j]
    BY <1>17, <2>2
  <2> QED BY <2>1, <2>3, <2>4, <2>5
<1>20. Sifting(n, s, a, q, 0, u, e)'
  <2>1. data'[1] = v
    BY <1>6
  <2>2. KeptBy(e, u, q, data'[1])
    BY <1>19, <2>1 DEF KeptBy
  <2>3. \A k \in 1..n - a : 0 + k = k
    OBVIOUS
  <2>4. \A k \in 1..n - a : val'[s[a + k]] = u[0 + k]
    BY <1>6, <1>10, <2>3
  <2>5. e[0] = ValuesTo(val', s, a) /\ expect' = e[q]
    BY <1>6, <1>11, <1>18
  <2>6. 0 \in Nat /\ 0 <= q /\ q - 0 = n - a /\ ptr' = s[a]
    BY <1>5, <1>6, <1>8
  <2> QED BY <1>7, <1>16, <1>17, <2>2, <2>4, <2>5, <2>6 DEF Sifting, KeptBy, ValuesTo
<1>21. Removing'
  BY <1>6, <1>20 DEF Removing
<1> QED BY <1>1, <1>6, <1>21 DEF ListInv

LEMMA RemoveDone ==
  ASSUME Addresses, ListInv, List!RemoveEnds
  PROVE  ListInv'
<1>1. lnext \in [Nodes -> Nodes \cup {NoNode}] /\ val \in [Nodes -> Held]
  BY DEF ListInv
<1>2. Removing
  BY DEF ListInv, Resting, Destroying, Adding, Reversing, Measuring, List!RemoveEnds
<1>3. PICK n, s, b, q, m, w, e : Sifting(n, s, b, q, m, w, e)
  BY <1>2 DEF Removing
<1>4. /\ Whole(n, s) /\ b \in 1..n /\ ptr = s[b]
      /\ q \in Nat /\ m \in Nat /\ q - m = n - b
      /\ e[m] = ValuesTo(val, s, b) /\ expect = e[q]
  BY <1>3 DEF Sifting
<1>5. n \in Nat /\ s \in [1..n -> Nodes] /\ Linked(n, s)
  BY <1>4 DEF Whole, Linked
<1>6. /\ lpc' = "idle" /\ ptr' = NoNode /\ lnext[ptr] = NoNode
      /\ lnext' = lnext /\ val' = val /\ live' = live /\ head' = head /\ expect' = expect
  BY NoNodeIsZero DEF List!RemoveEnds, List!Returns, List!nodes
<1>7. b = n
  <2>1. b < n => lnext[s[b]] = s[b + 1] /\ b + 1 \in 1..n
    BY <1>4, <1>5 DEF Linked
  <2>2. b < n => s[b + 1] # NoNode
    BY <1>5, <2>1, NoNodeIsZero DEF Addresses
  <2> QED BY <1>4, <1>5, <1>6, <2>1, <2>2
<1>8. expect' = ValuesTo(val', s, n)
  <2>1. q = m
    BY <1>4, <1>5, <1>7
  <2> QED BY <1>4, <1>6, <1>7, <2>1
<1>9. Whole(n, s)'
  BY <1>4, <1>6 DEF Whole, Linked, NodesOf
<1>10. Resting'
  BY <1>6, <1>8, <1>9 DEF Resting, ValuesTo
<1> QED BY <1>1, <1>6, <1>10 DEF ListInv

LEMMA ValuesAppended ==
  ASSUME NEW n \in Nat, NEW s \in [1..n -> Nodes], NEW f \in [Nodes -> Held], NEW b \in 1..n, NEW d \in 1..n,
         d = b + 1
  PROVE  Append(ValuesTo(f, s, b), f[s[d]]) = ValuesTo(f, s, d)
<1>1. n # 0
  OBVIOUS
<1> DEFINE u == ValuesTo(f, s, b)
           w == ValuesTo(f, s, d)
           x == f[s[d]]
           t == Append(u, x)
<1>2. u \in Seq(Held) /\ Len(u) = b - 1 /\ \A k \in 1..b - 1 : u[k] = f[s[k + 1]]
  BY <1>1, ValuesAreSequence
<1>3. w \in Seq(Held) /\ Len(w) = d - 1 /\ \A k \in 1..d - 1 : w[k] = f[s[k + 1]]
  BY <1>1, ValuesAreSequence
<1>4. x \in Held
  OBVIOUS
<1> HIDE DEF u, w, x
<1>5. /\ t \in Seq(Held) /\ Len(t) = Len(u) + 1 /\ t[Len(u) + 1] = x
      /\ \A k \in 1..Len(u) : t[k] = u[k]
  BY <1>2, <1>4, AppendProperties
<1> HIDE DEF t
<1>6. ASSUME NEW k \in 1..Len(t) PROVE t[k] = w[k]
  <2>1. k \in 1..d - 1
    BY <1>2, <1>5
  <2>2. CASE k < b
    <3>1. k \in 1..b - 1
      BY <2>1, <2>2
    <3> QED BY <1>2, <1>3, <1>5, <2>1, <3>1
  <2>3. CASE k = b
    <3>1. Len(u) + 1 = k /\ k + 1 = d
      BY <1>2, <2>3
    <3> QED BY <1>3, <1>5, <2>1, <3>1 DEF x
  <2> QED BY <2>1, <2>2, <2>3
<1>7. Len(t) = Len(w)
  BY <1>2, <1>3, <1>5
<1>8. t = w
  BY <1>3, <1>5, <1>6, <1>7, SeqEqual
<1> QED BY <1>8 DEF t, u, w, x

LEMMA RemoveTurns ==
  ASSUME Addresses, ListInv, List!RemoveNode
  PROVE  ListInv'
<1>1. lnext \in [Nodes -> Nodes \cup {NoNode}] /\ val \in [Nodes -> Held]
  BY DEF ListInv
<1>2. Removing
  BY DEF ListInv, Resting, Destroying, Adding, Reversing, Measuring, List!RemoveNode
<1>3. PICK n, s, b, q, m, w, e : Sifting(n, s, b, q, m, w, e)
  BY <1>2 DEF Removing
<1>4. /\ Whole(n, s) /\ b \in 1..n /\ ptr = s[b]
      /\ q \in Nat /\ m \in Nat /\ m <= q /\ q - m = n - b
      /\ w \in [1..q -> Held] /\ e \in [0..q -> Seq(Held)]
      /\ \A k \in 1..n - b : val[s[b + k]] = w[m + k]
      /\ e[m] = ValuesTo(val, s, b) /\ expect = e[q]
  BY <1>3 DEF Sifting
<1>5. KeptBy(e, w, q, data[1])
  BY <1>3 DEF Sifting
<1>6. n \in Nat /\ n # 0 /\ s \in [1..n -> Nodes] /\ Linked(n, s) /\ live = NodesOf(n, s) /\ s[1] = head
  BY <1>4 DEF Whole, Linked
<1>7. /\ lpc' = "remove" /\ data' = data /\ head' = head /\ expect' = expect /\ lnext[ptr] # NoNode
  BY NoNodeIsZero DEF List!RemoveNode
<1>8. b < n /\ lnext[ptr] = s[b + 1]
  BY <1>4, <1>6, <1>7 DEF Linked
<1>9. PICK d \in Nat : d = b + 1
  BY <1>4
<1>10. PICK l \in Nat : l = m + 1
  BY <1>4
<1>11. d \in 1..n /\ s[d] = lnext[ptr] /\ s[d] \in Nodes /\ s[b] \in Nodes
  BY <1>4, <1>6, <1>8, <1>9
<1>18. n \in Nat /\ b \in Nat /\ 1 <= b /\ b < n /\ d = b + 1
  BY <1>4, <1>6, <1>8, <1>9
<1>12. /\ l <= q /\ q - l = n - d /\ l \in 1..q /\ l \in 0..q /\ m \in 0..q /\ l - 1 = m
       /\ w[l] = val[s[d]]
  <2>1. 1 \in 1..n - b
    BY <1>4, <1>6, <1>8
  <2>2. val[s[b + 1]] = w[m + 1]
    BY <1>4, <2>1
  <2> QED BY <1>4, <1>6, <1>8, <1>9, <1>10, <2>2
<1>13. e[l] = Sifted(e[m], w[l], data[1])
  BY <1>5, <1>12 DEF KeptBy
<1>14. \A k \in 1..n - d : k + 1 \in 1..n - b /\ d + k = b + (k + 1) /\ l + k = m + (k + 1)
  BY <1>4, <1>6, <1>9, <1>10
<1>15. \A k \in 1..n - d : val[s[d + k]] = w[l + k]
  BY <1>4, <1>14
<1>16. CASE val[s[d]] # data[1]
  <2>1. ptr' = s[d] /\ lnext' = lnext /\ val' = val /\ live' = live
    BY <1>11, <1>16 DEF List!RemoveNode, List!nodes
  <2>2. e[l] = ValuesTo(val, s, d)
    <3>1. e[l] = Append(e[m], val[s[d]])
      BY <1>12, <1>13, <1>16 DEF Sifted
    <3>2. Append(ValuesTo(val, s, b), val[s[d]]) = ValuesTo(val, s, d)
      BY <1>1, <1>4, <1>6, <1>9, <1>11, ValuesAppended
    <3> QED BY <1>4, <3>1, <3>2
  <2>3. Whole(n, s)'
    BY <1>4, <1>7, <2>1 DEF Whole, Linked, NodesOf
  <2>4. Sifting(n, s, d, q, l, w, e)'
    BY <1>4, <1>5, <1>7, <1>11, <1>12, <1>15, <2>1, <2>2, <2>3 DEF Sifting, KeptBy, ValuesTo
  <2>5. Removing'
    BY <1>7, <2>4 DEF Removing
  <2> QED BY <1>1, <2>1, <2>5 DEF ListInv
<1>17. CASE val[s[d]] = data[1]
  <2>1. /\ ptr' = s[b] /\ live' = live \ {s[d]}
        /\ val' = [val EXCEPT ![s[d]] = List!Unset]
        /\ lnext' = [lnext EXCEPT ![s[b]] = lnext[s[d]], ![s[d]] = NoNode]
    BY <1>4, <1>11, <1>17, NoNodeIsZero DEF List!RemoveNode, List!Freed
  <2>2. lnext' \in [Nodes -> Nodes \cup {NoNode}] /\ val' \in [Nodes -> Held]
    <3>1. lnext[s[d]] \in Nodes \cup {NoNode} /\ List!Unset \in Held
      BY <1>1, <1>11 DEF Held
    <3> QED BY <1>1, <1>11, <2>1, <3>1
  <2>3. PICK c \in Nat : c = n - 1
    BY <1>6
  <2>4. /\ c # 0 /\ b \in 1..c /\ 1 \in 1..c /\ n - d = c - b
        /\ \A k \in 1..c : /\ k \in 1..n /\ k + 1 \in 1..n
                           /\ ~(k <= b) => k + 1 # b /\ k + 1 # d
                           /\ k <= b => k # d
                           /\ k < c <=> k + 1 < n
    BY <1>4, <1>6, <1>8, <1>9, <2>3
  <2> DEFINE t == [k \in 1..c |-> IF k <= b THEN s[k] ELSE s[k + 1]]
  <2>5. t \in [1..c -> Nodes] /\ \A k \in 1..c : t[k] = IF k <= b THEN s[k] ELSE s[k + 1]
    BY <1>6, <2>4
  <2> HIDE DEF t
  <2>6. \A j, k \in 1..n : s[j] = s[k] => j = k
    BY <1>6 DEF Linked
  <2>7. \A j, k \in 1..c : t[j] = t[k] => j = k
    <3> SUFFICES ASSUME NEW j \in 1..c, NEW k \in 1..c, t[j] = t[k] PROVE j = k
      OBVIOUS
    <3>1. PICK x \in 1..n : x = (IF j <= b THEN j ELSE j + 1) /\ t[j] = s[x]
      BY <2>4, <2>5
    <3>2. PICK y \in 1..n : y = (IF k <= b THEN k ELSE k + 1) /\ t[k] = s[y]
      BY <2>4, <2>5
    <3>3. x = y
      BY <2>6, <3>1, <3>2
    <3> QED BY <1>18, <3>1, <3>2, <3>3
  <2>8. \A k \in 1..c : t[k] # s[d]
    <3> SUFFICES ASSUME NEW k \in 1..c PROVE t[k] # s[d]
      OBVIOUS
    <3>1. PICK x \in 1..n : x # d /\ t[k] = s[x]
      <4>1. CASE k <= b
        BY <2>4, <2>5, <4>1
      <4>2. CASE ~(k <= b)
        BY <2>4, <2>5, <4>2
      <4> QED BY <4>1, <4>2
    <3> QED BY <1>11, <2>6, <3>1
  <2>9. \A k \in 1..c : lnext'[t[k]] = IF k < c THEN t[k + 1] ELSE NoNode
    <3> SUFFICES ASSUME NEW k \in 1..c PROVE lnext'[t[k]] = IF k < c THEN t[k + 1] ELSE NoNode
      OBVIOUS
    <3>1. k < c => k + 1 \in 1..c
      BY <2>4
    <3>2. CASE k < b
      <4>1. t[k] = s[k] /\ s[k] # s[b] /\ s[k] # s[d] /\ s[k] \in Nodes
        BY <1>4, <1>6, <2>4, <2>5, <2>6, <2>8, <3>2
      <4>2. lnext'[s[k]] = lnext[s[k]]
        BY <1>1, <1>11, <2>1, <4>1
      <4>3. k < c /\ k + 1 <= b /\ k < n /\ k \in 1..n
        BY <1>18, <2>3, <3>2
      <4>5. lnext[s[k]] = s[k + 1]
        BY <1>6, <4>3 DEF Linked
      <4> QED BY <2>5, <3>1, <4>1, <4>2, <4>3, <4>5
    <3>3. CASE k = b
      <4>1. t[k] = s[b] /\ s[b] # s[d]
        BY <1>4, <2>4, <2>5, <2>8, <3>3
      <4>2. lnext'[s[b]] = lnext[s[d]]
        BY <1>1, <1>11, <2>1, <4>1
      <4>3. lnext[s[d]] = IF d < n THEN s[d + 1] ELSE NoNode
        BY <1>6, <1>11 DEF Linked
      <4>4. (k < c <=> d < n) /\ ~(k + 1 <= b) /\ d + 1 = k + 1 + 1
        BY <1>4, <1>6, <1>9, <2>3, <3>3
      <4> QED BY <2>5, <3>1, <4>1, <4>2, <4>3, <4>4
    <3>4. CASE k > b
      <4>1. t[k] = s[k + 1] /\ s[k + 1] # s[b] /\ s[k + 1] # s[d] /\ s[k + 1] \in Nodes
        <5>1. ~(k <= b) /\ k + 1 \in 1..n /\ k + 1 # b
          BY <1>4, <1>6, <2>4, <3>4
        <5> QED BY <1>4, <1>6, <2>5, <2>6, <2>8, <5>1
      <4>2. lnext'[s[k + 1]] = lnext[s[k + 1]]
        BY <1>1, <1>11, <2>1, <4>1
      <4>3. lnext[s[k + 1]] = IF k + 1 < n THEN s[k + 1 + 1] ELSE NoNode
        BY <1>6, <2>4 DEF Linked
      <4>4. (k < c <=> k + 1 < n) /\ ~(k + 1 <= b)
        BY <1>18, <2>3, <3>4
      <4> QED BY <2>5, <3>1, <4>1, <4>2, <4>3, <4>4
    <3> QED BY <1>4, <1>6, <3>2, <3>3, <3>4
  <2>10. live' = NodesOf(c, t)
    <3>1. ASSUME NEW k \in 1..n, s[k] # s[d] PROVE s[k] \in NodesOf(c, t)
      <4>1. CASE k <= b
        <5>1. k \in 1..c /\ t[k] = s[k]
          BY <1>4, <1>6, <1>8, <2>3, <2>5, <4>1
        <5> QED BY <5>1 DEF NodesOf
      <4>2. CASE k > b
        <5>1. k # d
          BY <3>1
        <5>2. k - 1 \in 1..c /\ k - 1 + 1 = k /\ ~(k - 1 <= b)
          BY <1>18, <2>3, <4>2, <5>1
        <5> QED BY <2>5, <5>2 DEF NodesOf
      <4> QED BY <1>4, <1>6, <4>1, <4>2
    <3>2. ASSUME NEW k \in 1..c PROVE t[k] \in live \ {s[d]}
      BY <1>6, <2>4, <2>5, <2>8 DEF NodesOf
    <3> QED BY <1>6, <2>1, <3>1, <3>2 DEF NodesOf
  <2>11. Whole(c, t)'
    <3>1. Linked(c, t)'
      BY <2>5, <2>7, <2>9 DEF Linked
    <3>2. t[1] = head'
      BY <1>4, <1>6, <1>7, <2>4, <2>5
    <3> QED BY <2>4, <2>10, <3>1, <3>2 DEF Whole, NodesOf
  <2>12. \A k \in 1..c : val'[t[k]] = val[t[k]]
    BY <1>1, <2>1, <2>5, <2>8
  <2>13. \A k \in 1..c - b : val'[t[b + k]] = w[l + k]
    <3> SUFFICES ASSUME NEW k \in 1..c - b PROVE val'[t[b + k]] = w[l + k]
      OBVIOUS
    <3>1. b + k \in 1..c /\ ~(b + k <= b) /\ b + k + 1 = d + k /\ k \in 1..n - d
      BY <1>4, <1>6, <1>9, <2>3
    <3> QED BY <1>15, <2>5, <2>12, <3>1
  <2>14. ValuesTo(val', t, b) = ValuesTo(val, s, b)
    <3>1. ASSUME NEW k \in 1..b - 1 PROVE val'[t[k + 1]] = val[s[k + 1]]
      <4>1. k + 1 \in 1..c /\ k + 1 <= b
        BY <1>18, <2>3
      <4> QED BY <2>5, <2>12, <4>1
    <3> QED BY <3>1 DEF ValuesTo
  <2>15. e[l] = ValuesTo(val', t, b)
    BY <1>4, <1>12, <1>13, <1>17, <2>14 DEF Sifted
  <2>16. ptr' = t[b] /\ q - l = c - b
    BY <1>4, <1>12, <2>1, <2>4, <2>5
  <2>17. Sifting(c, t, b, q, l, w, e)'
    <3>1. KeptBy(e, w, q, data'[1])
      BY <1>5, <1>7
    <3> QED BY <1>4, <1>7, <1>12, <2>4, <2>11, <2>13, <2>15, <2>16, <3>1 DEF Sifting, KeptBy, ValuesTo
  <2>18. Removing'
    BY <1>7, <2>17 DEF Removing
  <2> QED BY <2>2, <2>18 DEF ListInv
<1> QED BY <1>16, <1>17

-----------------------------------------------------------------------------
(* list_reverse *)

LEMMA FlippedBehind ==
  ASSUME Addresses, NEW n \in Nat, NEW s, Whole(n, s), val \in [Nodes -> Held], NEW a \in 1..n
  PROVE  ValuesTo(val, s, a) \o List!Reverse(List!Contents(s[a])) = Flipped(val, n, s, a)
<1> DEFINE u == ValuesTo(val, s, a)
           c == List!Contents(s[a])
           r == List!Reverse(c)
           t == Flipped(val, n, s, a)
<1>1. u \in Seq(Held) /\ Len(u) = a - 1 /\ \A k \in 1..a - 1 : u[k] = val[s[k + 1]]
  BY BeforeRest
<1>2. Linked(n, s) /\ s \in [1..n -> Nodes]
  BY DEF Whole, Linked
<1>3. c \in Seq(Held) /\ Len(c) = n - a /\ \A k \in 1..n - a : c[k] = val[s[a + k]]
  <2>1. \A b \in 1..n : /\ List!Contents(s[b]) \in Seq(Held) /\ Len(List!Contents(s[b])) = n - b
                        /\ \A k \in 1..n - b : List!Contents(s[b])[k] = val[s[b + k]]
    BY <1>2, ContentsAreSequence
  <2> QED BY <2>1
<1> HIDE DEF c, u
<1>4. r = [k \in 1..n - a |-> c[(n - a - k) + 1]]
  BY <1>3 DEF List!Reverse
<1>5. /\ r \in Seq(Held) /\ Len(r) = n - a
      /\ \A k \in 1..n - a : r[k] = val[s[n - k + 1]]
  <2>1. ASSUME NEW k \in 1..n - a
        PROVE  r[k] = val[s[n - k + 1]] /\ val[s[n - k + 1]] \in Held
    <3>1. (n - a - k) + 1 \in 1..n - a /\ a + ((n - a - k) + 1) = n - k + 1 /\ n - k + 1 \in 1..n
      OBVIOUS
    <3>2. r[k] = c[(n - a - k) + 1]
      BY <1>4
    <3>3. c[(n - a - k) + 1] = val[s[a + ((n - a - k) + 1)]]
      BY <1>3, <3>1
    <3> QED BY <1>2, <3>1, <3>2, <3>3
  <2>2. PICK q \in Nat : q = n - a
    OBVIOUS
  <2>3. r \in [1..q -> Held]
    <3>1. r = [k \in 1..n - a |-> r[k]]
      BY <1>4
    <3> HIDE DEF r
    <3> QED BY <2>1, <2>2, <3>1
  <2> HIDE DEF r
  <2>4. r \in Seq(Held) /\ Len(r) = q
    BY <2>3, FunctionIsSequence
  <2> QED BY <2>1, <2>2, <2>4
<1>6. /\ t \in Seq(Held) /\ Len(t) = n - 1
      /\ \A k \in 1..n - 1 : t[k] = IF k < a THEN val[s[k + 1]] ELSE val[s[n - (k - a)]]
  <2>1. PICK q \in Nat : q = n - 1
    OBVIOUS
  <2>2. ASSUME NEW k \in 1..q
        PROVE  (IF k < a THEN val[s[k + 1]] ELSE val[s[n - (k - a)]]) \in Held
    <3>1. k + 1 \in 1..n /\ (k < a \/ n - (k - a) \in 1..n)
      BY <2>1
    <3> QED BY <1>2, <3>1
  <2>3. t = [k \in 1..q |-> IF k < a THEN val[s[k + 1]] ELSE val[s[n - (k - a)]]]
    BY <2>1 DEF Flipped
  <2> HIDE DEF t
  <2>4. t \in [1..q -> Held]
    BY <2>2, <2>3
  <2>5. t \in Seq(Held) /\ Len(t) = q
    BY <2>4, FunctionIsSequence
  <2> QED BY <2>1, <2>3, <2>5
<1> HIDE DEF r, t
<1>7. Len(t) = Len(u) + Len(r)
  BY <1>1, <1>5, <1>6
<1>8. \A k \in 1..Len(u) : t[k] = u[k]
  <2> SUFFICES ASSUME NEW k \in 1..a - 1 PROVE t[k] = u[k]
    BY <1>1
  <2>1. k \in 1..n - 1 /\ k < a
    OBVIOUS
  <2> QED BY <1>1, <1>6, <2>1
<1>9. \A k \in 1..Len(r) : t[Len(u) + k] = r[k]
  <2> SUFFICES ASSUME NEW k \in 1..n - a PROVE t[a - 1 + k] = r[k]
    BY <1>1, <1>5
  <2>1. a - 1 + k \in 1..n - 1 /\ ~(a - 1 + k < a) /\ n - (a - 1 + k - a) = n - k + 1
    OBVIOUS
  <2> QED BY <1>5, <1>6, <2>1
<1>10. t = u \o r
  BY <1>1, <1>5, <1>6, <1>7, <1>8, <1>9, JoinedSequence
<1> QED BY <1>10 DEF t, u, r, c

LEMMA ReverseBegins ==
  ASSUME Addresses, ListInv, NEW h \in List!Lists, List!list_reverse(h)
  PROVE  ListInv'
<1>1. lnext \in [Nodes -> Nodes \cup {NoNode}] /\ val \in [Nodes -> Held]
  BY DEF ListInv
<1>2. Resting
  BY DEF ListInv, Destroying, Adding, Removing, Reversing, Measuring, List!list_reverse
<1>3. PICK n \in Nat : \E s : \E a \in 1..n : Whole(n, s) /\ expect = ValuesTo(val, s, n) /\ h = s[a]
  BY <1>1, <1>2, RestingOnList
<1>4. PICK s : \E a \in 1..n : Whole(n, s) /\ expect = ValuesTo(val, s, n) /\ h = s[a]
  BY <1>3
<1>5. PICK a \in 1..n : Whole(n, s) /\ expect = ValuesTo(val, s, n) /\ h = s[a]
  BY <1>4
<1>6. /\ lpc' = "reverse" /\ at' = h /\ ptr' = lnext[h] /\ prev' = NoNode
      /\ lnext' = lnext /\ val' = val /\ live' = live /\ head' = head
  BY NoNodeIsZero DEF List!list_reverse, List!nodes
<1>7. PICK m \in Nat : m = 0
  OBVIOUS
<1>8. m \in 0..n - a /\ \A k \in 1..n : (~(a < k /\ k <= a + m)) /\ (k < a => k < n) /\ (a + m < k => a < k)
  BY <1>7
<1>9. \A k \in 1..n : lnext[s[k]] = IF k < n THEN s[k + 1] ELSE NoNode
  BY <1>5 DEF Whole, Linked
<1>10. /\ s \in [1..n -> Nodes] /\ (\A j, k \in 1..n : s[j] = s[k] => j = k)
       /\ s[1] = head /\ live = NodesOf(n, s)
  BY <1>5 DEF Whole, Linked
<1>11. Turned(n, s, a, m)'
  BY <1>6, <1>8, <1>9, <1>10 DEF Turned, NodesOf
<1>12. expect' = Flipped(val, n, s, a)
  <2>1. List!Leaves(h, List!Reverse(List!Contents(h)))
    BY DEF List!list_reverse
  <2>2. List!Leaves(s[a], List!Reverse(List!Contents(s[a])))
    BY <1>5, <2>1
  <2>3. expect' = ValuesTo(val, s, a) \o List!Reverse(List!Contents(s[a]))
    BY <1>1, <1>5, <2>2, LeavesBefore
  <2> QED BY <1>1, <1>5, <2>3, FlippedBehind
<1>13. ptr' = NodeAt(n, s, a + m + 1)
  <2>1. a + m + 1 = a + 1 /\ (a + 1 \in 1..n <=> a < n)
    BY <1>7
  <2> QED BY <1>5, <1>6, <1>9, <2>1 DEF NodeAt
<1>14. Reversing'
  <2>1. /\ at' = s[a] /\ prev' = (IF m = 0 THEN NoNode ELSE s[a + m])
        /\ expect' = Flipped(val', n, s, a)
    BY <1>5, <1>6, <1>7, <1>12
  <2> QED BY <1>6, <1>11, <1>13, <2>1 DEF Reversing, Flipped, NodeAt
<1> QED BY <1>1, <1>6, <1>14 DEF ListInv

LEMMA ReverseTurns ==
  ASSUME Addresses, ListInv, List!ReverseNode
  PROVE  ListInv'
<1>1. lnext \in [Nodes -> Nodes \cup {NoNode}] /\ val \in [Nodes -> Held]
  BY DEF ListInv
<1>2. Reversing
  BY DEF ListInv, Resting, Destroying, Adding, Removing, Measuring, List!ReverseNode
<1>3. PICK n, s, a, m :
        /\ Turned(n, s, a, m)
        /\ at = s[a]
        /\ prev = IF m = 0 THEN NoNode ELSE s[a + m]
        /\ ptr = NodeAt(n, s, a + m + 1)
        /\ expect = Flipped(val, n, s, a)
  BY <1>2 DEF Reversing
<1>4. /\ n \in Nat /\ a \in 1..n /\ m \in 0..n - a
      /\ s \in [1..n -> Nodes]
      /\ \A j, k \in 1..n : s[j] = s[k] => j = k
      /\ s[1] = head /\ live = NodesOf(n, s)
  BY <1>3 DEF Turned
<1>5. /\ lpc' = "reverse" /\ at' = at /\ ptr' = lnext[ptr] /\ prev' = ptr /\ ptr # NoNode
      /\ lnext' = [lnext EXCEPT ![ptr] = prev]
      /\ val' = val /\ live' = live /\ head' = head /\ expect' = expect
  BY NoNodeIsZero DEF List!ReverseNode
<1>6. PICK j \in Nat : j = a + m + 1
  BY <1>4
<1>7. PICK c \in Nat : c = m + 1
  BY <1>4
<1>8. j \in 1..n /\ ptr = s[j] /\ s[j] \in Nodes
  BY <1>3, <1>4, <1>5, <1>6 DEF NodeAt
<1>9. /\ c \in 0..n - a /\ a + c = j /\ c # 0 /\ a + c + 1 = j + 1
      /\ \A k \in 1..n : /\ k < a => k # j
                         /\ a < k /\ k <= a + c => k = j \/ (k <= a + m /\ k # j)
                         /\ a + c < k => a + m < k /\ k # j
                         /\ k + 1 \in 1..n <=> k < n
  BY <1>4, <1>6, <1>7, <1>8
<1>10. prev \in Nodes \cup {NoNode}
  <2>1. m # 0 => a + m \in 1..n
    BY <1>4
  <2> QED BY <1>3, <1>4, <2>1
<1>11. lnext' \in [Nodes -> Nodes \cup {NoNode}]
  BY <1>1, <1>5, <1>8, <1>10
<1>12. ASSUME NEW k \in 1..n, k # j PROVE lnext'[s[k]] = lnext[s[k]]
  <2>1. s[k] # s[j] /\ s[k] \in Nodes
    BY <1>4, <1>8, <1>12
  <2> QED BY <1>1, <1>5, <1>8, <2>1
<1>13. lnext'[s[j]] = IF j = a + 1 THEN NoNode ELSE s[j - 1]
  <2>1. lnext'[s[j]] = prev
    BY <1>1, <1>5, <1>8
  <2>2. (j = a + 1 <=> m = 0) /\ j - 1 = a + m
    BY <1>4, <1>6
  <2> QED BY <1>3, <2>1, <2>2
<1>14. \A k \in 1..n :
         /\ k < a => lnext[s[k]] = s[k + 1]
         /\ a < k /\ k <= a + m => lnext[s[k]] = IF k = a + 1 THEN NoNode ELSE s[k - 1]
         /\ a + m < k => lnext[s[k]] = IF k < n THEN s[k + 1] ELSE NoNode
  BY <1>3 DEF Turned
<1>15. \A k \in 1..n :
         /\ k < a => lnext'[s[k]] = s[k + 1]
         /\ a < k /\ k <= a + c => lnext'[s[k]] = IF k = a + 1 THEN NoNode ELSE s[k - 1]
         /\ a + c < k => lnext'[s[k]] = IF k < n THEN s[k + 1] ELSE NoNode
  <2> SUFFICES ASSUME NEW k \in 1..n
               PROVE  /\ k < a => lnext'[s[k]] = s[k + 1]
                      /\ a < k /\ k <= a + c => lnext'[s[k]] = IF k = a + 1 THEN NoNode ELSE s[k - 1]
                      /\ a + c < k => lnext'[s[k]] = IF k < n THEN s[k + 1] ELSE NoNode
    OBVIOUS
  <2>1. CASE k = j
    <3>1. ~(k < a) /\ ~(a + c < k)
      BY <1>9, <2>1
    <3> QED BY <1>13, <2>1, <3>1
  <2>2. CASE k # j
    <3>1. lnext'[s[k]] = lnext[s[k]]
      BY <1>12, <2>2
    <3>2. a < k /\ k <= a + c => k <= a + m
      BY <1>9, <2>2
    <3>3. a + c < k => a + m < k
      BY <1>9
    <3> QED BY <1>14, <3>1, <3>2, <3>3
  <2> QED BY <2>1, <2>2
<1>16. Turned(n, s, a, c)'
  BY <1>4, <1>5, <1>9, <1>15 DEF Turned, NodesOf
<1>17. ptr' = NodeAt(n, s, a + c + 1)
  <2>1. a + m < j
    BY <1>4, <1>6
  <2>2. lnext[s[j]] = IF j < n THEN s[j + 1] ELSE NoNode
    BY <1>8, <1>14, <2>1
  <2>3. j + 1 \in 1..n <=> j < n
    BY <1>8, <1>9
  <2> QED BY <1>5, <1>8, <1>9, <2>2, <2>3 DEF NodeAt
<1>18. Reversing'
  <2>1. at' = s[a] /\ prev' = (IF c = 0 THEN NoNode ELSE s[a + c]) /\ expect' = Flipped(val', n, s, a)
    BY <1>3, <1>5, <1>8, <1>9
  <2> QED BY <1>5, <1>16, <1>17, <2>1 DEF Reversing, Flipped, NodeAt
<1> QED BY <1>1, <1>5, <1>11, <1>18 DEF ListInv

LEMMA ReverseDone ==
  ASSUME Addresses, ListInv, List!ReverseEnds
  PROVE  ListInv'
<1>1. lnext \in [Nodes -> Nodes \cup {NoNode}] /\ val \in [Nodes -> Held]
  BY DEF ListInv
<1>2. Reversing
  BY DEF ListInv, Resting, Destroying, Adding, Removing, Measuring, List!ReverseEnds
<1>3. PICK n, s, a, m :
        /\ Turned(n, s, a, m)
        /\ at = s[a]
        /\ prev = IF m = 0 THEN NoNode ELSE s[a + m]
        /\ ptr = NodeAt(n, s, a + m + 1)
        /\ expect = Flipped(val, n, s, a)
  BY <1>2 DEF Reversing
<1>4. /\ n \in Nat /\ a \in 1..n /\ m \in 0..n - a
      /\ s \in [1..n -> Nodes]
      /\ \A j, k \in 1..n : s[j] = s[k] => j = k
      /\ s[1] = head /\ live = NodesOf(n, s)
  BY <1>3 DEF Turned
<1>5. /\ lpc' = "idle" /\ ptr' = NoNode /\ ptr = NoNode
      /\ lnext' = [lnext EXCEPT ![at] = prev]
      /\ val' = val /\ live' = live /\ head' = head /\ expect' = expect
  BY NoNodeIsZero DEF List!ReverseEnds, List!Returns
<1>6. m = n - a
  <2>1. CASE a + m + 1 \in 1..n
    <3>1. s[a + m + 1] \in Nodes /\ s[a + m + 1] # NoNode
      BY <1>4, <2>1, NoNodeIsZero DEF Addresses
    <3> QED BY <1>3, <1>5, <2>1, <3>1 DEF NodeAt
  <2>2. CASE a + m + 1 \notin 1..n
    BY <1>4, <2>2
  <2> QED BY <2>1, <2>2
<1>7. n \in Nat /\ a \in Nat /\ n # 0 /\ 1 <= a /\ a <= n /\ a \in 1..n
  BY <1>4
<1>8. s[a] \in Nodes /\ prev \in Nodes \cup {NoNode}
  <2>1. m # 0 => a + m \in 1..n
    BY <1>4
  <2> QED BY <1>3, <1>4, <2>1
<1>9. lnext' \in [Nodes -> Nodes \cup {NoNode}] /\ lnext'[s[a]] = prev
  BY <1>1, <1>3, <1>5, <1>8
<1> DEFINE flip(k) == IF k <= a THEN k ELSE n - (k - a) + 1
           t == [k \in 1..n |-> s[flip(k)]]
<1>10. \A k \in 1..n : /\ flip(k) \in 1..n /\ flip(flip(k)) = k
                       /\ k <= a => flip(k) = k
                       /\ k > a => flip(k) = n - (k - a) + 1 /\ flip(k) > a
  BY <1>7
<1> HIDE DEF flip
<1>11. t \in [1..n -> Nodes] /\ \A k \in 1..n : t[k] = s[flip(k)]
  BY <1>4, <1>10
<1> HIDE DEF t
<1>12. \A j, k \in 1..n : t[j] = t[k] => j = k
  <2> SUFFICES ASSUME NEW j \in 1..n, NEW k \in 1..n, t[j] = t[k] PROVE j = k
    OBVIOUS
  <2>1. flip(j) = flip(k)
    BY <1>4, <1>10, <1>11
  <2> QED BY <1>10, <2>1
<1>13. \A k \in 1..n :
         /\ k < a => lnext[s[k]] = s[k + 1]
         /\ a < k /\ k <= a + m => lnext[s[k]] = IF k = a + 1 THEN NoNode ELSE s[k - 1]
  BY <1>3 DEF Turned
<1>14. ASSUME NEW k \in 1..n, k # a PROVE lnext'[s[k]] = lnext[s[k]]
  <2>1. s[k] # s[a] /\ s[k] \in Nodes
    BY <1>4, <1>14
  <2> QED BY <1>1, <1>3, <1>5, <1>8, <2>1
<1>15. \A k \in 1..n : lnext'[t[k]] = IF k < n THEN t[k + 1] ELSE NoNode
  <2> SUFFICES ASSUME NEW k \in 1..n PROVE lnext'[t[k]] = IF k < n THEN t[k + 1] ELSE NoNode
    OBVIOUS
  <2>1. k < n => k + 1 \in 1..n /\ t[k + 1] = s[flip(k + 1)]
    <3>1. k < n => k + 1 \in 1..n
      BY <1>7
    <3> QED BY <1>11, <3>1
  <2>2. CASE k < a
    <3>1. k < n /\ flip(k) = k /\ flip(k + 1) = k + 1 /\ k # a
      BY <1>7, <2>2 DEF flip
    <3> QED BY <1>11, <1>13, <1>14, <2>1, <2>2, <3>1
  <2>3. CASE k = a
    <3>1. t[k] = s[a]
      BY <1>10, <1>11, <1>7, <2>3
    <3>2. CASE k = n
      <4>1. m = 0
        BY <1>6, <1>7, <2>3, <3>2
      <4> QED BY <1>3, <1>9, <3>1, <3>2, <4>1
    <3>3. CASE k < n
      <4>1. m # 0 /\ a + m = n /\ flip(k + 1) = n
        BY <1>6, <1>7, <2>3, <3>3 DEF flip
      <4> QED BY <1>3, <1>9, <2>1, <3>1, <3>3, <4>1
    <3> QED BY <1>7, <3>2, <3>3
  <2>4. CASE k > a
    <3>1. PICK j \in Nat : j = n - (k - a) + 1
      BY <1>7
    <3>2. /\ j \in 1..n /\ j # a /\ a < j /\ j <= a + m /\ flip(k) = j
          /\ (j = a + 1 <=> ~(k < n)) /\ (k < n => flip(k + 1) = j - 1)
      BY <1>6, <1>7, <2>4, <3>1 DEF flip
    <3>3. t[k] = s[j]
      BY <1>11, <3>2
    <3>4. lnext'[s[j]] = IF j = a + 1 THEN NoNode ELSE s[j - 1]
      BY <1>13, <1>14, <3>2
    <3> QED BY <2>1, <3>2, <3>3, <3>4
  <2> QED BY <1>7, <2>2, <2>3, <2>4
<1>16. live' = NodesOf(n, t)
  <2>1. ASSUME NEW k \in 1..n PROVE s[k] \in NodesOf(n, t)
    <3>1. flip(k) \in 1..n /\ t[flip(k)] = s[k]
      BY <1>10, <1>11
    <3> QED BY <3>1 DEF NodesOf
  <2>2. ASSUME NEW k \in 1..n PROVE t[k] \in NodesOf(n, s)
    BY <1>10, <1>11 DEF NodesOf
  <2>3. ASSUME NEW x \in NodesOf(n, s) PROVE x \in NodesOf(n, t)
    <3>1. PICK k \in 1..n : x = s[k]
      BY DEF NodesOf
    <3> QED BY <2>1, <3>1
  <2>4. ASSUME NEW x \in NodesOf(n, t) PROVE x \in NodesOf(n, s)
    <3>1. PICK k \in 1..n : x = t[k]
      BY DEF NodesOf
    <3> QED BY <2>2, <3>1
  <2> QED BY <1>4, <1>5, <2>3, <2>4
<1>17. Whole(n, t)'
  <2>1. Linked(n, t)'
    BY <1>7, <1>11, <1>12, <1>15 DEF Linked
  <2>2. 1 \in 1..n /\ 1 <= a
    BY <1>7
  <2>3. t[1] = head'
    BY <1>4, <1>5, <1>10, <1>11, <2>2
  <2> QED BY <1>7, <1>16, <2>1, <2>3 DEF Whole, NodesOf
<1>18. Flipped(val, n, s, a) = ValuesTo(val, t, n)
  <2>1. ASSUME NEW k \in 1..n - 1
        PROVE  (IF k < a THEN val[s[k + 1]] ELSE val[s[n - (k - a)]]) = val[t[k + 1]]
    <3>1. k + 1 \in 1..n
      BY <1>7
    <3>2. flip(k + 1) = IF k < a THEN k + 1 ELSE n - (k - a)
      BY <1>7 DEF flip
    <3> QED BY <1>11, <3>1, <3>2
  <2> QED BY <2>1 DEF Flipped, ValuesTo
<1>19. Resting'
  <2>1. expect' = ValuesTo(val', t, n)
    BY <1>3, <1>5, <1>18
  <2> QED BY <1>5, <1>17, <2>1 DEF Resting, ValuesTo
<1> QED BY <1>1, <1>5, <1>9, <1>19 DEF ListInv

-----------------------------------------------------------------------------
LEMMA ListBegins ==
  ASSUME Addresses, List!Init
  PROVE  ListInv
<1>1. lnext \in [Nodes -> Nodes \cup {NoNode}] /\ val \in [Nodes -> Held]
  BY NoNodeIsZero DEF List!Init, Held
<1>2. Resting
  BY NoNodeIsZero DEF List!Init, Resting
<1> QED BY <1>1, <1>2 DEF ListInv

LEMMA ListStep ==
  ASSUME Addresses, ListInv, List!Next
  PROVE  ListInv'
<1>1. CASE List!list
  BY <1>1, ListMade
<1>2. CASE List!list_destroy
  BY <1>2, DestroyBegins
<1>3. CASE List!DestroyNode
  BY <1>3, DestroyTurns
<1>4. CASE \E u \in List!Arrays : List!list_from_array(u)
  BY <1>4, ArrayListed
<1>5. CASE \E h \in List!Lists, v \in Vals : List!list_add(h, v) \/ List!list_remove(h, v)
  BY <1>5, AddBegins, RemoveBegins
<1>6. CASE \E h \in List!Lists : List!list_reverse(h) \/ List!list_length(h)
  BY <1>6, ReverseBegins, LengthBegins
<1>7. CASE List!AddWalk
  BY <1>7, AddWalks
<1>8. CASE List!AddNode
  BY <1>8, NodeAdded
<1>9. CASE List!RemoveNode
  BY <1>9, RemoveTurns
<1>10. CASE List!RemoveEnds
  BY <1>10, RemoveDone
<1>11. CASE List!ReverseNode
  BY <1>11, ReverseTurns
<1>12. CASE List!ReverseEnds
  BY <1>12, ReverseDone
<1>13. CASE List!LengthNode
  BY <1>13, LengthTurns
<1> QED BY <1>1, <1>2, <1>3, <1>4, <1>5, <1>6, <1>7, <1>8, <1>9, <1>10, <1>11, <1>12, <1>13 DEF List!Next

LEMMA ListStays ==
  ASSUME ListInv, UNCHANGED listVars
  PROVE  ListInv'
<1>1. /\ lnext' = lnext /\ val' = val /\ live' = live /\ head' = head /\ lpc' = lpc /\ ptr' = ptr
      /\ prev' = prev /\ at' = at /\ data' = data /\ count' = count /\ expect' = expect
  BY DEF listVars
<1>2. \A n, s : Linked(n, s)' = Linked(n, s)
  BY <1>1 DEF Linked
<1>3. \A n, s : Whole(n, s)' = Whole(n, s)
  BY <1>1, <1>2 DEF Whole, NodesOf
<1>4. \A n, s, a, m : Turned(n, s, a, m)' = Turned(n, s, a, m)
  BY <1>1 DEF Turned, NodesOf
<1>5. Resting => Resting'
  BY <1>1, <1>3 DEF Resting, ValuesTo
<1>6. Destroying => Destroying'
  BY <1>1, <1>2 DEF Destroying, NodesOf, NodeAt
<1>7. Adding => Adding'
  BY <1>1, <1>3 DEF Adding, ValuesTo
<1>8. Removing => Removing'
  <2>1. \A n, s, b, q, m, w, e : Sifting(n, s, b, q, m, w, e)' = Sifting(n, s, b, q, m, w, e)
    BY <1>1, <1>3 DEF Sifting, KeptBy, ValuesTo
  <2> QED BY <1>1, <2>1 DEF Removing
<1>9. Reversing => Reversing'
  BY <1>1, <1>4 DEF Reversing, NodeAt, Flipped
<1>10. Measuring => Measuring'
  BY <1>1, <1>3 DEF Measuring, ValuesTo, NodeAt
<1> QED BY <1>1, <1>5, <1>6, <1>7, <1>8, <1>9, <1>10 DEF ListInv

(* LinkedList, whatever operations came before and on whichever rest: each *)
(* leaves what a sequence would hold, leaks no node and uses none that it  *)
(* freed.                                                                  *)
THEOREM ListOperationsAreExact ==
  ASSUME Addresses
  PROVE  MCSpec => []OperationsAreExact
<1>1. MCInit => ListInv
  BY ListBegins DEF MCInit
<1>2. ListInv /\ [MCNext]_allVars => ListInv'
  <2>1. SUFFICES ASSUME ListInv, [MCNext]_allVars PROVE ListInv'
    OBVIOUS
  <2>2. CASE List!Next
    BY <2>1, <2>2, ListStep
  <2>3. CASE UNCHANGED listVars
    BY <2>1, <2>3, ListStays
  <2>4. List!Next \/ UNCHANGED listVars
    BY <2>1 DEF MCNext, ListNext, SortNext, PollNext, SqlNext, GcNext, allVars
  <2> QED BY <2>2, <2>3, <2>4
<1>3. ListInv => OperationsAreExact
  BY ListIsExact DEF OperationsAreExact
<1> QED BY <1>1, <1>2, <1>3, PTL DEF MCSpec
=============================================================================
