----------------------------- MODULE QuestionPoll -----------------------------
(***************************************************************************)
(* The poller of stack-exchange-api: every quarter of an hour it fetches   *)
(* the page of the most recently active questions and prints those that    *)
(* are new, or more recently active, compared with the page before.        *)
(*                                                                         *)
(* The program reads the site once a round, in http_get; everything else   *)
(* in the round is its own, so a round is a step.  Dates are whole         *)
(* seconds: questions, and a question before and after a poll, may be      *)
(* active in the same one.                                                 *)
(***************************************************************************)
EXTENDS Integers, FiniteSets

CONSTANTS
  Questions, NULL,
  PageSize,   \* the URL's pagesize, not above MAX_UPDATE_SIZE
  MaxTime     \* bounds the site's clock

NoDate == -1

VARIABLES
  now,      \* the site's clock, in seconds
  date,     \* each question's last_activity_date; NoDate if it is not listed
  oldQs,    \* the dates of the questions of the last poll, or NULL
  printed,  \* history: the questions it printed
  since,    \* history: what went on at the site since the last http_get
  poll      \* history: that http_get, and what went on before it

vars == <<now, date, oldQs, printed, since, poll>>
program == <<oldQs, printed, poll>>

Quiet == [active |-> {}, gone |-> FALSE]

Init ==
  /\ now = 0 /\ date \in [Questions -> {NoDate, 0}]
  /\ oldQs = NULL
  /\ printed = {} /\ since = Quiet
  /\ poll = [before |-> Quiet, date |-> date, last |-> date,
             failed |-> FALSE, lastFailed |-> FALSE, first |-> TRUE]
-----------------------------------------------------------------------------
(* The site *)

Tick ==
  /\ now < MaxTime
  /\ now' = now + 1
  /\ UNCHANGED <<date, since, program>>

(* A question is asked, edited, answered or commented on. *)
Activity(q) ==
  /\ date' = [date EXCEPT ![q] = now]
  /\ since' = [since EXCEPT !.active = @ \cup {q}]
  /\ UNCHANGED <<now, program>>

(* A question is deleted, or loses the tag. *)
Unlist(q) ==
  /\ date[q] # NoDate
  /\ date' = [date EXCEPT ![q] = NoDate]
  /\ since' = [since EXCEPT !.gone = TRUE]
  /\ UNCHANGED <<now, program>>

Listed == {q \in Questions : date[q] # NoDate}

(* page=1, order=desc, sort=activity. *)
Pages ==
  {S \in SUBSET Listed :
     /\ Cardinality(S) <= PageSize
     /\ Cardinality(S) < PageSize => S = Listed
     /\ \A q \in S, u \in Listed \ S : date[q] >= date[u]}
-----------------------------------------------------------------------------
(* The program *)

(* Mutant: a question of the page before counts whatever its date. *)
se_has_update_always(q, newQs) == q \in DOMAIN oldQs => newQs[q] >= oldQs[q]

se_has_update(q, newQs) == q \in DOMAIN oldQs => newQs[q] > oldQs[q]

(* What se_check_for_updates prints; it is not called on the first poll. *)
Updates(newQs) == IF oldQs = NULL THEN {} ELSE {q \in DOMAIN newQs : se_has_update(q, newQs)}

(* A round of main's loop, with what se_load made of the answer. *)
Poll(newQs, failed) ==
  /\ printed' = Updates(newQs)
  /\ oldQs' = newQs
  /\ since' = Quiet
  /\ poll' = [before |-> since, date |-> date, last |-> poll.date,
              failed |-> failed, lastFailed |-> poll.failed, first |-> oldQs = NULL]
  /\ UNCHANGED <<now, date>>

PollAnswered == \E S \in Pages : Poll([q \in S |-> date[q]], FALSE)

(* No connection, a cut or a throttled answer: no JSON (the body may be a  *)
(* byte nobody wrote), or an object without items.  parse_se makes of each *)
(* an array of no questions, which is not NULL.                            *)
PollFails == Poll([q \in {} |-> NoDate], TRUE)
-----------------------------------------------------------------------------
Next ==
  \/ Tick
  \/ \E q \in Questions : Activity(q) \/ Unlist(q)
  \/ PollAnswered \/ PollFails

Spec == Init /\ [][Next]_vars
-----------------------------------------------------------------------------
(* From the second poll on, a question is printed exactly for activity     *)
(* since the poll before, except for what the program cannot tell:         *)
(*   - after a poll that failed the whole page is printed                  *)
(*     (stack-exchange-poll.c:163-166);                                    *)
(*   - a question that comes back to the page for want of others is        *)
(*     printed as a new one: one of them went, or has the same date;       *)
(*   - activity in the very second of the poll before is never printed.    *)
PrintedIsNews ==
  ~poll.first =>
    /\ \A q \in printed :
         \/ q \in poll.before.active
         \/ poll.lastFailed
         \/ poll.before.gone
         \/ \E u \in Questions \ {q} : poll.date[u] = poll.date[q]
    /\ \A q \in (DOMAIN oldQs \cap poll.before.active) \ printed :
         poll.date[q] = poll.last[q]
=============================================================================
