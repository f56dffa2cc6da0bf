------------------------- MODULE SessionIndexQuery -------------------------
(***************************************************************************)
(* GET /api/sessions: a list is three statements on copilot_sessions with  *)
(* no transaction around them, while syncs commit.  The first two find the *)
(* sessions with a display time in the range, which is the time of the     *)
(* last update or, where that is not known, of the creation; the third     *)
(* fetches what the list shows of them.                                    *)
(***************************************************************************)
EXTENDS Integers, Sequences, FiniteSets

CONSTANTS
  SessionIds,   \* numbered in the order of the strings
  Contents,     \* what a row may hold: its two times and the terms it contains
  Terms,        \* search terms
  Now, Window,  \* the time of the request; thirty days
  DayLength,
  Params,       \* the from, to, limit and search that clients send
  MaxCommits,   \* bound: syncs that commit
  Nil, Malformed

ASSUME RowsAssumption ==
  /\ SessionIds \subseteq Nat /\ IsFiniteSet(SessionIds)
  /\ Contents \subseteq [updated : Nat \cup {Nil}, created : Nat \cup {Nil}, text : SUBSET Terms]
ASSUME TimesAssumption == Now \in Nat /\ Window \in 0 .. Now /\ DayLength \in Nat \ {0}

\* A date, or an instant.
Dates == [unit : {"day", "instant"}, at : Nat]
ASSUME ParamsAssumption ==
  Params \subseteq [from : Dates \cup {Nil, Malformed}, to : Dates \cup {Nil, Malformed},
                    limit : (Nat \ {0}) \cup {Nil, Malformed}, term : Terms \cup {Nil, Malformed}]
ASSUME NilAssumption == {Nil, Malformed} \cap (Nat \cup Terms \cup Dates) = {} /\ Nil # Malformed

VARIABLES
  rows,       \* copilot_sessions, by session_id
  commits,    \* how many syncs have committed
  pc,         \* the statement that is next, or how the call has ended
  asked,      \* the parameters of the call
  candidates, \* the candidates found so far
  answer,     \* the list: sessions, and by which commit their row was saved
  moments     \* the tables that there have been since the call began

call == <<pc, asked, candidates, answer>>
vars == <<rows, commits, call, moments>>

NoRow == [saved |-> Nil]
Row(content, n) == [updated |-> content.updated, created |-> content.created,
                    text |-> content.text, saved |-> n]

Running == pc \in {"updated", "created", "payloads"}

-----------------------------------------------------------------------------
(* SessionListParams                                                       *)

\* A day stands for its first instant in from, and for its last in to.
StartOf(date) == IF date.unit = "day" THEN date.at * DayLength ELSE date.at
EndOf(date) == IF date.unit = "day" THEN date.at * DayLength + DayLength - 1 ELSE date.at

\* Without dates the list is of the last thirty days.
IsUndated(p) == p.from = Nil /\ p.to = Nil
CriteriaOf(p) ==
  [from |-> IF IsUndated(p) THEN Now - Window ELSE IF p.from = Nil THEN Nil ELSE StartOf(p.from),
   to |-> IF IsUndated(p) THEN Now ELSE IF p.to = Nil THEN Nil ELSE EndOf(p.to),
   limit |-> p.limit, term |-> p.term]

\* A date that cannot be read, a range that ends before it begins, a limit that is
\* no positive number, a search too long or with control characters.
IsInverted(c) == c.from # Nil /\ c.to # Nil /\ c.from > c.to
IsInvalid(p) == Malformed \in {p.from, p.to, p.limit, p.term} \/ IsInverted(CriteriaOf(p))

criteria == CriteriaOf(asked)

-----------------------------------------------------------------------------
(* SessionIndexQuery                                                       *)

InScope(row) == row # NoRow /\ (criteria.term = Nil \/ criteria.term \in row.text)

\* Variant: the range is open at its start.
InOpenRange(time) ==
  /\ criteria.from # Nil => time > criteria.from
  /\ criteria.to # Nil => time <= criteria.to
InRange(time) ==
  /\ criteria.from # Nil => time >= criteria.from
  /\ criteria.to # Nil => time <= criteria.to

ByUpdate(row) == InScope(row) /\ row.updated # Nil /\ InRange(row.updated)

\* Variant: the search is left out of the second statement.
ByCreationUnsearched(row) ==
  row # NoRow /\ row.updated = Nil /\ row.created # Nil /\ InRange(row.created)
ByCreation(row) ==
  InScope(row) /\ row.updated = Nil /\ row.created # Nil /\ InRange(row.created)

\* A session that both statements find is a candidate twice.
Candidate(i, time, statement) == [id |-> i, time |-> time, statement |-> statement]

\* Which of two candidates of one session and time is first makes no difference.
Newest(a, b) ==
  IF a.time # b.time THEN a.time > b.time
  ELSE IF a.id # b.id THEN a.id < b.id ELSE a.statement < b.statement

\* In order, a candidate stands behind as many as are newer.
NewerThan(c, S) == Cardinality({d \in S : Newest(d, c)})
Ordered(S) ==
  [k \in 1 .. Cardinality(S) |-> CHOOSE c \in S : NewerThan(c, S) = k - 1]

First(S) == {c \in S : criteria.limit = Nil \/ NewerThan(c, S) < criteria.limit}

-----------------------------------------------------------------------------

Receive(p) ==
  /\ pc = "idle"
  /\ asked' = p
  /\ pc' = IF IsInvalid(p) THEN "invalid" ELSE "updated"
  /\ moments' = {rows}
  /\ UNCHANGED <<rows, commits, candidates, answer>>

PluckUpdated ==
  /\ pc = "updated" /\ pc' = "created"
  /\ candidates' = {Candidate(i, rows[i].updated, 1) : i \in {j \in SessionIds : ByUpdate(rows[j])}}
  /\ UNCHANGED <<rows, commits, asked, answer, moments>>

PluckCreated ==
  /\ pc = "created" /\ pc' = "payloads"
  /\ candidates' = candidates \cup
       {Candidate(i, rows[i].created, 2) : i \in {j \in SessionIds : ByCreation(rows[j])}}
  /\ UNCHANGED <<rows, commits, asked, answer, moments>>

\* The payloads are put in the order of the candidates.
PluckPayloads ==
  LET found == Ordered({c \in First(candidates) : rows[c.id] # NoRow}) IN
  /\ pc = "payloads" /\ pc' = "answered"
  /\ answer' = [k \in DOMAIN found |-> [id |-> found[k].id,
                                         saved |-> rows[found[k].id].saved]]
  /\ candidates' = {}
  /\ UNCHANGED <<rows, commits, asked, moments>>

Respond ==
  /\ pc \in {"answered", "invalid"} /\ pc' = "idle"
  /\ asked' = Nil /\ answer' = <<>> /\ moments' = {}
  /\ UNCHANGED <<rows, commits, candidates>>

\* A sync commits: it saves any of the sessions, and deletes none.
Commit ==
  /\ commits < MaxCommits /\ commits' = commits + 1
  /\ \E saved \in SUBSET SessionIds \ {{}} : \E content \in [saved -> Contents] :
       rows' = [i \in SessionIds |->
                  IF i \in saved THEN Row(content[i], commits') ELSE rows[i]]
  /\ moments' = IF Running THEN moments \cup {rows'} ELSE moments
  /\ UNCHANGED call

Init ==
  /\ rows \in [SessionIds -> {Row(content, 0) : content \in Contents} \cup {NoRow}]
  /\ commits = 0
  /\ pc = "idle" /\ asked = Nil /\ candidates = {} /\ answer = <<>> /\ moments = {}

Next ==
  \/ \E p \in Params : Receive(p)
  \/ PluckUpdated \/ PluckCreated \/ PluckPayloads \/ Respond \/ Commit

Spec == Init /\ [][Next]_vars

-----------------------------------------------------------------------------
(* Properties                                                              *)

DisplayTime(row) == IF row.updated # Nil THEN row.updated ELSE row.created
At(time, unit) == IF unit = "day" THEN time \div DayLength ELSE time
Matches(row) ==
  /\ row # NoRow /\ DisplayTime(row) # Nil
  /\ IsUndated(asked) => DisplayTime(row) \in (Now - Window) .. Now
  /\ asked.from # Nil => At(DisplayTime(row), asked.from.unit) >= asked.from.at
  /\ asked.to # Nil => At(DisplayTime(row), asked.to.unit) <= asked.to.at
  /\ asked.term \in row.text \cup {Nil}
Newer(table, i, j) == Newest(Candidate(i, DisplayTime(table[i]), 1),
                             Candidate(j, DisplayTime(table[j]), 1))
Listed == {answer[k].id : k \in DOMAIN answer}

\* When no sync commits during the call the list is that of the requirement: the
\* sessions whose display time is in the days or instants asked for, both included,
\* the newest first, cut at the limit.
QuietListsAreExact ==
  \A table \in moments : pc = "answered" /\ moments = {table} =>
    LET all == {i \in SessionIds : Matches(table[i])} IN
    /\ Listed \subseteq all
    /\ Len(answer) = IF asked.limit # Nil /\ asked.limit < Cardinality(all)
                     THEN asked.limit ELSE Cardinality(all)
    /\ \A j, k \in DOMAIN answer : j < k => Newer(table, answer[j].id, answer[k].id)
    /\ \A k \in DOMAIN answer, i \in all \ Listed : Newer(table, answer[k].id, i)

\* What is listed matched at a moment of the call, and is shown as it was then or
\* as a later sync left it; the limit holds in any case.
ListedSessionsMatched ==
  pc = "answered" =>
    /\ asked.limit # Nil => Len(answer) <= asked.limit
    /\ \A k \in DOMAIN answer : \E table \in moments :
         /\ Matches(table[answer[k].id])
         /\ answer[k].saved >= table[answer[k].id].saved

\* The row matched all the time, by one and the same of its two times.
Steady(i) ==
  \A s, t \in moments :
    /\ Matches(s[i])
    /\ s[i].updated = t[i].updated
    /\ s[i].updated = Nil => s[i].created = t[i].created

\* Syncs that commit during the call do not hide, double or displace a session that
\* they leave alone: it is listed once, before the older ones, and no older one is in
\* a short list in its place.  Only one whose update time appears or disappears is at
\* risk.
SteadySessionsKeepTheirPlaces ==
  pc = "answered" =>
    /\ asked.limit = Nil =>
         \A i \in SessionIds :
           Steady(i) => Cardinality({k \in DOMAIN answer : answer[k].id = i}) = 1
    /\ \A i, j \in SessionIds, table \in moments :
         Steady(i) /\ Steady(j) /\ Newer(table, i, j) =>
           \A k \in DOMAIN answer :
             answer[k].id = j => \E l \in 1 .. k - 1 : answer[l].id = i
=============================================================================
