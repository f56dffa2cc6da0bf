------------------------ MODULE SessionIndexQueryProofs ------------------------
(***************************************************************************)
(* Theorems about SessionIndexQuery, for any sessions, rows and parameters,  *)
(* and any number of syncs that commit between its three statements; and     *)
(* about ListForms, for any drafts and texts.                                *)
(***************************************************************************)
EXTENDS ListForms, FiniteSetTheorems, SequenceTheorems, TLAPS

LEMMA IntervalSizes ==
  ASSUME NEW n \in Nat
  PROVE  /\ IsFiniteSet(1 .. n) /\ Cardinality(1 .. n) = n
         /\ IsFiniteSet(0 .. n - 1) /\ Cardinality(0 .. n - 1) = n
BY FS_Interval

-----------------------------------------------------------------------------
(* The order of the candidates                                             *)

Candidates == [id : SessionIds, time : Nat, statement : {1, 2}]

LEMMA CandidateFields ==
  ASSUME NEW c \in Candidates
  PROVE  /\ c.id \in SessionIds /\ c.id \in Nat /\ c.time \in Nat
         /\ c.statement \in {1, 2} /\ c.statement \in Nat
<1>1. c.id \in SessionIds /\ c.time \in Nat /\ c.statement \in {1, 2}
  BY DEF Candidates
<1>2. SessionIds \subseteq Nat
  BY RowsAssumption
<1>3. c.id \in Nat
  BY <1>1, <1>2, Zenon
<1>4. c.statement \in Nat
  BY <1>1, SMT
<1> QED BY <1>1, <1>3, <1>4

\* Newest is a strict total order.
LEMMA NewestOrders ==
  /\ \A c \in Candidates : ~Newest(c, c)
  /\ \A c, d \in Candidates : c # d => Newest(c, d) \/ Newest(d, c)
  /\ \A c, d, e \in Candidates : Newest(c, d) /\ Newest(d, e) => Newest(c, e)
<1>1. ASSUME NEW c \in Candidates PROVE ~Newest(c, c)
  BY CandidateFields DEF Newest
<1>2. ASSUME NEW c \in Candidates, NEW d \in Candidates, c # d
      PROVE  Newest(c, d) \/ Newest(d, c)
  <2>1. c.id # d.id \/ c.time # d.time \/ c.statement # d.statement
    BY <1>2 DEF Candidates
  <2> QED BY <2>1, CandidateFields DEF Newest
<1>3. ASSUME NEW c \in Candidates, NEW d \in Candidates, NEW e \in Candidates,
             Newest(c, d), Newest(d, e)
      PROVE  Newest(c, e)
  <2>1. /\ c.id \in Nat /\ c.time \in Nat /\ c.statement \in Nat
        /\ d.id \in Nat /\ d.time \in Nat /\ d.statement \in Nat
        /\ e.id \in Nat /\ e.time \in Nat /\ e.statement \in Nat
    BY CandidateFields
  <2> QED BY <1>3, <2>1 DEF Newest
<1> QED BY <1>1, <1>2, <1>3

\* The newer of two candidates has fewer before it.
LEMMA NewerThanOrders ==
  ASSUME NEW S \in SUBSET Candidates, IsFiniteSet(S)
  PROVE  /\ \A c \in S : NewerThan(c, S) \in 0 .. Cardinality(S) - 1
         /\ \A c, d \in S : Newest(c, d) <=> NewerThan(c, S) < NewerThan(d, S)
         /\ \A c, d \in S : NewerThan(c, S) = NewerThan(d, S) => c = d
<1> DEFINE before(c) == {d \in S : Newest(d, c)}
<1>0. \A c : NewerThan(c, S) = Cardinality(before(c))
  BY DEF NewerThan
<1>1. \A c : before(c) \in SUBSET S
  OBVIOUS
<1>2. \A c \in S : c \notin before(c)
  BY NewestOrders
<1>3. \A c, d \in S : Newest(c, d) => before(c) \subseteq before(d) /\ c \in before(d)
  BY NewestOrders
<1> HIDE DEF before
<1>4. \A c : IsFiniteSet(before(c)) /\ Cardinality(before(c)) \in Nat
  BY <1>1, FS_Subset, FS_CardinalityType
<1>5. Cardinality(S) \in Nat
  BY FS_CardinalityType
<1>6. ASSUME NEW c \in S PROVE NewerThan(c, S) \in 0 .. Cardinality(S) - 1
  <2>1. Cardinality(before(c)) <= Cardinality(S) /\ Cardinality(S) # Cardinality(before(c))
    BY <1>1, <1>2, FS_Subset
  <2> QED BY <1>0, <1>4, <1>5, <2>1
<1>7. ASSUME NEW c \in S, NEW d \in S, Newest(c, d) PROVE NewerThan(c, S) < NewerThan(d, S)
  <2>1. before(c) \in SUBSET before(d) /\ before(c) # before(d)
    BY <1>2, <1>3, <1>7
  <2>2. /\ Cardinality(before(c)) <= Cardinality(before(d))
        /\ Cardinality(before(d)) # Cardinality(before(c))
    BY <1>4, <2>1, FS_Subset
  <2> QED BY <1>0, <1>4, <2>2
<1>8. \A c \in S : NewerThan(c, S) \in Nat
  BY <1>0, <1>4
<1>9. ASSUME NEW c \in S, NEW d \in S, c # d PROVE Newest(c, d) \/ Newest(d, c)
  BY <1>9, NewestOrders
<1>10. ASSUME NEW c \in S, NEW d \in S, NewerThan(c, S) < NewerThan(d, S) PROVE Newest(c, d)
  <2>1. c # d /\ ~(NewerThan(d, S) < NewerThan(c, S))
    BY <1>8, <1>10
  <2> QED BY <1>7, <1>9, <2>1
<1>11. ASSUME NEW c \in S, NEW d \in S, NewerThan(c, S) = NewerThan(d, S) PROVE c = d
  <2>1. ~(NewerThan(c, S) < NewerThan(d, S)) /\ ~(NewerThan(d, S) < NewerThan(c, S))
    BY <1>8, <1>11
  <2> QED BY <1>7, <1>9, <2>1
<1> QED BY <1>6, <1>7, <1>10, <1>11

\* Every number below the size of a set is the number of those before one of them.
LEMMA EveryPlaceIsTaken ==
  ASSUME NEW S \in SUBSET Candidates, IsFiniteSet(S)
  PROVE  \A n \in 0 .. Cardinality(S) - 1 : \E c \in S : NewerThan(c, S) = n
<1> DEFINE T == 0 .. Cardinality(S) - 1
           f == [c \in S |-> NewerThan(c, S)]
<1>1. Cardinality(S) \in Nat
  BY FS_CardinalityType
<1>2. f \in Injection(S, T)
  <2>1. f \in [S -> T]
    BY NewerThanOrders
  <2>2. \A c, d \in S : f[c] = f[d] => c = d
    BY NewerThanOrders
  <2> QED BY <2>1, <2>2 DEF Injection, IsInjective
<1>3. IsFiniteSet(T) /\ Cardinality(T) = Cardinality(S)
  BY <1>1, IntervalSizes
<1>4. f \in Surjection(S, T)
  <2> HIDE DEF T, f
  <2> QED BY <1>2, <1>3, FS_Injection
<1> QED BY <1>4 DEF Surjection

\* What Ordered makes of a set: all of it, each once and in its place.
LEMMA OrderedFacts ==
  ASSUME NEW S \in SUBSET Candidates, IsFiniteSet(S)
  PROVE  /\ Cardinality(S) \in Nat
         /\ DOMAIN Ordered(S) = 1 .. Cardinality(S)
         /\ \A k \in 1 .. Cardinality(S) :
              Ordered(S)[k] \in S /\ NewerThan(Ordered(S)[k], S) = k - 1
         /\ \A c \in S : /\ NewerThan(c, S) + 1 \in 1 .. Cardinality(S)
                         /\ Ordered(S)[NewerThan(c, S) + 1] = c
<1>1. Cardinality(S) \in Nat
  BY FS_CardinalityType
<1>2. DOMAIN Ordered(S) = 1 .. Cardinality(S)
  BY DEF Ordered
<1>3. ASSUME NEW k \in 1 .. Cardinality(S)
      PROVE  Ordered(S)[k] \in S /\ NewerThan(Ordered(S)[k], S) = k - 1
  <2>1. k - 1 \in 0 .. Cardinality(S) - 1
    BY <1>1
  <2>2. \E c \in S : NewerThan(c, S) = k - 1
    BY <2>1, EveryPlaceIsTaken
  <2>3. Ordered(S)[k] = CHOOSE c \in S : NewerThan(c, S) = k - 1
    BY DEF Ordered
  <2> QED BY <2>2, <2>3
<1>4. ASSUME NEW c \in S
      PROVE  /\ NewerThan(c, S) + 1 \in 1 .. Cardinality(S)
             /\ Ordered(S)[NewerThan(c, S) + 1] = c
  <2>1. NewerThan(c, S) \in 0 .. Cardinality(S) - 1
    BY NewerThanOrders
  <2>2. PICK k \in 1 .. Cardinality(S) : k = NewerThan(c, S) + 1
    BY <1>1, <2>1
  <2>3. Ordered(S)[k] \in S /\ NewerThan(Ordered(S)[k], S) = NewerThan(c, S)
    BY <1>3, <2>1, <2>2
  <2>4. Ordered(S)[k] = c
    BY <2>3, NewerThanOrders
  <2> QED BY <2>2, <2>4
<1> QED BY <1>1, <1>2, <1>3, <1>4

-----------------------------------------------------------------------------
(* The rows that match                                                     *)

\* A time is in a day from its first instant to its last.
LEMMA DayFacts ==
  ASSUME NEW time \in Nat, NEW day \in Nat, NEW length \in Nat \ {0}
  PROVE  /\ time \div length >= day <=> time >= day * length
         /\ time \div length <= day <=> time <= day * length + length - 1
         /\ day * length \in Nat
<1> DEFINE q == time \div length
           r == time % length
<1>1. q \in Nat /\ r \in 0 .. length - 1 /\ time = length * q + r
  OBVIOUS
<1> HIDE DEF q, r
<1>2. ASSUME q >= day PROVE time >= day * length
  <2>1. PICK n \in Nat : q = day + n
    BY <1>1, <1>2
  <2>2. length * q = day * length + length * n /\ length * n \in Nat /\ day * length \in Nat
    BY <2>1
  <2> QED BY <1>1, <2>2
<1>3. ASSUME q < day PROVE time < day * length
  <2>1. PICK n \in Nat : day = q + 1 + n
    <3>1. day - q - 1 \in Nat /\ day = q + 1 + (day - q - 1)
      BY <1>1, <1>3
    <3> QED BY <3>1
  <2>2. day * length = length * q + length + length * n /\ length * n \in Nat /\ length * q \in Nat
    BY <1>1, <2>1
  <2> QED BY <1>1, <2>2
<1>4. ASSUME q <= day PROVE time <= day * length + length - 1
  <2>1. PICK n \in Nat : day = q + n
    <3>1. day - q \in Nat /\ day = q + (day - q)
      BY <1>1, <1>4
    <3> QED BY <3>1
  <2>2. day * length = length * q + length * n /\ length * n \in Nat /\ length * q \in Nat
    BY <1>1, <2>1
  <2> QED BY <1>1, <2>2
<1>5. ASSUME q > day PROVE time > day * length + length - 1
  <2>1. PICK n \in Nat : q = day + 1 + n
    <3>1. q - day - 1 \in Nat /\ q = day + 1 + (q - day - 1)
      BY <1>1, <1>5
    <3> QED BY <3>1
  <2>2. length * q = day * length + length + length * n /\ length * n \in Nat /\ day * length \in Nat
    BY <2>1
  <2> QED BY <1>1, <2>2
<1>6. day * length \in Nat
  OBVIOUS
<1>7. q >= day <=> time >= day * length
  BY <1>1, <1>2, <1>3, <1>6
<1>8. q <= day <=> time <= day * length + length - 1
  BY <1>1, <1>4, <1>5, <1>6
<1> QED BY <1>6, <1>7, <1>8 DEF q

\* A call that was accepted.
Accepted == asked \in Params /\ ~IsInvalid(asked)

LEMMA AskedFields ==
  ASSUME Accepted
  PROVE  /\ asked.from \in Dates \cup {Nil} /\ asked.to \in Dates \cup {Nil}
         /\ asked.limit \in (Nat \ {0}) \cup {Nil} /\ asked.term \in Terms \cup {Nil}
         /\ criteria.limit = asked.limit /\ criteria.term = asked.term
         /\ Nil \notin Nat /\ Nil \notin Terms /\ Nil \notin Dates
<1>1. /\ asked.from \in Dates \cup {Nil, Malformed} /\ asked.to \in Dates \cup {Nil, Malformed}
      /\ asked.limit \in (Nat \ {0}) \cup {Nil, Malformed}
      /\ asked.term \in Terms \cup {Nil, Malformed}
  BY ParamsAssumption DEF Accepted
<1>2. Malformed \notin {asked.from, asked.to, asked.limit, asked.term}
  BY DEF Accepted, IsInvalid
<1>3. Nil \notin Nat /\ Nil \notin Terms /\ Nil \notin Dates
  BY NilAssumption
<1>4. criteria.limit = asked.limit /\ criteria.term = asked.term
  BY DEF criteria, CriteriaOf
<1> QED BY <1>1, <1>2, <1>3, <1>4

\* The instants of the range are those of the days or instants asked for.
LEMMA RangeFacts ==
  ASSUME Accepted, NEW time \in Nat
  PROVE  InRange(time) <=>
           /\ IsUndated(asked) => time \in (Now - Window) .. Now
           /\ asked.from # Nil => At(time, asked.from.unit) >= asked.from.at
           /\ asked.to # Nil => At(time, asked.to.unit) <= asked.to.at
<1>1. Now \in Nat /\ Now - Window \in Nat /\ DayLength \in Nat \ {0}
  BY TimesAssumption
<1>2. ASSUME NEW date \in Dates
      PROVE  /\ StartOf(date) \in Nat /\ EndOf(date) \in Nat
             /\ time >= StartOf(date) <=> At(time, date.unit) >= date.at
             /\ time <= EndOf(date) <=> At(time, date.unit) <= date.at
  <2>1. date.at \in Nat
    BY DEF Dates
  <2>2. CASE date.unit = "day"
    <3>1. /\ StartOf(date) = date.at * DayLength
          /\ EndOf(date) = date.at * DayLength + DayLength - 1
          /\ At(time, date.unit) = time \div DayLength
      BY <2>2 DEF StartOf, EndOf, At
    <3>2. /\ time \div DayLength >= date.at <=> time >= date.at * DayLength
          /\ time \div DayLength <= date.at <=> time <= date.at * DayLength + DayLength - 1
          /\ date.at * DayLength \in Nat
      BY <1>1, <2>1, DayFacts
    <3>3. date.at * DayLength + DayLength - 1 \in Nat
      <4> DEFINE n == date.at * DayLength
      <4>1. n \in Nat
        BY <3>2
      <4> HIDE DEF n
      <4>2. n + DayLength - 1 \in Nat
        BY <1>1, <4>1
      <4> QED BY <4>2 DEF n
    <3> QED BY <3>1, <3>2, <3>3
  <2>3. CASE date.unit # "day"
    BY <2>1, <2>3 DEF StartOf, EndOf, At
  <2> QED BY <2>2, <2>3
<1>3. /\ criteria.from = IF IsUndated(asked) THEN Now - Window
                         ELSE IF asked.from = Nil THEN Nil ELSE StartOf(asked.from)
      /\ criteria.to = IF IsUndated(asked) THEN Now
                       ELSE IF asked.to = Nil THEN Nil ELSE EndOf(asked.to)
  BY DEF criteria, CriteriaOf
<1>4. CASE IsUndated(asked)
  <2>1. asked.from = Nil /\ asked.to = Nil
    BY <1>4 DEF IsUndated
  <2>2. criteria.from = Now - Window /\ criteria.to = Now /\ Nil \notin Nat
    BY <1>3, <1>4, AskedFields
  <2> QED BY <1>1, <1>4, <2>1, <2>2 DEF InRange
<1>5. CASE ~IsUndated(asked)
  <2>1. (criteria.from # Nil => time >= criteria.from)
        <=> (asked.from # Nil => At(time, asked.from.unit) >= asked.from.at)
    <3>1. CASE asked.from = Nil
      BY <1>3, <1>5, <3>1
    <3>2. CASE asked.from # Nil
      <4>1. asked.from \in Dates /\ Nil \notin Nat
        BY <3>2, AskedFields
      <4>2. criteria.from = StartOf(asked.from) /\ StartOf(asked.from) # Nil
        BY <1>2, <1>3, <1>5, <3>2, <4>1
      <4> QED BY <1>2, <3>2, <4>1, <4>2
    <3> QED BY <3>1, <3>2
  <2>2. (criteria.to # Nil => time <= criteria.to)
        <=> (asked.to # Nil => At(time, asked.to.unit) <= asked.to.at)
    <3>1. CASE asked.to = Nil
      BY <1>3, <1>5, <3>1
    <3>2. CASE asked.to # Nil
      <4>1. asked.to \in Dates /\ Nil \notin Nat
        BY <3>2, AskedFields
      <4>2. criteria.to = EndOf(asked.to) /\ EndOf(asked.to) # Nil
        BY <1>2, <1>3, <1>5, <3>2, <4>1
      <4> QED BY <1>2, <3>2, <4>1, <4>2
    <3> QED BY <3>1, <3>2
  <2> QED BY <1>5, <2>1, <2>2 DEF InRange
<1> QED BY <1>4, <1>5

-----------------------------------------------------------------------------
(* Tables and what is found in them                                        *)

RowTypes == {NoRow} \cup [updated : Nat \cup {Nil}, created : Nat \cup {Nil},
                         text : SUBSET Terms, saved : Nat]
Tables == [SessionIds -> RowTypes]

\* The statements find a row by one of its times when it matches, and only then.
LEMMA MatchFacts ==
  ASSUME Accepted, NEW row \in RowTypes
  PROVE  /\ Matches(row) <=> ByUpdate(row) \/ ByCreation(row)
         /\ ByUpdate(row) => /\ row # NoRow /\ row.updated \in Nat /\ ~ByCreation(row)
                            /\ DisplayTime(row) = row.updated
         /\ ByCreation(row) => /\ row # NoRow /\ row.updated = Nil /\ row.created \in Nat
                              /\ DisplayTime(row) = row.created
<1>0. Nil \notin Nat
  BY NilAssumption
<1>1. CASE row = NoRow
  BY <1>1 DEF Matches, ByUpdate, ByCreation, InScope
<1>2. CASE row # NoRow
  <2>1. row.updated \in Nat \cup {Nil} /\ row.created \in Nat \cup {Nil}
    BY <1>2 DEF RowTypes
  <2>2. InScope(row) <=> asked.term \in row.text \cup {Nil}
    BY <1>2, AskedFields DEF InScope
  <2>3. ByUpdate(row) => /\ row.updated \in Nat /\ ~ByCreation(row)
                         /\ DisplayTime(row) = row.updated
    BY <1>0, <2>1 DEF ByUpdate, ByCreation, DisplayTime
  <2>4. ByCreation(row) => /\ row.updated = Nil /\ row.created \in Nat
                           /\ DisplayTime(row) = row.created
    BY <1>0, <2>1 DEF ByCreation, DisplayTime
  <2>5. DisplayTime(row) # Nil => DisplayTime(row) \in Nat
    BY <2>1 DEF DisplayTime
  <2>6. Matches(row) <=> InScope(row) /\ DisplayTime(row) # Nil /\ InRange(DisplayTime(row))
    BY <1>2, <2>2, <2>5, RangeFacts DEF Matches
  <2>7. ByUpdate(row) \/ ByCreation(row)
        <=> InScope(row) /\ DisplayTime(row) # Nil /\ InRange(DisplayTime(row))
    BY <1>0, <2>1 DEF ByUpdate, ByCreation, DisplayTime
  <2> QED BY <1>2, <2>3, <2>4, <2>6, <2>7
<1> QED BY <1>1, <1>2

\* The candidates of the two statements, each in a table of its own.
UpdatedIn(s) == {Candidate(i, s[i].updated, 1) : i \in {j \in SessionIds : ByUpdate(s[j])}}
CreatedIn(t) == {Candidate(i, t[i].created, 2) : i \in {j \in SessionIds : ByCreation(t[j])}}
FoundBy(s, t) == UpdatedIn(s) \cup CreatedIn(t)

LEMMA FoundFacts ==
  ASSUME Accepted, NEW s \in Tables, NEW t \in Tables
  PROVE  /\ FoundBy(s, t) \in SUBSET Candidates /\ IsFiniteSet(FoundBy(s, t))
         /\ \A c \in FoundBy(s, t) :
              \/ ByUpdate(s[c.id]) /\ c = Candidate(c.id, s[c.id].updated, 1)
              \/ ByCreation(t[c.id]) /\ c = Candidate(c.id, t[c.id].created, 2)
<1>1. ASSUME NEW c \in UpdatedIn(s)
      PROVE  /\ c \in Candidates /\ ByUpdate(s[c.id]) /\ c.statement = 1
             /\ c = Candidate(c.id, s[c.id].updated, 1)
  <2>1. PICK i \in SessionIds : ByUpdate(s[i]) /\ c = Candidate(i, s[i].updated, 1)
    BY DEF UpdatedIn
  <2>2. s[i].updated \in Nat /\ c.id = i /\ c.statement = 1
    BY <2>1, MatchFacts DEF Tables, Candidate
  <2> QED BY <2>1, <2>2 DEF Candidate, Candidates
<1>2. ASSUME NEW c \in CreatedIn(t)
      PROVE  /\ c \in Candidates /\ ByCreation(t[c.id]) /\ c.statement = 2
             /\ c = Candidate(c.id, t[c.id].created, 2)
  <2>1. PICK i \in SessionIds : ByCreation(t[i]) /\ c = Candidate(i, t[i].created, 2)
    BY DEF CreatedIn
  <2>2. t[i].created \in Nat /\ c.id = i /\ c.statement = 2
    BY <2>1, MatchFacts DEF Tables, Candidate
  <2> QED BY <2>1, <2>2 DEF Candidate, Candidates
<1>3. IsFiniteSet(UpdatedIn(s)) /\ IsFiniteSet(CreatedIn(t))
  <2> DEFINE f == [c \in UpdatedIn(s) |-> c.id]
             g == [c \in CreatedIn(t) |-> c.id]
  <2>1. f \in Injection(UpdatedIn(s), SessionIds)
    <3>1. \A c \in UpdatedIn(s) : c.id \in SessionIds
      BY <1>1 DEF Candidates
    <3>2. \A c, d \in UpdatedIn(s) : c.id = d.id => c = d
      BY <1>1
    <3> QED BY <3>1, <3>2 DEF Injection, IsInjective
  <2>2. g \in Injection(CreatedIn(t), SessionIds)
    <3>1. \A c \in CreatedIn(t) : c.id \in SessionIds
      BY <1>2 DEF Candidates
    <3>2. \A c, d \in CreatedIn(t) : c.id = d.id => c = d
      BY <1>2
    <3> QED BY <3>1, <3>2 DEF Injection, IsInjective
  <2> HIDE DEF f, g
  <2> QED BY <2>1, <2>2, FS_Injection, RowsAssumption
<1>4. IsFiniteSet(FoundBy(s, t))
  BY <1>3, FS_Union DEF FoundBy
<1> QED BY <1>1, <1>2, <1>4 DEF FoundBy

\* The list that the third statement makes of candidates.
Kept(C, r) == {c \in First(C) : r[c.id] # NoRow}
AnswerOf(C, r) == [k \in DOMAIN Ordered(Kept(C, r)) |->
                     [id |-> Ordered(Kept(C, r))[k].id,
                      saved |-> r[Ordered(Kept(C, r))[k].id].saved]]

\* The list of a call with a statement in each of three tables.
ListFrom(s, t, r) == AnswerOf(FoundBy(s, t), r)

LEMMA AnswerFacts ==
  ASSUME NEW C \in SUBSET Candidates, IsFiniteSet(C), NEW r
  PROVE  LET K == Kept(C, r)
             A == AnswerOf(C, r)
         IN /\ K \in SUBSET C /\ K \in SUBSET Candidates /\ IsFiniteSet(K)
            /\ Cardinality(K) \in Nat
            /\ DOMAIN A = 1 .. Cardinality(K) /\ Len(A) = Cardinality(K)
            /\ \A k \in DOMAIN A : \E c \in K : /\ NewerThan(c, K) = k - 1 /\ A[k].id = c.id
                                               /\ A[k].saved = r[c.id].saved
            /\ \A c \in K : /\ NewerThan(c, K) + 1 \in DOMAIN A
                            /\ A[NewerThan(c, K) + 1].id = c.id
<1> DEFINE K == Kept(C, r)
           A == AnswerOf(C, r)
<1>1. K \in SUBSET C /\ K \in SUBSET Candidates
  BY DEF Kept, First
<1>2. IsFiniteSet(K)
  BY <1>1, FS_Subset
<1> HIDE DEF K
<1>3. /\ Cardinality(K) \in Nat
      /\ DOMAIN Ordered(K) = 1 .. Cardinality(K)
      /\ \A k \in 1 .. Cardinality(K) : Ordered(K)[k] \in K /\ NewerThan(Ordered(K)[k], K) = k - 1
      /\ \A c \in K : /\ NewerThan(c, K) + 1 \in 1 .. Cardinality(K)
                      /\ Ordered(K)[NewerThan(c, K) + 1] = c
  BY <1>1, <1>2, OrderedFacts
<1>4. A = [k \in 1 .. Cardinality(K) |->
             [id |-> Ordered(K)[k].id, saved |-> r[Ordered(K)[k].id].saved]]
  BY <1>3 DEF AnswerOf, K
<1>5. DOMAIN A = 1 .. Cardinality(K) /\ Len(A) = Cardinality(K)
  <2>1. DOMAIN A = 1 .. Cardinality(K)
    BY <1>4
  <2>2. A \in Seq({A[k] : k \in 1 .. Cardinality(K)})
    BY <1>3, <1>4
  <2> HIDE DEF A
  <2> QED BY <1>3, <2>1, <2>2
<1>6. \A k \in 1 .. Cardinality(K) : /\ A[k].id = Ordered(K)[k].id
                                   /\ A[k].saved = r[Ordered(K)[k].id].saved
  BY <1>4
<1> HIDE DEF A
<1>7. \A k \in DOMAIN A : \E c \in K : /\ NewerThan(c, K) = k - 1 /\ A[k].id = c.id
                                      /\ A[k].saved = r[c.id].saved
  BY <1>3, <1>5, <1>6
<1>8. \A c \in K : NewerThan(c, K) + 1 \in DOMAIN A /\ A[NewerThan(c, K) + 1].id = c.id
  BY <1>3, <1>5, <1>6
<1> QED BY <1>1, <1>2, <1>3, <1>5, <1>7, <1>8 DEF K, A

-----------------------------------------------------------------------------
(* The invariant                                                           *)

\* A later table has all the rows, none of them saved before.
Later(s, r) ==
  \A i \in SessionIds : s[i] # NoRow => r[i] # NoRow /\ r[i].saved >= s[i].saved

RowsAreSaved ==
  /\ rows \in Tables /\ commits \in Nat
  /\ \A i \in SessionIds : rows[i] # NoRow => rows[i].saved <= commits

\* The tables of a call were accepted with it, and the table of now is the latest.
MomentsAreInOrder ==
  /\ moments \in SUBSET Tables
  /\ Running => rows \in moments /\ \A s \in moments : Later(s, rows)

\* What has been found was found in tables of the call, each statement's in one.
CandidatesWereFound ==
  /\ Running \/ pc = "answered" => Accepted
  /\ pc = "invalid" => IsInvalid(asked)
  /\ pc = "created" => \E s \in moments : candidates = UpdatedIn(s)
  /\ pc = "payloads" => \E s, t \in moments : candidates = FoundBy(s, t)
  /\ pc = "answered" => \E s, t, r \in moments :
       answer = ListFrom(s, t, r) /\ \A m \in moments : Later(m, r)

QueryInvariant == RowsAreSaved /\ MomentsAreInOrder /\ CandidatesWereFound

LEMMA LaterFacts ==
  /\ \A s \in Tables : Later(s, s)
  /\ \A s, t, r \in Tables : Later(s, t) /\ Later(t, r) => Later(s, r)
<1>1. \A s \in Tables : \A i \in SessionIds : s[i] # NoRow => s[i].saved \in Nat
  BY DEF Tables, RowTypes
<1>2. \A s \in Tables : Later(s, s)
  BY <1>1 DEF Later
<1>3. ASSUME NEW s \in Tables, NEW t \in Tables, NEW r \in Tables, Later(s, t), Later(t, r)
      PROVE  Later(s, r)
  <2> SUFFICES ASSUME NEW i \in SessionIds, s[i] # NoRow
               PROVE  r[i] # NoRow /\ r[i].saved >= s[i].saved
    BY DEF Later
  <2>1. t[i] # NoRow /\ t[i].saved >= s[i].saved /\ r[i] # NoRow /\ r[i].saved >= t[i].saved
    BY <1>3 DEF Later
  <2> QED BY <1>1, <2>1
<1> QED BY <1>2, <1>3

\* A row that a sync saves.
LEMMA RowType ==
  ASSUME NEW content \in Contents, NEW n \in Nat
  PROVE  Row(content, n) \in RowTypes \ {NoRow} /\ Row(content, n).saved = n
<1>1. /\ content.updated \in Nat \cup {Nil} /\ content.created \in Nat \cup {Nil}
      /\ content.text \in SUBSET Terms
  BY RowsAssumption
<1>2. Row(content, n) \in RowTypes /\ Row(content, n).saved = n
  BY <1>1 DEF Row, RowTypes
<1>3. NoRow.saved = Nil /\ Nil \notin Nat
  BY NilAssumption DEF NoRow
<1> QED BY <1>2, <1>3

LEMMA QueryInit == Init => QueryInvariant
<1> SUFFICES ASSUME Init PROVE QueryInvariant
  OBVIOUS
<1>1. \A i \in SessionIds :
        \/ rows[i] = NoRow
        \/ rows[i] \in RowTypes /\ rows[i].saved = 0
  BY RowType DEF Init
<1>2. rows \in Tables
  BY <1>1 DEF Init, Tables, RowTypes
<1> QED BY <1>1, <1>2 DEF Init, QueryInvariant, RowsAreSaved, MomentsAreInOrder,
                          CandidatesWereFound, Running

\* What the steps of a call find depends on its parameters alone.
LEMMA SameAsked ==
  ASSUME asked' = asked
  PROVE  /\ Accepted' <=> Accepted
         /\ \A row : ByUpdate(row)' = ByUpdate(row) /\ ByCreation(row)' = ByCreation(row)
         /\ \A s, t : UpdatedIn(s)' = UpdatedIn(s) /\ FoundBy(s, t)' = FoundBy(s, t)
         /\ \A s, t, r : ListFrom(s, t, r)' = ListFrom(s, t, r)
<1>1. Accepted' <=> Accepted
  BY DEF Accepted
<1>2. criteria' = criteria
  BY DEF criteria
<1>3. \A row : ByUpdate(row)' = ByUpdate(row) /\ ByCreation(row)' = ByCreation(row)
  BY <1>2 DEF ByUpdate, ByCreation, InScope, InRange
<1>4. \A s : UpdatedIn(s)' = UpdatedIn(s) /\ CreatedIn(s)' = CreatedIn(s)
  BY <1>3 DEF UpdatedIn, CreatedIn
<1>5. ASSUME NEW s, NEW t, NEW r PROVE ListFrom(s, t, r)' = ListFrom(s, t, r)
  <2>1. FoundBy(s, t)' = FoundBy(s, t)
    BY <1>4 DEF FoundBy
  <2>2. First(FoundBy(s, t))' = First(FoundBy(s, t))
    BY <1>2, <2>1 DEF First
  <2>3. Kept(FoundBy(s, t), r)' = Kept(FoundBy(s, t), r)
    BY <2>2 DEF Kept
  <2> QED BY <2>3 DEF ListFrom, AnswerOf
<1> QED BY <1>1, <1>3, <1>4, <1>5 DEF FoundBy

LEMMA ReceiveStep ==
  ASSUME QueryInvariant, NEW p \in Params, Receive(p)
  PROVE  QueryInvariant'
<1>1. RowsAreSaved'
  BY DEF QueryInvariant, RowsAreSaved, Receive
<1>2. MomentsAreInOrder'
  BY LaterFacts DEF QueryInvariant, RowsAreSaved, MomentsAreInOrder, Receive
<1>3. CandidatesWereFound'
  BY DEF CandidatesWereFound, Receive, Accepted, Running
<1> QED BY <1>1, <1>2, <1>3 DEF QueryInvariant

LEMMA PluckUpdatedStep ==
  ASSUME QueryInvariant, PluckUpdated
  PROVE  QueryInvariant'
<1>1. RowsAreSaved' /\ MomentsAreInOrder'
  BY DEF QueryInvariant, RowsAreSaved, MomentsAreInOrder, PluckUpdated, Running
<1>2. candidates' = UpdatedIn(rows)' /\ rows' \in moments' /\ Accepted' /\ pc' = "created"
  <2>1. candidates' = UpdatedIn(rows) /\ asked' = asked /\ rows' = rows
    BY DEF PluckUpdated, UpdatedIn
  <2>2. Accepted'
    BY <2>1, SameAsked DEF QueryInvariant, CandidatesWereFound, PluckUpdated, Running
  <2>3. UpdatedIn(rows)' = UpdatedIn(rows)
    BY <2>1, SameAsked
  <2> QED BY <2>1, <2>2, <2>3 DEF QueryInvariant, MomentsAreInOrder, PluckUpdated, Running
<1> QED BY <1>1, <1>2 DEF QueryInvariant, CandidatesWereFound

LEMMA PluckCreatedStep ==
  ASSUME QueryInvariant, PluckCreated
  PROVE  QueryInvariant'
<1>1. RowsAreSaved' /\ MomentsAreInOrder'
  BY DEF QueryInvariant, RowsAreSaved, MomentsAreInOrder, PluckCreated, Running
<1>2. PICK s \in moments : candidates = UpdatedIn(s)
  BY DEF QueryInvariant, CandidatesWereFound, PluckCreated
<1>3. candidates' = FoundBy(s, rows)
  BY <1>2 DEF PluckCreated, FoundBy, CreatedIn
<1>4. asked' = asked /\ rows \in moments /\ moments' = moments /\ pc' = "payloads" /\ Accepted
  BY DEF QueryInvariant, CandidatesWereFound, MomentsAreInOrder, PluckCreated, Running
<1>5. CandidatesWereFound'
  BY <1>3, <1>4, SameAsked DEF CandidatesWereFound
<1> QED BY <1>1, <1>5 DEF QueryInvariant

LEMMA PluckPayloadsStep ==
  ASSUME QueryInvariant, PluckPayloads
  PROVE  QueryInvariant'
<1>1. RowsAreSaved' /\ MomentsAreInOrder'
  BY DEF QueryInvariant, RowsAreSaved, MomentsAreInOrder, PluckPayloads, Running
<1>2. PICK s, t \in moments : candidates = FoundBy(s, t)
  BY DEF QueryInvariant, CandidatesWereFound, PluckPayloads
<1>3. answer' = ListFrom(s, t, rows)
  BY <1>2 DEF PluckPayloads, ListFrom, AnswerOf, Kept
<1>4. /\ asked' = asked /\ rows \in moments /\ moments' = moments /\ pc' = "answered" /\ Accepted
      /\ \A m \in moments : Later(m, rows)
  BY DEF QueryInvariant, CandidatesWereFound, MomentsAreInOrder, PluckPayloads, Running
<1>5. CandidatesWereFound'
  BY <1>3, <1>4, SameAsked DEF CandidatesWereFound, Running
<1> QED BY <1>1, <1>5 DEF QueryInvariant

LEMMA CommitStep ==
  ASSUME QueryInvariant, Commit
  PROVE  QueryInvariant'
<1>1. commits \in Nat /\ commits' = commits + 1 /\ UNCHANGED call
  BY DEF Commit, QueryInvariant, RowsAreSaved
<1>2. PICK saved \in SUBSET SessionIds : \E content \in [saved -> Contents] :
        rows' = [i \in SessionIds |-> IF i \in saved THEN Row(content[i], commits') ELSE rows[i]]
  BY DEF Commit
<1>a. PICK content \in [saved -> Contents] :
        rows' = [i \in SessionIds |-> IF i \in saved THEN Row(content[i], commits') ELSE rows[i]]
  BY <1>2
<1>3. \A i \in SessionIds :
        \/ rows'[i] \in RowTypes \ {NoRow} /\ rows'[i].saved = commits'
        \/ rows'[i] = rows[i]
  BY <1>1, <1>a, RowType
<1>4. \A i \in SessionIds :
        rows[i] \in RowTypes /\ (rows[i] # NoRow => rows[i].saved \in Nat /\ rows[i].saved <= commits)
  BY DEF QueryInvariant, RowsAreSaved, Tables, RowTypes
<1>5. rows' \in Tables
  BY <1>a, <1>3, <1>4 DEF Tables
<1>6. RowsAreSaved'
  BY <1>1, <1>3, <1>4, <1>5 DEF RowsAreSaved
<1>7. Later(rows, rows')
  BY <1>1, <1>3, <1>4 DEF Later
<1>8. moments' = (IF Running THEN moments \cup {rows'} ELSE moments) /\ pc' = pc /\ asked' = asked
      /\ candidates' = candidates /\ answer' = answer
  BY DEF Commit, call
<1>9. MomentsAreInOrder'
  <2>1. moments' \in SUBSET Tables
    BY <1>5, <1>8 DEF QueryInvariant, MomentsAreInOrder
  <2>2. ASSUME Running PROVE \A s \in moments' : Later(s, rows')
    <3>1. \A s \in moments : s \in Tables /\ Later(s, rows)
      BY <2>2 DEF QueryInvariant, MomentsAreInOrder
    <3>2. rows \in Tables
      BY DEF QueryInvariant, RowsAreSaved
    <3> QED BY <1>5, <1>7, <1>8, <3>1, <3>2, LaterFacts
  <2> QED BY <1>8, <2>1, <2>2 DEF MomentsAreInOrder, Running
<1>10. CandidatesWereFound'
  <2>1. moments \subseteq moments' /\ (pc = "answered" => moments' = moments)
    BY <1>8 DEF Running
  <2>2. Running' <=> Running
    BY <1>8 DEF Running
  <2> QED BY <1>8, <2>1, <2>2, SameAsked DEF QueryInvariant, CandidatesWereFound
<1> QED BY <1>6, <1>9, <1>10 DEF QueryInvariant

\* QueryInvariant is inductive.
LEMMA QueryNext == QueryInvariant /\ [Next]_vars => QueryInvariant'
<1> SUFFICES ASSUME QueryInvariant, [Next]_vars PROVE QueryInvariant'
  OBVIOUS
<1>1. CASE Respond
  BY <1>1 DEF Respond, QueryInvariant, RowsAreSaved, MomentsAreInOrder, CandidatesWereFound, Running
<1>2. CASE UNCHANGED vars
  <2>1. asked' = asked /\ pc' = pc /\ candidates' = candidates /\ answer' = answer
        /\ moments' = moments /\ rows' = rows /\ commits' = commits
    BY <1>2 DEF vars, call
  <2>2. CandidatesWereFound'
    BY <2>1, SameAsked DEF QueryInvariant, CandidatesWereFound, Running
  <2> QED BY <2>1, <2>2 DEF QueryInvariant, RowsAreSaved, MomentsAreInOrder, Running
<1> QED BY <1>1, <1>2, ReceiveStep, PluckUpdatedStep, PluckCreatedStep, PluckPayloadsStep,
           CommitStep DEF Next

\* Every list is made of candidates that each statement found in a table of the call.
THEOREM QueryInvariantCorrect == Spec => []QueryInvariant
<1> QED BY QueryInit, QueryNext, PTL DEF Spec

-----------------------------------------------------------------------------
(* The limit                                                               *)

\* The cut leaves the newest, as many as the limit lets pass.
LEMMA FirstFacts ==
  ASSUME Accepted, NEW C \in SUBSET Candidates, IsFiniteSet(C)
  PROVE  /\ IsFiniteSet(First(C)) /\ First(C) \in SUBSET C
         /\ Cardinality(First(C)) =
              IF asked.limit # Nil /\ asked.limit < Cardinality(C)
              THEN asked.limit ELSE Cardinality(C)
         /\ asked.limit # Nil => Cardinality(First(C)) <= asked.limit
         /\ \A c \in First(C), d \in C \ First(C) : Newest(c, d)
         /\ \A c \in C, d \in First(C) : Newest(c, d) => c \in First(C)
<1> DEFINE F == First(C)
           size == IF asked.limit # Nil /\ asked.limit < Cardinality(C)
                   THEN asked.limit ELSE Cardinality(C)
           f == [c \in F |-> NewerThan(c, C)]
           T == 0 .. size - 1
<1>1. /\ asked.limit \in (Nat \ {0}) \cup {Nil} /\ Nil \notin Nat
      /\ Cardinality(C) \in Nat
  BY AskedFields, FS_CardinalityType
<1>2. \A c : c \in F <=> c \in C /\ (asked.limit # Nil => NewerThan(c, C) < asked.limit)
  BY AskedFields DEF First
<1>3. /\ \A c \in C : NewerThan(c, C) \in 0 .. Cardinality(C) - 1
      /\ \A c, d \in C : Newest(c, d) <=> NewerThan(c, C) < NewerThan(d, C)
      /\ \A c, d \in C : NewerThan(c, C) = NewerThan(d, C) => c = d
  BY NewerThanOrders
<1>4. F \in SUBSET C /\ IsFiniteSet(F)
  BY <1>2, FS_Subset
<1> HIDE DEF F
<1>5. size \in Nat /\ (asked.limit # Nil => size <= asked.limit)
  BY <1>1
<1>6. \A c \in F : NewerThan(c, C) \in T
  <2> SUFFICES ASSUME NEW c \in F PROVE NewerThan(c, C) \in T
    OBVIOUS
  <2>1. NewerThan(c, C) \in 0 .. Cardinality(C) - 1
    BY <1>3, <1>4
  <2>2. asked.limit # Nil => NewerThan(c, C) < asked.limit
    BY <1>2
  <2> QED BY <1>1, <2>1, <2>2
<1>7. \A n \in T : \E c \in F : NewerThan(c, C) = n
  <2> SUFFICES ASSUME NEW n \in T PROVE \E c \in F : NewerThan(c, C) = n
    OBVIOUS
  <2>1. n \in 0 .. Cardinality(C) - 1 /\ (asked.limit # Nil => n < asked.limit)
    BY <1>1
  <2>2. PICK c \in C : NewerThan(c, C) = n
    BY <2>1, EveryPlaceIsTaken
  <2> QED BY <1>2, <2>1, <2>2
<1>8. IsFiniteSet(T) /\ Cardinality(T) = size
  <2> HIDE DEF size
  <2> QED BY <1>5, IntervalSizes
<1> HIDE DEF size, T
<1>9. f \in Injection(F, T) /\ f \in Surjection(F, T)
  <2>1. f \in [F -> T] /\ \A c \in F : f[c] = NewerThan(c, C)
    BY <1>6
  <2>2. \A c, d \in F : f[c] = f[d] => c = d
    BY <1>3, <1>4, <2>1
  <2>3. \A n \in T : \E c \in F : f[c] = n
    BY <1>7, <2>1
  <2> HIDE DEF f
  <2> QED BY <2>1, <2>2, <2>3 DEF Injection, IsInjective, Surjection
<1> HIDE DEF f
<1>10. Cardinality(F) = size
  BY <1>4, <1>8, <1>9, FS_Injection
<1>11. ASSUME NEW c \in F, NEW d \in C \ F PROVE Newest(c, d)
  <2>1. asked.limit # Nil /\ ~(NewerThan(d, C) < asked.limit) /\ NewerThan(c, C) < asked.limit
    BY <1>2
  <2>2. NewerThan(c, C) < NewerThan(d, C)
    BY <1>1, <1>3, <1>4, <2>1
  <2> QED BY <1>3, <1>4, <2>2
<1>12. ASSUME NEW c \in C, NEW d \in F, Newest(c, d) PROVE c \in F
  <2>1. NewerThan(c, C) < NewerThan(d, C) /\ NewerThan(c, C) \in Nat /\ NewerThan(d, C) \in Nat
    BY <1>3, <1>4, <1>12
  <2>2. asked.limit # Nil => NewerThan(d, C) < asked.limit
    BY <1>2
  <2> QED BY <1>1, <1>2, <2>1, <2>2
<1> QED BY <1>4, <1>5, <1>10, <1>11, <1>12 DEF F, size

-----------------------------------------------------------------------------
(* ListedSessionsMatched                                                   *)

\* What a list holds was found in one table of the call and is shown from another
\* that is as late: whatever is listed has matched, and no list exceeds the limit.
LEMMA ListedMatched == QueryInvariant => ListedSessionsMatched
<1> SUFFICES ASSUME QueryInvariant, pc = "answered"
             PROVE  /\ asked.limit # Nil => Len(answer) <= asked.limit
                    /\ \A k \in DOMAIN answer : \E table \in moments :
                         /\ Matches(table[answer[k].id])
                         /\ answer[k].saved >= table[answer[k].id].saved
  BY DEF ListedSessionsMatched
<1>1. Accepted /\ moments \in SUBSET Tables
  BY DEF QueryInvariant, CandidatesWereFound, MomentsAreInOrder
<1>2. PICK s \in moments, t \in moments, r \in moments :
        answer = ListFrom(s, t, r) /\ \A m \in moments : Later(m, r)
  BY DEF QueryInvariant, CandidatesWereFound
<1> DEFINE C == FoundBy(s, t)
           K == Kept(C, r)
<1>3. /\ C \in SUBSET Candidates /\ IsFiniteSet(C)
      /\ \A c \in C : ByUpdate(s[c.id]) \/ ByCreation(t[c.id])
  BY <1>1, FoundFacts
<1>4. answer = AnswerOf(C, r)
  BY <1>2 DEF ListFrom
<1> HIDE DEF C
<1>5. /\ K \in SUBSET C /\ IsFiniteSet(K) /\ Cardinality(K) \in Nat
      /\ Len(answer) = Cardinality(K)
      /\ \A k \in DOMAIN answer : \E c \in K : answer[k].id = c.id /\ answer[k].saved = r[c.id].saved
  BY <1>3, <1>4, AnswerFacts
<1>6. K \in SUBSET First(C)
  BY DEF Kept
<1> HIDE DEF K
<1>7. ASSUME asked.limit # Nil PROVE Len(answer) <= asked.limit
  <2>1. IsFiniteSet(First(C)) /\ Cardinality(First(C)) <= asked.limit
    BY <1>1, <1>3, <1>7, FirstFacts
  <2>2. Cardinality(K) <= Cardinality(First(C)) /\ Cardinality(First(C)) \in Nat
    BY <1>6, <2>1, FS_Subset, FS_CardinalityType
  <2>3. asked.limit \in Nat
    BY <1>1, <1>7, AskedFields
  <2> QED BY <1>5, <2>1, <2>2, <2>3
<1>8. ASSUME NEW k \in DOMAIN answer
      PROVE  \E table \in moments : /\ Matches(table[answer[k].id])
                                    /\ answer[k].saved >= table[answer[k].id].saved
  <2>1. PICK c \in K : answer[k].id = c.id /\ answer[k].saved = r[c.id].saved
    BY <1>5
  <2>2. c.id \in SessionIds
    BY <1>3, <1>5, <2>1, CandidateFields
  <2>3. PICK m \in moments : ByUpdate(m[c.id]) \/ ByCreation(m[c.id])
    BY <1>3, <1>5, <2>1
  <2>4. m[c.id] \in RowTypes
    BY <1>1, <2>2, <2>3 DEF Tables
  <2>5. Matches(m[c.id]) /\ m[c.id] # NoRow
    BY <1>1, <2>3, <2>4, MatchFacts
  <2>6. r[c.id].saved >= m[c.id].saved
    BY <1>2, <2>2, <2>5 DEF Later
  <2> QED BY <2>1, <2>5, <2>6
<1> QED BY <1>7, <1>8

\* Whatever commits between the statements, a list shows no session that did not
\* match at a moment of the call, none older than it was then, and no more than the limit.
THEOREM ListedCorrect == Spec => []ListedSessionsMatched
<1> QED BY QueryInvariantCorrect, ListedMatched, PTL

-----------------------------------------------------------------------------
(* SteadySessionsKeepTheirPlaces                                           *)

\* A session whose row matches in both tables by one and the same time is one
\* candidate, of that time.
LEMMA SteadyCandidate ==
  ASSUME Accepted, NEW s \in Tables, NEW t \in Tables, NEW i \in SessionIds,
         Matches(s[i]), Matches(t[i]), s[i].updated = t[i].updated,
         s[i].updated = Nil => s[i].created = t[i].created
  PROVE  \E c \in FoundBy(s, t) :
           /\ c.id = i /\ c.time = DisplayTime(s[i]) /\ c.time \in Nat
           /\ \A d \in FoundBy(s, t) : d.id = i => d = c
<1>1. s[i] \in RowTypes /\ t[i] \in RowTypes
  BY DEF Tables
<1>2. /\ \A d \in FoundBy(s, t) :
           d.id = i => \/ ByUpdate(s[i]) /\ d = Candidate(i, s[i].updated, 1)
                       \/ ByCreation(t[i]) /\ d = Candidate(i, t[i].created, 2)
  BY FoundFacts
<1>3. CASE ByUpdate(s[i])
  <2>1. s[i].updated \in Nat /\ DisplayTime(s[i]) = s[i].updated
    BY <1>1, <1>3, MatchFacts
  <2>2. ~ByCreation(t[i])
    <3>1. Nil \notin Nat
      BY NilAssumption
    <3> QED BY <2>1, <3>1 DEF ByCreation
  <2>3. Candidate(i, s[i].updated, 1) \in FoundBy(s, t)
    BY <1>3 DEF FoundBy, UpdatedIn
  <2> QED BY <1>2, <2>1, <2>2, <2>3 DEF Candidate
<1>4. CASE ~ByUpdate(s[i])
  <2>1. ByCreation(s[i])
    BY <1>1, <1>4, MatchFacts
  <2>2. s[i].updated = Nil /\ s[i].created \in Nat /\ DisplayTime(s[i]) = s[i].created
    BY <1>1, <2>1, MatchFacts
  <2>3. ~ByUpdate(t[i])
    BY <2>2 DEF ByUpdate
  <2>4. ByCreation(t[i]) /\ t[i].created = s[i].created
    BY <1>1, <2>2, <2>3, MatchFacts
  <2>5. Candidate(i, t[i].created, 2) \in FoundBy(s, t)
    BY <2>4 DEF FoundBy, CreatedIn
  <2> QED BY <1>2, <1>4, <2>2, <2>4, <2>5 DEF Candidate
<1> QED BY <1>3, <1>4

\* A steady session matches in every table, at one display time.
LEMMA SteadyFacts ==
  ASSUME Accepted, moments \in SUBSET Tables, NEW i \in SessionIds, Steady(i),
         NEW s \in moments, NEW t \in moments
  PROVE  /\ Matches(s[i]) /\ s[i] # NoRow /\ DisplayTime(s[i]) = DisplayTime(t[i])
         /\ \E c \in FoundBy(s, t) :
              /\ c.id = i /\ c.time = DisplayTime(s[i]) /\ c.time \in Nat
              /\ \A d \in FoundBy(s, t) : d.id = i => d = c
<1>1. /\ Matches(s[i]) /\ Matches(t[i]) /\ s[i].updated = t[i].updated
      /\ s[i].updated = Nil => s[i].created = t[i].created
  BY DEF Steady
<1>2. DisplayTime(s[i]) = DisplayTime(t[i])
  BY <1>1 DEF DisplayTime
<1>3. s[i] # NoRow
  BY <1>1 DEF Matches
<1>4. s \in Tables /\ t \in Tables
  OBVIOUS
<1> QED BY <1>1, <1>2, <1>3, <1>4, SteadyCandidate

LEMMA SteadyPlaces == QueryInvariant => SteadySessionsKeepTheirPlaces
<1> SUFFICES ASSUME QueryInvariant, pc = "answered"
             PROVE  /\ asked.limit = Nil =>
                         \A i \in SessionIds :
                           Steady(i) => Cardinality({k \in DOMAIN answer : answer[k].id = i}) = 1
                    /\ \A i, j \in SessionIds, table \in moments :
                         Steady(i) /\ Steady(j) /\ Newer(table, i, j) =>
                           \A k \in DOMAIN answer :
                             answer[k].id = j => \E l \in 1 .. k - 1 : answer[l].id = i
  BY DEF SteadySessionsKeepTheirPlaces
<1>1. Accepted /\ moments \in SUBSET Tables
  BY DEF QueryInvariant, CandidatesWereFound, MomentsAreInOrder
<1>2. PICK s \in moments, t \in moments, r \in moments :
        answer = ListFrom(s, t, r) /\ \A m \in moments : Later(m, r)
  BY DEF QueryInvariant, CandidatesWereFound
<1> DEFINE C == FoundBy(s, t)
           K == Kept(C, r)
           IsOf(c, i) == c \in C /\ c.id = i /\ \A d \in C : d.id = i => d = c
<1>3. C \in SUBSET Candidates /\ IsFiniteSet(C)
  BY <1>1, FoundFacts
<1>4. answer = AnswerOf(C, r)
  BY <1>2 DEF ListFrom
<1>5. ASSUME NEW i \in SessionIds, Steady(i)
      PROVE  /\ r[i] # NoRow
             /\ \E c \in C : /\ IsOf(c, i) /\ c.time = DisplayTime(s[i]) /\ c.time \in Nat
                             /\ \A table \in moments : c.time = DisplayTime(table[i])
  <2>1. r[i] # NoRow /\ \A table \in moments : DisplayTime(s[i]) = DisplayTime(table[i])
    BY <1>1, <1>5, SteadyFacts
  <2>2. \E c \in C : /\ c.id = i /\ c.time = DisplayTime(s[i]) /\ c.time \in Nat
                     /\ \A d \in C : d.id = i => d = c
    BY <1>1, <1>5, SteadyFacts
  <2> QED BY <2>1, <2>2
<1> HIDE DEF C
<1>6. /\ K \in SUBSET C /\ K \in SUBSET Candidates /\ IsFiniteSet(K) /\ Cardinality(K) \in Nat
      /\ DOMAIN answer = 1 .. Cardinality(K)
      /\ \A k \in DOMAIN answer : \E c \in K : NewerThan(c, K) = k - 1 /\ answer[k].id = c.id
      /\ \A c \in K : /\ NewerThan(c, K) + 1 \in DOMAIN answer
                      /\ answer[NewerThan(c, K) + 1].id = c.id
  BY <1>3, <1>4, AnswerFacts
<1>7. \A c : c \in K <=> c \in First(C) /\ r[c.id] # NoRow
  BY DEF Kept
<1> HIDE DEF K
<1>8. /\ \A c, d \in K : Newest(c, d) <=> NewerThan(c, K) < NewerThan(d, K)
      /\ \A c \in K : NewerThan(c, K) \in 0 .. Cardinality(K) - 1
  BY <1>6, NewerThanOrders
<1>9. ASSUME asked.limit = Nil, NEW i \in SessionIds, Steady(i)
      PROVE  Cardinality({k \in DOMAIN answer : answer[k].id = i}) = 1
  <2>1. PICK c \in C : IsOf(c, i)
    BY <1>5, <1>9
  <2>2. c \in First(C)
    BY <1>1, <1>9, <2>1, AskedFields DEF First
  <2>3. c \in K
    BY <1>5, <1>7, <1>9, <2>1, <2>2
  <2>4. ASSUME NEW k \in DOMAIN answer, answer[k].id = i PROVE k = NewerThan(c, K) + 1
    <3>1. PICK d \in K : NewerThan(d, K) = k - 1 /\ answer[k].id = d.id
      BY <1>6
    <3>2. d = c
      BY <1>6, <2>1, <2>4, <3>1
    <3> QED BY <1>6, <3>1, <3>2
  <2>5. {k \in DOMAIN answer : answer[k].id = i} = {NewerThan(c, K) + 1}
    BY <1>6, <2>1, <2>3, <2>4
  <2> QED BY <2>5, FS_Singleton
<1>10. ASSUME NEW i \in SessionIds, NEW j \in SessionIds, NEW table \in moments,
              Steady(i), Steady(j), Newer(table, i, j),
              NEW k \in DOMAIN answer, answer[k].id = j
       PROVE  \E l \in 1 .. k - 1 : answer[l].id = i
  <2>1. PICK c \in C : IsOf(c, i) /\ c.time \in Nat /\ c.time = DisplayTime(table[i])
    BY <1>5, <1>10
  <2>2. PICK d \in C : IsOf(d, j) /\ d.time \in Nat /\ d.time = DisplayTime(table[j])
    BY <1>5, <1>10
  <2>3. d \in K /\ NewerThan(d, K) = k - 1
    BY <1>6, <1>10, <2>2
  <2>4. Newest(c, d)
    <3>1. i \in Nat /\ j \in Nat
      BY RowsAssumption
    <3>2. Newest(Candidate(i, c.time, 1), Candidate(j, d.time, 1))
      BY <1>10, <2>1, <2>2 DEF Newer
    <3>3. IF c.time # d.time THEN c.time > d.time ELSE i # j /\ i < j
      BY <3>1, <3>2 DEF Newest, Candidate
    <3> QED BY <2>1, <2>2, <3>3 DEF Newest
  <2>5. c \in K
    <3>1. d \in First(C)
      BY <1>7, <2>3
    <3>2. c \in First(C)
      BY <1>1, <1>3, <2>4, <3>1, FirstFacts
    <3> QED BY <1>5, <1>7, <1>10, <2>1, <3>2
  <2>6. NewerThan(c, K) < k - 1 /\ NewerThan(c, K) \in Nat /\ k \in Nat
    BY <1>6, <1>8, <2>3, <2>4, <2>5
  <2>7. answer[NewerThan(c, K) + 1].id = i
    BY <1>6, <2>1, <2>5
  <2>8. NewerThan(c, K) + 1 \in 1 .. k - 1
    BY <2>6
  <2> QED BY <2>7, <2>8
<1> QED BY <1>9, <1>10

\* A session that the syncs of a call leave alone, or change in nothing but what does
\* not count, is neither hidden, doubled nor overtaken by an older one.
THEOREM SteadyCorrect == Spec => []SteadySessionsKeepTheirPlaces
<1> QED BY QueryInvariantCorrect, SteadyPlaces, PTL

-----------------------------------------------------------------------------
(* QuietListsAreExact                                                      *)

\* In one table the candidates are the rows that match, each once, at its display time.
LEMMA QuietCandidates ==
  ASSUME Accepted, NEW table \in Tables
  PROVE  LET C == FoundBy(table, table)
             all == {i \in SessionIds : Matches(table[i])}
         IN /\ \A c \in C : /\ c.id \in all /\ table[c.id] # NoRow
                            /\ c.time = DisplayTime(table[c.id])
            /\ \A i \in all : \E c \in C : c.id = i
            /\ \A c, d \in C : c.id = d.id => c = d
            /\ IsFiniteSet(all) /\ Cardinality(C) = Cardinality(all)
<1> DEFINE C == FoundBy(table, table)
           all == {i \in SessionIds : Matches(table[i])}
           f == [c \in C |-> c.id]
<1>1. \A i \in SessionIds : table[i] \in RowTypes
  BY DEF Tables
<1>2. /\ C \in SUBSET Candidates
      /\ \A c \in C : \/ ByUpdate(table[c.id]) /\ c = Candidate(c.id, table[c.id].updated, 1)
                      \/ ByCreation(table[c.id]) /\ c = Candidate(c.id, table[c.id].created, 2)
  BY FoundFacts
<1>3. ASSUME NEW i \in all
      PROVE  \E c \in C : /\ c.id = i /\ c.time = DisplayTime(table[i])
                          /\ \A d \in C : d.id = i => d = c
  BY SteadyCandidate
<1>4. ASSUME NEW c \in C
      PROVE  c.id \in all /\ table[c.id] # NoRow /\ c.time = DisplayTime(table[c.id])
  <2>1. c.id \in SessionIds
    BY <1>2, CandidateFields
  <2>2. Matches(table[c.id]) /\ table[c.id] # NoRow
    BY <1>1, <1>2, <2>1, MatchFacts
  <2>3. c.id \in all
    BY <2>1, <2>2
  <2>4. PICK d \in C : d.time = DisplayTime(table[c.id]) /\ c = d
    BY <1>3, <2>3
  <2> QED BY <2>2, <2>3, <2>4
<1>5. \A c, d \in C : c.id = d.id => c = d
  BY <1>3, <1>4
<1>6. \A i \in all : \E c \in C : c.id = i
  BY <1>3
<1>7. IsFiniteSet(all)
  BY RowsAssumption, FS_Subset
<1> HIDE DEF C, all
<1>8. f \in Injection(C, all) /\ f \in Surjection(C, all)
  <2>1. f \in [C -> all] /\ \A c \in C : f[c] = c.id
    BY <1>4
  <2> HIDE DEF f
  <2> QED BY <1>5, <1>6, <2>1 DEF Injection, IsInjective, Surjection
<1> HIDE DEF f
<1>9. Cardinality(C) = Cardinality(all)
  BY <1>7, <1>8, FS_Injection
<1> QED BY <1>4, <1>5, <1>6, <1>7, <1>9 DEF C, all

LEMMA QuietExact == QueryInvariant => QuietListsAreExact
<1> SUFFICES ASSUME QueryInvariant, pc = "answered", NEW table \in moments, moments = {table}
             PROVE  LET all == {i \in SessionIds : Matches(table[i])} IN
                    /\ Listed \subseteq all
                    /\ Len(answer) = IF asked.limit # Nil /\ asked.limit < Cardinality(all)
                                     THEN asked.limit ELSE Cardinality(all)
                    /\ \A j, k \in DOMAIN answer :
                         j < k => Newer(table, answer[j].id, answer[k].id)
                    /\ \A k \in DOMAIN answer, i \in all \ Listed : Newer(table, answer[k].id, i)
  BY DEF QuietListsAreExact
<1> DEFINE C == FoundBy(table, table)
           K == Kept(C, table)
           all == {i \in SessionIds : Matches(table[i])}
<1>1. Accepted /\ table \in Tables
  BY DEF QueryInvariant, CandidatesWereFound, MomentsAreInOrder
<1>2. answer = AnswerOf(C, table)
  BY DEF QueryInvariant, CandidatesWereFound, ListFrom
<1>3. C \in SUBSET Candidates /\ IsFiniteSet(C)
  BY <1>1, FoundFacts
<1>4. /\ \A c \in C : c.id \in all /\ table[c.id] # NoRow /\ c.time = DisplayTime(table[c.id])
      /\ \A i \in all : \E c \in C : c.id = i
      /\ \A c, d \in C : c.id = d.id => c = d
      /\ Cardinality(C) = Cardinality(all)
  BY <1>1, QuietCandidates
<1> HIDE DEF C
<1>5. /\ K \in SUBSET C /\ K \in SUBSET Candidates /\ IsFiniteSet(K)
      /\ DOMAIN answer = 1 .. Cardinality(K) /\ Len(answer) = Cardinality(K)
      /\ Cardinality(K) \in Nat
      /\ \A k \in DOMAIN answer : \E c \in K : NewerThan(c, K) = k - 1 /\ answer[k].id = c.id
      /\ \A c \in K : /\ NewerThan(c, K) + 1 \in DOMAIN answer
                      /\ answer[NewerThan(c, K) + 1].id = c.id
  BY <1>2, <1>3, AnswerFacts
<1>6. /\ First(C) \in SUBSET C
      /\ Cardinality(First(C)) = IF asked.limit # Nil /\ asked.limit < Cardinality(C)
                                 THEN asked.limit ELSE Cardinality(C)
      /\ \A c \in First(C), d \in C \ First(C) : Newest(c, d)
  BY <1>1, <1>3, FirstFacts
<1>7. K = First(C)
  BY <1>4, <1>6 DEF Kept
<1> HIDE DEF K
<1>8. ASSUME NEW c \in C, NEW d \in C, Newest(c, d) PROVE Newer(table, c.id, d.id)
  <2>1. /\ c.id \in Nat /\ c.time \in Nat /\ d.id \in Nat /\ d.time \in Nat
        /\ c.time = DisplayTime(table[c.id]) /\ d.time = DisplayTime(table[d.id])
    BY <1>3, <1>4, CandidateFields
  <2>2. c.id # d.id
    <3>1. c # d
      BY <1>3, <1>8, NewestOrders
    <3> QED BY <1>4, <3>1
  <2>3. Newest(Candidate(c.id, c.time, 1), Candidate(d.id, d.time, 1))
    BY <1>8, <2>1, <2>2 DEF Newest, Candidate
  <2> QED BY <2>1, <2>3 DEF Newer
<1>9. Listed \subseteq all
  <2>1. ASSUME NEW k \in DOMAIN answer PROVE answer[k].id \in all
    BY <1>4, <1>5
  <2> HIDE DEF all
  <2> QED BY <2>1 DEF Listed
<1>10. ASSUME NEW j \in DOMAIN answer, NEW k \in DOMAIN answer, j < k
       PROVE  Newer(table, answer[j].id, answer[k].id)
  <2>1. PICK c \in K : NewerThan(c, K) = j - 1 /\ answer[j].id = c.id
    BY <1>5
  <2>2. PICK d \in K : NewerThan(d, K) = k - 1 /\ answer[k].id = d.id
    BY <1>5
  <2>3. NewerThan(c, K) < NewerThan(d, K)
    BY <1>5, <1>10, <2>1, <2>2
  <2>4. Newest(c, d)
    BY <1>5, <2>3, NewerThanOrders
  <2> QED BY <1>5, <1>8, <2>1, <2>2, <2>4
<1>11. ASSUME NEW k \in DOMAIN answer, NEW i \in all \ Listed
       PROVE  Newer(table, answer[k].id, i)
  <2>1. PICK c \in K : answer[k].id = c.id
    BY <1>5
  <2>2. PICK d \in C : d.id = i
    BY <1>4
  <2>3. d \notin K
    BY <1>5, <1>11, <2>2 DEF Listed
  <2>4. Newest(c, d)
    BY <1>6, <1>7, <2>1, <2>2, <2>3
  <2> QED BY <1>5, <1>8, <2>1, <2>2, <2>4
<1> HIDE DEF all
<1>12. Len(answer) = IF asked.limit # Nil /\ asked.limit < Cardinality(all)
                     THEN asked.limit ELSE Cardinality(all)
  BY <1>4, <1>5, <1>6, <1>7
<1> QED BY <1>9, <1>10, <1>11, <1>12 DEF all

\* A list that no sync disturbs is what the requirement says: the sessions whose
\* display time is in the range, the newest first, as many as the limit lets pass.
THEOREM QuietListsCorrect == Spec => []QuietListsAreExact
<1> QED BY QueryInvariantCorrect, QuietExact, PTL

-----------------------------------------------------------------------------
(* What is typed and what is read of it                                    *)

\* The places of a set of numbers count from 1 to its size, in order.
LEMMA PlaceFacts ==
  ASSUME NEW S \in SUBSET (Nat \ {0}), IsFiniteSet(S)
  PROVE  /\ Cardinality(S) \in Nat
         /\ \A n \in Nat : PlaceOf(n, S) \in 0 .. Cardinality(S)
         /\ \A i \in S : PlaceOf(i, S) \in 1 .. Cardinality(S)
         /\ \A i, j \in S : i < j <=> PlaceOf(i, S) < PlaceOf(j, S)
         /\ \A i, j \in S : PlaceOf(i, S) = PlaceOf(j, S) => i = j
         /\ \A k \in 1 .. Cardinality(S) : \E i \in S : PlaceOf(i, S) = k
         /\ \A i \in S : i + 1 \in S => PlaceOf(i + 1, S) = PlaceOf(i, S) + 1
<1> DEFINE upTo(n) == S \cap (1 .. n)
           T == 1 .. Cardinality(S)
           f == [i \in S |-> PlaceOf(i, S)]
<1>1. Cardinality(S) \in Nat
  BY FS_CardinalityType
<1>2. \A n : PlaceOf(n, S) = Cardinality(upTo(n))
  BY DEF PlaceOf
<1>3. \A n : upTo(n) \in SUBSET S
  OBVIOUS
<1>4. \A i \in S : i \in upTo(i)
  OBVIOUS
<1>5. \A i, j \in S : i < j => upTo(i) \in SUBSET upTo(j) /\ j \notin upTo(i)
  OBVIOUS
<1>6. \A i \in S : i + 1 \in S => upTo(i + 1) = upTo(i) \cup {i + 1} /\ i + 1 \notin upTo(i)
  OBVIOUS
<1> HIDE DEF upTo
<1>7. \A n : /\ IsFiniteSet(upTo(n)) /\ Cardinality(upTo(n)) \in Nat
             /\ Cardinality(upTo(n)) <= Cardinality(S)
  BY <1>3, FS_Subset, FS_CardinalityType
<1>8. \A n \in Nat : PlaceOf(n, S) \in 0 .. Cardinality(S)
  BY <1>1, <1>2, <1>7
<1>9. ASSUME NEW i \in S PROVE PlaceOf(i, S) \in 1 .. Cardinality(S)
  <2>1. Cardinality(upTo(i)) # 0
    BY <1>4, <1>7, FS_EmptySet
  <2> QED BY <1>1, <1>2, <1>7, <2>1
<1>10. ASSUME NEW i \in S, NEW j \in S, i < j PROVE PlaceOf(i, S) < PlaceOf(j, S)
  <2>1. upTo(i) \in SUBSET upTo(j) /\ upTo(i) # upTo(j)
    BY <1>4, <1>5, <1>10
  <2>2. /\ Cardinality(upTo(i)) <= Cardinality(upTo(j))
        /\ Cardinality(upTo(j)) # Cardinality(upTo(i))
    BY <1>7, <2>1, FS_Subset
  <2> QED BY <1>2, <1>7, <2>2
<1>11. \A i, j \in S : i < j <=> PlaceOf(i, S) < PlaceOf(j, S)
  BY <1>9, <1>10
<1>12. \A i, j \in S : PlaceOf(i, S) = PlaceOf(j, S) => i = j
  BY <1>9, <1>10
<1>13. f \in Injection(S, T)
  <2>1. f \in [S -> T] /\ \A i \in S : f[i] = PlaceOf(i, S)
    BY <1>9
  <2> HIDE DEF f
  <2> QED BY <1>12, <2>1 DEF Injection, IsInjective
<1>14. IsFiniteSet(T) /\ Cardinality(T) = Cardinality(S)
  BY <1>1, IntervalSizes
<1>15. f \in Surjection(S, T)
  <2> HIDE DEF f, T
  <2> QED BY <1>13, <1>14, FS_Injection
<1>16. ASSUME NEW k \in 1 .. Cardinality(S) PROVE \E i \in S : PlaceOf(i, S) = k
  <2>1. PICK i \in S : f[i] = k
    BY <1>15 DEF Surjection
  <2> QED BY <2>1
<1>17. ASSUME NEW i \in S, i + 1 \in S PROVE PlaceOf(i + 1, S) = PlaceOf(i, S) + 1
  <2>1. Cardinality(upTo(i) \cup {i + 1}) = Cardinality(upTo(i)) + 1
    BY <1>6, <1>7, <1>17, FS_AddElement
  <2> QED BY <1>2, <1>6, <1>17, <2>1
<1> QED BY <1>1, <1>8, <1>9, <1>11, <1>12, <1>16, <1>17

\* A squeezed text, place by place.
LEMMA SqueezedFacts ==
  ASSUME NEW text \in Seq(Characters), NEW spaces
  PROVE  LET kept == KeptPlaces(text, spaces)
             term == Squeezed(text, spaces)
         IN /\ kept \in SUBSET (DOMAIN text) /\ kept \in SUBSET (Nat \ {0}) /\ IsFiniteSet(kept)
            /\ Cardinality(kept) \in Nat /\ Cardinality(kept) <= Len(text)
            /\ DOMAIN term = 1 .. Cardinality(kept) /\ Len(term) = Cardinality(kept)
            /\ term \in Seq(Characters)
            /\ \A k \in 1 .. Cardinality(kept) : \E i \in kept :
                 /\ PlaceOf(i, kept) = k
                 /\ term[k] = IF IsWord(text, i, spaces) THEN text[i] ELSE "blank"
<1> DEFINE kept == KeptPlaces(text, spaces)
           term == Squeezed(text, spaces)
           size == Cardinality(kept)
<1>1. DOMAIN text = 1 .. Len(text) /\ Len(text) \in Nat
  OBVIOUS
<1>2. kept \in SUBSET (DOMAIN text)
  BY DEF KeptPlaces
<1>3. IsFiniteSet(DOMAIN text) /\ Cardinality(DOMAIN text) = Len(text)
  BY <1>1, IntervalSizes
<1>4. kept \in SUBSET (Nat \ {0})
  BY <1>1, <1>2
<1>5. term = [k \in 1 .. size |->
                LET i == CHOOSE j \in kept : PlaceOf(j, kept) = k
                IN IF IsWord(text, i, spaces) THEN text[i] ELSE "blank"]
  BY DEF Squeezed
<1> HIDE DEF kept, term
<1>6. IsFiniteSet(kept) /\ size <= Len(text) /\ size \in Nat
  BY <1>2, <1>3, FS_Subset, FS_CardinalityType
<1>7. ASSUME NEW k \in 1 .. size
      PROVE  \E i \in kept : /\ PlaceOf(i, kept) = k
                             /\ term[k] = IF IsWord(text, i, spaces) THEN text[i] ELSE "blank"
  <2> DEFINE i == CHOOSE j \in kept : PlaceOf(j, kept) = k
  <2>1. \E j \in kept : PlaceOf(j, kept) = k
    BY <1>4, <1>6, PlaceFacts
  <2>2. i \in kept /\ PlaceOf(i, kept) = k
    BY <2>1
  <2>3. term[k] = IF IsWord(text, i, spaces) THEN text[i] ELSE "blank"
    BY <1>5
  <2> HIDE DEF i
  <2> QED BY <2>2, <2>3
<1>8. DOMAIN term = 1 .. size
  BY <1>5
<1>9. \A k \in 1 .. size : term[k] \in Characters
  <2> SUFFICES ASSUME NEW k \in 1 .. size PROVE term[k] \in Characters
    OBVIOUS
  <2>1. PICK i \in kept : term[k] = IF IsWord(text, i, spaces) THEN text[i] ELSE "blank"
    BY <1>7
  <2>2. text[i] \in Characters
    BY <1>2
  <2> QED BY <2>1, <2>2 DEF Characters
<1>10. term \in Seq(Characters)
  <2>1. term = [k \in 1 .. size |-> term[k]]
    BY <1>5
  <2> HIDE DEF size
  <2>2. term \in [1 .. size -> Characters]
    BY <1>8, <1>9, <2>1
  <2> QED BY <1>6, <2>2 DEF size
<1>11. Len(term) = size
  <2> HIDE DEF size
  <2> QED BY <1>6, <1>8, <1>10 DEF size
<1> QED BY <1>2, <1>4, <1>6, <1>7, <1>8, <1>10, <1>11 DEF kept, term

\* A text that is squeezed has nothing left to squeeze: the API reads of a term what
\* the form has made of it.
LEMMA SqueezedTwice ==
  ASSUME NEW text \in Seq(Characters)
  PROVE  Squeezed(Squeezed(text, {"blank", "wide"}), {"blank"})
           = Squeezed(text, {"blank", "wide"})
<1> DEFINE spaces == {"blank", "wide"}
           S == KeptPlaces(text, spaces)
           u == Squeezed(text, spaces)
           n == Cardinality(S)
           again == KeptPlaces(u, {"blank"})
<1>1. /\ S \in SUBSET (DOMAIN text) /\ S \in SUBSET (Nat \ {0}) /\ IsFiniteSet(S) /\ n \in Nat
      /\ DOMAIN u = 1 .. n /\ u \in Seq(Characters)
      /\ \A k \in 1 .. n : \E i \in S :
           PlaceOf(i, S) = k /\ u[k] = IF IsWord(text, i, spaces) THEN text[i] ELSE "blank"
  BY SqueezedFacts
<1>2. /\ \A i \in S : PlaceOf(i, S) \in 1 .. n
      /\ \A i, j \in S : i < j <=> PlaceOf(i, S) < PlaceOf(j, S)
      /\ \A i, j \in S : PlaceOf(i, S) = PlaceOf(j, S) => i = j
      /\ \A i \in S : i + 1 \in S => PlaceOf(i + 1, S) = PlaceOf(i, S) + 1
  BY <1>1, PlaceFacts
<1>3. \A i : i \in S <=>
        /\ i \in DOMAIN text
        /\ \/ IsWord(text, i, spaces)
           \/ /\ i > 1 /\ IsWord(text, i - 1, spaces)
              /\ \E j \in DOMAIN text : j > i /\ IsWord(text, j, spaces)
  BY DEF KeptPlaces
<1>4. DOMAIN text = 1 .. Len(text) /\ Len(text) \in Nat
  OBVIOUS
<1> HIDE DEF S, u
<1>5. ASSUME NEW i \in S PROVE u[PlaceOf(i, S)] = IF IsWord(text, i, spaces) THEN text[i] ELSE "blank"
  <2>1. PlaceOf(i, S) \in 1 .. n
    BY <1>2
  <2>2. PICK j \in S : /\ PlaceOf(j, S) = PlaceOf(i, S)
                       /\ u[PlaceOf(i, S)] = IF IsWord(text, j, spaces) THEN text[j] ELSE "blank"
    BY <1>1, <2>1
  <2>3. j = i
    BY <1>2, <2>2
  <2> QED BY <2>2, <2>3
<1>6. ASSUME NEW i \in S, IsWord(text, i, spaces) PROVE IsWord(u, PlaceOf(i, S), {"blank"})
  BY <1>5, <1>6 DEF IsWord
<1>7. again = 1 .. n
  <2>1. again \subseteq 1 .. n
    BY <1>1 DEF KeptPlaces
  <2>2. ASSUME NEW k \in 1 .. n PROVE k \in again
    <3>1. PICK i \in S : PlaceOf(i, S) = k
      BY <1>1
    <3>2. CASE IsWord(text, i, spaces)
      <4>1. IsWord(u, k, {"blank"})
        BY <1>6, <3>1, <3>2
      <4> QED BY <1>1, <4>1 DEF KeptPlaces
    <3>3. CASE ~IsWord(text, i, spaces)
      <4>1. i > 1 /\ IsWord(text, i - 1, spaces)
        BY <1>3, <3>3
      <4>2. PICK j \in DOMAIN text : j > i /\ IsWord(text, j, spaces)
        BY <1>3, <3>3
      <4>3. i \in Nat /\ i - 1 \in DOMAIN text
        BY <1>1, <1>4, <4>1
      <4>4. i - 1 \in S /\ j \in S
        BY <1>3, <4>1, <4>2, <4>3
      <4>5. PlaceOf(i - 1, S) = k - 1 /\ k - 1 \in 1 .. n
        <5>1. (i - 1) + 1 = i
          BY <4>3
        <5>2. k = PlaceOf(i - 1, S) + 1 /\ PlaceOf(i - 1, S) \in 1 .. n
          BY <1>2, <3>1, <4>4, <5>1
        <5> QED BY <1>1, <5>2
      <4>6. PlaceOf(j, S) > k /\ PlaceOf(j, S) \in 1 .. n
        BY <1>2, <3>1, <4>2, <4>4
      <4>7. IsWord(u, k - 1, {"blank"})
        BY <1>6, <4>1, <4>4, <4>5
      <4>8. IsWord(u, PlaceOf(j, S), {"blank"})
        BY <1>6, <4>2, <4>4
      <4>9. k > 1
        BY <4>5
      <4> QED BY <1>1, <4>6, <4>7, <4>8, <4>9 DEF KeptPlaces
    <3> QED BY <3>2, <3>3
  <2> HIDE DEF again
  <2> QED BY <2>1, <2>2
<1>8. /\ Cardinality(again) = n
      /\ \A k \in 1 .. n : PlaceOf(k, again) = k
  <2>1. \A k \in 1 .. n : again \cap (1 .. k) = 1 .. k
    BY <1>1, <1>7
  <2>2. \A k \in 1 .. n : k \in Nat /\ Cardinality(1 .. k) = k
    BY IntervalSizes
  <2>3. Cardinality(1 .. n) = n
    BY <1>1, IntervalSizes
  <2> HIDE DEF again, n
  <2> QED BY <1>7, <2>1, <2>2, <2>3 DEF PlaceOf
<1>9. /\ DOMAIN Squeezed(u, {"blank"}) = 1 .. Cardinality(again)
      /\ Squeezed(u, {"blank"}) \in Seq(Characters)
      /\ \A k \in 1 .. Cardinality(again) : \E i \in again :
           /\ PlaceOf(i, again) = k
           /\ Squeezed(u, {"blank"})[k] = IF IsWord(u, i, {"blank"}) THEN u[i] ELSE "blank"
  BY <1>1, SqueezedFacts
<1> HIDE DEF again, n
<1>10. ASSUME NEW k \in 1 .. n, NEW i \in again, PlaceOf(i, again) = k
       PROVE  (IF IsWord(u, i, {"blank"}) THEN u[i] ELSE "blank") = u[k]
  <2>1. i = k
    BY <1>7, <1>8, <1>10
  <2> QED BY <2>1 DEF IsWord
<1>11. \A k \in 1 .. n : Squeezed(u, {"blank"})[k] = u[k]
  <2> SUFFICES ASSUME NEW k \in 1 .. n PROVE Squeezed(u, {"blank"})[k] = u[k]
    OBVIOUS
  <2>1. PICK i \in again :
          /\ PlaceOf(i, again) = k
          /\ Squeezed(u, {"blank"})[k] = IF IsWord(u, i, {"blank"}) THEN u[i] ELSE "blank"
    BY <1>8, <1>9
  <2> QED BY <1>10, <2>1
<1>12. Squeezed(u, {"blank"}) = u
  <2> DEFINE v == Squeezed(u, {"blank"})
  <2>1. v \in Seq(Characters) /\ u \in Seq(Characters) /\ DOMAIN v = 1 .. n /\ DOMAIN u = 1 .. n
        /\ n \in Nat
    BY <1>1, <1>8, <1>9
  <2> HIDE DEF v
  <2>2. Len(v) = n /\ Len(u) = n
    BY <2>1
  <2>3. \A k \in 1 .. Len(v) : v[k] = u[k]
    BY <1>11, <2>2 DEF v
  <2> QED BY <2>1, <2>2, <2>3, SeqEqual DEF v
<1> QED BY <1>12 DEF u

LEMMA ShiftedSet ==
  ASSUME NEW X \in SUBSET Nat, IsFiniteSet(X), NEW d \in Nat
  PROVE  LET Y == {x + d : x \in X} IN IsFiniteSet(Y) /\ Cardinality(Y) = Cardinality(X)
<1> DEFINE Y == {x + d : x \in X}
           f == [x \in X |-> x + d]
<1>1. f \in Injection(X, Y) /\ f \in Surjection(X, Y)
  <2>1. f \in [X -> Y] /\ \A x \in X : f[x] = x + d
    OBVIOUS
  <2>2. \A x, y \in X : f[x] = f[y] => x = y
    BY <2>1
  <2>3. \A y \in Y : \E x \in X : f[x] = y
    BY <2>1
  <2> HIDE DEF f, Y
  <2> QED BY <2>1, <2>2, <2>3 DEF Injection, IsInjective, Surjection
<1> HIDE DEF f, Y
<1>2. IsFiniteSet(Y) /\ Cardinality(Y) = Cardinality(X)
  BY <1>1, FS_Surjection
<1> QED BY <1>2 DEF Y

LEMMA PartsOfText ==
  ASSUME NEW text, NEW i \in 1 .. Len(text), NEW j \in 1 .. Len(text)
  PROVE  SubSeq(text, i, j) \in Parts(text)
  BY DEF Parts

\* What is kept of a part of a text is kept of the text: a part that is squeezed is a
\* part of the text that is squeezed, or nothing.
LEMMA SqueezedPart ==
  ASSUME NEW text \in Seq(Characters), NEW part \in Parts(text), NEW spaces
  PROVE  /\ part \in Seq(Characters)
         /\ \/ Squeezed(part, spaces) = <<>>
            \/ Squeezed(part, spaces) \in Parts(Squeezed(text, spaces))
<1>0. PICK a \in 1 .. Len(text), b \in 1 .. Len(text) : part = SubSeq(text, a, b)
  BY DEF Parts
<1>1. /\ part \in Seq(Characters) /\ DOMAIN part = 1 .. Len(part) /\ Len(part) \in Nat
      /\ \A x \in DOMAIN part : a + x - 1 \in DOMAIN text /\ part[x] = text[a + x - 1]
  BY <1>0
<1> DEFINE S == KeptPlaces(text, spaces)
           Q == KeptPlaces(part, spaces)
           n == Cardinality(Q)
           whole == Squeezed(text, spaces)
           term == Squeezed(part, spaces)
<1>2. /\ S \in SUBSET (DOMAIN text) /\ S \in SUBSET (Nat \ {0}) /\ IsFiniteSet(S)
      /\ Cardinality(S) \in Nat /\ whole \in Seq(Characters) /\ Len(whole) = Cardinality(S)
      /\ \A k \in 1 .. Cardinality(S) : \E i \in S :
           PlaceOf(i, S) = k /\ whole[k] = IF IsWord(text, i, spaces) THEN text[i] ELSE "blank"
  BY SqueezedFacts
<1>3. /\ Q \in SUBSET (DOMAIN part) /\ Q \in SUBSET (Nat \ {0}) /\ IsFiniteSet(Q) /\ n \in Nat
      /\ term \in Seq(Characters) /\ Len(term) = n
      /\ \A k \in 1 .. n : \E i \in Q :
           PlaceOf(i, Q) = k /\ term[k] = IF IsWord(part, i, spaces) THEN part[i] ELSE "blank"
  BY <1>1, SqueezedFacts
<1>4. \A i : i \in S <=>
        /\ i \in DOMAIN text
        /\ \/ IsWord(text, i, spaces)
           \/ /\ i > 1 /\ IsWord(text, i - 1, spaces)
              /\ \E j \in DOMAIN text : j > i /\ IsWord(text, j, spaces)
  BY DEF KeptPlaces
<1>5. \A i : i \in Q <=>
        /\ i \in DOMAIN part
        /\ \/ IsWord(part, i, spaces)
           \/ /\ i > 1 /\ IsWord(part, i - 1, spaces)
              /\ \E j \in DOMAIN part : j > i /\ IsWord(part, j, spaces)
  BY DEF KeptPlaces
<1>6. \A x \in DOMAIN part : IsWord(part, x, spaces) <=> IsWord(text, a + x - 1, spaces)
  BY <1>1 DEF IsWord
<1>7. DOMAIN text = 1 .. Len(text) /\ Len(text) \in Nat /\ a \in Nat /\ a >= 1
  OBVIOUS
<1> HIDE DEF S, Q, whole, term
<1>8. /\ \A i \in S : PlaceOf(i, S) \in 1 .. Cardinality(S)
      /\ \A i, j \in S : PlaceOf(i, S) = PlaceOf(j, S) => i = j
  BY <1>2, PlaceFacts
<1>9. /\ \A i \in Q : PlaceOf(i, Q) \in 1 .. n
      /\ \A i, j \in Q : i < j <=> PlaceOf(i, Q) < PlaceOf(j, Q)
      /\ \A i, j \in Q : PlaceOf(i, Q) = PlaceOf(j, Q) => i = j
      /\ \A k \in 1 .. n : \E i \in Q : PlaceOf(i, Q) = k
  BY <1>3, PlaceFacts
<1>10. \A i \in Q : a + i - 1 \in S
  <2> SUFFICES ASSUME NEW i \in Q PROVE a + i - 1 \in S
    OBVIOUS
  <2>1. i \in DOMAIN part /\ i \in Nat /\ a + i - 1 \in DOMAIN text
    BY <1>1, <1>3
  <2>2. CASE IsWord(part, i, spaces)
    BY <1>4, <1>6, <2>1, <2>2
  <2>3. CASE ~IsWord(part, i, spaces)
    <3>1. i > 1 /\ IsWord(part, i - 1, spaces) /\ i - 1 \in DOMAIN part
      BY <1>1, <1>5, <2>1, <2>3
    <3>2. PICK j \in DOMAIN part : j > i /\ IsWord(part, j, spaces)
      BY <1>5, <2>3
    <3>3. IsWord(text, a + (i - 1) - 1, spaces) /\ a + (i - 1) - 1 = (a + i - 1) - 1
      BY <1>6, <1>7, <2>1, <3>1
    <3>4. /\ a + j - 1 \in DOMAIN text /\ a + j - 1 > a + i - 1
          /\ IsWord(text, a + j - 1, spaces)
      BY <1>1, <1>6, <1>7, <2>1, <3>2
    <3>5. a + i - 1 > 1
      BY <1>7, <2>1, <3>1
    <3> QED BY <1>4, <2>1, <3>3, <3>4, <3>5
  <2> QED BY <2>2, <2>3
<1>11. CASE n = 0
  <2>1. term = <<>>
    BY <1>3, <1>11
  <2> QED BY <1>1, <2>1 DEF term
<1>12. CASE n # 0
  <2>1. 1 \in 1 .. n /\ n \in 1 .. n
    BY <1>3, <1>12
  <2>2. PICK p \in Q : PlaceOf(p, Q) = 1
    BY <1>9, <2>1
  <2>3. PICK q \in Q : PlaceOf(q, Q) = n
    BY <1>9, <2>1
  <2>4. \A i \in Q : i \in Nat /\ i >= 1 /\ p <= i /\ i <= q
    BY <1>3, <1>9, <2>2, <2>3
  <2>5. ASSUME NEW y \in S, a + p - 1 <= y, y <= a + q - 1
        PROVE  y - a + 1 \in Q
    <3> DEFINE x == y - a + 1
    <3>1. /\ y \in Nat /\ x \in Nat /\ p <= x /\ x <= q /\ p \in Nat /\ q \in Nat /\ p >= 1
          /\ y = a + x - 1
      BY <1>2, <1>7, <2>4, <2>5
    <3> HIDE DEF x
    <3>2. x \in DOMAIN part
      BY <1>1, <1>3, <3>1
    <3>3. CASE IsWord(text, y, spaces)
      BY <1>5, <1>6, <3>1, <3>2, <3>3 DEF x
    <3>4. CASE x = p \/ x = q
      BY <3>4 DEF x
    <3>5. CASE ~IsWord(text, y, spaces) /\ x # p /\ x # q
      <4>1. IsWord(text, y - 1, spaces)
        BY <1>4, <3>5
      <4>2. x - 1 \in DOMAIN part /\ x > 1 /\ a + (x - 1) - 1 = y - 1
        BY <1>1, <1>7, <3>1, <3>2, <3>5
      <4>3. IsWord(part, x - 1, spaces)
        BY <1>6, <4>1, <4>2
      <4>4. \E j \in DOMAIN part : j > x /\ IsWord(part, j, spaces)
        <5>1. q > x /\ q \in DOMAIN part
          BY <1>3, <3>1, <3>5
        <5>2. CASE IsWord(part, q, spaces)
          BY <5>1, <5>2
        <5>3. CASE ~IsWord(part, q, spaces)
          <6>1. PICK j \in DOMAIN part : j > q /\ IsWord(part, j, spaces)
            BY <1>5, <5>3
          <6>2. j > x
            BY <1>1, <3>1, <5>1, <6>1
          <6> QED BY <6>1, <6>2
        <5> QED BY <5>2, <5>3
      <4>5. x \in Q
        BY <1>5, <3>2, <4>2, <4>3, <4>4
      <4> QED BY <4>5 DEF x
    <3> QED BY <3>3, <3>4, <3>5
  <2> DEFINE r == PlaceOf(a + p - 2, S)
  <2>6. a + p - 2 \in Nat /\ r \in 0 .. Cardinality(S)
    <3>1. a + p - 2 \in Nat
      BY <1>7, <2>4
    <3> QED BY <1>2, <3>1, PlaceFacts
  <2>7. ASSUME NEW i \in Q PROVE PlaceOf(a + i - 1, S) = r + PlaceOf(i, Q)
    <3> DEFINE X == Q \cap (1 .. i)
               Y == {x + (a - 1) : x \in X}
               B == S \cap (1 .. (a + p - 2))
    <3>1. i \in Nat /\ p \in Nat /\ p >= 1 /\ p <= i /\ i <= q /\ q \in Nat
      BY <2>4
    <3>2. \A x \in X : x \in Nat /\ p <= x /\ x <= i /\ x \in Q
      BY <2>4
    <3>3. \A y \in Y : y \in S /\ y \in Nat /\ a + p - 1 <= y /\ y <= a + i - 1
      <4> SUFFICES ASSUME NEW x \in X
                   PROVE  /\ x + (a - 1) \in S /\ x + (a - 1) \in Nat
                          /\ a + p - 1 <= x + (a - 1) /\ x + (a - 1) <= a + i - 1
        OBVIOUS
      <4>1. x \in Nat /\ p <= x /\ x <= i /\ x \in Q
        BY <3>2
      <4>2. a + x - 1 = x + (a - 1)
        BY <1>7, <4>1
      <4> QED BY <1>7, <1>10, <3>1, <4>1, <4>2
    <3>4. ASSUME NEW y \in S, a + p - 1 <= y, y <= a + i - 1 PROVE y \in Y
      <4>1. y \in Nat /\ y <= a + q - 1
        BY <1>2, <1>7, <3>1, <3>4
      <4>2. y - a + 1 \in Q
        BY <2>5, <3>4, <4>1
      <4>3. y - a + 1 \in X
        BY <1>7, <3>1, <3>4, <4>1, <4>2, <2>4
      <4>4. y = (y - a + 1) + (a - 1)
        BY <1>7, <4>1
      <4> QED BY <4>3, <4>4
    <3>5. X \in SUBSET Nat /\ IsFiniteSet(X) /\ a - 1 \in Nat
      BY <1>3, <1>7, FS_Subset
    <3> HIDE DEF X
    <3>6. IsFiniteSet(Y) /\ Cardinality(Y) = Cardinality(X)
      BY <3>5, ShiftedSet
    <3> HIDE DEF Y
    <3>7. S \cap (1 .. (a + i - 1)) = B \cup Y /\ B \cap Y = {}
      <4>1. \A y \in S : y \in Nat /\ y >= 1
        BY <1>2
      <4>2. ASSUME NEW y PROVE y \in S \cap (1 .. (a + i - 1)) <=> y \in B \cup Y
        BY <1>7, <3>1, <3>3, <3>4, <4>1
      <4>3. B \cap Y = {}
        BY <1>7, <3>1, <3>3, <4>1
      <4> HIDE DEF B
      <4> QED BY <4>2, <4>3
    <3>8. IsFiniteSet(B)
      BY <1>2, FS_Subset
    <3>9. r = Cardinality(B)
      BY DEF PlaceOf
    <3> HIDE DEF B, r
    <3>10. Cardinality(B \cup Y) = Cardinality(B) + Cardinality(Y)
      <4>1. Cardinality(B \cup Y) = Cardinality(B) + Cardinality(Y) - Cardinality(B \cap Y)
        BY <3>6, <3>8, FS_Union
      <4>2. Cardinality(B \cap Y) = 0
        BY <3>7, FS_EmptySet
      <4>3. Cardinality(B) \in Nat /\ Cardinality(Y) \in Nat
        BY <3>6, <3>8, FS_CardinalityType
      <4> QED BY <4>1, <4>2, <4>3
    <3>11. PlaceOf(a + i - 1, S) = Cardinality(B \cup Y)
      BY <3>7 DEF PlaceOf
    <3>12. PlaceOf(i, Q) = Cardinality(X)
      BY DEF PlaceOf, X
    <3> QED BY <3>6, <3>9, <3>10, <3>11, <3>12
  <2> HIDE DEF r
  <2>8. r \in Nat /\ r + 1 \in 1 .. Len(whole) /\ r + n \in 1 .. Len(whole)
    <3>1. PlaceOf(a + p - 1, S) = r + 1 /\ PlaceOf(a + q - 1, S) = r + n
      BY <2>2, <2>3, <2>7
    <3>2. a + p - 1 \in S /\ a + q - 1 \in S
      BY <1>10
    <3> QED BY <1>2, <1>8, <2>6, <3>1, <3>2
  <2>9. ASSUME NEW k \in 1 .. n PROVE term[k] = whole[r + k]
    <3>1. PICK i \in Q : /\ PlaceOf(i, Q) = k
                         /\ term[k] = IF IsWord(part, i, spaces) THEN part[i] ELSE "blank"
      BY <1>3
    <3>2. PlaceOf(a + i - 1, S) = r + k /\ a + i - 1 \in S
      BY <1>10, <2>7, <3>1
    <3>3. r + k \in 1 .. Cardinality(S)
      BY <1>8, <3>2
    <3>4. PICK j \in S : /\ PlaceOf(j, S) = r + k
                         /\ whole[r + k] = IF IsWord(text, j, spaces) THEN text[j] ELSE "blank"
      BY <1>2, <3>3
    <3>5. j = a + i - 1
      BY <1>8, <3>2, <3>4
    <3>6. i \in DOMAIN part
      BY <1>3
    <3> QED BY <1>1, <1>6, <3>1, <3>4, <3>5, <3>6
  <2>10. term = SubSeq(whole, r + 1, r + n)
    <3> DEFINE v == SubSeq(whole, r + 1, r + n)
    <3>1. v \in Seq(Characters) /\ Len(v) = n /\ \A k \in 1 .. n : v[k] = whole[r + k]
      <4> HIDE DEF n
      <4>1. /\ whole \in Seq(Characters) /\ r \in Nat /\ n \in Nat /\ n >= 1
            /\ r + n <= Len(whole) /\ Len(whole) \in Nat
        BY <1>2, <1>3, <1>12, <2>8
      <4>2. \A k \in 1 .. n : (r + 1) + k - 1 = r + k
        BY <4>1
      <4> QED BY <4>1, <4>2
    <3> HIDE DEF v
    <3>2. \A k \in 1 .. Len(term) : term[k] = v[k]
      BY <1>3, <2>9, <3>1
    <3>3. term = v
      BY <1>3, <3>1, <3>2, SeqEqual
    <3> QED BY <3>3 DEF v
  <2>11. term \in Parts(whole)
    <3>1. SubSeq(whole, r + 1, r + n) \in Parts(whole)
      BY <2>8, PartsOfText
    <3> QED BY <2>10, <3>1
  <2> QED BY <1>1, <2>11 DEF term, whole
<1> QED BY <1>11, <1>12

\* A term that the form lets through is read by the API as it was sent.
LEMMA ParsedTerms ==
  ASSUME NEW text \in Seq(Characters), ValidateSearchTerm(text)
  PROVE  LET term == NormalizeSearchTerm(text) IN
         /\ term \in Seq(Characters)
         /\ ParseSearch(term) = IF term = <<>> THEN Nil ELSE term
<1> DEFINE spaces == {"blank", "wide"}
           kept == KeptPlaces(text, spaces)
           term == Squeezed(text, spaces)
<1>1. /\ kept \in SUBSET (DOMAIN text) /\ term \in Seq(Characters)
      /\ DOMAIN term = 1 .. Cardinality(kept)
      /\ \A k \in 1 .. Cardinality(kept) : \E i \in kept :
           term[k] = IF IsWord(text, i, spaces) THEN text[i] ELSE "blank"
  BY SqueezedFacts
<1>2. ~HasControl(text) /\ Utf16Length(term) <= SearchMaxLength
  BY DEF ValidateSearchTerm, NormalizeSearchTerm
<1>3. Squeezed(term, {"blank"}) = term
  BY SqueezedTwice
<1> HIDE DEF term, kept
<1>4. ~HasControl(term)
  <2> SUFFICES ASSUME NEW k \in DOMAIN term PROVE term[k] # "control"
    BY DEF HasControl
  <2>1. PICK i \in kept : term[k] = IF IsWord(text, i, spaces) THEN text[i] ELSE "blank"
    BY <1>1
  <2>2. text[i] # "control"
    BY <1>1, <1>2 DEF HasControl
  <2> QED BY <2>1, <2>2
<1>5. Len(term) <= SearchMaxLength
  <2> DEFINE astral == {i \in DOMAIN term : term[i] = "astral"}
  <2>1. DOMAIN term = 1 .. Len(term) /\ Len(term) \in Nat
    BY <1>1
  <2>2. IsFiniteSet(DOMAIN term)
    BY <2>1, IntervalSizes
  <2>3. IsFiniteSet(astral)
    BY <2>2, FS_Subset
  <2>4. Utf16Length(term) = Len(term) + Cardinality(astral)
    BY DEF Utf16Length
  <2> HIDE DEF astral
  <2>5. Cardinality(astral) \in Nat
    BY <2>3, FS_CardinalityType
  <2>6. SearchMaxLength \in Nat
    BY DraftsAssumption
  <2> QED BY <1>2, <2>1, <2>4, <2>5, <2>6
<1>6. SearchMaxLength \in Nat /\ Len(term) \in Nat
  BY <1>1, DraftsAssumption
<1>7. ParseSearch(term) = IF term = <<>> THEN Nil ELSE term
  BY <1>3, <1>4, <1>5, <1>6 DEF ParseSearch
<1> QED BY <1>1, <1>7 DEF term, NormalizeSearchTerm

\* Whatever part of a conversation is copied, the form and the API make of it a part
\* of what the conversation is searched by.
THEOREM CopiedTermsCorrect == CopiedTermsAreFound
<1> SUFFICES ASSUME NEW text \in Texts, NEW part \in Parts(text), ValidateSearchTerm(part)
             PROVE  LET term == ParseSearch(NormalizeSearchTerm(part)) IN
                    term # Malformed /\ (term # Nil => term \in Parts(SearchText(text)))
  BY DEF CopiedTermsAreFound
<1> DEFINE term == NormalizeSearchTerm(part)
<1>1. text \in Seq(Characters) /\ Malformed # Nil /\ Malformed \notin Seq(Characters)
  BY DraftsAssumption, NilAssumption
<1>2. /\ part \in Seq(Characters)
      /\ term = <<>> \/ term \in Parts(SearchText(text))
  BY <1>1, SqueezedPart DEF NormalizeSearchTerm, SearchText
<1>3. term \in Seq(Characters) /\ ParseSearch(term) = IF term = <<>> THEN Nil ELSE term
  BY <1>2, ParsedTerms
<1> HIDE DEF term
<1>4. ParseSearch(term) # Malformed /\ (ParseSearch(term) # Nil => ParseSearch(term) \in Parts(SearchText(text)))
  BY <1>1, <1>2, <1>3
<1> QED BY <1>4 DEF term

-----------------------------------------------------------------------------
(* PageListsAreExact                                                       *)

\* What the page applies, and what it sends of it.
LEMMA RequestFacts ==
  ASSUME NEW c \in Applied
  PROVE  LET from == c.range.from
             to == c.range.to
             p == Request[c]
         IN /\ from \in Nat \cup {Nil} /\ to \in Nat \cup {Nil} /\ ~(from = Nil /\ to = Nil)
            /\ from # Nil /\ to # Nil => from <= to
            /\ c.term \in Seq(Characters)
            /\ p.from = IF from = Nil THEN Nil ELSE FirstOfDay(from)
            /\ p.to = IF to = Nil THEN Nil ELSE LastOfDay(to)
            /\ p.limit = Nil
            /\ p.term = IF c.term = <<>> THEN Nil ELSE c.term
<1>1. PICK d \in Drafts : ValidateRange(d) /\ ValidateSearchTerm(d.text) /\ c = Criteria(d)
  BY DEF Applied
<1>2. d.from \in Nat \cup {Nil} /\ d.to \in Nat \cup {Nil} /\ d.text \in Seq(Characters)
  BY DraftsAssumption
<1>3. Today \in Nat /\ Today - 6 \in Nat /\ Nil \notin Nat
  <2>1. Now \in Nat /\ DayLength \in Nat \ {0}
    BY TimesAssumption
  <2>2. Now \div DayLength \in Nat
    BY <2>1
  <2> QED BY <2>2, DraftsAssumption, NilAssumption DEF Today
<1>4. /\ c.range.from = IF d.from = Nil /\ d.to = Nil THEN Today - 6 ELSE d.from
      /\ c.range.to = IF d.from = Nil /\ d.to = Nil THEN Today ELSE d.to
  BY <1>1 DEF Criteria, ResolveAppliedRange, BuildDefaultRange
<1>5. d.from # Nil /\ d.to # Nil => d.from <= d.to
  BY <1>1 DEF ValidateRange
<1>6. c.term = NormalizeSearchTerm(d.text)
  BY <1>1 DEF Criteria
<1>7. /\ c.term \in Seq(Characters)
      /\ ParseSearch(c.term) = IF c.term = <<>> THEN Nil ELSE c.term
  BY <1>1, <1>2, <1>6, ParsedTerms
<1>8. Request[c] = [from |-> IF c.range.from = Nil THEN Nil ELSE FirstOfDay(c.range.from),
                    to |-> IF c.range.to = Nil THEN Nil ELSE LastOfDay(c.range.to),
                    limit |-> Nil, term |-> ParseSearch(c.term)]
  BY DEF Request
<1>9. /\ c.range.from \in Nat \cup {Nil} /\ c.range.to \in Nat \cup {Nil}
      /\ ~(c.range.from = Nil /\ c.range.to = Nil)
      /\ c.range.from # Nil /\ c.range.to # Nil => c.range.from <= c.range.to
  BY <1>2, <1>3, <1>4, <1>5
<1> QED BY <1>7, <1>8, <1>9

\* The first and the last instant of a day.
LEMMA DaysOfRange ==
  ASSUME NEW day \in Nat
  PROVE  /\ FirstOfDay(day) \in Dates /\ LastOfDay(day) \in Dates
         /\ FirstOfDay(day).unit = "instant" /\ FirstOfDay(day).at = day * DayLength
         /\ LastOfDay(day).unit = "instant" /\ LastOfDay(day).at = day * DayLength + DayLength - 1
         /\ \A next \in Nat : day <= next => day * DayLength <= next * DayLength + DayLength - 1
<1> DEFINE n == day * DayLength
<1>1. DayLength \in Nat \ {0}
  BY TimesAssumption
<1>2. n \in Nat
  BY <1>1
<1>3. ASSUME NEW next \in Nat, day <= next PROVE day * DayLength <= next * DayLength + DayLength - 1
  <2>1. PICK m \in Nat : next = day + m
    <3>1. next - day \in Nat /\ next = day + (next - day)
      BY <1>3
    <3> QED BY <3>1
  <2>2. next * DayLength = n + m * DayLength /\ m * DayLength \in Nat
    BY <1>1, <2>1
  <2> HIDE DEF n
  <2>3. n <= (n + m * DayLength) + DayLength - 1
    <3> DEFINE k == m * DayLength
    <3>1. k \in Nat
      BY <2>2
    <3> HIDE DEF k
    <3>2. n <= (n + k) + DayLength - 1
      BY <1>1, <1>2, <3>1
    <3> QED BY <3>2 DEF k
  <2> QED BY <2>2, <2>3 DEF n
<1> HIDE DEF n
<1>4. n + DayLength - 1 \in Nat
  BY <1>1, <1>2
<1>5. FirstOfDay(day) = [unit |-> "instant", at |-> n]
      /\ LastOfDay(day) = [unit |-> "instant", at |-> n + DayLength - 1]
  BY DEF FirstOfDay, LastOfDay, n
<1>6. FirstOfDay(day) \in Dates /\ LastOfDay(day) \in Dates
  BY <1>2, <1>4, <1>5 DEF Dates
<1> QED BY <1>3, <1>5, <1>6 DEF n

\* The API accepts all that the forms let through.
LEMMA RequestsAreValid == \A c \in Applied : ~IsInvalid(Request[c])
<1> SUFFICES ASSUME NEW c \in Applied PROVE ~IsInvalid(Request[c])
  OBVIOUS
<1> DEFINE p == Request[c]
           from == c.range.from
           to == c.range.to
<1>1. /\ from \in Nat \cup {Nil} /\ to \in Nat \cup {Nil} /\ ~(from = Nil /\ to = Nil)
      /\ from # Nil /\ to # Nil => from <= to
      /\ c.term \in Seq(Characters)
      /\ p.from = IF from = Nil THEN Nil ELSE FirstOfDay(from)
      /\ p.to = IF to = Nil THEN Nil ELSE LastOfDay(to)
      /\ p.limit = Nil /\ p.term = IF c.term = <<>> THEN Nil ELSE c.term
  BY RequestFacts
<1>2. Malformed # Nil /\ Malformed \notin Dates /\ Nil \notin Dates /\ Malformed \notin Seq(Characters)
  BY NilAssumption, DraftsAssumption
<1> HIDE DEF p, from, to
<1>3. Malformed \notin {p.from, p.to, p.limit, p.term}
  BY <1>1, <1>2, DaysOfRange
<1>4. ~IsUndated(p)
  BY <1>1, <1>2, DaysOfRange DEF IsUndated
<1>5. ~IsInverted(CriteriaOf(p))
  <2>1. CASE from = Nil \/ to = Nil
    BY <1>1, <1>4, <2>1 DEF IsInverted, CriteriaOf
  <2>2. CASE from # Nil /\ to # Nil
    <3>1. from \in Nat /\ to \in Nat /\ from <= to
      BY <1>1, <2>2
    <3>2. p.from = FirstOfDay(from) /\ p.to = LastOfDay(to) /\ p.from # Nil /\ p.to # Nil
      BY <1>1, <1>2, <2>2, <3>1, DaysOfRange
    <3>3. StartOf(p.from) = from * DayLength /\ EndOf(p.to) = to * DayLength + DayLength - 1
      BY <3>1, <3>2, DaysOfRange DEF StartOf, EndOf
    <3>4. CriteriaOf(p).from = StartOf(p.from) /\ CriteriaOf(p).to = EndOf(p.to)
      BY <1>4, <3>2 DEF CriteriaOf
    <3>5. from * DayLength <= to * DayLength + DayLength - 1
      BY <3>1, DaysOfRange
    <3> DEFINE first == from * DayLength
               last == to * DayLength + DayLength - 1
    <3>6. first \in Nat /\ last \in Nat /\ first <= last
      <4>1. FirstOfDay(from).at \in Nat /\ LastOfDay(to).at \in Nat
        BY <3>1, DaysOfRange DEF Dates
      <4> QED BY <3>1, <3>5, <4>1, DaysOfRange
    <3>7. CriteriaOf(p).from = first /\ CriteriaOf(p).to = last
      BY <3>3, <3>4
    <3> HIDE DEF first, last
    <3> QED BY <3>6, <3>7 DEF IsInverted
  <2> QED BY <2>1, <2>2
<1> QED BY <1>3, <1>5 DEF IsInvalid, p

\* To match what the page asks for is to be of the days and the term that it names.
LEMMA NamedMatches ==
  ASSUME Accepted, NEW c \in Applied, asked = Request[c], NEW row \in RowTypes
  PROVE  Matches(row) <=> IsNamed(c, row)
<1> DEFINE from == c.range.from
           to == c.range.to
           time == DisplayTime(row)
<1>1. /\ from \in Nat \cup {Nil} /\ to \in Nat \cup {Nil} /\ ~(from = Nil /\ to = Nil)
      /\ c.term \in Seq(Characters)
      /\ asked.from = IF from = Nil THEN Nil ELSE FirstOfDay(from)
      /\ asked.to = IF to = Nil THEN Nil ELSE LastOfDay(to)
      /\ asked.term = IF c.term = <<>> THEN Nil ELSE c.term
  BY RequestFacts
<1>2. Nil \notin Dates /\ Nil \notin Seq(Characters) /\ DayLength \in Nat \ {0}
  BY NilAssumption, DraftsAssumption, TimesAssumption
<1> HIDE DEF from, to
<1>3. CASE row = NoRow \/ time = Nil
  BY <1>3 DEF Matches, IsNamed
<1>4. CASE row # NoRow /\ time # Nil
  <2>1. time \in Nat
    BY <1>4 DEF RowTypes, DisplayTime
  <2> HIDE DEF time
  <2>2. ~IsUndated(asked)
    BY <1>1, <1>2, DaysOfRange DEF IsUndated
  <2>3. (asked.from # Nil => At(time, asked.from.unit) >= asked.from.at)
        <=> (from # Nil => time \div DayLength >= from)
    <3>1. CASE from = Nil
      BY <1>1, <3>1
    <3>2. CASE from # Nil
      <4>1. from \in Nat /\ asked.from = FirstOfDay(from) /\ asked.from # Nil
        BY <1>1, <1>2, <3>2, DaysOfRange
      <4>2. At(time, asked.from.unit) = time /\ asked.from.at = from * DayLength
        BY <4>1, DaysOfRange DEF At
      <4>3. time \div DayLength >= from <=> time >= from * DayLength
        BY <1>2, <2>1, <4>1, DayFacts
      <4> QED BY <3>2, <4>1, <4>2, <4>3
    <3> QED BY <3>1, <3>2
  <2>4. (asked.to # Nil => At(time, asked.to.unit) <= asked.to.at)
        <=> (to # Nil => time \div DayLength <= to)
    <3>1. CASE to = Nil
      BY <1>1, <3>1
    <3>2. CASE to # Nil
      <4>1. to \in Nat /\ asked.to = LastOfDay(to) /\ asked.to # Nil
        BY <1>1, <1>2, <3>2, DaysOfRange
      <4>2. At(time, asked.to.unit) = time /\ asked.to.at = to * DayLength + DayLength - 1
        BY <4>1, DaysOfRange DEF At
      <4>3. time \div DayLength <= to <=> time <= to * DayLength + DayLength - 1
        BY <1>2, <2>1, <4>1, DayFacts
      <4> QED BY <3>2, <4>1, <4>2, <4>3
    <3> QED BY <3>1, <3>2
  <2>5. asked.term \in row.text \cup {Nil} <=> c.term \in row.text \cup {<<>>}
    BY <1>1, <1>2
  <2> QED BY <1>4, <2>2, <2>3, <2>4, <2>5 DEF Matches, IsNamed, time, from, to
<1> QED BY <1>3, <1>4

\* A quiet list without a limit leaves nothing out.
LEMMA QuietComplete ==
  ASSUME QueryInvariant, pc = "answered", NEW table \in moments, moments = {table},
         asked.limit = Nil
  PROVE  Listed = {i \in SessionIds : Matches(table[i])}
<1> DEFINE C == FoundBy(table, table)
           K == Kept(C, table)
           all == {i \in SessionIds : Matches(table[i])}
<1>1. Accepted /\ table \in Tables
  BY DEF QueryInvariant, CandidatesWereFound, MomentsAreInOrder
<1>2. answer = AnswerOf(C, table)
  BY DEF QueryInvariant, CandidatesWereFound, ListFrom
<1>3. C \in SUBSET Candidates /\ IsFiniteSet(C)
  BY <1>1, FoundFacts
<1>4. /\ \A c \in C : c.id \in all /\ table[c.id] # NoRow
      /\ \A i \in all : \E c \in C : c.id = i
  BY <1>1, QuietCandidates
<1> HIDE DEF C, all
<1>5. K = C
  <2>1. First(C) = C
    BY <1>1, AskedFields DEF First
  <2> QED BY <1>4, <2>1 DEF Kept
<1>6. /\ \A k \in DOMAIN answer : \E c \in K : answer[k].id = c.id
      /\ \A c \in K : /\ NewerThan(c, K) + 1 \in DOMAIN answer
                      /\ answer[NewerThan(c, K) + 1].id = c.id
  BY <1>2, <1>3, AnswerFacts
<1> HIDE DEF K
<1>7. \A i \in all : i \in Listed
  BY <1>4, <1>5, <1>6 DEF Listed
<1>8. \A i \in Listed : i \in all
  BY <1>4, <1>5, <1>6 DEF Listed
<1> QED BY <1>7, <1>8 DEF all

\* Whatever is typed and submitted, the API accepts it, finds of a conversation what
\* was copied from it, and lists, when no sync commits meanwhile, the sessions of the
\* days and the term that the page names.
THEOREM PageListsCorrect == Spec => []PageListsAreExact
<1>1. QueryInvariant => PageListsAreExact
  <2> SUFFICES ASSUME QueryInvariant
               PROVE  \A c \in Applied : asked = Request[c] =>
                        /\ pc # "invalid"
                        /\ \A table \in moments : pc = "answered" /\ moments = {table} =>
                             Listed = {i \in SessionIds : IsNamed(c, table[i])}
    BY QuietExact, CopiedTermsCorrect DEF PageListsAreExact
  <2> SUFFICES ASSUME NEW c \in Applied, asked = Request[c]
               PROVE  /\ pc # "invalid"
                      /\ \A table \in moments : pc = "answered" /\ moments = {table} =>
                           Listed = {i \in SessionIds : IsNamed(c, table[i])}
    OBVIOUS
  <2>1. pc # "invalid"
    BY RequestsAreValid DEF QueryInvariant, CandidatesWereFound
  <2>2. ASSUME NEW table \in moments, pc = "answered", moments = {table}
        PROVE  Listed = {i \in SessionIds : IsNamed(c, table[i])}
    <3>1. Accepted /\ table \in Tables
      BY <2>2 DEF QueryInvariant, CandidatesWereFound, MomentsAreInOrder
    <3>2. asked.limit = Nil
      BY RequestFacts
    <3>3. Listed = {i \in SessionIds : Matches(table[i])}
      BY <2>2, <3>2, QuietComplete
    <3>4. \A i \in SessionIds : Matches(table[i]) <=> IsNamed(c, table[i])
      BY <3>1, NamedMatches DEF Tables
    <3> QED BY <3>3, <3>4
  <2> QED BY <2>1, <2>2
<1> QED BY <1>1, QueryInvariantCorrect, PTL
=============================================================================
