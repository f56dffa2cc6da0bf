------------------------ MODULE HistorySyncRowsProofs ------------------------
(***************************************************************************)
(* Theorems about what HistorySync makes of the rows and counts of a run,  *)
(* for every number of requests and sources and every order of writes.     *)
(***************************************************************************)
EXTENDS HistorySyncProofs

-----------------------------------------------------------------------------
(* What every step preserves                                               *)

\* A time is that of an absent file or at least the first second of the clock.
Dated(time) == time = 0 \/ time >= TicksPerSecond

\* No file is from the future, and only an absent one is without a time.
FilesAreDated ==
  /\ TicksPerSecond <= now
  /\ \A s \in Sources :
       IF raw[s].health = "absent" THEN raw[s].mtime = 0
       ELSE TicksPerSecond <= raw[s].mtime /\ raw[s].mtime <= now

ReadsAreDated ==
  /\ \A i \in SessionIds : Dated(rows[i].mtime)
  /\ \A r \in Requests, s \in Sources : Dated(sessions[r][s].mtime)
  /\ \A r \in Requests, i \in SessionIds : Dated(tx[r][i].mtime)

\* What was read of a file is no younger than the file.
ReadsAreOld ==
  \A r \in Requests, s \in Sources :
    /\ sessions[r][s].mtime <= now
    /\ raw[s].health # "absent" => sessions[r][s].mtime <= raw[s].mtime

\* The sessions r has saved in its open transaction.
Done(r) == Persistable(r) \ todo[r]

\* A call that saves takes its sessions in catalog order, and the row of each
\* session it has saved, unless another of the same id came later, shows it.
SavesInOrder(r) ==
  /\ todo[r] \subseteq Persistable(r)
  /\ \A s \in Done(r), t \in todo[r] : s < t
SavedRowsShow(r) ==
  \A s \in Done(r) :
    (\A t \in Done(r) : t > s => sessions[r][t].id # sessions[r][s].id)
      => LET row == tx[r][sessions[r][s].id]
         IN Projects(row, s, sessions[r][s]) /\ IsExplained(row, sessions[r][s])
CountsOfDone(r) ==
  counts[r].inserted + counts[r].updated + counts[r].skipped = Cardinality(Done(r))

RowsInvariant ==
  /\ FilesAreDated /\ ReadsAreDated /\ ReadsAreOld
  /\ \A r \in Requests : pc[r] = "persist" => SavesInOrder(r) /\ SavedRowsShow(r)

CountsInvariant ==
  /\ \A r \in Requests : pc[r] = "persist" => todo[r] \subseteq Persistable(r) /\ CountsOfDone(r)
  /\ CountsAccountForEverySource

-----------------------------------------------------------------------------
(* Runs of which nothing changed                                           *)

IsSaved(q) == run[q].status \in SavedStatuses

\* A run begins after every saved one has ended, and none is in the future.
RunsAreOrdered ==
  /\ \A r \in Requests : run[r].started <= now /\ run[r].finished <= now
  /\ \A q \in Requests : IsSaved(q) => run[q].started <= run[q].finished
  /\ \A q, r \in Requests : IsSaved(q) /\ Working(r) => run[q].finished <= run[r].started

\* No file has changed since r began.
Undisturbed(r) == Working(r) /\ run[r].started = now
\* Nothing has changed since q began and ended.
Fresh(q) == IsSaved(q) /\ run[q].started = now /\ run[q].finished = now

IsListed(s) == raw[s].health # "absent"
Current(s) == ReadSession(s, raw[s])
RowIsCurrent(table, s) == Unchanged(table[Current(s).id], s, Current(s), Stamp(raw[s]))

\* A call that nothing disturbed has read every source it is past as it is now.
UndisturbedReads ==
  \A r \in Requests : Undisturbed(r) =>
    /\ pc[r] = "read" =>
         /\ \A s \in todo[r] : IsListed(s)
         /\ \A s \in Sources : ~IsListed(s) <=> sessions[r][s].state = "unlisted"
         /\ \A s \in Sources : IsListed(s) /\ s \notin todo[r] => sessions[r][s] = Current(s)
    /\ pc[r] = "persist" => \A s \in Sources :
         IF IsListed(s) THEN sessions[r][s] = Current(s)
         ELSE sessions[r][s].state = "unlisted"

\* ... and what it has saved is as the files are.
UndisturbedSaves ==
  \A r \in Requests : Undisturbed(r) /\ pc[r] = "persist" =>
    /\ todo[r] \subseteq Persistable(r)
    /\ \A s \in Done(r) : RowIsCurrent(tx[r], s)

\* After a sync that nothing disturbed the rows are as the files are.
FreshRows ==
  (\E q \in Requests : Fresh(q)) =>
    \A s \in Sources : IsListed(s) /\ Current(s).state # "workspace_only"
                         => RowIsCurrent(rows, s)

\* A sync after it has found nothing to save.
NothingToSave ==
  \A q, r \in Requests : Fresh(q) /\ pc[r] = "persist" =>
    tx[r] = rows /\ counts[r].inserted + counts[r].updated = 0

OneOfTwoSaves ==
  \A q, r \in Requests :
    q # r /\ IsSaved(q) /\ IsSaved(r)
          /\ run[q].started = run[q].finished /\ run[r].started = run[r].finished
          /\ run[q].started = run[r].started
      => run[q].inserted + run[q].updated = 0 \/ run[r].inserted + run[r].updated = 0

QuietInvariant ==
  /\ RunsAreOrdered
  /\ IdsAreDistinct => UndisturbedReads /\ UndisturbedSaves /\ FreshRows
                         /\ NothingToSave /\ OneOfTwoSaves

-----------------------------------------------------------------------------
(* What a step does to one call                                            *)

LocalsOf(r) == <<pc[r], sessions[r], todo[r], tx[r], counts[r]>>

\* The saving of one session, the successful branch of PersistSession.
Saves(r, s) ==
  /\ pc[r] = "persist" /\ IsNext(r, s) /\ SaveSession(r, s)
  /\ todo' = [todo EXCEPT ![r] = @ \ {s}]
  /\ UNCHANGED <<pc, sessions, files, database>>

\* The branch of Commit that commits.
CommitsNow(r) ==
  /\ pc[r] = "persist" /\ todo[r] = {} /\ Goto(r, "reload")
  /\ rows' = tx[r] /\ run' = [run EXCEPT ![r] = SavedRun(r)]
  /\ UNCHANGED <<files, locals>>

LEMMA CommitOrFail ==
  ASSUME TypeOK, NEW r \in Requests, Commit(r)
  PROVE  CommitsNow(r) \/ (PersistFails(r) /\ UNCHANGED <<files, database>>)
BY DEF Commit, CommitsNow, files, database

\* What Forget leaves of a call whose locals it clears, and of the others.
LEMMA ForgetParts ==
  ASSUME TypeOK, NEW R, Forget(R), NEW r \in Requests
  PROVE  /\ r \in R => sessions'[r] = NoSessions /\ tx'[r] = NoRows
         /\ r \notin R => /\ sessions'[r] = sessions[r] /\ todo'[r] = todo[r]
                         /\ tx'[r] = tx[r] /\ counts'[r] = counts[r]
BY DEF Forget, TypeOK

\* A step leaves the locals of a call alone, clears them, or is a step of
\* the call's own.
LEMMA StepOfLocals ==
  ASSUME TypeOK, [Next]_vars, NEW r \in Requests
  PROVE  \/ UNCHANGED LocalsOf(r)
         \/ /\ UNCHANGED <<sessions[r], todo[r], tx[r], counts[r]>>
            /\ ~Working(r)' /\ pc'[r] # "reload"
         \/ /\ sessions'[r] = NoSessions /\ tx'[r] = NoRows
            /\ ~Working(r)' /\ pc'[r] # "reload"
         \/ Create(r) /\ pc'[r] = "list" /\ UNCHANGED locals
         \/ List(r) \/ BeginTransaction(r)
         \/ ReadSource(r) /\ UNCHANGED pc
         \/ \E s \in Sources : Saves(r, s)
         \/ CommitsNow(r)
<1> DEFINE Goal ==
         \/ UNCHANGED LocalsOf(r)
         \/ /\ UNCHANGED <<sessions[r], todo[r], tx[r], counts[r]>>
            /\ ~Working(r)' /\ pc'[r] # "reload"
         \/ /\ sessions'[r] = NoSessions /\ tx'[r] = NoRows
            /\ ~Working(r)' /\ pc'[r] # "reload"
         \/ Create(r) /\ pc'[r] = "list" /\ UNCHANGED locals
         \/ List(r) \/ BeginTransaction(r)
         \/ ReadSource(r) /\ UNCHANGED pc
         \/ \E s \in Sources : Saves(r, s)
         \/ CommitsNow(r)
<1> SUFFICES Goal
  OBVIOUS
<1>1. ASSUME NEW q \in Requests, NEW label \in {"conflict", "create", "relookup", "raised",
                                           "persist_failed", "reload_failed", "failed"},
             Goto(q, label), UNCHANGED locals
      PROVE  Goal
  <2>1. pc'[r] = pc[r] \/ pc'[r] = label
    BY <1>1 DEF Goto, TypeOK
  <2> QED BY <1>1, <2>1 DEF locals, LocalsOf, Working
<1>2. ASSUME NEW q \in Requests, NEW label \in {"raised", "persist_failed", "succeeded"},
             Goto(q, label), Forget({q})
      PROVE  Goal
  <2>1. CASE q = r
    <3>1. pc'[r] = label
      BY <1>2, <2>1 DEF Goto, TypeOK
    <3> QED BY <1>2, <2>1, <3>1, ForgetParts DEF Working
  <2>2. CASE q # r
    <3>1. pc'[r] = pc[r]
      BY <1>2, <2>2 DEF Goto, TypeOK
    <3> QED BY <1>2, <2>2, <3>1, ForgetParts DEF LocalsOf
  <2> QED BY <2>1, <2>2
<1>3. ASSUME NEW q \in Requests, Lookup(q) PROVE Goal
  BY <1>1, <1>3 DEF Lookup
<1>4. ASSUME NEW q \in Requests, Create(q) PROVE Goal
  <2>1. CASE Goto(q, "list") /\ UNCHANGED locals /\ q = r
    <3>1. Create(r) /\ pc'[r] = "list"
      BY <1>4, <2>1 DEF Goto, TypeOK
    <3> QED BY <2>1, <3>1
  <2>2. CASE Goto(q, "list") /\ UNCHANGED locals /\ q # r
    BY <2>2 DEF Goto, TypeOK, locals, LocalsOf
  <2> QED BY <1>1, <1>4, <2>1, <2>2 DEF Create
<1>5. ASSUME NEW q \in Requests, Relookup(q) PROVE Goal
  BY <1>1, <1>5 DEF Relookup
<1>6. ASSUME NEW q \in Requests, List(q) PROVE Goal
  <2>1. CASE q = r
    <3>1. List(r)
      BY <1>6, <2>1
    <3> QED BY <3>1
  <2>2. CASE q # r
    <3>1. pc'[r] = pc[r] /\ sessions'[r] = sessions[r] /\ todo'[r] = todo[r]
      BY <1>6, <2>2 DEF List, Goto, TypeOK
    <3> QED BY <1>6, <3>1 DEF List, LocalsOf
  <2> QED BY <2>1, <2>2
<1>7. ASSUME NEW q \in Requests, ReadSource(q) PROVE Goal
  <2>1. CASE Goto(q, "raised") /\ Forget({q})
    BY <1>2, <2>1
  <2>2. CASE UNCHANGED <<pc, tx, counts>>
    <3>1. CASE q = r
      BY <1>7, <2>2, <3>1
    <3>2. CASE q # r
      <4>1. sessions'[r] = sessions[r] /\ todo'[r] = todo[r]
        BY <1>7, <2>2, <3>2 DEF ReadSource, Goto, Forget, TypeOK
      <4> QED BY <2>2, <4>1 DEF LocalsOf
    <3> QED BY <3>1, <3>2
  <2> QED BY <1>7, <2>1, <2>2 DEF ReadSource
<1>8. ASSUME NEW q \in Requests, HandleRootFailure(q) \/ HandlePersistenceFailure(q)
      PROVE  Goal
  BY <1>1, <1>8 DEF HandleRootFailure, HandlePersistenceFailure, MarkFailed
<1>9. ASSUME NEW q \in Requests, ReloadFailed(q) PROVE Goal
  BY <1>1, <1>9 DEF ReloadFailed
<1>10. ASSUME NEW q \in Requests, BeginTransaction(q) PROVE Goal
  BY <1>10 DEF BeginTransaction, Goto, LocalsOf, TypeOK
<1>11. ASSUME NEW q \in Requests, PersistSession(q) PROVE Goal
  <2>1. CASE PersistFails(q)
    BY <1>2, <2>1 DEF PersistFails
  <2>2. ASSUME NEW s \in Sources, IsNext(q, s), SaveSession(q, s),
               todo' = [todo EXCEPT ![q] = @ \ {s}], UNCHANGED <<pc, sessions>>
        PROVE  Goal
    <3>1. CASE q = r
      BY <1>11, <2>2, <3>1 DEF PersistSession, Saves
    <3>2. CASE q # r
      <4>1. tx'[r] = tx[r] /\ counts'[r] = counts[r]
        BY <2>2, <3>2 DEF SaveSession, Insert, Skip, Update, TypeOK
      <4> QED BY <2>2, <3>2, <4>1 DEF LocalsOf, TypeOK
    <3> QED BY <3>1, <3>2
  <2> QED BY <1>11, <2>1, <2>2 DEF PersistSession
<1>12. ASSUME NEW q \in Requests, Commit(q) PROVE Goal
  <2>1. CASE PersistFails(q)
    BY <1>2, <2>1 DEF PersistFails
  <2>2. CASE CommitsNow(q)
    <3>1. q # r => pc'[r] = pc[r]
      BY <2>2 DEF CommitsNow, Goto, TypeOK
    <3>2. UNCHANGED locals
      BY <2>2 DEF CommitsNow
    <3> QED BY <2>2, <3>1, <3>2 DEF locals, LocalsOf
  <2> QED BY <1>12, <2>1, <2>2, CommitOrFail
<1>13. ASSUME NEW q \in Requests, ReloadSucceeded(q) PROVE Goal
  BY <1>2, <1>13 DEF ReloadSucceeded
<1>14. CASE Crash
  <2>1. pc'[r] = IF InFlight(r) THEN "crashed" ELSE pc[r]
    BY <1>14 DEF Crash
  <2>2. Forget({q \in Requests : InFlight(q)})
    BY <1>14 DEF Crash
  <2> QED BY <2>1, <2>2, ForgetParts DEF LocalsOf, Working
<1>15. CASE UNCHANGED <<pc, locals>>
  BY <1>15 DEF locals, LocalsOf
<1>16. CASE RootChange \/ \E s \in Sources : CliWrite(s) \/ Remove(s) \/ Chmod(s)
  BY <1>15, <1>16 DEF RootChange, CliWrite, Remove, Chmod, ChangeFile
<1>17. CASE UNCHANGED vars
  BY <1>15, <1>17 DEF vars
<1> HIDE DEF Goal
<1> QED BY <1>3, <1>4, <1>5, <1>6, <1>7, <1>8, <1>9, <1>10, <1>11, <1>12, <1>13,
           <1>14, <1>16, <1>17 DEF Next, Environment, Step

\* A step leaves the run row of a call alone or is one of the three that write it.
LEMMA StepOfRun ==
  ASSUME TypeOK, [Next]_vars, NEW r \in Requests
  PROVE  \/ run'[r] = run[r]
         \/ /\ Create(r) /\ run'[r] = RunningRun
            /\ pc'[r] = "list" /\ UNCHANGED <<files, rows, locals>>
         \/ /\ run'[r] = FailedRun(run[r])
            /\ pc'[r] = "reload_failed" /\ UNCHANGED <<files, rows, locals>>
         \/ CommitsNow(r)
<1> DEFINE Goal ==
         \/ run'[r] = run[r]
         \/ /\ Create(r) /\ run'[r] = RunningRun
            /\ pc'[r] = "list" /\ UNCHANGED <<files, rows, locals>>
         \/ /\ run'[r] = FailedRun(run[r])
            /\ pc'[r] = "reload_failed" /\ UNCHANGED <<files, rows, locals>>
         \/ CommitsNow(r)
<1> SUFFICES Goal
  OBVIOUS
<1>1. CASE UNCHANGED run
  BY <1>1
<1>2. ASSUME NEW q \in Requests, NEW new, run' = [run EXCEPT ![q] = new], q # r
      PROVE  Goal
  BY <1>2 DEF TypeOK
<1>3. ASSUME NEW q \in Requests, Create(q) PROVE Goal
  <2>1. CASE q = r
    <3>1. Create(r)
      BY <1>3, <2>1
    <3>2. CASE run' = [run EXCEPT ![r] = RunningRun] /\ Goto(r, "list")
      BY <3>1, <3>2 DEF Create, Goto, TypeOK
    <3> QED BY <1>1, <3>1, <3>2 DEF Create
  <2>2. CASE q # r
    BY <1>1, <1>2, <1>3, <2>2 DEF Create
  <2> QED BY <2>1, <2>2
<1>4. ASSUME NEW q \in Requests, HandleRootFailure(q) \/ HandlePersistenceFailure(q)
      PROVE  Goal
  <2>1. MarkFailed(q)
    BY <1>4 DEF HandleRootFailure, HandlePersistenceFailure
  <2>2. CASE q = r
    BY <1>1, <2>1, <2>2 DEF MarkFailed, Goto, TypeOK
  <2>3. CASE q # r
    BY <1>1, <1>2, <2>1, <2>3 DEF MarkFailed
  <2> QED BY <2>2, <2>3
<1>5. ASSUME NEW q \in Requests, Commit(q) PROVE Goal
  <2>1. CASE CommitsNow(q) /\ q = r
    BY <2>1
  <2>2. CASE CommitsNow(q) /\ q # r
    BY <1>2, <2>2 DEF CommitsNow
  <2> QED BY <1>1, <1>5, <2>1, <2>2, CommitOrFail DEF database
<1>6. ASSUME NEW q \in Requests, Lookup(q) \/ Relookup(q) \/ List(q) \/ ReadSource(q)
               \/ BeginTransaction(q) \/ PersistSession(q) \/ ReloadSucceeded(q)
               \/ ReloadFailed(q)
      PROVE UNCHANGED run
  BY <1>6 DEF Lookup, Relookup, List, ReadSource, BeginTransaction, PersistSession,
              ReloadSucceeded, ReloadFailed, database
<1>7. ASSUME Environment \/ UNCHANGED vars PROVE UNCHANGED run
  BY <1>7 DEF Environment, Crash, RootChange, CliWrite, Remove, Chmod, ChangeFile, vars,
              database
<1> HIDE DEF Goal
<1> QED BY <1>1, <1>3, <1>4, <1>5, <1>6, <1>7 DEF Next, Step

\* The table changes at a commit only.
LEMMA StepOfRows ==
  ASSUME TypeOK, [Next]_vars
  PROVE  UNCHANGED rows \/ \E r \in Requests : CommitsNow(r)
<1>1. ASSUME NEW q \in Requests, Commit(q)
      PROVE  UNCHANGED rows \/ \E r \in Requests : CommitsNow(r)
  BY <1>1, CommitOrFail DEF database
<1>2. ASSUME NEW q \in Requests, Lookup(q) \/ Create(q) \/ Relookup(q) \/ List(q)
               \/ ReadSource(q) \/ HandleRootFailure(q) \/ HandlePersistenceFailure(q)
               \/ BeginTransaction(q) \/ PersistSession(q) \/ ReloadSucceeded(q)
               \/ ReloadFailed(q)
      PROVE UNCHANGED rows
  BY <1>2 DEF Lookup, Create, Relookup, List, ReadSource, HandleRootFailure,
              HandlePersistenceFailure, MarkFailed, BeginTransaction, PersistSession,
              ReloadSucceeded, ReloadFailed, database
<1>3. ASSUME Environment \/ UNCHANGED vars PROVE UNCHANGED rows
  BY <1>3 DEF Environment, Crash, RootChange, CliWrite, Remove, Chmod, ChangeFile, vars,
              database
<1> QED BY <1>1, <1>2, <1>3 DEF Next, Step

\* The files change by a write, a removal or a chmod, which is all that happens
\* in that step.
LEMMA StepOfFiles ==
  ASSUME TypeOK, [Next]_vars
  PROVE  \/ UNCHANGED <<raw, now>>
         \/ \E s \in Sources, file \in RawFiles :
              /\ ChangeFile(s, file)
              /\ \/ file.health # "absent" /\ file.mtime = now + 1
                 \/ file = Absent
                 \/ file = [raw[s] EXCEPT !.readable = ~@]
<1> DEFINE Change == \E s \in Sources, file \in RawFiles :
              /\ ChangeFile(s, file)
              /\ \/ file.health # "absent" /\ file.mtime = now + 1
                 \/ file = Absent
                 \/ file = [raw[s] EXCEPT !.readable = ~@]
<1> SUFFICES UNCHANGED <<raw, now>> \/ Change
  OBVIOUS
<1>1. ASSUME NEW s \in Sources, CliWrite(s) PROVE Change
  <2>1. PICK file \in FilesOf(s, now + 1) : ChangeFile(s, file)
    BY <1>1 DEF CliWrite
  <2>2. file \in RawFiles
    BY FilesOfType DEF TypeOK
  <2>3. file.health # "absent" /\ file.mtime = now + 1
    BY FilesAssumption DEF FilesOf, AllHealths
  <2> QED BY <2>1, <2>2, <2>3
<1>2. ASSUME NEW s \in Sources, Remove(s) PROVE Change
  BY <1>2, EmptyTypes DEF Remove
<1>3. ASSUME NEW s \in Sources, Chmod(s) PROVE Change
  <2>1. [raw[s] EXCEPT !.readable = ~@] \in RawFiles
    BY DEF TypeOK, RawFiles
  <2> QED BY <1>3, <2>1 DEF Chmod
<1>4. ASSUME NEW q \in Requests, Lookup(q) \/ Step(q) PROVE UNCHANGED <<raw, now>>
  BY <1>4 DEF Step, Lookup, Create, Relookup, List, ReadSource, HandleRootFailure,
              HandlePersistenceFailure, MarkFailed, BeginTransaction, PersistSession,
              ReloadSucceeded, ReloadFailed, Commit, files
<1>5. ASSUME Crash \/ RootChange \/ UNCHANGED vars PROVE UNCHANGED <<raw, now>>
  BY <1>5 DEF Crash, RootChange, vars, files
<1> HIDE DEF Change
<1> QED BY <1>1, <1>2, <1>3, <1>4, <1>5 DEF Next, Environment

\* A call works on from where it was, or begins by the insert of its run.
LEMMA WorkGoesOn ==
  ASSUME TypeOK, [Next]_vars, NEW r \in Requests, Working(r)'
  PROVE  \/ Working(r) /\ run'[r] = run[r]
         \/ /\ Create(r) /\ run'[r] = RunningRun
            /\ pc'[r] = "list" /\ UNCHANGED <<files, rows, locals>>
<1>1. \/ Working(r)
      \/ Create(r) /\ pc'[r] = "list"
  BY StepOfLocals
     DEF LocalsOf, Working, List, ReadSource, BeginTransaction, Saves, CommitsNow
<1>2. CASE Working(r)
  BY <1>2, StepOfRun DEF Working, Create, CommitsNow, Goto, TypeOK
<1>3. CASE Create(r) /\ pc'[r] = "list"
  BY <1>3 DEF Create, Goto, TypeOK
<1> QED BY <1>1, <1>2, <1>3

-----------------------------------------------------------------------------
(* The counts                                                              *)

LEMMA SavedIsDone ==
  ASSUME TypeOK, NEW r \in Requests, NEW s \in Sources, Saves(r, s),
         todo[r] \subseteq Persistable(r)
  PROVE  /\ Persistable(r)' = Persistable(r) /\ todo'[r] \subseteq Persistable(r)
         /\ s \in Persistable(r) /\ s \notin Done(r) /\ Done(r)' = Done(r) \cup {s}
<1>1. s \in todo[r] /\ sessions' = sessions /\ todo'[r] = todo[r] \ {s}
  BY DEF Saves, IsNext, TypeOK
<1>2. Persistable(r)' = Persistable(r)
  BY <1>1 DEF Persistable
<1> QED BY <1>1, <1>2 DEF Done

\* Each session saved is counted once.
LEMMA SavedIsCounted ==
  ASSUME TypeOK, NEW r \in Requests, NEW s \in Sources, Saves(r, s)
  PROVE  counts'[r].inserted + counts'[r].updated + counts'[r].skipped
           = counts[r].inserted + counts[r].updated + counts[r].skipped + 1
<1>1. \/ counts' = [counts EXCEPT ![r].inserted = @ + 1]
      \/ counts' = [counts EXCEPT ![r].skipped = @ + 1]
      \/ counts' = [counts EXCEPT ![r].updated = @ + 1]
  BY DEF Saves, SaveSession, Insert, Skip, Update
<1>2. counts[r] \in CountsHash
  BY DEF TypeOK
<1>3. \/ counts'[r] = [counts[r] EXCEPT !.inserted = @ + 1]
      \/ counts'[r] = [counts[r] EXCEPT !.skipped = @ + 1]
      \/ counts'[r] = [counts[r] EXCEPT !.updated = @ + 1]
  BY <1>1 DEF TypeOK
<1> QED BY <1>2, <1>3 DEF CountsHash

\* The listed sources are those saved and those that are workspace-only.
LEMMA ListedSources ==
  ASSUME NEW r \in Requests
  PROVE  Cardinality({s \in Sources : sessions[r][s].state # "unlisted"})
           = Cardinality(Persistable(r))
             + Cardinality({s \in Sources : sessions[r][s].state = "workspace_only"})
<1> DEFINE only == {s \in Sources : sessions[r][s].state = "workspace_only"}
<1>1. IsFiniteSet(Persistable(r)) /\ IsFiniteSet(only)
  BY SourcesAssumption, FS_Subset DEF Persistable
<1>2. Persistable(r) \cap only = {}
  BY DEF Persistable
<1>3. {s \in Sources : sessions[r][s].state # "unlisted"} = Persistable(r) \cup only
  BY DEF Persistable
<1>4. Cardinality(Persistable(r) \cup only)
        = Cardinality(Persistable(r)) + Cardinality(only) - Cardinality(Persistable(r) \cap only)
  BY <1>1, FS_Union
<1>5. Cardinality(Persistable(r)) \in Nat /\ Cardinality(only) \in Nat
  BY <1>1, FS_CardinalityType
<1>6. Cardinality(Persistable(r) \cap only) = 0
  BY <1>2, FS_EmptySet
<1>7. Cardinality(Persistable(r) \cup only) = Cardinality(Persistable(r)) + Cardinality(only)
  BY <1>4, <1>5, <1>6
<1> QED BY <1>3, <1>7

LEMMA InitCounts == Init => CountsInvariant
BY DEF Init, CountsInvariant, CountsAccountForEverySource

LEMMA NextCounts ==
  TypeOK /\ SyncInvariant /\ CountsInvariant /\ [Next]_vars => CountsInvariant'
<1> SUFFICES ASSUME TypeOK, SyncInvariant, CountsInvariant, [Next]_vars,
                    NEW r \in Requests
             PROVE  /\ pc'[r] = "persist"
                         => todo'[r] \subseteq Persistable(r)' /\ CountsOfDone(r)'
                    /\ pc'[r] = "reload" =>
                         run'[r].processed = run'[r].inserted + run'[r].updated + run'[r].skipped
                           + Cardinality({s \in Sources : sessions'[r][s].state = "workspace_only"})
  BY DEF CountsInvariant, CountsAccountForEverySource
<1>1. ASSUME pc'[r] = "persist"
      PROVE  todo'[r] \subseteq Persistable(r)' /\ CountsOfDone(r)'
  <2>1. CASE UNCHANGED LocalsOf(r)
    BY <1>1, <2>1 DEF LocalsOf, CountsInvariant, CountsOfDone, Done, Persistable
  <2>2. CASE BeginTransaction(r)
    <3>1. /\ todo'[r] = Persistable(r) /\ Persistable(r)' = Persistable(r)
          /\ counts'[r] = NoCounts
      BY <2>2 DEF BeginTransaction, Persistable, TypeOK
    <3>2. Done(r)' = {}
      BY <3>1 DEF Done
    <3> QED BY <3>1, <3>2, FS_EmptySet DEF CountsOfDone, NoCounts
  <2>3. ASSUME NEW s \in Sources, Saves(r, s)
        PROVE  todo'[r] \subseteq Persistable(r)' /\ CountsOfDone(r)'
    <3>1. todo[r] \subseteq Persistable(r) /\ CountsOfDone(r)
      BY <2>3 DEF Saves, CountsInvariant
    <3>2. IsFiniteSet(Done(r))
      BY SourcesAssumption, FS_Subset DEF Done, Persistable
    <3>3. /\ Persistable(r)' = Persistable(r) /\ todo'[r] \subseteq Persistable(r)
          /\ s \notin Done(r) /\ Done(r)' = Done(r) \cup {s}
      BY <2>3, <3>1, SavedIsDone
    <3>4. Cardinality(Done(r)') = Cardinality(Done(r)) + 1
      BY <3>2, <3>3, FS_AddElement
    <3> QED BY <2>3, <3>1, <3>3, <3>4, SavedIsCounted DEF CountsOfDone
  <2>4. ~List(r) /\ ~(ReadSource(r) /\ UNCHANGED pc) /\ ~CommitsNow(r)
    BY <1>1 DEF List, ReadSource, CommitsNow, Goto, TypeOK
  <2> QED BY <1>1, <2>1, <2>2, <2>3, <2>4, StepOfLocals DEF Working
<1>2. ASSUME pc'[r] = "reload"
      PROVE  run'[r].processed = run'[r].inserted + run'[r].updated + run'[r].skipped
               + Cardinality({s \in Sources : sessions'[r][s].state = "workspace_only"})
  <2>1. CASE CommitsNow(r)
    <3>1. /\ run'[r] = SavedRun(r) /\ sessions' = sessions
          /\ Done(r) = Persistable(r) /\ CountsOfDone(r)
      BY <2>1 DEF CommitsNow, TypeOK, locals, CountsInvariant, Done
    <3>2. /\ SavedRun(r).processed
               = Cardinality({s \in Sources : sessions[r][s].state # "unlisted"})
          /\ SavedRun(r).inserted = counts[r].inserted
          /\ SavedRun(r).updated = counts[r].updated
          /\ SavedRun(r).skipped = counts[r].skipped
      BY DEF SavedRun
    <3> QED BY <3>1, <3>2, ListedSources DEF CountsOfDone
  <2>2. CASE UNCHANGED LocalsOf(r)
    <3>1. run'[r] = run[r]
      BY <1>2, <2>2, StepOfRun DEF LocalsOf, Create, CommitsNow
    <3> QED BY <1>2, <2>2, <3>1 DEF LocalsOf, CountsInvariant, CountsAccountForEverySource
  <2>3. ~List(r) /\ ~(ReadSource(r) /\ UNCHANGED pc) /\ ~BeginTransaction(r)
        /\ ~(\E s \in Sources : Saves(r, s))
    BY <1>2 DEF List, ReadSource, BeginTransaction, Saves, Goto, TypeOK
  <2> QED BY <1>2, <2>1, <2>2, <2>3, StepOfLocals
<1> QED BY <1>1, <1>2

\* A committed run accounts for every listed source once, however many sources
\* there are and whatever was damaged.
THEOREM CountsCorrect == Spec => []CountsAccountForEverySource
<1>1. Init => CountsInvariant
  BY InitCounts
<1>2. TypeOK /\ SyncInvariant /\ CountsInvariant /\ [Next]_vars => CountsInvariant'
  BY NextCounts
<1>3. CountsInvariant => CountsAccountForEverySource
  BY DEF CountsInvariant
<1> QED BY <1>1, <1>2, <1>3, InvariantCorrect, PTL DEF Spec

-----------------------------------------------------------------------------
(* The rows                                                                *)

LEMMA SecondsAreOrdered ==
  ASSUME NEW a \in Nat, NEW b \in Nat, a <= b, NEW t \in Nat \ {0}
  PROVE  a \div t <= b \div t
<1> DEFINE p == a \div t
           q == b \div t
<1>1. /\ p \in Nat /\ q \in Nat
      /\ t * p <= a /\ b < t * q + t
  OBVIOUS
<1> HIDE DEF p, q
<1>2. SUFFICES ASSUME p >= q + 1 PROVE FALSE
  BY <1>1 DEF p, q
<1>3. t * p >= t * q + t
  BY <1>1, <1>2
<1> QED BY <1>1, <1>3

LEMMA FirstSecond ==
  ASSUME NEW a \in Nat, NEW t \in Nat \ {0}, a >= t
  PROVE  a \div t >= 1
OBVIOUS

\* The step on the files and what was read of them: dates are kept.
LEMMA DatesNext ==
  TypeOK /\ FilesAreDated /\ ReadsAreDated /\ ReadsAreOld /\ [Next]_vars
    => FilesAreDated' /\ ReadsAreDated' /\ ReadsAreOld'
<1> SUFFICES ASSUME TypeOK, FilesAreDated, ReadsAreDated, ReadsAreOld, [Next]_vars
             PROVE  FilesAreDated' /\ ReadsAreDated' /\ ReadsAreOld'
  OBVIOUS
<1>0. TicksPerSecond \in Nat \ {0} /\ now \in Nat
  BY FilesAssumption DEF TypeOK
<1>1. FilesAreDated'
  <2>1. CASE UNCHANGED <<raw, now>>
    BY <2>1 DEF FilesAreDated
  <2>2. ASSUME NEW s \in Sources, NEW file \in RawFiles, ChangeFile(s, file),
               \/ file.health # "absent" /\ file.mtime = now + 1
               \/ file = Absent
               \/ file = [raw[s] EXCEPT !.readable = ~@]
        PROVE  FilesAreDated'
    <3>1. now' = now + 1 /\ raw' = [raw EXCEPT ![s] = file]
      BY <2>2 DEF ChangeFile
    <3>2. \/ raw[s].health = file.health /\ raw[s].mtime = file.mtime
          \/ file.health = "absent" /\ file.mtime = 0
          \/ file.health # "absent" /\ file.mtime = now + 1
      BY <2>2 DEF Absent, TypeOK, RawFiles
    <3>3. \A t \in Sources : raw[t].mtime \in Nat /\ file.mtime \in Nat
      BY DEF TypeOK, RawFiles
    <3> QED BY <1>0, <3>1, <3>2, <3>3 DEF FilesAreDated, TypeOK
  <2> QED BY <2>1, <2>2, StepOfFiles
<1>2. \A r \in Requests, s \in Sources :
        \/ sessions'[r][s].mtime = sessions[r][s].mtime
        \/ sessions'[r][s].mtime = 0
        \/ sessions'[r][s].mtime = raw[s].mtime /\ raw' = raw /\ now' = now
  <2> TAKE r \in Requests, s \in Sources
  <2>1. CASE List(r)
    <3>1. \/ sessions'[r] = sessions[r]
          \/ sessions'[r][s] \in {Listed(s), Unlisted(s)}
      BY <2>1 DEF List, TypeOK
    <3> QED BY <3>1 DEF Listed, Unlisted
  <2>2. CASE ReadSource(r) /\ UNCHANGED pc
    <3>1. PICK t \in Sources : sessions' = [sessions EXCEPT ![r][t] = ReadSession(t, raw[t])]
      BY <2>2 DEF ReadSource, Goto, TypeOK
    <3>2. sessions'[r][s] = IF s = t THEN ReadSession(t, raw[t]) ELSE sessions[r][s]
      BY <3>1 DEF TypeOK
    <3>3. raw' = raw /\ now' = now
      BY <2>2 DEF ReadSource, files
    <3> QED BY <3>2, <3>3 DEF ReadSession
  <2>3. CASE sessions'[r] = NoSessions
    BY <2>3 DEF NoSessions, Unlisted
  <2>4. CASE sessions'[r] = sessions[r]
    BY <2>4
  <2> QED BY <2>1, <2>2, <2>3, <2>4, StepOfLocals
       DEF LocalsOf, BeginTransaction, Saves, CommitsNow, locals
<1>3. ReadsAreOld'
  <2> SUFFICES ASSUME NEW r \in Requests, NEW s \in Sources
               PROVE  /\ sessions'[r][s].mtime <= now'
                      /\ raw'[s].health # "absent" => sessions'[r][s].mtime <= raw'[s].mtime
    BY DEF ReadsAreOld
  <2>1. /\ sessions[r][s].mtime \in Nat /\ raw[s].mtime \in Nat /\ now \in Nat
        /\ raw'[s].mtime \in Nat /\ now' \in Nat
    BY NextType DEF TypeOK, Sessions, RawFiles
  <2>2. /\ sessions[r][s].mtime <= now /\ raw[s].mtime <= now
        /\ raw[s].health # "absent" => sessions[r][s].mtime <= raw[s].mtime
    BY <1>0, <2>1 DEF ReadsAreOld, FilesAreDated
  <2>3. \/ raw' = raw /\ now' = now
        \/ /\ now' = now + 1
           /\ \/ raw'[s].health = raw[s].health /\ raw'[s].mtime = raw[s].mtime
              \/ raw'[s].health = "absent"
              \/ raw'[s].mtime = now + 1
    <3>1. ASSUME NEW t \in Sources, NEW file \in RawFiles, ChangeFile(t, file),
               \/ file.health # "absent" /\ file.mtime = now + 1
               \/ file = Absent
               \/ file = [raw[t] EXCEPT !.readable = ~@]
          PROVE  /\ now' = now + 1
                 /\ \/ raw'[s].health = raw[s].health /\ raw'[s].mtime = raw[s].mtime
                    \/ raw'[s].health = "absent"
                    \/ raw'[s].mtime = now + 1
      <4>1. now' = now + 1 /\ raw'[s] = IF s = t THEN file ELSE raw[s]
        BY <3>1 DEF ChangeFile, TypeOK
      <4>2. \/ file.health = "absent" \/ file.mtime = now + 1
            \/ (file.health = raw[t].health /\ file.mtime = raw[t].mtime)
        BY <3>1 DEF Absent, TypeOK, RawFiles
      <4> QED BY <4>1, <4>2
    <3> QED BY <3>1, StepOfFiles
  <2> QED BY <1>2, <2>1, <2>2, <2>3
<1>4. ReadsAreDated'
  <2>1. \A s \in Sources : Dated(raw[s].mtime)
    BY DEF FilesAreDated, Dated
  <2>2. \A r \in Requests, s \in Sources : Dated(sessions'[r][s].mtime)
    BY <1>2, <2>1 DEF ReadsAreDated, Dated
  <2>3. \A r \in Requests, i \in SessionIds : Dated(tx'[r][i].mtime)
    <3> TAKE r \in Requests, i \in SessionIds
    <3>1. CASE tx'[r] = tx[r]
      BY <3>1 DEF ReadsAreDated
    <3>2. CASE tx'[r] = NoRows
      BY <3>2 DEF NoRows, NoRow, Dated
    <3>3. CASE BeginTransaction(r)
      BY <3>3 DEF BeginTransaction, ReadsAreDated, TypeOK
    <3>4. ASSUME NEW s \in Sources, Saves(r, s) PROVE Dated(tx'[r][i].mtime)
      <4>1. UNCHANGED tx \/ tx' = [tx EXCEPT ![r][sessions[r][s].id] =
                                      Record(s, sessions[r][s], Stamp(raw[s]))]
        BY <3>4 DEF Saves, SaveSession, Insert, Skip, Update
      <4>2. tx'[r][i] = tx[r][i] \/ tx'[r][i] = Record(s, sessions[r][s], Stamp(raw[s]))
        BY <4>1 DEF TypeOK
      <4> QED BY <4>2 DEF Record, ReadsAreDated
    <3> QED BY <3>1, <3>2, <3>3, <3>4, StepOfLocals
         DEF LocalsOf, List, ReadSource, CommitsNow, locals, Forget
  <2>4. \A i \in SessionIds : Dated(rows'[i].mtime)
    BY StepOfRows DEF ReadsAreDated, CommitsNow
  <2> QED BY <2>2, <2>3, <2>4 DEF ReadsAreDated
<1> QED BY <1>1, <1>3, <1>4

\* A row that is skipped although it is older than what was read is stale for
\* one of the reasons given.
LEMMA SkippedIsExplained ==
  ASSUME TypeOK, FilesAreDated, ReadsAreDated, ReadsAreOld,
         NEW r \in Requests, NEW s \in Sources, NEW row \in Rows, Dated(row.mtime),
         row.stamp = Stamp(raw[s])
  PROVE  IsExplained(row, sessions[r][s])
<1> DEFINE read == sessions[r][s].mtime
<1>0. TicksPerSecond \in Nat \ {0}
  BY FilesAssumption
<1>1. row.mtime \in Nat /\ read \in Nat /\ raw[s].mtime \in Nat
  BY DEF TypeOK, Rows, Sessions, RawFiles
<1>2. SUFFICES ASSUME row.mtime < read,
                      row.stamp.sec = row.mtime \div TicksPerSecond,
                      row.mtime # 0 \/ row.stamp # MissingStamp
               PROVE  row.mtime \div TicksPerSecond = read \div TicksPerSecond
  BY <1>1 DEF IsExplained
<1> HIDE DEF read
<1>3. CASE raw[s].health = "absent"
  <2>1. row.stamp = MissingStamp /\ row.stamp.sec = 0
    BY <1>3 DEF Stamp, MissingStamp
  <2>2. row.mtime >= TicksPerSecond
    BY <1>2, <2>1 DEF Dated
  <2>3. row.mtime \div TicksPerSecond >= 1
    BY <1>0, <1>1, <2>2, FirstSecond
  <2> QED BY <1>2, <2>1, <2>3
<1>4. CASE raw[s].health # "absent"
  <2>1. read <= raw[s].mtime
    BY <1>4 DEF ReadsAreOld, read
  <2>2. raw[s].mtime \div TicksPerSecond = row.mtime \div TicksPerSecond
    BY <1>2, <1>4 DEF Stamp
  <2>3. /\ row.mtime \div TicksPerSecond <= read \div TicksPerSecond
        /\ read \div TicksPerSecond <= raw[s].mtime \div TicksPerSecond
    <3>1. row.mtime <= read
      BY <1>1, <1>2
    <3> QED BY <1>0, <1>1, <2>1, <3>1, SecondsAreOrdered
  <2>4. /\ row.mtime \div TicksPerSecond \in Int
        /\ read \div TicksPerSecond \in Int
    BY <1>0, <1>1
  <2> QED BY <2>2, <2>3, <2>4
<1> QED BY <1>3, <1>4

\* The row of the session just saved shows it.
LEMMA SavedRowShows ==
  ASSUME TypeOK, FilesAreDated, ReadsAreDated, ReadsAreOld,
         NEW r \in Requests, NEW s \in Sources, Saves(r, s)
  PROVE  LET row == tx'[r][sessions[r][s].id]
         IN Projects(row, s, sessions[r][s]) /\ IsExplained(row, sessions[r][s])
<1> DEFINE id == sessions[r][s].id
           new == Record(s, sessions[r][s], Stamp(raw[s]))
<1>1. id \in SessionIds /\ sessions[r][s].mtime \in Nat
  BY DEF TypeOK, Sessions
<1>2. CASE tx' = [tx EXCEPT ![r][id] = new]
  <2>1. tx'[r][id] = new
    BY <1>1, <1>2 DEF TypeOK
  <2> QED BY <1>1, <2>1 DEF Record, Projects, IsExplained
<1>3. CASE UNCHANGED tx /\ Unchanged(tx[r][id], s, sessions[r][s], Stamp(raw[s]))
  <2>1. tx'[r][id] = tx[r][id] /\ tx[r][id] \in Rows /\ Dated(tx[r][id].mtime)
    BY <1>1, <1>3 DEF TypeOK, ReadsAreDated
  <2>2. IsExplained(tx[r][id], sessions[r][s])
    BY <1>3, <2>1, SkippedIsExplained DEF Unchanged
  <2>3. Projects(tx[r][id], s, sessions[r][s])
    BY <1>3 DEF Unchanged, Projects
  <2> QED BY <2>1, <2>2, <2>3
<1> QED BY <1>2, <1>3 DEF Saves, SaveSession, Insert, Skip, Update

LEMMA InitRows == Init => RowsInvariant
<1> SUFFICES ASSUME Init PROVE RowsInvariant
  OBVIOUS
<1>0. TicksPerSecond \in Nat \ {0}
  BY FilesAssumption
<1>1. \A s \in Sources : raw[s] = Absent \/ (raw[s].health # "absent" /\ raw[s].mtime = now)
  BY FilesAssumption DEF Init, FilesOf, AllHealths
<1>2. FilesAreDated
  BY <1>0, <1>1 DEF Init, FilesAreDated, Absent
<1>3. \A r \in Requests, s \in Sources : sessions[r][s].mtime = 0
  BY DEF Init, NoSessions, Unlisted
<1>4. ReadsAreOld
  BY <1>0, <1>1, <1>3 DEF Init, ReadsAreOld, Absent
<1>5. \A i \in SessionIds : Dated(rows[i].mtime)
  <2>1. \A s \in Sources : OldRow(s).mtime = raw[s].mtime
    BY DEF OldRow, Record, ReadSession
  <2>2. \A s \in Sources : Dated(raw[s].mtime)
    BY <1>2 DEF FilesAreDated, Dated
  <2> QED BY <2>1, <2>2 DEF Init, NoRow, Dated
<1>6. \A r \in Requests, i \in SessionIds : Dated(tx[r][i].mtime)
  BY DEF Init, NoRows, NoRow, Dated
<1> QED BY <1>2, <1>3, <1>4, <1>5, <1>6 DEF RowsInvariant, ReadsAreDated, Dated, Init

LEMMA NextRows ==
  TypeOK /\ SyncInvariant /\ RowsInvariant /\ [Next]_vars => RowsInvariant'
<1> SUFFICES ASSUME TypeOK, SyncInvariant, RowsInvariant, [Next]_vars
             PROVE  RowsInvariant'
  OBVIOUS
<1>1. FilesAreDated' /\ ReadsAreDated' /\ ReadsAreOld'
  BY DatesNext DEF RowsInvariant
<1>2. ASSUME NEW r \in Requests, pc'[r] = "persist"
      PROVE  SavesInOrder(r)' /\ SavedRowsShow(r)'
  <2>1. CASE UNCHANGED LocalsOf(r)
    BY <1>2, <2>1
       DEF LocalsOf, RowsInvariant, SavesInOrder, SavedRowsShow, Done, Persistable
  <2>2. CASE BeginTransaction(r)
    <3>1. todo'[r] = Persistable(r) /\ Persistable(r)' = Persistable(r)
      BY <2>2 DEF BeginTransaction, Persistable, TypeOK
    <3>2. Done(r)' = {}
      BY <3>1 DEF Done
    <3> QED BY <3>1, <3>2 DEF SavesInOrder, SavedRowsShow
  <2>3. ASSUME NEW s \in Sources, Saves(r, s)
        PROVE  SavesInOrder(r)' /\ SavedRowsShow(r)'
    <3>0. SavesInOrder(r) /\ SavedRowsShow(r)
      BY <2>3 DEF Saves, RowsInvariant
    <3>1. /\ Persistable(r)' = Persistable(r) /\ todo'[r] \subseteq Persistable(r)
          /\ s \in Persistable(r) /\ s \notin Done(r) /\ Done(r)' = Done(r) \cup {s}
      BY <2>3, <3>0, SavedIsDone DEF SavesInOrder
    <3>2. /\ s \in todo[r] /\ \A t \in todo[r] : s <= t
          /\ todo'[r] = todo[r] \ {s} /\ sessions' = sessions
      BY <2>3 DEF Saves, IsNext, TypeOK
    <3>3. todo[r] \subseteq Sources /\ Done(r) \subseteq Sources /\ Sources \subseteq Nat
      BY SourcesAssumption DEF TypeOK, Done, Persistable
    <3>4. SavesInOrder(r)'
      BY <3>0, <3>1, <3>2, <3>3 DEF SavesInOrder
    <3>5. ASSUME NEW t \in Done(r)',
                 \A u \in Done(r)' : u > t => sessions'[r][u].id # sessions'[r][t].id
          PROVE  /\ Projects(tx'[r][sessions'[r][t].id], t, sessions'[r][t])
                 /\ IsExplained(tx'[r][sessions'[r][t].id], sessions'[r][t])
      <4>1. CASE t = s
        BY <2>3, <3>2, <4>1, SavedRowShows DEF RowsInvariant
      <4>2. CASE t # s
        <5>1. t \in Done(r) /\ s > t
          BY <3>0, <3>1, <3>2, <3>3, <4>2 DEF SavesInOrder
        <5>2. sessions[r][s].id # sessions[r][t].id
          BY <3>1, <3>2, <3>5, <5>1
        <5>3. \/ UNCHANGED tx
              \/ tx' = [tx EXCEPT ![r][sessions[r][s].id] =
                          Record(s, sessions[r][s], Stamp(raw[s]))]
          BY <2>3 DEF Saves, SaveSession, Insert, Skip, Update
        <5>4. sessions[r][t].id \in SessionIds
          <6>1. t \in Sources
            BY <3>3, <5>1
          <6> QED BY <6>1 DEF TypeOK, Sessions
        <5>5. tx'[r][sessions[r][t].id] = tx[r][sessions[r][t].id]
          BY <5>2, <5>3, <5>4 DEF TypeOK
        <5> QED BY <3>0, <3>1, <3>2, <3>5, <5>1, <5>5 DEF SavedRowsShow
      <4> QED BY <4>1, <4>2
    <3> QED BY <3>4, <3>5 DEF SavedRowsShow
  <2>4. ~List(r) /\ ~(ReadSource(r) /\ UNCHANGED pc) /\ ~CommitsNow(r)
    BY <1>2 DEF List, ReadSource, CommitsNow, Goto, TypeOK
  <2> QED BY <1>2, <2>1, <2>2, <2>3, <2>4, StepOfLocals DEF Working
<1> QED BY <1>1, <1>2 DEF RowsInvariant

\* Dates, the order of saving and the rows saved so far, in every reachable state.
THEOREM RowsInvariantHolds == Spec => []RowsInvariant
<1>1. Init => RowsInvariant
  BY InitRows
<1>2. TypeOK /\ SyncInvariant /\ RowsInvariant /\ [Next]_vars => RowsInvariant'
  BY NextRows
<1> QED BY <1>1, <1>2, InvariantCorrect, PTL DEF Spec

\* What a commit leaves of the sessions it read.
LEMMA CommittedRows ==
  ASSUME TypeOK, RowsInvariant, [Next]_vars, NEW r \in Requests, Commits(r),
         NEW s \in LastWithItsId(r)
  PROVE  /\ Projects(rows'[sessions[r][s].id], s, sessions[r][s])
         /\ IsExplained(rows'[sessions[r][s].id], sessions[r][s])
<1>1. CommitsNow(r)
  <2>1. pc[r] = "persist" /\ pc'[r] = "reload"
    BY DEF Commits
  <2> QED BY <2>1, StepOfLocals
       DEF LocalsOf, List, ReadSource, BeginTransaction, Saves
<1>2. rows' = tx[r] /\ Done(r) = Persistable(r) /\ SavedRowsShow(r)
  BY <1>1 DEF CommitsNow, RowsInvariant, Done
<1>3. s \in Done(r) /\ \A t \in Done(r) : t > s => sessions[r][t].id # sessions[r][s].id
  BY <1>2 DEF LastWithItsId
<1> QED BY <1>2, <1>3 DEF SavedRowsShow

\* After a committed sync each row shows the source and directory last read
\* under its id, for any sources, rows of older releases and changes of files.
THEOREM RowsAreProjected == Spec => SyncedRowsAreProjected
<1>1. TypeOK /\ RowsInvariant /\ [Next]_vars =>
        [\A r \in Requests : Commits(r) =>
           \A s \in LastWithItsId(r) :
             Projects(rows'[sessions[r][s].id], s, sessions[r][s])]_vars
  BY CommittedRows
<1> QED BY <1>1, TypeCorrect, RowsInvariantHolds, PTL DEF Spec, SyncedRowsAreProjected

\* A row is older than what the committed sync read for the three reasons only,
\* whatever the length of a second and however often the files change.
THEOREM StaleRowsCorrect == Spec => StaleRowsAreExplained
<1>1. TypeOK /\ RowsInvariant /\ [Next]_vars =>
        [\A r \in Requests : Commits(r) =>
           \A s \in LastWithItsId(r) :
             IsExplained(rows'[sessions[r][s].id], sessions[r][s])]_vars
  BY CommittedRows
<1> QED BY <1>1, TypeCorrect, RowsInvariantHolds, PTL DEF Spec, StaleRowsAreExplained

-----------------------------------------------------------------------------
(* Quiet resyncs                                                           *)

\* The clock stands exactly while the files do.
LEMMA ClockOfFiles ==
  ASSUME TypeOK, [Next]_vars
  PROVE  /\ now \in Nat /\ now' \in Nat /\ now <= now'
         /\ now' = now => raw' = raw
<1>1. now \in Nat
  BY DEF TypeOK
<1> QED BY <1>1, StepOfFiles DEF ChangeFile

LEMMA ClockType == TypeOK => now \in Nat
BY DEF TypeOK

LEMMA RunTypes ==
  ASSUME TypeOK, NEW r \in Requests
  PROVE  /\ run[r].started \in Nat /\ run[r].finished \in Nat
         /\ run[r].inserted \in Nat /\ run[r].updated \in Nat
BY DEF TypeOK, Runs

\* What the steps that write a run row make of it.
LEMMA WrittenRuns ==
  ASSUME TypeOK, NEW r \in Requests
  PROVE  /\ RunningRun.status \notin SavedStatuses
         /\ RunningRun.started = now /\ RunningRun.finished = 0
         /\ FailedRun(run[r]).status \notin SavedStatuses
         /\ FailedRun(run[r]).started = run[r].started /\ FailedRun(run[r]).finished = now
         /\ SavedRun(r).started = run[r].started /\ SavedRun(r).finished = now
         /\ SavedRun(r).inserted = counts[r].inserted
         /\ SavedRun(r).updated = counts[r].updated
BY DEF RunningRun, NoRun, FailedRun, SavedRun, SavedStatuses, TypeOK, Runs

\* Only a commit makes a run a saved one, and nobody else works then.
LEMMA StepOfSaved ==
  ASSUME TypeOK, [Next]_vars, NEW q \in Requests, IsSaved(q)'
  PROVE  CommitsNow(q) \/ (IsSaved(q) /\ run'[q] = run[q])
BY StepOfRun, WrittenRuns DEF IsSaved

LEMMA CommitIsAlone ==
  ASSUME TypeOK, SyncInvariant, NEW q \in Requests, CommitsNow(q)
  PROVE  /\ UNCHANGED files /\ rows' = tx[q] /\ run'[q] = SavedRun(q)
         /\ Working(q) /\ ~Working(q)' /\ pc[q] = "persist"
         /\ \A r \in Requests : r # q => ~Working(r) /\ run'[r] = run[r] /\ ~Working(r)'
<1>1. /\ UNCHANGED files /\ rows' = tx[q] /\ run'[q] = SavedRun(q)
      /\ pc[q] = "persist" /\ pc'[q] = "reload"
  BY DEF CommitsNow, Goto, TypeOK
<1>2. Working(q) /\ ~Working(q)'
  BY <1>1 DEF Working
<1>3. ASSUME NEW r \in Requests, r # q
      PROVE  ~Working(r) /\ run'[r] = run[r] /\ ~Working(r)'
  <2>1. ~Working(r)
    BY <1>2, <1>3 DEF SyncInvariant, RunFollowsCall, LockIsTheRunningRun
  <2>2. run'[r] = run[r] /\ pc'[r] = pc[r]
    BY <1>3 DEF CommitsNow, Goto, TypeOK
  <2> QED BY <2>1, <2>2 DEF Working
<1> QED BY <1>1, <1>2, <1>3

LEMMA NextOrder ==
  TypeOK /\ SyncInvariant /\ RunsAreOrdered /\ [Next]_vars => RunsAreOrdered'
<1> SUFFICES ASSUME TypeOK, SyncInvariant, RunsAreOrdered, [Next]_vars
             PROVE  RunsAreOrdered'
  OBVIOUS
<1>0. now \in Nat /\ now' \in Nat /\ now <= now'
  BY ClockOfFiles
<1>1. ASSUME NEW r \in Requests PROVE run'[r].started <= now' /\ run'[r].finished <= now'
  <2>1. run[r].started <= now /\ run[r].finished <= now
    BY DEF RunsAreOrdered
  <2>2. run[r].started \in Nat /\ run[r].finished \in Nat
    BY RunTypes
  <2>3. /\ run'[r].started = run[r].started \/ run'[r].started = now
        /\ run'[r].finished \in {run[r].finished, 0, now}
    BY StepOfRun, WrittenRuns DEF CommitsNow, TypeOK
  <2> QED BY <1>0, <2>1, <2>2, <2>3
<1>2. ASSUME NEW q \in Requests, IsSaved(q)' PROVE run'[q].started <= run'[q].finished
  <2>1. CASE CommitsNow(q)
    BY <2>1, CommitIsAlone, WrittenRuns DEF RunsAreOrdered
  <2>2. CASE IsSaved(q) /\ run'[q] = run[q]
    BY <2>2 DEF RunsAreOrdered
  <2> QED BY <1>2, <2>1, <2>2, StepOfSaved
<1>3. ASSUME NEW q \in Requests, NEW r \in Requests, IsSaved(q)', Working(r)'
      PROVE  run'[q].finished <= run'[r].started
  <2>1. IsSaved(q) /\ run'[q] = run[q]
    BY <1>3, StepOfSaved, CommitIsAlone
  <2>2. CASE Working(r) /\ run'[r] = run[r]
    BY <2>1, <2>2 DEF RunsAreOrdered
  <2>3. CASE run'[r] = RunningRun
    BY <2>1, <2>3, WrittenRuns DEF RunsAreOrdered
  <2> QED BY <1>3, <2>2, <2>3, WorkGoesOn
<1> QED BY <1>1, <1>2, <1>3 DEF RunsAreOrdered

\* A call that nothing has disturbed was not disturbed before.
LEMMA StaysUndisturbed ==
  ASSUME TypeOK, RunsAreOrdered, [Next]_vars, NEW r \in Requests, Undisturbed(r)',
         pc'[r] # "list"
  PROVE  Undisturbed(r) /\ UNCHANGED <<raw, now>>
<1>1. Working(r) /\ run'[r] = run[r]
  BY WorkGoesOn DEF Undisturbed
<1>2. run[r].started = now' /\ run[r].started <= now /\ run[r].started \in Nat
  BY <1>1, RunTypes DEF Undisturbed, RunsAreOrdered
<1>3. now' = now /\ raw' = raw
  BY <1>2, ClockOfFiles
<1> QED BY <1>1, <1>2, <1>3 DEF Undisturbed

\* Nor was the file changed since a run that is fresh.
LEMMA StaysFresh ==
  ASSUME TypeOK, RunsAreOrdered, [Next]_vars, NEW q \in Requests, Fresh(q)'
  PROVE  CommitsNow(q) \/ (Fresh(q) /\ UNCHANGED <<raw, now>>)
<1>1. CASE IsSaved(q) /\ run'[q] = run[q]
  <2>1. /\ run[q].finished = now' /\ run[q].finished <= now /\ run[q].finished \in Nat
        /\ run[q].started = now'
    BY <1>1, RunTypes DEF Fresh, RunsAreOrdered
  <2>2. now' = now /\ raw' = raw
    BY <2>1, ClockOfFiles
  <2> QED BY <1>1, <2>1, <2>2 DEF Fresh
<1> QED BY <1>1, StepOfSaved DEF Fresh

LEMMA WorkAfterFresh ==
  ASSUME TypeOK, RunsAreOrdered, NEW q \in Requests, NEW r \in Requests,
         Fresh(q), Working(r)
  PROVE  Undisturbed(r)
<1>1. run[q].finished <= run[r].started /\ run[r].started <= now /\ run[q].finished = now
  BY DEF Fresh, RunsAreOrdered
<1>2. run[r].started = now
  BY <1>1, RunTypes, ClockType
<1> QED BY <1>2 DEF Undisturbed

LEMMA ReadIsListed ==
  ASSUME NEW s \in Sources
  PROVE  Current(s).state \notin {"unlisted", "listed"}
BY DEF Current, ReadSession, SourceState

LEMMA DistinctIds ==
  ASSUME IdsAreDistinct, NEW s \in Sources, NEW t \in Sources, s # t
  PROVE  Current(s).id # Current(t).id
<1>1. /\ Current(s).id \in {OwnId[s], DeclaredId[s]}
      /\ Current(t).id \in {OwnId[t], DeclaredId[t]}
  BY DEF Current, ReadSession
<1> QED BY <1>1 DEF IdsAreDistinct

LEMMA CurrentType ==
  ASSUME TypeOK, NEW s \in Sources
  PROVE  Current(s) \in Sessions /\ Current(s).id \in SessionIds
BY ReadSessionType DEF Current, TypeOK, Sessions

LEMMA NextReads ==
  TypeOK /\ RunsAreOrdered /\ UndisturbedReads /\ [Next]_vars => UndisturbedReads'
<1> SUFFICES ASSUME TypeOK, RunsAreOrdered, UndisturbedReads, [Next]_vars,
                    NEW r \in Requests, Undisturbed(r)'
             PROVE
    /\ pc'[r] = "read" =>
         /\ \A s \in todo'[r] : IsListed(s)'
         /\ \A s \in Sources : ~IsListed(s)' <=> sessions'[r][s].state = "unlisted"
         /\ \A s \in Sources : IsListed(s)' /\ s \notin todo'[r] => sessions'[r][s] = Current(s)'
    /\ pc'[r] = "persist" => \A s \in Sources :
         IF IsListed(s)' THEN sessions'[r][s] = Current(s)'
         ELSE sessions'[r][s].state = "unlisted"
  BY DEF UndisturbedReads
<1>1. CASE pc'[r] \notin {"read", "persist"}
  BY <1>1
<1>2. CASE pc'[r] \in {"read", "persist"}
  <2>1. Undisturbed(r) /\ raw' = raw
    BY <1>2, StaysUndisturbed
  <2>2. \A s \in Sources : (IsListed(s)' <=> IsListed(s)) /\ Current(s)' = Current(s)
    BY <2>1 DEF IsListed, Current
  <2>3. CASE UNCHANGED LocalsOf(r)
    <3>1. pc'[r] = pc[r] /\ sessions'[r] = sessions[r] /\ todo'[r] = todo[r]
      BY <2>3 DEF LocalsOf
    <3> QED BY <1>2, <2>1, <2>2, <3>1 DEF UndisturbedReads, IsListed
  <2>4. CASE List(r)
    <3>1. pc'[r] = "read" /\ todo'[r] = {s \in Sources : IsListed(s)}
      BY <1>2, <2>4 DEF List, Goto, TypeOK, IsListed
    <3>2. \A s \in Sources :
            sessions'[r][s] = IF IsListed(s) THEN Listed(s) ELSE Unlisted(s)
      BY <1>2, <2>4 DEF List, Goto, TypeOK, IsListed
    <3>3. \A s \in Sources :
            sessions'[r][s].state = IF raw'[s].health # "absent" THEN "listed" ELSE "unlisted"
      <4> TAKE s \in Sources
      <4>1. Listed(s).state = "listed" /\ Unlisted(s).state = "unlisted"
        BY DEF Listed, Unlisted
      <4> QED BY <2>1, <3>2, <4>1 DEF IsListed
    <3>4. \A s \in Sources : raw'[s].health # "absent" <=> s \in todo'[r]
      BY <2>1, <3>1 DEF IsListed
    <3>5. todo'[r] \subseteq Sources /\ pc'[r] # "persist"
      BY <3>1
    <3> QED BY <3>3, <3>4, <3>5 DEF IsListed
  <2>5. CASE ReadSource(r) /\ UNCHANGED pc
    <3>1. PICK s \in Sources :
            /\ s \in todo[r] /\ sessions' = [sessions EXCEPT ![r][s] = ReadSession(s, raw[s])]
            /\ todo' = [todo EXCEPT ![r] = @ \ {s}]
      BY <2>5 DEF ReadSource, Goto, TypeOK, IsNext
    <3>2. pc[r] = "read" /\ pc'[r] = "read"
      BY <2>5 DEF ReadSource
    <3>3. /\ todo'[r] = todo[r] \ {s}
          /\ \A t \in Sources : sessions'[r][t] = IF t = s THEN Current(s) ELSE sessions[r][t]
      BY <3>1 DEF TypeOK, Current
    <3>4. IsListed(s) /\ Current(s).state # "unlisted"
      BY <2>1, <3>1, <3>2, ReadIsListed DEF UndisturbedReads
    <3>5. todo[r] \subseteq Sources
      BY DEF TypeOK
    <3> QED BY <2>1, <2>2, <3>2, <3>3, <3>4, <3>5 DEF UndisturbedReads
  <2>6. CASE BeginTransaction(r)
    <3>1. /\ pc[r] = "read" /\ todo[r] = {} /\ sessions' = sessions /\ pc'[r] = "persist"
      BY <2>6 DEF BeginTransaction, Goto, TypeOK
    <3> QED BY <2>1, <2>2, <3>1 DEF UndisturbedReads
  <2>7. ASSUME NEW s \in Sources, Saves(r, s)
        PROVE  \A t \in Sources : IF IsListed(t)' THEN sessions'[r][t] = Current(t)'
                                  ELSE sessions'[r][t].state = "unlisted"
    <3>1. pc[r] = "persist" /\ sessions' = sessions
      BY <2>7 DEF Saves
    <3> QED BY <2>1, <2>2, <3>1 DEF UndisturbedReads
  <2>8. (\E s \in Sources : Saves(r, s)) => pc'[r] = "persist"
    BY DEF Saves
  <2>9. ~CommitsNow(r)
    BY <1>2 DEF CommitsNow, Goto, TypeOK
  <2> QED BY <1>2, <2>3, <2>4, <2>5, <2>6, <2>7, <2>8, <2>9, StepOfLocals DEF Working
<1> QED BY <1>1, <1>2

\* What an undisturbed call has still to save is listed and read as it is.
LEMMA PersistableCurrent ==
  ASSUME UndisturbedReads, NEW r \in Requests, Undisturbed(r), pc[r] = "persist",
         NEW s \in Sources
  PROVE  /\ s \in Persistable(r) => sessions[r][s] = Current(s)
         /\ s \in Persistable(r) <=> IsListed(s) /\ Current(s).state # "workspace_only"
<1>1. IF IsListed(s) THEN sessions[r][s] = Current(s) ELSE sessions[r][s].state = "unlisted"
  BY DEF UndisturbedReads
<1> QED BY <1>1, ReadIsListed DEF Persistable

LEMMA RecordIsCurrent ==
  ASSUME NEW s, NEW session, NEW stamp
  PROVE  Unchanged(Record(s, session, stamp), s, session, stamp)
BY DEF Record, Unchanged

LEMMA NextSaves ==
  TypeOK /\ RunsAreOrdered /\ IdsAreDistinct /\ UndisturbedReads /\ UndisturbedSaves
    /\ [Next]_vars => UndisturbedSaves'
<1> SUFFICES ASSUME TypeOK, RunsAreOrdered, IdsAreDistinct, UndisturbedReads,
                    UndisturbedSaves, [Next]_vars,
                    NEW r \in Requests, Undisturbed(r)', pc'[r] = "persist"
             PROVE  /\ todo'[r] \subseteq Persistable(r)'
                    /\ \A s \in Done(r)' : RowIsCurrent(tx[r], s)'
  BY DEF UndisturbedSaves
<1>1. Undisturbed(r) /\ raw' = raw
  BY StaysUndisturbed
<1>2. \A s \in Sources : Current(s)' = Current(s) /\ Stamp(raw[s])' = Stamp(raw[s])
  BY <1>1 DEF Current
<1>3. Done(r)' \subseteq Sources
  BY DEF Done, Persistable
<1>4. CASE UNCHANGED LocalsOf(r)
  <2>1. /\ pc[r] = "persist" /\ todo'[r] = todo[r] /\ tx'[r] = tx[r]
        /\ Persistable(r)' = Persistable(r) /\ Done(r)' = Done(r)
    BY <1>4 DEF LocalsOf, Done, Persistable
  <2> QED BY <1>1, <1>2, <1>3, <2>1 DEF UndisturbedSaves, RowIsCurrent
<1>5. CASE BeginTransaction(r)
  <2>1. todo'[r] = Persistable(r) /\ Persistable(r)' = Persistable(r)
    BY <1>5 DEF BeginTransaction, Persistable, TypeOK
  <2> QED BY <2>1 DEF Done
<1>6. ASSUME NEW s \in Sources, Saves(r, s)
      PROVE  /\ todo'[r] \subseteq Persistable(r)'
             /\ \A t \in Done(r)' : RowIsCurrent(tx[r], t)'
  <2>0. pc[r] = "persist"
    BY <1>6 DEF Saves
  <2>1. /\ Persistable(r)' = Persistable(r) /\ todo'[r] \subseteq Persistable(r)
        /\ s \in Persistable(r) /\ Done(r)' = Done(r) \cup {s}
    BY <1>1, <1>6, <2>0, SavedIsDone DEF UndisturbedSaves
  <2>2. sessions[r][s] = Current(s)
    BY <1>1, <2>0, <2>1, PersistableCurrent
  <2>3. \/ tx' = [tx EXCEPT ![r][Current(s).id] = Record(s, Current(s), Stamp(raw[s]))]
        \/ tx' = tx /\ RowIsCurrent(tx[r], s)
    BY <1>6, <2>2 DEF Saves, SaveSession, Insert, Skip, Update, RowIsCurrent
  <2>4. RowIsCurrent(tx[r], s)'
    <3>1. tx'[r][Current(s).id] = Record(s, Current(s), Stamp(raw[s]))
          \/ (tx' = tx /\ RowIsCurrent(tx[r], s))
      BY <2>3, CurrentType DEF TypeOK
    <3> QED BY <1>2, <3>1, RecordIsCurrent DEF RowIsCurrent
  <2>5. ASSUME NEW t \in Done(r), t # s PROVE RowIsCurrent(tx[r], t)'
    <3>1. t \in Sources /\ RowIsCurrent(tx[r], t)
      BY <1>1, <2>0 DEF UndisturbedSaves, Done, Persistable
    <3>2. Current(t).id # Current(s).id /\ Current(t).id \in SessionIds
      BY <2>5, <3>1, DistinctIds, CurrentType
    <3>3. tx'[r][Current(t).id] = tx[r][Current(t).id]
      BY <2>3, <3>2 DEF TypeOK
    <3> QED BY <1>2, <3>1, <3>3 DEF RowIsCurrent
  <2> QED BY <2>1, <2>4, <2>5
<1>7. ~List(r) /\ ~(ReadSource(r) /\ UNCHANGED pc) /\ ~CommitsNow(r)
  BY DEF List, ReadSource, CommitsNow, Goto, TypeOK
<1> QED BY <1>4, <1>5, <1>6, <1>7, StepOfLocals DEF Working

LEMMA NextFreshRows ==
  ASSUME TypeOK, SyncInvariant, RunsAreOrdered, UndisturbedReads, UndisturbedSaves,
         FreshRows, NEW q \in Requests, [Next]_vars, Fresh(q)',
         NEW s \in Sources, IsListed(s)', Current(s)'.state # "workspace_only"
  PROVE  RowIsCurrent(rows, s)'
<1>1. ASSUME NEW p \in Requests, CommitsNow(p) PROVE RowIsCurrent(rows, s)'
  <2>1. /\ raw' = raw /\ now' = now /\ rows' = tx[p] /\ Working(p) /\ pc[p] = "persist"
        /\ todo[p] = {}
    BY <1>1, CommitIsAlone DEF CommitsNow, files
  <2>2. Undisturbed(p)
    <3>1. CASE q = p
      BY <1>1, <2>1, <3>1, CommitIsAlone, WrittenRuns DEF Fresh, Undisturbed
    <3>2. CASE q # p
      <4>1. ~Working(q) /\ run'[q] = run[q]
        BY <1>1, <3>2, CommitIsAlone
      <4>2. Fresh(q)
        BY <2>1, <4>1 DEF Fresh, IsSaved
      <4> QED BY <2>1, <4>2, WorkAfterFresh
    <3> QED BY <3>1, <3>2
  <2>3. s \in Done(p)
    BY <2>1, <2>2, PersistableCurrent DEF Done, IsListed, Current
  <2>4. RowIsCurrent(tx[p], s)
    BY <2>1, <2>2, <2>3 DEF UndisturbedSaves
  <2> QED BY <2>1, <2>4 DEF RowIsCurrent, Current
<1>2. CASE ~\E p \in Requests : CommitsNow(p)
  <2>1. Fresh(q) /\ raw' = raw /\ rows' = rows
    BY <1>2, StaysFresh, StepOfRows
  <2>2. RowIsCurrent(rows, s)
    BY <2>1 DEF FreshRows, IsListed, Current
  <2> QED BY <2>1, <2>2 DEF RowIsCurrent, Current
<1> QED BY <1>1, <1>2

LEMMA NextNothingToSave ==
  ASSUME TypeOK, SyncInvariant, RunsAreOrdered, UndisturbedReads, UndisturbedSaves,
         FreshRows, NothingToSave, [Next]_vars,
         NEW q \in Requests, NEW r \in Requests, Fresh(q)', pc'[r] = "persist"
  PROVE  tx'[r] = rows' /\ counts'[r].inserted + counts'[r].updated = 0
<1>1. Working(r)' /\ Working(r) /\ run'[r] = run[r]
  BY WorkGoesOn DEF Working
<1>2. \A p \in Requests : ~CommitsNow(p)
  BY <1>1, CommitIsAlone
<1>3. Fresh(q) /\ raw' = raw /\ rows' = rows
  BY <1>2, StaysFresh, StepOfRows
<1>4. Undisturbed(r)
  BY <1>1, <1>3, WorkAfterFresh
<1>5. CASE UNCHANGED LocalsOf(r)
  BY <1>3, <1>5 DEF LocalsOf, NothingToSave
<1>6. CASE BeginTransaction(r)
  BY <1>3, <1>6 DEF BeginTransaction, NoCounts, TypeOK
<1>7. ASSUME NEW s \in Sources, Saves(r, s)
      PROVE  tx'[r] = rows' /\ counts'[r].inserted + counts'[r].updated = 0
  <2>0. pc[r] = "persist" /\ s \in todo[r]
    BY <1>7 DEF Saves, IsNext
  <2>1. tx[r] = rows /\ counts[r].inserted + counts[r].updated = 0
    BY <1>3, <2>0 DEF NothingToSave
  <2>2. s \in Persistable(r)
    BY <1>4, <2>0 DEF UndisturbedSaves
  <2>3. sessions[r][s] = Current(s) /\ IsListed(s) /\ Current(s).state # "workspace_only"
    BY <1>4, <2>0, <2>2, PersistableCurrent
  <2>4. RowIsCurrent(rows, s)
    BY <1>3, <2>3 DEF FreshRows
  <2>5. rows[Current(s).id].src = s /\ s # 0
    BY <2>4, SourcesAssumption DEF RowIsCurrent, Unchanged
  <2>6. tx[r][Current(s).id] # NoRow
    BY <2>1, <2>5 DEF NoRow
  <2>7. Skip(r, s, sessions[r][s], tx[r][sessions[r][s].id], Stamp(raw[s]))
    BY <1>7, <2>1, <2>3, <2>4, <2>6 DEF Saves, SaveSession, Insert, Update, RowIsCurrent
  <2>8. tx' = tx /\ counts' = [counts EXCEPT ![r].skipped = @ + 1]
    BY <2>7 DEF Skip
  <2>9. counts'[r].inserted = counts[r].inserted /\ counts'[r].updated = counts[r].updated
    BY <2>8 DEF TypeOK, CountsHash
  <2> QED BY <1>3, <2>1, <2>8, <2>9
<1>8. ~List(r) /\ ~(ReadSource(r) /\ UNCHANGED pc) /\ ~CommitsNow(r)
  BY <1>2 DEF List, ReadSource, Goto, TypeOK
<1> QED BY <1>1, <1>5, <1>6, <1>7, <1>8, StepOfLocals

\* Of two runs that nothing came between, the one that commits last saved nothing.
LEMMA SecondSavesNothing ==
  ASSUME TypeOK, SyncInvariant, RunsAreOrdered, NothingToSave,
         NEW q \in Requests, NEW r \in Requests, q # r, CommitsNow(r), IsSaved(q)',
         run'[q].started = run'[q].finished, run'[r].started = run'[r].finished,
         run'[q].started = run'[r].started
  PROVE  run'[r].inserted + run'[r].updated = 0
<1>1. /\ run'[q] = run[q] /\ run'[r] = SavedRun(r) /\ pc[r] = "persist"
  BY CommitIsAlone
<1>2. Fresh(q)
  BY <1>1, WrittenRuns DEF Fresh, IsSaved
<1>3. counts[r].inserted + counts[r].updated = 0
  BY <1>1, <1>2 DEF NothingToSave
<1> QED BY <1>1, <1>3, WrittenRuns

LEMMA NextOneOfTwo ==
  TypeOK /\ SyncInvariant /\ RunsAreOrdered /\ NothingToSave /\ OneOfTwoSaves
    /\ [Next]_vars => OneOfTwoSaves'
<1> SUFFICES ASSUME TypeOK, SyncInvariant, RunsAreOrdered, NothingToSave, OneOfTwoSaves,
                    [Next]_vars, NEW q \in Requests, NEW r \in Requests, q # r,
                    IsSaved(q)', IsSaved(r)',
                    run'[q].started = run'[q].finished, run'[r].started = run'[r].finished,
                    run'[q].started = run'[r].started
             PROVE  run'[q].inserted + run'[q].updated = 0
                    \/ run'[r].inserted + run'[r].updated = 0
  BY DEF OneOfTwoSaves
<1>1. CASE CommitsNow(r)
  BY <1>1, SecondSavesNothing
<1>2. CASE CommitsNow(q)
  BY <1>2, SecondSavesNothing
<1>3. CASE IsSaved(q) /\ run'[q] = run[q] /\ IsSaved(r) /\ run'[r] = run[r]
  BY <1>3 DEF OneOfTwoSaves
<1> QED BY <1>1, <1>2, <1>3, StepOfSaved

LEMMA InitQuiet == Init => QuietInvariant
<1> SUFFICES ASSUME Init PROVE QuietInvariant
  OBVIOUS
<1>1. \A r \in Requests : ~IsSaved(r) /\ ~Working(r) /\ ~Fresh(r) /\ ~Undisturbed(r)
  BY DEF Init, NoRun, IsSaved, SavedStatuses, Working, Fresh, Undisturbed
<1>2. \A r \in Requests : run[r].started <= now /\ run[r].finished <= now
  BY FilesAssumption DEF Init, NoRun
<1> QED BY <1>1, <1>2 DEF QuietInvariant, RunsAreOrdered, UndisturbedReads, UndisturbedSaves,
        FreshRows, NothingToSave, OneOfTwoSaves

LEMMA NextQuiet ==
  TypeOK /\ SyncInvariant /\ QuietInvariant /\ [Next]_vars => QuietInvariant'
<1> SUFFICES ASSUME TypeOK, SyncInvariant, QuietInvariant, [Next]_vars
             PROVE  QuietInvariant'
  OBVIOUS
<1>1. RunsAreOrdered'
  BY NextOrder DEF QuietInvariant
<1>2. ASSUME IdsAreDistinct
      PROVE  UndisturbedReads' /\ UndisturbedSaves' /\ FreshRows' /\ NothingToSave'
             /\ OneOfTwoSaves'
  <2>0. RunsAreOrdered /\ UndisturbedReads /\ UndisturbedSaves /\ FreshRows /\ NothingToSave
        /\ OneOfTwoSaves
    BY <1>2 DEF QuietInvariant
  <2>1. UndisturbedReads'
    BY <2>0, NextReads
  <2>2. UndisturbedSaves'
    BY <1>2, <2>0, NextSaves
  <2>3. FreshRows'
    BY <2>0, NextFreshRows DEF FreshRows
  <2>4. NothingToSave'
    BY <2>0, NextNothingToSave DEF NothingToSave
  <2>5. OneOfTwoSaves'
    BY <2>0, NextOneOfTwo
  <2> QED BY <2>1, <2>2, <2>3, <2>4, <2>5
<1>3. IdsAreDistinct' <=> IdsAreDistinct
  BY DEF IdsAreDistinct
<1> QED BY <1>1, <1>2, <1>3 DEF QuietInvariant

LEMMA QuietIsAtOnce ==
  ASSUME NEW q, NEW r, Quiet(q, r)
  PROVE  /\ run[q].started = run[q].finished /\ run[r].started = run[r].finished
         /\ run[q].started = run[r].started
<1> DEFINE times == {run[q].started, run[q].finished, run[r].started, run[r].finished}
<1>1. IsFiniteSet({run[q].started}) /\ IsFiniteSet({run[q].started} \cup {run[q].finished})
  BY FS_Singleton, FS_AddElement
<1>2. IsFiniteSet({run[q].started} \cup {run[q].finished} \cup {run[r].started})
  BY <1>1, FS_AddElement
<1>3. IsFiniteSet({run[q].started} \cup {run[q].finished} \cup {run[r].started}
                    \cup {run[r].finished})
  BY <1>2, FS_AddElement
<1>4. times = {run[q].started} \cup {run[q].finished} \cup {run[r].started}
                    \cup {run[r].finished}
  OBVIOUS
<1>5. \E time : times = {time}
  BY <1>3, <1>4, FS_Singleton DEF Quiet
<1> QED BY <1>5

\* Of two syncs between whose start and end no file changes, one skips every
\* session, for any sources that share no id.
THEOREM QuietResyncsSkip == Spec => []QuietResyncSkipsEverything
<1>1. Init => QuietInvariant
  BY InitQuiet
<1>2. TypeOK /\ SyncInvariant /\ QuietInvariant /\ [Next]_vars => QuietInvariant'
  BY NextQuiet
<1>3. QuietInvariant => QuietResyncSkipsEverything
  BY QuietIsAtOnce DEF QuietInvariant, OneOfTwoSaves, QuietResyncSkipsEverything, IsSaved
<1> QED BY <1>1, <1>2, <1>3, InvariantCorrect, PTL DEF Spec
=============================================================================
