-------------------------- MODULE HistorySyncProofs --------------------------
(***************************************************************************)
(* Theorems about HistorySync, for every number of requests and sources,   *)
(* every kind of damage to the files and every failure.                    *)
(***************************************************************************)
EXTENDS HistorySync, FiniteSetTheorems, TLAPS

-----------------------------------------------------------------------------
(* Types                                                                   *)

\* A fingerprint is a whole second and a size.
LEMMA StampType ==
  ASSUME NEW file \in RawFiles
  PROVE  Stamp(file) \in Stamps
<1>1. file.mtime \div TicksPerSecond \in Nat
  BY FilesAssumption DEF RawFiles
<1> QED BY <1>1 DEF Stamp, Stamps, MissingStamp, RawFiles

\* Whatever the state of its files, a source is read as a session.
LEMMA ReadSessionType ==
  ASSUME NEW s \in Sources, NEW file \in RawFiles
  PROVE  ReadSession(s, file) \in Sessions
BY IdsAssumption
   DEF ReadSession, SourceState, Sessions, SessionStates, RawFiles, AnyCwd

LEMMA RecordType ==
  ASSUME NEW s \in Sources, NEW session \in Sessions, NEW stamp \in Stamps
  PROVE  Record(s, session, stamp) \in Rows
BY DEF Record, Sessions, Rows

LEMMA CountType ==
  ASSUME NEW c \in CountsHash
  PROVE  /\ [c EXCEPT !.inserted = @ + 1] \in CountsHash
         /\ [c EXCEPT !.updated = @ + 1] \in CountsHash
         /\ [c EXCEPT !.skipped = @ + 1] \in CountsHash
BY DEF CountsHash

LEMMA FilesOfType ==
  ASSUME NEW s \in Sources, NEW time \in Nat
  PROVE  FilesOf(s, time) \subseteq RawFiles
BY FilesAssumption DEF FilesOf, RawFiles, AnyCwd

LEMMA EmptyTypes ==
  /\ Absent \in RawFiles
  /\ NoRow \in Rows /\ NoRows \in [SessionIds -> Rows]
  /\ NoSessions \in [Sources -> Sessions]
  /\ NoCounts \in CountsHash
  /\ NoRun \in Runs
BY IdsAssumption
   DEF Absent, RawFiles, NoRow, NoRows, Rows, MissingStamp, Stamps, AnyCwd,
       NoSessions, Unlisted, Sessions, NoCounts, CountsHash, NoRun, Runs

LEMMA ForgetType ==
  ASSUME TypeOK, NEW R, Forget(R)
  PROVE  /\ sessions' \in [Requests -> [Sources -> Sessions]]
         /\ todo' \in [Requests -> SUBSET Sources]
         /\ tx' \in [Requests -> [SessionIds -> Rows]]
         /\ counts' \in [Requests -> CountsHash]
BY EmptyTypes DEF Forget, TypeOK

LEMMA CardinalityOfSources ==
  ASSUME NEW S \in SUBSET Sources
  PROVE  Cardinality(S) \in Nat
BY SourcesAssumption, FS_Subset, FS_CardinalityType

LEMMA InitType == Init => TypeOK
<1> SUFFICES ASSUME Init PROVE TypeOK
  OBVIOUS
<1>1. now \in Nat /\ raw \in [Sources -> RawFiles] /\ rootOk \in BOOLEAN
  <2>1. TicksPerSecond \in Nat
    BY FilesAssumption
  <2>2. \A s \in Sources : {Absent} \cup FilesOf(s, TicksPerSecond) \subseteq RawFiles
    BY <2>1, FilesOfType, EmptyTypes
  <2> QED BY <2>1, <2>2 DEF Init
<1>2. rows \in [SessionIds -> Rows]
  <2>1. \A s \in Sources : OldRow(s) \in Rows
    <3>1. \A s \in Sources : Record(s, ReadSession(s, raw[s]), Stamp(raw[s])) \in Rows
      BY <1>1, StampType, ReadSessionType, RecordType
    <3> QED BY <3>1 DEF OldRow, Rows
  <2> QED BY <2>1, EmptyTypes DEF Init
<1>3. run \in [Requests -> Runs] /\ pc \in [Requests -> Labels]
  BY EmptyTypes DEF Init, Labels
<1>4. /\ sessions \in [Requests -> [Sources -> Sessions]]
      /\ todo \in [Requests -> SUBSET Sources]
      /\ tx \in [Requests -> [SessionIds -> Rows]]
      /\ counts \in [Requests -> CountsHash]
  BY EmptyTypes DEF Init
<1> QED BY <1>1, <1>2, <1>3, <1>4 DEF TypeOK

LEMMA NextType == TypeOK /\ [Next]_vars => TypeOK'
<1> SUFFICES ASSUME TypeOK, [Next]_vars PROVE TypeOK'
  OBVIOUS
<1> USE DEF files, database, locals, Goto
<1>1. ASSUME NEW r \in Requests, Lookup(r) PROVE TypeOK'
  BY <1>1 DEF Lookup, TypeOK, Labels, Answers
<1>2. ASSUME NEW r \in Requests, Create(r) PROVE TypeOK'
  <2>1. RunningRun \in Runs
    BY EmptyTypes DEF RunningRun, Runs, TypeOK
  <2> QED BY <1>2, <2>1 DEF Create, TypeOK, Labels, Answers
<1>3. ASSUME NEW r \in Requests, Relookup(r) PROVE TypeOK'
  BY <1>3 DEF Relookup, TypeOK, Labels, Answers
<1>4. ASSUME NEW r \in Requests, List(r) PROVE TypeOK'
  <2>1. \A s \in Sources : Listed(s) \in Sessions /\ Unlisted(s) \in Sessions
    BY IdsAssumption DEF Listed, Unlisted, Sessions, AnyCwd
  <2>2. CASE UNCHANGED <<sessions, todo>>
    BY <1>4, <2>2 DEF List, TypeOK, Labels
  <2>3. CASE ~UNCHANGED <<sessions, todo>>
    <3> DEFINE listed == {s \in Sources : raw[s].health # "absent"}
               found == [s \in Sources |-> IF s \in listed THEN Listed(s) ELSE Unlisted(s)]
    <3>1. found \in [Sources -> Sessions] /\ listed \in SUBSET Sources
      BY <2>1
    <3>2. sessions' = [sessions EXCEPT ![r] = found] /\ todo' = [todo EXCEPT ![r] = listed]
      BY <1>4, <2>3 DEF List
    <3> HIDE DEF listed, found
    <3> QED BY <1>4, <3>1, <3>2 DEF List, TypeOK, Labels
  <2> QED BY <2>2, <2>3
<1>5. ASSUME NEW r \in Requests, ReadSource(r) PROVE TypeOK'
  <2>1. PICK s \in Sources :
          \/ Goto(r, "raised") /\ Forget({r})
          \/ /\ sessions' = [sessions EXCEPT ![r][s] = ReadSession(s, raw[s])]
             /\ todo' = [todo EXCEPT ![r] = @ \ {s}]
             /\ UNCHANGED <<pc, tx, counts>>
    BY <1>5 DEF ReadSource
  <2>2. CASE Goto(r, "raised") /\ Forget({r})
    BY <1>5, <2>2, ForgetType DEF ReadSource, TypeOK, Labels, Answers
  <2>3. CASE /\ sessions' = [sessions EXCEPT ![r][s] = ReadSession(s, raw[s])]
             /\ todo' = [todo EXCEPT ![r] = @ \ {s}]
             /\ UNCHANGED <<pc, tx, counts>>
    <3>1. ReadSession(s, raw[s]) \in Sessions
      BY ReadSessionType DEF TypeOK
    <3> QED BY <1>5, <2>3, <3>1 DEF ReadSource, TypeOK
  <2> QED BY <2>1, <2>2, <2>3
<1>6. ASSUME NEW r \in Requests, MarkFailed(r) PROVE TypeOK'
  <2>1. FailedRun(run[r]) \in Runs
    <3>1. run[r] \in Runs /\ now \in Nat
      BY DEF TypeOK
    <3> QED BY <3>1 DEF FailedRun, Runs, Terminal
  <2> QED BY <1>6, <2>1 DEF MarkFailed, TypeOK, Labels, Answers
<1>7. ASSUME NEW r \in Requests, HandleRootFailure(r) \/ HandlePersistenceFailure(r)
      PROVE TypeOK'
  BY <1>6, <1>7 DEF HandleRootFailure, HandlePersistenceFailure
<1>8. ASSUME NEW r \in Requests, ReloadFailed(r) PROVE TypeOK'
  BY <1>8 DEF ReloadFailed, TypeOK, Labels, Answers
<1>9. ASSUME NEW r \in Requests, BeginTransaction(r) PROVE TypeOK'
  BY <1>9, EmptyTypes DEF BeginTransaction, Persistable, TypeOK, Labels
<1>10. ASSUME NEW r \in Requests, PersistSession(r) PROVE TypeOK'
  <2>1. CASE PersistFails(r)
    BY <1>10, <2>1, ForgetType DEF PersistSession, PersistFails, TypeOK, Labels
  <2>2. ASSUME NEW s \in Sources, SaveSession(r, s),
               todo' = [todo EXCEPT ![r] = @ \ {s}], UNCHANGED <<pc, sessions>>
        PROVE TypeOK'
    <3> DEFINE row == Record(s, sessions[r][s], Stamp(raw[s]))
    <3>1. row \in Rows /\ sessions[r][s].id \in SessionIds
      BY RecordType, StampType DEF TypeOK, Sessions
    <3>2. /\ \/ tx' = [tx EXCEPT ![r][sessions[r][s].id] = row]
             \/ UNCHANGED tx
          /\ \/ counts' = [counts EXCEPT ![r].inserted = @ + 1]
             \/ counts' = [counts EXCEPT ![r].updated = @ + 1]
             \/ counts' = [counts EXCEPT ![r].skipped = @ + 1]
      BY <2>2 DEF SaveSession, Insert, Skip, Update
    <3> HIDE DEF row
    <3>3. tx' \in [Requests -> [SessionIds -> Rows]]
      <4>1. [tx[r] EXCEPT ![sessions[r][s].id] = row] \in [SessionIds -> Rows]
        BY <3>1 DEF TypeOK
      <4> QED BY <3>2, <4>1 DEF TypeOK
    <3>4. counts' \in [Requests -> CountsHash]
      <4>1. /\ [counts[r] EXCEPT !.inserted = @ + 1] \in CountsHash
            /\ [counts[r] EXCEPT !.updated = @ + 1] \in CountsHash
            /\ [counts[r] EXCEPT !.skipped = @ + 1] \in CountsHash
        BY CountType DEF TypeOK
      <4> QED BY <3>2, <4>1 DEF TypeOK
    <3> QED BY <1>10, <2>2, <3>3, <3>4 DEF PersistSession, TypeOK
  <2> QED BY <1>10, <2>1, <2>2 DEF PersistSession
<1>11. ASSUME NEW r \in Requests, Commit(r) PROVE TypeOK'
  <2>1. CASE PersistFails(r)
    BY <1>11, <2>1, ForgetType DEF Commit, PersistFails, TypeOK, Labels
  <2>2. CASE Goto(r, "reload")
    <3>1. DegradedCount(r) \in Nat
      BY CardinalityOfSources DEF DegradedCount, Persistable
    <3>2. Cardinality({s \in Sources : sessions[r][s].state # "unlisted"}) \in Nat
      BY CardinalityOfSources
    <3>3. SavedRun(r) \in Runs
      BY <3>1, <3>2 DEF SavedRun, CountsHash, TypeOK, Runs, Terminal, SavedStatuses
    <3>4. /\ rows' = tx[r] /\ run' = [run EXCEPT ![r] = SavedRun(r)]
          /\ UNCHANGED <<files, locals>>
      BY <1>11, <2>2 DEF Commit, PersistFails, TypeOK
    <3> QED BY <2>2, <3>3, <3>4 DEF TypeOK, Labels
  <2> QED BY <1>11, <2>1, <2>2 DEF Commit
<1>12. ASSUME NEW r \in Requests, ReloadSucceeded(r) PROVE TypeOK'
  BY <1>12, ForgetType DEF ReloadSucceeded, TypeOK, Labels, Answers
<1>13. CASE Crash
  BY <1>13, ForgetType DEF Crash, TypeOK, Labels, Answers
<1>14. CASE RootChange
  BY <1>14 DEF RootChange, TypeOK
<1>15. ASSUME NEW s \in Sources, CliWrite(s) \/ Remove(s) \/ Chmod(s) PROVE TypeOK'
  <2>1. \A file \in FilesOf(s, now + 1) : file \in RawFiles
    BY FilesOfType DEF TypeOK
  <2>2. [raw[s] EXCEPT !.readable = ~@] \in RawFiles
    BY DEF TypeOK, RawFiles
  <2>3. \E file \in RawFiles : ChangeFile(s, file)
    BY <1>15, <2>1, <2>2, EmptyTypes DEF CliWrite, Remove, Chmod
  <2> QED BY <2>3 DEF ChangeFile, TypeOK
<1>16. CASE UNCHANGED vars
  BY <1>16 DEF vars, TypeOK
<1> QED BY <1>1, <1>2, <1>3, <1>4, <1>5, <1>7, <1>8, <1>9, <1>10, <1>11, <1>12,
           <1>13, <1>14, <1>15, <1>16 DEF Next, Environment, Step

\* Every variable of the service keeps its type, whatever fails.
THEOREM TypeCorrect == Spec => []TypeOK
<1>1. Init => TypeOK
  BY InitType
<1>2. TypeOK /\ [Next]_vars => TypeOK'
  BY NextType
<1> QED BY <1>1, <1>2, PTL DEF Spec

-----------------------------------------------------------------------------
(* The lock                                                                *)

\* What the invariant says of one call, so that a step is checked for the
\* call that takes it and for the others apart.
CallInvariant(r) ==
  /\ run[r].lock <=> run[r].status = "running"
  /\ pc[r] \in {"idle", "create", "relookup", "conflict"} => run[r].status = "none"
  /\ Working(r) => run[r].status = "running"
  /\ pc[r] \in {"reload", "succeeded"} => run[r].status \in SavedStatuses
  /\ pc[r] = "persist_failed" => run[r].status \in SavedStatuses \cup {"running"}
  /\ pc[r] \in {"reload_failed", "failed"} => run[r].status = "failed"

OneLock == \A q, r \in Requests : run[q].lock /\ run[r].lock => q = r

LEMMA InvariantByCall ==
  /\ SyncInvariant <=> (\A r \in Requests : CallInvariant(r)) /\ OneLock
                         /\ TransactionSeesRows
  /\ SyncInvariant' <=> (\A r \in Requests : CallInvariant(r)') /\ OneLock'
                          /\ TransactionSeesRows'
BY DEF SyncInvariant, LockIsTheRunningRun, RunFollowsCall, CallInvariant, OneLock

LEMMA InitInvariant == Init => SyncInvariant
BY DEF Init, SyncInvariant, LockIsTheRunningRun, RunFollowsCall, TransactionSeesRows,
       NoRun, Working

\* A step of r that leaves the tables alone keeps the invariant if it does for r.
LEMMA LocalStep ==
  ASSUME TypeOK, SyncInvariant, NEW r \in Requests, UNCHANGED <<rows, run>>,
         NEW label, Goto(r, label), CallInvariant(r)', label # "persist",
         \A q \in Requests : q # r => tx'[q] = tx[q]
  PROVE  SyncInvariant'
<1>1. \A q \in Requests : q # r => pc'[q] = pc[q]
  BY DEF Goto, TypeOK
<1>2. \A q \in Requests : CallInvariant(q)'
  BY <1>1, InvariantByCall DEF CallInvariant, Working
<1>3. OneLock'
  BY InvariantByCall DEF OneLock
<1>4. TransactionSeesRows'
  BY <1>1 DEF SyncInvariant, TransactionSeesRows, Goto, TypeOK
<1> QED BY <1>2, <1>3, <1>4, InvariantByCall

LEMMA ForgetOthers ==
  ASSUME TypeOK, NEW R, Forget(R)
  PROVE  \A q \in Requests : q \notin R => tx'[q] = tx[q]
BY DEF Forget, TypeOK

LEMMA NextInvariant == TypeOK /\ SyncInvariant /\ [Next]_vars => SyncInvariant'
<1> SUFFICES ASSUME TypeOK, SyncInvariant, [Next]_vars PROVE SyncInvariant'
  OBVIOUS
<1> USE DEF files, database, locals
<1>0. /\ \A r \in Requests : CallInvariant(r)
      /\ OneLock
      /\ \A r \in Requests : run[r].lock \in BOOLEAN
  BY InvariantByCall DEF TypeOK, Runs
<1>1. ASSUME NEW r \in Requests, Lookup(r) PROVE SyncInvariant'
  <2>1. PICK label \in {"conflict", "create", "raised"} : Goto(r, label)
    BY <1>1 DEF Lookup
  <2>2. CallInvariant(r)'
    BY <1>0, <1>1, <2>1 DEF Lookup, Goto, CallInvariant, Working, TypeOK
  <2> QED BY <1>1, <2>1, <2>2, LocalStep DEF Lookup
<1>2. ASSUME NEW r \in Requests, Create(r) PROVE SyncInvariant'
  <2>1. CASE UNCHANGED run
    <3>1. PICK label \in {"relookup", "raised"} : Goto(r, label)
      <4>1. run[r].status = "none" /\ ~run[r].lock
        BY <1>0, <1>2 DEF Create, CallInvariant
      <4> QED BY <1>2, <2>1, <4>1 DEF Create, RunningRun, NoRun, TypeOK
    <3>2. CallInvariant(r)'
      BY <1>0, <1>2, <2>1, <3>1 DEF Create, Goto, CallInvariant, Working, TypeOK
    <3> QED BY <1>2, <2>1, <3>1, <3>2, LocalStep DEF Create
  <2>2. CASE ~UNCHANGED run
    <3>1. /\ run' = [run EXCEPT ![r] = RunningRun]
          /\ Goto(r, "list")
          /\ \A q \in Requests : ~run[q].lock
          /\ UNCHANGED <<rows, tx>>
      BY <1>2, <2>2 DEF Create
    <3>2. RunningRun.lock = TRUE /\ RunningRun.status = "running"
      BY DEF RunningRun, NoRun
    <3>3. \A q \in Requests : CallInvariant(q)'
      BY <1>0, <3>1, <3>2 DEF Goto, CallInvariant, Working, TypeOK
    <3>4. OneLock'
      BY <3>1, <3>2 DEF OneLock, TypeOK
    <3>5. TransactionSeesRows'
      BY <3>1 DEF SyncInvariant, TransactionSeesRows, Goto, TypeOK
    <3> QED BY <3>3, <3>4, <3>5, InvariantByCall
  <2> QED BY <2>1, <2>2
<1>3. ASSUME NEW r \in Requests, Relookup(r) PROVE SyncInvariant'
  <2>1. PICK label \in {"conflict", "raised"} : Goto(r, label)
    BY <1>3 DEF Relookup
  <2>2. CallInvariant(r)'
    BY <1>0, <1>3, <2>1 DEF Relookup, Goto, CallInvariant, Working, TypeOK
  <2> QED BY <1>3, <2>1, <2>2, LocalStep DEF Relookup
<1>4. ASSUME NEW r \in Requests, List(r) PROVE SyncInvariant'
  <2>1. PICK label \in {"root_failed", "read"} : Goto(r, label)
    BY <1>4 DEF List
  <2>2. CallInvariant(r)'
    BY <1>0, <1>4, <2>1 DEF List, Goto, CallInvariant, Working, TypeOK
  <2> QED BY <1>4, <2>1, <2>2, LocalStep DEF List
<1>5. ASSUME NEW r \in Requests, ReadSource(r) PROVE SyncInvariant'
  <2>1. CASE Goto(r, "raised") /\ Forget({r})
    <3>1. CallInvariant(r)'
      BY <1>0, <1>5, <2>1 DEF ReadSource, Goto, CallInvariant, Working, TypeOK
    <3> QED BY <1>5, <2>1, <3>1, LocalStep, ForgetOthers DEF ReadSource
  <2>2. CASE UNCHANGED <<pc, tx, counts>>
    <3>1. \A q \in Requests : CallInvariant(q)'
      BY <1>0, <1>5, <2>2 DEF ReadSource, CallInvariant, Working
    <3>2. OneLock'
      BY <1>0, <1>5 DEF ReadSource, OneLock
    <3>3. TransactionSeesRows'
      BY <1>5, <2>2 DEF ReadSource, SyncInvariant, TransactionSeesRows
    <3> QED BY <3>1, <3>2, <3>3, InvariantByCall
  <2> QED BY <1>5, <2>1, <2>2 DEF ReadSource
<1>6. ASSUME NEW r \in Requests, HandleRootFailure(r) \/ HandlePersistenceFailure(r)
      PROVE SyncInvariant'
  <2>0. pc[r] \in {"root_failed", "persist_failed"} /\ MarkFailed(r)
    BY <1>6 DEF HandleRootFailure, HandlePersistenceFailure
  <2>1. CASE Goto(r, "raised") /\ UNCHANGED run
    <3>1. CallInvariant(r)'
      BY <1>0, <2>0, <2>1 DEF MarkFailed, Goto, CallInvariant, Working, TypeOK
    <3> QED BY <2>0, <2>1, <3>1, LocalStep DEF MarkFailed
  <2>2. CASE Goto(r, "reload_failed") /\ run' = [run EXCEPT ![r] = FailedRun(run[r])]
    <3>1. FailedRun(run[r]).lock = FALSE /\ FailedRun(run[r]).status = "failed"
      BY DEF FailedRun, TypeOK, Runs
    <3>2. \A q \in Requests : CallInvariant(q)'
      BY <1>0, <2>2, <3>1 DEF Goto, CallInvariant, Working, TypeOK
    <3>3. OneLock'
      BY <1>0, <2>2, <3>1 DEF OneLock, TypeOK
    <3>4. TransactionSeesRows'
      BY <2>0, <2>2 DEF MarkFailed, SyncInvariant, TransactionSeesRows, Goto, TypeOK
    <3> QED BY <3>2, <3>3, <3>4, InvariantByCall
  <2> QED BY <2>0, <2>1, <2>2 DEF MarkFailed
<1>7. ASSUME NEW r \in Requests, ReloadFailed(r) PROVE SyncInvariant'
  <2>1. PICK label \in {"failed", "raised"} : Goto(r, label)
    BY <1>7 DEF ReloadFailed
  <2>2. CallInvariant(r)'
    BY <1>0, <1>7, <2>1 DEF ReloadFailed, Goto, CallInvariant, Working, TypeOK
  <2> QED BY <1>7, <2>1, <2>2, LocalStep DEF ReloadFailed
<1>8. ASSUME NEW r \in Requests, BeginTransaction(r) PROVE SyncInvariant'
  <2>1. \A q \in Requests : CallInvariant(q)'
    BY <1>0, <1>8 DEF BeginTransaction, Goto, CallInvariant, Working, TypeOK
  <2>2. OneLock'
    BY <1>0, <1>8 DEF BeginTransaction, OneLock
  <2>3. TransactionSeesRows'
    BY <1>8 DEF BeginTransaction, SyncInvariant, TransactionSeesRows, Goto, TypeOK
  <2> QED BY <2>1, <2>2, <2>3, InvariantByCall
<1>9. ASSUME NEW r \in Requests, pc[r] = "persist", PersistFails(r), UNCHANGED <<rows, run>>
      PROVE SyncInvariant'
  <2>1. CallInvariant(r)'
    BY <1>0, <1>9 DEF PersistFails, Goto, CallInvariant, Working, TypeOK
  <2> QED BY <1>9, <2>1, LocalStep, ForgetOthers DEF PersistFails
<1>10. ASSUME NEW r \in Requests, PersistSession(r) PROVE SyncInvariant'
  <2>1. CASE PersistFails(r)
    BY <1>9, <1>10, <2>1 DEF PersistSession
  <2>2. ASSUME NEW s \in Sources, SaveSession(r, s), UNCHANGED <<pc, sessions>>
        PROVE SyncInvariant'
    <3>1. \A q \in Requests : CallInvariant(q)'
      BY <1>0, <1>10, <2>2 DEF PersistSession, CallInvariant, Working
    <3>2. OneLock'
      BY <1>0, <1>10 DEF PersistSession, OneLock
    <3>3. \A q \in Requests, i \in SessionIds : tx[q][i] # NoRow => tx'[q][i] # NoRow
      <4> DEFINE row == Record(s, sessions[r][s], Stamp(raw[s]))
      <4>1. row # NoRow
        BY SourcesAssumption DEF Record, NoRow
      <4>2. \/ tx' = [tx EXCEPT ![r][sessions[r][s].id] = row]
            \/ UNCHANGED tx
        BY <2>2 DEF SaveSession, Insert, Skip, Update
      <4> HIDE DEF row
      <4>3. \A i \in SessionIds : tx[r][i] # NoRow
              => [tx[r] EXCEPT ![sessions[r][s].id] = row][i] # NoRow
        BY <4>1 DEF TypeOK
      <4> QED BY <4>2, <4>3 DEF TypeOK
    <3>4. TransactionSeesRows'
      BY <1>10, <2>2, <3>3 DEF PersistSession, SyncInvariant, TransactionSeesRows
    <3> QED BY <3>1, <3>2, <3>4, InvariantByCall
  <2> QED BY <1>10, <2>1, <2>2 DEF PersistSession
<1>11. ASSUME NEW r \in Requests, Commit(r) PROVE SyncInvariant'
  <2>1. CASE PersistFails(r) /\ UNCHANGED database
    BY <1>9, <1>11, <2>1 DEF Commit
  <2>2. CASE /\ rows' = tx[r] /\ run' = [run EXCEPT ![r] = SavedRun(r)]
             /\ Goto(r, "reload") /\ UNCHANGED locals
    <3>1. SavedRun(r).lock = FALSE /\ SavedRun(r).status \in SavedStatuses
      BY DEF SavedRun, SavedStatuses
    <3>2. SavedRun(r).status \notin {"running", "none", "failed"}
      BY <3>1 DEF SavedStatuses
    <3>3. \A q \in Requests : CallInvariant(q)'
      BY <1>0, <2>2, <3>1, <3>2, <1>11 DEF Commit, Goto, CallInvariant, Working, TypeOK
    <3>4. OneLock'
      BY <1>0, <2>2, <3>1 DEF OneLock, TypeOK
    <3>5. \A q \in Requests : q # r => pc[q] # "persist"
      BY <1>0, <1>11 DEF Commit, CallInvariant, OneLock, Working
    <3>6. TransactionSeesRows'
      BY <2>2, <3>5 DEF TransactionSeesRows, Goto, TypeOK
    <3> QED BY <3>3, <3>4, <3>6, InvariantByCall
  <2> QED BY <1>11, <2>1, <2>2 DEF Commit
<1>12. ASSUME NEW r \in Requests, ReloadSucceeded(r) PROVE SyncInvariant'
  <2>1. PICK label \in {"succeeded", "persist_failed"} : Goto(r, label)
    BY <1>12 DEF ReloadSucceeded
  <2>2. CallInvariant(r)'
    BY <1>0, <1>12, <2>1 DEF ReloadSucceeded, Goto, CallInvariant, Working, TypeOK
  <2> QED BY <1>12, <2>1, <2>2, LocalStep, ForgetOthers DEF ReloadSucceeded
<1>13. CASE Crash
  <2>1. \A q \in Requests : CallInvariant(q)'
    BY <1>0, <1>13 DEF Crash, CallInvariant, Working, TypeOK
  <2>2. OneLock'
    BY <1>0, <1>13 DEF Crash, OneLock
  <2>3. \A q \in Requests : pc'[q] # "persist"
    BY <1>13 DEF Crash, InFlight, Answers
  <2> QED BY <2>1, <2>2, <2>3, InvariantByCall DEF TransactionSeesRows
<1>14. CASE UNCHANGED <<rows, run, pc, tx>>
  BY <1>14 DEF SyncInvariant, LockIsTheRunningRun, RunFollowsCall, TransactionSeesRows,
               Working
<1>15. CASE RootChange \/ \E s \in Sources : CliWrite(s) \/ Remove(s) \/ Chmod(s)
  BY <1>14, <1>15 DEF RootChange, CliWrite, Remove, Chmod, ChangeFile
<1>16. CASE UNCHANGED vars
  BY <1>14, <1>16 DEF vars
<1> QED BY <1>1, <1>2, <1>3, <1>4, <1>5, <1>6, <1>7, <1>8, <1>10, <1>11, <1>12,
           <1>13, <1>15, <1>16 DEF Next, Environment, Step

\* The inductive invariant holds in every reachable state.
THEOREM InvariantCorrect == Spec => [](TypeOK /\ SyncInvariant)
<1>1. Init => TypeOK /\ SyncInvariant
  BY InitType, InitInvariant
<1>2. TypeOK /\ SyncInvariant /\ [Next]_vars => (TypeOK /\ SyncInvariant)'
  BY NextType, NextInvariant
<1> QED BY <1>1, <1>2, PTL DEF Spec

\* Two calls never read the raw files and save at the same time, and the one
\* that does holds the lock, whatever crashes and failures come between.
THEOREM MutualExclusion == Spec => []SyncsAreExclusive
<1>1. TypeOK /\ SyncInvariant => SyncsAreExclusive
  BY DEF TypeOK, SyncInvariant, LockIsTheRunningRun, RunFollowsCall, SyncsAreExclusive
<1> QED BY <1>1, InvariantCorrect, PTL

-----------------------------------------------------------------------------
(* Outcomes                                                                *)

\* Once a run row says how its sync ended, only the call that wrote it may
\* still turn it into a failure.
THEOREM OutcomesFinal == Spec => OutcomesAreFinal
<1> DEFINE Final == \A r \in Requests : run[r].status \in Terminal /\ run'[r] # run[r]
              => pc[r] = "persist_failed" /\ run'[r].status = "failed" /\ ~run'[r].lock
<1>1. ASSUME TypeOK, SyncInvariant, [Next]_vars PROVE [Final]_vars
  <2> USE <1>1 DEF database
  <2>1. ASSUME NEW r \in Requests, NEW new, run' = [run EXCEPT ![r] = new],
               run[r].status \in Terminal
                 => pc[r] = "persist_failed" /\ new.status = "failed" /\ ~new.lock
        PROVE Final
    BY <2>1 DEF TypeOK
  <2>2. ASSUME NEW r \in Requests, Create(r) \/ Commit(r) PROVE Final
    <3>1. run[r].status \notin Terminal
      <4>1. pc[r] \in {"create", "persist"}
        BY <2>2 DEF Create, Commit
      <4>2. run[r].status \in {"none", "running"}
        BY <4>1 DEF SyncInvariant, RunFollowsCall, Working
      <4> QED BY <4>2 DEF Terminal, SavedStatuses
    <3>2. CASE UNCHANGED run
      BY <3>2
    <3>3. CASE ~UNCHANGED run
      <4>1. PICK new : run' = [run EXCEPT ![r] = new]
        BY <2>2, <3>3 DEF Create, Commit
      <4> QED BY <2>1, <3>1, <4>1
    <3> QED BY <3>2, <3>3
  <2>3. ASSUME NEW r \in Requests, HandleRootFailure(r) \/ HandlePersistenceFailure(r)
        PROVE Final
    <3>1. FailedRun(run[r]).lock = FALSE /\ FailedRun(run[r]).status = "failed"
      BY DEF FailedRun, TypeOK, Runs
    <3>2. run[r].status \in Terminal => pc[r] = "persist_failed"
      <4>1. pc[r] = "root_failed" => run[r].status = "running"
        BY DEF SyncInvariant, RunFollowsCall, Working
      <4>2. pc[r] \in {"root_failed", "persist_failed"}
        BY <2>3 DEF HandleRootFailure, HandlePersistenceFailure
      <4> QED BY <4>1, <4>2 DEF Terminal, SavedStatuses
    <3>3. UNCHANGED run \/ run' = [run EXCEPT ![r] = FailedRun(run[r])]
      BY <2>3 DEF HandleRootFailure, HandlePersistenceFailure, MarkFailed
    <3> QED BY <2>1, <3>1, <3>2, <3>3
  <2>4. CASE UNCHANGED run
    BY <2>4
  <2>5. ASSUME NEW r \in Requests, Lookup(r) \/ Relookup(r) \/ List(r) \/ ReadSource(r)
                 \/ BeginTransaction(r) \/ PersistSession(r) \/ ReloadSucceeded(r)
                 \/ ReloadFailed(r)
        PROVE UNCHANGED run
    BY <2>5 DEF Lookup, Relookup, List, ReadSource, BeginTransaction, PersistSession,
                ReloadSucceeded, ReloadFailed
  <2>6. ASSUME Environment \/ UNCHANGED vars PROVE UNCHANGED run
    BY <2>6 DEF Environment, Crash, RootChange, CliWrite, Remove, Chmod, ChangeFile, vars
  <2> QED BY <1>1, <2>2, <2>3, <2>4, <2>5, <2>6 DEF Next, Step
<1> QED BY <1>1, InvariantCorrect, PTL DEF Spec, OutcomesAreFinal

-----------------------------------------------------------------------------
(* HistorySync implements AtomicSync                                       *)

\* A step of r that leaves the tables alone shows a caller nothing new, unless
\* it answers r without a run.
LEMMA HiddenStep ==
  ASSUME TypeOK, NEW r \in Requests, NEW label, Goto(r, label),
         UNCHANGED <<rows, run>>, Outcome(r)' = Outcome(r)
  PROVE  UNCHANGED Atomic!vars
<1>1. \A q \in Requests : Outcome(q)' = Outcome(q)
  BY DEF Goto, Outcome, TypeOK
<1> QED BY <1>1 DEF Atomic!vars

LEMMA SettlingStep ==
  ASSUME TypeOK, NEW r \in Requests, NEW result, NEW label, Goto(r, label),
         \A q \in Requests : q # r => run'[q] = run[q], Outcome(r)' = result
  PROVE  Atomic!Settle(r, result)
<1>1. \A q \in Requests : q # r => Outcome(q)' = Outcome(q)
  BY DEF Goto, Outcome, TypeOK
<1> QED BY <1>1 DEF Atomic!Settle

LEMMA InitImplements == Init => Atomic!Init
BY DEF Init, Atomic!Init, Outcome, NoRun, SavedStatuses

LEMMA NextImplements ==
  TypeOK /\ SyncInvariant /\ TypeOK' /\ [Next]_vars => [Atomic!Next]_(Atomic!vars)
<1> SUFFICES ASSUME TypeOK, SyncInvariant, TypeOK', [Next]_vars
             PROVE  Atomic!Next \/ UNCHANGED Atomic!vars
  OBVIOUS
<1> USE DEF database, locals, files
<1>0. \A r \in Requests : CallInvariant(r)
  BY InvariantByCall
<1>1. ASSUME NEW r \in Requests, pc[r] \in {"idle", "create", "relookup"}
      PROVE  Outcome(r) = "open" /\ ~run[r].lock /\ Atomic!Open(r)
  BY <1>0, <1>1 DEF CallInvariant, Outcome, SavedStatuses, Atomic!Open
<1>2. ASSUME NEW r \in Requests, pc[r] \in {"idle", "relookup"}, Goto(r, "conflict"),
             RunningRunExists, UNCHANGED <<rows, run>>
      PROVE  Atomic!Conflict(r)
  <2>1. Outcome(r)' = "conflict"
    BY <1>0, <1>2 DEF CallInvariant, Outcome, SavedStatuses, Goto, TypeOK
  <2>2. {q \in Requests : run[q].lock} # {}
    BY <1>0, <1>2 DEF CallInvariant, RunningRunExists
  <2> QED BY <1>1, <1>2, <2>1, <2>2, SettlingStep DEF Atomic!Conflict
<1>3. ASSUME NEW r \in Requests, pc[r] \in {"idle", "create", "relookup"}, Goto(r, "raised"),
             UNCHANGED <<rows, run>>
      PROVE  Atomic!Refuse(r)
  <2>1. Outcome(r)' = "refused"
    BY <1>0, <1>3 DEF CallInvariant, Outcome, SavedStatuses, Goto, TypeOK
  <2> QED BY <1>1, <1>3, <2>1, SettlingStep DEF Atomic!Refuse
<1>4. ASSUME NEW r \in Requests, NEW label \in Labels \ {"conflict"}, Goto(r, label),
             UNCHANGED <<rows, run>>, pc[r] \notin Answers,
             label = "raised" => run[r].status # "none"
      PROVE  UNCHANGED Atomic!vars
  <2>1. Outcome(r)' = Outcome(r)
    BY <1>4 DEF Outcome, Goto, TypeOK, Answers
  <2> QED BY <1>4, <2>1, HiddenStep
<1>5. ASSUME NEW r \in Requests, Lookup(r) PROVE Atomic!Next \/ UNCHANGED Atomic!vars
  <2>1. CASE RunningRunExists /\ Goto(r, "conflict")
    BY <1>2, <1>5, <2>1 DEF Lookup, Atomic!Next
  <2>2. CASE Goto(r, "create")
    BY <1>4, <1>5, <2>2 DEF Lookup, Labels, Answers
  <2>3. CASE Goto(r, "raised")
    BY <1>3, <1>5, <2>3 DEF Lookup, Atomic!Next
  <2> QED BY <1>5, <2>1, <2>2, <2>3 DEF Lookup
<1>6. ASSUME NEW r \in Requests, Create(r) PROVE Atomic!Next \/ UNCHANGED Atomic!vars
  <2>1. CASE Goto(r, "list") /\ run' = [run EXCEPT ![r] = RunningRun]
             /\ \A q \in Requests : ~run[q].lock
    <3>1. RunningRun.lock = TRUE /\ RunningRun.status = "running"
      BY DEF RunningRun, NoRun
    <3>2. \A q \in Requests : Outcome(q)' = Outcome(q)
      <4>1. Outcome(r)' = "open" /\ Outcome(r) = "open"
        BY <1>1, <1>6, <2>1, <3>1 DEF Create, Outcome, SavedStatuses, Goto, TypeOK
      <4>2. \A q \in Requests : q # r => Outcome(q)' = Outcome(q)
        BY <2>1 DEF Outcome, Goto, TypeOK
      <4> QED BY <4>1, <4>2
    <3>3. {q \in Requests : run[q].lock} = {} /\ {q \in Requests : run'[q].lock} = {r}
      BY <2>1, <3>1 DEF TypeOK
    <3>4. Atomic!Accept(r)
      BY <1>1, <1>6, <3>2, <3>3 DEF Create, Atomic!Accept
    <3> QED BY <3>4 DEF Atomic!Next
  <2>2. CASE Goto(r, "relookup") /\ UNCHANGED run
    BY <1>4, <1>6, <2>2 DEF Create, Labels, Answers
  <2>3. CASE Goto(r, "raised") /\ UNCHANGED run
    BY <1>3, <1>6, <2>3 DEF Create, Atomic!Next
  <2> QED BY <1>6, <2>1, <2>2, <2>3 DEF Create
<1>7. ASSUME NEW r \in Requests, Relookup(r) PROVE Atomic!Next \/ UNCHANGED Atomic!vars
  <2>1. CASE RunningRunExists /\ Goto(r, "conflict")
    BY <1>2, <1>7, <2>1 DEF Relookup, Atomic!Next
  <2>2. CASE Goto(r, "raised")
    BY <1>3, <1>7, <2>2 DEF Relookup, Atomic!Next
  <2> QED BY <1>7, <2>1, <2>2 DEF Relookup
<1>8. ASSUME NEW r \in Requests, List(r) PROVE UNCHANGED Atomic!vars
  <2>1. PICK label \in {"root_failed", "read"} : Goto(r, label)
    BY <1>8 DEF List
  <2> QED BY <1>4, <1>8, <2>1 DEF List, Labels, Answers
<1>9. ASSUME NEW r \in Requests, ReadSource(r) PROVE UNCHANGED Atomic!vars
  <2>1. CASE Goto(r, "raised")
    <3>1. run[r].status # "none"
      BY <1>0, <1>9 DEF ReadSource, CallInvariant, Working
    <3> QED BY <1>4, <1>9, <2>1, <3>1 DEF ReadSource, Labels, Answers
  <2>2. CASE UNCHANGED pc
    BY <1>9, <2>2 DEF ReadSource, Atomic!vars, Outcome
  <2> QED BY <1>9, <2>1, <2>2 DEF ReadSource
<1>10. ASSUME NEW r \in Requests, HandleRootFailure(r) \/ HandlePersistenceFailure(r)
       PROVE  Atomic!Next \/ UNCHANGED Atomic!vars
  <2>0. pc[r] \in {"root_failed", "persist_failed"} /\ MarkFailed(r)
    BY <1>10 DEF HandleRootFailure, HandlePersistenceFailure
  <2>1. run[r].status \in SavedStatuses \cup {"running"}
    BY <1>0, <2>0 DEF CallInvariant, Working
  <2>2. CASE Goto(r, "raised") /\ UNCHANGED run
    BY <1>4, <2>0, <2>1, <2>2 DEF MarkFailed, Labels, Answers, SavedStatuses
  <2>3. CASE Goto(r, "reload_failed") /\ run' = [run EXCEPT ![r] = FailedRun(run[r])]
    <3>1. FailedRun(run[r]).lock = FALSE /\ FailedRun(run[r]).status = "failed"
      BY DEF FailedRun, TypeOK, Runs
    <3>2. \A q \in Requests : q # r => run'[q] = run[q]
      BY <2>3 DEF TypeOK
    <3>3. Outcome(r)' = "failed"
      BY <2>3, <3>1 DEF Outcome, SavedStatuses, TypeOK
    <3>4. Atomic!Settle(r, "failed") /\ rows' = rows
      BY <2>0, <2>3, <3>2, <3>3, SettlingStep DEF MarkFailed
    <3>5. CASE run[r].status = "running"
      <4>1. {q \in Requests : run[q].lock} = {r}
        BY <1>0, <3>5 DEF CallInvariant, SyncInvariant, LockIsTheRunningRun
      <4>2. {q \in Requests : run'[q].lock} = {}
        BY <2>3, <3>1, <4>1 DEF TypeOK
      <4>3. Outcome(r) = "open"
        BY <2>0, <3>5 DEF Outcome, SavedStatuses
      <4>4. Atomic!Fail(r)
        BY <3>4, <4>1, <4>2, <4>3 DEF Atomic!Fail
      <4> QED BY <4>4 DEF Atomic!Next
    <3>6. CASE run[r].status \in SavedStatuses
      <4>1. ~run[r].lock
        BY <1>0, <3>6 DEF CallInvariant, SavedStatuses
      <4>2. {q \in Requests : run'[q].lock} = {q \in Requests : run[q].lock}
        BY <2>3, <3>1, <4>1 DEF TypeOK
      <4>3. Outcome(r) = "saved"
        BY <3>6 DEF Outcome
      <4>4. Atomic!Retract(r)
        BY <3>4, <4>2, <4>3 DEF Atomic!Retract
      <4> QED BY <4>4 DEF Atomic!Next
    <3> QED BY <2>1, <3>5, <3>6
  <2> QED BY <2>0, <2>2, <2>3 DEF MarkFailed
<1>11. ASSUME NEW r \in Requests, ReloadFailed(r) PROVE UNCHANGED Atomic!vars
  <2>1. PICK label \in {"failed", "raised"} : Goto(r, label)
    BY <1>11 DEF ReloadFailed
  <2>2. run[r].status = "failed"
    BY <1>0, <1>11 DEF ReloadFailed, CallInvariant
  <2> QED BY <1>4, <1>11, <2>1, <2>2 DEF ReloadFailed, Labels, Answers
<1>12. ASSUME NEW r \in Requests, BeginTransaction(r) PROVE UNCHANGED Atomic!vars
  BY <1>4, <1>12 DEF BeginTransaction, Labels, Answers
<1>13. ASSUME NEW r \in Requests, PersistSession(r) PROVE UNCHANGED Atomic!vars
  <2>1. CASE Goto(r, "persist_failed")
    BY <1>4, <1>13, <2>1 DEF PersistSession, Labels, Answers
  <2>2. CASE UNCHANGED pc
    BY <1>13, <2>2 DEF PersistSession, Atomic!vars, Outcome
  <2> QED BY <1>13, <2>1, <2>2 DEF PersistSession, PersistFails
<1>14. ASSUME NEW r \in Requests, Commit(r) PROVE Atomic!Next \/ UNCHANGED Atomic!vars
  <2>1. CASE Goto(r, "persist_failed") /\ UNCHANGED <<rows, run>>
    BY <1>4, <1>14, <2>1 DEF Commit, Labels, Answers
  <2>2. CASE /\ rows' = tx[r] /\ run' = [run EXCEPT ![r] = SavedRun(r)]
             /\ Goto(r, "reload")
    <3>1. SavedRun(r).lock = FALSE /\ SavedRun(r).status \in SavedStatuses
      BY DEF SavedRun, SavedStatuses
    <3>2. run[r].status = "running" /\ run[r].lock /\ pc[r] = "persist"
      BY <1>0, <1>14 DEF Commit, CallInvariant, Working
    <3>3. {q \in Requests : run[q].lock} = {r}
      BY <3>2 DEF SyncInvariant, LockIsTheRunningRun
    <3>4. {q \in Requests : run'[q].lock} = {}
      BY <2>2, <3>1, <3>3 DEF TypeOK
    <3>5. Outcome(r) = "open" /\ Outcome(r)' = "saved"
      BY <2>2, <3>1, <3>2 DEF Outcome, SavedStatuses, TypeOK
    <3>6. Atomic!Settle(r, "saved")
      BY <2>2, <3>5, SettlingStep DEF TypeOK
    <3>7. DOMAIN rows' = SessionIds
          /\ \A i \in SessionIds : rows[i] # NoRow => rows'[i] # NoRow
      BY <2>2, <3>2 DEF SyncInvariant, TransactionSeesRows, TypeOK
    <3>8. Atomic!Save(r)
      BY <3>3, <3>4, <3>5, <3>6, <3>7 DEF Atomic!Save
    <3> QED BY <3>8 DEF Atomic!Next
  <2> QED BY <1>14, <2>1, <2>2 DEF Commit, PersistFails
<1>15. ASSUME NEW r \in Requests, ReloadSucceeded(r) PROVE UNCHANGED Atomic!vars
  <2>1. PICK label \in {"succeeded", "persist_failed"} : Goto(r, label)
    BY <1>15 DEF ReloadSucceeded
  <2> QED BY <1>4, <1>15, <2>1 DEF ReloadSucceeded, Labels, Answers
<1>16. CASE Crash
  <2>1. \A q \in Requests : Outcome(q)' = Outcome(q)
    BY <1>16 DEF Crash, InFlight, Answers, Outcome, TypeOK
  <2> QED BY <1>16, <2>1 DEF Crash, Atomic!vars
<1>17. CASE UNCHANGED <<rows, run, pc>>
  BY <1>17 DEF Atomic!vars, Outcome
<1>18. CASE RootChange \/ \E s \in Sources : CliWrite(s) \/ Remove(s) \/ Chmod(s)
  BY <1>17, <1>18 DEF RootChange, CliWrite, Remove, Chmod, ChangeFile
<1>19. CASE UNCHANGED vars
  BY <1>17, <1>19 DEF vars
<1> QED BY <1>5, <1>6, <1>7, <1>8, <1>9, <1>10, <1>11, <1>12, <1>13, <1>14, <1>15,
           <1>16, <1>18, <1>19 DEF Next, Environment, Step

\* Callers see syncs that happen one at a time and all at once, with no row
\* ever lost, whatever the threads, the CLI and the failures do.
THEOREM Implementation == Spec => ImplementsAtomicSync
<1>1. Init => Atomic!Init
  BY InitImplements
<1>2. TypeOK /\ SyncInvariant /\ TypeOK' /\ [Next]_vars => [Atomic!Next]_(Atomic!vars)
  BY NextImplements
<1> QED BY <1>1, <1>2, InvariantCorrect, PTL DEF Spec, ImplementsAtomicSync, Atomic!Spec
=============================================================================
