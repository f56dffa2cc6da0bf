---------------------------- MODULE HistorySync ----------------------------
(***************************************************************************)
(* POST /api/history/sync: HistorySyncService#call run by several Puma     *)
(* threads against one MySQL database, while the Copilot CLI keeps writing *)
(* the raw session files the service reads.                                *)
(*                                                                         *)
(* One action is one statement that another thread, the CLI or a failure   *)
(* can come before or after: a query, the read of one source, one upsert   *)
(* inside the transaction, the commit, a reload.  Variables: the raw files *)
(* (raw, rootOk, now), the database (rows, run), and the locals of each    *)
(* request (pc, sessions, todo, tx, counts).                               *)
(***************************************************************************)
EXTENDS Integers, FiniteSets

CONSTANTS
  Requests,        \* the POST requests, each one call of the service
  Sources,         \* raw session sources, numbered in catalog order
  LegacySources,   \* those under history-session-state/
  SessionIds,      \* session ids, up to the case-insensitive collation
  OwnId,           \* id a source's directory or file name gives
  DeclaredId,      \* id its metadata gives ("session_id" / "sessionId")
  Cwds, NoCwd,     \* working directories a workspace.yaml may name; nil
  Sizes,           \* file sizes
  Healths,         \* conditions of a source a write can leave behind
  TicksPerSecond,  \* clock ticks in a second: mtimes are finer than a second
  MaxTime,         \* bound: no raw file changes after this tick
  UpgradedIds,     \* ids whose row an older release of the program saved
  Failures         \* root, database and process failures that may happen

AllHealths == {"complete", "events_damaged", "events_missing",
               "metadata_damaged", "bad_time"}
AllFailures == {"root", "lookup", "create", "persist", "update", "reload", "crash"}

ASSUME SourcesAssumption ==
  /\ Sources \subseteq Nat \ {0} /\ IsFiniteSet(Sources)
  /\ LegacySources \subseteq Sources
ASSUME IdsAssumption ==
  /\ OwnId \in [Sources -> SessionIds]
  /\ DeclaredId \in [Sources -> SessionIds]
  /\ UpgradedIds \subseteq SessionIds
ASSUME FilesAssumption ==
  /\ NoCwd \notin Cwds
  /\ Sizes \subseteq Nat
  /\ Healths \subseteq AllHealths
  /\ TicksPerSecond \in Nat \ {0}
  /\ MaxTime \in Nat
ASSUME FailuresAssumption == Failures \subseteq AllFailures

VARIABLES
  raw,       \* raw[s]: the files of source s
  rootOk,    \* the history root and its two directories can be read
  now,       \* the clock, which moves when a file changes
  rows,      \* the table copilot_sessions, by session_id
  run,       \* run[r]: the history_sync_runs row request r created
  pc,        \* the statement request r executes next, or its answer
  sessions,  \* sessions[r][s]: what the reader made of source s
  todo,      \* sources r has still to read, then sessions still to save
  tx,        \* tx[r]: copilot_sessions as r's open transaction sees it
  counts     \* counts[r]: the counts hash of persist_sessions

files == <<raw, rootOk, now>>
database == <<rows, run>>
locals == <<sessions, todo, tx, counts>>
vars == <<files, database, pc, locals>>

-----------------------------------------------------------------------------
(* Raw files                                                               *)

Absent == [health |-> "absent", readable |-> FALSE, mtime |-> 0,
           size |-> 0, cwd |-> NoCwd]

\* A legacy file holds one JSON document: no event file can be missing, and
\* LegacySessionReader sets no cwd.
FilesOf(s, time) ==
  [health: IF s \in LegacySources THEN Healths \ {"events_missing"} ELSE Healths,
   readable: {TRUE}, mtime: {time}, size: Sizes,
   cwd: IF s \in LegacySources THEN {NoCwd} ELSE Cwds \cup {NoCwd}]

\* Variant: only the size is compared.
StampOfSize(file) == IF file.health = "absent" THEN [sec |-> 0, size |-> 0]
                     ELSE [sec |-> 1, size |-> file.size]

\* SourceFingerprintBuilder: path, mtime printed by iso8601 without a
\* fraction, and size.  stat needs no read permission on the file.
MissingStamp == [sec |-> 0, size |-> 0]
Stamp(file) == IF file.health = "absent" THEN MissingStamp
               ELSE [sec |-> file.mtime \div TicksPerSecond, size |-> file.size]

-----------------------------------------------------------------------------
(* What the readers make of one source                                     *)

Unlisted(s) == [state |-> "unlisted", id |-> OwnId[s], cwd |-> NoCwd, mtime |-> 0]
Listed(s)   == [state |-> "listed", id |-> OwnId[s], cwd |-> NoCwd, mtime |-> 0]

MetadataLost(file) ==
  file.health \in {"absent", "metadata_damaged"} \/ ~file.readable

\* normalize_time raises ArgumentError on a created_at / startTime that is
\* not ISO 8601; neither the reader nor the service rescues it.
ReaderRaises(file) == ~MetadataLost(file) /\ file.health = "bad_time"

SourceState(file) ==
  IF MetadataLost(file) \/ file.health = "events_damaged" THEN "degraded"
  ELSE IF file.health = "events_missing" THEN "workspace_only"
  ELSE "complete"

ReadSession(s, file) ==
  [state |-> SourceState(file),
   id    |-> IF MetadataLost(file) THEN OwnId[s] ELSE DeclaredId[s],
   cwd   |-> IF MetadataLost(file) THEN NoCwd ELSE file.cwd,
   mtime |-> file.mtime]

\* Variant: workspace-only sessions are saved like any other.
PersistableIfListed(r) == {s \in Sources : sessions[r][s].state # "unlisted"}

Persistable(r) ==
  {s \in Sources : sessions[r][s].state \notin {"unlisted", "workspace_only"}}
DegradedCount(r) ==
  Cardinality({s \in Persistable(r) : sessions[r][s].state = "degraded"})

-----------------------------------------------------------------------------
(* Rows                                                                    *)

SearchTextVersion == 2

NoRow == [src |-> 0, state |-> "none", cwd |-> NoCwd, mtime |-> 0,
          stamp |-> MissingStamp, search |-> 0]

\* Variant: the record builder forgets search_text_version.
RecordUnversioned(s, session, stamp) ==
  [src |-> s, state |-> session.state, cwd |-> session.cwd,
   mtime |-> session.mtime, stamp |-> stamp, search |-> 0]

\* SessionRecordBuilder: the row keeps what was read and the fingerprint it
\* is handed, which was taken later.
Record(s, session, stamp) ==
  [src |-> s, state |-> session.state, cwd |-> session.cwd,
   mtime |-> session.mtime, stamp |-> stamp, search |-> SearchTextVersion]

\* Variant: skip on an equal fingerprint alone.
UnchangedFingerprint(row, s, session, stamp) ==
  row.src = s /\ row.stamp = stamp

\* The fingerprint names the artifact paths, so two sources never agree.
Unchanged(row, s, session, stamp) ==
  /\ row.src = s /\ row.stamp = stamp
  /\ row.search = SearchTextVersion
  /\ row.cwd = session.cwd

NoCounts == [inserted |-> 0, updated |-> 0, skipped |-> 0]

NoRun == [status |-> "none", lock |-> FALSE, started |-> 0, finished |-> 0,
          processed |-> 0, inserted |-> 0, updated |-> 0, skipped |-> 0,
          failed |-> 0, degraded |-> 0]

-----------------------------------------------------------------------------
(* Control                                                                 *)

Answers == {"conflict", "succeeded", "failed", "raised", "crashed"}
InFlight(r) == pc[r] \notin Answers \cup {"idle"}

Goto(r, label) == pc' = [pc EXCEPT ![r] = label]

NoSessions == [s \in Sources |-> Unlisted(s)]
NoRows == [i \in SessionIds |-> NoRow]

\* The locals of a call go out of scope when it returns or raises.
Forget(R) ==
  /\ sessions' = [r \in Requests |-> IF r \in R THEN NoSessions ELSE sessions[r]]
  /\ todo' = [r \in Requests |-> IF r \in R THEN {} ELSE todo[r]]
  /\ tx' = [r \in Requests |-> IF r \in R THEN NoRows ELSE tx[r]]
  /\ counts' = [r \in Requests |-> IF r \in R THEN NoCounts ELSE counts[r]]

\* Variant: sources are taken in the reverse order.
IsNextReversed(r, s) == s \in todo[r] /\ \A t \in todo[r] : s >= t

\* Sources and sessions are taken in catalog order.
IsNext(r, s) == s \in todo[r] /\ \A t \in todo[r] : s <= t

\* existing_running_run: by lock key, or else by status.
RunningRunExists == \E q \in Requests : run[q].lock \/ run[q].status = "running"

\* A row an older release saved: nothing but its search text is outdated.
OldRow(s) == [Record(s, ReadSession(s, raw[s]), Stamp(raw[s])) EXCEPT !.search = 0]

Init ==
  /\ now = TicksPerSecond
  /\ raw \in [Sources -> {Absent} \cup UNION {FilesOf(s, now) : s \in Sources}]
  /\ \A s \in Sources : raw[s] \in {Absent} \cup FilesOf(s, now)
  /\ rootOk = TRUE
  /\ rows \in [SessionIds -> {NoRow} \cup {OldRow(s) : s \in Sources}]
  /\ \A i \in SessionIds :
       rows[i] # NoRow => i \in UpgradedIds /\ ReadSession(rows[i].src, raw[rows[i].src]).id = i
  /\ run = [r \in Requests |-> NoRun]
  /\ pc = [r \in Requests |-> "idle"]
  /\ sessions = [r \in Requests |-> NoSessions]
  /\ todo = [r \in Requests |-> {}]
  /\ tx = [r \in Requests |-> NoRows]
  /\ counts = [r \in Requests |-> NoCounts]

-----------------------------------------------------------------------------
(* Starting a run                                                          *)

\* call, first statement.
Lookup(r) ==
  /\ pc[r] = "idle"
  /\ \/ Goto(r, IF RunningRunExists THEN "conflict" ELSE "create")
     \/ "lookup" \in Failures /\ Goto(r, "raised")
  /\ UNCHANGED <<files, database, locals>>

RunningRun == [NoRun EXCEPT !.status = "running", !.lock = TRUE, !.started = now]

\* Variant: running_lock_key has no unique index.
CreateUnindexed(r) ==
  /\ pc[r] = "create"
  /\ run' = [run EXCEPT ![r] = RunningRun]
  /\ Goto(r, "list")
  /\ UNCHANGED <<files, rows, locals>>

\* Variant: a run that has failed is started again instead of a new one.
CreateReopening(r) ==
  /\ pc[r] = "create"
  /\ \E q \in Requests :
       /\ q = r \/ run[q].status = "failed"
       /\ run' = [run EXCEPT ![q] = RunningRun]
  /\ Goto(r, "list")
  /\ UNCHANGED <<files, rows, locals>>

\* start_running_run; the unique index on running_lock_key refuses a second
\* running row.
Create(r) ==
  /\ pc[r] = "create"
  /\ \/ /\ \A q \in Requests : ~run[q].lock
        /\ run' = [run EXCEPT ![r] = RunningRun]
        /\ Goto(r, "list")
     \/ /\ \E q \in Requests : run[q].lock
        /\ Goto(r, "relookup")
        /\ UNCHANGED run
     \/ /\ "create" \in Failures
        /\ Goto(r, "raised")
        /\ UNCHANGED run
  /\ UNCHANGED <<files, rows, locals>>

\* Variant: a call that lost the race waits until it sees the winner's run.
RelookupUntilFound(r) ==
  /\ pc[r] = "relookup" /\ RunningRunExists
  /\ Goto(r, "conflict")
  /\ UNCHANGED <<files, database, locals>>

\* rescue RecordNotUnique: the run that was in the way may be gone by now,
\* and the exception is then raised again.
Relookup(r) ==
  /\ pc[r] = "relookup"
  /\ \/ Goto(r, IF RunningRunExists THEN "conflict" ELSE "raised")
     \/ "lookup" \in Failures /\ Goto(r, "raised")
  /\ UNCHANGED <<files, database, locals>>

-----------------------------------------------------------------------------
(* Reading the raw files                                                   *)

\* HistoryRootResolver and SessionSourceCatalog.
List(r) ==
  /\ pc[r] = "list"
  /\ \/ /\ ~rootOk
        /\ Goto(r, "root_failed")
        /\ UNCHANGED <<sessions, todo>>
     \/ /\ rootOk
        /\ LET listed == {s \in Sources : raw[s].health # "absent"} IN
             /\ sessions' = [sessions EXCEPT ![r] =
                               [s \in Sources |-> IF s \in listed THEN Listed(s)
                                                                  ELSE Unlisted(s)]]
             /\ todo' = [todo EXCEPT ![r] = listed]
        /\ Goto(r, "read")
  /\ UNCHANGED <<files, database, tx, counts>>

\* One source is read; an exception leaves the service with the run running.
ReadSource(r) ==
  /\ pc[r] = "read"
  /\ \E s \in Sources :
       /\ IsNext(r, s)
       /\ \/ /\ ReaderRaises(raw[s])
             /\ Goto(r, "raised") /\ Forget({r})
          \/ /\ ~ReaderRaises(raw[s])
             /\ sessions' = [sessions EXCEPT ![r][s] = ReadSession(s, raw[s])]
             /\ todo' = [todo EXCEPT ![r] = @ \ {s}]
             /\ UNCHANGED <<pc, tx, counts>>
  /\ UNCHANGED <<files, database>>

\* Variants: a status outside STATUSES; the lock key is left on the failed run.
MarkFailedMisnamed(r) ==
  /\ run' = [run EXCEPT ![r].status = "failure", ![r].finished = now,
                        ![r].failed = 1, ![r].lock = FALSE]
  /\ Goto(r, "reload_failed")
  /\ UNCHANGED <<files, rows, locals>>
MarkFailedLocked(r) ==
  /\ run' = [run EXCEPT ![r].status = "failed", ![r].finished = now, ![r].failed = 1]
  /\ Goto(r, "reload_failed")
  /\ UNCHANGED <<files, rows, locals>>

\* What a run row becomes; a count the failure handlers do not set is kept.
FailedRun(row) ==
  [row EXCEPT !.status = "failed", !.finished = now, !.failed = 1, !.lock = FALSE]

\* handle_root_failure and handle_persistence_failure up to update!.
MarkFailed(r) ==
  /\ \/ /\ run' = [run EXCEPT ![r] = FailedRun(run[r])]
        /\ Goto(r, "reload_failed")
     \/ /\ "update" \in Failures
        /\ Goto(r, "raised")
        /\ UNCHANGED run
  /\ UNCHANGED <<files, rows, locals>>

HandleRootFailure(r) == pc[r] = "root_failed" /\ MarkFailed(r)
HandlePersistenceFailure(r) == pc[r] = "persist_failed" /\ MarkFailed(r)

ReloadFailed(r) ==
  /\ pc[r] = "reload_failed"
  /\ \/ Goto(r, "failed")
     \/ "reload" \in Failures /\ Goto(r, "raised")
  /\ UNCHANGED <<files, database, locals>>

-----------------------------------------------------------------------------
(* Saving the sessions                                                     *)

\* persist_success opens the transaction; persist_sessions rejects the
\* workspace-only sessions.
BeginTransaction(r) ==
  /\ pc[r] = "read" /\ todo[r] = {}
  /\ todo' = [todo EXCEPT ![r] = Persistable(r)]
  /\ tx' = [tx EXCEPT ![r] = rows]
  /\ counts' = [counts EXCEPT ![r] = NoCounts]
  /\ Goto(r, "persist")
  /\ UNCHANGED <<files, database, sessions>>

PersistFails(r) ==
  /\ "persist" \in Failures
  /\ Goto(r, "persist_failed")
  /\ Forget({r})

\* Variant: sessions are saved outside the transaction.
PersistSessionAutocommitted(r) ==
  /\ pc[r] = "persist"
  /\ \E s \in Sources :
       /\ IsNext(r, s)
       /\ todo' = [todo EXCEPT ![r] = @ \ {s}]
       /\ rows' = [rows EXCEPT ![sessions[r][s].id] =
                    Record(s, sessions[r][s], Stamp(raw[s]))]
       /\ tx' = [tx EXCEPT ![r] = rows']
       /\ counts' = [counts EXCEPT ![r].updated = @ + 1]
  /\ UNCHANGED <<files, run, pc, sessions>>

\* create!, skip or update! of one session, given its row and fingerprint.
Insert(r, s, session, existing, stamp) ==
  /\ existing = NoRow
  /\ tx' = [tx EXCEPT ![r][session.id] = Record(s, session, stamp)]
  /\ counts' = [counts EXCEPT ![r].inserted = @ + 1]
Skip(r, s, session, existing, stamp) ==
  /\ existing # NoRow /\ Unchanged(existing, s, session, stamp)
  /\ counts' = [counts EXCEPT ![r].skipped = @ + 1]
  /\ UNCHANGED tx
Update(r, s, session, existing, stamp) ==
  /\ existing # NoRow /\ ~Unchanged(existing, s, session, stamp)
  /\ tx' = [tx EXCEPT ![r][session.id] = Record(s, session, stamp)]
  /\ counts' = [counts EXCEPT ![r].updated = @ + 1]

\* One session: the fingerprint is that of its files as they are now.
SaveSession(r, s) ==
  LET session == sessions[r][s]
      existing == tx[r][session.id]
      stamp == Stamp(raw[s])
  IN \/ Insert(r, s, session, existing, stamp)
     \/ Skip(r, s, session, existing, stamp)
     \/ Update(r, s, session, existing, stamp)

PersistSession(r) ==
  /\ pc[r] = "persist" /\ todo[r] # {}
  /\ \/ /\ \E s \in Sources :
             /\ IsNext(r, s)
             /\ SaveSession(r, s)
             /\ todo' = [todo EXCEPT ![r] = @ \ {s}]
        /\ UNCHANGED <<pc, sessions>>
     \/ PersistFails(r)
  /\ UNCHANGED <<files, database>>

SavedRun(r) ==
  [status |-> IF DegradedCount(r) > 0 THEN "completed_with_issues" ELSE "succeeded",
   lock |-> FALSE, started |-> run[r].started, finished |-> now,
   processed |-> Cardinality({s \in Sources : sessions[r][s].state # "unlisted"}),
   inserted |-> counts[r].inserted, updated |-> counts[r].updated,
   skipped |-> counts[r].skipped, failed |-> 0, degraded |-> DegradedCount(r)]

\* The run's terminal update is the last statement of the transaction.
Commit(r) ==
  /\ pc[r] = "persist" /\ todo[r] = {}
  /\ \/ /\ rows' = tx[r]
        /\ run' = [run EXCEPT ![r] = SavedRun(r)]
        /\ Goto(r, "reload")
        /\ UNCHANGED locals
     \/ PersistFails(r) /\ UNCHANGED database
  /\ UNCHANGED files

\* sync_run.reload after the commit is still under persist_success's rescue;
\* so is an exception that reports a commit the server did make.
ReloadSucceeded(r) ==
  /\ pc[r] = "reload"
  /\ \/ Goto(r, "succeeded")
     \/ "reload" \in Failures /\ Goto(r, "persist_failed")
  /\ Forget({r})
  /\ UNCHANGED <<files, database>>

-----------------------------------------------------------------------------
(* The process and the Copilot CLI                                         *)

\* The server process dies: every call in flight is gone, with its open
\* transaction, and nothing cleans up after it at restart.
Crash ==
  /\ "crash" \in Failures
  /\ \E r \in Requests : InFlight(r)
  /\ pc' = [r \in Requests |-> IF InFlight(r) THEN "crashed" ELSE pc[r]]
  /\ Forget({r \in Requests : InFlight(r)})
  /\ UNCHANGED <<files, database>>

ChangeFile(s, file) ==
  /\ now < MaxTime
  /\ now' = now + 1
  /\ raw' = [raw EXCEPT ![s] = file]
  /\ UNCHANGED <<rootOk, database, pc, locals>>

CliWrite(s) == \E file \in FilesOf(s, now + 1) : ChangeFile(s, file)
Remove(s) == raw[s] # Absent /\ ChangeFile(s, Absent)
Chmod(s) == /\ raw[s] # Absent
            /\ ChangeFile(s, [raw[s] EXCEPT !.readable = ~@])

RootChange == /\ "root" \in Failures
              /\ rootOk' = ~rootOk
              /\ UNCHANGED <<raw, now, database, pc, locals>>

Step(r) ==
  \/ Create(r) \/ Relookup(r)
  \/ List(r) \/ ReadSource(r) \/ HandleRootFailure(r)
  \/ BeginTransaction(r) \/ PersistSession(r) \/ Commit(r) \/ ReloadSucceeded(r)
  \/ HandlePersistenceFailure(r) \/ ReloadFailed(r)

Environment ==
  \/ Crash \/ RootChange
  \/ \E s \in Sources : CliWrite(s) \/ Remove(s) \/ Chmod(s)

Next == Environment \/ \E r \in Requests : Lookup(r) \/ Step(r)

Spec == Init /\ [][Next]_vars

\* A Puma thread that has a request runs it to the end.
FairSpec == Spec /\ \A r \in Requests : WF_vars(Step(r))

-----------------------------------------------------------------------------
(* Types                                                                   *)

Stamps == [sec: Nat, size: Nat]
SessionStates == {"complete", "workspace_only", "degraded"}
AnyCwd == Cwds \cup {NoCwd}
RawFiles == [health: AllHealths \cup {"absent"}, readable: BOOLEAN,
             mtime: Nat, size: Nat, cwd: AnyCwd]
Sessions == [state: SessionStates \cup {"unlisted", "listed"},
             id: SessionIds, cwd: AnyCwd, mtime: Nat]
Rows == [src: Sources \cup {0},
         state: SessionStates \cup {"none", "unlisted", "listed"},
         cwd: AnyCwd, mtime: Nat, stamp: Stamps, search: {0, SearchTextVersion}]
SavedStatuses == {"succeeded", "completed_with_issues"}
Terminal == SavedStatuses \cup {"failed"}
Runs == [status: {"none", "running"} \cup Terminal, lock: BOOLEAN,
         started: Nat, finished: Nat, processed: Nat, inserted: Nat,
         updated: Nat, skipped: Nat, failed: Nat, degraded: Nat]
Labels == {"idle", "create", "relookup", "list", "read", "root_failed",
           "persist", "persist_failed", "reload", "reload_failed"} \cup Answers

CountsHash == [inserted: Nat, updated: Nat, skipped: Nat]

\* Every variable stays in its type.
TypeOK ==
  /\ raw \in [Sources -> RawFiles] /\ rootOk \in BOOLEAN /\ now \in Nat
  /\ rows \in [SessionIds -> Rows] /\ run \in [Requests -> Runs]
  /\ pc \in [Requests -> Labels]
  /\ sessions \in [Requests -> [Sources -> Sessions]]
  /\ todo \in [Requests -> SUBSET Sources]
  /\ tx \in [Requests -> [SessionIds -> Rows]]
  /\ counts \in [Requests -> CountsHash]

-----------------------------------------------------------------------------
(* Safety                                                                  *)

\* Between the insert of its run and the commit or the failure handler.
Working(r) == pc[r] \in {"list", "read", "root_failed", "persist"}

\* Two calls never read and save at the same time, and the one that does
\* still holds the running lock: no failure handler, crash or late answer of
\* another call has taken it away.
SyncsAreExclusive ==
  /\ \A r \in Requests : Working(r) => run[r].status = "running" /\ run[r].lock
  /\ \A q, r \in Requests : Working(q) /\ Working(r) => q = r

\* The sources of r that are not read again under the same id later in the
\* catalog.
LastWithItsId(r) ==
  {s \in Persistable(r) :
     \A t \in Persistable(r) : t > s => sessions[r][t].id # sessions[r][s].id}

Commits(r) == pc[r] = "persist" /\ pc'[r] = "reload"

\* A committed run accounts for every listed source once: inserted, updated,
\* skipped, or left out as workspace-only.
CountsAccountForEverySource ==
  \A r \in Requests : pc[r] = "reload" =>
    run[r].processed = run[r].inserted + run[r].updated + run[r].skipped
      + Cardinality({s \in Sources : sessions[r][s].state = "workspace_only"})

\* The row shows the source and the working directory of the session read from
\* source s, under the current search projection.
Projects(row, s, session) ==
  row.src = s /\ row.cwd = session.cwd /\ row.search = SearchTextVersion

\* Why a row may be older than the session: its source was written between a
\* read and the fingerprint that was stored with it, or twice within one second,
\* or was gone both when the row was read and when this sync took its fingerprint.
IsExplained(row, session) ==
  \/ row.mtime >= session.mtime
  \/ row.stamp.sec # row.mtime \div TicksPerSecond
  \/ row.mtime \div TicksPerSecond = session.mtime \div TicksPerSecond
  \/ row.mtime = 0 /\ row.stamp = MissingStamp

\* After a committed sync the row of every session read shows that session's
\* source and working directory under the current search projection, even
\* where a stale fingerprint would have let the row be skipped.
SyncedRowsAreProjected ==
  [][\A r \in Requests : Commits(r) =>
       \A s \in LastWithItsId(r) :
         Projects(rows'[sessions[r][s].id], s, sessions[r][s])]_vars

\* A committed sync leaves a row older than what it read only for one of three
\* reasons: an earlier sync stored the fingerprint of files it had not read, two
\* writes fell into one second, or the source was there for this sync's read only.
StaleRowsAreExplained ==
  [][\A r \in Requests : Commits(r) =>
       \A s \in LastWithItsId(r) :
         IsExplained(rows'[sessions[r][s].id], sessions[r][s])]_vars

IdsAreDistinct ==
  \A s, t \in Sources :
    s # t => {OwnId[s], DeclaredId[s]} \cap {OwnId[t], DeclaredId[t]} = {}
Quiet(q, r) ==
  Cardinality({run[q].started, run[q].finished, run[r].started, run[r].finished}) = 1

\* When no file changes from the start of one sync to the end of another,
\* only one of the two saves anything: the other skips every session.
QuietResyncSkipsEverything ==
  IdsAreDistinct =>
    \A q, r \in Requests :
      q # r /\ run[q].status \in SavedStatuses /\ run[r].status \in SavedStatuses
            /\ Quiet(q, r)
        => run[q].inserted + run[q].updated = 0 \/ run[r].inserted + run[r].updated = 0

\* A call that was not killed leaves its run terminal: what cannot be completed
\* is recorded as failed.
EndedRunsAreRecorded ==
  \A r \in Requests : pc[r] \in Answers \ {"crashed"} => run[r].status # "running"

\* A sync recorded as failed has saved nothing.
FailedRunsSavedNothing ==
  \A r \in Requests : run[r].status = "failed" => run[r].inserted + run[r].updated = 0

\* A committed sync leaves every session it read as it read it.
ReadSessionsAreSynced ==
  [][\A r \in Requests : Commits(r) =>
       \A s \in LastWithItsId(r) :
         rows'[sessions[r][s].id].mtime = sessions[r][s].mtime]_vars

\* A terminal run row changes in one way only: the call that wrote it fails
\* to reload it and marks it failed.
OutcomesAreFinal ==
  [][\A r \in Requests : run[r].status \in Terminal /\ run'[r] # run[r]
        => pc[r] = "persist_failed" /\ run'[r].status = "failed" /\ ~run'[r].lock]_vars

-----------------------------------------------------------------------------
(* The inductive invariant                                                 *)

\* A run row holds the lock exactly while it is running, and one at most does.
LockIsTheRunningRun ==
  /\ \A r \in Requests : run[r].lock <=> run[r].status = "running"
  /\ \A q, r \in Requests : run[q].lock /\ run[r].lock => q = r

\* Where a call is tells what its run row says.
RunFollowsCall ==
  \A r \in Requests :
    /\ pc[r] \in {"idle", "create", "relookup", "conflict"} => run[r].status = "none"
    /\ Working(r) => run[r].status = "running"
    /\ pc[r] \in {"reload", "succeeded"} => run[r].status \in SavedStatuses
    /\ pc[r] = "persist_failed" => run[r].status \in SavedStatuses \cup {"running"}
    /\ pc[r] \in {"reload_failed", "failed"} => run[r].status = "failed"

\* An open transaction sees every row that has been committed.
TransactionSeesRows ==
  \A r \in Requests : pc[r] = "persist" =>
    \A i \in SessionIds : rows[i] # NoRow => tx[r][i] # NoRow

\* Together with the types, what every step preserves.
SyncInvariant == LockIsTheRunningRun /\ RunFollowsCall /\ TransactionSeesRows

-----------------------------------------------------------------------------
(* What callers see of it                                                  *)

\* The run row decides once there is one; a call that raised or met a conflict
\* before has none.
Outcome(r) ==
  IF run[r].status \in SavedStatuses THEN "saved"
  ELSE IF run[r].status = "failed" THEN "failed"
  ELSE IF pc[r] = "conflict" THEN "conflict"
  ELSE IF pc[r] = "raised" /\ run[r].status = "none" THEN "refused"
  ELSE "open"

Atomic == INSTANCE AtomicSync WITH
  model <- rows,
  holder <- {r \in Requests : run[r].lock},
  outcome <- [r \in Requests |-> Outcome(r)]

\* The service implements AtomicSync: no interleaving of calls, failure of a
\* statement or crash shows a caller half a sync, two at once, or a lost row.
ImplementsAtomicSync == Atomic!Spec

-----------------------------------------------------------------------------
(* Liveness                                                                *)

\* A call that has passed its first lookup is answered, whatever fails and
\* whoever holds the lock: nobody waits for the lock.
CallsAreAnswered == \A r \in Requests : InFlight(r) ~> pc[r] \in Answers

\* The lock a call takes is released, unless the call was killed or ended in an
\* exception; then nothing releases it.
LockIsReleased ==
  \A r \in Requests : run[r].lock ~> ~run[r].lock \/ pc[r] \in {"crashed", "raised"}
=============================================================================
