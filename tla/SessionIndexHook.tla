-------------------------- MODULE SessionIndexHook --------------------------
(***************************************************************************)
(* useSessionIndex: the list of sessions that the index page shows, with   *)
(* the date range and the search term applied to it.  A list is fetched    *)
(* when the page is mounted, when other criteria are applied and when a    *)
(* reload is asked for; each fetch aborts the one before it.  Answers are  *)
(* kept in module-level snapshots, which outlive the page.                 *)
(*                                                                         *)
(* A render and its effects are one step with the task that causes them,   *)
(* so a useState value and the ref that mirrors it are one variable.  The  *)
(* client is the module's sessionApiClient: it never changes.  A request   *)
(* is named by its AbortController; the code's increasing ids are only     *)
(* compared between requests in flight, so the names are used again.       *)
(***************************************************************************)
EXTENDS Naturals

CONSTANTS
  Requests,      \* names of fetches
  Ranges,        \* date ranges with at least one date
  Terms, NoTerm, \* normalised search terms; NoTerm is ''
  LastDay,       \* bound: the days that pass are 0..LastDay
  DefaultRange,  \* the last seven days, by day
  MaxVersion,    \* bound: the changes of the read model
  DoubleMount,   \* StrictMode in development runs the mount effect twice
  None

Days == 0 .. LastDay

ASSUME CriteriaAssumption ==
  /\ LastDay \in Nat /\ DefaultRange \in [Days -> Ranges]
  /\ NoTerm \in Terms
ASSUME VersionAssumption == MaxVersion \in Nat
ASSUME MountAssumption == DoubleMount \in BOOLEAN

\* The form's two empty date fields.
Blank == [blank |-> TRUE]
Criteria == [range : Ranges, searchTerm : Terms]

\* A settled state: a list of the read model's version for some criteria, its
\* being empty, or an error, which belongs to no list.
Lists == [status : {"success", "empty"}, of : Criteria, version : Nat]
Error == [status |-> "error"]
Answers == Lists \cup {Error}

Envelopes == [queryKey : Criteria, state : Answers]

ASSUME NoneAssumption == None \notin Answers \cup Criteria \cup Requests \cup Envelopes

VARIABLES
  today, version,  \* the date, and how often the read model has changed
  criteria,        \* appliedCriteria; None when the page is not mounted
  settled,         \* settledState
  isRefreshing,
  active,          \* activeRequestRef
  requests,        \* the fetches in flight and what performRequest knows of each
  snapshots        \* reusableSnapshots

hookVars == <<criteria, settled, isRefreshing, active, requests, snapshots>>
vars == <<today, version, hookVars>>

-----------------------------------------------------------------------------
(* performRequest                                                          *)

Free == [status |-> "free"]
NewRequest(c, keep, mount) ==
  [status |-> "sent", aborted |-> FALSE, criteria |-> c, answer |-> None,
   preserveSnapshotOnError |-> keep, revalidates |-> mount,
   previousState |-> IF settled = None THEN None ELSE settled.state]

FlightStates == [status : {"sent", "served"}, aborted : BOOLEAN, criteria : Criteria,
                 answer : Answers \cup {None}, preserveSnapshotOnError : BOOLEAN,
                 revalidates : BOOLEAN, previousState : Answers \cup {None}]
InFlight(r) == requests[r] # Free

\* controller.abort() on the active request.
AbortedBy(reqs, act) ==
  [r \in Requests |-> IF r = act THEN [reqs[r] EXCEPT !.aborted = TRUE] ELSE reqs[r]]

\* The synchronous part: abort the active request, be the active one, fetch.
Perform(r, c, preserveVisibleState, preserveSnapshotOnError) ==
  /\ ~InFlight(r)
  /\ requests' = [AbortedBy(requests, active) EXCEPT
                    ![r] = NewRequest(c, preserveSnapshotOnError, FALSE)]
  /\ active' = r
  /\ isRefreshing' = preserveVisibleState
  /\ settled' = IF preserveVisibleState THEN settled ELSE None
  /\ UNCHANGED snapshots

IsReusable(state) == state # None /\ state # Error

-----------------------------------------------------------------------------
(* Callers of performRequest                                               *)

Mounted == criteria # None

\* Variant: whatever snapshot the client has, as before snapshots had a key.
ReadAnySnapshot(c) ==
  IF \A d \in Criteria : snapshots[d] = None THEN None
  ELSE snapshots[CHOOSE d \in Criteria : snapshots[d] # None]
ReadReusableSnapshot(c) == snapshots[c]

\* A snapshot that is shown at once is the state before the request.
MountRequest(c, snapshot) ==
  [NewRequest(c, snapshot # None, snapshot # None) EXCEPT !.previousState = snapshot]
DisposedRequest(q) == [q EXCEPT !.aborted = TRUE, !.revalidates = FALSE]

\* The page appears with today's default range.  A snapshot of it is shown at
\* once while it is fetched again.  StrictMode runs the effect, its cleanup and
\* the effect again, which leaves an aborted request behind.
Mount ==
  LET initial == [range |-> DefaultRange[today], searchTerm |-> NoTerm]
      snapshot == ReadReusableSnapshot(initial)
      fetch == MountRequest(initial, snapshot)
      disposed == DisposedRequest(fetch) IN
  /\ ~Mounted
  /\ criteria' = initial
  /\ settled' = IF snapshot = None THEN None
                ELSE [queryKey |-> initial, state |-> snapshot]
  /\ isRefreshing' = (snapshot # None)
  /\ \E r \in Requests :
       /\ ~InFlight(r)
       /\ active' = r
       /\ \/ ~DoubleMount /\ requests' = [requests EXCEPT ![r] = fetch]
          \/ /\ DoubleMount
             /\ \E first \in Requests \ {r} :
                  /\ ~InFlight(first)
                  /\ requests' = [requests EXCEPT ![r] = fetch, ![first] = disposed]
  /\ UNCHANGED <<today, version, snapshots>>

Disposed(reqs) ==
  [r \in Requests |-> IF reqs[r] = Free THEN Free
                      ELSE [reqs[r] EXCEPT !.revalidates = FALSE]]

\* The effect's cleanup; the component's state goes with it.
Unmount ==
  /\ Mounted
  /\ requests' = Disposed(AbortedBy(requests, active))
  /\ active' = None
  /\ criteria' = None /\ settled' = None /\ isRefreshing' = FALSE
  /\ UNCHANGED <<today, version, snapshots>>

Apply(r, c) ==
  /\ criteria' = c
  /\ Perform(r, c, FALSE, FALSE)
  /\ UNCHANGED <<today, version>>

ApplyRange(r) ==
  /\ Mounted
  /\ \E range \in Ranges \cup {Blank} :
       Apply(r, [criteria EXCEPT !.range =
                   IF range = Blank THEN DefaultRange[today] ELSE range])

\* clearSearch is applySearch('').
ApplySearch(r) ==
  /\ Mounted
  /\ \E term \in Terms : Apply(r, [criteria EXCEPT !.searchTerm = term])

ReloadSessions(r) ==
  /\ Mounted
  /\ Perform(r, criteria, TRUE, TRUE)
  /\ UNCHANGED <<today, version, criteria>>

-----------------------------------------------------------------------------
(* The answer of a request                                                 *)

\* The API evaluates the query, or the fetch fails on its way there.
Serve(r) ==
  /\ InFlight(r) /\ requests[r].status = "sent"
  /\ \E answer \in {[status |-> s, of |-> requests[r].criteria, version |-> version] :
                      s \in {"success", "empty"}} \cup {Error} :
       requests' = [requests EXCEPT ![r].status = "served", ![r].answer = answer]
  /\ UNCHANGED <<today, version, criteria, settled, isRefreshing, active, snapshots>>

\* Variant: no answer is taken for stale.
IsStaleNever(r) == FALSE

\* Nothing but the abort and the identity of the active request tells a late
\* answer from the one that is waited for.
IsStale(r) == requests[r].aborted \/ active # r

\* What performRequest resolves to.
Outcome(r) ==
  IF IsStale(r) /\ requests[r].previousState # None
  THEN requests[r].previousState
  ELSE requests[r].answer

\* Variant: whether there was a list is not asked.
KeepsSnapshotAlways(r) == requests[r].answer = Error /\ requests[r].preserveSnapshotOnError

\* A reload that fails leaves the list it was to replace.
KeepsSnapshot(r) ==
  /\ requests[r].answer = Error
  /\ requests[r].preserveSnapshotOnError
  /\ IsReusable(requests[r].previousState)

\* performRequest applies its result, or the mount effect applies the error that
\* performRequest kept back.
IsApplied(r) ==
  \/ ~IsStale(r) /\ ~KeepsSnapshot(r)
  \/ requests[r].revalidates /\ Outcome(r) = Error

\* Variant: the key of a snapshot forgets the range, as if it were the default.
SnapshotKeyOfTerm(r) == [requests[r].criteria EXCEPT !.range = DefaultRange[today]]

\* applySettledState writes the snapshot and shows the state, both under the
\* key of the request.
ShowsUnder(r) == requests[r].criteria
SnapshotKey(r) == requests[r].criteria

\* Variant: every request clears activeRequestRef.
ReleasesAlways(r) == None

\* Only the active request clears the ref.
Releases(r) == IF active = r THEN None ELSE active

\* The fetch resolves and performRequest goes on, up to its end and through the
\* then-handler of the mount effect: microtasks of one task.
Settle(r) ==
  /\ InFlight(r) /\ requests[r].status = "served"
  /\ active' = Releases(r)
  /\ isRefreshing' = IF active = r THEN FALSE ELSE isRefreshing
  /\ IF IsApplied(r)
       THEN /\ settled' = [queryKey |-> ShowsUnder(r), state |-> Outcome(r)]
            /\ snapshots' = IF IsReusable(Outcome(r))
                            THEN [snapshots EXCEPT ![SnapshotKey(r)] = Outcome(r)]
                            ELSE snapshots
       ELSE UNCHANGED <<settled, snapshots>>
  /\ requests' = [requests EXCEPT ![r] = Free]
  /\ UNCHANGED <<today, version, criteria>>

-----------------------------------------------------------------------------
(* The world                                                               *)

NextDay == today < LastDay /\ today' = today + 1 /\ UNCHANGED <<version, hookVars>>

\* A sync, of this page or of another client, changes the read model.
ModelChanges ==
  version < MaxVersion /\ version' = version + 1 /\ UNCHANGED <<today, hookVars>>

Init ==
  /\ today = 0 /\ version = 0
  /\ criteria = None /\ settled = None /\ isRefreshing = FALSE /\ active = None
  /\ requests = [r \in Requests |-> Free]
  /\ snapshots = [c \in Criteria |-> None]

Next ==
  \/ Mount \/ Unmount \/ NextDay \/ ModelChanges
  \/ \E r \in Requests : ApplyRange(r) \/ ApplySearch(r) \/ ReloadSessions(r)
                         \/ Serve(r) \/ Settle(r)

Spec == Init /\ [][Next]_vars

-----------------------------------------------------------------------------
(* Properties                                                              *)

\* TypeOK: the type of every variable.
TypeOK ==
  /\ today \in Days /\ version \in 0 .. MaxVersion
  /\ criteria \in Criteria \cup {None}
  /\ settled \in Envelopes \cup {None}
  /\ isRefreshing \in BOOLEAN
  /\ active \in Requests \cup {None}
  /\ requests \in [Requests -> FlightStates \cup {Free}]
  /\ snapshots \in [Criteria -> Lists \cup {None}]

\* What the page shows belongs to the date range and search term that it says
\* are applied, whatever was applied, reloaded, aborted or answered late before.
ShownListMatchesCriteria ==
  settled # None =>
    /\ settled.queryKey = criteria
    /\ settled.state # Error => settled.state.of = criteria

\* A snapshot, which outlives the page, is a list of its own criteria.
SnapshotsHoldTheirOwnList ==
  \A c \in Criteria : snapshots[c] # None => snapshots[c].of = c

\* A page that shows nothing yet waits for an answer that it will accept: the
\* active request is in flight, was not aborted and is for the page's criteria.
LoadingAwaitsAnAnswer ==
  Mounted /\ (settled = None \/ isRefreshing) =>
    /\ active # None /\ InFlight(active) /\ ~requests[active].aborted
    /\ requests[active].criteria = criteria

\* No answer replaces a newer one: a snapshot is never overwritten by an older
\* state of the read model, and neither is the list that is shown.
ListsNeverGetOlder ==
  [][/\ \A c \in Criteria :
          snapshots[c] # None => snapshots'[c].version >= snapshots[c].version
     /\ (/\ settled # None /\ settled' # None /\ criteria' = criteria
         /\ settled.state # Error /\ settled'.state # Error)
        => settled'.state.version >= settled.state.version]_vars

\* Whatever the order of answers and aborts, the page behaves like one that has a
\* single question under way and never shows an answer to another.
Viewer == INSTANCE ListViewer
            WITH shown <- IF settled = None THEN None ELSE settled.state,
                 asking <- active # None
ImplementsListViewer == Viewer!Spec

\* HookInvariant: the inductive form of the invariants above.
AnswersAreOwn ==
  \A r \in Requests : InFlight(r) =>
    /\ (requests[r].answer = None) = (requests[r].status = "sent")
    /\ IsReusable(requests[r].answer) => /\ requests[r].answer.of = requests[r].criteria
                                        /\ requests[r].answer.version <= version
    /\ requests[r].revalidates => IsReusable(requests[r].previousState)
OnlyActiveCounts ==
  /\ \A r \in Requests : InFlight(r) /\ ~requests[r].aborted => r = active
  /\ active # None => /\ Mounted /\ InFlight(active) /\ ~requests[active].aborted
                      /\ requests[active].criteria = criteria
                      /\ IsReusable(requests[active].previousState)
                           /\ requests[active].preserveSnapshotOnError
                         => settled # None /\ settled.state = requests[active].previousState
KnownVersions ==
  /\ \A c \in Criteria : snapshots[c] # None => snapshots[c].version <= version
  /\ settled # None /\ settled.state # Error => settled.state.version <= version
  /\ active # None /\ IsReusable(requests[active].answer) =>
       /\ \A c \in Criteria :
            snapshots[c] # None => snapshots[c].version <= requests[active].answer.version
       /\ settled # None /\ settled.state # Error =>
            settled.state.version <= requests[active].answer.version
HookInvariant ==
  /\ TypeOK
  /\ AnswersAreOwn /\ OnlyActiveCounts /\ KnownVersions
  /\ ShownListMatchesCriteria /\ SnapshotsHoldTheirOwnList
  /\ Mounted /\ (settled = None \/ isRefreshing) => active # None
  /\ ~Mounted => settled = None /\ active = None /\ ~isRefreshing
=============================================================================
