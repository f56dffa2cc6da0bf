# A TLA+ model of copilot-cli-history

The repository is a viewer for GitHub Copilot CLI sessions. The CLI writes raw
files under `~/.copilot`; a Rails API reads them on demand into a MySQL read
model (`POST /api/history/sync`) and serves the read model
(`GET /api/sessions`, `GET /api/sessions/:id`); a React application shows lists
and details and starts syncs. Nothing runs in the background: every change of
the read model happens inside one POST request, on one of three Puma threads.

## 1. Inventory

| component | state it keeps | operations | interacts with | hard parts | what makes it correct |
|---|---|---|---|---|---|
| raw sources (`session_catalog_reader.rb`, `session_source_catalog.rb`, `history_root_resolver.rb`) | the files, which the CLI writes at any time | list the sources, read one | called by the sync service | files change between listing, reading and fingerprinting | damage to one session never hides the others; a root failure is told apart from an empty history |
| sync service (`history_sync_service.rb`, `history_sync_run.rb`) | `history_sync_runs` with the unique `running_lock_key` | `call`: look up, create, read, save in one transaction, reload, or record a failure | reader, fingerprint, record builder, MySQL | races of threads, exceptions at each statement, crashes, stale fingerprints | one sync at a time; all of a sync or nothing; every ended sync recorded; the counts add up |
| session readers (`current_session_reader.rb`, `legacy_session_reader.rb`, `event_normalizer.rb`) | none | read and normalise one session | catalog, types | partial damage, unknown event shapes, model priority | every line becomes an event or an issue; the state says what was lost |
| read model rows (`session_record_builder.rb`, `session_search_text_builder.rb`, `copilot_session.rb`) | `copilot_sessions` | build a record | sync service, queries | rows of older releases, two sources with one id | a row shows one read of one source |
| queries (`session_index_query.rb`, `session_list_params.rb`, `session_detail_query.rb`) | none | three queries for a list, one for a detail | read model while a sync commits | no transaction around the three queries | each session once, in order, in range |
| projections and presenters | none | conversation, activity, payloads | record builder | events that belong to neither projection | no message is lost or shown twice |
| `useSessionIndex.ts` | list state, applied criteria, request id, snapshots | load, reload, apply a date range or search, unmount | API client, page, sync hook | answers out of order, aborts, StrictMode's double mount | what is shown belongs to the criteria shown |
| `useHistorySync.ts` | sync state, in-flight flag, mounted flag | start, retry the refresh | API, `useSessionIndex.reloadSessions` | a second click, unmount during an await, a refresh overtaken by a search | one POST at a time per mount; the outcome shown is the outcome reached |
| `useSessionDetail.ts` | detail state, raw state | load, request raw, change of id, unmount | API client | id changes with answers under way | the detail shown is that of the id shown |
| list forms and criteria (`SessionDateFilterForm.tsx`, `SessionSearchForm.tsx`, `sessionDateFilter.ts`, `sessionIndexCriteria.ts`) | drafts of the fields | validate, normalise, build the query | list hook, `session_list_params.rb` | two languages with their own notion of white space, length and the end of a day | what the page names is what is listed |
| directory tabs (`sessionDirectoryTabs.ts`, `SessionDirectoryTabs.tsx`, `SessionIndexPage.tsx`) | the selected tab, a queued fallback | build the tabs of a list, select, fall back | list hook | lists that come and go under a selection; directories of one name | the chosen tab stays; tabs tell their directories apart |
| detail page (`SessionDetailPage.tsx`, `ConversationTranscript.tsx`, `TimelineContent.tsx`, `DisclosureSection.tsx`, `conversationContent.ts`) | what the reader has opened and closed | cut a text into blocks, hide, collapse, toggle | detail hook | state that outlives the session it belongs to; odd fence marks | only the reader opens and closes; everything said can be read |
| other components and `formatters.ts` | none | labels, badges, panels | hooks | – | – |

The list of everything that is hard to test, each at its line, is in
`PROJECT.json` under `hazards`.

## 2. Plan

Order of work, the most important behaviour first.

| module | what it is | composes with | proofs |
|---|---|---|---|
| `AtomicSync` | what a sync promises its callers, without the service's steps | abstract specification of `HistorySync` | – |
| `HistorySync` | `HistorySyncService#call` on several threads, MySQL, the CLI | refines `AtomicSync` | `HistorySyncProofs`, `HistorySyncRowsProofs` |
| `ListViewer` | what a user of the list is promised, without requests or snapshots | abstract specification of `SessionIndexHook` | – |
| `SessionIndexHook` | `useSessionIndex` | refines `ListViewer` | `SessionIndexHookProofs` |
| `IndexPage` | `useHistorySync` and the forms on the page of the list | extends `SessionIndexHook` | `IndexPageProofs` |
| `SessionDetailHook` | `useSessionDetail` | – | `SessionDetailHookProofs` |
| `ConversationContent` | the blocks of an utterance, its tools, what is hidden by default | – | in `AppProofs` |
| `SessionDetailPage` | the detail page: what is open in it | extends `SessionDetailHook` and `ConversationContent` | in `AppProofs` |
| `DirectoryTabs` | the tabs of working directories and the one selected | – | in `AppProofs` |
| `App` | the two pages behind one route | extends `SessionDetailPage` and `DirectoryTabs` | `AppProofs` |
| `SessionIndexQuery` | `GET /api/sessions` while syncs commit | – | `SessionIndexQueryProofs` |
| `ListForms` | the two forms, from what is typed to what the API reads of it | extends `SessionIndexQuery` | in `SessionIndexQueryProofs` |
| `EventReading` | the two readers, `EventNormalizer`, the two projectors, the detail's issues and the search text, while the CLI appends | – | `EventReadingProofs` |

The modules whose names begin with `MC` give TLC its instances.

Every safety property that a run checks, invariant, action property or refinement,
is also a theorem. What is left to the runs is liveness (section 7). Left of the
plan are lemmas of the readers that no property asks for yet, and the parts of the
system in section 8.

## 3. How the models correspond to the code

`PROJECT.json` maps each definition to its lines. What follows is the idea of
each module.

### HistorySync

One action is one statement that something else can come between: `Lookup`
(`find_by` of a running run), `Create` (the insert of a run with the unique lock
key), `Relookup` (after the loser's `RecordNotUnique`), `List` (the catalog),
`ReadSource` (the read of one source), `BeginTransaction`, `PersistSession`
(fingerprint, lookup of the row, skip / insert / update), `Commit` (the run's
update and the commit), `ReloadSucceeded`, and the two failure handlers with
their reload. `tx[r]` is `copilot_sessions` as the open transaction of `r` sees
it; it reaches `rows` only in `Commit`. Every statement that can raise has a
branch that does, switched on by the constant `Failures`. `Crash` kills the
process: every call in flight ends, transactions are rolled back, and the run
row stays as it is. The environment writes, removes and chmods files; `now`
advances with each change of a file, so "no file changed between" is the same as
"the same `now`", and `TicksPerSecond` separates the clock from the second
resolution of the mtime that the fingerprint keeps.

`health` is what the reader can tell about a source: complete, events damaged,
events missing, metadata damaged (then the declared id and the working directory
are lost and the source's own id is used), or a start time that `Time.iso8601`
rejects. A row keeps the source, state, working directory, read time, fingerprint
and search text version: what the skip decision and the properties tell apart.

The mapping to `AtomicSync` takes the holder to be whoever's run row has the
lock, and the outcome of a call from its run row, not from its program counter.
`AtomicSync!Retract` is in the abstract specification because the code has it
(finding 2): a saved sync may still be reported as failed.

### SessionIndexHook, ListViewer

`Perform` is the synchronous part of `performRequest`, `Serve` the API's answer,
`Settle` the rest of `performRequest` with the mount effect's then-handler, which
run in one task. The three callers are `ApplyRange`, `ApplySearch` and
`ReloadSessions`; `Mount` shows a snapshot and revalidates it. `criteria = None`
says the page is closed. A list is its criteria and the version of the read model
it was read from.

Abstractions. A render and its effects are one step with the task that set the
state, so a ref and the state it mirrors are one variable. The client is the
module's constant client, so the snapshot key is the criteria alone. The code
compares request ids only between requests that are in flight, so a name is free
again when its request has settled. An aborted fetch may settle late and with any
answer: a real browser rejects it at once, which is among these behaviours, and
the properties therefore do not rest on it.

### IndexPage

Adds `useHistorySync` to the hook: `StartSync`, the API's answer `ServePost`, the
code after the first await `SyncAnswered`, and the code after the reload, which
runs in the task in which the reload's fetch settles (`SettlePage`). The forms
apply criteria only when nothing is loading, as `isApplying` has it. `activeSync`
is a ref of one mount: a page opened again does not know of an earlier POST, and
a second one is then possible, which the API answers with a conflict.
`OneSyncPerPage` is therefore about the POSTs of one mount.

### SessionDetailHook

The route's session, the fetch of its detail and of its raw payloads. A change
of the route is the effect's cleanup and the effect again; the settled state
stays until the new detail arrives but is in sight only while its id is the
route's. The backend of this repository never includes raw payloads in its
answer; the hook's contract allows both, and both are modelled. A fetch that was
aborted at a change of route can never be applied again, so its name is free when
it has settled, as in `SessionIndexHook`.

### ConversationContent, SessionDetailPage

A text is a sequence of tokens (fence mark, newline, backtick, word, space, the
opening of a skill context), and a block names the places of the tokens it holds
and where it begins (`from`), so that a property can say that nothing of the text
is lost or shown twice. The code pushes blocks as it goes through the text, so
their list is the set `ExtractContentBlocks` in the order of `from`: `blocks[0]` is
`IsFirst`. `Fences`, `HintEnd` and `CodeStart` are the regular expression of
`CODE_FENCE_PATTERN`: fence marks pair up from the left, so the marks that open are
those of odd rank, and the hint takes the rest of the opening mark's line. A backtick beside a fence mark, where the pattern could
match at another place, is left out of the inputs.

`parts` is the state of the mounted components: the visibility of the entries
with the scope it was set in, the unfolded tools of each entry likewise, and the
expanded sections. `Reconcile` is React: one branch of the page renders the
detail, so its components, keyed by their places, stay when one detail replaces
another and go when there is none. An entry that is hidden is not rendered, so
hiding it forgets which of its tools were unfolded. The entries of a session are
the same at every fetch.

### DirectoryTabs, App

A working directory is a sequence of names, with or without a slash at its end
and blanks around it; `"//"` and the like, which have no name, are left out.
`BuildTabs`, `DisplayLabel` and `SessionsFor` are `sessionDirectoryTabs.ts`;
the tabs are a set, and `Place` is the order they stand in, which only the arrow
keys ask for;
`Render` is a render of the page with its effect: the cleanup calls off the
microtask that was due and the effect queues another when the selected tab is not
one of the list's. `RunFallback` may come late in the model, with clicks and other
lists before it, as nothing in the code depends on a microtask being prompt.

`App` has the two pages behind one route. Opening a session unmounts the index
page with its selected tab, and going back makes a new one. The list hook is not
part of this composition: the lists are any of `Lists`, in any order.

### SessionIndexQuery

Three autocommit statements (`PluckUpdated`, `PluckCreated`, `PluckPayloads`)
with commits between them. `moments` is a history variable: the tables there have
been since the call began. Times and session ids are numbers in the order of the
code's comparison. A sorted list is described by ranks: `NewerThan` counts who
comes before a candidate, `Ordered` puts it there, and `First` is the candidates of
the limit. `Newest` is the code's comparison and, for two candidates of one session
and time, which the code may put in either order, that of the statements; the list
is the same. `StartOf`, `EndOf` and `IsInvalid` are `SessionListParams`:
a date is a day or an instant, and a parameter that cannot be read refuses the
list. `Matches`, which the properties compare the list with, counts in days and
instants as they were asked for, not in the code's instants.

### ListForms

What the two forms let through and what the API makes of it. `Applied` is every
range and term that may be submitted; `Request` is the parameters that
`toSessionIndexQuery` builds of them, as `SessionListParams` reads them:
the first instant of the first day and the last instant of the last. A text is a
sequence of characters. `Squeezed` names the places that stay: every character of
a word, and the first space behind a word which is not the last. A blank is white space for JavaScript, Ruby and MySQL
alike, a wide space (U+3000) for JavaScript's `trim` and `\s` and for
`[[:space:]]` but not for Ruby's `strip` and `\s`, an astral character is one
character of Ruby and two of JavaScript. U+FEFF and U+0085, which are white
space to only one of JavaScript and `[[:space:]]`, are left out. The drafts are
any drafts: when a form keeps and when it drops one is not modelled.

### EventReading

One session from its file to its detail. `ReadWorkspace`, `EventsExist`,
`StatAndOpen` and one action per line that `each_line` gives are the current
reader; `FailReading` is the rescue of `SystemCallError`, which gives up what was
read. `ReadLegacy` is the legacy reader, whose document is parsed as a whole and
is written by no CLI any more. Between the reader's steps the CLI appends lines,
each in one write or two; at the end of the file the reader gets what there is of
a line as a line (`TakeFirstPart`) and, when the rest arrives before it looks
again, the rest as another (`TakeRest`). The file may be removed or closed until
it is open.

A line is what `EventNormalizer` tells apart: hash, other value or no JSON; type,
role and content; whether it has a valid time; its tool requests; the models it
names. `Event` and `EventIssues` are the mapping, `ModelCandidate` and
`ChooseModelCandidate` the choice of the model, `Conversation`, `Activity`,
`EmptyReason` and `SessionIssues` what the projectors and the presenter make of
the result. The entries of a projection are the places of their events, and the
issues of a session their places among all issues: a `select` keeps the order. `taken`, a history variable, is the lines that were read in one piece,
so that the conversation can be compared with what was said rather than with the
events it is made of. Left out are the update time, message snapshots, and the
texts of details, previews and tool arguments.

`SearchWords` and `SearchCodes` are the search text that a sync stores: the words
of the conversation, and the issue codes of the session and of the conversation's
entries. The issues of activity entries (an event of unknown shape, a detail
mapped in part) are not in it, although
`.kiro/specs/session-full-text-search/requirements.md:27` says that no issue is
lost to the search; `SearchFindsSaidAndLost` is therefore about the rest.

A message whose role is neither user, assistant nor system, or that has neither
content nor tool requests, is in neither projection (`SaysNothing`). The payload's
`timeline` has it, but no page shows that. `PlacesOnPage` is where the detail page
lists an issue. `IssuesHaveOnePlace` says that no issue has two places, and that one
without a place is of such a message and its session at least marked as degraded; it
does not ask that these have none. The specs ask that they have one (section 6);
a property without the exception fails in `event_reading` on an empty user message.

## 4. What each run shows

Every run is exhaustive for its constants. Deadlock is checked where the system
never has to stop; the syncs of a finite set of requests do end, and their
configurations say so.

| run | bounds | what it shows |
|---|---|---|
| `sync_faults` | 2 calls, 1 source, 2 writes, every failure, fair threads | one sync at a time; outcomes stay; the atomic sync; a quiet resync saves nothing; every call is answered and every lock released. Two calls are a winner and a loser, or one call and a later one; the safety properties are proved for any number. One source suffices since nothing here relates two sources |
| `sync_rows` | 2 calls, 2 sources with one id, 4 ticks of half a second, rows of an older release | the counts and the rows of a committed sync. Two sources are the least that can collide on an id; two calls are one that stores a stale fingerprint and one that trusts it; four ticks are two whole seconds, so that two writes fall in one second and two in different ones |
| `sync_bad_time`, `sync_late_failure`, `sync_raced` | the least each needs | the findings of section 6 |
| `index_overlap` | 2 fetches at once, 2 ranges, 2 days, 1 change of the read model | the list shown is the one of the criteria shown, and never grows older. Two fetches at once are one that is overtaken and one that overtakes it; more only add more of the former, and the proof covers any number. Ranges and terms take the same path, so one of the two varies |
| `page_sync` | 2 fetches, 2 POSTs, StrictMode | a page that reports a sync shows a list from after it; one sync per page |
| `page_live` | 2 fetches, 1 POST, StrictMode, fair browser | loading and syncing end |
| `page_report` | as above, with a search term | finding 4 |
| `app` | 2 fetches, 2 sessions with 2 and 1 entries, 4 lists, StrictMode, fair browser; every text of at most 6 tokens and every list of at most 4 sessions out of 12 | no answer lands on another session, the session in the route is shown and raw loading ends; only the reader opens and closes what is on the page; the chosen tab stays; tabs tell directories apart; what is said can be read. A page has at most one detail and one raw fetch that count, and an aborted one is inert whatever it brings (`AnswersAreOwn`, `OnlyHeldFetchesCount`, proved for any number), so two names suffice. Six tokens are two fence marks with a hint, a newline and code, and one token outside; four sessions are three directories of one name and one that has none |
| `list_query` | 2 sessions, each with both times, one of them or none, every kind of range, in days and instants, limit and search, and all that the forms let through of 18 drafts, 1 commit; texts of at most 4 characters | the list is exact when nothing commits, for the days and the term that the page names, and what it may still be trusted for when something does. One commit can fall before, between or after any two statements |
| `event_reading` | at most 3 lines of 13 kinds, 2 models | nothing that was lost or torn counts as complete; every line is an event or an issue, no issue is on the page twice, and only those of messages that say nothing are not on it, every utterance is in the conversation, a search finds what was said and what was lost, the model is the last of the highest authority. Three lines are two of equal authority with one between them, or whole lines with a torn one after them; the thirteen kinds are complete and partial mappings of messages and details, a message that says nothing with an issue and one without, what cannot be mapped, what is no JSON, and models of three of the four priorities |

## 5. Fairness

`sync_faults`: weak fairness of each thread's `Step`. A Puma thread that has
accepted a request runs it to its end, and no statement of the service waits for
another call (a held lock makes the insert fail, it does not block). The first
lookup is not fair: nobody has to call. `LockIsReleased` excepts a call that was
killed or ended in an exception, because nothing in the code releases the lock
then: its run stays `running`, and every later call is answered with a conflict.

`page_live` and `app`: weak fairness of each fetch's answer and of the code
that waits for it. A browser settles every fetch, with an answer or an error, and
runs the microtasks that follow. Clicks, mounts and changes of route are not
fair. On the hook alone, without the page, loading need not end: a caller could
apply criteria for ever before the answer to the last ones arrives. On the page
it cannot, since the forms are disabled while the list loads; this is why the
liveness of the list is stated of `IndexPage`.

## 6. Findings

Each has a run that shows it, and is quoted with its lines in `PROJECT.json`.

1. `sync_bad_time`: a session whose start time is not ISO 8601 raises outside
   every rescue. The run stays `running` and every later sync is answered 409.
2. `sync_late_failure`: the reload after the commit is inside the rescue that
   marks the run failed, so a run can be `failed` with its sessions saved.
3. `sync_raced`: the fingerprint is taken after the read. A write in between
   leaves old content under the new fingerprint, and later syncs skip it.
   `StaleRowsAreExplained` says that there are only two other ways in which a row
   can be stale after a sync: two writes within one second, which a fingerprint of
   whole seconds cannot tell apart, and a source that is gone whenever a
   fingerprint is taken and there only while it is read. The third takes six
   ticks, more than `sync_rows` has; it came out of the proof, whose theorem
   `StaleRowsCorrect` covers it.
4. `page_report`: criteria applied during a sync's reload make the sync report
   `synced_with_sessions` from the list before it while the page is loading.

Met while modelling, and without a run of their own:

- Code between two fence marks of one line is not on the page. In
  "\`\`\`npm test\`\`\`" the pattern (`conversationContent.ts:36`) takes
  the rest of the line for the language hint, and `TimelineContent` does not show
  the hint: what is left is an empty code block. `.kiro/specs/frontend-session-ui/requirements.md:49`
  asks for code to be shown as code. `EverythingSaidIsInReach` excepts what
  stands on the line of a fence mark (`OnFenceLine`).
- The issue of a message that says nothing, such as a user message without content
  and tool requests, is nowhere on the page: the message is in neither projection
  (`conversation_projector.rb:41-45`, `activity_projector.rb:36-40`), and as its
  issue has the sequence of an event it is not among those of the session
  (`session_detail_presenter.rb:38`). `.kiro/specs/session-ui-noise-reduction/design.md:482`
  has every event-level issue shown beside the conversation or the activity;
  `.kiro/specs/current-copilot-cli-schema-compatibility/requirements.md:87` and
  `.kiro/specs/frontend-session-ui/requirements.md:56` ask that issues be explained.
  That the session is degraded is all the page says of it. `IssuesHaveOnePlace`
  excepts these messages.
- Two paths that differ in a slash at their end have two tabs with one label,
  although `.kiro/specs/cwd-session-tabs/design.md:271` gives directories of one name
  a context that no other of them has.
  `TellsApart` therefore compares the names in a path.
- A search that is cleared from the empty state (`SessionEmptyState.tsx:44-53`)
  leaves the draft which the form kept at its submit for the empty term
  (`SessionSearchForm.tsx:61-65`): the old term stands in the field again while no
  search is applied. The button of the form itself is another handler. Drafts
  are not modelled.

## 7. What is proved

`tlapm` checks every proof, for any number of requests, sources, sessions, days,
ranges, versions, POSTs, commits, lists and lines, and texts and paths of any length,
under the named assumptions of the modules:
`SourcesAssumption`, `IdsAssumption`, `FilesAssumption`, `FailuresAssumption`;
`CriteriaAssumption`, `VersionAssumption`, `MountAssumption`, `NoneAssumption`;
`PostsAssumption`; `DetailAssumption`, `DetailContentAssumption`; `ListAssumption`,
`ListingsAssumption`, `RootAssumption`, `NoTabAssumption`, `SayingsAssumption`;
`RowsAssumption`, `TimesAssumption`, `ParamsAssumption`, `DraftsAssumption`;
`LinesAssumption`, `NilAssumption`. Most only say what kind of thing each constant is.
The rest say more: `RootAssumption`, that the label "/" is no name of a directory, which
has no slash in it; `NoTabAssumption`, `NilAssumption` and the third part of
`DraftsAssumption`, that what stands for null is no value; `TimesAssumption` and the
last part of `DraftsAssumption`, that the clock is past its first days.

The provers know neither `SelectSeq` and the folds of sequences, whose definitions
recurse, nor induction over data. Where the code filters, sorts or splits a list,
the models therefore say which places are kept and in what order, by sets and
cardinalities. For `Ordered`, `Squeezed` and `ExtractContentBlocks` TLC found no
difference from a recursive rendering of the same lines, over sets of at most 4
candidates and texts of at most 6 characters or tokens.

`HistorySyncProofs`. `TypeCorrect` is inductive by itself. `InvariantCorrect`
proves `SyncInvariant`, three parts that need each other: a run row has the lock
exactly while it is running and one at most has it (`LockIsTheRunningRun`, which
the unique index gives in `Create`); the program counter of a call tells the state
of its run row (`RunFollowsCall`, without which `Commit` could not be shown to
release its own lock and no other); and an open transaction has seen all that was
committed (`TransactionSeesRows`, which holds because whoever is between begin and
commit holds the lock, so nobody else commits). From it follow `MutualExclusion`
(`SyncsAreExclusive`), `OutcomesFinal` (`OutcomesAreFinal`: a step that changes
a terminal row is a failure handler's, by `RunFollowsCall`) and
`Implementation`: every step of the service is a step of
`AtomicSync` or a stutter. The last needs mutual exclusion for `Accept` and
`TransactionSeesRows` for `Save`, which must not take a row away.

`HistorySyncRowsProofs` proves what the runs check of the data, for catalogs of any
size. The proofs go by what a step does to one call (`StepOfLocals`), to its run
(`StepOfRun`), to the table (`StepOfRows`) and to the files (`StepOfFiles`), so that
each invariant is a case of five rather than of every action. `CountsCorrect`: while
a call saves, its three counters add up to the number of sessions it has saved, and
the sources it listed are those and the workspace-only ones. `RowsInvariant`: no
date is from the future, what was read of a file is no younger than the file, and
the sessions saved so far come before those still to save in the catalog, so that
the last of an id is the one whose row stays; `RowsAreProjected` and
`StaleRowsCorrect` are this invariant at the commit. The second rests on
`SkippedIsExplained`: what was read dates from between the row and the file, and the
fingerprint puts these two into one second. `QuietInvariant`: runs begin after the
saved ones before them (`RunsAreOrdered`, by exclusion); a call during which the
clock stands has read every source as it is (`UndisturbedReads`) and leaves rows that
the skip test accepts (`UndisturbedSaves`); so the next one changes no row
(`NothingToSave`), and `QuietResyncsSkip` follows. The invariants were checked with
TLC on the instances of the runs before they were proved.

`SessionIndexHookProofs`. `HookInvariantCorrect` proves `HookInvariant`. Its core
is `OnlyActiveCounts`: every request in flight that was not aborted is the active
one, and the active one is for the page's criteria. `AnswersAreOwn` says an answer
is for the criteria of its request, so whatever is applied is of the criteria
shown (`ShownListCorrect`, `SnapshotsCorrect`). The error of a revalidated
snapshot needs more: it is applied by a handler that does not ask whether it was
overtaken, and what saves it is that an overtaken request which had a snapshot
resolves to that snapshot, never to its error (`revalidates` implies a
reusable `previousState`). `KnownVersions` says that an answer under way is
at least as new as everything shown or kept, because only the active request's
answer can be applied; `ListsGrowNewer` follows. `LoadingCorrect` is that a page
that loads has an active request. `ViewerImplementation` maps each step
to `ListViewer`: a stale answer is a stutter, a kept list is an answer that leaves
what is shown.

`IndexPageProofs`. The inductive invariant `PageInvariant` adds to
`HookInvariant` the types of the sync (`PageTypeCorrect`); that the one POST of a
page which is under way is its active one (`LivePostIsActive`, from which
`OneSyncCorrect`); that the reload a sync waits for is its own and was sent after
its POST was answered (`ReloadsAreOwn`); and `FreshAfterSync`, the heart of
`SyncedListsCorrect`: from the answer of a POST on, a list of an older version is
shown only while the sync's own reload is the active fetch. Criteria applied
meanwhile make the page load, and their fetch was sent after the sync committed,
so that what it brings is fresh (`KnownVersions` of the hook). `PageKeepsTheHook`
shows that each step of the page is a step or a stutter of the hook, and carries
every theorem of the hook over to the page.

`SessionDetailHookProofs`. `DetailInvariantCorrect` proves `DetailInvariant`:
an answer under way is of the session it was asked for (`AnswersAreOwn`); a fetch
that was not aborted is one of the two the hook holds, and those are of the
session in the route (`OnlyHeldFetchesCount`); and a page that loads, or whose raw
payloads do, holds the fetch it waits for (`WaitsForWhatItHolds`). `DetailCorrect`
needs the second, because an answer is applied without a look at the
route; `LoadingCorrect` is the third.

`AppProofs`. `AppKeepsTheHook` shows that the pages only add to the detail hook.
`AppInvariantCorrect` proves `AppInvariant`: the hook's `DetailInvariant`, the types
of the mounted components (`PartsTyped`) and of the tabs, and that one page is
mounted at a time. `AppTypeCorrect` follows, and `OnlyReaderOpensCorrect`: the detail
that is shown is of the session in the route (`ShownIsTheRoute`), so a change of
session comes with a new scope, in which every choice made before is void
(`FreshIsDefault`); and while the session stays its components do (`SameIsOpen`).
`ChosenTabCorrect` proves `TheChosenTabStays` for any lists, from the
invariant `FallbackIsForThisList`: a fallback that is due is for the list on the
page and the tab that is selected, which that list does not have.

`TabsCorrect` is about a list of any length and paths of any depth. Two directories
of one name with the same context have the same parents (`ContextsTellApart`): a
context cut at a unique depth is not what the other's parents end with there, and
two equal contexts have one length. `EverythingInReachCorrect` is
about texts of any length. `FenceFacts` says that matches do not overlap; from it
the blocks are disjoint and in order (`BlocksAreInOrder`), what is legible and not
on a fence mark's line is between two matches or in the code of one
(`LegibleIsShown`), and an entry that is hidden although something in it is
legible begins with a skill context (`SkillIsFirst`).

`SessionIndexQueryProofs`. `EveryPlaceIsTaken` is the theory of the sorted list: by
`Newest`, a strict order, no two of a finite set are behind equally many, so the
ranks fill `0 .. n - 1` and `Ordered` is what its name says (`OrderedFacts`).
`QueryInvariantCorrect` proves `QueryInvariant`, that a call's candidates are what its
first two statements find in two tables that there were during the call, and the
answer what the third makes of them in a table as late as any of the call
(`CandidatesWereFound`), because a sync only saves rows anew (`MomentsAreInOrder`).
The three properties are facts of one such triple of tables: `ListedCorrect` takes
the table in which a candidate was found; `SteadyCorrect` that a steady session is
found by the same statement in every table, and so once; `QuietListsCorrect`, for
three equal tables, that the two statements find each session once, at its display
time. `PageListsCorrect` adds the forms: a request of theirs is valid
(`RequestsAreValid`) and matches what the page names (`NamedMatches`), and
`CopiedTermsCorrect`, that the words of a part of a text, squeezed by the form and
again by the API (`SqueezedTwice`), are a part of the squeezed text
(`SqueezedPart`): the places kept of a part are those kept of the text, but for
spaces at its ends.

`EventReadingProofs` is about files of any lines and any length.
`ReadingInvariantHolds` is the induction: `Reported` says of the first n lines that
their numbers are among those of the events and the issues, that each is an event
or a parse issue and none both, and that the events with an issue are those not
mapped in full; a line adds an event, an issue or both of number n + 1, which
nothing before has (`EventIsReported`, `IssueIsReported`), and what ends a reading
early has no number (`StopIsReported`). `BeforeLines` is needed for a reading that
ends before its first line. `LinesAreReported` is the last reading of it.
`CompleteIsComplete` adds that without an issue the events are the lines up to the
reader's place one by one, which a torn line breaks because one of its two parts
is no JSON; `ModelIsTheLatestBest` that the candidate is the best of the events
so far (`ChoiceGoesOn`). `LinesAreKeptHolds` is the invariant for what is shown: the
events are mapped from lines in their order, and unless the reading failed they are
the lines taken in one piece that are JSON; an event that was mapped in part has an
issue, and no issue is there twice.
From it and `ReadingInvariant` follow `UtterancesAreKept`, `EmptyReasonCorrect`,
`SearchFindsAll` and `IssuesAreShownOnce`, the last because numbers of events are
distinct, so that an issue of a number has one event or, for a line that is no
JSON, none.

Only model-checked: liveness, which is beyond the prover (`CallsAreAnswered`,
`LockIsReleased`, `LoadingEnds`, `SyncEnds`, `DetailIsShown`, `RawLoadingEnds`), and
the disagreements of section 6, which are each a counterexample. That the model's
inputs are those of the code (section 3) is read, not proved.

## 8. What is not modelled

- Contents of payloads, formatting (`formatters.ts`), labels, logs, and the
  components that render a state without one of their own (panels, headers,
  cards, badges, the sync status): no property is about them.
- When a form keeps a draft and when it drops it; the encoding of URLs and the
  base URL of the API (`apiBaseUrl.ts`). How a string is read as a date or a number:
  the form compares dates as strings, which differs from the order of days only for
  years of more than four digits, and these the API refuses; a `limit` beyond a
  machine integer makes `first(limit)` raise.
- The correction of a session's update time, message snapshots, and the titles
  and previews of events.
- The permission bits of `stat`: a path is readable or not.
- A 200 answer whose body is not of the agreed shape, and a search term with a lone
  surrogate, which make the hook's promise reject. No answer of this API
  has such a body; the rejection of the term leaves the page as it was.
- Two processes on one database: the code's deployment is one Puma process. The
  lock is a unique index, so the models of `HistorySync` hold for threads of any
  process, except that `Crash` ends them all.
- MySQL itself: a statement is atomic, a transaction sees its own writes and, since
  the lock keeps other syncs from writing, nobody else's.
