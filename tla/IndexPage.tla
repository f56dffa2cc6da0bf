----------------------------- MODULE IndexPage -----------------------------
(***************************************************************************)
(* SessionIndexPage: the list hook (SessionIndexHook) and useHistorySync on *)
(* one page.  A sync POSTs, then reloads the list through the list hook,    *)
(* and reports what the reload resolved to.  The forms apply criteria only  *)
(* while a list, its emptiness or an error is shown.  The page may be left  *)
(* and opened again with POSTs and fetches under way.                       *)
(***************************************************************************)
EXTENDS SessionIndexHook

CONSTANT Posts  \* names of POST requests

ASSUME PostsAssumption == None \notin Posts

VARIABLES
  sync,        \* the state of useHistorySync
  syncVersion, \* the read model's version that the last successful sync left
  isMounted,   \* isMountedRef
  activeSync,  \* activeSyncRef
  posts        \* startSync's promise of each POST, of this page or of an earlier mount

syncVars == <<sync, syncVersion, isMounted, activeSync, posts>>
pageVars == <<vars, syncVars>>

SyncStates == {"idle", "syncing", "synced_with_sessions", "synced_empty",
               "refresh_error", "conflict", "sync_error"}
PostAnswers == {"success", "conflict", "sync_error"}

\* live: the page that started the sync is still mounted.  reload: the fetch that
\* the sync awaits.
NoPost == [status |-> "free"]
PostStates == [status : {"sent", "served", "reloading"}, live : BOOLEAN,
               answer : PostAnswers \cup {None}, version : Nat,
               reload : Requests \cup {None}]

-----------------------------------------------------------------------------
(* Mounting                                                                *)

\* The effect of useHistorySync sets isMountedRef again after StrictMode's cleanup.
MountedAfterEffects == TRUE

MountPage ==
  /\ Mount
  /\ isMounted' = MountedAfterEffects
  /\ UNCHANGED <<sync, syncVersion, activeSync, posts>>

Orphaned == [p \in Posts |-> IF posts[p] = NoPost THEN NoPost
                             ELSE [posts[p] EXCEPT !.live = FALSE]]

UnmountPage ==
  /\ Unmount
  /\ isMounted' = FALSE /\ sync' = "idle" /\ syncVersion' = 0 /\ activeSync' = None
  /\ posts' = Orphaned

-----------------------------------------------------------------------------
(* The forms                                                               *)

\* isApplying disables them while the list is loading.
MayApply == settled # None

SubmitRange(r) == MayApply /\ ApplyRange(r) /\ UNCHANGED syncVars
SubmitSearch(r) == MayApply /\ ApplySearch(r) /\ UNCHANGED syncVars

-----------------------------------------------------------------------------
(* startSync                                                               *)

\* Variant: no ref keeps the promise of the sync under way.
MayStartAgain == Mounted

\* A click before the button is disabled finds activeSyncRef set.
MayStart == Mounted /\ activeSync = None

StartSync(p) ==
  /\ MayStart /\ posts[p] = NoPost
  /\ sync' = IF isMounted THEN "syncing" ELSE sync
  /\ activeSync' = p
  /\ posts' = [posts EXCEPT ![p] = [status |-> "sent", live |-> TRUE, answer |-> None,
                                    version |-> 0, reload |-> None]]
  /\ UNCHANGED <<vars, syncVersion, isMounted>>

\* The sync ends at the API: with a changed read model or the same, with a
\* conflict, or with a failure.
ServePost(p) ==
  /\ posts[p] # NoPost /\ posts[p].status = "sent"
  /\ \/ \E answer \in PostAnswers :
          /\ posts' = [posts EXCEPT ![p].status = "served", ![p].answer = answer,
                                    ![p].version = version]
          /\ UNCHANGED vars
     \/ /\ ModelChanges
        /\ posts' = [posts EXCEPT ![p].status = "served", ![p].answer = "success",
                                  ![p].version = version']
  /\ UNCHANGED <<sync, syncVersion, isMounted, activeSync>>

\* The promise is over, and its finally clears the ref of the hook it belongs to.
Finish(p) ==
  /\ posts' = [posts EXCEPT ![p] = NoPost]
  /\ activeSync' = IF activeSync = p THEN None ELSE activeSync

\* Variant: a sync whose reload was aborted does not go on.
OwnerIsUndisturbed(p) ==
  /\ posts[p].live /\ isMounted
  /\ posts[p].reload # None => ~requests[posts[p].reload].aborted

\* isMountedRef.current, of the hook that started the sync.
OwnerIsMounted(p) == posts[p].live /\ isMounted

\* syncHistory resolves.
SyncAnswered(p) ==
  /\ posts[p] # NoPost /\ posts[p].status = "served"
  /\ \/ /\ ~OwnerIsMounted(p)
        /\ Finish(p)
        /\ UNCHANGED <<vars, sync, syncVersion, isMounted>>
     \/ /\ OwnerIsMounted(p) /\ posts[p].answer # "success"
        /\ sync' = posts[p].answer
        /\ Finish(p)
        /\ UNCHANGED <<vars, syncVersion, isMounted>>
     \/ /\ OwnerIsMounted(p) /\ posts[p].answer = "success"
        /\ \E r \in Requests :
             /\ ReloadSessions(r)
             /\ posts' = [posts EXCEPT ![p].status = "reloading", ![p].reload = r]
        /\ UNCHANGED <<sync, syncVersion, isMounted, activeSync>>

\* Variant: the status of the list is passed on.
ReportOfStatus(outcome) == outcome.status
ReportOf(outcome) ==
  CASE outcome = Error -> "refresh_error"
    [] outcome # Error /\ outcome.status = "success" -> "synced_with_sessions"
    [] OTHER -> "synced_empty"

Awaits(p, r) == posts[p] # NoPost /\ posts[p].status = "reloading" /\ posts[p].reload = r

\* A fetch resolves; a sync that awaits it reports in the same task.
SettlePage(r) ==
  /\ Settle(r)
  /\ \/ /\ \A p \in Posts : ~Awaits(p, r)
        /\ UNCHANGED syncVars
     \/ \E p \in Posts :
          /\ Awaits(p, r)
          /\ IF OwnerIsMounted(p)
               THEN sync' = ReportOf(Outcome(r)) /\ syncVersion' = posts[p].version
               ELSE UNCHANGED <<sync, syncVersion>>
          /\ Finish(p)
          /\ UNCHANGED isMounted

-----------------------------------------------------------------------------

PageInit ==
  /\ Init
  /\ sync = "idle" /\ syncVersion = 0 /\ isMounted = FALSE /\ activeSync = None
  /\ posts = [p \in Posts |-> NoPost]

PageNext ==
  \/ MountPage \/ UnmountPage
  \/ (NextDay \/ ModelChanges) /\ UNCHANGED syncVars
  \/ \E r \in Requests : \/ SubmitRange(r) \/ SubmitSearch(r) \/ SettlePage(r)
                         \/ Serve(r) /\ UNCHANGED syncVars
  \/ \E p \in Posts : StartSync(p) \/ ServePost(p) \/ SyncAnswered(p)

PageSpec == PageInit /\ [][PageNext]_pageVars

\* A browser resolves or rejects every fetch, and runs what waits for it.
FairPageSpec ==
  /\ PageSpec
  /\ \A r \in Requests : /\ WF_pageVars(Serve(r) /\ UNCHANGED syncVars)
                         /\ WF_pageVars(SettlePage(r))
  /\ \A p \in Posts : WF_pageVars(ServePost(p)) /\ WF_pageVars(SyncAnswered(p))

-----------------------------------------------------------------------------
(* Properties                                                              *)

\* PageTypeOK: the type of every variable.
PageTypeOK ==
  /\ TypeOK
  /\ sync \in SyncStates /\ syncVersion \in 0 .. MaxVersion
  /\ isMounted \in BOOLEAN
  /\ activeSync \in Posts \cup {None}
  /\ posts \in [Posts -> PostStates \cup {NoPost}]

Synced == sync \in {"synced_with_sessions", "synced_empty"}

\* While the page reports a sync as done, every list on it was read after that
\* sync: "synced" never stands over a list from before.
SyncedListsAreFresh ==
  Synced /\ settled # None /\ IsReusable(settled.state) =>
    settled.state.version >= syncVersion

\* One page has one sync under way, however often its buttons are pressed, and
\* shows "syncing" exactly while it has.
OneSyncPerPage ==
  /\ \A p, q \in Posts : posts[p] # NoPost /\ posts[q] # NoPost
                           /\ posts[p].live /\ posts[q].live => p = q
  /\ (sync = "syncing") = (activeSync # None)

\* The outcome of the reload that the sync reports agrees with the page.
SyncReportAgreesWithPage ==
  [][sync = "syncing" /\ sync' = "synced_with_sessions" =>
       settled' # None /\ settled'.state # Error /\ settled'.state.status = "success"]_pageVars

\* A page that loads shows something in the end, or is left.
LoadingEnds == Mounted /\ settled = None ~> settled # None \/ ~Mounted

\* A sync that was started ends, or its page is left.
SyncEnds == sync = "syncing" ~> sync # "syncing"
=============================================================================
