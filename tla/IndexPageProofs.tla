--------------------------- MODULE IndexPageProofs ---------------------------
(***************************************************************************)
(* Proofs about IndexPage, for any number of fetches and POSTs.  Every step *)
(* of the page is a step of the list hook or leaves it alone, so whatever   *)
(* is proved of the hook holds on the page.                                 *)
(***************************************************************************)
EXTENDS IndexPage, SessionIndexHookProofs

\* A live POST is the one of the page, and the page is syncing while there is one.
LivePostIsActive ==
  /\ isMounted = Mounted
  /\ \A p \in Posts : posts[p] # NoPost /\ posts[p].live => p = activeSync /\ Mounted
  /\ activeSync # None => posts[activeSync] # NoPost /\ posts[activeSync].live
  /\ (sync = "syncing") = (activeSync # None)
  /\ ~Mounted => sync = "idle"
  /\ \A p \in Posts : posts[p] # NoPost /\ posts[p].status = "served" =>
       posts[p].answer \in PostAnswers

\* A sync that reloads has a fetch of its own in flight.
ReloadsAreOwn ==
  /\ \A p \in Posts : posts[p] # NoPost /\ posts[p].status = "reloading" =>
       posts[p].reload \in Requests /\ InFlight(posts[p].reload)
  /\ \A p, q \in Posts :
       /\ posts[p] # NoPost /\ posts[p].status = "reloading"
       /\ posts[q] # NoPost /\ posts[q].status = "reloading"
       /\ posts[p].reload = posts[q].reload
       => p = q

\* What is shown, and what will be, was read when the read model was at v or later.
ShownSince(v) == settled # None /\ settled.state # Error => settled.state.version >= v
AnsweredSince(v) ==
  active # None /\ IsReusable(requests[active].answer) => requests[active].answer.version >= v

\* A list from before the sync is shown only while the sync's own reload is the active
\* fetch; after it nothing older than the sync can come.
FreshAfterSync ==
  /\ syncVersion <= version
  /\ \A p \in Posts : posts[p] # NoPost => posts[p].version <= version
  /\ \A p \in Posts : posts[p] # NoPost /\ posts[p].live /\ posts[p].status = "reloading" =>
       /\ AnsweredSince(posts[p].version)
       /\ posts[p].reload = active \/ ShownSince(posts[p].version)
  /\ Synced => ShownSince(syncVersion) /\ AnsweredSince(syncVersion)

PageInvariant ==
  HookInvariant /\ PageTypeOK /\ LivePostIsActive /\ ReloadsAreOwn /\ FreshAfterSync

-----------------------------------------------------------------------------
(* What a step of the hook may do                                          *)

\* Leaving the page, or a fetch that replaces the active one, aborts a fetch and ends none.
LEMMA StaysInFlight ==
  ASSUME HookInvariant, NEW x \in Requests, InFlight(x),
         Unmount \/ \E r \in Requests, c \in Criteria, keep \in BOOLEAN : Perform(r, c, keep, keep)
  PROVE  requests'[x] # Free
<1> USE DEF HookInvariant
<1>1. AbortedBy(requests, active)[x] \in FlightStates /\ AbortedBy(requests, active)[x] # Free
  BY AbortedByFields DEF InFlight
<1>2. CASE Unmount
  <2>1. requests' = Disposed(AbortedBy(requests, active))
    BY <1>2 DEF Unmount
  <2>2. requests'[x] \in FlightStates
    BY <1>1, <2>1, AbortType DEF Disposed
  <2> QED BY <2>2, Kinds
<1>3. ASSUME NEW r \in Requests, NEW c \in Criteria, NEW keep \in BOOLEAN,
             Perform(r, c, keep, keep)
      PROVE  requests'[x] # Free
  <2>1. r # x
    BY <1>3 DEF Perform
  <2>2. requests'[x] = AbortedBy(requests, active)[x]
    BY <1>3, <2>1 DEF Perform, AbortedBy
  <2> QED BY <1>1, <2>2
<1> QED BY <1>2, <1>3

\* A fetch that replaces the active one has no answer yet.
LEMMA PerformHasNoAnswer ==
  ASSUME HookInvariant, NEW r \in Requests, NEW c \in Criteria, NEW keep \in BOOLEAN,
         Perform(r, c, keep, keep), NEW v \in Nat
  PROVE  active' = r /\ AnsweredSince(v)'
<1>1. active' = r /\ requests'[r] = NewRequest(c, keep, FALSE)
  BY DEF Perform, AbortedBy, HookInvariant, TypeOK
<1>2. NewRequest(c, keep, FALSE).answer = None
  BY NewRequestType DEF HookInvariant
<1> QED BY <1>1, <1>2 DEF AnsweredSince, IsReusable

\* Settling applies the answer of the active fetch, or leaves what is shown.
LEMMA SettleShows ==
  ASSUME HookInvariant, NEW r \in Requests, Settle(r)
  PROVE  /\ active' = IF active = r THEN None ELSE active
         /\ \A x \in Requests : x # r => requests'[x] = requests[x]
         /\ \/ settled' = settled
            \/ active = r /\ settled' # None /\ settled'.state = requests[r].answer
<1>1. /\ active' = IF active = r THEN None ELSE active
      /\ \A x \in Requests : x # r => requests'[x] = requests[x]
  BY DEF Settle, Releases, HookInvariant, TypeOK
<1>2. CASE ~IsApplied(r)
  BY <1>1, <1>2 DEF Settle
<1>3. CASE IsApplied(r)
  <2>1. active = r /\ Outcome(r) = requests[r].answer
    BY <1>3, AppliedAnswer
  <2>2. settled' = [queryKey |-> ShowsUnder(r), state |-> Outcome(r)]
    BY <1>3 DEF Settle
  <2>3. settled' # None
    BY <1>3, SettleApplies
  <2> QED BY <1>1, <2>1, <2>2, <2>3
<1> QED BY <1>2, <1>3

\* Once nothing older than v is shown or under way, nothing older comes, until a page
\* is opened anew with a snapshot.
LEMMA SinceStays ==
  ASSUME HookInvariant, [Next]_vars, NEW v \in Nat, v <= version, AnsweredSince(v)
  PROVE  /\ AnsweredSince(v)'
         /\ ShownSince(v) /\ ~Mount => ShownSince(v)'
<1> USE DEF HookInvariant
<1>1. CASE Mount
  <2> DEFINE c == [range |-> DefaultRange[today], searchTerm |-> NoTerm]
  <2>1. c \in Criteria
    BY CriteriaAssumption DEF TypeOK, Criteria
  <2>2. ReadReusableSnapshot(c) \in Lists \cup {None}
    BY <2>1 DEF ReadReusableSnapshot, TypeOK
  <2>3. PICK r \in Requests :
          /\ active' = r
          /\ \/ requests' = [requests EXCEPT ![r] = MountRequest(c, ReadReusableSnapshot(c))]
             \/ \E first \in Requests \ {r} :
                  requests' = [requests EXCEPT
                     ![r] = MountRequest(c, ReadReusableSnapshot(c)),
                     ![first] = DisposedRequest(MountRequest(c, ReadReusableSnapshot(c)))]
    BY <1>1 DEF Mount
  <2>4. requests'[r] = MountRequest(c, ReadReusableSnapshot(c))
    BY <2>3 DEF TypeOK
  <2>5. MountRequest(c, ReadReusableSnapshot(c)).answer = None
    BY <2>1, <2>2, MountRequestType
  <2> QED BY <1>1, <2>3, <2>4, <2>5 DEF AnsweredSince, IsReusable
<1>2. CASE Unmount
  BY <1>2 DEF Unmount, AnsweredSince, ShownSince
<1>3. CASE NextDay \/ ModelChanges \/ UNCHANGED vars
  BY <1>3 DEF NextDay, ModelChanges, vars, hookVars, AnsweredSince, ShownSince, IsReusable
<1>4. ASSUME NEW r \in Requests, ApplyRange(r) \/ ApplySearch(r) \/ ReloadSessions(r)
      PROVE  AnsweredSince(v)' /\ (ShownSince(v) => ShownSince(v)')
  <2>1. PICK c \in Criteria, keep \in BOOLEAN : Perform(r, c, keep, keep)
    BY <1>4, RequestSteps
  <2>2. settled' = settled \/ settled' = None
    BY <2>1 DEF Perform
  <2> QED BY <2>1, <2>2, PerformHasNoAnswer DEF ShownSince
<1>5. ASSUME NEW r \in Requests, Serve(r)
      PROVE  AnsweredSince(v)' /\ (ShownSince(v) => ShownSince(v)')
  <2>1. PICK a \in {[status |-> s, of |-> requests[r].criteria, version |-> version] :
                      s \in {"success", "empty"}} \cup {Error} :
          /\ requests' = [requests EXCEPT ![r].status = "served", ![r].answer = a]
          /\ active' = active /\ settled' = settled
    BY <1>5 DEF Serve
  <2>2. a = Error \/ a.version = version
    BY <2>1
  <2>3. CASE active = r
    <3>1. requests[r] \in FlightStates
      BY <1>5 DEF Serve, InFlight, TypeOK
    <3>2. requests'[r].answer = a
      BY <2>1, <3>1 DEF TypeOK, FlightStates
    <3> QED BY <2>1, <2>2, <2>3, <3>2 DEF AnsweredSince, ShownSince, IsReusable
  <2>4. CASE active # r
    <3>1. active # None => active \in Requests /\ requests'[active] = requests[active]
      BY <2>1, <2>4 DEF TypeOK
    <3> QED BY <2>1, <3>1 DEF AnsweredSince, ShownSince, IsReusable
  <2> QED BY <2>3, <2>4
<1>6. ASSUME NEW r \in Requests, Settle(r)
      PROVE  AnsweredSince(v)' /\ (ShownSince(v) => ShownSince(v)')
  <2>1. /\ active' = IF active = r THEN None ELSE active
        /\ \A x \in Requests : x # r => requests'[x] = requests[x]
        /\ \/ settled' = settled
           \/ active = r /\ settled' # None /\ settled'.state = requests[r].answer
    BY <1>6, SettleShows
  <2>2. AnsweredSince(v)'
    BY <2>1 DEF AnsweredSince, IsReusable, TypeOK
  <2>3. requests[r].answer # None
    BY <1>6 DEF Settle, AnswersAreOwn
  <2>4. ASSUME ShownSince(v) PROVE ShownSince(v)'
    BY <2>1, <2>3, <2>4, Kinds DEF AnsweredSince, ShownSince, IsReusable
  <2> QED BY <2>2, <2>4
<1> QED BY <1>1, <1>2, <1>3, <1>4, <1>5, <1>6 DEF Next

-----------------------------------------------------------------------------
(* Every step of the page is one of the list hook                          *)

\* The page starts as the hook does, and moves only as the hook may.
LEMMA PageStepsAreHookSteps ==
  /\ PageInit => Init
  /\ [PageNext]_pageVars => [Next]_vars
<1>1. PageInit => Init
  BY DEF PageInit
<1>2. ASSUME PageNext PROVE [Next]_vars
  <2>1. MountPage \/ UnmountPage => Next
    BY DEF MountPage, UnmountPage, Next
  <2>2. NextDay \/ ModelChanges => Next
    BY DEF Next
  <2>3. ASSUME NEW r \in Requests,
               SubmitRange(r) \/ SubmitSearch(r) \/ SettlePage(r) \/ Serve(r)
        PROVE  Next
    BY <2>3 DEF SubmitRange, SubmitSearch, SettlePage, Next
  <2>4. ASSUME NEW p \in Posts, StartSync(p) \/ ServePost(p) PROVE [Next]_vars
    BY <2>4 DEF StartSync, ServePost, Next
  <2>5. ASSUME NEW p \in Posts, SyncAnswered(p) PROVE [Next]_vars
    BY <2>5 DEF SyncAnswered, Next
  <2> QED BY <1>2, <2>1, <2>2, <2>3, <2>4, <2>5 DEF PageNext
<1>3. UNCHANGED pageVars => UNCHANGED vars
  BY DEF pageVars
<1> QED BY <1>1, <1>2, <1>3

\* The initial state.
LEMMA PageInitInvariant == PageInit => PageInvariant
<1> SUFFICES ASSUME PageInit PROVE PageInvariant
  OBVIOUS
<1>1. HookInvariant
  BY PageStepsAreHookSteps, InitInvariant
<1>2. PageTypeOK
  <2>1. posts \in [Posts -> PostStates \cup {NoPost}]
    BY DEF PageInit
  <2>2. 0 \in 0 .. MaxVersion
    BY VersionAssumption
  <2> QED BY <1>1, <2>1, <2>2 DEF PageTypeOK, HookInvariant, PageInit, SyncStates
<1>3. LivePostIsActive /\ ReloadsAreOwn
  BY DEF LivePostIsActive, ReloadsAreOwn, PageInit, Init, Mounted
<1>4. FreshAfterSync
  BY DEF FreshAfterSync, PageInit, Init, Synced
<1> QED BY <1>1, <1>2, <1>3, <1>4 DEF PageInvariant

-----------------------------------------------------------------------------
(* The steps                                                               *)

\* A step of the hook that neither opens the page, nor leaves it, nor settles a fetch
\* that a sync awaits, and keeps the active fetch or what is shown fresh.
LEMMA SyncStandsStill ==
  ASSUME PageInvariant, HookInvariant', [Next]_vars, ~Mount, Mounted' = Mounted,
         version' >= version, UNCHANGED syncVars,
         \A p \in Posts, r \in Requests : Awaits(p, r) => requests'[r] # Free,
         \A p \in Posts : Awaits(p, active) => active' = active \/ settled' = None
  PROVE  PageInvariant'
<1> USE DEF PageInvariant
<1>0. version \in Nat /\ version' \in Nat
  BY VersionAssumption DEF HookInvariant, TypeOK
<1>1. PageTypeOK' /\ LivePostIsActive'
  BY DEF PageTypeOK, LivePostIsActive, HookInvariant, syncVars
<1>2. ReloadsAreOwn'
  <2>1. ASSUME NEW p \in Posts, posts[p] # NoPost, posts[p].status = "reloading"
        PROVE  posts[p].reload \in Requests /\ requests'[posts[p].reload] # Free
    BY <2>1 DEF ReloadsAreOwn, Awaits
  <2> QED BY <2>1 DEF ReloadsAreOwn, InFlight, syncVars
<1>3. \A p \in Posts : posts[p] # NoPost => posts[p].version \in Nat /\ posts[p].version <= version
  BY DEF PageTypeOK, PostStates, FreshAfterSync
<1>4. syncVersion \in Nat /\ syncVersion <= version
  BY VersionAssumption DEF PageTypeOK, FreshAfterSync
<1>5. \A v \in Nat : v <= version /\ AnsweredSince(v)
        => AnsweredSince(v)' /\ (ShownSince(v) => ShownSince(v)')
  BY SinceStays
<1>6. \A v \in Nat : settled' = None => ShownSince(v)'
  BY DEF ShownSince
<1>7. ASSUME NEW p \in Posts, posts[p] # NoPost, posts[p].live, posts[p].status = "reloading"
      PROVE  /\ AnsweredSince(posts[p].version)'
             /\ posts[p].reload = active' \/ ShownSince(posts[p].version)'
  <2>1. PICK v \in Nat : v = posts[p].version
    BY <1>3, <1>7
  <2>2. v <= version /\ AnsweredSince(v) /\ (posts[p].reload = active \/ ShownSince(v))
    BY <1>3, <1>7, <2>1 DEF FreshAfterSync
  <2>3. posts' = posts
    BY DEF syncVars
  <2>4. AnsweredSince(v)' /\ (posts[p].reload = active' \/ ShownSince(v)')
    <3>1. posts[p].reload = active => active' = active \/ settled' = None
      BY <1>7 DEF Awaits
    <3> QED BY <2>2, <3>1, <1>5, <1>6
  <2> QED BY <2>1, <2>3, <2>4 DEF AnsweredSince, ShownSince
<1>8. Synced' => ShownSince(syncVersion)' /\ AnsweredSince(syncVersion)'
  <2>1. PICK v \in Nat : v = syncVersion
    BY <1>4
  <2>2. Synced' => v <= version /\ AnsweredSince(v) /\ ShownSince(v)
    BY <1>4, <2>1 DEF FreshAfterSync, Synced, syncVars
  <2>3. syncVersion' = v
    BY <2>1 DEF syncVars
  <2> QED BY <2>2, <2>3, <1>5 DEF AnsweredSince, ShownSince
<1>9. FreshAfterSync'
  BY <1>0, <1>3, <1>4, <1>7, <1>8 DEF FreshAfterSync, syncVars
<1> QED BY <1>1, <1>2, <1>9

\* No POST is of a page that is not there.
LEMMA MountPageStep ==
  ASSUME PageInvariant, HookInvariant', MountPage
  PROVE  PageInvariant'
<1> USE DEF PageInvariant
<1>1. /\ ~Mounted /\ Mounted' /\ version' = version /\ [Next]_vars
      /\ UNCHANGED <<sync, syncVersion, activeSync, posts>> /\ isMounted' = TRUE
  <2>1. criteria' \in Criteria
    BY CriteriaAssumption DEF MountPage, Mount, HookInvariant, TypeOK, Criteria
  <2> QED BY <2>1, Kinds DEF MountPage, Mount, Mounted, MountedAfterEffects, Next
<1>2. PageTypeOK'
  BY <1>1 DEF PageTypeOK, HookInvariant
<1>3. sync = "idle" /\ activeSync = None /\ \A p \in Posts : posts[p] # NoPost => ~posts[p].live
  BY <1>1 DEF LivePostIsActive
<1>4. LivePostIsActive'
  BY <1>1, <1>3 DEF LivePostIsActive
<1>5. ReloadsAreOwn'
  <2>1. ASSUME NEW p \in Posts, posts[p] # NoPost, posts[p].status = "reloading"
        PROVE  posts[p].reload \in Requests /\ requests'[posts[p].reload] # Free
    <3>1. PICK r \in Requests : r = posts[p].reload /\ InFlight(r)
      BY <2>1 DEF ReloadsAreOwn
    <3>2. requests'[r] = requests[r]
      BY <3>1 DEF MountPage, Mount, InFlight, HookInvariant, TypeOK
    <3> QED BY <3>1, <3>2 DEF InFlight
  <2> QED BY <1>1, <2>1 DEF ReloadsAreOwn, InFlight
<1>6. FreshAfterSync'
  BY <1>1, <1>3 DEF FreshAfterSync, Synced
<1> QED BY <1>2, <1>4, <1>5, <1>6

\* POSTs and fetches go on without their page.
LEMMA UnmountPageStep ==
  ASSUME PageInvariant, HookInvariant', UnmountPage
  PROVE  PageInvariant'
<1> USE DEF PageInvariant
<1>1. /\ ~Mounted' /\ version' = version /\ [Next]_vars
      /\ sync' = "idle" /\ syncVersion' = 0 /\ isMounted' = FALSE /\ activeSync' = None
      /\ posts' = Orphaned
  BY DEF UnmountPage, Unmount, Mounted, Next
<1>2. ASSUME NEW p \in Posts
      PROVE  /\ posts'[p] \in PostStates \cup {NoPost}
             /\ posts[p] = NoPost => posts'[p] = NoPost
             /\ posts[p] # NoPost =>
                  /\ ~posts'[p].live
                  /\ posts'[p].status = posts[p].status /\ posts'[p].reload = posts[p].reload
                  /\ posts'[p].version = posts[p].version /\ posts'[p].answer = posts[p].answer
  BY <1>1 DEF Orphaned, PageTypeOK, PostStates
<1>3. PageTypeOK'
  <2>1. posts' \in [Posts -> PostStates \cup {NoPost}]
    BY <1>1, <1>2 DEF Orphaned
  <2>2. 0 \in 0 .. MaxVersion
    BY VersionAssumption
  <2> QED BY <1>1, <2>1, <2>2 DEF PageTypeOK, HookInvariant, SyncStates
<1>4. LivePostIsActive'
  <2>1. isMounted' = Mounted'
    BY <1>1 DEF Mounted
  <2>2. (sync' = "syncing") = (activeSync' # None)
    BY <1>1
  <2>3. \A p \in Posts : posts'[p] # NoPost => ~posts'[p].live
    BY <1>2
  <2>4. \A p \in Posts : posts'[p] # NoPost /\ posts'[p].status = "served" =>
          posts'[p].answer \in PostAnswers
    BY <1>2 DEF LivePostIsActive
  <2> QED BY <1>1, <2>1, <2>2, <2>3, <2>4 DEF LivePostIsActive
<1>5. ReloadsAreOwn'
  <2>1. ASSUME NEW p \in Posts, posts[p] # NoPost, posts[p].status = "reloading"
        PROVE  posts[p].reload \in Requests /\ requests'[posts[p].reload] # Free
    <3>1. PICK r \in Requests : r = posts[p].reload /\ InFlight(r)
      BY <2>1 DEF ReloadsAreOwn
    <3> QED BY <3>1, StaysInFlight DEF UnmountPage
  <2> QED BY <1>1, <1>2, <2>1 DEF ReloadsAreOwn, InFlight
<1>6. FreshAfterSync'
  BY <1>1, <1>2, VersionAssumption DEF FreshAfterSync, Synced, HookInvariant, TypeOK
<1> QED BY <1>3, <1>4, <1>5, <1>6

\* A click starts the only sync of the page.
LEMMA StartSyncStep ==
  ASSUME PageInvariant, NEW p \in Posts, StartSync(p)
  PROVE  PageInvariant'
<1> USE DEF PageInvariant
<1> DEFINE post == [status |-> "sent", live |-> TRUE, answer |-> None,
                    version |-> 0, reload |-> None]
<1>1. /\ Mounted /\ isMounted /\ activeSync = None /\ posts[p] = NoPost
      /\ UNCHANGED <<vars, syncVersion, isMounted>>
      /\ sync' = "syncing" /\ activeSync' = p
      /\ posts' = [posts EXCEPT ![p] = post]
  BY DEF StartSync, MayStart, LivePostIsActive
<1>2. HookInvariant' /\ Mounted' /\ version' = version /\ version \in Nat
  <2>1. HookInvariant'
    BY <1>1, NextInvariant
  <2> QED BY <1>1, <2>1, VersionAssumption DEF vars, hookVars, Mounted, HookInvariant, TypeOK
<1>3. post # NoPost /\ post \in PostStates
  BY DEF NoPost, PostStates
<1>4. /\ posts'[p] = post
      /\ \A q \in Posts : q # p => posts'[q] = posts[q]
      /\ posts' \in [Posts -> PostStates \cup {NoPost}]
  BY <1>1, <1>3 DEF PageTypeOK
<1>5. PageTypeOK'
  BY <1>1, <1>2, <1>4 DEF PageTypeOK, HookInvariant, SyncStates
<1>6. LivePostIsActive'
  BY <1>1, <1>2, <1>3, <1>4, PostsAssumption DEF LivePostIsActive
<1>7. ReloadsAreOwn'
  BY <1>1, <1>4 DEF ReloadsAreOwn, InFlight, vars, hookVars
<1>8. FreshAfterSync'
  BY <1>1, <1>2, <1>4
     DEF FreshAfterSync, Synced, AnsweredSince, ShownSince, IsReusable, vars, hookVars
<1> QED BY <1>2, <1>5, <1>6, <1>7, <1>8

\* The answer of a POST is for a read model that is there now.
LEMMA ServePostStep ==
  ASSUME PageInvariant, HookInvariant', NEW p \in Posts, ServePost(p)
  PROVE  PageInvariant'
<1> USE DEF PageInvariant
<1>1. /\ posts[p] # NoPost /\ posts[p].status = "sent"
      /\ UNCHANGED <<today, hookVars, sync, syncVersion, isMounted, activeSync>>
      /\ version \in 0 .. MaxVersion /\ version' \in 0 .. MaxVersion /\ version' >= version
  <2>1. version \in 0 .. MaxVersion /\ version' \in 0 .. MaxVersion
    BY DEF HookInvariant, TypeOK
  <2>2. version' >= version
    <3>1. version' = version \/ version' = version + 1
      BY DEF ServePost, ModelChanges, vars
    <3> QED BY <2>1, <3>1, VersionAssumption
  <2> QED BY <2>1, <2>2 DEF ServePost, ModelChanges, vars
<1>2. PICK answer \in PostAnswers :
        posts' = [posts EXCEPT ![p].status = "served", ![p].answer = answer,
                               ![p].version = version']
  BY DEF ServePost, PostAnswers, vars
<1>3. /\ posts[p] \in PostStates /\ version \in Nat /\ version' \in Nat
  BY <1>1, VersionAssumption DEF PageTypeOK
<1>4. /\ posts'[p] \in PostStates /\ posts'[p].status = "served"
      /\ posts'[p].live = posts[p].live /\ posts'[p].version = version'
      /\ posts'[p].answer \in PostAnswers
      /\ \A q \in Posts : q # p => posts'[q] = posts[q]
      /\ posts' \in [Posts -> PostStates \cup {NoPost}]
  BY <1>2, <1>3 DEF PageTypeOK, PostStates
<1>5. NoPost \notin PostStates
  BY DEF NoPost, PostStates
<1>6. PageTypeOK'
  BY <1>1, <1>4 DEF PageTypeOK, HookInvariant
<1>7. LivePostIsActive'
  <2>1. Mounted' = Mounted /\ isMounted' = isMounted /\ activeSync' = activeSync /\ sync' = sync
    BY <1>1 DEF Mounted, hookVars
  <2>2. \A q \in Posts : /\ posts'[q] # NoPost <=> posts[q] # NoPost
                         /\ posts[q] # NoPost => (posts'[q].live <=> posts[q].live)
    BY <1>1, <1>4, <1>5
  <2>3. \A q \in Posts : posts'[q] # NoPost /\ posts'[q].status = "served" =>
          posts'[q].answer \in PostAnswers
    BY <1>4 DEF LivePostIsActive
  <2>4. \A q \in Posts : posts'[q] # NoPost /\ posts'[q].live => q = activeSync' /\ Mounted'
    BY <2>1, <2>2 DEF LivePostIsActive
  <2>5. activeSync' # None => posts'[activeSync'] # NoPost /\ posts'[activeSync'].live
    <3>1. activeSync # None => activeSync \in Posts
      BY DEF PageTypeOK
    <3> QED BY <2>1, <2>2, <3>1 DEF LivePostIsActive
  <2> QED BY <2>1, <2>3, <2>4, <2>5 DEF LivePostIsActive
<1>8. ReloadsAreOwn'
  BY <1>1, <1>4 DEF ReloadsAreOwn, InFlight, hookVars
<1>9. FreshAfterSync'
  <2>1. \A q \in Posts : posts'[q] # NoPost => posts'[q].version <= version'
    <3> SUFFICES ASSUME NEW q \in Posts, posts'[q] # NoPost, q # p
                 PROVE  posts'[q].version <= version'
      BY <1>3, <1>4
    <3>1. posts'[q] = posts[q] /\ posts[q].version \in Nat /\ posts[q].version <= version
      BY <1>4 DEF FreshAfterSync, PageTypeOK, PostStates
    <3> QED BY <1>1, <1>3, <3>1
  <2>2. syncVersion' <= version'
    BY <1>1, <1>3, VersionAssumption DEF FreshAfterSync, PageTypeOK
  <2>3. \A q \in Posts : posts'[q] # NoPost /\ posts'[q].status = "reloading" =>
          posts'[q] = posts[q]
    BY <1>4
  <2> QED BY <1>1, <2>1, <2>2, <2>3
          DEF FreshAfterSync, Synced, AnsweredSince, ShownSince, IsReusable, hookVars
<1> QED BY <1>6, <1>7, <1>8, <1>9

\* A promise that is over leaves the POSTs and the page's ref consistent.
LEMMA FinishedPosts ==
  ASSUME PageTypeOK, LivePostIsActive, NEW p \in Posts, Finish(p)
  PROVE  /\ posts' \in [Posts -> PostStates \cup {NoPost}]
         /\ posts'[p] = NoPost
         /\ \A q \in Posts : q # p => posts'[q] = posts[q]
         /\ activeSync' \in Posts \cup {None}
         /\ activeSync' # None => activeSync' # p /\ activeSync' = activeSync
         /\ \A q \in Posts : posts'[q] # NoPost /\ posts'[q].live => q = activeSync'
<1>1. /\ posts' \in [Posts -> PostStates \cup {NoPost}]
      /\ posts'[p] = NoPost
      /\ \A q \in Posts : q # p => posts'[q] = posts[q]
  BY DEF Finish, PageTypeOK
<1>2. /\ activeSync' \in Posts \cup {None}
      /\ activeSync' # None => activeSync' # p /\ activeSync' = activeSync
  BY DEF Finish, PageTypeOK
<1>3. ASSUME NEW q \in Posts, posts'[q] # NoPost, posts'[q].live PROVE q = activeSync'
  <2>1. q # p /\ posts'[q] = posts[q]
    BY <1>1, <1>3
  <2>2. q = activeSync
    BY <1>3, <2>1 DEF LivePostIsActive
  <2> QED BY <2>1, <2>2 DEF Finish
<1> QED BY <1>1, <1>2, <1>3

\* A POST is answered: its page reloads, reports a failure, or is gone.
LEMMA SyncAnsweredStep ==
  ASSUME PageInvariant, HookInvariant', NEW p \in Posts, SyncAnswered(p)
  PROVE  PageInvariant'
<1> USE DEF PageInvariant
<1>0. /\ posts[p] # NoPost /\ posts[p].status = "served" /\ posts[p] \in PostStates
      /\ version \in Nat /\ syncVersion \in Nat
  BY VersionAssumption DEF SyncAnswered, PageTypeOK, HookInvariant, TypeOK
<1>1. ASSUME Finish(p), UNCHANGED <<vars, syncVersion, isMounted>>,
             OwnerIsMounted(p) => sync' \in PostAnswers \ {"success"},
             ~OwnerIsMounted(p) => sync' = sync
      PROVE  PageInvariant'
  <2>1. PageTypeOK'
    BY <1>1, FinishedPosts DEF PageTypeOK, HookInvariant, SyncStates, PostAnswers
  <2>2. Mounted' = Mounted
    BY <1>1 DEF Mounted, vars, hookVars
  <2>3. OwnerIsMounted(p) => p = activeSync /\ activeSync' = None /\ Mounted
    BY <1>0, <1>1 DEF OwnerIsMounted, LivePostIsActive, Finish
  <2>4. ~OwnerIsMounted(p) => ~posts[p].live /\ p # activeSync /\ activeSync' = activeSync
    BY <1>0, <1>1, PostsAssumption DEF OwnerIsMounted, LivePostIsActive, Finish
  <2>5. LivePostIsActive'
    <3>1. (sync' = "syncing") = (activeSync' # None)
      BY <1>1, <2>3, <2>4 DEF LivePostIsActive, PostAnswers
    <3>2. activeSync' # None => posts'[activeSync'] # NoPost /\ posts'[activeSync'].live
      BY <1>1, <2>3, <2>4, FinishedPosts DEF LivePostIsActive, PageTypeOK
    <3>3. \A q \in Posts : posts'[q] # NoPost /\ posts'[q].live => q = activeSync' /\ Mounted'
      BY <1>1, <2>2, FinishedPosts DEF LivePostIsActive
    <3>4. ~Mounted' => sync' = "idle"
      BY <1>1, <2>2, <2>3 DEF LivePostIsActive
    <3>5. \A q \in Posts : posts'[q] # NoPost /\ posts'[q].status = "served" =>
            posts'[q].answer \in PostAnswers
      BY <1>1, FinishedPosts DEF LivePostIsActive
    <3>6. isMounted' = Mounted'
      BY <1>1, <2>2 DEF LivePostIsActive
    <3> QED BY <3>1, <3>2, <3>3, <3>4, <3>5, <3>6 DEF LivePostIsActive
  <2>6. ReloadsAreOwn'
    BY <1>1, FinishedPosts DEF ReloadsAreOwn, InFlight, vars, hookVars
  <2>7. Synced' => Synced
    BY <1>1 DEF Synced, PostAnswers
  <2>8. FreshAfterSync'
    BY <1>1, <2>7, FinishedPosts
       DEF FreshAfterSync, AnsweredSince, ShownSince, IsReusable, vars, hookVars
  <2> QED BY <2>1, <2>5, <2>6, <2>8
<1>2. ASSUME OwnerIsMounted(p), NEW r \in Requests, ReloadSessions(r),
             posts' = [posts EXCEPT ![p].status = "reloading", ![p].reload = r],
             UNCHANGED <<sync, syncVersion, isMounted, activeSync>>
      PROVE  PageInvariant'
  <2>1. /\ posts'[p] \in PostStates /\ posts'[p].status = "reloading" /\ posts'[p].reload = r
        /\ posts'[p].live = posts[p].live /\ posts'[p].version = posts[p].version
        /\ \A q \in Posts : q # p => posts'[q] = posts[q]
        /\ posts' \in [Posts -> PostStates \cup {NoPost}]
    BY <1>0, <1>2 DEF PageTypeOK, PostStates
  <2>2. /\ version' = version /\ Mounted' = Mounted /\ [Next]_vars
        /\ ~InFlight(r) /\ Perform(r, criteria, TRUE, TRUE) /\ criteria \in Criteria
    BY <1>2 DEF ReloadSessions, Perform, Mounted, Next, HookInvariant, TypeOK
  <2>3. p = activeSync /\ sync = "syncing" /\ NoPost \notin PostStates
    BY <1>0, <1>2, PostsAssumption DEF OwnerIsMounted, LivePostIsActive, NoPost, PostStates
  <2>4. PageTypeOK'
    BY <1>2, <2>1 DEF PageTypeOK, HookInvariant
  <2>5. LivePostIsActive'
    BY <1>0, <1>2, <2>1, <2>2, <2>3 DEF LivePostIsActive
  <2>6. PICK v \in Nat : v = posts[p].version
    BY <1>0 DEF PostStates
  <2>7. active' = r /\ AnsweredSince(v)' /\ InFlight(r)'
    <3>1. active' = r /\ AnsweredSince(v)'
      BY <2>2, PerformHasNoAnswer
    <3>2. active' # None => InFlight(active)'
      BY DEF HookInvariant, OnlyActiveCounts
    <3> QED BY <3>1, <3>2, Kinds DEF InFlight
  <2>8. ReloadsAreOwn'
    <3>1. ASSUME NEW q \in Posts, q # p, posts[q] # NoPost, posts[q].status = "reloading"
          PROVE  posts[q].reload \in Requests \ {r} /\ requests'[posts[q].reload] # Free
      <4>1. PICK x \in Requests : x = posts[q].reload /\ InFlight(x) /\ x # r
        BY <2>2, <3>1 DEF ReloadsAreOwn
      <4> QED BY <2>2, <4>1, StaysInFlight
    <3> QED BY <2>1, <2>7, <3>1 DEF ReloadsAreOwn, InFlight
  <2>9. FreshAfterSync'
    <3>1. \A q \in Posts : posts'[q] # NoPost => posts'[q].version <= version'
      BY <1>0, <2>1, <2>2 DEF FreshAfterSync
    <3>2. \A q \in Posts : posts'[q] # NoPost /\ posts'[q].live => q = p
      BY <2>1, <2>3 DEF LivePostIsActive
    <3>3. AnsweredSince(posts[p].version)'
      BY <2>1, <2>6, <2>7 DEF AnsweredSince
    <3>4. ~Synced' /\ syncVersion' <= version'
      BY <1>2, <2>2, <2>3 DEF Synced, FreshAfterSync
    <3> QED BY <2>1, <2>7, <3>1, <3>2, <3>3, <3>4 DEF FreshAfterSync
  <2> QED BY <2>4, <2>5, <2>8, <2>9
<1>3. posts[p].answer \in PostAnswers
  BY <1>0 DEF LivePostIsActive
<1>4. CASE posts[p].answer = "success" /\ OwnerIsMounted(p)
  BY <1>2, <1>4 DEF SyncAnswered
<1>5. CASE ~(posts[p].answer = "success" /\ OwnerIsMounted(p))
  <2>1. Finish(p) /\ UNCHANGED <<vars, syncVersion, isMounted>>
    BY <1>5 DEF SyncAnswered
  <2>2. ~OwnerIsMounted(p) => sync' = sync
    BY DEF SyncAnswered
  <2>3. OwnerIsMounted(p) => sync' = posts[p].answer /\ posts[p].answer # "success"
    BY <1>5 DEF SyncAnswered
  <2>4. OwnerIsMounted(p) => sync' \in PostAnswers \ {"success"}
    BY <1>3, <2>3
  <2> QED BY <1>1, <2>1, <2>2, <2>4
<1> QED BY <1>4, <1>5

\* Time, other clients, the API and the forms touch no sync and no fetch that one awaits.
LEMMA OtherSteps ==
  ASSUME PageInvariant, HookInvariant',
         \/ (NextDay \/ ModelChanges) /\ UNCHANGED syncVars
         \/ \E r \in Requests : \/ SubmitRange(r) \/ SubmitSearch(r)
                                \/ Serve(r) /\ UNCHANGED syncVars
         \/ UNCHANGED pageVars
  PROVE  PageInvariant'
<1> USE DEF PageInvariant
<1>1. version \in Nat /\ \A p \in Posts, r \in Requests : Awaits(p, r) => InFlight(r)
  BY VersionAssumption DEF HookInvariant, TypeOK, ReloadsAreOwn, Awaits
<1>2. CASE ((NextDay \/ ModelChanges) /\ UNCHANGED syncVars) \/ UNCHANGED pageVars
  <2>1. /\ [Next]_vars /\ UNCHANGED syncVars /\ version' >= version
        /\ UNCHANGED <<criteria, active, requests>>
    BY <1>1, <1>2 DEF Next, NextDay, ModelChanges, hookVars, vars, pageVars
  <2>2. ~Mount
    BY <2>1, CriteriaAssumption, Kinds DEF Mount, Mounted, Criteria, HookInvariant, TypeOK
  <2> QED BY <1>1, <2>1, <2>2, SyncStandsStill DEF Mounted, InFlight
<1>3. ASSUME NEW r \in Requests, SubmitRange(r) \/ SubmitSearch(r) PROVE PageInvariant'
  <2>1. ApplyRange(r) \/ ApplySearch(r)
    BY <1>3 DEF SubmitRange, SubmitSearch
  <2>2. PICK c \in Criteria, keep \in BOOLEAN :
          Perform(r, c, keep, keep) /\ criteria' = c /\ UNCHANGED <<today, version>>
    BY <2>1, RequestSteps DEF HookInvariant
  <2>3. settled' = None /\ Mounted
    BY <2>1 DEF ApplyRange, ApplySearch, Apply, Perform
  <2>4. [Next]_vars /\ ~Mount /\ Mounted' = Mounted
    BY <2>1, <2>2, <2>3, Kinds DEF Next, Mount, Mounted
  <2>5. \A p \in Posts, x \in Requests : Awaits(p, x) => requests'[x] # Free
    BY <1>1, <2>2, StaysInFlight
  <2>6. UNCHANGED syncVars
    BY <1>3 DEF SubmitRange, SubmitSearch
  <2> QED BY <1>1, <2>2, <2>3, <2>4, <2>5, <2>6, SyncStandsStill
<1>4. ASSUME NEW r \in Requests, Serve(r), UNCHANGED syncVars PROVE PageInvariant'
  <2>1. /\ [Next]_vars /\ Mounted' = Mounted /\ version' = version /\ active' = active
        /\ criteria' = criteria
    BY <1>4 DEF Next, Serve, Mounted
  <2>2. ~Mount
    BY <2>1, CriteriaAssumption, Kinds DEF Mount, Mounted, Criteria, HookInvariant, TypeOK
  <2>3. ASSUME NEW x \in Requests, InFlight(x) PROVE requests'[x] # Free
    <3>1. requests[x] \in FlightStates
      BY <2>3 DEF InFlight, HookInvariant, TypeOK
    <3>2. requests'[x].status = "served" \/ requests'[x] = requests[x]
      BY <1>4, <3>1 DEF Serve, FlightStates, HookInvariant, TypeOK
    <3> QED BY <2>3, <3>2 DEF Free, InFlight
  <2> QED BY <1>1, <1>4, <2>1, <2>2, <2>3, SyncStandsStill
<1> QED BY <1>2, <1>3, <1>4

\* A fetch resolves: the sync that awaits it, if there is one, reports and is over.
LEMMA SettlePageStep ==
  ASSUME PageInvariant, HookInvariant', NEW r \in Requests, SettlePage(r)
  PROVE  PageInvariant'
<1> USE DEF PageInvariant
<1>1. /\ active' = IF active = r THEN None ELSE active
      /\ \A x \in Requests : x # r => requests'[x] = requests[x]
      /\ \/ settled' = settled
         \/ active = r /\ settled' # None /\ settled'.state = requests[r].answer
  BY SettleShows DEF SettlePage
<1>2. /\ [Next]_vars /\ criteria' = criteria /\ Mounted' = Mounted /\ version' = version
      /\ version \in Nat /\ Settle(r)
  <2>1. Settle(r) /\ criteria' = criteria /\ version' = version
    BY DEF SettlePage, Settle
  <2>2. Next
    BY <2>1 DEF Next
  <2>3. version \in Nat
    BY VersionAssumption DEF HookInvariant, TypeOK
  <2> QED BY <2>1, <2>2, <2>3 DEF Mounted
<1>3. ~Mount
  BY <1>2, CriteriaAssumption, Kinds DEF Mount, Mounted, Criteria, HookInvariant, TypeOK
<1>4. CASE UNCHANGED syncVars /\ \A p \in Posts : ~Awaits(p, r)
  <2>1. \A p \in Posts, x \in Requests : Awaits(p, x) => requests'[x] # Free
    BY <1>1, <1>4 DEF ReloadsAreOwn, Awaits, InFlight
  <2>2. \A p \in Posts : Awaits(p, active) => active' = active
    BY <1>1, <1>4
  <2> QED BY <1>2, <1>3, <1>4, <2>1, <2>2, SyncStandsStill
<1>5. ASSUME NEW p \in Posts, Awaits(p, r), Finish(p), UNCHANGED isMounted,
             IF OwnerIsMounted(p)
               THEN sync' = ReportOf(Outcome(r)) /\ syncVersion' = posts[p].version
               ELSE UNCHANGED <<sync, syncVersion>>
      PROVE  PageInvariant'
  <2>1. /\ posts' \in [Posts -> PostStates \cup {NoPost}] /\ posts'[p] = NoPost
        /\ \A q \in Posts : q # p => posts'[q] = posts[q]
        /\ activeSync' \in Posts \cup {None}
        /\ activeSync' # None => activeSync' # p /\ activeSync' = activeSync
        /\ \A q \in Posts : posts'[q] # NoPost /\ posts'[q].live => q = activeSync'
    BY <1>5, FinishedPosts
  <2>2. PICK v \in Nat : v = posts[p].version /\ v <= version
    BY <1>5 DEF Awaits, PageTypeOK, PostStates, FreshAfterSync
  <2>3. ReportOf(Outcome(r)) \in {"refresh_error", "synced_with_sessions", "synced_empty"}
    BY DEF ReportOf
  <2>4. OwnerIsMounted(p) => p = activeSync /\ activeSync' = None /\ Mounted
    BY <1>5 DEF OwnerIsMounted, LivePostIsActive, Finish, Awaits
  <2>5. ~OwnerIsMounted(p) => ~posts[p].live /\ p # activeSync /\ activeSync' = activeSync
    BY <1>5, PostsAssumption DEF OwnerIsMounted, LivePostIsActive, Finish, Awaits
  <2>6. PageTypeOK'
    <3>1. sync' \in SyncStates
      BY <1>5, <2>3 DEF SyncStates, PageTypeOK
    <3>2. syncVersion' \in 0 .. MaxVersion
      BY <1>5, <2>2, VersionAssumption DEF PageTypeOK, HookInvariant, TypeOK
    <3> QED BY <1>5, <2>1, <3>1, <3>2 DEF PageTypeOK, HookInvariant
  <2>7. LivePostIsActive'
    <3>1. (sync' = "syncing") = (activeSync' # None)
      BY <1>5, <2>3, <2>4, <2>5 DEF LivePostIsActive
    <3>2. activeSync' # None => posts'[activeSync'] # NoPost /\ posts'[activeSync'].live
      BY <2>1 DEF LivePostIsActive
    <3>3. \A q \in Posts : posts'[q] # NoPost /\ posts'[q].live => q = activeSync' /\ Mounted'
      BY <1>2, <2>1 DEF LivePostIsActive
    <3>4. ~Mounted' => sync' = "idle"
      BY <1>2, <1>5, <2>4 DEF LivePostIsActive
    <3>5. \A q \in Posts : posts'[q] # NoPost /\ posts'[q].status = "served" =>
            posts'[q].answer \in PostAnswers
      BY <2>1 DEF LivePostIsActive
    <3>6. isMounted' = Mounted'
      BY <1>2, <1>5 DEF LivePostIsActive
    <3> QED BY <3>1, <3>2, <3>3, <3>4, <3>5, <3>6 DEF LivePostIsActive
  <2>8. ASSUME NEW q \in Posts, posts'[q] # NoPost, posts'[q].status = "reloading"
        PROVE  /\ posts'[q] = posts[q] /\ posts[q] # NoPost /\ posts[q].reload \in Requests \ {r}
               /\ InFlight(posts[q].reload)
    BY <1>5, <2>1, <2>8 DEF ReloadsAreOwn, Awaits
  <2>9. ReloadsAreOwn'
    BY <1>1, <2>8 DEF ReloadsAreOwn, InFlight
  <2>10. \A u \in Nat : u <= version /\ AnsweredSince(u)
           => AnsweredSince(u)' /\ (ShownSince(u) => ShownSince(u)')
    BY <1>2, <1>3, SinceStays
  <2>11. Synced' => ShownSince(syncVersion)' /\ AnsweredSince(syncVersion)'
    <3>1. CASE OwnerIsMounted(p)
      <4>1. Synced' => Outcome(r) # Error
        BY <1>5, <3>1 DEF Synced, ReportOf
      <4>2. AnsweredSince(v) /\ (active = r \/ ShownSince(v))
        BY <1>5, <2>2, <3>1 DEF FreshAfterSync, Awaits, OwnerIsMounted
      <4>3. ASSUME Synced', active = r PROVE ShownSince(v)'
        <5>1. ~IsStale(r) /\ Outcome(r) = requests[r].answer
          BY <4>3, Kinds DEF IsStale, Outcome, OnlyActiveCounts, HookInvariant, TypeOK
        <5>2. ~KeepsSnapshot(r) /\ requests[r].answer # Error
          BY <4>1, <4>3, <5>1 DEF KeepsSnapshot
        <5>3. settled'.state = requests[r].answer /\ requests[r].answer # None
          BY <1>2, <5>1, <5>2 DEF IsApplied, Settle, AnswersAreOwn, HookInvariant
        <5>4. requests[r].answer.version >= v
          BY <4>2, <4>3, <5>2, <5>3, Kinds DEF AnsweredSince, IsReusable
        <5> QED BY <5>3, <5>4 DEF ShownSince
      <4>4. Synced' => ShownSince(v)' /\ AnsweredSince(v)'
        BY <2>2, <2>10, <4>2, <4>3
      <4>5. syncVersion' = v
        BY <1>5, <2>2, <3>1
      <4> QED BY <4>4, <4>5 DEF AnsweredSince, ShownSince
    <3>2. CASE ~OwnerIsMounted(p)
      <4>1. PICK u \in Nat : u = syncVersion
        BY VersionAssumption DEF PageTypeOK
      <4>2. sync' = sync /\ syncVersion' = u
        BY <1>5, <3>2, <4>1
      <4>3. Synced' => u <= version /\ AnsweredSince(u) /\ ShownSince(u)
        BY <4>1, <4>2 DEF FreshAfterSync, Synced
      <4> QED BY <2>10, <4>2, <4>3 DEF AnsweredSince, ShownSince
    <3> QED BY <3>1, <3>2
  <2>12. ASSUME NEW q \in Posts, posts'[q] # NoPost, posts'[q].live, posts'[q].status = "reloading"
         PROVE  /\ AnsweredSince(posts[q].version)'
                /\ posts'[q].reload = active' \/ ShownSince(posts[q].version)'
    <3>1. PICK u \in Nat : u = posts[q].version /\ u <= version
      BY <2>8, <2>12 DEF PageTypeOK, PostStates, FreshAfterSync
    <3>2. AnsweredSince(u) /\ (posts[q].reload = active \/ ShownSince(u))
      BY <2>8, <2>12, <3>1 DEF FreshAfterSync
    <3>3. posts[q].reload = active => active' = active
      BY <1>1, <2>8, <2>12
    <3>4. AnsweredSince(u)' /\ (posts'[q].reload = active' \/ ShownSince(u)')
      BY <2>8, <2>10, <2>12, <3>1, <3>2, <3>3
    <3>5. posts'[q].version = u
      BY <2>8, <2>12, <3>1
    <3> QED BY <3>4, <3>5 DEF AnsweredSince, ShownSince
  <2>13. FreshAfterSync'
    <3>1. syncVersion' <= version' /\ \A q \in Posts : posts'[q] # NoPost => posts'[q].version <= version'
      BY <1>2, <1>5, <2>1, <2>2 DEF FreshAfterSync
    <3> QED BY <2>11, <2>12, <3>1 DEF FreshAfterSync
  <2> QED BY <2>6, <2>7, <2>9, <2>13
<1> QED BY <1>4, <1>5 DEF SettlePage

\* PageInvariant is inductive.
LEMMA PageNextInvariant == PageInvariant /\ [PageNext]_pageVars => PageInvariant'
<1> SUFFICES ASSUME PageInvariant, [PageNext]_pageVars PROVE PageInvariant'
  OBVIOUS
<1>1. HookInvariant'
  BY PageStepsAreHookSteps, NextInvariant DEF PageInvariant
<1>2. CASE MountPage \/ UnmountPage
  BY <1>1, <1>2, MountPageStep, UnmountPageStep
<1>3. ASSUME NEW p \in Posts, StartSync(p) \/ ServePost(p) \/ SyncAnswered(p)
      PROVE  PageInvariant'
  BY <1>1, <1>3, StartSyncStep, ServePostStep, SyncAnsweredStep
<1>4. ASSUME NEW r \in Requests, SettlePage(r) PROVE PageInvariant'
  BY <1>1, <1>4, SettlePageStep
<1>5. CASE \/ (NextDay \/ ModelChanges) /\ UNCHANGED syncVars
           \/ \E r \in Requests : \/ SubmitRange(r) \/ SubmitSearch(r)
                                  \/ Serve(r) /\ UNCHANGED syncVars
           \/ UNCHANGED pageVars
  BY <1>1, <1>5, OtherSteps
<1> QED BY <1>2, <1>3, <1>4, <1>5 DEF PageNext

-----------------------------------------------------------------------------
(* The theorems                                                            *)

\* The inductive invariant of the page holds in every reachable state.
THEOREM PageInvariantCorrect == PageSpec => []PageInvariant
<1> QED BY PageInitInvariant, PageNextInvariant, PTL DEF PageSpec

\* Every variable of the page has its type.
THEOREM PageTypeCorrect == PageSpec => []PageTypeOK
<1>1. PageInvariant => PageTypeOK
  BY DEF PageInvariant
<1> QED BY <1>1, PageInvariantCorrect, PTL

\* "synced" never stands over a list that was read before the sync.
THEOREM SyncedListsCorrect == PageSpec => []SyncedListsAreFresh
<1>1. PageInvariant => SyncedListsAreFresh
  BY DEF PageInvariant, FreshAfterSync, ShownSince, SyncedListsAreFresh, IsReusable
<1> QED BY <1>1, PageInvariantCorrect, PTL

\* A page has one sync under way, however often its buttons are pressed.
THEOREM OneSyncCorrect == PageSpec => []OneSyncPerPage
<1>1. PageInvariant => OneSyncPerPage
  BY DEF PageInvariant, LivePostIsActive, OneSyncPerPage
<1> QED BY <1>1, PageInvariantCorrect, PTL

\* The page uses the list hook as it is: what is proved of the hook holds on the page.
THEOREM PageKeepsTheHook == PageSpec => Spec
<1> QED BY PageStepsAreHookSteps, PTL DEF PageSpec, Spec
=============================================================================
