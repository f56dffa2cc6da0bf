-------------------------- MODULE SessionDetailPage --------------------------
(***************************************************************************)
(* SessionDetailPage: what of the detail that useSessionDetail has settled  *)
(* is open to the reader.  Entries of the conversation are hidden or shown, *)
(* the arguments of their tools and the two disclosure sections likewise.   *)
(* React keeps this state in components: while the detail stays on the page *)
(* they stay, with their places as keys; when it goes they go.              *)
(***************************************************************************)
EXTENDS SessionDetailHook, ConversationContent

CONSTANTS
  Entries,    \* detail.conversation.entries of each session; a sequence is a place in it
  WithIssues, \* the sessions with session issues
  WithActivity

ASSUME DetailContentAssumption ==
  /\ Entries \in [SessionIds -> Seq(ConversationEntries)]
  /\ WithIssues \subseteq SessionIds /\ WithActivity \subseteq SessionIds

VARIABLE parts  \* the state of the mounted components; NoParts when there is no detail

detailVars == <<vars, parts>>

\* visibilityState, the toolDisclosureState of every entry, and the expanded sections.
\* The two states belong to the scope that they were last set in.
NoChoice == [scope |-> None, chosen |-> <<>>]
NoParts == [expanded |-> {}]
FreshParts(id) ==
  [visibility |-> NoChoice, tools |-> [n \in DOMAIN Entries[id] |-> NoChoice], expanded |-> {}]

-----------------------------------------------------------------------------
(* What is open                                                            *)

HasDetail == route # None /\ InSight /\ settled.status = "success"

\* What formatConversationEntryContent and shouldDefaultHide.. say of each entry.
ToolsOf ==
  [id \in SessionIds |->
     [n \in DOMAIN Entries[id] |-> ExtractToolHintBlocks(Entries[id][n].tool_calls)]]
HiddenByDefault ==
  [id \in SessionIds |-> [n \in DOMAIN Entries[id] |-> ShouldDefaultHide(Entries[id][n])]]

\* detail.id, which is in the stateScopeKey.
Shown == settled.of

ChosenIn(state, key, default) ==
  IF state.scope = Shown /\ key \in DOMAIN state.chosen THEN state.chosen[key] ELSE default

IsVisible(n) == ChosenIn(parts.visibility, n, ~HiddenByDefault[Shown][n])
VisibleEntries == {n \in DOMAIN Entries[Shown] : IsVisible(n)}

\* The tools of entry n that have arguments to open, by their places among its tools;
\* TimelineContent counts the blocks before them too, as many at every render.
ToolPlaces(n) == {k \in DOMAIN ToolsOf[Shown][n] : ToolsOf[Shown][n][k].hasArgumentsPreview}
IsExpanded(n, k) ==
  ChosenIn(parts.tools[n], k, ~ToolsOf[Shown][n][k].argumentsDefaultCollapsed)

Sections(id) == {s \in {"issues", "activity"} :
                   \/ s = "issues" /\ id \in WithIssues
                   \/ s = "activity" /\ id \in WithActivity}

Open == [entries |-> VisibleEntries,
         tools |-> [n \in VisibleEntries |-> {k \in ToolPlaces(n) : IsExpanded(n, k)}],
         sections |-> parts.expanded]

\* What a page that was never touched shows.
OpenByDefault(id) ==
  LET shown == {n \in DOMAIN Entries[id] : ~HiddenByDefault[id][n]}
  IN [entries |-> shown, tools |-> [n \in shown |-> {}], sections |-> {}]

-----------------------------------------------------------------------------
(* React                                                                   *)

\* The detail is rendered by one branch of the page: its components stay while it
\* does, each in its place, and are made afresh when it comes back.
Reconcile ==
  parts' = IF ~HasDetail' THEN NoParts
           ELSE IF ~HasDetail THEN FreshParts(Shown')
           ELSE [visibility |-> parts.visibility,
                 tools |-> [n \in DOMAIN Entries[Shown'] |->
                              IF n \in DOMAIN parts.tools THEN parts.tools[n] ELSE NoChoice],
                 expanded |-> parts.expanded \cap Sections(Shown) \cap Sections(Shown')]

VisitDetail(id) == Mount(id) /\ Reconcile
ChangeDetail(id) == ChangeRoute(id) /\ Reconcile
LeaveDetail == Unmount /\ Reconcile
ServeDetail(r) == Serve(r) /\ Reconcile
SettleDetail(r) == Settle(r) /\ Reconcile

-----------------------------------------------------------------------------
(* The reader                                                              *)

Chosen(state, key, value) ==
  LET current == IF state.scope = Shown THEN state.chosen ELSE <<>>
  IN [scope |-> Shown,
      chosen |-> [k \in DOMAIN current \cup {key} |-> IF k = key THEN value ELSE current[k]]]

\* The content of a hidden entry is not rendered, and the choices in it go.
ToggleEntry(n) ==
  /\ parts' = [parts EXCEPT !.visibility = Chosen(@, n, ~IsVisible(n)),
                            !.tools[n] = NoChoice]
  /\ UNCHANGED vars

ToggleTool(n, k) ==
  /\ IsVisible(n)
  /\ parts' = [parts EXCEPT !.tools[n] = Chosen(@, k, ~IsExpanded(n, k))]
  /\ UNCHANGED vars

ToggleSection(s) ==
  /\ s \in Sections(Shown)
  /\ parts' = [parts EXCEPT !.expanded = IF s \in @ THEN @ \ {s} ELSE @ \cup {s}]
  /\ UNCHANGED vars

\* The raw button is in the activity section.
ClickRaw(r) == HasDetail /\ "activity" \in parts.expanded /\ RequestRaw(r) /\ Reconcile

-----------------------------------------------------------------------------

DetailInit == Init /\ parts = NoParts

ReaderToggles ==
  /\ HasDetail
  /\ \/ \E n \in DOMAIN Entries[Shown] :
          ToggleEntry(n) \/ \E k \in ToolPlaces(n) : ToggleTool(n, k)
     \/ \E s \in {"issues", "activity"} : ToggleSection(s)

-----------------------------------------------------------------------------
(* Properties                                                              *)

\* DetailPageTypeOK: the type of every variable.
ChoiceStates(keys) == {NoChoice} \cup
  [scope : SessionIds, chosen : UNION {[K -> BOOLEAN] : K \in SUBSET keys}]
DetailPageTypeOK ==
  /\ TypeOK
  /\ (parts = NoParts) = ~HasDetail
  /\ HasDetail =>
       /\ parts.visibility \in ChoiceStates(DOMAIN Entries[Shown])
       /\ DOMAIN parts.tools = DOMAIN Entries[Shown]
       /\ \A n \in DOMAIN Entries[Shown] : parts.tools[n] \in ChoiceStates(ToolPlaces(n))
       /\ parts.expanded \subseteq Sections(Shown)

\* Only the reader opens and closes.  A detail that comes in sight is as if never
\* touched, whatever was open when it was left; while it stays, no answer, late or
\* raw, opens or closes anything in it.
OnlyTheReaderOpens ==
  [][vars' # vars /\ HasDetail' =>
       Open' = IF HasDetail /\ route' = route THEN Open ELSE OpenByDefault(route')]_detailVars
=============================================================================
