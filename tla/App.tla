--------------------------------- MODULE App ---------------------------------
(***************************************************************************)
(* App: one route shows the index page, of which this composition keeps the *)
(* tabs of directories, the other the detail page.  A page that is left is  *)
(* unmounted with all it holds; only its fetches are still under way.       *)
(***************************************************************************)
EXTENDS SessionDetailPage, DirectoryTabs

CONSTANTS
  Listings,  \* the lists whose tabs are looked at
  Sayings    \* the entries whose contents are

ASSUME ListingsAssumption == Listings \subseteq Seq(Sessions) \ {<<>>}
ASSUME SayingsAssumption == Sayings \subseteq ConversationEntries

appVars == <<detailVars, tabVars>>

\* A card of the list or the address bar; and back.
OpenSession(id) == VisitDetail(id) /\ CloseTabs
BackToIndex == LeaveDetail /\ OpenTabs

AppInit == DetailInit /\ TabsInit

AppNext ==
  \/ \E id \in SessionIds : OpenSession(id) \/ (ChangeDetail(id) /\ UNCHANGED tabVars)
  \/ BackToIndex
  \/ \E r \in Requests : /\ ClickRaw(r) \/ ServeDetail(r) \/ SettleDetail(r)
                         /\ UNCHANGED tabVars
  \/ ReaderToggles /\ UNCHANGED tabVars
  \/ (ReplaceList \/ ReaderSelects \/ RunFallback) /\ UNCHANGED detailVars

AppSpec == AppInit /\ [][AppNext]_appVars

\* A browser resolves or rejects every fetch, and runs what waits for it.
FairAppSpec ==
  /\ AppSpec
  /\ \A r \in Requests : /\ WF_appVars(ServeDetail(r) /\ UNCHANGED tabVars)
                         /\ WF_appVars(SettleDetail(r) /\ UNCHANGED tabVars)

-----------------------------------------------------------------------------
(* Properties                                                              *)

\* AppTypeOK: the type of every variable, and one page at a time.
AppTypeOK == DetailPageTypeOK /\ TabsTypeOK /\ (route = None) = (selected # NoTab)

\* Facts of the inputs alone are stated of the initial states.

\* Two tabs with the same words on them are of one directory, every session is under
\* one tab besides "all", and no tab is empty, whatever list comes.
TabsTellDirectoriesApart == AppInit => \A l \in Listings : TellsApart(l)

\* Whatever an entry says can be read on the page, in order, without opening it
\* first, except for skill contexts and for what stands on a fence mark's line.
EverythingSaidIsInReach == AppInit => \A e \in Sayings : SaysItAll(e)
=============================================================================
