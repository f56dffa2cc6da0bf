---------------------------- MODULE DirectoryTabs ----------------------------
(***************************************************************************)
(* The tabs of working directories over the list of the index page: which   *)
(* tabs a list has, what they are called, which sessions they show, and     *)
(* which of them is selected while lists come and go.                       *)
(***************************************************************************)
EXTENDS Integers, SequencesExt, FiniteSetsExt

CONSTANTS
  Segments,     \* names of directories
  Root,         \* the label of "/"
  Lists,        \* the lists that the page is given: sequences of sessions
  NoTab, NoCwd

\* A session's cwd: null, only blanks, or a path, which may be padded with blanks
\* or written with a slash more at its end.
Paths == [segments : Seq(Segments), slash : BOOLEAN, padded : BOOLEAN]
BlankCwd == [blank |-> TRUE]
Sessions == [cwd : Paths \cup {BlankCwd, NoCwd}]

ASSUME ListAssumption == Lists \subseteq Seq(Sessions) \ {<<>>}

ASSUME RootAssumption == Root \notin Segments  \* a name has no slash in it

All == [kind |-> "all"]
Unset == [kind |-> "unset"]
DirectoryKey(cwd) == [kind |-> "directory", cwd |-> cwd]
Keys == {All, Unset} \cup [kind : {"directory"}, cwd : Paths]

ASSUME NoTabAssumption == NoTab \notin Keys

-----------------------------------------------------------------------------
(* The tabs of a list                                                      *)

NormalizeCwd(cwd) ==
  IF cwd \in {NoCwd, BlankCwd} THEN NoCwd ELSE [cwd EXCEPT !.padded = FALSE]

SplitPathParts(cwd) == IF cwd.segments = <<>> THEN <<Root>> ELSE cwd.segments
LabelOf(cwd) == Last(SplitPathParts(cwd))
ParentSegments(cwd) == Front(SplitPathParts(cwd))

\* The distinct directories that the list names.
DirectoryGroups(list) == {NormalizeCwd(list[i].cwd) : i \in DOMAIN list} \ {NoCwd}

ParentSuffix(segments, depth) ==
  SubSeq(segments, Max({Len(segments) - depth, 0}) + 1, Len(segments))

\* Variant: one parent directory is taken to be enough.
NearestParent(target, duplicates) == ParentSuffix(ParentSegments(target), 1)

\* As few parents as no other directory of that name has at the same depth.
FindUniqueParentContext(target, duplicates) ==
  LET own == ParentSegments(target)
      maxParentDepth == Max({Len(ParentSegments(d)) : d \in duplicates})
      unique == {depth \in 1 .. maxParentDepth :
                   /\ ParentSuffix(own, depth) # <<>>
                   /\ \A d \in duplicates \ {target} :
                        ParentSuffix(ParentSegments(d), depth) # ParentSuffix(own, depth)}
  IN IF unique = {} THEN own ELSE ParentSuffix(own, Min(unique))

Duplicates(groups, cwd) == {d \in groups : LabelOf(d) = LabelOf(cwd)}

\* buildTabDisplayLabel: the label alone, or behind its context.
DisplayLabel(groups, cwd) ==
  LET duplicates == Duplicates(groups, cwd) IN
  [label |-> LabelOf(cwd),
   context |-> IF duplicates = {cwd} THEN NoCwd
               ELSE FindUniqueParentContext(cwd, duplicates)]

IsUnset(session) == NormalizeCwd(session.cwd) = NoCwd

\* The keys of the tabs.
BuildTabs(list) ==
  {All} \cup {DirectoryKey(cwd) : cwd \in DirectoryGroups(list)}
    \cup IF \E i \in DOMAIN list : IsUnset(list[i]) THEN {Unset} ELSE {}

\* They stand in the order in which the list names the directories first.
Place(list, key) ==
  CASE key.kind = "all" -> 0
    [] key.kind = "unset" -> Len(list) + 1
    [] OTHER -> Min({i \in DOMAIN list : NormalizeCwd(list[i].cwd) = key.cwd})

\* getSessionsForDirectoryTab, as places in the list.
SessionsFor(list, key) ==
  {i \in DOMAIN list :
     IF key.kind = "all" THEN TRUE
     ELSE IF key.kind = "unset" THEN IsUnset(list[i])
     ELSE NormalizeCwd(list[i].cwd) = key.cwd}

-----------------------------------------------------------------------------
(* The selection                                                           *)

VARIABLES
  list,     \* the sessions of the list hook; NoTab while it has none to show
  selected, \* selectedDirectoryTabKey
  fallback  \* what the effect's microtask will select, unless cleaned up; or NoTab

tabVars == <<list, selected, fallback>>

Tabs == IF list = NoTab THEN {} ELSE BuildTabs(list)

\* coerceDirectoryTabKey, and 'all' while there are no tabs.
Coerced(l, key) ==
  IF l # NoTab /\ key \in BuildTabs(l) THEN key ELSE All

\* Variant: a microtask that is due is not called off.
FallbackStays(l, key) ==
  IF l # NoTab /\ key # Coerced(l, key) THEN Coerced(l, key) ELSE fallback

\* The effect after a render: its cleanup calls the microtask off.
Fallback(l, key) ==
  IF l # NoTab /\ key # Coerced(l, key) THEN Coerced(l, key) ELSE NoTab

Render(l, key) ==
  list' = l /\ selected' = key /\ fallback' = Fallback(l, key)

\* The list hook shows another list, or none.
ReplaceList ==
  selected # NoTab /\ \E l \in Lists \cup {NoTab} : l # list /\ Render(l, selected)

SelectTab(key) == key \in Tabs /\ Render(list, key)

\* The tab to the right of another; that of the last is the first.
IsRightOf(next, key) ==
  LET farther == {t \in Tabs : Place(list, t) > Place(list, key)} IN
  IF farther = {} THEN next = All
  ELSE next \in farther /\ \A t \in farther : Place(list, next) <= Place(list, t)

\* Left and right go round; the tab with the focus is the selected one.
ArrowKey(direction) ==
  LET focused == Coerced(list, selected) IN
  \E key \in Tabs :
    /\ IF direction = 1 THEN IsRightOf(key, focused) ELSE IsRightOf(focused, key)
    /\ SelectTab(key)

RunFallback == fallback # NoTab /\ Render(list, fallback)

\* The index page comes and goes with its tabs.
OpenTabs == selected = NoTab /\ Render(NoTab, All)
CloseTabs == selected # NoTab /\ list' = NoTab /\ selected' = NoTab /\ fallback' = NoTab

TabsInit == list = NoTab /\ selected = All /\ fallback = NoTab

ReaderSelects ==
  \/ \E key \in Tabs : SelectTab(key)
  \/ \E direction \in {-1, 1} : ArrowKey(direction)

-----------------------------------------------------------------------------
(* Properties                                                              *)

\* TabsTypeOK: the type of every variable.
TabsTypeOK ==
  /\ list \in Lists \cup {NoTab}
  /\ selected \in Keys \cup {NoTab}
  /\ fallback \in {NoTab, All}

\* Two tabs with the same words on them are of one directory, however its path is
\* written; every session is under one tab besides "all", and no tab is empty.
TellsApart(l) ==
  LET groups == DirectoryGroups(l)
      tabs == BuildTabs(l)
  IN /\ \A c, d \in groups :
          DisplayLabel(groups, c) = DisplayLabel(groups, d) => c.segments = d.segments
     /\ \A i \in DOMAIN l :
          \E t \in tabs \ {All} : {u \in tabs : i \in SessionsFor(l, u)} = {All, t}
     /\ \A t \in tabs : SessionsFor(l, t) # {}

\* A chosen tab stays selected until the reader chooses another, or the list on the
\* page does not have it: a fallback that is due never comes late, for a list that
\* has gone since or over a choice made since.
TheChosenTabStays ==
  [][selected' # selected /\ NoTab \notin {selected, selected'} =>
       ReaderSelects \/ (list # NoTab /\ selected \notin Tabs)]_tabVars
=============================================================================
