------------------------------ MODULE AppProofs ------------------------------
(***************************************************************************)
(* Theorems about App, for any sessions, lists and number of fetches.  A    *)
(* step of the app is one of the detail hook or leaves it alone, so what is *)
(* proved of the hook holds of the page that the app shows.  A tab that was *)
(* chosen stays; the tabs of every list tell its directories apart; nobody  *)
(* but the reader opens or closes a part of the detail page; and whatever   *)
(* an entry of a conversation says is in reach there.                       *)
(***************************************************************************)
EXTENDS App, SessionDetailHookProofs, FiniteSetTheorems, SequenceTheorems, WellFoundedInduction

\* The components of the page keep the hook's steps as they are.
LEMMA AppStepsAreHookSteps == [AppNext]_appVars => [Next]_vars
<1>1. ASSUME NEW id \in SessionIds, OpenSession(id) \/ ChangeDetail(id) PROVE Next
  BY <1>1 DEF OpenSession, VisitDetail, ChangeDetail, Next
<1>2. BackToIndex => Next
  BY DEF BackToIndex, LeaveDetail, Next
<1>3. ASSUME NEW r \in Requests, ClickRaw(r) \/ ServeDetail(r) \/ SettleDetail(r) PROVE Next
  BY <1>3 DEF ClickRaw, ServeDetail, SettleDetail, Next
<1>4. ReaderToggles => UNCHANGED vars
  BY DEF ReaderToggles, ToggleEntry, ToggleTool, ToggleSection
<1>5. UNCHANGED detailVars => UNCHANGED vars
  BY DEF detailVars
<1>6. UNCHANGED appVars => UNCHANGED detailVars
  BY DEF appVars
<1> QED BY <1>1, <1>2, <1>3, <1>4, <1>5, <1>6 DEF AppNext

\* What is proved of the detail hook holds in the app.
THEOREM AppKeepsTheHook == AppSpec => Spec
<1>1. AppInit => Init
  BY DEF AppInit, DetailInit
<1> QED BY <1>1, AppStepsAreHookSteps, PTL DEF AppSpec, Spec

-----------------------------------------------------------------------------
(* The selection                                                           *)

\* A fallback is due only for the list on the page, and only when that lacks the tab.
FallbackIsForThisList == fallback # NoTab => list # NoTab /\ selected \notin Tabs

\* A render leaves a fallback that is for what it renders.
LEMMA RenderFalls ==
  ASSUME NEW l, NEW key, Render(l, key)
  PROVE  FallbackIsForThisList'
<1>1. list' = l /\ selected' = key /\ fallback' = Fallback(l, key)
  BY DEF Render
<1>2. fallback' # NoTab => l # NoTab /\ key \notin BuildTabs(l)
  BY <1>1 DEF Fallback, Coerced
<1> QED BY <1>1, <1>2 DEF FallbackIsForThisList, Tabs

LEMMA FallbackInvariant ==
  FallbackIsForThisList /\ [AppNext]_appVars => FallbackIsForThisList'
<1> SUFFICES ASSUME FallbackIsForThisList, [AppNext]_appVars PROVE FallbackIsForThisList'
  OBVIOUS
<1>1. CASE UNCHANGED tabVars
  BY <1>1 DEF tabVars, FallbackIsForThisList, Tabs
<1>2. CASE CloseTabs
  BY <1>2 DEF CloseTabs, FallbackIsForThisList
<1>3. CASE OpenTabs \/ ReplaceList \/ ReaderSelects \/ RunFallback
  <2>1. PICK l, key : Render(l, key)
    BY <1>3 DEF OpenTabs, ReplaceList, ReaderSelects, RunFallback, SelectTab, ArrowKey
  <2> QED BY <2>1, RenderFalls
<1> QED BY <1>1, <1>2, <1>3 DEF AppNext, OpenSession, BackToIndex, appVars

\* A chosen tab stays selected until the reader chooses another or the list lacks it.
THEOREM ChosenTabCorrect == AppSpec => TheChosenTabStays
<1>1. AppInit => FallbackIsForThisList
  BY DEF AppInit, TabsInit, FallbackIsForThisList
<1>2. FallbackIsForThisList /\ [AppNext]_appVars =>
        [selected' # selected /\ NoTab \notin {selected, selected'} =>
           ReaderSelects \/ (list # NoTab /\ selected \notin Tabs)]_tabVars
  <2> SUFFICES ASSUME FallbackIsForThisList, AppNext, selected' # selected,
                      selected # NoTab, selected' # NoTab
               PROVE  ReaderSelects \/ (list # NoTab /\ selected \notin Tabs)
    BY DEF appVars, tabVars
  <2>1. CASE RunFallback
    BY <2>1 DEF RunFallback, FallbackIsForThisList
  <2>2. CASE ReplaceList
    BY <2>2 DEF ReplaceList, Render
  <2>3. CASE OpenTabs \/ CloseTabs \/ UNCHANGED tabVars
    BY <2>3 DEF OpenTabs, CloseTabs, tabVars
  <2> QED BY <2>1, <2>2, <2>3 DEF AppNext, OpenSession, BackToIndex
<1> QED BY <1>1, <1>2, FallbackInvariant, PTL DEF AppSpec, TheChosenTabStays

-----------------------------------------------------------------------------
(* The least and the greatest                                              *)

\* A set of numbers that is not empty has a least one.
LEMMA LeastNatural ==
  ASSUME NEW T \in SUBSET Nat, T # {}
  PROVE  \E m \in T : \A n \in T : m <= n
<1> DEFINE R == OpToRel(<, Nat)
<1>1. IsWellFoundedOn(R, Nat)
  BY NatLessThanWellFounded
<1>2. \A m, n \in Nat : m < n => <<m, n>> \in R
  BY SMT DEF OpToRel
<1> HIDE DEF R
<1>3. PICK m \in T : \A n \in T : ~ (<<n, m>> \in R)
  BY <1>1, WFMin
<1>4. \A n \in T : ~ (n < m)
  BY <1>2, <1>3, Zenon
<1> QED BY <1>4

LEMMA MinIsThere ==
  ASSUME NEW T \in SUBSET Nat, T # {}
  PROVE  Min(T) \in T /\ \A n \in T : Min(T) <= n
BY LeastNatural DEF Min

\* A bound that is least is there itself.
LEMMA MaxIsThere ==
  ASSUME NEW T \in SUBSET Nat, T # {}, NEW b \in Nat, \A n \in T : n <= b
  PROVE  Max(T) \in T /\ \A n \in T : Max(T) >= n
<1> DEFINE B == {m \in Nat : \A n \in T : n <= m}
<1>1. PICK m \in B : \A n \in B : m <= n
  <2>1. b \in B
    OBVIOUS
  <2> HIDE DEF B
  <2> QED BY <2>1, LeastNatural DEF B
<1>2. m \in Nat /\ \A n \in T : n <= m
  OBVIOUS
<1>3. m \in T
  <2> SUFFICES ASSUME m \notin T PROVE FALSE
    OBVIOUS
  <2>1. \A n \in T : n <= m - 1
    BY <1>2
  <2>2. m - 1 \in Nat
    <3>1. PICK n \in T : TRUE
      OBVIOUS
    <3>2. n \in Nat /\ n <= m - 1
      BY <2>1, <3>1
    <3> QED BY <1>2, <3>2
  <2>3. m - 1 \in B
    BY <2>1, <2>2
  <2> HIDE DEF B
  <2> QED BY <1>1, <1>2, <2>3
<1>4. \E x \in T : \A n \in T : x >= n
  BY <1>2, <1>3
<1> QED BY <1>4 DEF Max

\* A function on 1 .. k has a bound.
LEMMA BoundedFamily ==
  ASSUME NEW k \in Nat, NEW f \in [1 .. k -> Nat]
  PROVE  \E b \in Nat : \A i \in 1 .. k : f[i] <= b
<1> DEFINE Has(j) == \E b \in Nat : \A i \in 1 .. j : f[i] <= b
           Lacking == {j \in 0 .. k : ~Has(j)}
<1>0. SUFFICES ASSUME Lacking # {} PROVE FALSE
  <2>1. ASSUME Has(k) PROVE \E b \in Nat : \A i \in 1 .. k : f[i] <= b
    BY <2>1
  <2>2. k \in 0 .. k
    OBVIOUS
  <2> HIDE DEF Has
  <2>3. Lacking = {} => Has(k)
    BY <2>2
  <2> QED BY <2>1, <2>3
<1>1. PICK j \in Lacking : \A n \in Lacking : j <= n
  <2>1. Lacking \in SUBSET Nat
    <3> HIDE DEF Has
    <3> QED OBVIOUS
  <2> HIDE DEF Lacking
  <2> QED BY <1>0, <2>1, LeastNatural
<1>2. j \in 0 .. k /\ j # 0 /\ ~Has(j)
  <2>1. Has(0)
    <3>1. \A i \in 1 .. 0 : f[i] <= 0
      OBVIOUS
    <3> QED BY <3>1
  <2> HIDE DEF Has
  <2> QED BY <2>1
<1>3. PICK b \in Nat : \A i \in 1 .. j - 1 : f[i] <= b
  <2>1. j - 1 \in 0 .. k /\ j - 1 < j /\ j - 1 \in Nat /\ j \in Nat
    BY <1>2
  <2>2. Has(j - 1)
    <3> HIDE DEF Has
    <3> QED BY <1>1, <2>1
  <2> QED BY <2>2
<1>4. j \in 1 .. k /\ f[j] \in Nat
  <2> HIDE DEF Has, Lacking
  <2>1. j \in 1 .. k
    BY <1>2
  <2> QED BY <2>1
<1>5. PICK c \in Nat : f[j] <= c /\ b <= c
  <2>1. f[j] <= f[j] + b /\ b <= f[j] + b /\ f[j] + b \in Nat
    BY <1>4
  <2> QED BY <2>1
<1>6. \A i \in 1 .. j : f[i] <= c
  BY <1>3, <1>4, <1>5
<1>7. Has(j)
  BY <1>6
<1> QED BY <1>2, <1>7

-----------------------------------------------------------------------------
(* Names of directories                                                    *)

\* The nearest depth parents, or all of them where there are no more.
LEMMA SuffixFacts ==
  ASSUME NEW S, NEW s \in Seq(S), NEW depth \in Nat
  PROVE  /\ Len(s) <= depth => ParentSuffix(s, depth) = s
         /\ Len(s) > depth => Len(ParentSuffix(s, depth)) = depth
         /\ Len(ParentSuffix(s, depth)) <= depth
<1> DEFINE n == Len(s) - depth
           m == Max({n, 0})
<1>1. n \in Int /\ Len(s) \in Nat
  OBVIOUS
<1>2. m = IF n >= 0 THEN n ELSE 0
  <2> HIDE DEF n
  <2> QED BY <1>1 DEF Max
<1>3. ParentSuffix(s, depth) = SubSeq(s, m + 1, Len(s))
  BY Zenon DEF ParentSuffix
<1> HIDE DEF m
<1>4. CASE Len(s) <= depth
  <2>1. m + 1 = 1
    BY <1>1, <1>2, <1>4
  <2>2. ParentSuffix(s, depth) = s
    BY <1>3, <2>1, SubSeqFull
  <2> QED BY <1>4, <2>2
<1>5. CASE Len(s) > depth
  <2>1. m + 1 = Len(s) - depth + 1
    BY <1>1, <1>2, <1>5
  <2>2. m + 1 \in 1 .. Len(s) + 1
    BY <1>1, <1>5, <2>1
  <2>3. Len(SubSeq(s, m + 1, Len(s))) = IF m + 1 <= Len(s) THEN Len(s) - (m + 1) + 1 ELSE 0
    BY <1>1, <2>2, SubSeqProperties
  <2>4. Len(ParentSuffix(s, depth)) = depth
    BY <1>1, <1>3, <1>5, <2>1, <2>3
  <2> QED BY <1>1, <1>5, <2>4
<1> QED BY <1>1, <1>4, <1>5

\* A path is cut into one name at least.
LEMMA PartsType ==
  ASSUME NEW c \in Paths
  PROVE  /\ SplitPathParts(c) \in Seq(Segments \cup {Root}) /\ SplitPathParts(c) # <<>>
         /\ ParentSegments(c) \in Seq(Segments \cup {Root})
<1>1. c.segments \in Seq(Segments)
  BY DEF Paths
<1>2. SplitPathParts(c) \in Seq(Segments \cup {Root}) /\ SplitPathParts(c) # <<>>
  <2>1. c.segments \in Seq(Segments \cup {Root})
    BY <1>1, SeqMonotonic
  <2>2. <<Root>> \in Seq(Segments \cup {Root}) /\ <<Root>> # <<>>
    OBVIOUS
  <2> QED BY <2>1, <2>2 DEF SplitPathParts
<1>3. Len(SplitPathParts(c)) \in Nat \ {0}
  BY <1>2
<1> QED BY <1>2, <1>3, SubSeqProperties DEF ParentSegments, Front

\* A label and its parents are the whole path.
LEMMA SamePath ==
  ASSUME NEW c \in Paths, NEW d \in Paths, LabelOf(c) = LabelOf(d),
         ParentSegments(c) = ParentSegments(d)
  PROVE  c.segments = d.segments
<1> DEFINE s == SplitPathParts(c)
           t == SplitPathParts(d)
<1>1. /\ s \in Seq(Segments \cup {Root}) /\ s # <<>>
      /\ t \in Seq(Segments \cup {Root}) /\ t # <<>>
  BY PartsType
<1>2. s[Len(s)] = t[Len(t)] /\ SubSeq(s, 1, Len(s) - 1) = SubSeq(t, 1, Len(t) - 1)
  BY DEF LabelOf, ParentSegments, Last, Front
<1>3. s = t
  <2> HIDE DEF s, t
  <2>1. Len(s) \in Nat \ {0} /\ Len(t) \in Nat \ {0}
    BY <1>1
  <2>2. Len(SubSeq(s, 1, Len(s) - 1)) = Len(s) - 1 /\ Len(SubSeq(t, 1, Len(t) - 1)) = Len(t) - 1
    <3>1. ASSUME NEW u \in Seq(Segments \cup {Root}), Len(u) \in Nat \ {0}
          PROVE  Len(SubSeq(u, 1, Len(u) - 1)) = Len(u) - 1
      <4>1. \A i \in 1 .. Len(u) - 1 : u[i] \in Segments \cup {Root}
        BY <3>1
      <4>2. Len(SubSeq(u, 1, Len(u) - 1)) = IF 1 <= Len(u) - 1 THEN Len(u) - 1 - 1 + 1 ELSE 0
        BY <3>1, <4>1, SubSeqProperties
      <4> DEFINE l == Len(SubSeq(u, 1, Len(u) - 1))
                 n == Len(u)
      <4>3. l = (IF 1 <= n - 1 THEN n - 1 - 1 + 1 ELSE 0) /\ n \in Nat \ {0}
        BY <3>1, <4>2
      <4> HIDE DEF l, n
      <4>4. l = n - 1
        BY <4>3
      <4> QED BY <4>4 DEF l, n
    <3> QED BY <1>1, <2>1, <3>1
  <2>3. Len(s) = Len(t)
    BY <1>2, <2>1, <2>2
  <2>4. \A i \in 1 .. Len(s) - 1 : s[i] = t[i]
    <3>1. \A i \in 1 .. Len(s) - 1 : /\ SubSeq(s, 1, Len(s) - 1)[i] = s[i]
                                     /\ SubSeq(t, 1, Len(t) - 1)[i] = t[i]
        BY <1>1, <2>1, <2>3, SubSeqProperties
    <3> QED BY <1>2, <3>1
  <2>5. \A i \in 1 .. Len(s) : s[i] = t[i]
    BY <1>2, <2>1, <2>3, <2>4
  <2> QED BY <1>1, <2>3, <2>5
<1>4. c.segments \in Seq(Segments) /\ d.segments \in Seq(Segments)
  BY DEF Paths
<1>5. <<Root>> \notin Seq(Segments)
  <2> SUFFICES ASSUME <<Root>> \in Seq(Segments) PROVE FALSE
    OBVIOUS
  <2>1. <<Root>>[1] \in Segments
    BY ElementOfSeq, Len(<<Root>>) = 1
  <2> QED BY <2>1, RootAssumption
<1> QED BY <1>3, <1>4, <1>5 DEF SplitPathParts

-----------------------------------------------------------------------------
(* The tabs of a list                                                      *)

\* The depths at which no other directory of the name has the same parents.
UniqueDepths(target, duplicates) ==
  {depth \in 1 .. Max({Len(ParentSegments(d)) : d \in duplicates}) :
     /\ ParentSuffix(ParentSegments(target), depth) # <<>>
     /\ \A d \in duplicates \ {target} :
          ParentSuffix(ParentSegments(d), depth) # ParentSuffix(ParentSegments(target), depth)}

\* The context of a directory is at its least unique depth, or all of its parents.
LEMMA ContextOf ==
  ASSUME NEW duplicates, NEW c, UniqueDepths(c, duplicates) \in SUBSET Nat
  PROVE  \/ /\ UniqueDepths(c, duplicates) = {}
            /\ FindUniqueParentContext(c, duplicates) = ParentSegments(c)
         \/ \E m \in UniqueDepths(c, duplicates) :
               FindUniqueParentContext(c, duplicates) = ParentSuffix(ParentSegments(c), m)
<1> DEFINE U == UniqueDepths(c, duplicates)
<1>1. FindUniqueParentContext(c, duplicates) =
        IF U = {} THEN ParentSegments(c) ELSE ParentSuffix(ParentSegments(c), Min(U))
  BY Zenon DEF FindUniqueParentContext, UniqueDepths
<1>2. U # {} => Min(U) \in U
  BY MinIsThere
<1> HIDE DEF U
<1>3. CASE U = {}
  BY <1>1, <1>3 DEF U
<1>4. CASE U # {}
  BY <1>1, <1>2, <1>4 DEF U
<1> QED BY <1>3, <1>4

\* Directories of one name with the same context have the same parents.
LEMMA ContextsTellApart ==
  ASSUME NEW duplicates, duplicates \subseteq Paths, NEW c \in duplicates, NEW d \in duplicates,
         c # d, \A e \in {c, d} : UniqueDepths(e, duplicates) \in SUBSET Nat,
         FindUniqueParentContext(c, duplicates) = FindUniqueParentContext(d, duplicates)
  PROVE  ParentSegments(c) = ParentSegments(d)
<1> DEFINE Suffix(e, n) == ParentSuffix(ParentSegments(e), n)
           Parents == Segments \cup {Root}
<1>1. \A e \in {c, d} : \A n \in UniqueDepths(e, duplicates) :
        n \in Nat /\ \A f \in {c, d} \ {e} : Suffix(f, n) # Suffix(e, n)
  BY DEF UniqueDepths
<1>2. \A e \in {c, d} : ParentSegments(e) \in Seq(Parents)
  BY PartsType
<1>3. \A e \in {c, d} : \A n \in Nat :
        /\ Len(ParentSegments(e)) <= n => Suffix(e, n) = ParentSegments(e)
        /\ Len(ParentSegments(e)) > n => Len(Suffix(e, n)) = n
        /\ Len(Suffix(e, n)) <= n
  BY <1>2, SuffixFacts
<1>4. \A e \in {c, d} : Len(ParentSegments(e)) \in Nat
  BY <1>2
<1> HIDE DEF Suffix
<1>5. ASSUME NEW e \in {c, d}, NEW f \in {c, d}, e # f,
             NEW m \in UniqueDepths(e, duplicates), NEW n \in UniqueDepths(f, duplicates),
             Suffix(e, m) = Suffix(f, n), m <= n
      PROVE  FALSE
  <2>1. m \in Nat /\ n \in Nat
    BY <1>1
  <2>2. CASE m = n
    BY <1>1, <1>5, <2>2
  <2>3. CASE m < n
    <3>1. Len(Suffix(f, n)) <= m
      BY <1>3, <1>5, <2>1
    <3>2. Len(ParentSegments(f)) <= n /\ Suffix(f, n) = ParentSegments(f)
      <4>1. /\ Len(ParentSegments(f)) <= n => Suffix(f, n) = ParentSegments(f)
            /\ Len(ParentSegments(f)) > n => Len(Suffix(f, n)) = n
            /\ Len(ParentSegments(f)) \in Nat
        BY <1>3, <1>4, <2>1
      <4> QED BY <2>1, <2>3, <3>1, <4>1
    <3>3. Suffix(f, m) = ParentSegments(f)
      BY <1>3, <2>1, <3>1, <3>2
    <3> QED BY <1>1, <1>5, <3>2, <3>3
  <2> QED BY <1>5, <2>1, <2>2, <2>3
<1>6. ASSUME NEW e \in {c, d}, NEW f \in {c, d}, e # f,
             NEW n \in UniqueDepths(f, duplicates), ParentSegments(e) = Suffix(f, n)
      PROVE  FALSE
  <2>1. n \in Nat
    BY <1>1
  <2>2. Suffix(e, n) = ParentSegments(e)
    BY <1>3, <1>6, <2>1
  <2> QED BY <1>1, <1>6, <2>2
<1>7. \A e \in {c, d} :
        \/ FindUniqueParentContext(e, duplicates) = ParentSegments(e)
        \/ \E m \in UniqueDepths(e, duplicates) :
             FindUniqueParentContext(e, duplicates) = Suffix(e, m)
  BY ContextOf DEF Suffix
<1>8. CASE \E m \in UniqueDepths(c, duplicates), n \in UniqueDepths(d, duplicates) :
             Suffix(c, m) = Suffix(d, n)
  <2>1. PICK m \in UniqueDepths(c, duplicates), n \in UniqueDepths(d, duplicates) :
          Suffix(c, m) = Suffix(d, n)
    BY <1>8
  <2>2. m \in Nat /\ n \in Nat /\ (m <= n \/ n <= m)
    BY <1>1
  <2> QED BY <1>5, <2>1, <2>2
<1>9. CASE \/ \E n \in UniqueDepths(d, duplicates) : ParentSegments(c) = Suffix(d, n)
           \/ \E n \in UniqueDepths(c, duplicates) : ParentSegments(d) = Suffix(c, n)
  BY <1>6, <1>9
<1> QED BY <1>7, <1>8, <1>9, Zenon

\* The directories of a list.
LEMMA GroupsType ==
  ASSUME NEW l \in Seq(Sessions)
  PROVE  /\ \A i \in DOMAIN l : NormalizeCwd(l[i].cwd) \in Paths \cup {NoCwd}
         /\ DirectoryGroups(l) \subseteq Paths
<1>1. ASSUME NEW i \in DOMAIN l PROVE NormalizeCwd(l[i].cwd) \in Paths \cup {NoCwd}
  <2>1. l[i] \in Sessions
    BY <1>1
  <2>2. l[i].cwd \in Paths \cup {BlankCwd, NoCwd}
    BY <2>1 DEF Sessions
  <2> QED BY <2>2 DEF NormalizeCwd, Paths
<1> QED BY <1>1 DEF DirectoryGroups

\* A list has so many directories at most that one has the most parents.
LEMMA DepthsAreNatural ==
  ASSUME NEW l \in Seq(Sessions), NEW duplicates, duplicates \subseteq DirectoryGroups(l),
         duplicates # {}, NEW e
  PROVE  UniqueDepths(e, duplicates) \in SUBSET Nat
<1> DEFINE depths == {Len(ParentSegments(d)) : d \in duplicates}
<1>1. ASSUME NEW d \in DirectoryGroups(l) PROVE Len(ParentSegments(d)) \in Nat
  BY <1>1, GroupsType, PartsType
<1> DEFINE depth == [i \in 1 .. Len(l) |->
                      IF NormalizeCwd(l[i].cwd) \in duplicates
                      THEN Len(ParentSegments(NormalizeCwd(l[i].cwd))) ELSE 0]
<1>2. depth \in [1 .. Len(l) -> Nat] /\ Len(l) \in Nat
  BY <1>1
<1>3. PICK b \in Nat : \A i \in 1 .. Len(l) : depth[i] <= b
  <2> HIDE DEF depth
  <2> QED BY <1>2, BoundedFamily
<1>4. \A n \in depths : n <= b
  <2>1. ASSUME NEW d \in duplicates PROVE Len(ParentSegments(d)) <= b
    <3>1. PICK i \in 1 .. Len(l) : d = NormalizeCwd(l[i].cwd)
      BY DEF DirectoryGroups
    <3> QED BY <1>3, <3>1
  <2> QED BY <2>1
<1>5. depths \in SUBSET Nat /\ depths # {}
  BY <1>1
<1>6. Max(depths) \in Nat
  <2> HIDE DEF depths
  <2> QED BY <1>4, <1>5, MaxIsThere
<1> QED BY <1>6 DEF UniqueDepths

\* Two tabs with the same words on them are of one directory.
LEMMA LabelsTellApart ==
  ASSUME NEW l \in Seq(Sessions), NEW c \in DirectoryGroups(l), NEW d \in DirectoryGroups(l),
         DisplayLabel(DirectoryGroups(l), c) = DisplayLabel(DirectoryGroups(l), d)
  PROVE  c.segments = d.segments
<1> DEFINE groups == DirectoryGroups(l)
           D(e) == Duplicates(groups, e)
           Context(e) == IF D(e) = {e} THEN NoCwd ELSE FindUniqueParentContext(e, D(e))
<1>1. LabelOf(c) = LabelOf(d) /\ Context(c) = Context(d)
  <2>1. \A e \in groups : DisplayLabel(groups, e) = [label |-> LabelOf(e), context |-> Context(e)]
    BY DEF DisplayLabel
  <2> HIDE DEF Context
  <2> QED BY <2>1
<1>2. D(c) = D(d) /\ c \in D(c) /\ d \in D(c) /\ D(c) \subseteq groups
  BY <1>1 DEF Duplicates
<1>3. c \in Paths /\ d \in Paths /\ groups \subseteq Paths
  BY GroupsType
<1>4. CASE c = d
  BY <1>4
<1>5. CASE c # d
  <2>1. FindUniqueParentContext(c, D(c)) = FindUniqueParentContext(d, D(c))
    BY <1>1, <1>2, <1>5
  <2>2. \A e \in {c, d} : UniqueDepths(e, D(c)) \in SUBSET Nat
    <3> HIDE DEF D
    <3> QED BY <1>2, DepthsAreNatural
  <2>3. D(c) \subseteq Paths
    BY <1>2, <1>3
  <2> HIDE DEF D
  <2>4. ParentSegments(c) = ParentSegments(d)
    BY <1>2, <1>5, <2>1, <2>2, <2>3, ContextsTellApart
  <2> QED BY <1>1, <1>3, <2>4, SamePath
<1> QED BY <1>4, <1>5

\* Every session is under one tab besides "all".
LEMMA OneTabOfItsOwn ==
  ASSUME NEW l \in Seq(Sessions), NEW i \in DOMAIN l
  PROVE  \E t \in BuildTabs(l) \ {All} : {u \in BuildTabs(l) : i \in SessionsFor(l, u)} = {All, t}
<1> DEFINE cwd == NormalizeCwd(l[i].cwd)
<1>1. CASE cwd = NoCwd
  <2>1. IsUnset(l[i]) /\ Unset \in BuildTabs(l) \ {All}
    BY <1>1 DEF IsUnset, BuildTabs, Unset, All
  <2>2. ASSUME NEW u \in BuildTabs(l) PROVE i \in SessionsFor(l, u) <=> u \in {All, Unset}
    <3>1. CASE u \in {All, Unset}
      BY <2>1, <3>1 DEF SessionsFor, All, Unset
    <3>2. CASE \E c \in DirectoryGroups(l) : u = DirectoryKey(c)
      BY <1>1, <3>2 DEF SessionsFor, DirectoryKey, All, Unset, DirectoryGroups
    <3> QED BY <3>1, <3>2 DEF BuildTabs
  <2>3. All \in BuildTabs(l)
    BY DEF BuildTabs
  <2> QED BY <2>1, <2>2, <2>3
<1>2. CASE cwd # NoCwd
  <2>1. /\ cwd \in DirectoryGroups(l) /\ DirectoryKey(cwd) \in BuildTabs(l) \ {All}
        /\ ~IsUnset(l[i])
    BY <1>2 DEF IsUnset, BuildTabs, DirectoryKey, All, DirectoryGroups
  <2>2. ASSUME NEW u \in BuildTabs(l)
        PROVE  i \in SessionsFor(l, u) <=> u \in {All, DirectoryKey(cwd)}
    <3>1. CASE u = All
      BY <3>1 DEF SessionsFor, All
    <3>2. CASE u = Unset
      BY <2>1, <3>2 DEF SessionsFor, Unset, DirectoryKey, All
    <3>3. CASE \E c \in DirectoryGroups(l) : u = DirectoryKey(c)
      BY <3>3 DEF SessionsFor, DirectoryKey, All
    <3> QED BY <3>1, <3>2, <3>3 DEF BuildTabs
  <2>3. All \in BuildTabs(l)
    BY DEF BuildTabs
  <2> HIDE DEF cwd
  <2> QED BY <2>1, <2>2, <2>3
<1> QED BY <1>1, <1>2

\* No tab is empty.
LEMMA NoTabIsEmpty ==
  ASSUME NEW l \in Seq(Sessions) \ {<<>>}, NEW t \in BuildTabs(l)
  PROVE  SessionsFor(l, t) # {}
<1>1. 1 \in DOMAIN l
  OBVIOUS
<1>2. CASE t = All
  BY <1>1, <1>2 DEF SessionsFor, All
<1>3. CASE t = Unset /\ t # All
  BY <1>3 DEF SessionsFor, BuildTabs, DirectoryKey, Unset, All
<1>4. CASE \E c \in DirectoryGroups(l) : t = DirectoryKey(c)
  BY <1>4 DEF SessionsFor, DirectoryKey, DirectoryGroups
<1> QED BY <1>2, <1>3, <1>4 DEF BuildTabs

\* Whatever list comes, its tabs tell its directories apart.
LEMMA ListsAreToldApart == \A l \in Seq(Sessions) \ {<<>>} : TellsApart(l)
<1> SUFFICES ASSUME NEW l \in Seq(Sessions) \ {<<>>} PROVE TellsApart(l)
  OBVIOUS
<1> QED BY LabelsTellApart, OneTabOfItsOwn, NoTabIsEmpty DEF TellsApart

\* Two tabs with the same words on them are of one directory, every session is under
\* one tab besides "all", and no tab is empty.
THEOREM TabsCorrect == AppSpec => []TabsTellDirectoriesApart
<1>1. TabsTellDirectoriesApart
  BY ListsAreToldApart, ListingsAssumption DEF TabsTellDirectoriesApart
<1> QED BY <1>1, PTL

-----------------------------------------------------------------------------
(* What is open on the detail page                                         *)

\* The state of the components: all the parts of a detail in sight, and no other.
PartsTyped ==
  /\ parts = NoParts <=> ~HasDetail
  /\ HasDetail =>
       /\ parts = [visibility |-> parts.visibility, tools |-> parts.tools,
                   expanded |-> parts.expanded]
       /\ parts.visibility \in ChoiceStates(DOMAIN Entries[Shown])
       /\ parts.tools = [n \in DOMAIN Entries[Shown] |-> parts.tools[n]]
       /\ \A n \in DOMAIN Entries[Shown] : parts.tools[n] \in ChoiceStates(ToolPlaces(n))
       /\ parts.expanded \subseteq Sections(Shown)

\* A detail is shown under the id of the session in the route.
LEMMA ShownIsTheRoute ==
  ASSUME DetailInvariant, HasDetail
  PROVE  Shown = route /\ Shown \in SessionIds
BY Kinds DEF DetailInvariant, TypeOK, DetailIsOfItsSession, HasDetail, InSight, Shown

\* A step of the hook from a detail to a detail stays with the session.
LEMMA DetailStays ==
  ASSUME DetailInvariant, DetailInvariant', HasDetail, HasDetail', Next
  PROVE  route' = route /\ Shown' = Shown
<1>1. route' = route
  <2>1. ASSUME NEW id \in SessionIds, ChangeRoute(id) PROVE FALSE
    BY <2>1 DEF ChangeRoute, HasDetail, InSight
  <2>2. ASSUME NEW id \in SessionIds, Mount(id) PROVE FALSE
    BY <2>2 DEF Mount, HasDetail
  <2>3. ~Unmount
    BY DEF Unmount, HasDetail
  <2>4. ASSUME NEW r \in Requests, RequestRaw(r) \/ Serve(r) \/ Settle(r) PROVE route' = route
    BY <2>4 DEF RequestRaw, Serve, Settle
  <2> QED BY <2>1, <2>2, <2>3, <2>4 DEF Next
<1>2. Shown = route
  BY ShownIsTheRoute
<1>3. Shown' = route'
  BY Kinds DEF DetailInvariant, TypeOK, DetailIsOfItsSession, HasDetail, InSight, Shown
<1> QED BY <1>1, <1>2, <1>3

\* Components that stay keep all of their state.
LEMMA ReconcileKeeps ==
  ASSUME PartsTyped, HasDetail, HasDetail', Shown' = Shown, Reconcile
  PROVE  parts' = parts
<1>1. parts.expanded \cap Sections(Shown) \cap Sections(Shown') = parts.expanded
  BY DEF PartsTyped
<1>2. [n \in DOMAIN Entries[Shown'] |->
         IF n \in DOMAIN parts.tools THEN parts.tools[n] ELSE NoChoice] = parts.tools
  <2>1. parts.tools = [n \in DOMAIN Entries[Shown] |-> parts.tools[n]]
    BY DEF PartsTyped
  <2>2. DOMAIN parts.tools = DOMAIN Entries[Shown]
    BY <2>1
  <2> QED BY <2>1, <2>2
<1>3. parts' = [visibility |-> parts.visibility, tools |-> parts.tools,
                expanded |-> parts.expanded]
  BY <1>1, <1>2 DEF Reconcile
<1> QED BY <1>3 DEF PartsTyped

\* A choice is of what there is to choose.
LEMMA ChoicesType ==
  ASSUME NEW keys
  PROVE  /\ NoChoice \in ChoiceStates(keys)
         /\ \A state \in ChoiceStates(keys), key \in keys, value \in BOOLEAN :
              Shown \in SessionIds => Chosen(state, key, value) \in ChoiceStates(keys)
<1>1. NoChoice \in ChoiceStates(keys)
  BY DEF ChoiceStates
<1>2. ASSUME NEW state \in ChoiceStates(keys), NEW key \in keys, NEW value \in BOOLEAN,
             Shown \in SessionIds
      PROVE  Chosen(state, key, value) \in ChoiceStates(keys)
  <2> DEFINE old == IF state.scope = Shown THEN state.chosen ELSE <<>>
             new == [k \in DOMAIN old \cup {key} |-> IF k = key THEN value ELSE old[k]]
  <2>1. \E K \in SUBSET keys : old \in [K -> BOOLEAN]
    <3>1. <<>> \in [{} -> BOOLEAN]
      OBVIOUS
    <3>2. CASE state = NoChoice
      BY <3>1, <3>2 DEF NoChoice
    <3>3. CASE state # NoChoice
      BY <3>1, <3>3 DEF ChoiceStates
    <3> QED BY <3>2, <3>3
  <2>2. PICK K \in SUBSET keys : old \in [K -> BOOLEAN]
    BY <2>1
  <2> HIDE DEF old
  <2>3. new \in [K \cup {key} -> BOOLEAN]
    BY <2>2
  <2>4. new \in UNION {[L -> BOOLEAN] : L \in SUBSET keys}
    <3> HIDE DEF new
    <3>1. K \cup {key} \in SUBSET keys
      OBVIOUS
    <3> QED BY <2>3, <3>1
  <2>5. Chosen(state, key, value) = [scope |-> Shown, chosen |-> new]
    BY DEF Chosen, old
  <2> HIDE DEF new
  <2> QED BY <1>2, <2>4, <2>5 DEF ChoiceStates
<1> QED BY <1>1, <1>2

\* Components are never the lack of them.
LEMMA WholeIsNotEmpty ==
  ASSUME NEW v, NEW t, NEW e
  PROVE  [visibility |-> v, tools |-> t, expanded |-> e] # NoParts
<1>1. "tools" \in DOMAIN [visibility |-> v, tools |-> t, expanded |-> e]
  OBVIOUS
<1>2. "tools" \notin DOMAIN NoParts
  BY DEF NoParts
<1> QED BY <1>1, <1>2

\* A detail that comes in sight.
LEMMA FreshStep ==
  ASSUME HasDetail', parts' = FreshParts(Shown')
  PROVE  PartsTyped'
<1> DEFINE none == [n \in DOMAIN Entries[Shown'] |-> NoChoice]
<1>1. parts' = [visibility |-> NoChoice, tools |-> none, expanded |-> {}]
  BY DEF FreshParts
<1>2. /\ parts'.visibility = NoChoice /\ parts'.tools = none /\ parts'.expanded = {}
      /\ parts' = [visibility |-> parts'.visibility, tools |-> parts'.tools,
                   expanded |-> parts'.expanded]
      /\ \A n \in DOMAIN Entries[Shown'] : parts'.tools[n] = NoChoice
      /\ parts'.tools = [n \in DOMAIN Entries[Shown'] |-> parts'.tools[n]]
  BY <1>1
<1>3. parts' # NoParts
  BY <1>1, WholeIsNotEmpty
<1> QED BY <1>2, <1>3, ChoicesType DEF PartsTyped

\* No step of the hook disturbs the parts, and React keeps or renews them.
LEMMA ReconcileStep ==
  ASSUME DetailInvariant, DetailInvariant', PartsTyped, Next, Reconcile
  PROVE  PartsTyped'
<1>1. CASE ~HasDetail'
  BY <1>1 DEF Reconcile, PartsTyped
<1>2. CASE HasDetail' /\ ~HasDetail
  BY <1>2, FreshStep DEF Reconcile
<1>3. CASE HasDetail' /\ HasDetail
  <2>1. Shown' = Shown /\ parts' = parts
    BY <1>3, DetailStays, ReconcileKeeps
  <2>2. \A n : ToolPlaces(n)' = ToolPlaces(n)
    BY <2>1 DEF ToolPlaces
  <2> QED BY <1>3, <2>1, <2>2 DEF PartsTyped
<1> QED BY <1>1, <1>2, <1>3

LEMMA OpenIsBoolean ==
  ASSUME NEW n, NEW k
  PROVE  (~IsVisible(n)) \in BOOLEAN /\ (~IsExpanded(n, k)) \in BOOLEAN
<1>1. (~IsVisible(n)) = TRUE \/ (~IsVisible(n)) = FALSE
  BY Zenon
<1>2. (~IsExpanded(n, k)) = TRUE \/ (~IsExpanded(n, k)) = FALSE
  BY Zenon
<1> QED BY <1>1, <1>2

\* The reader opens or closes one part.
LEMMA ToggleStep ==
  ASSUME DetailInvariant, PartsTyped, ReaderToggles
  PROVE  PartsTyped'
<1> DEFINE places == DOMAIN Entries[Shown]
<1>1. HasDetail /\ Shown \in SessionIds
  BY ShownIsTheRoute DEF ReaderToggles
<1>2. UNCHANGED vars
  BY DEF ReaderToggles, ToggleEntry, ToggleTool, ToggleSection
<1>3. Shown' = Shown /\ HasDetail' /\ \A n : ToolPlaces(n)' = ToolPlaces(n)
  BY <1>1, <1>2 DEF vars, Shown, HasDetail, InSight, ToolPlaces
<1>4. /\ parts = [visibility |-> parts.visibility, tools |-> parts.tools,
                  expanded |-> parts.expanded]
      /\ parts.visibility \in ChoiceStates(places)
      /\ parts.tools = [n \in places |-> parts.tools[n]]
      /\ \A n \in places : parts.tools[n] \in ChoiceStates(ToolPlaces(n))
      /\ parts.expanded \subseteq Sections(Shown)
  BY <1>1 DEF PartsTyped
<1>5. ASSUME NEW v \in ChoiceStates(places), NEW t, NEW e \in SUBSET Sections(Shown),
             t = [n \in places |-> t[n]],
             \A n \in places : t[n] \in ChoiceStates(ToolPlaces(n)),
             parts' = [visibility |-> v, tools |-> t, expanded |-> e]
      PROVE  PartsTyped'
  <2>1. parts' # NoParts
    BY <1>5, WholeIsNotEmpty
  <2>2. /\ parts'.visibility = v /\ parts'.tools = t /\ parts'.expanded = e
        /\ parts' = [visibility |-> parts'.visibility, tools |-> parts'.tools,
                     expanded |-> parts'.expanded]
    BY <1>5
  <2> QED BY <1>3, <1>5, <2>1, <2>2 DEF PartsTyped
<1>6. ASSUME NEW n \in places, ToggleEntry(n) PROVE PartsTyped'
  <2> DEFINE v == Chosen(parts.visibility, n, ~IsVisible(n))
             t == [parts.tools EXCEPT ![n] = NoChoice]
  <2>1. parts' = [parts EXCEPT !.visibility = v, !.tools[n] = NoChoice]
    BY <1>6 DEF ToggleEntry
  <2>2. v \in ChoiceStates(places)
    BY <1>1, <1>4, ChoicesType, OpenIsBoolean
  <2>3. \A m \in places : t[m] \in ChoiceStates(ToolPlaces(m))
    BY <1>4, ChoicesType
  <2>4. t = [m \in places |-> t[m]]
    BY <1>4
  <2> HIDE DEF v
  <2>5. parts' = [visibility |-> v, tools |-> t, expanded |-> parts.expanded]
    BY <1>4, <2>1
  <2> HIDE DEF t
  <2> QED BY <1>4, <1>5, <2>2, <2>3, <2>4, <2>5
<1>7. ASSUME NEW n \in places, NEW k \in ToolPlaces(n), ToggleTool(n, k) PROVE PartsTyped'
  <2> DEFINE new == Chosen(parts.tools[n], k, ~IsExpanded(n, k))
             t == [parts.tools EXCEPT ![n] = new]
  <2>1. parts' = [parts EXCEPT !.tools[n] = new]
    BY <1>7 DEF ToggleTool
  <2>2. new \in ChoiceStates(ToolPlaces(n))
    BY <1>1, <1>4, ChoicesType, OpenIsBoolean
  <2> HIDE DEF new
  <2>3. \A m \in places : t[m] \in ChoiceStates(ToolPlaces(m))
    BY <1>4, <2>2
  <2>4. t = [m \in places |-> t[m]]
    BY <1>4
  <2>5. parts' = [visibility |-> parts.visibility, tools |-> t, expanded |-> parts.expanded]
    BY <1>4, <2>1
  <2> HIDE DEF t
  <2> QED BY <1>4, <1>5, <2>3, <2>4, <2>5
<1>8. ASSUME NEW s, ToggleSection(s) PROVE PartsTyped'
  <2> DEFINE e == IF s \in parts.expanded THEN parts.expanded \ {s} ELSE parts.expanded \cup {s}
  <2>1. parts' = [parts EXCEPT !.expanded = e] /\ s \in Sections(Shown)
    BY <1>8 DEF ToggleSection
  <2>2. e \in SUBSET Sections(Shown)
    BY <1>4, <2>1
  <2> HIDE DEF e
  <2>3. parts' = [visibility |-> parts.visibility, tools |-> parts.tools, expanded |-> e]
    BY <1>4, <2>1
  <2> QED BY <1>4, <1>5, <2>2, <2>3
<1> QED BY <1>6, <1>7, <1>8 DEF ReaderToggles

-----------------------------------------------------------------------------
(* Both pages                                                              *)

\* Behind the detail there is no list, and no fallback is due.
NothingBehindTheDetail == selected = NoTab => list = NoTab /\ fallback = NoTab
TabsAreOurs == TabsTypeOK /\ NothingBehindTheDetail

\* Every list has tabs of known kinds only.
LEMMA TabsAreKeys == ASSUME TabsTypeOK PROVE Tabs \subseteq Keys
<1>1. ASSUME NEW l \in Lists PROVE BuildTabs(l) \subseteq Keys
  <2>1. DirectoryGroups(l) \subseteq Paths
    BY ListAssumption, GroupsType
  <2> QED BY <2>1 DEF BuildTabs, Keys, DirectoryKey
<1> QED BY <1>1 DEF Tabs, TabsTypeOK

\* A render leaves the tabs typed.
LEMMA RenderType ==
  ASSUME NEW l \in Lists \cup {NoTab}, NEW key \in Keys, Render(l, key)
  PROVE  TabsAreOurs' /\ selected' # NoTab
BY NoTabAssumption DEF Render, Fallback, Coerced, TabsAreOurs, TabsTypeOK, NothingBehindTheDetail

\* So do the steps of the tabs, which are taken on the index page only.
LEMMA TabsStep ==
  ASSUME TabsAreOurs, ReplaceList \/ ReaderSelects \/ RunFallback
  PROVE  TabsAreOurs' /\ selected # NoTab /\ selected' # NoTab
<1>1. CASE ReplaceList
  <2>1. PICK l \in Lists \cup {NoTab} : Render(l, selected)
    BY <1>1 DEF ReplaceList
  <2>2. selected # NoTab /\ selected \in Keys
    BY <1>1 DEF ReplaceList, TabsAreOurs, TabsTypeOK
  <2> QED BY <2>1, <2>2, RenderType
<1>2. ASSUME NEW key, SelectTab(key) PROVE TabsAreOurs' /\ selected # NoTab /\ selected' # NoTab
  <2>1. key \in Keys /\ Tabs # {}
    BY <1>2, TabsAreKeys DEF SelectTab, TabsAreOurs
  <2>2. selected # NoTab /\ list \in Lists \cup {NoTab}
    BY <2>1 DEF Tabs, TabsAreOurs, TabsTypeOK, NothingBehindTheDetail
  <2> QED BY <1>2, <2>1, <2>2, RenderType DEF SelectTab
<1>3. CASE ReaderSelects
  BY <1>2, <1>3 DEF ReaderSelects, ArrowKey
<1>4. CASE RunFallback
  <2>1. fallback \in Keys /\ selected # NoTab /\ list \in Lists \cup {NoTab}
    BY <1>4 DEF RunFallback, TabsAreOurs, TabsTypeOK, NothingBehindTheDetail, Keys
  <2> QED BY <1>4, <2>1, RenderType DEF RunFallback
<1> QED BY <1>1, <1>3, <1>4

\* One page at a time.
OnePage == route = None <=> selected # NoTab

AppInvariant == DetailInvariant /\ PartsTyped /\ TabsAreOurs /\ OnePage

\* AppInvariant is inductive.
LEMMA AppInvariantStep == AppInvariant /\ [AppNext]_appVars => AppInvariant'
<1> SUFFICES ASSUME AppInvariant, [AppNext]_appVars PROVE AppInvariant'
  OBVIOUS
<1> USE DEF AppInvariant
<1>1. DetailInvariant'
  BY AppStepsAreHookSteps, NextInvariant
<1>2. ASSUME UNCHANGED detailVars PROVE PartsTyped' /\ route' = route
  <2>1. UNCHANGED <<route, settled, parts>>
    BY <1>2 DEF detailVars, vars
  <2>2. Shown' = Shown /\ HasDetail' = HasDetail /\ \A n : ToolPlaces(n)' = ToolPlaces(n)
    BY <2>1 DEF Shown, HasDetail, InSight, ToolPlaces
  <2> QED BY <2>1, <2>2 DEF PartsTyped
<1>3. ASSUME UNCHANGED tabVars PROVE TabsAreOurs' /\ selected' = selected
  BY <1>3 DEF tabVars, TabsAreOurs, TabsTypeOK, NothingBehindTheDetail
<1>4. ASSUME NEW id \in SessionIds, OpenSession(id) PROVE AppInvariant'
  <2>1. Next /\ Reconcile /\ CloseTabs /\ route' = id
    BY <1>4 DEF OpenSession, VisitDetail, Mount, Next
  <2>2. TabsAreOurs' /\ OnePage'
    BY <2>1, Kinds DEF CloseTabs, TabsAreOurs, TabsTypeOK, NothingBehindTheDetail, OnePage
  <2> QED BY <1>1, <2>1, <2>2, ReconcileStep
<1>5. ASSUME NEW id \in SessionIds, ChangeDetail(id), UNCHANGED tabVars PROVE AppInvariant'
  <2>1. Next /\ Reconcile /\ route # None /\ route' = id
    BY <1>5 DEF ChangeDetail, ChangeRoute, Next
  <2>2. TabsAreOurs' /\ OnePage'
    BY <1>3, <1>5, <2>1, Kinds DEF OnePage
  <2> QED BY <1>1, <2>1, <2>2, ReconcileStep
<1>6. CASE BackToIndex
  <2>1. Next /\ Reconcile /\ OpenTabs /\ route' = None
    BY <1>6 DEF BackToIndex, LeaveDetail, Unmount, Next
  <2>2. TabsAreOurs' /\ selected' # NoTab
    <3>1. Render(NoTab, All) /\ All \in Keys
      BY <2>1 DEF OpenTabs, Keys
    <3> QED BY <3>1, RenderType
  <2> QED BY <1>1, <2>1, <2>2, ReconcileStep DEF OnePage
<1>7. ASSUME NEW r \in Requests, ClickRaw(r) \/ ServeDetail(r) \/ SettleDetail(r),
             UNCHANGED tabVars
      PROVE  AppInvariant'
  <2>1. Next /\ Reconcile /\ route' = route
    BY <1>7 DEF ClickRaw, ServeDetail, SettleDetail, RequestRaw, Serve, Settle, Next
  <2> QED BY <1>1, <1>3, <1>7, <2>1, ReconcileStep DEF OnePage
<1>8. CASE ReaderToggles /\ UNCHANGED tabVars
  <2>1. route' = route
    BY <1>8 DEF ReaderToggles, ToggleEntry, ToggleTool, ToggleSection, vars
  <2> QED BY <1>1, <1>3, <1>8, <2>1, ToggleStep DEF OnePage
<1>9. CASE (ReplaceList \/ ReaderSelects \/ RunFallback) /\ UNCHANGED detailVars
  BY <1>1, <1>2, <1>9, TabsStep DEF OnePage
<1>10. CASE UNCHANGED appVars
  BY <1>1, <1>2, <1>3, <1>10 DEF appVars, OnePage
<1> QED BY <1>4, <1>5, <1>6, <1>7, <1>8, <1>9, <1>10 DEF AppNext

\* The inductive invariant of the app holds in every reachable state.
THEOREM AppInvariantCorrect == AppSpec => []AppInvariant
<1>1. AppInit => AppInvariant
  <2> SUFFICES ASSUME AppInit PROVE AppInvariant
    OBVIOUS
  <2>1. Init /\ parts = NoParts /\ TabsInit
    BY DEF AppInit, DetailInit
  <2>2. DetailInvariant
    BY <2>1, InitInvariant
  <2>3. ~HasDetail /\ route = None
    BY <2>1 DEF Init, HasDetail
  <2>4. TabsAreOurs /\ selected # NoTab
    BY <2>1, NoTabAssumption DEF TabsInit, TabsAreOurs, TabsTypeOK, NothingBehindTheDetail, Keys
  <2> QED BY <2>1, <2>2, <2>3, <2>4 DEF AppInvariant, PartsTyped, OnePage
<1> QED BY <1>1, AppInvariantStep, PTL DEF AppSpec

\* Every variable of the app keeps its type, and there is one page at a time.
THEOREM AppTypeCorrect == AppSpec => []AppTypeOK
<1>1. AppInvariant => AppTypeOK
  <2> SUFFICES ASSUME AppInvariant PROVE AppTypeOK
    OBVIOUS
  <2>1. (parts = NoParts) = ~HasDetail
    <3>1. parts = NoParts <=> ~HasDetail
      BY DEF AppInvariant, PartsTyped
    <3> QED BY <3>1, Zenon
  <2>2. HasDetail =>
          /\ parts.visibility \in ChoiceStates(DOMAIN Entries[Shown])
          /\ DOMAIN parts.tools = DOMAIN Entries[Shown]
          /\ \A n \in DOMAIN Entries[Shown] : parts.tools[n] \in ChoiceStates(ToolPlaces(n))
          /\ parts.expanded \subseteq Sections(Shown)
    <3>1. HasDetail => parts.tools = [n \in DOMAIN Entries[Shown] |-> parts.tools[n]]
      BY DEF AppInvariant, PartsTyped
    <3>2. HasDetail => DOMAIN parts.tools = DOMAIN Entries[Shown]
      BY <3>1
    <3> QED BY <3>2 DEF AppInvariant, PartsTyped
  <2>3. (route = None) = (selected # NoTab)
    <3>1. route = None <=> selected # NoTab
      BY DEF AppInvariant, OnePage
    <3> QED BY <3>1, Zenon
  <2>4. DetailPageTypeOK
    BY <2>1, <2>2 DEF DetailPageTypeOK, AppInvariant, DetailInvariant
  <2> QED BY <2>3, <2>4 DEF AppTypeOK, AppInvariant, TabsAreOurs
<1> QED BY <1>1, AppInvariantCorrect, PTL

-----------------------------------------------------------------------------
(* Who opens                                                               *)

\* The arguments of a tool that has any are collapsed.
LEMMA ToolFacts ==
  ASSUME NEW id \in SessionIds, NEW n \in DOMAIN Entries[id], NEW k \in DOMAIN ToolsOf[id][n],
         ToolsOf[id][n][k].hasArgumentsPreview
  PROVE  ToolsOf[id][n][k].argumentsDefaultCollapsed
<1> DEFINE calls == Entries[id][n].tool_calls
           hint == [k1 \in 1 .. Len(calls) |->
                      [argumentsDefaultCollapsed |-> ArgumentsDefaultCollapsed(calls[k1]),
                       hasArgumentsPreview |-> HasArgumentsPreview(calls[k1])]]
<1>1. ToolsOf[id][n] = hint
  BY DEF ToolsOf, ExtractToolHintBlocks
<1>2. k \in 1 .. Len(calls)
  BY <1>1
<1>3. /\ hint[k].argumentsDefaultCollapsed = ArgumentsDefaultCollapsed(calls[k])
      /\ hint[k].hasArgumentsPreview = HasArgumentsPreview(calls[k])
  BY <1>2
<1> HIDE DEF hint, calls
<1>4. HasArgumentsPreview(calls[k]) => ArgumentsDefaultCollapsed(calls[k])
  BY DEF HasArgumentsPreview, ArgumentsDefaultCollapsed
<1>5. HasArgumentsPreview(calls[k])
  BY <1>1, <1>3
<1> QED BY <1>1, <1>3, <1>4, <1>5

\* Components that were just made show what a page shows that was never touched.
LEMMA FreshIsDefault ==
  ASSUME NEW id \in SessionIds, Shown' = id, parts' = FreshParts(id)
  PROVE  Open' = OpenByDefault(id)
<1> DEFINE shown == {n \in DOMAIN Entries[id] : ~HiddenByDefault[id][n]}
<1>1. /\ parts'.visibility = NoChoice /\ parts'.expanded = {}
      /\ \A n \in DOMAIN Entries[id] : parts'.tools[n] = NoChoice
  BY DEF FreshParts
<1>2. NoChoice.scope # id
  BY Kinds DEF NoChoice
<1>3. \A n \in DOMAIN Entries[id] : IsVisible(n)' <=> ~HiddenByDefault[id][n]
  BY <1>1, <1>2 DEF IsVisible, ChosenIn
<1>4. VisibleEntries' = shown
  BY <1>3 DEF VisibleEntries
<1>5. ASSUME NEW n \in shown PROVE {k \in ToolPlaces(n)' : IsExpanded(n, k)'} = {}
  <2> SUFFICES ASSUME NEW k \in ToolPlaces(n)', IsExpanded(n, k)' PROVE FALSE
    OBVIOUS
  <2>1. k \in DOMAIN ToolsOf[id][n] /\ ToolsOf[id][n][k].hasArgumentsPreview
    BY DEF ToolPlaces
  <2>2. ToolsOf[id][n][k].argumentsDefaultCollapsed
    BY <2>1, ToolFacts
  <2>3. ~ToolsOf[id][n][k].argumentsDefaultCollapsed
    BY <1>1, <1>2 DEF IsExpanded, ChosenIn
  <2> QED BY <2>2, <2>3
<1>6. Open' = [entries |-> VisibleEntries',
               tools |-> [n \in VisibleEntries' |-> {k \in ToolPlaces(n)' : IsExpanded(n, k)'}],
               sections |-> parts'.expanded]
  BY DEF Open
<1>7. [n \in VisibleEntries' |-> {k \in ToolPlaces(n)' : IsExpanded(n, k)'}] = [n \in shown |-> {}]
  <2> HIDE DEF shown
  <2> QED BY <1>4, <1>5
<1>8. OpenByDefault(id) = [entries |-> shown, tools |-> [n \in shown |-> {}], sections |-> {}]
  BY DEF OpenByDefault
<1> HIDE DEF shown
<1> QED BY <1>1, <1>4, <1>6, <1>7, <1>8

\* What stays is as open as it was.
LEMMA SameIsOpen ==
  ASSUME Shown' = Shown, parts' = parts
  PROVE  Open' = Open
<1>1. ASSUME NEW n PROVE IsVisible(n)' = IsVisible(n)
  BY DEF IsVisible, ChosenIn
<1>2. VisibleEntries' = VisibleEntries
  BY <1>1 DEF VisibleEntries
<1>3. ASSUME NEW n PROVE ToolPlaces(n)' = ToolPlaces(n)
  BY DEF ToolPlaces
<1>4. ASSUME NEW n, NEW k PROVE IsExpanded(n, k)' = IsExpanded(n, k)
  BY DEF IsExpanded, ChosenIn
<1> QED BY <1>2, <1>3, <1>4 DEF Open

\* Only the reader opens and closes: a detail that comes in sight is as if never
\* touched, and while it stays, no answer opens or closes anything in it.
THEOREM OnlyReaderOpensCorrect == AppSpec => OnlyTheReaderOpens
<1>1. AppInvariant /\ AppInvariant' /\ [AppNext]_appVars =>
        [vars' # vars /\ HasDetail' =>
           Open' = IF HasDetail /\ route' = route THEN Open ELSE OpenByDefault(route')]_detailVars
  <2> SUFFICES ASSUME AppInvariant, AppInvariant', [AppNext]_appVars, vars' # vars, HasDetail'
               PROVE  Open' = IF HasDetail /\ route' = route THEN Open ELSE OpenByDefault(route')
    OBVIOUS
  <2>1. DetailInvariant /\ DetailInvariant' /\ PartsTyped /\ Next
    BY AppStepsAreHookSteps DEF AppInvariant
  <2>2. Reconcile
    <3>1. ~(UNCHANGED detailVars) /\ ~ReaderToggles
      BY DEF detailVars, ReaderToggles, ToggleEntry, ToggleTool, ToggleSection
    <3> QED BY <3>1 DEF AppNext, OpenSession, BackToIndex, VisitDetail, LeaveDetail, ChangeDetail,
                        ClickRaw, ServeDetail, SettleDetail, appVars
  <2>3. CASE HasDetail
    <3>1. route' = route /\ Shown' = Shown /\ parts' = parts
      BY <2>1, <2>2, <2>3, DetailStays, ReconcileKeeps
    <3> QED BY <2>3, <3>1, SameIsOpen
  <2>4. CASE ~HasDetail
    <3>1. Shown' = route' /\ route' \in SessionIds
      BY <2>1, Kinds DEF DetailInvariant, TypeOK, DetailIsOfItsSession, HasDetail, InSight, Shown
    <3>2. parts' = FreshParts(route')
      BY <2>2, <2>4, <3>1 DEF Reconcile
    <3> QED BY <2>4, <3>1, <3>2, FreshIsDefault
  <2> QED BY <2>3, <2>4
<1> QED BY <1>1, AppInvariantCorrect, PTL DEF AppSpec, OnlyTheReaderOpens

-----------------------------------------------------------------------------
(* EverythingSaidIsInReach                                                 *)

\* Between the marks of a match there is no other, and matches do not overlap.
LEMMA FenceFacts ==
  ASSUME NEW content \in Seq(Tokens)
  PROVE  /\ \A m \in Fences(content) :
              /\ m.open \in Nat /\ m.close \in Nat /\ 1 <= m.open /\ m.open < m.close
              /\ m.open \in DOMAIN content /\ m.close \in DOMAIN content
              /\ content[m.open] = "fence" /\ content[m.close] = "fence"
              /\ \A i \in DOMAIN content : m.open < i /\ i < m.close => content[i] # "fence"
         /\ \A m, n \in Fences(content) : m = n \/ m.close < n.open \/ n.close < m.open
<1> DEFINE S == FenceMarks(content)
           F == Fences(content)
           rank(i) == Cardinality(S \cap (1 .. i))
<1>1. DOMAIN content = 1 .. Len(content) /\ Len(content) \in Nat
  OBVIOUS
<1>2. \A i : i \in S <=> i \in DOMAIN content /\ content[i] = "fence"
  BY DEF FenceMarks
<1>3. IsFiniteSet(S)
  <2>1. IsFiniteSet(DOMAIN content) /\ S \in SUBSET (DOMAIN content)
    BY <1>1, <1>2, FS_Interval
  <2> QED BY <2>1, FS_Subset
<1>4. \A m \in F : /\ m \in [open : S, close : S] /\ rank(m.open) % 2 = 1 /\ m.open < m.close
                   /\ \A i \in S : ~(m.open < i /\ i < m.close)
  BY DEF Fences
<1> HIDE DEF S, F
<1>5. ASSUME NEW m \in F
      PROVE  /\ m.open \in Nat /\ m.close \in Nat /\ 1 <= m.open /\ m.open < m.close
             /\ m.open \in DOMAIN content /\ m.close \in DOMAIN content
             /\ m.open \in S /\ m.close \in S
             /\ content[m.open] = "fence" /\ content[m.close] = "fence"
             /\ \A i \in DOMAIN content : m.open < i /\ i < m.close => content[i] # "fence"
  <2>1. m.open \in S /\ m.close \in S
    BY <1>4
  <2>2. m.open \in DOMAIN content /\ m.close \in DOMAIN content
    BY <1>2, <2>1
  <2>3. m.open \in Nat /\ m.close \in Nat /\ 1 <= m.open /\ m.open < m.close
    <3>1. m.open < m.close
      BY <1>4
    <3> QED BY <1>1, <2>2, <3>1
  <2>4. content[m.open] = "fence" /\ content[m.close] = "fence"
    BY <1>2, <2>1
  <2>5. \A i \in DOMAIN content : m.open < i /\ i < m.close => content[i] # "fence"
    BY <1>2, <1>4
  <2> QED BY <2>1, <2>2, <2>3, <2>4, <2>5
<1>6. ASSUME NEW m \in F PROVE rank(m.close) % 2 = 0
  <2> DEFINE A == S \cap (1 .. m.open)
             B == S \cap (1 .. m.close)
  <2>1. /\ m.open \in Nat /\ m.close \in Nat /\ m.open < m.close /\ m.close \in S
        /\ \A i \in S : i \in Nat /\ ~(m.open < i /\ i < m.close)
    BY <1>1, <1>2, <1>4, <1>5
  <2>2. B = A \cup {m.close} /\ m.close \notin A
    BY <2>1
  <2>3. IsFiniteSet(A)
    BY <1>3, FS_Subset
  <2>4. rank(m.open) = Cardinality(A) /\ rank(m.close) = Cardinality(B)
    OBVIOUS
  <2> HIDE DEF A, B, rank
  <2>5. Cardinality(B) = Cardinality(A) + 1 /\ Cardinality(A) \in Nat
    BY <2>2, <2>3, FS_AddElement, FS_CardinalityType
  <2>6. Cardinality(A) % 2 = 1
    BY <1>4, <2>4
  <2>7. \A k \in Nat : k % 2 = 1 => (k + 1) % 2 = 0
    OBVIOUS
  <2> QED BY <2>4, <2>5, <2>6, <2>7
<1> HIDE DEF rank
<1>7. ASSUME NEW m \in F, NEW n \in F, m.open < n.open PROVE m.close < n.open
  <2>1. n.open \in S /\ n.open \in Nat /\ m.close \in Nat /\ ~(m.open < n.open /\ n.open < m.close)
    BY <1>4, <1>5
  <2>2. n.open # m.close
    <3>1. rank(n.open) % 2 = 1 /\ rank(m.close) % 2 = 0
      BY <1>4, <1>6
    <3> QED BY <3>1
  <2> QED BY <1>7, <2>1, <2>2
<1>8. ASSUME NEW m \in F, NEW n \in F, m.open = n.open PROVE m = n
  <2>1. m.close \in S /\ n.close \in S /\ m.close \in Nat /\ n.close \in Nat
    BY <1>5
  <2>2. ~(m.close < n.close) /\ ~(n.close < m.close)
    BY <1>4, <1>5, <1>8, <2>1
  <2>3. m.close = n.close
    BY <2>1, <2>2
  <2>4. m \in [open : S, close : S] /\ n \in [open : S, close : S]
    BY <1>4
  <2> QED BY <1>8, <2>3, <2>4
<1>9. ASSUME NEW m \in F, NEW n \in F PROVE m = n \/ m.close < n.open \/ n.close < m.open
  <2>1. m.open \in Nat /\ n.open \in Nat
    BY <1>5
  <2>2. m.open < n.open \/ n.open < m.open \/ m.open = n.open
    BY <2>1
  <2> QED BY <1>7, <1>8, <2>2
<1> QED BY <1>5, <1>9 DEF F

\* The ends of texts.
TextEnd(content, from) ==
  Min({m.open - 1 : m \in {n \in Fences(content) : n.open >= from}} \cup {Len(content)})
TextStarts(content) == {1} \cup {m.close + 1 : m \in Fences(content)}

\* A text begins behind a match and ends before the next; what is in no match is in a text.
LEMMA TextFacts ==
  ASSUME NEW content \in Seq(Tokens)
  PROVE  /\ TextStarts(content) \in SUBSET Nat
         /\ \A f \in TextStarts(content) :
              /\ f >= 1 /\ TextEnd(content, f) \in Nat /\ TextEnd(content, f) <= Len(content)
              /\ \A m \in Fences(content) : m.close < f \/ TextEnd(content, f) < m.open
         /\ \A f, g \in TextStarts(content) : f < g => TextEnd(content, f) < g
         /\ \A i \in DOMAIN content :
              \/ \E m \in Fences(content) : m.open <= i /\ i <= m.close
              \/ \E f \in TextStarts(content) : f <= i /\ i <= TextEnd(content, f)
<1> DEFINE F == Fences(content)
           ends(f) == {m.open - 1 : m \in {n \in F : n.open >= f}} \cup {Len(content)}
<1>1. /\ \A m \in F : /\ m.open \in Nat /\ m.close \in Nat /\ 1 <= m.open /\ m.open < m.close
                      /\ m.open \in DOMAIN content /\ m.close \in DOMAIN content
      /\ \A m, n \in F : m = n \/ m.close < n.open \/ n.close < m.open
  BY FenceFacts
<1>2. DOMAIN content = 1 .. Len(content) /\ Len(content) \in Nat
  OBVIOUS
<1>3. \A f : TextEnd(content, f) = Min(ends(f))
  BY DEF TextEnd
<1>4. \A f : f \in TextStarts(content) <=> f = 1 \/ \E m \in F : f = m.close + 1
  BY DEF TextStarts
<1> HIDE DEF F
<1>5. \A f : ends(f) \in SUBSET Nat /\ ends(f) # {}
  BY <1>1, <1>2
<1>6. \A f : /\ TextEnd(content, f) \in ends(f)
             /\ \A n \in ends(f) : TextEnd(content, f) <= n
  <2> HIDE DEF ends
  <2> QED BY <1>3, <1>5, MinIsThere
<1>7. TextStarts(content) \in SUBSET Nat /\ \A f \in TextStarts(content) : f >= 1
  BY <1>1, <1>4
<1>8. \A f : /\ TextEnd(content, f) \in Nat /\ TextEnd(content, f) <= Len(content)
             /\ \A m \in F : m.open >= f => TextEnd(content, f) <= m.open - 1
             /\ \/ TextEnd(content, f) = Len(content)
                \/ \E m \in F : m.open >= f /\ TextEnd(content, f) = m.open - 1
  BY <1>5, <1>6
<1> HIDE DEF ends
<1>9. ASSUME NEW f \in TextStarts(content), NEW m \in F
      PROVE  m.close < f \/ TextEnd(content, f) < m.open
  <2>1. m.open \in Nat /\ m.close \in Nat /\ f \in Nat /\ 1 <= m.open /\ m.open < m.close
    BY <1>1, <1>7
  <2>2. CASE m.open >= f
    BY <1>8, <2>1, <2>2
  <2>3. CASE ~(m.open >= f)
    <3>1. PICK n \in F : f = n.close + 1
      BY <1>4, <2>1, <2>3
    <3>2. m = n \/ m.close < n.open \/ n.close < m.open
      BY <1>1
    <3>3. n.open \in Nat /\ n.close \in Nat /\ n.open < n.close
      BY <1>1
    <3> QED BY <2>1, <2>3, <3>1, <3>2, <3>3
  <2> QED BY <2>2, <2>3
<1>10. ASSUME NEW f \in TextStarts(content), NEW g \in TextStarts(content), f < g
       PROVE  TextEnd(content, f) < g
  <2>1. f \in Nat /\ g \in Nat /\ f >= 1
    BY <1>7
  <2>2. PICK m \in F : g = m.close + 1
    BY <1>4, <1>10, <2>1
  <2>3. m.open \in Nat /\ m.close \in Nat /\ m.open < m.close
    BY <1>1
  <2>4. m.close < f \/ TextEnd(content, f) < m.open
    BY <1>9
  <2> QED BY <1>8, <1>10, <2>1, <2>2, <2>3, <2>4
<1>11. ASSUME NEW i \in DOMAIN content, \A m \in F : ~(m.open <= i /\ i <= m.close)
       PROVE  \E f \in TextStarts(content) : f <= i /\ i <= TextEnd(content, f)
  <2> DEFINE T == {f \in TextStarts(content) : f <= i}
             f == Max(T)
  <2>1. i \in Nat /\ 1 <= i /\ i <= Len(content)
    BY <1>2
  <2>2. 1 \in T /\ T \in SUBSET Nat /\ \A g \in T : g <= i
    BY <1>4, <1>7, <2>1
  <2>3. f \in T /\ \A g \in T : f >= g
    <3> HIDE DEF T
    <3> QED BY <2>1, <2>2, MaxIsThere
  <2> HIDE DEF f
  <2>4. f \in TextStarts(content) /\ f <= i /\ f \in Nat
    BY <2>2, <2>3
  <2>5. ASSUME NEW m \in F, m.open >= f PROVE m.open - 1 >= i
    <3>1. m.open \in Nat /\ m.close \in Nat /\ m.open < m.close
      BY <1>1
    <3>2. CASE m.close < i
      <4>1. m.close + 1 \in T
        BY <1>4, <2>1, <3>1, <3>2
      <4>2. f >= m.close + 1
        BY <2>3, <4>1
      <4> QED BY <2>4, <2>5, <3>1, <4>2
    <3>3. CASE ~(m.close < i)
      BY <1>11, <2>1, <3>1, <3>3
    <3> QED BY <3>2, <3>3
  <2>6. i <= TextEnd(content, f)
    <3>1. CASE TextEnd(content, f) = Len(content)
      BY <2>1, <3>1
    <3>2. CASE TextEnd(content, f) # Len(content)
      <4>1. PICK m \in F : m.open >= f /\ TextEnd(content, f) = m.open - 1
        BY <1>8, <3>2
      <4> QED BY <2>5, <4>1
    <3> QED BY <3>1, <3>2
  <2> QED BY <2>4, <2>6
<1> QED BY <1>7, <1>8, <1>9, <1>10, <1>11 DEF F

\* What a match holds is in its code, or stands on the line of its opening mark.
LEMMA CodeFacts ==
  ASSUME NEW content \in Seq(Tokens), NEW m \in Fences(content)
  PROVE  LET code == CodeBlock(content, m) IN
         /\ \A i \in code.at : i \in Nat /\ m.open < i /\ i < m.close
         /\ \A i \in DOMAIN content :
              /\ m.open <= i /\ i <= m.close
              /\ content[i] \notin Blank \cup {"fence"}
              => OnFenceLine(content, i) \/ i \in code.at
<1> DEFINE H == {i \in m.open + 1 .. m.close : content[i] \in {"newline", "tick", "fence"}}
           h == Min(H)
           start == CodeStart(content, m)
<1>1. /\ m.open \in Nat /\ m.close \in Nat /\ 1 <= m.open /\ m.open < m.close
      /\ content[m.open] = "fence" /\ content[m.close] = "fence"
  BY FenceFacts
<1>2. h \in H /\ \A i \in H : h <= i
  <2>1. H \in SUBSET Nat /\ m.close \in H
    BY <1>1
  <2> HIDE DEF H
  <2> QED BY <2>1, MinIsThere
<1>3. HintEnd(content, m) = h - 1
  BY DEF HintEnd
<1> HIDE DEF h
<1>4. /\ h \in Nat /\ m.open < h /\ h <= m.close
      /\ \A i \in m.open + 1 .. h - 1 : content[i] \notin {"newline", "tick", "fence"}
  BY <1>1, <1>2
<1>5. start = (h - 1) + (IF content[(h - 1) + 1] = "newline" THEN 2 ELSE 1)
  BY <1>3 DEF CodeStart
<1>6. start = IF content[h] = "newline" THEN h + 1 ELSE h
  <2>1. (h - 1) + 1 = h /\ (h - 1) + 2 = h + 1
    BY <1>4
  <2> QED BY <1>5, <2>1
<1> HIDE DEF start, H
<1>7. CodeBlock(content, m).at = start .. m.close - 1
  BY DEF CodeBlock, start
<1>8. \A i \in start .. m.close - 1 : i \in Nat /\ m.open < i /\ i < m.close
  BY <1>1, <1>4, <1>6
<1>9. ASSUME NEW i \in DOMAIN content, m.open <= i, i <= m.close,
             content[i] \notin Blank \cup {"fence"}
      PROVE  OnFenceLine(content, i) \/ i \in start .. m.close - 1
  <2>1. i \in Nat /\ i # m.open /\ i # m.close
    BY <1>1, <1>9
  <2>2. CASE i < h
    <3>1. \A j \in m.open .. i : content[j] # "newline"
      <4> SUFFICES ASSUME NEW j \in m.open .. i PROVE content[j] # "newline"
        OBVIOUS
      <4>1. j = m.open \/ j \in m.open + 1 .. h - 1
        BY <1>1, <1>4, <2>1, <2>2
      <4> QED BY <1>1, <1>4, <4>1
    <3>2. m.open \in 1 .. i - 1
      BY <1>1, <1>9, <2>1
    <3> QED BY <1>1, <3>1, <3>2 DEF OnFenceLine
  <2>3. CASE ~(i < h)
    <3>1. i # h \/ content[h] # "newline"
      BY <1>9 DEF Blank
    <3>2. i >= start
      BY <1>4, <1>6, <2>1, <2>3, <3>1
    <3>3. start \in Nat
      BY <1>4, <1>6
    <3> QED BY <1>1, <1>9, <2>1, <3>2, <3>3
  <2> QED BY <2>2, <2>3
<1> QED BY <1>7, <1>8, <1>9

\* The blocks of a content: code of matches and texts between them.
LEMMA BlockFacts ==
  ASSUME NEW content \in Seq(Tokens), content # NoText
  PROVE  /\ \A b \in ExtractContentBlocks(content) :
              \/ \E m \in Fences(content) :
                   /\ b = CodeBlock(content, m) /\ b.kind = "code" /\ b.from = m.open
                   /\ \A i \in b.at : i \in Nat /\ m.open < i /\ i < m.close
              \/ \E f \in TextStarts(content) :
                   /\ b = TextBlock(content, f) /\ b.kind = "text" /\ b.from = f
                   /\ b.at = f .. TextEnd(content, f) /\ f <= TextEnd(content, f)
         /\ \A m \in Fences(content) : CodeBlock(content, m) \in ExtractContentBlocks(content)
         /\ \A f \in TextStarts(content) :
              f <= TextEnd(content, f) => TextBlock(content, f) \in ExtractContentBlocks(content)
<1> DEFINE F == Fences(content)
           codes == {CodeBlock(content, m) : m \in F}
           texts == {b \in {TextBlock(content, from) : from \in TextStarts(content)} : b.at # {}}
<1>1. ExtractContentBlocks(content) = codes \cup texts
  BY DEF ExtractContentBlocks, TextStarts
<1>2. ASSUME NEW f \in TextStarts(content)
      PROVE  /\ TextBlock(content, f).kind = "text" /\ TextBlock(content, f).from = f
             /\ TextBlock(content, f).at = f .. TextEnd(content, f)
             /\ TextBlock(content, f).at # {} <=> f <= TextEnd(content, f)
  <2>1. /\ TextBlock(content, f).kind = "text" /\ TextBlock(content, f).from = f
        /\ TextBlock(content, f).at = f .. TextEnd(content, f)
    BY DEF TextBlock, TextEnd
  <2>2. f \in Nat /\ TextEnd(content, f) \in Nat
    BY TextFacts
  <2>3. f .. TextEnd(content, f) # {} <=> f <= TextEnd(content, f)
    BY <2>2
  <2> QED BY <2>1, <2>3
<1>3. ASSUME NEW m \in F
      PROVE  /\ CodeBlock(content, m).kind = "code" /\ CodeBlock(content, m).from = m.open
             /\ \A i \in CodeBlock(content, m).at : i \in Nat /\ m.open < i /\ i < m.close
  <2>1. CodeBlock(content, m).kind = "code" /\ CodeBlock(content, m).from = m.open
    BY DEF CodeBlock
  <2> QED BY <2>1, CodeFacts
<1> HIDE DEF F
<1>4. ASSUME NEW b \in codes
      PROVE  \E m \in F :
                   /\ b = CodeBlock(content, m) /\ b.kind = "code" /\ b.from = m.open
                   /\ \A i \in b.at : i \in Nat /\ m.open < i /\ i < m.close
  <2>1. PICK m \in F : b = CodeBlock(content, m)
    OBVIOUS
  <2> QED BY <1>3, <2>1
<1>5. ASSUME NEW b \in texts
      PROVE  \E f \in TextStarts(content) :
                   /\ b = TextBlock(content, f) /\ b.kind = "text" /\ b.from = f
                   /\ b.at = f .. TextEnd(content, f) /\ f <= TextEnd(content, f)
  <2>1. PICK f \in TextStarts(content) : b = TextBlock(content, f) /\ b.at # {}
    OBVIOUS
  <2> QED BY <1>2, <2>1
<1>6. \A m \in F : CodeBlock(content, m) \in codes
  OBVIOUS
<1>7. \A f \in TextStarts(content) : f <= TextEnd(content, f) => TextBlock(content, f) \in texts
  BY <1>2
<1> HIDE DEF codes, texts
<1> QED BY <1>1, <1>4, <1>5, <1>6, <1>7 DEF F

LEMMA BlocksAreInOrder ==
  ASSUME NEW content \in Seq(Tokens), content # NoText,
         NEW b \in ExtractContentBlocks(content), NEW c \in ExtractContentBlocks(content), b # c
  PROVE  /\ b.from # c.from
         /\ b.from < c.from => \A i \in b.at, j \in c.at : i < j
<1>1. /\ \A m \in Fences(content) :
           m.open \in Nat /\ m.close \in Nat /\ 1 <= m.open /\ m.open < m.close
      /\ \A m, n \in Fences(content) : m = n \/ m.close < n.open \/ n.close < m.open
  BY FenceFacts
<1>2. /\ \A f \in TextStarts(content) :
           /\ f \in Nat /\ TextEnd(content, f) \in Nat
           /\ \A m \in Fences(content) : m.close < f \/ TextEnd(content, f) < m.open
      /\ \A f, g \in TextStarts(content) : f < g => TextEnd(content, f) < g
  BY TextFacts
<1> DEFINE IsCode(d, m) == /\ d = CodeBlock(content, m) /\ d.from = m.open
                           /\ \A i \in d.at : i \in Nat /\ m.open < i /\ i < m.close
           IsText(d, f) == /\ d = TextBlock(content, f) /\ d.from = f
                           /\ d.at = f .. TextEnd(content, f) /\ f <= TextEnd(content, f)
           Goal == b.from # c.from /\ (b.from < c.from => \A i \in b.at, j \in c.at : i < j)
<1>3. \A d \in ExtractContentBlocks(content) :
        (\E m \in Fences(content) : IsCode(d, m)) \/ (\E f \in TextStarts(content) : IsText(d, f))
  BY BlockFacts
<1>4. ASSUME NEW m \in Fences(content), NEW n \in Fences(content), IsCode(b, m), IsCode(c, n)
      PROVE  Goal
  <2>1. m # n
    BY <1>4
  <2> QED BY <1>1, <1>4, <2>1
<1>5. ASSUME NEW m \in Fences(content), NEW g \in TextStarts(content), IsCode(b, m), IsText(c, g)
      PROVE  Goal
  BY <1>1, <1>2, <1>5
<1>6. ASSUME NEW f \in TextStarts(content), NEW n \in Fences(content), IsText(b, f), IsCode(c, n)
      PROVE  Goal
  BY <1>1, <1>2, <1>6
<1>7. ASSUME NEW f \in TextStarts(content), NEW g \in TextStarts(content), IsText(b, f), IsText(c, g)
      PROVE  Goal
  <2>1. f # g
    BY <1>7
  <2> QED BY <1>2, <1>7, <2>1
<1> HIDE DEF IsCode, IsText, Goal
<1>8. Goal
  BY <1>3, <1>4, <1>5, <1>6, <1>7
<1> QED BY <1>8 DEF Goal

LEMMA LegibleIsShown ==
  ASSUME NEW content \in Seq(Tokens), content # NoText, NEW i \in DOMAIN content,
         content[i] \notin Blank \cup {"fence"}
  PROVE  /\ OnFenceLine(content, i) \/ \E b \in ExtractContentBlocks(content) : i \in b.at
         /\ \E b \in ExtractContentBlocks(content) :
              b.kind = "code" \/ i \in Legible(content, b)
<1>1. CASE \E m \in Fences(content) : m.open <= i /\ i <= m.close
  <2>1. PICK m \in Fences(content) : m.open <= i /\ i <= m.close
    BY <1>1
  <2>2. OnFenceLine(content, i) \/ i \in CodeBlock(content, m).at
    BY <2>1, CodeFacts
  <2>3. CodeBlock(content, m) \in ExtractContentBlocks(content)
    BY BlockFacts
  <2>4. CodeBlock(content, m).kind = "code"
    BY DEF CodeBlock
  <2> QED BY <2>2, <2>3, <2>4
<1>2. CASE ~\E m \in Fences(content) : m.open <= i /\ i <= m.close
  <2>1. PICK f \in TextStarts(content) : f <= i /\ i <= TextEnd(content, f)
    BY <1>2, TextFacts
  <2>2. f \in Nat /\ TextEnd(content, f) \in Nat /\ i \in Nat
    BY TextFacts
  <2>3. f <= TextEnd(content, f) /\ i \in f .. TextEnd(content, f)
    BY <2>1, <2>2
  <2>4. TextBlock(content, f) \in ExtractContentBlocks(content)
    BY <2>3, BlockFacts
  <2>5. TextBlock(content, f).at = f .. TextEnd(content, f)
    BY DEF TextBlock, TextEnd
  <2>6. i \in TextBlock(content, f).at /\ i \in Legible(content, TextBlock(content, f))
    BY <2>3, <2>5 DEF Legible
  <2> QED BY <2>4, <2>6
<1> QED BY <1>1, <1>2

\* The first block of an entry that is hidden for its skill context opens with it.
LEMMA SkillIsFirst ==
  ASSUME NEW content \in Seq(Tokens), content # NoText, NEW b \in ExtractContentBlocks(content),
         IsFirst(b, ExtractContentBlocks(content)), StartsWithSkillContext(content, b)
  PROVE  LET legible == {i \in 1 .. Len(content) : content[i] \notin Blank \cup {"fence"}}
         IN content[Min(legible)] = "skill"
<1> DEFINE legible == {i \in 1 .. Len(content) : content[i] \notin Blank \cup {"fence"}}
           p == Min(Legible(content, b))
           q == Min(legible)
<1>1. b.kind = "text" /\ Legible(content, b) # {} /\ content[p] = "skill"
  BY DEF StartsWithSkillContext
<1>2. PICK f \in TextStarts(content) : /\ b.from = f /\ b.at = f .. TextEnd(content, f)
                                       /\ f <= TextEnd(content, f)
  BY <1>1, BlockFacts
<1>3. f = 1
  <2> SUFFICES ASSUME f # 1 PROVE FALSE
    OBVIOUS
  <2>1. PICK m \in Fences(content) : f = m.close + 1
    BY DEF TextStarts
  <2>2. m.open \in Nat /\ m.close \in Nat /\ m.open < m.close
    BY FenceFacts
  <2>3. CodeBlock(content, m) \in ExtractContentBlocks(content)
    BY BlockFacts
  <2>4. CodeBlock(content, m).from = m.open
    BY DEF CodeBlock
  <2>5. f <= m.open
    BY <1>2, <2>3, <2>4 DEF IsFirst
  <2> QED BY <2>1, <2>2, <2>5
<1>4. /\ TextEnd(content, f) \in Nat /\ TextEnd(content, f) <= Len(content)
      /\ Len(content) \in Nat
  BY TextFacts
<1>5. Legible(content, b) = {i \in 1 .. TextEnd(content, f) : content[i] \notin Blank}
  BY <1>2, <1>3 DEF Legible
<1>6. p \in Legible(content, b) /\ \A i \in Legible(content, b) : p <= i
  <2>1. Legible(content, b) \in SUBSET Nat
    BY <1>5
  <2> QED BY <1>1, <2>1, MinIsThere
<1> HIDE DEF p
<1>7. p \in Nat /\ p \in 1 .. TextEnd(content, f) /\ p \in legible
  <2>1. p \in 1 .. TextEnd(content, f)
    BY <1>5, <1>6
  <2>2. p \in Nat /\ p \in 1 .. Len(content)
    BY <1>4, <2>1
  <2>3. content[p] \notin Blank \cup {"fence"}
    BY <1>1 DEF Blank
  <2> QED BY <2>1, <2>2, <2>3
<1>8. q \in legible /\ \A i \in legible : q <= i
  <2>1. legible \in SUBSET Nat /\ legible # {}
    BY <1>4, <1>7
  <2> HIDE DEF legible
  <2> QED BY <2>1, MinIsThere
<1> HIDE DEF q
<1>9. q \in 1 .. TextEnd(content, f) /\ content[q] \notin Blank
  <2>1. q <= p /\ q \in 1 .. Len(content) /\ content[q] \notin Blank
    BY <1>7, <1>8
  <2> QED BY <1>4, <1>7, <2>1
<1>10. q = p
  <2>1. p <= q
    BY <1>5, <1>6, <1>9
  <2> QED BY <1>7, <1>8, <1>9, <1>4, <2>1
<1> QED BY <1>1, <1>10 DEF q

LEMMA EntriesSayItAll == \A entry \in ConversationEntries : SaysItAll(entry)
<1> SUFFICES ASSUME NEW entry \in ConversationEntries PROVE SaysItAll(entry)
  OBVIOUS
<1> DEFINE blocks == ExtractContentBlocks(entry.content)
<1>1. CASE entry.content = NoText
  <2>1. blocks = {} /\ {i \in 1 .. Len(<<>>) : <<>>[i] \notin Blank \cup {"fence"}} = {}
    BY <1>1 DEF ExtractContentBlocks
  <2> QED BY <1>1, <2>1 DEF SaysItAll
<1>2. CASE entry.content # NoText
  <2> DEFINE content == entry.content
             legible == {i \in 1 .. Len(content) : content[i] \notin Blank \cup {"fence"}}
  <2>1. content \in Seq(Tokens) /\ DOMAIN content = 1 .. Len(content)
    BY <1>2 DEF ConversationEntries
  <2>2. \A b, c \in blocks : b # c => /\ b.from # c.from
                                      /\ b.from < c.from => \A i \in b.at, j \in c.at : i < j
    BY <1>2, <2>1, BlocksAreInOrder
  <2>3. \A i \in legible : OnFenceLine(content, i) \/ \E b \in blocks : i \in b.at
    BY <1>2, <2>1, LegibleIsShown
  <2>4. ASSUME ShouldDefaultHide(entry), legible # {} PROVE content[Min(legible)] = "skill"
    <3>1. PICK i \in legible : TRUE
      BY <2>4
    <3>2. \E b \in blocks : b.kind = "code" \/ i \in Legible(content, b)
      BY <1>2, <2>1, LegibleIsShown
    <3>3. ~\A b \in blocks : b.kind = "text" /\ Legible(content, b) = {}
      BY <3>2
    <3>4. PICK b \in blocks : IsFirst(b, blocks) /\ StartsWithSkillContext(content, b)
      BY <2>4, <3>3 DEF ShouldDefaultHide
    <3> QED BY <1>2, <2>1, <3>4, SkillIsFirst
  <2> HIDE DEF blocks
  <2> QED BY <1>2, <2>2, <2>3, <2>4 DEF SaysItAll, blocks
<1> QED BY <1>1, <1>2

\* Whatever an entry of any length says is in one block, and the blocks are in order,
\* but for what stands on the line of a fence mark; and an entry that says anything is
\* hidden by default only when it opens with a skill context.
THEOREM EverythingInReachCorrect == AppSpec => []EverythingSaidIsInReach
<1>1. EverythingSaidIsInReach
  BY EntriesSayItAll, SayingsAssumption DEF EverythingSaidIsInReach
<1> QED BY <1>1, PTL
=============================================================================
