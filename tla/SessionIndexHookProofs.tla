----------------------- MODULE SessionIndexHookProofs -----------------------
(***************************************************************************)
(* Theorems about SessionIndexHook, for every set of requests, criteria and *)
(* days, with and without StrictMode.                                       *)
(***************************************************************************)
EXTENDS SessionIndexHook, TLAPS

-----------------------------------------------------------------------------
(* Records                                                                 *)

\* None is nothing else, and an error is no list.
LEMMA Kinds ==
  /\ None \notin Lists /\ None # Error /\ None \notin Criteria /\ None \notin Requests
  /\ Error \notin Lists /\ Free \notin FlightStates
BY NoneAssumption DEF Answers, Lists, Error, Free, FlightStates

LEMMA ReusableAnswers ==
  ASSUME NEW a \in Answers \cup {None}
  PROVE  IsReusable(a) <=> a \in Lists
BY Kinds DEF Answers, IsReusable

\* A new request is in flight, not aborted, without an answer.
LEMMA NewRequestType ==
  ASSUME TypeOK, NEW c \in Criteria, NEW keep \in BOOLEAN, NEW mount \in BOOLEAN
  PROVE  /\ NewRequest(c, keep, mount) \in FlightStates
         /\ NewRequest(c, keep, mount) # Free
         /\ NewRequest(c, keep, mount).status = "sent"
         /\ NewRequest(c, keep, mount).aborted = FALSE
         /\ NewRequest(c, keep, mount).criteria = c
         /\ NewRequest(c, keep, mount).answer = None
         /\ NewRequest(c, keep, mount).preserveSnapshotOnError = keep
         /\ NewRequest(c, keep, mount).revalidates = mount
         /\ NewRequest(c, keep, mount).previousState =
              IF settled = None THEN None ELSE settled.state
<1>1. (IF settled = None THEN None ELSE settled.state) \in Answers \cup {None}
  BY DEF TypeOK, Envelopes
<1>2. NewRequest(c, keep, mount) \in FlightStates
  BY <1>1 DEF NewRequest, FlightStates
<1> QED BY <1>2, Kinds DEF NewRequest

\* Aborting and disposing touch one field of a request in flight.
LEMMA AbortType ==
  ASSUME NEW q \in FlightStates
  PROVE  /\ [q EXCEPT !.aborted = TRUE] \in FlightStates
         /\ [q EXCEPT !.revalidates = FALSE] \in FlightStates
BY DEF FlightStates

\* What has become of request x when the active request was aborted.
LEMMA AbortedByFields ==
  ASSUME TypeOK, OnlyActiveCounts, NEW x \in Requests
  PROVE  LET q == AbortedBy(requests, active)[x] IN
         /\ q \in FlightStates \cup {Free}
         /\ q = Free <=> requests[x] = Free
         /\ q # Free => /\ q = [requests[x] EXCEPT !.aborted = TRUE] \/ q = requests[x]
                        /\ q.aborted
                        /\ q.status = requests[x].status
                        /\ q.criteria = requests[x].criteria
                        /\ q.answer = requests[x].answer
                        /\ q.revalidates = requests[x].revalidates
                        /\ q.previousState = requests[x].previousState
<1>1. CASE x = active
  <2>1. requests[x] \in FlightStates /\ requests[x] # Free
    BY <1>1, Kinds DEF TypeOK, OnlyActiveCounts, InFlight
  <2>2. AbortedBy(requests, active)[x] = [requests[x] EXCEPT !.aborted = TRUE]
    BY <1>1 DEF AbortedBy
  <2>3. [requests[x] EXCEPT !.aborted = TRUE] \in FlightStates
    BY <2>1, AbortType
  <2>4. /\ [requests[x] EXCEPT !.aborted = TRUE].aborted
        /\ [requests[x] EXCEPT !.aborted = TRUE].status = requests[x].status
        /\ [requests[x] EXCEPT !.aborted = TRUE].criteria = requests[x].criteria
        /\ [requests[x] EXCEPT !.aborted = TRUE].answer = requests[x].answer
        /\ [requests[x] EXCEPT !.aborted = TRUE].revalidates = requests[x].revalidates
        /\ [requests[x] EXCEPT !.aborted = TRUE].previousState = requests[x].previousState
    BY <2>1 DEF FlightStates
  <2> QED BY <2>1, <2>2, <2>3, <2>4, Kinds
<1>2. CASE x # active
  <2>1. AbortedBy(requests, active)[x] = requests[x]
    BY <1>2 DEF AbortedBy
  <2>2. requests[x] \in FlightStates \cup {Free}
    BY DEF TypeOK
  <2>3. requests[x] # Free => requests[x].aborted
    BY <1>2, <2>2 DEF OnlyActiveCounts, InFlight, FlightStates
  <2> QED BY <2>1, <2>2, <2>3
<1> QED BY <1>1, <1>2

\* The request of the mount effect, and the one that StrictMode's cleanup leaves.
LEMMA MountRequestType ==
  ASSUME TypeOK, NEW c \in Criteria, NEW snapshot \in Lists \cup {None}
  PROVE  LET fetch == MountRequest(c, snapshot)
             disposed == DisposedRequest(fetch) IN
         /\ fetch \in FlightStates /\ fetch # Free
         /\ ~fetch.aborted /\ fetch.status = "sent" /\ fetch.answer = None
         /\ fetch.criteria = c /\ fetch.previousState = snapshot
         /\ fetch.revalidates = (snapshot # None)
         /\ disposed \in FlightStates /\ disposed # Free
         /\ disposed.aborted /\ disposed.status = "sent" /\ disposed.answer = None
         /\ ~disposed.revalidates
<1> DEFINE fetch == MountRequest(c, snapshot)
<1> DEFINE disposed == DisposedRequest(fetch)
<1>1. NewRequest(c, snapshot # None, snapshot # None) \in FlightStates
  BY NewRequestType
<1>2. /\ NewRequest(c, snapshot # None, snapshot # None).aborted = FALSE
      /\ NewRequest(c, snapshot # None, snapshot # None).status = "sent"
      /\ NewRequest(c, snapshot # None, snapshot # None).answer = None
      /\ NewRequest(c, snapshot # None, snapshot # None).criteria = c
      /\ NewRequest(c, snapshot # None, snapshot # None).revalidates = (snapshot # None)
  BY NewRequestType
<1>3. snapshot \in Answers \cup {None}
  BY DEF Answers
<1>4. /\ fetch \in FlightStates
      /\ ~fetch.aborted /\ fetch.status = "sent" /\ fetch.answer = None
      /\ fetch.criteria = c /\ fetch.previousState = snapshot
      /\ fetch.revalidates = (snapshot # None)
  BY <1>1, <1>2, <1>3 DEF FlightStates, MountRequest
<1> HIDE DEF fetch
<1>5. /\ disposed \in FlightStates
      /\ disposed.aborted /\ disposed.status = "sent" /\ disposed.answer = None
      /\ ~disposed.revalidates
  BY <1>4 DEF FlightStates, DisposedRequest
<1> HIDE DEF disposed
<1>6. fetch # Free /\ disposed # Free
  BY <1>4, <1>5, Kinds
<1> QED BY <1>4, <1>5, <1>6 DEF fetch, disposed

-----------------------------------------------------------------------------
(* The steps                                                               *)

LEMMA InitInvariant == Init => HookInvariant
<1> SUFFICES ASSUME Init PROVE HookInvariant
  OBVIOUS
<1>1. TypeOK
  <2>1. today \in Days /\ version \in 0 .. MaxVersion
    BY CriteriaAssumption, VersionAssumption DEF Init, Days
  <2>2. requests \in [Requests -> FlightStates \cup {Free}]
    BY DEF Init
  <2>3. snapshots \in [Criteria -> Lists \cup {None}]
    BY DEF Init
  <2> QED BY <2>1, <2>2, <2>3 DEF Init, TypeOK
<1>2. AnswersAreOwn /\ OnlyActiveCounts
  BY DEF Init, InFlight, AnswersAreOwn, OnlyActiveCounts
<1>3. KnownVersions /\ ShownListMatchesCriteria /\ SnapshotsHoldTheirOwnList
  BY DEF Init, KnownVersions, ShownListMatchesCriteria, SnapshotsHoldTheirOwnList
<1> QED BY <1>1, <1>2, <1>3 DEF Init, HookInvariant, Mounted

\* A request that replaces the active one is the only one that counts.
LEMMA PerformStep ==
  ASSUME HookInvariant, NEW r \in Requests, NEW c \in Criteria, NEW keep \in BOOLEAN,
         Perform(r, c, keep, keep), criteria' = c, UNCHANGED <<today, version>>,
         keep => criteria = c
  PROVE  HookInvariant'
<1> USE DEF HookInvariant
<1> DEFINE new == NewRequest(c, keep, FALSE)
<1> DEFINE old(x) == AbortedBy(requests, active)[x]
<1>1. /\ new \in FlightStates /\ new # Free /\ new.status = "sent" /\ new.aborted = FALSE
      /\ new.criteria = c /\ new.answer = None /\ new.revalidates = FALSE
      /\ new.preserveSnapshotOnError = keep
      /\ new.previousState = IF settled = None THEN None ELSE settled.state
  BY NewRequestType
<1>2. \A x \in Requests :
        /\ old(x) \in FlightStates \cup {Free}
        /\ old(x) = Free <=> requests[x] = Free
        /\ old(x) # Free => /\ old(x).aborted
                            /\ old(x).status = requests[x].status
                            /\ old(x).criteria = requests[x].criteria
                            /\ old(x).answer = requests[x].answer
                            /\ old(x).revalidates = requests[x].revalidates
                            /\ old(x).previousState = requests[x].previousState
  BY AbortedByFields
<1> HIDE DEF new, old
<1>3. /\ requests'[r] = new
      /\ \A x \in Requests \ {r} : requests'[x] = old(x)
      /\ DOMAIN requests' = Requests
      /\ requests' = [x \in Requests |-> requests'[x]]
  BY DEF Perform, AbortedBy, new, old
<1>4. /\ active' = r /\ isRefreshing' = keep /\ snapshots' = snapshots
      /\ settled' = IF keep THEN settled ELSE None
  BY DEF Perform
<1>5. TypeOK'
  <2>1. requests' \in [Requests -> FlightStates \cup {Free}]
    BY <1>1, <1>2, <1>3
  <2> QED BY <2>1, <1>4 DEF TypeOK
<1>6. AnswersAreOwn'
  <2> SUFFICES ASSUME NEW x \in Requests, requests'[x] # Free
      PROVE /\ (requests'[x].answer = None) = (requests'[x].status = "sent")
            /\ IsReusable(requests'[x].answer) =>
                 /\ requests'[x].answer.of = requests'[x].criteria
                 /\ requests'[x].answer.version <= version
            /\ requests'[x].revalidates => IsReusable(requests'[x].previousState)
    BY DEF AnswersAreOwn, InFlight, IsReusable
  <2>1. CASE x = r
    BY <2>1, <1>1, <1>3 DEF IsReusable
  <2>2. CASE x # r
    BY <2>2, <1>2, <1>3 DEF AnswersAreOwn, InFlight
  <2> QED BY <2>1, <2>2
<1>7. OnlyActiveCounts'
  <2>1. \A x \in Requests : requests'[x] # Free /\ ~requests'[x].aborted => x = r
    BY <1>2, <1>3
  <2>2. requests'[r] # Free /\ ~requests'[r].aborted /\ requests'[r].criteria = criteria'
    BY <1>1, <1>3
  <2>3. criteria' # None
    BY Kinds
  <2>4. IsReusable(requests'[r].previousState) /\ requests'[r].preserveSnapshotOnError
          => settled' # None /\ settled'.state = requests'[r].previousState
    BY <1>1, <1>3, <1>4 DEF IsReusable
  <2> QED BY <2>1, <2>2, <2>3, <2>4, <1>4
        DEF OnlyActiveCounts, InFlight, Mounted, IsReusable
<1>8. KnownVersions'
  BY <1>1, <1>3, <1>4 DEF KnownVersions, IsReusable
<1>9. ShownListMatchesCriteria' /\ SnapshotsHoldTheirOwnList'
  BY <1>4 DEF ShownListMatchesCriteria, SnapshotsHoldTheirOwnList
<1>10. active' # None /\ Mounted'
  BY <1>4, Kinds DEF Mounted
<1> QED BY <1>5, <1>6, <1>7, <1>8, <1>9, <1>10

LEMMA MountStep == HookInvariant /\ Mount => HookInvariant'
<1> SUFFICES ASSUME HookInvariant, Mount PROVE HookInvariant'
  OBVIOUS
<1> USE DEF HookInvariant
<1> DEFINE initial == [range |-> DefaultRange[today], searchTerm |-> NoTerm]
<1> DEFINE snapshot == snapshots[initial]
<1> DEFINE fetch == MountRequest(initial, snapshot)
<1> DEFINE disposed == DisposedRequest(fetch)
<1>1. initial \in Criteria /\ initial # None
  BY CriteriaAssumption, Kinds DEF TypeOK, Criteria
<1>2. snapshot \in Lists \cup {None}
  BY <1>1 DEF TypeOK
<1>3. /\ fetch \in FlightStates /\ fetch # Free
      /\ ~fetch.aborted /\ fetch.status = "sent" /\ fetch.answer = None
      /\ fetch.criteria = initial /\ fetch.previousState = snapshot
      /\ fetch.revalidates = (snapshot # None)
      /\ disposed \in FlightStates /\ disposed # Free
      /\ disposed.aborted /\ disposed.status = "sent" /\ disposed.answer = None
      /\ ~disposed.revalidates
  <2> HIDE DEF initial, snapshot
  <2> QED BY <1>1, <1>2, MountRequestType
<1>4. /\ active = None /\ criteria' = initial /\ snapshots' = snapshots
      /\ today' = today /\ version' = version
      /\ settled' = IF snapshot = None THEN None
                    ELSE [queryKey |-> initial, state |-> snapshot]
      /\ isRefreshing' = (snapshot # None)
  BY DEF Mount, Mounted, ReadReusableSnapshot
<1>5. PICK r \in Requests :
        /\ requests[r] = Free /\ active' = r
        /\ \/ requests' = [requests EXCEPT ![r] = fetch]
           \/ \E first \in Requests \ {r} :
                requests' = [requests EXCEPT ![r] = fetch, ![first] = disposed]
  <2>1. PICK r \in Requests :
          /\ ~InFlight(r) /\ active' = r
          /\ \/ requests' = [requests EXCEPT ![r] = fetch]
             \/ \E first \in Requests \ {r} :
                  requests' = [requests EXCEPT ![r] = fetch, ![first] = disposed]
    BY ZenonT(60) DEF Mount, ReadReusableSnapshot
  <2> QED BY <2>1, Zenon DEF InFlight
<1> HIDE DEF fetch, disposed
<1>6. /\ requests'[r] = fetch
      /\ \A x \in Requests \ {r} : requests'[x] \in {requests[x], disposed}
      /\ requests' \in [Requests -> FlightStates \cup {Free}]
  BY <1>3, <1>5 DEF TypeOK
<1> HIDE DEF snapshot, initial
<1>7. snapshot # None => /\ snapshot.of = initial /\ snapshot.version <= version
                         /\ IsReusable(snapshot)
  BY <1>1, <1>2, Kinds, ReusableAnswers
     DEF SnapshotsHoldTheirOwnList, KnownVersions, Answers, snapshot
<1>8. TypeOK'
  <2>1. settled' \in Envelopes \cup {None}
    BY <1>1, <1>2, <1>4 DEF Answers, Envelopes
  <2> QED BY <2>1, <1>1, <1>4, <1>5, <1>6 DEF TypeOK
<1>9. AnswersAreOwn'
  <2> SUFFICES ASSUME NEW x \in Requests, requests'[x] # Free
      PROVE /\ (requests'[x].answer = None) = (requests'[x].status = "sent")
            /\ IsReusable(requests'[x].answer) =>
                 /\ requests'[x].answer.of = requests'[x].criteria
                 /\ requests'[x].answer.version <= version
            /\ requests'[x].revalidates => IsReusable(requests'[x].previousState)
    BY <1>4 DEF AnswersAreOwn, InFlight, IsReusable
  <2>1. CASE x = r
    BY <2>1, <1>3, <1>6, <1>7 DEF IsReusable
  <2>2. CASE requests'[x] = disposed
    BY <2>2, <1>3 DEF IsReusable
  <2>3. CASE requests'[x] = requests[x]
    BY <2>3 DEF AnswersAreOwn, InFlight
  <2> QED BY <2>1, <2>2, <2>3, <1>6
<1>10. OnlyActiveCounts'
  <2>1. \A x \in Requests : requests'[x] # Free /\ ~requests'[x].aborted => x = r
    BY <1>3, <1>4, <1>6, Kinds DEF OnlyActiveCounts, InFlight
  <2>2. /\ requests'[r] # Free /\ ~requests'[r].aborted
        /\ requests'[r].criteria = criteria' /\ criteria' # None
    BY <1>1, <1>3, <1>4, <1>6
  <2>3. IsReusable(requests'[r].previousState)
          => settled' # None /\ settled'.state = requests'[r].previousState
    <3>1. IsReusable(requests'[r].previousState) => snapshot # None
      BY <1>3, <1>6 DEF IsReusable
    <3>0. snapshot # None => [queryKey |-> initial, state |-> snapshot] \in Envelopes
      BY <1>1, <1>2 DEF Answers, Envelopes
    <3>2. snapshot # None => [queryKey |-> initial, state |-> snapshot] # None
      BY <3>0, NoneAssumption
    <3> QED BY <3>1, <3>2, <1>3, <1>4, <1>6
  <2> QED BY <2>1, <2>2, <2>3, <1>5
        DEF OnlyActiveCounts, InFlight, Mounted, IsReusable
<1>11. KnownVersions'
  BY <1>3, <1>4, <1>5, <1>6, <1>7 DEF KnownVersions, IsReusable
<1>12. ShownListMatchesCriteria' /\ SnapshotsHoldTheirOwnList'
  BY <1>4, <1>7 DEF ShownListMatchesCriteria, SnapshotsHoldTheirOwnList
<1>13. active' # None /\ Mounted'
  BY <1>1, <1>4, <1>5, Kinds DEF Mounted
<1> QED BY <1>8, <1>9, <1>10, <1>11, <1>12, <1>13

LEMMA UnmountStep == HookInvariant /\ Unmount => HookInvariant'
<1> SUFFICES ASSUME HookInvariant, Unmount PROVE HookInvariant'
  OBVIOUS
<1> USE DEF HookInvariant
<1> DEFINE old(x) == AbortedBy(requests, active)[x]
<1>1. \A x \in Requests :
        /\ old(x) \in FlightStates \cup {Free}
        /\ old(x) # Free => /\ requests[x] # Free
                            /\ old(x).aborted
                            /\ old(x).status = requests[x].status
                            /\ old(x).criteria = requests[x].criteria
                            /\ old(x).answer = requests[x].answer
  BY AbortedByFields
<1> HIDE DEF old
<1>2. requests' = [x \in Requests |-> IF old(x) = Free THEN Free
                                      ELSE [old(x) EXCEPT !.revalidates = FALSE]]
  BY DEF Unmount, Disposed, old
<1>3. \A x \in Requests :
        /\ requests'[x] \in FlightStates \cup {Free}
        /\ requests'[x] # Free => /\ requests[x] # Free
                                  /\ requests'[x].aborted /\ ~requests'[x].revalidates
                                  /\ requests'[x].status = requests[x].status
                                  /\ requests'[x].criteria = requests[x].criteria
                                  /\ requests'[x].answer = requests[x].answer
  <2> SUFFICES ASSUME NEW x \in Requests, old(x) # Free
      PROVE /\ requests'[x] \in FlightStates
            /\ requests[x] # Free
            /\ requests'[x].aborted /\ ~requests'[x].revalidates
            /\ requests'[x].status = requests[x].status
            /\ requests'[x].criteria = requests[x].criteria
            /\ requests'[x].answer = requests[x].answer
    BY <1>2
  <2>1. requests'[x] = [old(x) EXCEPT !.revalidates = FALSE] /\ old(x) \in FlightStates
    BY <1>1, <1>2
  <2> QED BY <2>1, <1>1 DEF FlightStates
<1>4. /\ active' = None /\ criteria' = None /\ settled' = None /\ isRefreshing' = FALSE
      /\ UNCHANGED <<today, version, snapshots>>
  BY DEF Unmount
<1>5. TypeOK'
  BY <1>2, <1>3, <1>4 DEF TypeOK
<1>6. AnswersAreOwn' /\ OnlyActiveCounts'
  BY <1>3, <1>4 DEF AnswersAreOwn, OnlyActiveCounts, InFlight, IsReusable
<1>7. KnownVersions' /\ ShownListMatchesCriteria' /\ SnapshotsHoldTheirOwnList'
  BY <1>4 DEF KnownVersions, ShownListMatchesCriteria, SnapshotsHoldTheirOwnList
<1> QED BY <1>4, <1>5, <1>6, <1>7 DEF Mounted

LEMMA ServeStep ==
  ASSUME HookInvariant, NEW r \in Requests, Serve(r)
  PROVE  HookInvariant'
<1> USE DEF HookInvariant
<1>1. PICK answer \in {[status |-> k, of |-> requests[r].criteria, version |-> version] :
                         k \in {"success", "empty"}} \cup {Error} :
        requests' = [requests EXCEPT ![r].status = "served", ![r].answer = answer]
  BY DEF Serve
<1>2. requests[r] \in FlightStates /\ requests[r] # Free
  BY DEF Serve, InFlight, TypeOK
<1>3. /\ answer \in Answers /\ answer # None
      /\ IsReusable(answer) => answer.of = requests[r].criteria /\ answer.version = version
  <2>1. requests[r].criteria \in Criteria /\ version \in Nat
    BY <1>2, VersionAssumption DEF FlightStates, TypeOK
  <2>2. answer \in Answers
    BY <2>1, <1>1 DEF Answers, Lists
  <2>3. answer # None
    BY <2>2, NoneAssumption
  <2> QED BY <1>1, <2>2, <2>3 DEF IsReusable
<1>4. /\ requests'[r] \in FlightStates /\ requests'[r] # Free
      /\ requests'[r].status = "served" /\ requests'[r].answer = answer
      /\ requests'[r].aborted = requests[r].aborted
      /\ requests'[r].criteria = requests[r].criteria
      /\ requests'[r].revalidates = requests[r].revalidates
      /\ requests'[r].previousState = requests[r].previousState
      /\ requests'[r].preserveSnapshotOnError = requests[r].preserveSnapshotOnError
  <2>1. requests'[r] = [requests[r] EXCEPT !.status = "served", !.answer = answer]
    BY <1>1 DEF TypeOK
  <2>2. [requests[r] EXCEPT !.status = "served", !.answer = answer] \in FlightStates
    BY <1>2, <1>3 DEF FlightStates
  <2>3. requests'[r] # Free
    BY <2>1, <2>2, Kinds
  <2> QED BY <1>2, <2>1, <2>2, <2>3 DEF FlightStates
<1>5. /\ \A x \in Requests \ {r} : requests'[x] = requests[x]
      /\ requests' \in [Requests -> FlightStates \cup {Free}]
  BY <1>1, <1>4 DEF TypeOK
<1>6. UNCHANGED <<today, version, criteria, settled, isRefreshing, active, snapshots>>
  BY DEF Serve
<1>7. TypeOK'
  BY <1>5, <1>6 DEF TypeOK
<1>8. AnswersAreOwn'
  <2> SUFFICES ASSUME NEW x \in Requests, requests'[x] # Free
      PROVE /\ (requests'[x].answer = None) = (requests'[x].status = "sent")
            /\ IsReusable(requests'[x].answer) =>
                 /\ requests'[x].answer.of = requests'[x].criteria
                 /\ requests'[x].answer.version <= version
            /\ requests'[x].revalidates => IsReusable(requests'[x].previousState)
    BY <1>6 DEF AnswersAreOwn, InFlight, IsReusable
  <2>0. version \in Nat
    BY VersionAssumption DEF TypeOK
  <2>1. CASE x = r
    BY <2>0, <2>1, <1>2, <1>3, <1>4 DEF AnswersAreOwn, InFlight
  <2>2. CASE x # r
    BY <2>2, <1>5 DEF AnswersAreOwn, InFlight
  <2> QED BY <2>1, <2>2
<1>9. OnlyActiveCounts'
  <2>1. \A x \in Requests : requests'[x] # Free /\ ~requests'[x].aborted => x = active
    BY <1>2, <1>4, <1>5 DEF OnlyActiveCounts, InFlight
  <2>2. active # None =>
          /\ requests'[active] # Free
          /\ requests'[active].aborted = requests[active].aborted
          /\ requests'[active].criteria = requests[active].criteria
          /\ requests'[active].previousState = requests[active].previousState
          /\ requests'[active].preserveSnapshotOnError
               = requests[active].preserveSnapshotOnError
    BY <1>4, <1>5 DEF OnlyActiveCounts, InFlight, TypeOK
  <2> QED BY <2>1, <2>2, <1>6 DEF OnlyActiveCounts, InFlight, IsReusable, Mounted
<1>10. KnownVersions'
  <2>1. CASE active = r
    BY <2>1, <1>3, <1>4, <1>6 DEF KnownVersions, IsReusable
  <2>2. CASE active # r
    BY <2>2, <1>5, <1>6 DEF KnownVersions, IsReusable, TypeOK
  <2> QED BY <2>1, <2>2
<1>11. ShownListMatchesCriteria' /\ SnapshotsHoldTheirOwnList'
  BY <1>6 DEF ShownListMatchesCriteria, SnapshotsHoldTheirOwnList
<1> QED BY <1>6, <1>7, <1>8, <1>9, <1>10, <1>11 DEF Mounted

\* What a settled request applies is the answer of the active one; an aborted
\* request applies nothing, because a mount that revalidates has a list to return.
LEMMA AppliedAnswer ==
  ASSUME HookInvariant, NEW r \in Requests, Settle(r), IsApplied(r)
  PROVE  /\ active = r /\ ~IsStale(r) /\ Outcome(r) = requests[r].answer
         /\ requests[r].answer \in Answers
         /\ requests[r].criteria = criteria /\ Mounted
<1> USE DEF HookInvariant
<1>1. requests[r] \in FlightStates /\ requests[r] # Free /\ requests[r].status = "served"
  BY DEF Settle, InFlight, TypeOK
<1>2. ~IsStale(r)
  <2> SUFFICES ASSUME IsStale(r), requests[r].revalidates, Outcome(r) = Error PROVE FALSE
    BY DEF IsApplied
  <2>1. requests[r].previousState # None /\ requests[r].previousState # Error
    BY <1>1 DEF AnswersAreOwn, InFlight, IsReusable
  <2> QED BY <2>1 DEF Outcome
<1>3. active = r /\ Outcome(r) = requests[r].answer
  BY <1>2 DEF IsStale, Outcome
<1>4. requests[r].answer \in Answers
  BY <1>1 DEF AnswersAreOwn, InFlight, FlightStates
<1>5. requests[r].criteria = criteria /\ Mounted
  BY <1>3, Kinds DEF OnlyActiveCounts
<1> QED BY <1>2, <1>3, <1>4, <1>5

\* An active request that applies nothing leaves the list that it was to replace.
LEMMA KeptList ==
  ASSUME HookInvariant, NEW r \in Requests, Settle(r), ~IsApplied(r), active = r
  PROVE  settled # None /\ settled.state \in Lists /\ settled.state.of = criteria
<1> USE DEF HookInvariant
<1>1. ~requests[r].aborted /\ ~IsStale(r)
  BY Kinds DEF OnlyActiveCounts, IsStale
<1>2. KeepsSnapshot(r)
  BY <1>1 DEF IsApplied
<1>3. settled # None /\ settled.state = requests[r].previousState
  BY <1>2, Kinds DEF KeepsSnapshot, OnlyActiveCounts
<1>4. settled.state \in Lists
  BY <1>2, <1>3, ReusableAnswers DEF KeepsSnapshot, TypeOK, Envelopes
<1>5. settled.state.of = criteria
  BY <1>3, <1>4, Kinds DEF ShownListMatchesCriteria
<1> QED BY <1>3, <1>4, <1>5

LEMMA SettleStep ==
  ASSUME HookInvariant, NEW r \in Requests, Settle(r)
  PROVE  HookInvariant'
<1> USE DEF HookInvariant
<1>1. /\ requests' = [requests EXCEPT ![r] = Free]
      /\ active' = IF active = r THEN None ELSE active
      /\ isRefreshing' = IF active = r THEN FALSE ELSE isRefreshing
      /\ UNCHANGED <<today, version, criteria>>
  BY DEF Settle, Releases
<1>2. /\ requests'[r] = Free
      /\ \A x \in Requests \ {r} : requests'[x] = requests[x]
      /\ requests' \in [Requests -> FlightStates \cup {Free}]
  BY <1>1 DEF TypeOK
<1>3. AnswersAreOwn'
  BY <1>1, <1>2 DEF AnswersAreOwn, InFlight, IsReusable
<1>4. CASE IsApplied(r)
  <2>1. /\ active = r /\ Outcome(r) = requests[r].answer
        /\ requests[r].answer \in Answers
        /\ requests[r].criteria = criteria /\ Mounted
    BY <1>4, AppliedAnswer
  <2> DEFINE a == requests[r].answer
  <2>2. /\ settled' = [queryKey |-> criteria, state |-> a]
        /\ snapshots' = IF IsReusable(a) THEN [snapshots EXCEPT ![criteria] = a]
                        ELSE snapshots
    BY <1>4, <2>1 DEF Settle, ShowsUnder, SnapshotKey
  <2>3. requests[r] # Free
    BY DEF Settle, InFlight
  <2>4. IsReusable(a) => /\ a \in Lists /\ a.of = criteria /\ a.version <= version
    BY <2>1, <2>3, ReusableAnswers DEF AnswersAreOwn, InFlight
  <2> HIDE DEF a
  <2>5. criteria \in Criteria
    BY <2>1 DEF Mounted, TypeOK
  <2>6. settled' \in Envelopes /\ settled' # None
    BY <2>1, <2>2, <2>5, NoneAssumption DEF Envelopes, a
  <2>7. snapshots' \in [Criteria -> Lists \cup {None}]
    BY <2>2, <2>4 DEF TypeOK
  <2>8. TypeOK'
    BY <1>1, <1>2, <2>1, <2>6, <2>7 DEF TypeOK
  <2>9. active' = None /\ isRefreshing' = FALSE
    BY <1>1, <2>1
  <2>10. OnlyActiveCounts'
    BY <1>1, <1>2, <2>1, <2>9 DEF OnlyActiveCounts, InFlight
  <2>11. a # Error => IsReusable(a)
    BY <2>1, NoneAssumption DEF IsReusable, a
  <2>12. KnownVersions'
    <3>1. \A c \in Criteria : snapshots'[c] # None => snapshots'[c].version <= version
      BY <2>2, <2>4, <2>5 DEF KnownVersions, TypeOK
    <3> QED BY <3>1, <1>1, <2>2, <2>4, <2>9, <2>11 DEF KnownVersions
  <2>13. ShownListMatchesCriteria' /\ SnapshotsHoldTheirOwnList'
    <3>1. \A c \in Criteria : snapshots'[c] # None => snapshots'[c].of = c
      BY <2>2, <2>4, <2>5 DEF SnapshotsHoldTheirOwnList, TypeOK
    <3> QED BY <3>1, <1>1, <2>2, <2>4, <2>11
            DEF ShownListMatchesCriteria, SnapshotsHoldTheirOwnList
  <2> QED BY <1>1, <1>3, <2>1, <2>6, <2>8, <2>9, <2>10, <2>12, <2>13 DEF Mounted
<1>5. CASE ~IsApplied(r)
  <2>1. UNCHANGED <<settled, snapshots>>
    BY <1>5 DEF Settle
  <2>2. TypeOK'
    BY <1>1, <1>2, <2>1 DEF TypeOK
  <2>3. active # r => active' = active /\ isRefreshing' = isRefreshing
    BY <1>1
  <2>4. active = r => active' = None /\ isRefreshing' = FALSE /\ settled # None
    BY <1>1, <1>5, KeptList
  <2>5. OnlyActiveCounts'
    BY <1>1, <1>2, <2>1, <2>3, <2>4
       DEF OnlyActiveCounts, InFlight, IsReusable, Mounted, TypeOK
  <2>6. KnownVersions'
    BY <1>1, <1>2, <2>1, <2>3, <2>4 DEF KnownVersions, IsReusable, TypeOK
  <2>7. ShownListMatchesCriteria' /\ SnapshotsHoldTheirOwnList'
    BY <1>1, <2>1 DEF ShownListMatchesCriteria, SnapshotsHoldTheirOwnList
  <2> QED BY <1>1, <1>3, <2>1, <2>2, <2>3, <2>4, <2>5, <2>6, <2>7 DEF Mounted
<1> QED BY <1>4, <1>5

\* The three callers start a request for criteria; the reload keeps the page's.
LEMMA RequestSteps ==
  ASSUME TypeOK, NEW r \in Requests, ApplyRange(r) \/ ApplySearch(r) \/ ReloadSessions(r)
  PROVE  \E c \in Criteria, keep \in BOOLEAN :
           /\ Perform(r, c, keep, keep) /\ criteria' = c /\ UNCHANGED <<today, version>>
           /\ keep => criteria = c
<1>0. criteria \in Criteria
  BY DEF ApplyRange, ApplySearch, ReloadSessions, Mounted, TypeOK
<1>1. ASSUME ApplyRange(r) \/ ApplySearch(r)
      PROVE  \E c \in Criteria : Apply(r, c)
  <2>1. CASE ApplyRange(r)
    <3>1. PICK range \in Ranges \cup {Blank} :
            Apply(r, [criteria EXCEPT !.range =
                        IF range = Blank THEN DefaultRange[today] ELSE range])
      BY <2>1 DEF ApplyRange
    <3>2. (IF range = Blank THEN DefaultRange[today] ELSE range) \in Ranges
      BY CriteriaAssumption DEF TypeOK
    <3> QED BY <1>0, <3>1, <3>2 DEF Criteria
  <2>2. CASE ApplySearch(r)
    BY <1>0, <2>2 DEF ApplySearch, Criteria
  <2> QED BY <1>1, <2>1, <2>2
<1>2. CASE ReloadSessions(r)
  BY <1>0, <1>2 DEF ReloadSessions
<1>3. CASE ApplyRange(r) \/ ApplySearch(r)
  <2>1. PICK c \in Criteria : Apply(r, c)
    BY <1>1, <1>3
  <2>2. Perform(r, c, FALSE, FALSE) /\ criteria' = c /\ UNCHANGED <<today, version>>
    BY <2>1 DEF Apply
  <2> QED BY <2>2
<1> QED BY <1>2, <1>3

\* The passing of time and changes of the read model leave the hook as it is.
LEMMA UnchangedHook ==
  ASSUME HookInvariant, today' \in Days, version' \in 0 .. MaxVersion, version' >= version,
         UNCHANGED hookVars
  PROVE  HookInvariant'
<1> USE DEF HookInvariant
<1>0. version \in Nat /\ version' \in Nat
  BY VersionAssumption DEF TypeOK
<1>1. TypeOK'
  BY DEF TypeOK, hookVars
<1>2. AnswersAreOwn'
  <2> SUFFICES ASSUME NEW x \in Requests, requests[x] # Free
      PROVE /\ (requests[x].answer = None) = (requests[x].status = "sent")
            /\ IsReusable(requests[x].answer) =>
                 /\ requests[x].answer.of = requests[x].criteria
                 /\ requests[x].answer.version <= version'
            /\ requests[x].revalidates => IsReusable(requests[x].previousState)
    BY DEF AnswersAreOwn, InFlight, IsReusable, hookVars
  <2>1. requests[x].answer \in Answers \cup {None}
    BY DEF TypeOK, FlightStates
  <2>2. IsReusable(requests[x].answer) => requests[x].answer.version \in Nat
    BY <2>1, ReusableAnswers DEF Lists
  <2> QED BY <1>0, <2>2 DEF AnswersAreOwn, InFlight
<1>3. OnlyActiveCounts'
  BY DEF OnlyActiveCounts, InFlight, IsReusable, Mounted, hookVars
<1>4. KnownVersions'
  <2>1. /\ \A c \in Criteria : snapshots[c] # None => snapshots[c].version \in Nat
        /\ settled # None /\ settled.state # Error => settled.state.version \in Nat
    BY Kinds DEF TypeOK, Envelopes, Answers, Lists
  <2> QED BY <1>0, <2>1 DEF KnownVersions, IsReusable, hookVars
<1>5. ShownListMatchesCriteria' /\ SnapshotsHoldTheirOwnList'
  BY DEF ShownListMatchesCriteria, SnapshotsHoldTheirOwnList, hookVars
<1> QED BY <1>1, <1>2, <1>3, <1>4, <1>5 DEF Mounted, hookVars

\* An answer that is applied is a settled state.
LEMMA SettleApplies ==
  ASSUME HookInvariant, NEW r \in Requests, Settle(r), IsApplied(r)
  PROVE  settled' # None /\ settled'.state \in Answers
<1>1. /\ Outcome(r) \in Answers /\ requests[r].criteria = criteria /\ Mounted
  BY AppliedAnswer
<1>2. settled' = [queryKey |-> criteria, state |-> Outcome(r)]
  BY <1>1 DEF Settle, ShowsUnder
<1>3. criteria \in Criteria
  BY <1>1 DEF HookInvariant, TypeOK, Mounted
<1>4. settled' \in Envelopes
  BY <1>1, <1>2, <1>3 DEF Envelopes
<1> QED BY <1>1, <1>2, <1>4, NoneAssumption

\* HookInvariant is inductive.
LEMMA NextInvariant == HookInvariant /\ [Next]_vars => HookInvariant'
<1> SUFFICES ASSUME HookInvariant, [Next]_vars PROVE HookInvariant'
  OBVIOUS
<1>1. CASE Mount
  BY <1>1, MountStep
<1>2. CASE Unmount
  BY <1>2, UnmountStep
<1>3. CASE NextDay
  <2>1. today' \in Days /\ UNCHANGED <<version, hookVars>>
    BY <1>3, CriteriaAssumption DEF NextDay, HookInvariant, TypeOK, Days
  <2>2. version' \in 0 .. MaxVersion /\ version' >= version
    BY <2>1, VersionAssumption DEF HookInvariant, TypeOK
  <2> QED BY <2>1, <2>2, UnchangedHook
<1>4. CASE ModelChanges
  <2>1. version' \in 0 .. MaxVersion /\ version' >= version /\ UNCHANGED <<today, hookVars>>
    BY <1>4, VersionAssumption DEF ModelChanges, HookInvariant, TypeOK
  <2> QED BY <2>1, UnchangedHook DEF HookInvariant, TypeOK
<1>5. ASSUME NEW r \in Requests, ApplyRange(r) \/ ApplySearch(r) \/ ReloadSessions(r)
      PROVE  HookInvariant'
  <2>1. \E c \in Criteria, keep \in BOOLEAN :
          /\ Perform(r, c, keep, keep) /\ criteria' = c /\ UNCHANGED <<today, version>>
          /\ keep => criteria = c
    BY <1>5, RequestSteps DEF HookInvariant
  <2> QED BY <2>1, PerformStep
<1>6. ASSUME NEW r \in Requests, Serve(r) PROVE HookInvariant'
  BY <1>6, ServeStep
<1>7. ASSUME NEW r \in Requests, Settle(r) PROVE HookInvariant'
  BY <1>7, SettleStep
<1>8. CASE UNCHANGED vars
  <2>1. version \in 0 .. MaxVersion /\ today' \in Days
    BY <1>8 DEF HookInvariant, TypeOK, vars
  <2>2. version' = version /\ version' >= version /\ UNCHANGED hookVars
    BY <2>1, <1>8, VersionAssumption DEF vars
  <2> QED BY <2>1, <2>2, UnchangedHook
<1> QED BY <1>1, <1>2, <1>3, <1>4, <1>5, <1>6, <1>7, <1>8 DEF Next

-----------------------------------------------------------------------------
(* The theorems                                                            *)

\* The inductive invariant of the list hook holds in every reachable state.
THEOREM HookInvariantCorrect == Spec => []HookInvariant
<1> QED BY InitInvariant, NextInvariant, PTL DEF Spec

\* What the page shows belongs to the criteria that it says are applied.
THEOREM ShownListCorrect == Spec => []ShownListMatchesCriteria
<1>1. HookInvariant => ShownListMatchesCriteria
  BY DEF HookInvariant
<1> QED BY <1>1, HookInvariantCorrect, PTL

\* A snapshot is a list of its own criteria.
THEOREM SnapshotsCorrect == Spec => []SnapshotsHoldTheirOwnList
<1>1. HookInvariant => SnapshotsHoldTheirOwnList
  BY DEF HookInvariant
<1> QED BY <1>1, HookInvariantCorrect, PTL

\* A page that loads or refreshes has an answer to wait for.
THEOREM LoadingCorrect == Spec => []LoadingAwaitsAnAnswer
<1>1. HookInvariant => LoadingAwaitsAnAnswer
  BY DEF HookInvariant, LoadingAwaitsAnAnswer, OnlyActiveCounts
<1> QED BY <1>1, HookInvariantCorrect, PTL

\* No list is replaced by an older one.
THEOREM ListsGrowNewer == Spec => ListsNeverGetOlder
<1> DEFINE Newer ==
      /\ \A c \in Criteria :
           snapshots[c] # None => snapshots'[c].version >= snapshots[c].version
      /\ (/\ settled # None /\ settled' # None /\ criteria' = criteria
          /\ settled.state # Error /\ settled'.state # Error)
         => settled'.state.version >= settled.state.version
<1>1. HookInvariant /\ [Next]_vars => [Newer]_vars
  <2> SUFFICES ASSUME HookInvariant, Next PROVE Newer
    OBVIOUS
  <2> USE DEF HookInvariant
  <2>0. /\ \A c \in Criteria : snapshots[c] # None => snapshots[c].version \in Nat
        /\ settled # None /\ settled.state # Error => settled.state.version \in Nat
    BY Kinds DEF TypeOK, Envelopes, Answers, Lists
  <2>1. CASE UNCHANGED <<settled, snapshots>> \/ (settled' = None /\ UNCHANGED snapshots)
    BY <2>0, <2>1
  <2>2. CASE Mount
    <3>1. settled = None /\ UNCHANGED snapshots
      BY <2>2 DEF Mount
    <3> QED BY <3>1, <2>0
  <2>3. ASSUME NEW r \in Requests, Settle(r), IsApplied(r) PROVE Newer
    <3>1. /\ active = r /\ Outcome(r) = requests[r].answer
          /\ requests[r].answer \in Answers
          /\ requests[r].criteria = criteria
      BY <2>3, AppliedAnswer
    <3> DEFINE a == requests[r].answer
    <3>2. /\ settled' = [queryKey |-> criteria, state |-> a]
          /\ snapshots' = IF IsReusable(a) THEN [snapshots EXCEPT ![criteria] = a]
                          ELSE snapshots
      BY <2>3, <3>1 DEF Settle, ShowsUnder, SnapshotKey
    <3>3. a # Error => IsReusable(a)
      BY <3>1, NoneAssumption DEF IsReusable
    <3>4. IsReusable(a) =>
            /\ \A c \in Criteria : snapshots[c] # None => snapshots[c].version <= a.version
            /\ settled # None /\ settled.state # Error => settled.state.version <= a.version
      BY <3>1, Kinds DEF KnownVersions
    <3>5. IsReusable(a) => a.version \in Nat
      BY <3>1, ReusableAnswers DEF Lists
    <3> HIDE DEF a
    <3>6. \A c \in Criteria :
            snapshots[c] # None => snapshots'[c].version >= snapshots[c].version
      BY <3>2, <3>4, <3>5, <2>0 DEF TypeOK
    <3>7. settled # None /\ settled.state # Error /\ settled'.state # Error
            => settled'.state.version >= settled.state.version
      BY <3>2, <3>3, <3>4, <3>5, <2>0
    <3> QED BY <3>6, <3>7
  <2>4. ASSUME NEW r \in Requests, Settle(r), ~IsApplied(r) PROVE Newer
    BY <2>4, <2>1 DEF Settle
  <2>5. CASE Unmount
    BY <2>5, <2>1 DEF Unmount
  <2>6. CASE NextDay \/ ModelChanges
    BY <2>6, <2>1 DEF NextDay, ModelChanges, hookVars
  <2>7. ASSUME NEW r \in Requests, ApplyRange(r) \/ ApplySearch(r) \/ ReloadSessions(r)
        PROVE  Newer
    BY <2>7, <2>1 DEF ApplyRange, ApplySearch, ReloadSessions, Apply, Perform
  <2>8. ASSUME NEW r \in Requests, Serve(r) PROVE Newer
    BY <2>8, <2>1 DEF Serve
  <2> HIDE DEF Newer
  <2> QED BY <2>2, <2>3, <2>4, <2>5, <2>6, <2>7, <2>8 DEF Next
<1> QED BY <1>1, HookInvariantCorrect, PTL DEF Spec, ListsNeverGetOlder

\* The list hook implements the page that asks one question at a time.
THEOREM ViewerImplementation == Spec => ImplementsListViewer
<1> DEFINE Shown == IF settled = None THEN None ELSE settled.state
<1>1. Init => Viewer!Init
  BY DEF Init, Viewer!Init, Viewer!Closed
<1>2. HookInvariant /\ HookInvariant' /\ [Next]_vars
        => [Viewer!Next]_<<criteria, Shown, active # None>>
  <2> SUFFICES ASSUME HookInvariant, HookInvariant', [Next]_vars
      PROVE  Viewer!Next \/ UNCHANGED <<criteria, Shown, active # None>>
    OBVIOUS
  <2> USE DEF HookInvariant
  <2>1. CASE UNCHANGED <<criteria, settled, active>>
    BY <2>1
  <2>2. CASE Mount
    <3>1. Viewer!Closed
      BY <2>2 DEF Mount, Viewer!Closed, Mounted
    <3>2. criteria' \in Criteria /\ (active # None)' = TRUE
      BY <2>2, Kinds DEF Mount, TypeOK, Mounted
    <3>3. Shown' \in Viewer!ListsOf(criteria') \cup {None}
      <4> SUFFICES ASSUME settled' # None
          PROVE settled'.state \in Lists /\ settled'.state.of = criteria'
        BY DEF Viewer!ListsOf
      <4>1. settled'.state \in Lists
        BY <2>2, <3>2 DEF Mount, TypeOK, ReadReusableSnapshot
      <4> QED BY <4>1, Kinds DEF ShownListMatchesCriteria
    <3> QED BY <3>1, <3>2, <3>3 DEF Viewer!Next, Viewer!Open
  <2>3. CASE Unmount
    BY <2>3 DEF Unmount, Mounted, Viewer!Next, Viewer!Close, Viewer!Closed
  <2>4. ASSUME NEW r \in Requests, ApplyRange(r) \/ ApplySearch(r)
        PROVE  Viewer!Next
    <3>1. criteria # None /\ settled' = None /\ active' = r
      BY <2>4 DEF ApplyRange, ApplySearch, Apply, Perform, Mounted
    <3>2. criteria' \in Criteria /\ active' # None
      BY <2>4, <3>1, RequestSteps, Kinds
    <3> QED BY <3>1, <3>2 DEF Viewer!Next, Viewer!Ask
  <2>5. ASSUME NEW r \in Requests, ReloadSessions(r) PROVE Viewer!Next
    <3>1. criteria # None /\ UNCHANGED <<criteria, settled>> /\ active' # None
      BY <2>5, Kinds DEF ReloadSessions, Perform, Mounted
    <3> QED BY <3>1 DEF Viewer!Next, Viewer!Refresh
  <2>6. ASSUME NEW r \in Requests, Settle(r), IsApplied(r) PROVE Viewer!Next
    <3>1. /\ active = r /\ Outcome(r) = requests[r].answer
          /\ requests[r].answer \in Answers /\ requests[r].criteria = criteria
      BY <2>6, AppliedAnswer
    <3>2. /\ active # None /\ active' = None /\ criteria' = criteria
          /\ settled' = [queryKey |-> criteria, state |-> requests[r].answer]
      BY <2>6, <3>1, Kinds DEF Settle, Releases, ShowsUnder
    <3>3. settled' # None /\ settled'.state \in Answers
      BY <3>1, <3>2, <2>6 , SettleApplies
    <3>4. settled'.state \in Lists => settled'.state.of = criteria
      BY <3>2, <3>3, Kinds DEF ShownListMatchesCriteria
    <3>5. Shown' \in Viewer!ListsOf(criteria) \cup {Error}
      BY <3>3, <3>4 DEF Viewer!ListsOf, Answers
    <3> QED BY <3>2, <3>5 DEF Viewer!Next, Viewer!Answer
  <2>7. ASSUME NEW r \in Requests, Settle(r), ~IsApplied(r), active = r
        PROVE  Viewer!Next
    <3>1. settled # None /\ settled.state \in Lists /\ settled.state.of = criteria
      BY <2>7, KeptList
    <3>2. /\ active # None /\ active' = None /\ UNCHANGED <<criteria, settled>>
      BY <2>7, Kinds DEF Settle, Releases
    <3> QED BY <3>1, <3>2 DEF Viewer!Next, Viewer!Answer, Viewer!ListsOf
  <2>8. ASSUME NEW r \in Requests, Settle(r), ~IsApplied(r), active # r
        PROVE  UNCHANGED <<criteria, settled, active>>
    BY <2>8 DEF Settle, Releases
  <2>9. ASSUME NEW r \in Requests, Serve(r) PROVE UNCHANGED <<criteria, settled, active>>
    BY <2>9 DEF Serve
  <2>10. NextDay \/ ModelChanges \/ UNCHANGED vars => UNCHANGED <<criteria, settled, active>>
    BY DEF NextDay, ModelChanges, vars, hookVars
  <2> HIDE DEF Shown
  <2> QED BY <2>1, <2>2, <2>3, <2>4, <2>5, <2>6, <2>7, <2>8, <2>9, <2>10 DEF Next
<1> QED BY <1>1, <1>2, InitInvariant, NextInvariant, HookInvariantCorrect, PTL
        DEF Spec, Viewer!Spec, ImplementsListViewer
=============================================================================
