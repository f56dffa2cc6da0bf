---------------------- MODULE SessionDetailHookProofs ----------------------
(***************************************************************************)
(* Theorems about SessionDetailHook, for any number of fetches and sessions, *)
(* with and without StrictMode.                                             *)
(***************************************************************************)
EXTENDS SessionDetailHook, TLAPS

\* The answer of a fetch is of the session that was asked for.
AnswersAreOwn ==
  \A r \in Requests : InFlight(r) =>
    /\ (requests[r].answer = None) <=> (requests[r].status = "sent")
    /\ requests[r].answer # None /\ requests[r].answer.status = "success" =>
         requests[r].answer.of = requests[r].sessionId

\* A fetch that was not aborted is one of the two that the hook holds on to, and both
\* of these are in flight for the session in the route.
Holder(kind) == IF kind = "detail" THEN detailFetch ELSE rawFetch
OnlyHeldFetchesCount ==
  /\ \A r \in Requests :
       InFlight(r) /\ ~requests[r].aborted => r = Holder(requests[r].kind)
  /\ \A kind \in {"detail", "raw"} : Holder(kind) # None =>
       /\ InFlight(Holder(kind)) /\ ~requests[Holder(kind)].aborted
       /\ requests[Holder(kind)].kind = kind
       /\ requests[Holder(kind)].sessionId = route

\* What is not there yet is held.
WaitsForWhatItHolds ==
  /\ route # None /\ ~InSight => detailFetch # None
  /\ route # None /\ InSight /\ settled.status = "success" /\ settled.rawStatus = "loading" =>
       detailFetch # None \/ rawFetch # None
  /\ route = None => settled = None /\ detailFetch = None /\ rawFetch = None

DetailInvariant ==
  /\ TypeOK /\ DetailIsOfItsSession
  /\ AnswersAreOwn /\ OnlyHeldFetchesCount /\ WaitsForWhatItHolds

-----------------------------------------------------------------------------
(* Records                                                                 *)

LEMMA Kinds ==
  /\ None \notin SessionIds /\ None \notin Requests /\ None \notin Answers
  /\ None \notin Details /\ None \notin Absences
  /\ Free \notin FlightStates
BY NoneAssumption DEF Free, FlightStates

\* A fetch that was just sent.
LEMMA NewRequestType ==
  ASSUME NEW kind \in {"detail", "raw"}, NEW id \in SessionIds
  PROVE  /\ NewRequest(kind, id) \in FlightStates /\ NewRequest(kind, id) # Free
         /\ [NewRequest(kind, id) EXCEPT !.aborted = TRUE] \in FlightStates
         /\ [NewRequest(kind, id) EXCEPT !.aborted = TRUE].aborted
         /\ [NewRequest(kind, id) EXCEPT !.aborted = TRUE].status = "sent"
         /\ [NewRequest(kind, id) EXCEPT !.aborted = TRUE].answer = None
BY DEF NewRequest, FlightStates, Free

\* An abort changes nothing but the flag of the fetches in R.
LEMMA AbortFields ==
  ASSUME TypeOK, NEW R, NEW x \in Requests
  PROVE  LET q == Abort(requests, R)[x] IN
         /\ q \in FlightStates \cup {Free}
         /\ q = Free <=> requests[x] = Free
         /\ x \notin R => q = requests[x]
         /\ q # Free => /\ q.status = requests[x].status /\ q.kind = requests[x].kind
                        /\ q.sessionId = requests[x].sessionId /\ q.answer = requests[x].answer
                        /\ x \in R => q.aborted
BY DEF Abort, TypeOK, FlightStates, Free

-----------------------------------------------------------------------------
(* The steps                                                               *)

LEMMA InitInvariant == Init => DetailInvariant
BY DEF Init, DetailInvariant, TypeOK, DetailIsOfItsSession, AnswersAreOwn,
       OnlyHeldFetchesCount, WaitsForWhatItHolds, InFlight, Holder

LEMMA MountStep ==
  ASSUME DetailInvariant, NEW id \in SessionIds, Mount(id)
  PROVE  DetailInvariant'
<1> USE DEF DetailInvariant
<1>1. PICK r \in Requests :
        /\ ~InFlight(r) /\ detailFetch' = r
        /\ \/ requests' = [requests EXCEPT ![r] = NewRequest("detail", id)]
           \/ \E first \in Requests \ {r} :
                /\ ~InFlight(first)
                /\ requests' = [requests EXCEPT
                      ![r] = NewRequest("detail", id),
                      ![first] = [NewRequest("detail", id) EXCEPT !.aborted = TRUE]]
  BY DEF Mount
<1>2. /\ route = None /\ route' = id /\ UNCHANGED <<settled, rawFetch>>
      /\ settled = None /\ detailFetch = None /\ rawFetch = None
  BY DEF Mount, WaitsForWhatItHolds
<1>3. /\ requests'[r] = NewRequest("detail", id)
      /\ \A x \in Requests \ {r} :
           \/ requests'[x] = requests[x]
           \/ /\ requests'[x] \in FlightStates /\ requests'[x].aborted
              /\ requests'[x].status = "sent" /\ requests'[x].answer = None
      /\ requests' \in [Requests -> FlightStates \cup {Free}]
  BY <1>1, NewRequestType DEF TypeOK
<1>4. TypeOK' /\ DetailIsOfItsSession'
  BY <1>1, <1>2, <1>3 DEF TypeOK, DetailIsOfItsSession
<1>5. /\ ~NewRequest("detail", id).aborted /\ NewRequest("detail", id).kind = "detail"
      /\ NewRequest("detail", id).sessionId = id /\ NewRequest("detail", id).answer = None
      /\ NewRequest("detail", id).status = "sent" /\ NewRequest("detail", id) # Free
  BY NewRequestType DEF NewRequest
<1>6. AnswersAreOwn'
  BY <1>3, <1>5 DEF AnswersAreOwn, InFlight
<1>7. OnlyHeldFetchesCount'
  <2>1. \A x \in Requests \ {r} : requests'[x] # Free => requests'[x].aborted
    BY <1>2, <1>3, Kinds DEF OnlyHeldFetchesCount, InFlight, Holder
  <2> QED BY <1>1, <1>2, <1>3, <1>5, <2>1 DEF OnlyHeldFetchesCount, InFlight, Holder
<1>8. WaitsForWhatItHolds'
  BY <1>1, <1>2, Kinds DEF WaitsForWhatItHolds, InSight
<1> QED BY <1>4, <1>6, <1>7, <1>8

LEMMA ChangeRouteStep ==
  ASSUME DetailInvariant, NEW id \in SessionIds, ChangeRoute(id)
  PROVE  DetailInvariant'
<1> USE DEF DetailInvariant
<1>1. PICK r \in Requests :
        /\ ~InFlight(r) /\ detailFetch' = r
        /\ requests' = [CleanUp(requests) EXCEPT ![r] = NewRequest("detail", id)]
  BY DEF ChangeRoute
<1>2. route' = id /\ settled' = settled /\ rawFetch' = None
  BY DEF ChangeRoute
<1>3. \A x \in Requests : LET q == CleanUp(requests)[x] IN
        /\ q \in FlightStates \cup {Free}
        /\ q = Free <=> requests[x] = Free
        /\ q # Free => /\ q.status = requests[x].status /\ q.answer = requests[x].answer
                       /\ q.sessionId = requests[x].sessionId /\ q.aborted
  <2> SUFFICES ASSUME NEW x \in Requests, requests[x] # Free, x \notin {detailFetch, rawFetch}
               PROVE  requests[x].aborted
    BY AbortFields DEF CleanUp
  <2> QED BY DEF OnlyHeldFetchesCount, Holder, InFlight
<1>4. /\ requests'[r] = NewRequest("detail", id)
      /\ \A x \in Requests \ {r} : requests'[x] = CleanUp(requests)[x]
      /\ requests' \in [Requests -> FlightStates \cup {Free}]
  BY <1>1, <1>3, NewRequestType DEF CleanUp, Abort
<1>5. TypeOK' /\ DetailIsOfItsSession'
  BY <1>1, <1>2, <1>4 DEF TypeOK, DetailIsOfItsSession
<1>6. /\ ~NewRequest("detail", id).aborted /\ NewRequest("detail", id).kind = "detail"
      /\ NewRequest("detail", id).sessionId = id /\ NewRequest("detail", id).answer = None
      /\ NewRequest("detail", id).status = "sent" /\ NewRequest("detail", id) # Free
  BY NewRequestType DEF NewRequest
<1>7. AnswersAreOwn'
  BY <1>3, <1>4, <1>6 DEF AnswersAreOwn, InFlight
<1>8. OnlyHeldFetchesCount'
  BY <1>1, <1>2, <1>3, <1>4, <1>6 DEF OnlyHeldFetchesCount, InFlight, Holder
<1>9. WaitsForWhatItHolds'
  BY <1>1, <1>2, Kinds DEF WaitsForWhatItHolds, InSight
<1> QED BY <1>5, <1>7, <1>8, <1>9

LEMMA UnmountStep ==
  ASSUME DetailInvariant, Unmount
  PROVE  DetailInvariant'
<1> USE DEF DetailInvariant
<1>1. /\ route' = None /\ settled' = None /\ detailFetch' = None /\ rawFetch' = None
      /\ requests' = CleanUp(requests)
  BY DEF Unmount
<1>2. \A x \in Requests : LET q == CleanUp(requests)[x] IN
        /\ q \in FlightStates \cup {Free}
        /\ q = Free <=> requests[x] = Free
        /\ q # Free => /\ q.status = requests[x].status /\ q.answer = requests[x].answer
                       /\ q.sessionId = requests[x].sessionId /\ q.aborted
  <2> SUFFICES ASSUME NEW x \in Requests, requests[x] # Free, x \notin {detailFetch, rawFetch}
               PROVE  requests[x].aborted
    BY AbortFields DEF CleanUp
  <2> QED BY DEF OnlyHeldFetchesCount, Holder, InFlight
<1>3. requests' \in [Requests -> FlightStates \cup {Free}]
  BY <1>1, <1>2 DEF CleanUp, Abort
<1>4. TypeOK' /\ DetailIsOfItsSession'
  BY <1>1, <1>3 DEF TypeOK, DetailIsOfItsSession
<1>5. AnswersAreOwn' /\ OnlyHeldFetchesCount'
  BY <1>1, <1>2 DEF AnswersAreOwn, OnlyHeldFetchesCount, InFlight, Holder
<1>6. WaitsForWhatItHolds'
  BY <1>1 DEF WaitsForWhatItHolds
<1> QED BY <1>4, <1>5, <1>6

LEMMA RequestRawStep ==
  ASSUME DetailInvariant, NEW r \in Requests, RequestRaw(r)
  PROVE  DetailInvariant'
<1> USE DEF DetailInvariant
<1> DEFINE new == NewRequest("raw", route)
           old(x) == Abort(requests, {rawFetch})[x]
<1>1. /\ route \in SessionIds /\ settled \in Details /\ settled.sessionId = route
      /\ ~InFlight(r) /\ route' = route /\ detailFetch' = detailFetch /\ rawFetch' = r
      /\ settled' = [settled EXCEPT !.rawStatus = "loading"]
  BY DEF RequestRaw, InSight, TypeOK, Absences
<1>2. /\ new \in FlightStates /\ new # Free /\ new.kind = "raw" /\ new.sessionId = route
      /\ new.answer = None /\ new.status = "sent" /\ ~new.aborted
  BY <1>1, NewRequestType DEF NewRequest
<1>3. \A x \in Requests :
        /\ old(x) \in FlightStates \cup {Free}
        /\ old(x) = Free <=> requests[x] = Free
        /\ x # rawFetch => old(x) = requests[x]
        /\ old(x) # Free =>
             /\ old(x).status = requests[x].status /\ old(x).answer = requests[x].answer
             /\ old(x).kind = requests[x].kind /\ old(x).sessionId = requests[x].sessionId
             /\ x = rawFetch => old(x).aborted
  BY AbortFields
<1>4. /\ requests'[r] = new
      /\ \A x \in Requests \ {r} : requests'[x] = old(x)
      /\ requests' = [x \in Requests |-> requests'[x]]
  BY DEF RequestRaw, Abort
<1> HIDE DEF new, old
<1>5. requests' \in [Requests -> FlightStates \cup {Free}]
  BY <1>2, <1>3, <1>4
<1>6. settled' \in Details /\ settled'.sessionId = settled.sessionId /\ settled'.of = settled.of
  BY <1>1 DEF Details
<1>7. TypeOK' /\ DetailIsOfItsSession'
  <2>1. TypeOK'
    BY <1>1, <1>5, <1>6 DEF TypeOK
  <2>2. settled.of = settled.sessionId
    BY <1>1, Kinds DEF DetailIsOfItsSession, Details
  <2> QED BY <1>6, <2>1, <2>2 DEF DetailIsOfItsSession
<1>8. AnswersAreOwn'
  BY <1>2, <1>3, <1>4 DEF AnswersAreOwn, InFlight
<1>9. detailFetch # None => detailFetch # rawFetch /\ detailFetch # r /\ detailFetch \in Requests
  BY <1>1 DEF OnlyHeldFetchesCount, Holder, TypeOK
<1>10. OnlyHeldFetchesCount'
  <2>1. ASSUME NEW x \in Requests, requests'[x] # Free, ~requests'[x].aborted
        PROVE  x = (IF requests'[x].kind = "detail" THEN detailFetch' ELSE rawFetch')
    <3>1. CASE x = r
      BY <1>1, <1>2, <1>4, <3>1
    <3>2. CASE x # r
      <4>1. x # rawFetch /\ requests'[x] = requests[x]
        BY <1>3, <1>4, <2>1, <3>2
      <4>2. requests[x].kind = "detail"
        BY <2>1, <4>1 DEF OnlyHeldFetchesCount, Holder, InFlight, TypeOK, FlightStates
      <4> QED BY <1>1, <2>1, <4>1, <4>2 DEF OnlyHeldFetchesCount, Holder, InFlight
    <3> QED BY <3>1, <3>2
  <2>2. detailFetch' # None => requests'[detailFetch'] = requests[detailFetch]
    BY <1>1, <1>3, <1>4, <1>9
  <2> QED BY <1>1, <1>2, <1>4, <2>1, <2>2, Kinds DEF OnlyHeldFetchesCount, Holder, InFlight
<1>11. WaitsForWhatItHolds'
  BY <1>1, <1>6, Kinds DEF WaitsForWhatItHolds, InSight
<1> QED BY <1>7, <1>8, <1>10, <1>11

LEMMA ServeStep ==
  ASSUME DetailInvariant, NEW r \in Requests, Serve(r)
  PROVE  DetailInvariant'
<1> USE DEF DetailInvariant
<1>1. /\ requests[r] \in FlightStates /\ requests[r].status = "sent"
      /\ UNCHANGED <<route, settled, detailFetch, rawFetch>>
  BY DEF Serve, InFlight, TypeOK
<1>2. PICK a \in Answers :
        /\ requests' = [requests EXCEPT ![r].status = "served", ![r].answer = a]
        /\ a.status = "success" => a.of = requests[r].sessionId
  <2>0. PICK included \in IF requests[r].kind = "raw" THEN RawIncluded ELSE {FALSE} :
          \E a \in {[status |-> "success", of |-> requests[r].sessionId,
                     raw_included |-> included],
                    [status |-> "not_found"], [status |-> "error"]} :
            requests' = [requests EXCEPT ![r].status = "served", ![r].answer = a]
    BY DEF Serve
  <2>1. PICK a \in {[status |-> "success", of |-> requests[r].sessionId,
                     raw_included |-> included],
                    [status |-> "not_found"], [status |-> "error"]} :
          requests' = [requests EXCEPT ![r].status = "served", ![r].answer = a]
    BY <2>0
  <2>2. a \in Answers
    <3>1. included \in BOOLEAN /\ requests[r].sessionId \in SessionIds
      BY <1>1, <2>0, DetailAssumption DEF FlightStates
    <3> QED BY <2>1, <3>1 DEF Answers
  <2>3. a.status = "success" => a.of = requests[r].sessionId
    OBVIOUS
  <2> QED BY <2>1, <2>2, <2>3
<1>3. /\ requests'[r] \in FlightStates /\ requests'[r] # Free
      /\ requests'[r].status = "served" /\ requests'[r].answer = a
      /\ requests'[r].kind = requests[r].kind /\ requests'[r].sessionId = requests[r].sessionId
      /\ requests'[r].aborted = requests[r].aborted
  BY <1>1, <1>2 DEF TypeOK, FlightStates, Free
<1>4. /\ \A x \in Requests \ {r} : requests'[x] = requests[x]
      /\ requests' = [x \in Requests |-> requests'[x]]
  BY <1>2 DEF TypeOK
<1>5. requests' \in [Requests -> FlightStates \cup {Free}]
  BY <1>3, <1>4 DEF TypeOK
<1>6. TypeOK' /\ DetailIsOfItsSession' /\ WaitsForWhatItHolds'
  BY <1>1, <1>5 DEF TypeOK, DetailIsOfItsSession, WaitsForWhatItHolds, InSight
<1>7. AnswersAreOwn'
  <2>1. a # None
    BY Kinds
  <2> QED BY <1>2, <1>3, <1>4, <2>1 DEF AnswersAreOwn, InFlight
<1>8. \A x \in Requests :
        /\ requests'[x] = Free <=> requests[x] = Free
        /\ requests'[x] # Free => /\ requests'[x].kind = requests[x].kind
                                  /\ requests'[x].sessionId = requests[x].sessionId
                                  /\ requests'[x].aborted = requests[x].aborted
  BY <1>1, <1>3, <1>4, Kinds
<1>9. detailFetch \in Requests \cup {None} /\ rawFetch \in Requests \cup {None}
  BY DEF TypeOK
<1>10. OnlyHeldFetchesCount'
  BY <1>1, <1>8, <1>9 DEF OnlyHeldFetchesCount, InFlight, Holder
<1> QED BY <1>6, <1>7, <1>10

\* A fetch that is no longer held leaves everything else; the answer of one that is
\* held settles what it was asked for.
LEMMA SettleStep ==
  ASSUME DetailInvariant, NEW r \in Requests, Settle(r)
  PROVE  DetailInvariant'
<1> USE DEF DetailInvariant
<1>1. /\ requests[r] \in FlightStates /\ requests[r].answer \in Answers
      /\ route' = route
      /\ detailFetch' = (IF detailFetch = r THEN None ELSE detailFetch)
      /\ rawFetch' = (IF rawFetch = r THEN None ELSE rawFetch)
  BY DEF Settle, InFlight, TypeOK, FlightStates, AnswersAreOwn
<1>2. /\ requests'[r] = Free
      /\ \A x \in Requests \ {r} : requests'[x] = requests[x]
      /\ requests' \in [Requests -> FlightStates \cup {Free}]
  BY DEF Settle, TypeOK
<1>3. AnswersAreOwn'
  BY <1>2 DEF AnswersAreOwn, InFlight
<1>4. OnlyHeldFetchesCount'
  <2>1. ASSUME NEW x \in Requests, requests'[x] # Free, ~requests'[x].aborted
        PROVE  x = (IF requests'[x].kind = "detail" THEN detailFetch' ELSE rawFetch')
    <3>1. x # r /\ requests'[x] = requests[x]
      BY <1>2, <2>1
    <3> QED BY <1>1, <2>1, <3>1 DEF OnlyHeldFetchesCount, Holder, InFlight
  <2>2. /\ detailFetch' # None => detailFetch' = detailFetch /\ detailFetch \in Requests \ {r}
        /\ rawFetch' # None => rawFetch' = rawFetch /\ rawFetch \in Requests \ {r}
    BY <1>1 DEF TypeOK
  <2>3. /\ detailFetch' # None => requests'[detailFetch'] = requests[detailFetch]
        /\ rawFetch' # None => requests'[rawFetch'] = requests[rawFetch]
    BY <1>2, <2>2
  <2> QED BY <1>1, <2>1, <2>2, <2>3 DEF OnlyHeldFetchesCount, Holder, InFlight
<1>5. CASE requests[r].aborted
  <2>1. settled' = settled /\ r # detailFetch /\ r # rawFetch
    BY <1>1, <1>5, Kinds DEF Settle, DetailApplies, RawApplies, OnlyHeldFetchesCount, Holder
  <2> QED BY <1>1, <1>2, <1>3, <1>4, <2>1
          DEF TypeOK, DetailIsOfItsSession, WaitsForWhatItHolds, InSight
<1>6. CASE ~requests[r].aborted /\ requests[r].kind = "detail"
  <2>1. r = detailFetch /\ requests[r].sessionId = route /\ route \in SessionIds
    BY <1>1, <1>6, Kinds DEF OnlyHeldFetchesCount, Holder, Settle, FlightStates
  <2>2. settled' = DetailOf(route, requests[r].answer)
    BY <1>6, <2>1 DEF Settle, DetailApplies
  <2>3. /\ settled' \in Details \cup Absences /\ settled'.sessionId = route
        /\ settled'.status = "success" =>
             settled'.of = route /\ settled'.rawStatus \in {"included", "idle"}
    <3>1. CASE requests[r].answer.status = "success"
      <4>1. requests[r].answer.of = route
        BY <1>1, <2>1, <3>1, Kinds DEF AnswersAreOwn, InFlight
      <4>2. RawStatusOf(requests[r].answer) \in {"included", "idle"}
        BY DEF RawStatusOf
      <4> QED BY <2>1, <2>2, <3>1, <4>1, <4>2 DEF DetailOf, Details
    <3>2. CASE requests[r].answer.status # "success"
      <4>1. requests[r].answer.status \in {"not_found", "error"}
        BY <1>1, <3>2 DEF Answers
      <4> QED BY <2>1, <2>2, <3>2, <4>1 DEF DetailOf, Absences
    <3> QED BY <3>1, <3>2
  <2>4. TypeOK' /\ DetailIsOfItsSession'
    BY <1>1, <1>2, <2>3 DEF TypeOK, DetailIsOfItsSession
  <2>5. WaitsForWhatItHolds'
    BY <1>1, <2>1, <2>3, Kinds DEF WaitsForWhatItHolds, InSight
  <2> QED BY <1>3, <1>4, <2>4, <2>5
<1>7. CASE ~requests[r].aborted /\ requests[r].kind = "raw"
  <2>1. /\ r = rawFetch /\ requests[r].sessionId = route /\ route \in SessionIds
        /\ detailFetch' = detailFetch
    BY <1>1, <1>7, Kinds DEF OnlyHeldFetchesCount, Holder, Settle, FlightStates, InFlight
  <2>2. CASE ~RawApplies(r)
    <3>1. settled' = settled /\ ~(InSight /\ settled.status = "success")
      BY <1>7, <2>1, <2>2 DEF Settle, RawApplies, InSight
    <3> QED BY <1>1, <1>2, <1>3, <1>4, <2>1, <3>1
            DEF TypeOK, DetailIsOfItsSession, WaitsForWhatItHolds, InSight
  <2>3. CASE RawApplies(r)
    <3>1. settled' = WithRaw(requests[r].answer)
      BY <1>7, <2>3 DEF Settle
    <3>2. settled \in Details /\ settled.sessionId = route
      BY <2>1, <2>3 DEF RawApplies, TypeOK, Absences
    <3>3. /\ settled' \in Details /\ settled'.sessionId = route /\ settled'.of = route
          /\ settled'.rawStatus # "loading"
      <4>1. CASE requests[r].answer.status = "success"
        <5>1. requests[r].answer.of = route
          BY <1>1, <2>1, <4>1, Kinds DEF AnswersAreOwn, InFlight
        <5>2. RawStatusOf(requests[r].answer) \in {"included", "idle"}
          BY DEF RawStatusOf
        <5> QED BY <2>1, <3>1, <3>2, <4>1, <5>1, <5>2 DEF WithRaw, Details
      <4>2. CASE requests[r].answer.status # "success"
        <5>1. settled.of = route
          BY <3>2, Kinds DEF DetailIsOfItsSession, Details
        <5> QED BY <3>1, <3>2, <4>2, <5>1 DEF WithRaw, Details
      <4> QED BY <4>1, <4>2
    <3>4. TypeOK' /\ DetailIsOfItsSession'
      BY <1>1, <1>2, <3>3 DEF TypeOK, DetailIsOfItsSession
    <3>5. WaitsForWhatItHolds'
      BY <1>1, <2>1, <3>3, Kinds DEF WaitsForWhatItHolds, InSight
    <3> QED BY <1>3, <1>4, <3>4, <3>5
  <2> QED BY <2>2, <2>3
<1> QED BY <1>1, <1>5, <1>6, <1>7 DEF FlightStates

\* DetailInvariant is inductive.
LEMMA NextInvariant == DetailInvariant /\ [Next]_vars => DetailInvariant'
<1> SUFFICES ASSUME DetailInvariant, [Next]_vars PROVE DetailInvariant'
  OBVIOUS
<1>1. CASE Unmount \/ \E id \in SessionIds : Mount(id) \/ ChangeRoute(id)
  BY <1>1, UnmountStep, MountStep, ChangeRouteStep
<1>2. CASE \E r \in Requests : RequestRaw(r) \/ Serve(r) \/ Settle(r)
  BY <1>2, RequestRawStep, ServeStep, SettleStep
<1>3. CASE UNCHANGED vars
  BY <1>3 DEF vars, DetailInvariant, TypeOK, DetailIsOfItsSession, AnswersAreOwn,
              OnlyHeldFetchesCount, WaitsForWhatItHolds, InFlight, Holder, InSight
<1> QED BY <1>1, <1>2, <1>3 DEF Next

-----------------------------------------------------------------------------
(* The theorems                                                            *)

\* The inductive invariant of the detail hook holds in every reachable state.
THEOREM DetailInvariantCorrect == Spec => []DetailInvariant
<1> QED BY InitInvariant, NextInvariant, PTL DEF Spec

\* A detail is kept under the id of the session it is of, whatever arrives late.
THEOREM DetailCorrect == Spec => []DetailIsOfItsSession
<1>1. DetailInvariant => DetailIsOfItsSession
  BY DEF DetailInvariant
<1> QED BY <1>1, DetailInvariantCorrect, PTL

\* A page that loads, or whose raw payloads do, has an answer to wait for.
THEOREM LoadingCorrect == Spec => []LoadingIsAwaited
<1>1. DetailInvariant => LoadingIsAwaited
  <2> SUFFICES ASSUME DetailInvariant, route # None PROVE LoadingIsAwaited
    BY DEF LoadingIsAwaited
  <2> USE DEF DetailInvariant
  <2>1. ASSUME detailFetch # None PROVE Awaited({"detail"}) /\ Awaited({"detail", "raw"})
    <3>1. /\ detailFetch \in Requests /\ InFlight(detailFetch) /\ ~requests[detailFetch].aborted
          /\ requests[detailFetch].kind = "detail" /\ requests[detailFetch].sessionId = route
      BY <2>1 DEF OnlyHeldFetchesCount, Holder, TypeOK
    <3> QED BY <3>1 DEF Awaited
  <2>2. ASSUME rawFetch # None PROVE Awaited({"detail", "raw"})
    <3>1. /\ rawFetch \in Requests /\ InFlight(rawFetch) /\ ~requests[rawFetch].aborted
          /\ requests[rawFetch].kind = "raw" /\ requests[rawFetch].sessionId = route
      BY <2>2 DEF OnlyHeldFetchesCount, Holder, TypeOK
    <3> QED BY <3>1 DEF Awaited
  <2> QED BY <2>1, <2>2 DEF LoadingIsAwaited, WaitsForWhatItHolds
<1> QED BY <1>1, DetailInvariantCorrect, PTL
=============================================================================
