-------------------------- MODULE SessionDetailHook --------------------------
(***************************************************************************)
(* useSessionDetail: the detail page of the session in the route.  Another  *)
(* session id in the route cleans up and fetches again without the page     *)
(* being left; the state of the session before stays in settledState, out   *)
(* of sight, and is in sight again when the route comes back to it.         *)
(* requestRaw fetches the same detail with raw payloads.                    *)
(*                                                                          *)
(* As in SessionIndexHook a render and its effects are one step, the client *)
(* never changes and a request is named by its AbortController.             *)
(***************************************************************************)
CONSTANTS
  Requests,     \* names of fetches
  SessionIds,
  RawIncluded,  \* values of raw_included in the answer to a raw request
  DoubleMount,  \* StrictMode in development runs the mount effect twice
  None

ASSUME DetailAssumption ==
  RawIncluded \subseteq BOOLEAN /\ DoubleMount \in BOOLEAN

Answers ==
  [status : {"success"}, of : SessionIds, raw_included : BOOLEAN]
    \cup [status : {"not_found", "error"}]

\* The envelope's sessionId, and the settled state: a detail of a session and its
\* raw status, or nothing to show.
Details == [sessionId : SessionIds, status : {"success"}, of : SessionIds,
            rawStatus : {"idle", "loading", "included", "error"}]
Absences == [sessionId : SessionIds, status : {"not_found", "error"}]

ASSUME NoneAssumption == None \notin Answers \cup Details \cup Absences
                                      \cup SessionIds \cup Requests

VARIABLES
  route,       \* the session id in the route; None elsewhere
  settled,     \* settledState
  requests,    \* the fetches in flight
  detailFetch, \* the controller of the effect that is in force
  rawFetch     \* rawAbortControllerRef

vars == <<route, settled, requests, detailFetch, rawFetch>>

Free == [status |-> "free"]
NewRequest(kind, id) == [status |-> "sent", kind |-> kind, sessionId |-> id,
                         aborted |-> FALSE, answer |-> None]
InFlight(r) == requests[r] # Free
FlightStates == [status : {"sent", "served"}, kind : {"detail", "raw"},
                 sessionId : SessionIds, aborted : BOOLEAN, answer : Answers \cup {None}]

Abort(reqs, R) ==
  [r \in Requests |-> IF r \in R /\ reqs[r] # Free THEN [reqs[r] EXCEPT !.aborted = TRUE]
                      ELSE reqs[r]]

-----------------------------------------------------------------------------
(* The route                                                               *)

\* Variant: the cleanup forgets the detail's own controller.
CleanUpRaw(reqs) == Abort(reqs, {rawFetch})
CleanUp(reqs) == Abort(reqs, {detailFetch, rawFetch})

\* The page opens; StrictMode leaves an aborted fetch behind.
Mount(id) ==
  /\ route = None /\ route' = id
  /\ \E r \in Requests :
       /\ ~InFlight(r) /\ detailFetch' = r
       /\ \/ /\ ~DoubleMount
             /\ requests' = [requests EXCEPT ![r] = NewRequest("detail", id)]
          \/ /\ DoubleMount
             /\ \E first \in Requests \ {r} :
                  /\ ~InFlight(first)
                  /\ requests' = [requests EXCEPT
                        ![r] = NewRequest("detail", id),
                        ![first] = [NewRequest("detail", id) EXCEPT !.aborted = TRUE]]
  /\ UNCHANGED <<settled, rawFetch>>

\* Another id in the route of the open page: cleanup, then the effect again.
ChangeRoute(id) ==
  /\ route # None /\ id # route /\ route' = id
  /\ \E r \in Requests :
       /\ ~InFlight(r) /\ detailFetch' = r
       /\ requests' = [CleanUp(requests) EXCEPT ![r] = NewRequest("detail", id)]
  /\ rawFetch' = None
  /\ UNCHANGED settled

Unmount ==
  /\ route # None /\ route' = None
  /\ requests' = CleanUp(requests)
  /\ settled' = None /\ detailFetch' = None /\ rawFetch' = None

-----------------------------------------------------------------------------
(* requestRaw                                                              *)

\* Variant: the session before stays on the page while the next is loading.
InSightUntilReplaced == settled # None

\* What the hook returns: the settled state, if it is of the route's session.
InSight == settled # None /\ settled.sessionId = route

RequestRaw(r) ==
  /\ route # None /\ InSight /\ settled.status = "success"
  /\ settled.rawStatus \notin {"loading", "included"}
  /\ ~InFlight(r)
  /\ requests' = [Abort(requests, {rawFetch}) EXCEPT ![r] = NewRequest("raw", route)]
  /\ rawFetch' = r
  /\ settled' = [settled EXCEPT !.rawStatus = "loading"]
  /\ UNCHANGED <<route, detailFetch>>

-----------------------------------------------------------------------------
(* Answers                                                                 *)

\* The API reads the row, or the fetch fails on its way there.
Serve(r) ==
  /\ InFlight(r) /\ requests[r].status = "sent"
  /\ \E included \in IF requests[r].kind = "raw" THEN RawIncluded ELSE {FALSE} :
     \E answer \in {[status |-> "success", of |-> requests[r].sessionId,
                     raw_included |-> included],
                    [status |-> "not_found"], [status |-> "error"]} :
       requests' = [requests EXCEPT ![r].status = "served", ![r].answer = answer]
  /\ UNCHANGED <<route, settled, detailFetch, rawFetch>>

\* Variant: the absence of raw payloads gets a status that the hook's type lacks.
RawStatusMisnamed(answer) == IF answer.raw_included THEN "included" ELSE "excluded"
RawStatusOf(answer) == IF answer.raw_included THEN "included" ELSE "idle"

\* Variant: a detail that is there already is not replaced.
DetailAppliesOnce(r) ==
  ~requests[r].aborted /\ (settled = None \/ settled.sessionId # requests[r].sessionId)
DetailApplies(r) == ~requests[r].aborted

DetailOf(id, answer) ==
  IF answer.status = "success"
  THEN [sessionId |-> id, status |-> "success", of |-> answer.of,
        rawStatus |-> RawStatusOf(answer)]
  ELSE [sessionId |-> id, status |-> answer.status]

\* Variant: neither the abort nor the session of the latest state is looked at.
RawAppliesUnchecked(r) == settled # None /\ settled.status = "success"
RawApplies(r) ==
  /\ ~requests[r].aborted
  /\ settled # None /\ settled.sessionId = requests[r].sessionId
  /\ settled.status = "success"

\* A raw answer replaces the detail; anything else leaves it and says so.
WithRaw(answer) ==
  IF answer.status = "success"
  THEN [settled EXCEPT !.of = answer.of, !.rawStatus = RawStatusOf(answer)]
  ELSE [settled EXCEPT !.rawStatus = "error"]

\* The then-handler of a fetch; abort() of a settled fetch does nothing.
Settle(r) ==
  /\ InFlight(r) /\ requests[r].status = "served"
  /\ settled' =
       IF requests[r].kind = "detail" /\ DetailApplies(r)
       THEN DetailOf(requests[r].sessionId, requests[r].answer)
       ELSE IF requests[r].kind = "raw" /\ RawApplies(r) THEN WithRaw(requests[r].answer)
       ELSE settled
  /\ requests' = [requests EXCEPT ![r] = Free]
  /\ detailFetch' = IF detailFetch = r THEN None ELSE detailFetch
  /\ rawFetch' = IF rawFetch = r THEN None ELSE rawFetch
  /\ UNCHANGED route

-----------------------------------------------------------------------------

Init ==
  /\ route = None /\ settled = None
  /\ requests = [r \in Requests |-> Free]
  /\ detailFetch = None /\ rawFetch = None

Next ==
  \/ \E id \in SessionIds : Mount(id) \/ ChangeRoute(id)
  \/ Unmount
  \/ \E r \in Requests : RequestRaw(r) \/ Serve(r) \/ Settle(r)

Spec == Init /\ [][Next]_vars

\* A browser resolves or rejects every fetch, and runs what waits for it.
FairSpec == Spec /\ \A r \in Requests : WF_vars(Serve(r)) /\ WF_vars(Settle(r))

-----------------------------------------------------------------------------
(* Properties                                                              *)

\* TypeOK: the type of every variable.
TypeOK ==
  /\ route \in SessionIds \cup {None}
  /\ settled \in Details \cup Absences \cup {None}
  /\ requests \in [Requests -> FlightStates \cup {Free}]
  /\ detailFetch \in Requests \cup {None} /\ rawFetch \in Requests \cup {None}

\* A detail is kept under the id of the session it is of, also when answers for
\* other sessions and raw answers arrive after the route has moved on.
DetailIsOfItsSession ==
  settled # None /\ settled.status = "success" => settled.of = settled.sessionId

Awaited(kinds) ==
  \E r \in Requests : /\ InFlight(r) /\ ~requests[r].aborted
                      /\ requests[r].kind \in kinds /\ requests[r].sessionId = route

\* A page that loads waits for an answer it will accept, and so does a raw status
\* "loading", even one left over from an earlier visit whose request was aborted.
LoadingIsAwaited ==
  route # None =>
    /\ ~InSight => Awaited({"detail"})
    /\ InSight /\ settled.status = "success" /\ settled.rawStatus = "loading" =>
         Awaited({"detail", "raw"})

\* A session that stays in the route is shown in the end: its detail, that it does
\* not exist, or an error.
DetailIsShown ==
  \A id \in SessionIds : route = id /\ ~InSight ~> InSight \/ route # id

\* "loading" raw payloads ends while the session stays in the route.
RawLoading(id) == /\ route = id /\ InSight /\ settled.status = "success"
                  /\ settled.rawStatus = "loading"
RawLoadingEnds == \A id \in SessionIds : RawLoading(id) ~> ~RawLoading(id)
=============================================================================
