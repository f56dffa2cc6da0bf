----------------------------- MODULE AtomicSync -----------------------------
(***************************************************************************)
(* What POST /api/history/sync promises its callers, without the service's *)
(* steps: one sync at a time, the read model replaced in one piece when it *)
(* is saved and untouched otherwise, no row ever taken away.               *)
(***************************************************************************)
CONSTANTS Requests, SessionIds, NoRow

VARIABLES
  model,    \* the read model, by session id
  holder,   \* the request that holds the sync lock, as a set of at most one
  outcome   \* what became of each request

vars == <<model, holder, outcome>>

Open(r) == outcome[r] = "open" /\ r \notin holder
Settle(r, result) == outcome' = [outcome EXCEPT ![r] = result]

Init ==
  /\ DOMAIN model = SessionIds
  /\ holder = {}
  /\ outcome = [r \in Requests |-> "open"]

Accept(r) ==
  /\ Open(r) /\ holder = {}
  /\ holder' = {r}
  /\ UNCHANGED <<model, outcome>>

\* Told of the sync that is running.
Conflict(r) ==
  /\ Open(r) /\ holder # {}
  /\ Settle(r, "conflict")
  /\ UNCHANGED <<model, holder>>

\* Told of an error before anything was started.
Refuse(r) ==
  /\ Open(r)
  /\ Settle(r, "refused")
  /\ UNCHANGED <<model, holder>>

Save(r) ==
  /\ holder = {r} /\ outcome[r] = "open"
  /\ holder' = {}
  /\ Settle(r, "saved")
  /\ DOMAIN model' = SessionIds
  /\ \A i \in SessionIds : model[i] # NoRow => model'[i] # NoRow

Fail(r) ==
  /\ holder = {r} /\ outcome[r] = "open"
  /\ holder' = {}
  /\ Settle(r, "failed")
  /\ UNCHANGED model

\* A saved sync whose run could not be read back is reported as failed; what
\* it saved stays.
Retract(r) ==
  /\ outcome[r] = "saved"
  /\ Settle(r, "failed")
  /\ UNCHANGED <<model, holder>>

Next == \E r \in Requests :
  Accept(r) \/ Conflict(r) \/ Refuse(r) \/ Save(r) \/ Fail(r) \/ Retract(r)

Spec == Init /\ [][Next]_vars
=============================================================================
