----------------------------- MODULE ListViewer -----------------------------
(***************************************************************************)
(* What a user of the session list is promised, with no request, abort or  *)
(* snapshot in sight: the page asks for one list at a time, and what it    *)
(* shows answers the criteria that are applied.                            *)
(***************************************************************************)
CONSTANTS Criteria, Lists, Error, None

VARIABLES criteria, shown, asking

ListsOf(c) == {list \in Lists : list.of = c}

Closed == criteria = None /\ shown = None /\ asking = FALSE

\* The page opens with what it remembers of the default criteria, and asks.
Open ==
  /\ Closed
  /\ criteria' \in Criteria
  /\ shown' \in ListsOf(criteria') \cup {None}
  /\ asking' = TRUE

Close == criteria # None /\ Closed'

\* Other criteria, or the same ones again: what was shown is gone.
Ask ==
  /\ criteria # None /\ criteria' \in Criteria
  /\ shown' = None /\ asking' = TRUE

\* The same question again, over what is shown.
Refresh == criteria # None /\ asking' = TRUE /\ UNCHANGED <<criteria, shown>>

\* The one answer; an error may leave a list that is shown.
Answer ==
  /\ asking /\ asking' = FALSE
  /\ \/ shown' \in ListsOf(criteria) \cup {Error}
     \/ shown \in ListsOf(criteria) /\ UNCHANGED shown
  /\ UNCHANGED criteria

Init == Closed
Next == Open \/ Close \/ Ask \/ Refresh \/ Answer
Spec == Init /\ [][Next]_<<criteria, shown, asking>>
=============================================================================
