--------------------------- MODULE MCEventReading ---------------------------
(* An instance of EventReading for TLC. *)
EXTENDS EventReading

CONSTANTS m1, m2

Line(type) == [json |-> "hash", type |-> type, role |-> Nil, content |-> FALSE,
               timed |-> TRUE, calls |-> "none", model |-> Nil, dataModel |-> Nil]

SomeLines == {
  [Line("user.message") EXCEPT !.content = TRUE],
  [Line("user.message") EXCEPT !.content = TRUE, !.timed = FALSE],
  Line("user.message"),
  [Line("assistant.message") EXCEPT !.calls = "complete", !.model = m1],
  [Line("assistant.message") EXCEPT !.content = TRUE, !.calls = "malformed"],
  [Line("system.message") EXCEPT !.content = TRUE],
  [Line("user_message") EXCEPT !.role = "user", !.content = TRUE],
  [Line("assistant_message") EXCEPT !.role = "tool", !.content = TRUE],
  [Line("tool.execution_complete") EXCEPT !.dataModel = m1],
  [Line("tool.execution_complete") EXCEPT !.dataModel = m2, !.timed = FALSE],
  [Line("session.shutdown") EXCEPT !.dataModel = m2],
  [Line("other") EXCEPT !.json = "value"],
  [Line("other") EXCEPT !.json = "broken"] }
=============================================================================
