---------------------------- MODULE EventReading ----------------------------
(***************************************************************************)
(* What becomes of the events of one session: CurrentSessionReader reads   *)
(* events.jsonl line by line while the CLI appends to it, and              *)
(* LegacySessionReader reads its document at once; EventNormalizer maps    *)
(* each line; the projectors make the conversation and the activity of it, *)
(* the detail presenter says where each issue is shown, and the search text *)
(* by which the list finds the session is built from these.                *)
(*                                                                         *)
(* A line is what the mapping tells apart: its type, the role and content  *)
(* it carries, its tool requests, whether it has a time, and the models it *)
(* names.  A session that is done stays as it was read.                    *)
(***************************************************************************)
EXTENDS Naturals, Sequences

CONSTANTS
  Lines,    \* what the CLI writes as a line or timeline entry
  MaxLines, \* bound: the lines of a file
  Models,
  Nil

CurrentMessages == {"user.message", "assistant.message", "system.message"}
LegacyMessages == {"user_message", "assistant_message", "system_message"}
DetailTypes == {"assistant.turn_start", "tool.execution_complete", "hook.start", "skill.invoked"}
Roles == {"user", "assistant", "system", "tool"}
EmptyReasons == {"events_unavailable", "no_events", "no_conversation_messages"}

\* json: a hash, another value, or not JSON.  calls: no tool requests, all of them
\* legible, some not, or something that is not a list.  dataModel: what
\* data.currentModel or data.model says.
LineValues ==
  [json : {"hash", "value", "broken"},
   type : CurrentMessages \cup LegacyMessages \cup DetailTypes
            \cup {"session.shutdown", "assistant.usage", "other"},
   role : Roles \cup {Nil}, content : BOOLEAN, timed : BOOLEAN,
   calls : {"none", "complete", "partial", "malformed"},
   model : Models \cup {Nil}, dataModel : Models \cup {Nil}]

ASSUME LinesAssumption == Lines \subseteq LineValues /\ MaxLines \in Nat
ASSUME NilAssumption ==
  Nil \notin Models \cup Roles \cup EmptyReasons \cup Nat \cup [priority : 0 .. 3, value : Models]

VARIABLES
  format,      \* of the session's source
  metadataOk,  \* workspace.yaml, or the legacy document, can be read
  file,        \* the lines written so far
  cut,         \* how much of the last line is written
  there, readable, \* what stat says of the file
  pc,          \* the reader's next statement
  position,    \* lines the reader has taken from the file
  torn,        \* it has taken the first part of the next one as a line
  sequence,    \* lines each_line has given
  events, issues,
  candidate,   \* selected_model_candidate
  taken        \* history: the lines that were taken in one piece, with their numbers

source == <<format, metadataOk>>
onDisk == <<file, cut, there, readable>>
result == <<sequence, events, issues, candidate, taken>>
vars == <<source, onDisk, pc, position, torn, result>>

-----------------------------------------------------------------------------
(* EventNormalizer                                                         *)

RoleOfType(type) ==
  IF type = "user.message" THEN "user"
  ELSE IF type = "assistant.message" THEN "assistant" ELSE "system"

\* A current message without a role has that of its type.
RoleOf(line) ==
  IF line.type \in CurrentMessages /\ line.role = Nil THEN RoleOfType(line.type) ELSE line.role

HasCalls(line) == line.type \in CurrentMessages /\ line.calls \in {"complete", "partial"}

\* A message of a user or an assistant may consist of tool requests alone.
ContentMissing(line) ==
  ~line.content /\ ~(line.type \in {"user.message", "assistant.message"} /\ HasCalls(line))

IsPartialMessage(line) ==
  \/ ~line.timed \/ RoleOf(line) = Nil \/ ContentMissing(line)
  \/ line.type \in CurrentMessages /\ line.calls \in {"partial", "malformed"}

IsMessage(line) == line.type \in LegacyMessages \/ (format = "current" /\ line.type \in CurrentMessages)
IsDetail(line) == format = "current" /\ line.type \in DetailTypes

Kind(line) ==
  IF line.json # "hash" THEN "unknown"
  ELSE IF IsMessage(line) THEN "message"
  ELSE IF IsDetail(line) THEN "detail" ELSE "unknown"

IsPartial(line) ==
  \/ Kind(line) = "message" /\ IsPartialMessage(line)
  \/ Kind(line) = "detail" /\ ~line.timed

Event(line, n) ==
  [sequence |-> n, kind |-> Kind(line), partial |-> IsPartial(line),
   role |-> IF Kind(line) = "message" THEN RoleOf(line) ELSE Nil,
   content |-> Kind(line) = "message" /\ line.content,
   calls |-> Kind(line) = "message" /\ HasCalls(line),
   raw |-> line]

\* Variant: issues count the lines from zero.
IssueFromZero(code, n) == [code |-> code, sequence |-> IF n = Nil THEN Nil ELSE n - 1]
Issue(code, n) == [code |-> code, sequence |-> n]

\* Variant: a detail that is mapped in part has no issue.
EventIssuesOfMessages(line, n) ==
  IF Kind(line) = "unknown" THEN <<Issue("unknown_shape", n)>>
  ELSE IF Kind(line) = "message" /\ IsPartial(line) THEN <<Issue("partial_mapping", n)>>
  ELSE <<>>
EventIssues(line, n) ==
  IF Kind(line) = "unknown" THEN <<Issue("unknown_shape", n)>>
  ELSE IF IsPartial(line) THEN <<Issue("partial_mapping", n)>> ELSE <<>>

-----------------------------------------------------------------------------
(* The model of the session                                                *)

Priority(type) ==
  IF type = "session.shutdown" THEN 3
  ELSE IF type = "tool.execution_complete" THEN 2
  ELSE IF type = "assistant.usage" THEN 1 ELSE 0

\* extract_model_candidate: what the type says of data comes before the event's own.
ModelCandidate(line) ==
  IF line.json # "hash" THEN Nil
  ELSE IF Priority(line.type) > 0 /\ line.dataModel # Nil
       THEN [priority |-> Priority(line.type), value |-> line.dataModel]
  ELSE IF line.model # Nil THEN [priority |-> 0, value |-> line.model] ELSE Nil

\* Variant: the first of equal priority is kept.
ChooseFirst(current, next) ==
  IF next = Nil \/ (current # Nil /\ next.priority <= current.priority) THEN current ELSE next
ChooseModelCandidate(current, next) ==
  IF next = Nil \/ (current # Nil /\ next.priority < current.priority) THEN current ELSE next

-----------------------------------------------------------------------------
(* CurrentSessionReader                                                    *)

Goto(label) == pc' = label

Stop(found) ==
  /\ Goto("done")
  /\ issues' = Append(issues, found)
  /\ UNCHANGED <<source, onDisk, position, torn, sequence, events, candidate, taken>>

\* read_workspace.
WorkspaceIssues == IF metadataOk THEN <<>> ELSE <<Issue("workspace", Nil)>>
ReadWorkspace ==
  /\ pc = "workspace" /\ format = "current"
  /\ Goto("exist")
  /\ issues' = WorkspaceIssues
  /\ UNCHANGED <<source, onDisk, position, torn, sequence, events, candidate, taken>>

EventsExist ==
  /\ pc = "exist"
  /\ \/ ~there /\ Stop(Issue("events_missing", Nil))
     \/ there /\ Goto("stat") /\ UNCHANGED <<source, onDisk, position, torn, result>>

\* readable_file? of both readers: what the permission bits let the process do.
IsReadableFile == there /\ readable

\* readable_file?, the stat for the modification time, and the open: where each
\* finds the file gone or closed, events.jsonl is not accessible.
StatAndOpen ==
  /\ pc = "stat"
  /\ \/ ~IsReadableFile /\ Stop(Issue("events_unreadable", Nil))
     \/ IsReadableFile /\ Goto("lines")
        /\ UNCHANGED <<source, onDisk, position, torn, result>>

\* What the normalizer makes of the next line.
Normalize(line) ==
  /\ events' = Append(events, Event(line, sequence'))
  /\ issues' = issues \o EventIssues(line, sequence')

\* The block of each_line; a line that is not JSON gives an issue and no event.
Take(line) ==
  /\ sequence' = sequence + 1
  /\ IF line.json = "broken"
       THEN /\ issues' = Append(issues, Issue("parse_failed", sequence'))
            /\ UNCHANGED <<events, candidate>>
       ELSE /\ Normalize(line)
            /\ candidate' = ChooseModelCandidate(candidate, ModelCandidate(line))

Fragment(line) == [line EXCEPT !.json = "broken"]

NextIsWhole == position + 1 < Len(file) \/ cut = "no"

TakeLine ==
  /\ pc = "lines" /\ position < Len(file) /\ ~torn /\ NextIsWhole
  /\ Take(file[position + 1])
  /\ position' = position + 1
  /\ taken' = taken \cup {<<sequence', file[position + 1]>>}
  /\ UNCHANGED <<source, onDisk, pc, torn>>

\* At the end of the file gets returns what there is of a line.  It is a fragment,
\* or lacks its newline only.
TakeFirstPart ==
  /\ pc = "lines" /\ position < Len(file) /\ ~torn /\ ~NextIsWhole
  /\ torn' = TRUE
  /\ \/ /\ cut = "inside"
        /\ Take(Fragment(file[position + 1])) /\ UNCHANGED taken
     \/ /\ cut = "before_newline"
        /\ Take(file[position + 1])
        /\ taken' = taken \cup {<<sequence', file[position + 1]>>}
  /\ UNCHANGED <<source, onDisk, pc, position>>

\* The line was completed before the reader saw the end: the rest is a line too.
TakeRest ==
  /\ pc = "lines" /\ torn /\ NextIsWhole
  /\ Take(Fragment(file[position + 1]))
  /\ torn' = FALSE /\ position' = position + 1
  /\ UNCHANGED <<source, onDisk, pc, taken>>

AtEnd == IF torn THEN ~NextIsWhole ELSE position = Len(file)
FinishReading ==
  /\ pc = "lines" /\ AtEnd
  /\ Goto("done")
  /\ UNCHANGED <<source, onDisk, position, torn, result>>

\* Variant: a failure in the middle ends the loop and keeps what there is.
BreakOffReading ==
  /\ pc = "lines"
  /\ Goto("done")
  /\ UNCHANGED <<source, onDisk, position, torn, result>>

\* rescue SystemCallError: what was read is given up.
FailReading ==
  /\ pc = "lines"
  /\ Goto("done")
  /\ events' = <<>> /\ candidate' = Nil
  /\ issues' = Append(WorkspaceIssues, Issue("events_unreadable", Nil))
  /\ UNCHANGED <<source, onDisk, position, torn, sequence, taken>>

-----------------------------------------------------------------------------
(* LegacySessionReader                                                     *)

ReadLegacy ==
  /\ pc = "workspace" /\ format = "legacy"
  /\ IF ~IsReadableFile THEN Stop(Issue("legacy_unreadable", Nil))
     ELSE IF ~metadataOk THEN Stop(Issue("legacy_parse_failed", Nil))
     ELSE Goto("timeline") /\ UNCHANGED <<source, onDisk, position, torn, result>>

\* The block of each_with_index; the model is the document's, not the entries'.
TakeEntry ==
  /\ pc = "timeline" /\ position < Len(file)
  /\ sequence' = sequence + 1 /\ position' = position + 1
  /\ Normalize(file[position + 1])
  /\ taken' = taken \cup {<<sequence', file[position + 1]>>}
  /\ UNCHANGED <<source, onDisk, pc, torn, candidate>>

FinishTimeline ==
  /\ pc = "timeline" /\ position = Len(file)
  /\ Goto("done")
  /\ UNCHANGED <<source, onDisk, position, torn, result>>

-----------------------------------------------------------------------------
(* The Copilot CLI, which writes current sessions only.  A line takes two   *)
(* writes at most.                                                         *)

Reading == pc # "done" /\ format = "current"

CliWrites ==
  /\ Reading /\ (there \/ file = <<>>) /\ cut = "no" /\ Len(file) < MaxLines
  /\ \E line \in Lines : file' = Append(file, line)
  /\ cut' \in {"no", "inside", "before_newline"} /\ there' = TRUE
  /\ UNCHANGED <<source, readable, pc, position, torn, result>>

CliCompletesLine ==
  /\ Reading /\ there /\ cut # "no" /\ cut' = "no"
  /\ UNCHANGED <<source, file, there, readable, pc, position, torn, result>>

\* A file that is open is read to its end, whatever its directory says.
BeforeOpen == pc \in {"workspace", "exist", "stat"} /\ format = "current"

RemoveFile ==
  /\ BeforeOpen /\ there /\ there' = FALSE
  /\ UNCHANGED <<source, file, cut, readable, pc, position, torn, result>>

Chmod ==
  /\ BeforeOpen /\ readable' = ~readable
  /\ UNCHANGED <<source, file, cut, there, pc, position, torn, result>>

-----------------------------------------------------------------------------

\* A legacy document is JSON as a whole or not at all.
Init ==
  /\ format \in {"current", "legacy"} /\ metadataOk \in BOOLEAN
  /\ \E n \in 0 .. MaxLines : file \in [1 .. n -> Lines]
  /\ cut \in {"no", "inside", "before_newline"}
  /\ there \in BOOLEAN /\ readable \in BOOLEAN
  /\ file = <<>> => cut = "no"
  /\ ~there => file = <<>>
  /\ format = "legacy" => /\ cut = "no" /\ there
                          /\ \A k \in DOMAIN file : file[k].json # "broken"
  /\ pc = "workspace" /\ position = 0 /\ torn = FALSE /\ sequence = 0
  /\ events = <<>> /\ issues = <<>> /\ candidate = Nil /\ taken = {}

Next ==
  \/ ReadWorkspace \/ EventsExist \/ StatAndOpen
  \/ TakeLine \/ TakeFirstPart \/ TakeRest \/ FinishReading \/ FailReading
  \/ ReadLegacy \/ TakeEntry \/ FinishTimeline
  \/ CliWrites \/ CliCompletesLine \/ RemoveFile \/ Chmod

Spec == Init /\ [][Next]_vars

-----------------------------------------------------------------------------
(* The session that the readers return                                     *)

Codes == {issues[k].code : k \in DOMAIN issues}

\* source_state_for of both readers.
SourceState ==
  IF Codes = {} THEN "complete"
  ELSE IF Codes = {"events_missing"} THEN "workspace_only" ELSE "degraded"

SelectedModel == IF candidate = Nil THEN Nil ELSE candidate.value

-----------------------------------------------------------------------------
(* The projectors                                                          *)

\* Variant: a message that was mapped in part is left out.
IsWholeUtterance(e) ==
  e.kind = "message" /\ e.role \in {"user", "assistant"} /\ ~e.partial

\* conversation_event? and activity_event?
IsConversation(e) ==
  e.kind = "message" /\ e.role \in {"user", "assistant"} /\ (e.content \/ e.calls)
IsActivity(e) ==
  e.kind \in {"detail", "unknown"} \/ (e.kind = "message" /\ e.role = "system")

\* The entries are the places of their events, in the order of which they are listed.
Conversation == {k \in DOMAIN events : IsConversation(events[k])}
Activity == {k \in DOMAIN events : IsActivity(events[k])}

\* Variant: a line that is not JSON does not count.
EventsUnreadable == "events_unreadable" \in Codes
EventsUnavailable == Codes \cap {"events_unreadable", "parse_failed"} # {}

EmptyReason ==
  IF Conversation # {} THEN Nil
  ELSE IF events # <<>> THEN "no_conversation_messages"
  ELSE IF EventsUnavailable THEN "events_unavailable" ELSE "no_events"

-----------------------------------------------------------------------------
(* SessionDetailPresenter                                                  *)

Sequences == {events[k].sequence : k \in DOMAIN events}

\* Variant: the issues of the session are those without a sequence.
IsUnnumbered(issue) == issue.sequence = Nil

\* The issues of the session are those of none of its events.
IsOfSession(issue) == issue.sequence = Nil \/ issue.sequence \notin Sequences
SessionIssues == {n \in DOMAIN issues : IsOfSession(issues[n])}
IssuesShownWith(k) == {n \in DOMAIN issues : issues[n].sequence = events[k].sequence}

-----------------------------------------------------------------------------
(* SessionDetailPage                                                       *)

\* The lists of issues on the page, and where in them one is: of the session, of the
\* utterances and of the activity.  The timeline of the detail is not rendered.
PlacesOnPage(n) ==
  {<<"session", m>> : m \in SessionIssues \cap {n}}
    \cup {<<"conversation", k>> : k \in {e \in Conversation : n \in IssuesShownWith(e)}}
    \cup {<<"activity", k>> : k \in {e \in Activity : n \in IssuesShownWith(e)}}

HasActivityWarning == \E k \in Activity : events[k].partial \/ IssuesShownWith(k) # {}

-----------------------------------------------------------------------------
(* SessionSearchTextBuilder: the words of the conversation, and the codes  *)
(* of the session's issues and of the conversation's.                      *)

SearchWords == {events[k].raw : k \in {e \in Conversation : events[e].content}}

CodesOf(shown) == {issues[n].code : n \in shown}
\* Variant: the issues of the session only.
SearchCodesOfSession == CodesOf(SessionIssues)
SearchCodes == CodesOf(SessionIssues \cup UNION {IssuesShownWith(k) : k \in Conversation})

-----------------------------------------------------------------------------
(* Properties                                                              *)

Done == pc = "done"
Numbered(code) == {issues[k].sequence : k \in {j \in DOMAIN issues : issues[j].code = code}}

\* TypeOK: the type of every variable; sequences count from one.
Events == [sequence : Nat \ {0}, kind : {"message", "detail", "unknown"}, partial : BOOLEAN,
           role : Roles \cup {Nil}, content : BOOLEAN, calls : BOOLEAN, raw : LineValues]
IssueCodes == {"workspace", "events_missing", "events_unreadable", "parse_failed", "unknown_shape",
               "partial_mapping", "legacy_unreadable", "legacy_parse_failed"}
TypeOK ==
  /\ format \in {"current", "legacy"} /\ metadataOk \in BOOLEAN
  /\ file \in Seq(Lines) /\ Len(file) <= MaxLines
  /\ cut \in {"no", "inside", "before_newline"}
  /\ there \in BOOLEAN /\ readable \in BOOLEAN
  /\ pc \in {"workspace", "exist", "stat", "lines", "timeline", "done"}
  /\ position \in 0 .. Len(file) /\ torn \in BOOLEAN /\ sequence \in Nat
  /\ candidate \in [priority : 0 .. 3, value : Models] \cup {Nil}
  /\ events \in Seq(Events) /\ taken \subseteq (Nat \ {0}) \X LineValues
  /\ issues \in Seq([code : IssueCodes, sequence : (Nat \ {0}) \cup {Nil}])

\* A session is called complete only if every line that its file had when the
\* reader saw its end is one of its events, at its own place and mapped in full, and
\* its metadata was read: no damage, torn line or failure hides behind "complete".
CompleteSessionsLostNothing ==
  Done /\ SourceState = "complete" =>
    /\ metadataOk /\ Len(events) = Len(file)
    /\ \A k \in DOMAIN events :
         /\ events[k].sequence = k /\ events[k].raw = file[k]
         /\ events[k].kind # "unknown" /\ ~events[k].partial

\* Every line that was read is an event or a parse issue of its own number, and an
\* event has an issue exactly if something of it could not be mapped; unless the
\* reading failed, which leaves no event and says so.
EveryLineIsReported ==
  pc \in {"lines", "timeline", "done"} /\ "events_unreadable" \notin Codes =>
    /\ Sequences \cap Numbered("parse_failed") = {}
    /\ Sequences \cup Numbered("parse_failed") = 1 .. sequence
    /\ \A k \in DOMAIN events :
         (events[k].kind = "unknown" \/ events[k].partial)
           = (events[k].sequence \in Numbered("unknown_shape") \cup Numbered("partial_mapping"))

\* The model of a session is the one named last among those of the highest
\* priority that its legible lines name.
SelectedModelIsTheLatestBest ==
  Done /\ format = "current" =>
    LET named == {k \in DOMAIN events : ModelCandidate(events[k].raw) # Nil}
        rank(k) == ModelCandidate(events[k].raw).priority
        isBest(k) == \A j \in named : rank(j) < rank(k) \/ (rank(j) = rank(k) /\ j <= k) IN
    /\ named = {} => SelectedModel = Nil
    /\ \A k \in named : isBest(k) => SelectedModel = ModelCandidate(events[k].raw).value

TypeOfRole == [user |-> "user.message", assistant |-> "assistant.message"]
\* What a user or the assistant says in a line, in words or tool requests.
Says(line, role) ==
  /\ line.json = "hash"
  /\ \/ /\ format = "current" /\ line.type \in CurrentMessages
        /\ line.role = role \/ (line.role = Nil /\ line.type = TypeOfRole[role])
        /\ line.content \/ line.calls \in {"complete", "partial"}
     \/ line.type \in LegacyMessages /\ line.role = role /\ line.content
IsSaid(line) == Says(line, "user") \/ Says(line, "assistant")

\* The conversation is what the user and the assistant said in the lines that were
\* read in one piece, in their order and none twice, however damaged the rest of
\* those lines; the activity takes none of it.
NoUtteranceIsLost ==
  Done /\ "events_unreadable" \notin Codes =>
    /\ {<<events[k].sequence, events[k].raw>> : k \in Conversation} = {t \in taken : IsSaid(t[2])}
    /\ \A j, k \in DOMAIN events : j < k => events[j].sequence < events[k].sequence
    /\ \A k \in Activity : ~IsSaid(events[k].raw)

\* A message of no known speaker, or one that says nothing.
SaysNothing(line) == /\ Kind(line) = "message" /\ RoleOf(line) # "system"
                     /\ ~IsSaid(line)

\* No issue is on the page twice, and whatever went wrong outside a message that says
\* nothing is on it, also where its line has no event.  Where an issue has no place the
\* session is at least marked as degraded.  The activity warns exactly if it shows an issue.
IssuesHaveOnePlace ==
  Done =>
    /\ \A n \in DOMAIN issues :
         /\ \A p, q \in PlacesOnPage(n) : p = q
         /\ PlacesOnPage(n) = {} =>
              /\ SourceState = "degraded"
              /\ \E k \in DOMAIN events : n \in IssuesShownWith(k) /\ SaysNothing(events[k].raw)
    /\ \A j, k \in DOMAIN issues : issues[j] = issues[k] => j = k
    /\ HasActivityWarning = \E k \in Activity : IssuesShownWith(k) # {}

\* A search finds a session by every word that was said in it, by nothing that its
\* activity says, and by all that went wrong in reading it: the files and lines
\* that were lost, and the utterances that were mapped in part.
SearchFindsSaidAndLost ==
  Done =>
    /\ "events_unreadable" \notin Codes =>
         SearchWords = {line \in {t[2] : t \in taken} : line.content /\ IsSaid(line)}
    /\ Codes \ {"unknown_shape", "partial_mapping"} \subseteq SearchCodes
    /\ \A k \in DOMAIN events :
         events[k].partial /\ IsSaid(events[k].raw) => "partial_mapping" \in SearchCodes

\* "No events" is said of a current session only if the reader took no line and was
\* not kept from the file: lines that are all damaged are "unavailable".
EmptyReasonIsHonest ==
  Done /\ format = "current" =>
    (EmptyReason = "no_events") = (sequence = 0 /\ "events_unreadable" \notin Codes)
=============================================================================
