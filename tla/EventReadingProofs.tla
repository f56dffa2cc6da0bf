------------------------- MODULE EventReadingProofs -------------------------
(***************************************************************************)
(* Proofs about EventReading, for files of any lines and any length: its    *)
(* type, that every line is reported, that a complete session has lost      *)
(* nothing, which model is selected, and what becomes of each utterance and *)
(* each issue on the detail and in the search.                              *)
(***************************************************************************)
EXTENDS EventReading, SequenceTheorems, TLAPS

Issues == [code : IssueCodes, sequence : (Nat \ {0}) \cup {Nil}]
Candidates == [priority : 0 .. 3, value : Models]

-----------------------------------------------------------------------------
(* Lines, events and issues                                                *)

LEMMA CandidatesOfLines ==
  ASSUME NEW line \in LineValues
  PROVE  ModelCandidate(line) \in Candidates \cup {Nil}
<1>1. Priority(line.type) \in 0 .. 3
  BY DEF Priority
<1>2. line.model \in Models \cup {Nil} /\ line.dataModel \in Models \cup {Nil}
  BY DEF LineValues
<1> QED BY <1>1, <1>2 DEF ModelCandidate, Candidates

LEMMA FragmentsAreBroken ==
  ASSUME NEW line \in LineValues
  PROVE  Fragment(line) \in LineValues /\ Fragment(line).json = "broken"
BY DEF Fragment, LineValues

LEMMA KindsOfLines ==
  ASSUME NEW line
  PROVE  Kind(line) \in {"message", "detail", "unknown"}
BY DEF Kind

\* An event has the number and the line it was made of.
LEMMA EventsOfLines ==
  ASSUME NEW line \in LineValues, NEW n \in Nat \ {0}
  PROVE  /\ Event(line, n) \in Events
         /\ Event(line, n).sequence = n /\ Event(line, n).raw = line
         /\ Event(line, n).kind = Kind(line) /\ Event(line, n).partial = IsPartial(line)
<1>1. RoleOf(line) \in Roles \cup {Nil}
  BY DEF RoleOf, RoleOfType, LineValues, Roles
<1>2. IsPartial(line) \in BOOLEAN
  BY Zenon DEF IsPartial
<1>3. (Kind(line) = "message" /\ line.content) \in BOOLEAN
  BY Zenon
<1>4. (Kind(line) = "message" /\ HasCalls(line)) \in BOOLEAN
  BY Zenon
<1>5. (IF Kind(line) = "message" THEN RoleOf(line) ELSE Nil) \in Roles \cup {Nil}
  BY <1>1
<1> QED BY <1>2, <1>3, <1>4, <1>5, KindsOfLines DEF Event, Events

\* An event has one issue of its number, exactly if something of it is not mapped.
LEMMA IssuesOfLines ==
  ASSUME NEW line, NEW n
  PROVE  \/ /\ EventIssues(line, n) = <<>>
            /\ Kind(line) # "unknown" /\ ~IsPartial(line)
         \/ /\ \E c \in {"unknown_shape", "partial_mapping"} :
                 /\ EventIssues(line, n) = <<Issue(c, n)>>
                 /\ c = "partial_mapping" \/ Kind(line) = "unknown"
            /\ Kind(line) = "unknown" \/ IsPartial(line)
BY Zenon DEF EventIssues

-----------------------------------------------------------------------------
(* What a line does to the events and the issues                           *)

IssueOnly ==
  /\ sequence' = sequence + 1 /\ events' = events
  /\ issues' = Append(issues, Issue("parse_failed", sequence + 1))

OneEvent(line) ==
  /\ sequence' = sequence + 1
  /\ events' = Append(events, Event(line, sequence + 1))
  /\ \/ issues' = issues /\ Kind(line) # "unknown" /\ ~IsPartial(line)
     \/ /\ Kind(line) = "unknown" \/ IsPartial(line)
        /\ \E c \in {"unknown_shape", "partial_mapping"} :
             /\ issues' = Append(issues, Issue(c, sequence + 1))
             /\ c = "partial_mapping" \/ Kind(line) = "unknown"

LEMMA NormalizeIsOneEvent ==
  ASSUME NEW line, issues \in Seq(Issues), sequence' = sequence + 1, Normalize(line)
  PROVE  OneEvent(line)
<1>1. events' = Append(events, Event(line, sequence + 1))
  BY DEF Normalize
<1>2. issues' = issues \o EventIssues(line, sequence + 1)
  BY DEF Normalize
<1>3. CASE EventIssues(line, sequence + 1) = <<>> /\ Kind(line) # "unknown" /\ ~IsPartial(line)
  <2>1. issues' = issues
    BY <1>2, <1>3
  <2> QED BY <1>1, <1>3, <2>1 DEF OneEvent
<1>4. CASE /\ \E c \in {"unknown_shape", "partial_mapping"} :
                /\ EventIssues(line, sequence + 1) = <<Issue(c, sequence + 1)>>
                /\ c = "partial_mapping" \/ Kind(line) = "unknown"
           /\ Kind(line) = "unknown" \/ IsPartial(line)
  <2>1. PICK c \in {"unknown_shape", "partial_mapping"} :
          /\ EventIssues(line, sequence + 1) = <<Issue(c, sequence + 1)>>
          /\ c = "partial_mapping" \/ Kind(line) = "unknown"
    BY <1>4
  <2>2. issues' = Append(issues, Issue(c, sequence + 1))
    BY <1>2, <2>1
  <2> QED BY <1>1, <1>4, <2>2, <2>1 DEF OneEvent
<1> QED BY <1>3, <1>4, IssuesOfLines

LEMMA TakeIsIssueOrEvent ==
  ASSUME NEW line, issues \in Seq(Issues), Take(line)
  PROVE  /\ line.json = "broken" => IssueOnly /\ candidate' = candidate
         /\ line.json # "broken" =>
              OneEvent(line) /\ candidate' = ChooseModelCandidate(candidate, ModelCandidate(line))
<1>1. sequence' = sequence + 1
  BY DEF Take
<1>2. ASSUME line.json = "broken" PROVE IssueOnly /\ candidate' = candidate
  BY <1>1, <1>2 DEF Take, IssueOnly
<1>3. ASSUME line.json # "broken"
      PROVE  OneEvent(line) /\ candidate' = ChooseModelCandidate(candidate, ModelCandidate(line))
  <2>1. Normalize(line) /\ candidate' = ChooseModelCandidate(candidate, ModelCandidate(line))
    BY <1>3 DEF Take
  <2> QED BY <2>1, <1>1, NormalizeIsOneEvent
<1> QED BY <1>2, <1>3

-----------------------------------------------------------------------------
(* Types                                                                   *)

\* A line of which the reader has taken the first part is not behind it yet.
ReadingType == TypeOK /\ (torn => position < Len(file) /\ pc \in {"lines", "done"})

LEMMA ChosenCandidates ==
  ASSUME NEW c \in Candidates \cup {Nil}, NEW d \in Candidates \cup {Nil}
  PROVE  ChooseModelCandidate(c, d) \in Candidates \cup {Nil}
BY DEF ChooseModelCandidate

\* What an effect of a line leaves well typed.
LEMMA LineEffectsAreTyped ==
  ASSUME ReadingType, NEW line \in LineValues, IssueOnly \/ OneEvent(line)
  PROVE  sequence' \in Nat /\ events' \in Seq(Events) /\ issues' \in Seq(Issues)
<1>1. sequence \in Nat /\ events \in Seq(Events) /\ issues \in Seq(Issues)
  BY DEF ReadingType, TypeOK, Issues
<1>2. sequence + 1 \in Nat \ {0}
  BY <1>1
<1>3. \A c \in IssueCodes : Issue(c, sequence + 1) \in Issues
  BY <1>2 DEF Issue, Issues
<1>4. {"parse_failed", "unknown_shape", "partial_mapping"} \subseteq IssueCodes
  BY DEF IssueCodes
<1>5. CASE IssueOnly
  BY <1>1, <1>2, <1>3, <1>4, <1>5 DEF IssueOnly
<1>6. CASE OneEvent(line)
  <2>1. events' \in Seq(Events)
    BY <1>1, <1>2, <1>6, EventsOfLines DEF OneEvent
  <2>2. \A c \in IssueCodes : Append(issues, Issue(c, sequence + 1)) \in Seq(Issues)
    BY <1>1, <1>3
  <2>3. issues' \in Seq(Issues)
    BY <1>1, <1>4, <1>6, <2>2 DEF OneEvent
  <2> QED BY <1>2, <1>6, <2>1, <2>3 DEF OneEvent
<1> QED BY <1>5, <1>6

\* The line that the reader takes next, and what becomes of the model by it.
LEMMA NextLineIsTyped ==
  ASSUME ReadingType, position < Len(file)
  PROVE  /\ position + 1 \in DOMAIN file
         /\ file[position + 1] \in LineValues
         /\ position + 1 \in 0 .. Len(file)
BY LinesAssumption DEF ReadingType, TypeOK

LEMMA CandidateIsTyped ==
  ASSUME ReadingType, NEW line \in LineValues,
         candidate' = candidate \/ candidate' = ChooseModelCandidate(candidate, ModelCandidate(line))
  PROVE  candidate' \in Candidates \cup {Nil}
BY ChosenCandidates, CandidatesOfLines DEF ReadingType, TypeOK, Candidates

LEMMA ReadingTypeInit == Init => ReadingType
<1> SUFFICES ASSUME Init PROVE ReadingType
  OBVIOUS
<1>1. file \in Seq(Lines) /\ Len(file) <= MaxLines /\ Len(file) \in Nat
  <2>1. PICK n \in 0 .. MaxLines : file \in [1 .. n -> Lines]
    BY DEF Init
  <2> QED BY <2>1, LinesAssumption
<1>2. events \in Seq(Events) /\ taken \subseteq (Nat \ {0}) \X LineValues /\ issues \in Seq(Issues)
  BY DEF Init
<1>3. position \in 0 .. Len(file) /\ sequence \in Nat /\ torn = FALSE
  BY <1>1 DEF Init
<1> QED BY <1>1, <1>2, <1>3 DEF Init, ReadingType, TypeOK, Issues, Candidates

\* A step that takes a line, in one piece or not.
LEMMA LineStepsAreTyped ==
  ASSUME ReadingType, NEW line \in LineValues, IssueOnly \/ OneEvent(line),
         candidate' = candidate \/ candidate' = ChooseModelCandidate(candidate, ModelCandidate(line)),
         UNCHANGED <<source, onDisk, pc>>,
         taken' = taken \/ \E l \in LineValues : taken' = taken \cup {<<sequence', l>>},
         position' \in 0 .. Len(file), torn' \in BOOLEAN,
         torn' => position' < Len(file) /\ pc \in {"lines", "done"}
  PROVE  ReadingType'
<1>1. sequence' \in Nat /\ events' \in Seq(Events) /\ issues' \in Seq(Issues)
  BY LineEffectsAreTyped
<1>2. candidate' \in Candidates \cup {Nil}
  BY CandidateIsTyped
<1>3. taken' \subseteq (Nat \ {0}) \X LineValues
  <2>1. taken \subseteq (Nat \ {0}) \X LineValues /\ sequence' \in Nat \ {0}
    BY DEF ReadingType, TypeOK, IssueOnly, OneEvent
  <2>2. CASE \E l \in LineValues : taken' = taken \cup {<<sequence', l>>}
    BY <2>1, <2>2
  <2> QED BY <2>1, <2>2
<1> QED BY <1>1, <1>2, <1>3 DEF ReadingType, TypeOK, source, onDisk, Issues, Candidates

LEMMA StopIsTyped ==
  ASSUME ReadingType, NEW c \in IssueCodes, Stop(Issue(c, Nil))
  PROVE  ReadingType'
<1>1. issues \in Seq(Issues) /\ Issue(c, Nil) \in Issues
  BY DEF ReadingType, TypeOK, Issue, Issues
<1>2. issues' \in Seq(Issues)
  BY <1>1 DEF Stop
<1> QED BY <1>2 DEF ReadingType, TypeOK, Stop, Goto, source, onDisk, Issues

LEMMA WorkspaceIssuesAreTyped == WorkspaceIssues \in Seq(Issues)
<1>1. Issue("workspace", Nil) \in Issues
  BY DEF Issue, Issues, IssueCodes
<1> QED BY <1>1 DEF WorkspaceIssues

LEMMA ReadingTypeNext == ReadingType /\ [Next]_vars => ReadingType'
<1> SUFFICES ASSUME ReadingType, [Next]_vars PROVE ReadingType'
  OBVIOUS
<1>1. CASE ReadWorkspace
  BY <1>1, WorkspaceIssuesAreTyped
     DEF ReadWorkspace, ReadingType, TypeOK, Goto, source, onDisk, Issues
<1>2. CASE EventsExist
  <2>1. CASE Stop(Issue("events_missing", Nil))
    BY <2>1, StopIsTyped DEF IssueCodes
  <2>2. CASE Goto("stat") /\ UNCHANGED <<source, onDisk, position, torn, result>>
    BY <1>2, <2>2 DEF EventsExist, ReadingType, TypeOK, Goto, source, onDisk, result
  <2> QED BY <1>2, <2>1, <2>2 DEF EventsExist
<1>3. CASE StatAndOpen
  <2>1. CASE Stop(Issue("events_unreadable", Nil))
    BY <2>1, StopIsTyped DEF IssueCodes
  <2>2. CASE Goto("lines") /\ UNCHANGED <<source, onDisk, position, torn, result>>
    BY <2>2 DEF ReadingType, TypeOK, Goto, source, onDisk, result
  <2> QED BY <1>3, <2>1, <2>2 DEF StatAndOpen
<1>4. CASE TakeLine
  <2>1. PICK line \in LineValues : line = file[position + 1]
    BY <1>4, NextLineIsTyped DEF TakeLine
  <2>2. Take(line) /\ UNCHANGED <<source, onDisk, pc, torn>> /\ taken' = taken \cup {<<sequence', line>>}
    BY <1>4, <2>1 DEF TakeLine
  <2>3. position' \in 0 .. Len(file) /\ torn' = FALSE
    BY <1>4, NextLineIsTyped DEF TakeLine, ReadingType, TypeOK
  <2> QED BY <2>2, <2>3, TakeIsIssueOrEvent, LineStepsAreTyped DEF ReadingType, TypeOK, Issues
<1>5. CASE TakeFirstPart
  <2>1. PICK line \in LineValues : line = file[position + 1]
    BY <1>5, NextLineIsTyped DEF TakeFirstPart
  <2>2. position' \in 0 .. Len(file) /\ torn' = TRUE /\ position' < Len(file)
        /\ UNCHANGED <<source, onDisk, pc>> /\ pc = "lines"
    BY <1>5 DEF TakeFirstPart, ReadingType, TypeOK
  <2>3. CASE Take(Fragment(line)) /\ UNCHANGED taken
    BY <2>2, <2>3, FragmentsAreBroken, TakeIsIssueOrEvent, LineStepsAreTyped
       DEF ReadingType, TypeOK, Issues
  <2>4. CASE Take(line) /\ taken' = taken \cup {<<sequence', line>>}
    BY <2>2, <2>4, TakeIsIssueOrEvent, LineStepsAreTyped DEF ReadingType, TypeOK, Issues
  <2> QED BY <1>5, <2>1, <2>3, <2>4 DEF TakeFirstPart
<1>6. CASE TakeRest
  <2>1. PICK line \in LineValues : line = file[position + 1]
    BY <1>6, NextLineIsTyped DEF TakeRest, ReadingType
  <2>2. Take(Fragment(line)) /\ UNCHANGED <<source, onDisk, pc, taken>>
    BY <1>6, <2>1 DEF TakeRest
  <2>3. position' \in 0 .. Len(file) /\ torn' = FALSE
    BY <1>6, NextLineIsTyped DEF TakeRest, ReadingType
  <2> QED BY <2>2, <2>3, FragmentsAreBroken, TakeIsIssueOrEvent, LineStepsAreTyped
       DEF ReadingType, TypeOK, Issues
<1>7. CASE FinishReading \/ FinishTimeline
  BY <1>7 DEF FinishReading, FinishTimeline, ReadingType, TypeOK, Goto, source, onDisk, result
<1>8. CASE FailReading
  <2>1. Issue("events_unreadable", Nil) \in Issues
    BY DEF Issue, Issues, IssueCodes
  <2>2. issues' \in Seq(Issues)
    BY <1>8, <2>1, WorkspaceIssuesAreTyped DEF FailReading
  <2> QED BY <1>8, <2>2 DEF FailReading, ReadingType, TypeOK, Goto, source, onDisk, Issues
<1>9. CASE ReadLegacy
  <2>1. CASE \E c \in {"legacy_unreadable", "legacy_parse_failed"} : Stop(Issue(c, Nil))
    BY <2>1, StopIsTyped DEF IssueCodes
  <2>2. CASE Goto("timeline") /\ UNCHANGED <<source, onDisk, position, torn, result>>
    BY <1>9, <2>2 DEF ReadLegacy, ReadingType, TypeOK, Goto, source, onDisk, result
  <2> QED BY <1>9, <2>1, <2>2 DEF ReadLegacy
<1>10. CASE TakeEntry
  <2>1. PICK line \in LineValues : line = file[position + 1]
    BY <1>10, NextLineIsTyped DEF TakeEntry
  <2>2. /\ Normalize(line) /\ sequence' = sequence + 1
        /\ UNCHANGED <<source, onDisk, pc, torn, candidate>> /\ taken' = taken \cup {<<sequence', line>>}
    BY <1>10, <2>1 DEF TakeEntry
  <2>3. position' \in 0 .. Len(file) /\ torn' = FALSE
    BY <1>10, NextLineIsTyped DEF TakeEntry, ReadingType, TypeOK
  <2> QED BY <2>2, <2>3, NormalizeIsOneEvent, LineStepsAreTyped DEF ReadingType, TypeOK, Issues
<1>11. CASE CliWrites
  <2>1. PICK line \in Lines : file' = Append(file, line)
    BY <1>11 DEF CliWrites
  <2>2. file' \in Seq(Lines) /\ Len(file') = Len(file) + 1 /\ Len(file') <= MaxLines
    BY <1>11, <2>1, LinesAssumption DEF CliWrites, ReadingType, TypeOK
  <2> QED BY <1>11, <2>2 DEF CliWrites, ReadingType, TypeOK, source, result
<1>12. CASE CliCompletesLine \/ RemoveFile
  <2>1. CASE CliCompletesLine
    BY <2>1 DEF CliCompletesLine, ReadingType, TypeOK, source, result
  <2>2. CASE RemoveFile
    BY <2>2 DEF RemoveFile, ReadingType, TypeOK, source, result
  <2> QED BY <1>12, <2>1, <2>2
<1>13. CASE Chmod
  <2>1. readable' \in BOOLEAN
    BY <1>13, Zenon DEF Chmod
  <2> QED BY <1>13, <2>1 DEF Chmod, ReadingType, TypeOK, source, result
<1>14. CASE UNCHANGED vars
  BY <1>14 DEF vars, ReadingType, TypeOK, source, onDisk, result
<1> QED BY <1>1, <1>2, <1>3, <1>4, <1>5, <1>6, <1>7, <1>8, <1>9, <1>10, <1>11, <1>12, <1>13, <1>14
     DEF Next

\* The variables of the reading have their types, whatever is read.
THEOREM TypeCorrect == Spec => []TypeOK
<1>1. ReadingType => TypeOK
  BY DEF ReadingType
<1> QED BY <1>1, ReadingTypeInit, ReadingTypeNext, PTL DEF Spec

-----------------------------------------------------------------------------
(* Every line is reported                                                  *)

SequencesIn(list) == {list[k].sequence : k \in DOMAIN list}
CodesIn(list) == {list[k].code : k \in DOMAIN list}
NumbersIn(list, code) == {list[k].sequence : k \in {j \in DOMAIN list : list[j].code = code}}

Unmapped(e) == e.kind = "unknown" \/ e.partial
UnmappedNumbers(list) == NumbersIn(list, "unknown_shape") \cup NumbersIn(list, "partial_mapping")

\* The first n lines are numbered up to n and, unless the reading failed, reported in
\* these events and issues.
Reported(es, is, n) ==
  /\ SequencesIn(es) \subseteq 1 .. n
  /\ \A k \in DOMAIN is : is[k].sequence \in (1 .. n) \cup {Nil}
  /\ "events_unreadable" \notin CodesIn(is) =>
       /\ SequencesIn(es) \cap NumbersIn(is, "parse_failed") = {}
       /\ SequencesIn(es) \cup NumbersIn(is, "parse_failed") = 1 .. n
       /\ \A k \in DOMAIN es : Unmapped(es[k]) = (es[k].sequence \in UnmappedNumbers(is))

LEMMA AppendedIssues ==
  ASSUME NEW is \in Seq(Issues), NEW i \in Issues
  PROVE  /\ CodesIn(Append(is, i)) = CodesIn(is) \cup {i.code}
         /\ \A code : NumbersIn(Append(is, i), code)
                        = NumbersIn(is, code) \cup (IF i.code = code THEN {i.sequence} ELSE {})
         /\ \A k \in DOMAIN Append(is, i) : Append(is, i)[k] = i \/ (k \in DOMAIN is /\ Append(is, i)[k] = is[k])
<1> DEFINE all == Append(is, i)
<1>1. /\ DOMAIN all = DOMAIN is \cup {Len(is) + 1} /\ all[Len(is) + 1] = i
      /\ \A k \in DOMAIN is : all[k] = is[k]
  OBVIOUS
<1> HIDE DEF all
<1>2. CodesIn(all) = CodesIn(is) \cup {i.code}
  BY <1>1 DEF CodesIn
<1>3. ASSUME NEW code
      PROVE  NumbersIn(all, code) = NumbersIn(is, code) \cup (IF i.code = code THEN {i.sequence} ELSE {})
  BY <1>1 DEF NumbersIn
<1>4. \A k \in DOMAIN all : all[k] = i \/ (k \in DOMAIN is /\ all[k] = is[k])
  BY <1>1
<1> QED BY <1>2, <1>3, <1>4 DEF all

LEMMA AppendedEvents ==
  ASSUME NEW es \in Seq(Events), NEW e \in Events
  PROVE  /\ SequencesIn(Append(es, e)) = SequencesIn(es) \cup {e.sequence}
         /\ DOMAIN Append(es, e) = DOMAIN es \cup {Len(es) + 1}
         /\ Append(es, e)[Len(es) + 1] = e
         /\ \A k \in DOMAIN es : Append(es, e)[k] = es[k] /\ k # Len(es) + 1
<1> DEFINE all == Append(es, e)
<1>1. /\ DOMAIN all = DOMAIN es \cup {Len(es) + 1} /\ all[Len(es) + 1] = e
      /\ \A k \in DOMAIN es : all[k] = es[k] /\ k # Len(es) + 1
  OBVIOUS
<1> HIDE DEF all
<1>2. SequencesIn(all) = SequencesIn(es) \cup {e.sequence}
  BY <1>1 DEF SequencesIn
<1> QED BY <1>1, <1>2 DEF all

LEMMA NumbersOfIssues ==
  ASSUME NEW es, NEW is, NEW n \in Nat, Reported(es, is, n)
  PROVE  \A code : n + 1 \notin NumbersIn(is, code)
BY NilAssumption DEF Reported, NumbersIn

\* A line that is not JSON adds an issue.
LEMMA IssueIsReported ==
  ASSUME NEW es \in Seq(Events), NEW is \in Seq(Issues), NEW n \in Nat, Reported(es, is, n)
  PROVE  Reported(es, Append(is, Issue("parse_failed", n + 1)), n + 1)
<1> DEFINE i == Issue("parse_failed", n + 1)
           all == Append(is, i)
<1>1. i \in Issues /\ i.code = "parse_failed" /\ i.sequence = n + 1
  BY DEF Issue, Issues, IssueCodes
<1>2. /\ CodesIn(all) = CodesIn(is) \cup {"parse_failed"}
      /\ NumbersIn(all, "parse_failed") = NumbersIn(is, "parse_failed") \cup {n + 1}
      /\ UnmappedNumbers(all) = UnmappedNumbers(is)
      /\ \A k \in DOMAIN all : all[k] = i \/ (k \in DOMAIN is /\ all[k] = is[k])
  BY <1>1, AppendedIssues DEF UnmappedNumbers
<1> HIDE DEF all, i
<1>3. SequencesIn(es) \subseteq 1 .. n /\ 1 .. n + 1 = (1 .. n) \cup {n + 1} /\ n + 1 \notin 1 .. n
  BY DEF Reported
<1>4. \A k \in DOMAIN all : all[k].sequence \in (1 .. n + 1) \cup {Nil}
  BY <1>1, <1>2, <1>3 DEF Reported
<1>5. "events_unreadable" \notin CodesIn(all) => "events_unreadable" \notin CodesIn(is)
  BY <1>2
<1> QED BY <1>2, <1>3, <1>4, <1>5 DEF Reported, all, i

\* A line that is mapped adds an event, and an issue of its number if not all of it is.
LEMMA EventIsReported ==
  ASSUME NEW es \in Seq(Events), NEW is \in Seq(Issues), NEW n \in Nat, Reported(es, is, n),
         NEW e \in Events, e.sequence = n + 1, NEW all,
         \/ all = is /\ ~Unmapped(e)
         \/ /\ Unmapped(e)
            /\ \E c \in {"unknown_shape", "partial_mapping"} : all = Append(is, Issue(c, n + 1))
  PROVE  Reported(Append(es, e), all, n + 1)
<1>1. 1 .. n + 1 = (1 .. n) \cup {n + 1} /\ n + 1 \notin 1 .. n
  OBVIOUS
<1>2. /\ "events_unreadable" \notin CodesIn(all) => "events_unreadable" \notin CodesIn(is)
      /\ NumbersIn(all, "parse_failed") = NumbersIn(is, "parse_failed")
      /\ UnmappedNumbers(all) = UnmappedNumbers(is) \cup (IF Unmapped(e) THEN {n + 1} ELSE {})
      /\ \A k \in DOMAIN all : all[k].sequence = n + 1 \/ (k \in DOMAIN is /\ all[k] = is[k])
  <2>1. CASE all = is /\ ~Unmapped(e)
    BY <2>1
  <2>2. CASE /\ Unmapped(e)
             /\ \E c \in {"unknown_shape", "partial_mapping"} : all = Append(is, Issue(c, n + 1))
    <3>1. PICK c \in {"unknown_shape", "partial_mapping"} : all = Append(is, Issue(c, n + 1))
      BY <2>2
    <3>2. /\ Issue(c, n + 1) \in Issues
          /\ Issue(c, n + 1).code = c /\ Issue(c, n + 1).sequence = n + 1
      BY DEF Issue, Issues, IssueCodes
    <3>3. /\ CodesIn(all) = CodesIn(is) \cup {c}
          /\ \A code : NumbersIn(all, code)
                         = NumbersIn(is, code) \cup (IF c = code THEN {n + 1} ELSE {})
          /\ \A k \in DOMAIN all : all[k].sequence = n + 1 \/ (k \in DOMAIN is /\ all[k] = is[k])
      BY <3>1, <3>2, AppendedIssues
    <3>4. UnmappedNumbers(all) = UnmappedNumbers(is) \cup {n + 1}
      BY <3>3 DEF UnmappedNumbers
    <3>5. NumbersIn(all, "parse_failed") = NumbersIn(is, "parse_failed")
      BY <3>3
    <3> QED BY <2>2, <3>3, <3>4, <3>5
  <2> QED BY <2>1, <2>2
<1>3. \A k \in DOMAIN all : all[k].sequence \in (1 .. n + 1) \cup {Nil}
  BY <1>1, <1>2 DEF Reported
<1> DEFINE longer == Append(es, e)
<1>4. /\ SequencesIn(longer) = SequencesIn(es) \cup {n + 1}
      /\ DOMAIN longer = DOMAIN es \cup {Len(es) + 1}
      /\ longer[Len(es) + 1] = e
      /\ \A k \in DOMAIN es : longer[k] = es[k] /\ k # Len(es) + 1
  BY AppendedEvents
<1> HIDE DEF longer
<1>5. SequencesIn(longer) \subseteq 1 .. n + 1
  BY <1>1, <1>4 DEF Reported
<1>6. ASSUME "events_unreadable" \notin CodesIn(all)
      PROVE  /\ SequencesIn(longer) \cap NumbersIn(all, "parse_failed") = {}
             /\ SequencesIn(longer) \cup NumbersIn(all, "parse_failed") = 1 .. n + 1
             /\ \A k \in DOMAIN longer :
                  Unmapped(longer[k]) = (longer[k].sequence \in UnmappedNumbers(all))
  <2>1. n + 1 \notin NumbersIn(is, "parse_failed") /\ n + 1 \notin UnmappedNumbers(is)
    BY NumbersOfIssues DEF UnmappedNumbers
  <2>2. /\ SequencesIn(es) \cap NumbersIn(is, "parse_failed") = {}
        /\ SequencesIn(es) \cup NumbersIn(is, "parse_failed") = 1 .. n
        /\ \A k \in DOMAIN es : Unmapped(es[k]) = (es[k].sequence \in UnmappedNumbers(is))
    BY <1>2, <1>6 DEF Reported
  <2>3. \A k \in DOMAIN es : es[k].sequence # n + 1
    BY <1>1 DEF Reported, SequencesIn
  <2>4. ASSUME NEW k \in DOMAIN es
        PROVE  Unmapped(longer[k]) = (longer[k].sequence \in UnmappedNumbers(all))
    BY <1>2, <1>4, <2>2, <2>3
  <2>5. Unmapped(longer[Len(es) + 1]) = (longer[Len(es) + 1].sequence \in UnmappedNumbers(all))
    <3>1. Unmapped(e) \in BOOLEAN
      BY Zenon DEF Unmapped
    <3>2. Unmapped(e) <=> n + 1 \in UnmappedNumbers(all)
      BY <1>2, <2>1
    <3>3. Unmapped(e) = (n + 1 \in UnmappedNumbers(all))
      BY <3>1, <3>2
    <3> QED BY <1>4, <3>3
  <2>6. /\ SequencesIn(longer) \cap NumbersIn(all, "parse_failed") = {}
        /\ SequencesIn(longer) \cup NumbersIn(all, "parse_failed") = 1 .. n + 1
    BY <1>1, <1>2, <1>4, <2>1, <2>2
  <2> QED BY <1>4, <2>4, <2>5, <2>6
<1> QED BY <1>3, <1>5, <1>6 DEF Reported, longer

\* What ends the reading early has no line's number.
LEMMA StopIsReported ==
  ASSUME NEW es, NEW is \in Seq(Issues), NEW n \in Nat, Reported(es, is, n),
         NEW c \in {"events_missing", "events_unreadable", "legacy_unreadable", "legacy_parse_failed"}
  PROVE  Reported(es, Append(is, Issue(c, Nil)), n)
<1> DEFINE all == Append(is, Issue(c, Nil))
<1>1. /\ Issue(c, Nil) \in Issues
      /\ Issue(c, Nil).code = c /\ Issue(c, Nil).sequence = Nil
  BY DEF Issue, Issues, IssueCodes
<1>2. /\ CodesIn(all) = CodesIn(is) \cup {c}
      /\ NumbersIn(all, "parse_failed") = NumbersIn(is, "parse_failed")
      /\ UnmappedNumbers(all) = UnmappedNumbers(is)
      /\ \A k \in DOMAIN all : all[k].sequence = Nil \/ (k \in DOMAIN is /\ all[k] = is[k])
  <2>1. /\ CodesIn(all) = CodesIn(is) \cup {c}
        /\ \A code : NumbersIn(all, code) = NumbersIn(is, code) \cup (IF c = code THEN {Nil} ELSE {})
        /\ \A k \in DOMAIN all : all[k].sequence = Nil \/ (k \in DOMAIN is /\ all[k] = is[k])
    BY <1>1, AppendedIssues
  <2>2. /\ NumbersIn(all, "parse_failed") = NumbersIn(is, "parse_failed")
        /\ NumbersIn(all, "unknown_shape") = NumbersIn(is, "unknown_shape")
        /\ NumbersIn(all, "partial_mapping") = NumbersIn(is, "partial_mapping")
    BY <2>1
  <2> QED BY <2>1, <2>2 DEF UnmappedNumbers
<1> HIDE DEF all
<1>3. \A k \in DOMAIN all : all[k].sequence \in (1 .. n) \cup {Nil}
  BY <1>2 DEF Reported
<1> QED BY <1>2, <1>3 DEF Reported, all

\* Before the first line nothing was read but the metadata.
BeforeLines ==
  /\ pc \in {"workspace", "exist", "stat"} =>
       events = <<>> /\ sequence = 0 /\ position = 0 /\ candidate = Nil
  /\ pc = "workspace" => issues = <<>>
  /\ pc \in {"exist", "stat"} => issues = WorkspaceIssues
  /\ pc \in {"exist", "stat", "lines"} => format = "current"
  /\ pc = "timeline" => format = "legacy"

ReadingInvariant == ReadingType /\ BeforeLines /\ Reported(events, issues, sequence)

\* A line is an issue or an event, and one that is an event was read in one piece.
LineStep == TakeLine \/ TakeFirstPart \/ TakeRest \/ TakeEntry

LEMMA LineSteps ==
  ASSUME ReadingType, LineStep
  PROVE  /\ UNCHANGED <<format, metadataOk, file, cut, pc>> /\ pc \in {"lines", "timeline"}
         /\ position < Len(file) /\ position + 1 \in DOMAIN file
         /\ \/ IssueOnly /\ candidate' = candidate
            \/ \E line \in LineValues :
                 /\ line = file[position + 1] /\ OneEvent(line)
                 /\ ~torn /\ position' + (IF torn' THEN 1 ELSE 0) = position + 1
                 /\ pc = "lines" =>
                      candidate' = ChooseModelCandidate(candidate, ModelCandidate(line))
<1>1. position < Len(file) /\ position \in Nat /\ issues \in Seq(Issues) /\ torn \in BOOLEAN
  BY DEF LineStep, TakeLine, TakeFirstPart, TakeRest, TakeEntry, ReadingType, TypeOK, Issues
<1>2. PICK line \in LineValues : line = file[position + 1]
  BY <1>1, NextLineIsTyped
<1>3. Fragment(line).json = "broken"
  BY FragmentsAreBroken
<1>4. UNCHANGED <<format, metadataOk, file, cut, pc>> /\ pc \in {"lines", "timeline"}
  BY DEF LineStep, TakeLine, TakeFirstPart, TakeRest, TakeEntry, source, onDisk
<1>5. ASSUME Take(line), ~torn, position' + (IF torn' THEN 1 ELSE 0) = position + 1
      PROVE  \/ IssueOnly /\ candidate' = candidate
             \/ /\ OneEvent(line)
                /\ candidate' = ChooseModelCandidate(candidate, ModelCandidate(line))
  BY <1>1, <1>5, TakeIsIssueOrEvent
<1>6. CASE TakeLine
  <2>1. Take(line) /\ ~torn /\ position' + (IF torn' THEN 1 ELSE 0) = position + 1
    BY <1>1, <1>2, <1>6 DEF TakeLine
  <2> QED BY <1>1, <1>2, <1>4, <1>5, <2>1, NextLineIsTyped
<1>7. CASE TakeFirstPart
  <2>1. ~torn /\ position' + (IF torn' THEN 1 ELSE 0) = position + 1
    BY <1>1, <1>7 DEF TakeFirstPart
  <2>2. CASE Take(Fragment(line))
    BY <1>1, <1>2, <1>3, <1>4, <2>2, TakeIsIssueOrEvent, NextLineIsTyped
  <2>3. CASE Take(line)
    BY <1>1, <1>2, <1>4, <1>5, <2>1, <2>3, NextLineIsTyped
  <2> QED BY <1>2, <1>7, <2>2, <2>3 DEF TakeFirstPart
<1>8. CASE TakeRest
  <2>1. Take(Fragment(line))
    BY <1>2, <1>8 DEF TakeRest
  <2> QED BY <1>1, <1>2, <1>3, <1>4, <2>1, TakeIsIssueOrEvent, NextLineIsTyped
<1>9. CASE TakeEntry
  <2>1. /\ Normalize(line) /\ sequence' = sequence + 1
        /\ position' = position + 1 /\ torn' = torn /\ pc = "timeline"
    BY <1>2, <1>9 DEF TakeEntry
  <2>2. ~torn
    BY <2>1 DEF ReadingType
  <2>3. OneEvent(line)
    BY <1>1, <2>1, NormalizeIsOneEvent
  <2> QED BY <1>1, <1>2, <1>4, <2>1, <2>2, <2>3, NextLineIsTyped
<1> QED BY <1>6, <1>7, <1>8, <1>9 DEF LineStep

LEMMA NothingIsReported ==
  /\ Reported(<<>>, <<>>, 0)
  /\ Reported(<<>>, WorkspaceIssues, 0)
<1>1. ASSUME NEW is, is = <<>> \/ is = <<Issue("workspace", Nil)>>
      PROVE  Reported(<<>>, is, 0)
  <2>1. \A k \in DOMAIN is : is[k].sequence = Nil /\ is[k].code = "workspace"
    BY <1>1 DEF Issue
  <2>2. NumbersIn(is, "parse_failed") = {} /\ SequencesIn(<<>>) = {} /\ 1 .. 0 = {}
    BY <2>1 DEF NumbersIn, SequencesIn
  <2> QED BY <2>1, <2>2 DEF Reported
<1> QED BY <1>1 DEF WorkspaceIssues

LEMMA ReadingInvariantInit == Init => ReadingInvariant
<1> SUFFICES ASSUME Init PROVE ReadingInvariant
  OBVIOUS
<1>1. BeforeLines
  BY DEF Init, BeforeLines
<1>2. Reported(events, issues, sequence)
  BY NothingIsReported DEF Init
<1> QED BY <1>1, <1>2, ReadingTypeInit DEF ReadingInvariant

LEMMA ReadingInvariantNext == ReadingInvariant /\ [Next]_vars => ReadingInvariant'
<1> SUFFICES ASSUME ReadingInvariant, [Next]_vars
             PROVE  BeforeLines' /\ Reported(events, issues, sequence)'
  BY ReadingTypeNext DEF ReadingInvariant
<1> USE DEF ReadingInvariant
<1>0. /\ sequence \in Nat /\ events \in Seq(Events) /\ issues \in Seq(Issues)
      /\ format \in {"current", "legacy"}
  BY DEF ReadingType, TypeOK, Issues
<1>1. CASE LineStep
  <2>1. UNCHANGED <<format, metadataOk, pc>> /\ pc \in {"lines", "timeline"}
    BY <1>1, LineSteps
  <2>2. BeforeLines'
    BY <2>1 DEF BeforeLines
  <2>3. ASSUME IssueOnly PROVE Reported(events, issues, sequence)'
    BY <1>0, <2>3, IssueIsReported DEF IssueOnly
  <2>4. ASSUME NEW line \in LineValues, OneEvent(line) PROVE Reported(events, issues, sequence)'
    <3> DEFINE e == Event(line, sequence + 1)
    <3>1. e \in Events /\ e.sequence = sequence + 1 /\ e.kind = Kind(line) /\ e.partial = IsPartial(line)
      BY <1>0, EventsOfLines
    <3>2. Unmapped(e) <=> Kind(line) = "unknown" \/ IsPartial(line)
      BY <3>1 DEF Unmapped
    <3> HIDE DEF e
    <3>3. /\ sequence' = sequence + 1 /\ events' = Append(events, e)
          /\ \/ issues' = issues /\ ~Unmapped(e)
             \/ /\ Unmapped(e)
                /\ \E c \in {"unknown_shape", "partial_mapping"} :
                     issues' = Append(issues, Issue(c, sequence + 1))
      BY <2>4, <3>2 DEF OneEvent, e
    <3>4. Reported(Append(events, e), issues', sequence + 1)
      BY <1>0, <3>1, <3>3, EventIsReported
    <3> QED BY <3>3, <3>4
  <2> QED BY <1>1, <2>2, <2>3, <2>4, LineSteps
<1>2. ASSUME NEW c \in {"events_missing", "events_unreadable", "legacy_unreadable", "legacy_parse_failed"},
             Stop(Issue(c, Nil))
      PROVE  BeforeLines' /\ Reported(events, issues, sequence)'
  <2>1. BeforeLines'
    BY <1>2 DEF Stop, Goto, BeforeLines
  <2>2. /\ events' = events /\ sequence' = sequence /\ issues' = Append(issues, Issue(c, Nil))
    BY <1>2 DEF Stop
  <2>3. Reported(events, Append(issues, Issue(c, Nil)), sequence)
    BY <1>0, StopIsReported
  <2> QED BY <2>1, <2>2, <2>3
<1>3. CASE ReadWorkspace
  <2>1. events' = <<>> /\ sequence' = 0 /\ issues' = WorkspaceIssues
    BY <1>3 DEF ReadWorkspace, BeforeLines
  <2>2. BeforeLines'
    BY <1>3, <2>1 DEF ReadWorkspace, BeforeLines, Goto, source, WorkspaceIssues, Issue
  <2> QED BY <2>1, <2>2, NothingIsReported
<1>4. CASE EventsExist
  <2>1. CASE there
    <3>1. pc = "exist" /\ pc' = "stat" /\ UNCHANGED <<source, onDisk, position, torn, result>>
      BY <1>4, <2>1 DEF EventsExist, Goto
    <3>2. BeforeLines'
      BY <3>1 DEF BeforeLines, source, result, WorkspaceIssues
    <3> QED BY <3>1, <3>2 DEF result
  <2>2. CASE ~there
    BY <1>2, <1>4, <2>2 DEF EventsExist
  <2> QED BY <2>1, <2>2
<1>5. CASE StatAndOpen
  <2>1. CASE IsReadableFile
    <3>1. pc = "stat" /\ pc' = "lines" /\ UNCHANGED <<source, onDisk, position, torn, result>>
      BY <1>5, <2>1 DEF StatAndOpen, Goto
    <3>2. BeforeLines'
      BY <3>1 DEF BeforeLines, source, result
    <3> QED BY <3>1, <3>2 DEF result
  <2>2. CASE ~IsReadableFile
    BY <1>2, <1>5, <2>2 DEF StatAndOpen
  <2> QED BY <2>1, <2>2
<1>6. CASE ReadLegacy
  <2>1. CASE \E c \in {"legacy_unreadable", "legacy_parse_failed"} : Stop(Issue(c, Nil))
    BY <1>2, <2>1
  <2>2. CASE Goto("timeline") /\ UNCHANGED <<source, onDisk, position, torn, result>>
    <3>1. BeforeLines'
      BY <1>6, <2>2 DEF ReadLegacy, BeforeLines, Goto, source, result
    <3> QED BY <2>2, <3>1 DEF result
  <2> QED BY <1>6, <2>1, <2>2 DEF ReadLegacy
<1>7. CASE FinishReading \/ FinishTimeline
  <2>1. pc' = "done" /\ UNCHANGED <<source, onDisk, position, torn, result>>
    BY <1>7 DEF FinishReading, FinishTimeline, Goto
  <2>2. BeforeLines'
    BY <2>1 DEF BeforeLines
  <2> QED BY <2>1, <2>2 DEF result
<1>8. CASE FailReading
  <2>1. pc' = "done" /\ events' = <<>> /\ sequence' = sequence
        /\ issues' = Append(WorkspaceIssues, Issue("events_unreadable", Nil))
    BY <1>8 DEF FailReading, Goto
  <2>2. BeforeLines'
    BY <2>1 DEF BeforeLines
  <2>3. /\ Issue("events_unreadable", Nil) \in Issues
        /\ Issue("events_unreadable", Nil).code = "events_unreadable"
        /\ Issue("events_unreadable", Nil).sequence = Nil
    BY DEF Issue, Issues, IssueCodes
  <2>4. "events_unreadable" \in CodesIn(issues')
    BY <2>1, <2>3, WorkspaceIssuesAreTyped, AppendedIssues
  <2>5. \A k \in DOMAIN WorkspaceIssues : WorkspaceIssues[k].sequence = Nil
    BY DEF WorkspaceIssues, Issue
  <2>6. \A k \in DOMAIN issues' : issues'[k].sequence = Nil
    BY <2>1, <2>3, <2>5, WorkspaceIssuesAreTyped, AppendedIssues
  <2>7. SequencesIn(events') = {}
    BY <2>1 DEF SequencesIn
  <2> QED BY <2>2, <2>4, <2>6, <2>7 DEF Reported
<1>9. CASE CliWrites \/ CliCompletesLine \/ RemoveFile \/ Chmod
  <2>1. UNCHANGED <<source, pc, position, result>>
    BY <1>9 DEF CliWrites, CliCompletesLine, RemoveFile, Chmod
  <2>2. BeforeLines'
    BY <2>1 DEF BeforeLines, source, result, WorkspaceIssues
  <2> QED BY <2>1, <2>2 DEF result
<1>10. CASE UNCHANGED vars
  BY <1>10 DEF vars, BeforeLines, source, result, WorkspaceIssues
<1> QED BY <1>1, <1>3, <1>4, <1>5, <1>6, <1>7, <1>8, <1>9, <1>10 DEF Next, LineStep

THEOREM ReadingInvariantHolds == Spec => []ReadingInvariant
BY ReadingInvariantInit, ReadingInvariantNext, PTL DEF Spec

\* Every line that was read is an event or a parse issue, and every event that is not
\* mapped in full has its issue, in a file of any length and any lines.
THEOREM LinesAreReported == Spec => []EveryLineIsReported
<1>1. ReadingInvariant => EveryLineIsReported
  <2>1. /\ Sequences = SequencesIn(events) /\ Codes = CodesIn(issues)
        /\ \A code : Numbered(code) = NumbersIn(issues, code)
    BY DEF Sequences, SequencesIn, Codes, CodesIn, Numbered, NumbersIn
  <2> QED BY <2>1 DEF ReadingInvariant, Reported, EveryLineIsReported, UnmappedNumbers, Unmapped
<1> QED BY <1>1, ReadingInvariantHolds, PTL

-----------------------------------------------------------------------------
(* A complete session has lost nothing                                     *)

\* Without an issue the events are the lines up to the reader's place, one by one.
NothingLostSoFar ==
  CodesIn(issues) = {} /\ pc # "workspace" =>
    /\ metadataOk
    /\ Len(events) = sequence /\ Len(events) <= Len(file)
    /\ pc \in {"lines", "timeline"} => Len(events) = position + (IF torn THEN 1 ELSE 0)
    /\ pc = "done" => Len(events) = Len(file)
    /\ \A k \in DOMAIN events :
         /\ events[k].sequence = k /\ events[k].raw = file[k]
         /\ events[k].kind # "unknown" /\ ~events[k].partial

LEMMA NothingLostNext ==
  ReadingInvariant /\ NothingLostSoFar /\ [Next]_vars => NothingLostSoFar'
<1> SUFFICES ASSUME ReadingInvariant, NothingLostSoFar, [Next]_vars, (CodesIn(issues) = {})', pc' # "workspace"
             PROVE  /\ metadataOk'
                    /\ Len(events') = sequence' /\ Len(events') <= Len(file')
                    /\ pc' \in {"lines", "timeline"} => Len(events') = position' + (IF torn' THEN 1 ELSE 0)
                    /\ pc' = "done" => Len(events') = Len(file')
                    /\ \A k \in DOMAIN events' :
                         /\ events'[k].sequence = k /\ events'[k].raw = file'[k]
                         /\ events'[k].kind # "unknown" /\ ~events'[k].partial
  BY DEF NothingLostSoFar
<1>0. /\ sequence \in Nat /\ events \in Seq(Events) /\ issues \in Seq(Issues)
      /\ position \in Nat /\ file \in Seq(Lines) /\ torn \in BOOLEAN /\ metadataOk \in BOOLEAN
  BY DEF ReadingInvariant, ReadingType, TypeOK, Issues
<1>1. ASSUME NEW is \in Seq(Issues), NEW i \in Issues PROVE CodesIn(Append(is, i)) # {}
  <2>1. CodesIn(Append(is, i)) = CodesIn(is) \cup {i.code}
    BY AppendedIssues
  <2> QED BY <2>1
<1>2. ASSUME NEW c \in IssueCodes, NEW n \in (Nat \ {0}) \cup {Nil} PROVE issues' # Append(issues, Issue(c, n))
  <2>1. Issue(c, n) \in Issues
    BY DEF Issue, Issues
  <2> QED BY <1>0, <1>1, <2>1
<1>3. {"parse_failed", "unknown_shape", "partial_mapping", "events_missing", "events_unreadable",
       "legacy_unreadable", "legacy_parse_failed"} \subseteq IssueCodes
  BY DEF IssueCodes
<1>4. CodesIn(WorkspaceIssues) = {} => metadataOk
  BY DEF WorkspaceIssues, CodesIn
<1>5. CASE LineStep
  <2>1. /\ UNCHANGED <<format, metadataOk, file, cut, pc>> /\ pc \in {"lines", "timeline"}
        /\ position < Len(file)
    BY <1>5, LineSteps DEF ReadingInvariant
  <2>2. ~IssueOnly
    BY <1>0, <1>2, <1>3 DEF IssueOnly
  <2>3. PICK line \in LineValues :
          /\ line = file[position + 1] /\ OneEvent(line)
          /\ ~torn /\ position' + (IF torn' THEN 1 ELSE 0) = position + 1
    BY <1>5, <2>2, LineSteps DEF ReadingInvariant
  <2>4. issues' = issues /\ Kind(line) # "unknown" /\ ~IsPartial(line)
    BY <1>0, <1>2, <1>3, <2>3 DEF OneEvent
  <2>5. /\ metadataOk /\ Len(events) = sequence /\ Len(events) = position
        /\ \A k \in DOMAIN events :
             /\ events[k].sequence = k /\ events[k].raw = file[k]
             /\ events[k].kind # "unknown" /\ ~events[k].partial
    BY <1>0, <2>1, <2>3, <2>4 DEF NothingLostSoFar
  <2> DEFINE e == Event(line, sequence + 1)
  <2>6. /\ e \in Events /\ e.sequence = position + 1 /\ e.raw = file[position + 1]
        /\ e.kind # "unknown" /\ ~e.partial
    BY <1>0, <2>3, <2>4, <2>5, EventsOfLines
  <2>7. events' = Append(events, e) /\ sequence' = sequence + 1
    BY <2>3 DEF OneEvent
  <2> HIDE DEF e
  <2>8. /\ Len(events') = position + 1 /\ events'[position + 1] = e
        /\ DOMAIN events' = DOMAIN events \cup {position + 1}
        /\ \A k \in DOMAIN events : events'[k] = events[k]
    BY <1>0, <2>5, <2>6, <2>7
  <2>9. ASSUME NEW k \in DOMAIN events'
        PROVE  /\ events'[k].sequence = k /\ events'[k].raw = file'[k]
               /\ events'[k].kind # "unknown" /\ ~events'[k].partial
    BY <2>1, <2>5, <2>6, <2>8
  <2>10. Len(events') = sequence' /\ Len(events') <= Len(file')
    <3>1. sequence = position /\ Len(file) \in Nat /\ file' = file
      BY <1>0, <2>1, <2>5
    <3> QED BY <1>0, <2>1, <2>7, <2>8, <3>1
  <2> QED BY <2>1, <2>3, <2>5, <2>8, <2>9, <2>10
<1>6. ASSUME NEW c \in {"events_missing", "events_unreadable", "legacy_unreadable", "legacy_parse_failed"},
             Stop(Issue(c, Nil))
      PROVE  FALSE
  BY <1>2, <1>3, <1>6 DEF Stop
<1>7. ASSUME NEW ok, ok = metadataOk, ok, events = <<>>, sequence = 0, position = 0, torn = FALSE,
             pc' \in {"exist", "stat", "lines", "timeline"},
             UNCHANGED <<source, onDisk, position, torn, events, sequence>>
      PROVE  /\ metadataOk'
             /\ Len(events') = sequence' /\ Len(events') <= Len(file')
             /\ pc' \in {"lines", "timeline"} => Len(events') = position' + (IF torn' THEN 1 ELSE 0)
             /\ pc' = "done" => Len(events') = Len(file')
             /\ \A k \in DOMAIN events' :
                  /\ events'[k].sequence = k /\ events'[k].raw = file'[k]
                  /\ events'[k].kind # "unknown" /\ ~events'[k].partial
  BY <1>0, <1>7 DEF source, onDisk
<1>8. pc \in {"workspace", "exist", "stat"} => events = <<>> /\ sequence = 0 /\ position = 0 /\ torn = FALSE
  BY DEF ReadingInvariant, BeforeLines, ReadingType, TypeOK
<1>9. CASE ReadWorkspace
  <2>1. issues' = WorkspaceIssues /\ pc = "workspace" /\ pc' = "exist"
        /\ UNCHANGED <<source, onDisk, position, torn, events, sequence>>
    BY <1>9 DEF ReadWorkspace, Goto
  <2>2. metadataOk
    BY <1>4, <2>1
  <2> QED BY <1>7, <1>8, <2>1, <2>2
<1>10. CASE EventsExist \/ StatAndOpen
  <2>1. /\ pc \in {"exist", "stat"} /\ pc' \in {"stat", "lines"}
        /\ UNCHANGED <<source, onDisk, position, torn, result>>
    BY <1>6, <1>10 DEF EventsExist, StatAndOpen, Goto
  <2>2. metadataOk
    BY <1>4, <2>1 DEF ReadingInvariant, BeforeLines, result
  <2> QED BY <1>7, <1>8, <2>1, <2>2 DEF result
<1>11. CASE ReadLegacy
  <2>1. /\ pc = "workspace" /\ pc' = "timeline" /\ metadataOk
        /\ UNCHANGED <<source, onDisk, position, torn, result>>
    BY <1>6, <1>11 DEF ReadLegacy, Goto
  <2> QED BY <1>7, <1>8, <2>1 DEF result
<1>12. CASE FinishReading \/ FinishTimeline
  <2>1. /\ pc \in {"lines", "timeline"} /\ pc' = "done"
        /\ UNCHANGED <<source, onDisk, position, torn, result>>
    BY <1>12 DEF FinishReading, FinishTimeline, Goto
  <2>2. position + (IF torn THEN 1 ELSE 0) = Len(file)
    BY <1>0, <1>12 DEF FinishReading, FinishTimeline, AtEnd, NextIsWhole, ReadingInvariant, ReadingType, TypeOK
  <2> QED BY <2>1, <2>2 DEF NothingLostSoFar, source, onDisk, result
<1>13. CASE FailReading
  <2>1. Issue("events_unreadable", Nil) \in Issues
    BY <1>3 DEF Issue, Issues
  <2> QED BY <1>1, <1>13, <2>1, WorkspaceIssuesAreTyped DEF FailReading
<1>14. CASE CliWrites
  <2>1. PICK line \in Lines : file' = Append(file, line)
    BY <1>14 DEF CliWrites
  <2>2. Len(file') = Len(file) + 1 /\ \A k \in DOMAIN file : file'[k] = file[k]
    BY <1>0, <2>1
  <2>3. pc # "done" /\ UNCHANGED <<source, pc, position, torn, result>>
    BY <1>14 DEF CliWrites, Reading
  <2>4. \A k \in DOMAIN events : Len(events) <= Len(file) => k \in DOMAIN file
    BY <1>0
  <2> QED BY <1>0, <2>2, <2>3, <2>4 DEF NothingLostSoFar, source, result
<1>15. CASE CliCompletesLine \/ RemoveFile \/ Chmod
  <2>1. UNCHANGED <<source, file, pc, position, torn, result>>
    BY <1>15 DEF CliCompletesLine, RemoveFile, Chmod
  <2> QED BY <2>1 DEF NothingLostSoFar, source, result
<1>16. CASE UNCHANGED vars
  BY <1>16 DEF vars, NothingLostSoFar, source, onDisk, result
<1> QED BY <1>5, <1>9, <1>10, <1>11, <1>12, <1>13, <1>14, <1>15, <1>16 DEF Next, LineStep

\* A session that is called complete has every line of its file as an event, mapped in
\* full and in its place, whatever was written or broke off while it was read.
THEOREM CompleteIsComplete == Spec => []CompleteSessionsLostNothing
<1>1. Init => NothingLostSoFar
  BY DEF Init, NothingLostSoFar
<1>2. NothingLostSoFar => CompleteSessionsLostNothing
  <2>1. SourceState = "complete" => CodesIn(issues) = {}
    BY DEF SourceState, Codes, CodesIn
  <2> QED BY <2>1 DEF NothingLostSoFar, CompleteSessionsLostNothing, Done
<1> QED BY <1>1, <1>2, ReadingInvariantHolds, NothingLostNext, PTL DEF Spec

-----------------------------------------------------------------------------
(* The model of the session                                                *)

NamedIn(list) == {k \in DOMAIN list : ModelCandidate(list[k].raw) # Nil}
RankIn(list, k) == ModelCandidate(list[k].raw).priority
IsBestIn(list, k) ==
  \A j \in NamedIn(list) :
    RankIn(list, j) < RankIn(list, k) \/ (RankIn(list, j) = RankIn(list, k) /\ j <= k)

\* c is what these events choose.
ChosenOf(list, c) ==
  /\ c = Nil => NamedIn(list) = {}
  /\ c # Nil => \E k \in NamedIn(list) : IsBestIn(list, k) /\ c = ModelCandidate(list[k].raw)

LEMMA LinesOfEvents ==
  ASSUME NEW list \in Seq(Events), NEW k \in DOMAIN list
  PROVE  k \in Nat /\ list[k].raw \in LineValues
<1>1. k \in Nat /\ list[k] \in Events
  OBVIOUS
<1> QED BY <1>1 DEF Events

LEMMA ChoiceGoesOn ==
  ASSUME NEW list \in Seq(Events), NEW e \in Events, NEW c \in Candidates \cup {Nil}, ChosenOf(list, c)
  PROVE  ChosenOf(Append(list, e), ChooseModelCandidate(c, ModelCandidate(e.raw)))
<1> DEFINE all == Append(list, e)
           last == Len(list) + 1
           m == ModelCandidate(e.raw)
<1>1. m \in Candidates \cup {Nil}
  BY CandidatesOfLines DEF Events
<1>2. Nil \notin Candidates
  BY NilAssumption DEF Candidates
<1>3. /\ DOMAIN all = DOMAIN list \cup {last} /\ ModelCandidate(all[last].raw) = m
      /\ \A k \in DOMAIN list : ModelCandidate(all[k].raw) = ModelCandidate(list[k].raw)
      /\ last \in Nat /\ \A k \in DOMAIN list : k \in Nat /\ k < last
  BY AppendedEvents
<1> HIDE DEF all, last, m
<1>4. /\ NamedIn(all) = NamedIn(list) \cup (IF m = Nil THEN {} ELSE {last})
      /\ \A k \in DOMAIN list : RankIn(all, k) = RankIn(list, k)
      /\ RankIn(all, last) = m.priority
  BY <1>3 DEF NamedIn, RankIn
<1>5. \A k \in NamedIn(list) : k \in DOMAIN list
  BY DEF NamedIn
<1>6. \A k \in DOMAIN list : list[k].raw \in LineValues
  BY LinesOfEvents
<1>7. \A k \in NamedIn(list) : RankIn(list, k) \in 0 .. 3
  BY <1>6, CandidatesOfLines DEF NamedIn, RankIn, Candidates
<1>8. \A d \in Candidates : d.priority \in 0 .. 3
  BY DEF Candidates
<1>9. CASE m = Nil
  <2>1. ChooseModelCandidate(c, m) = c
    BY <1>9 DEF ChooseModelCandidate
  <2>2. \A k \in NamedIn(list) : IsBestIn(list, k) => IsBestIn(all, k)
    BY <1>4, <1>5, <1>9 DEF IsBestIn
  <2> QED BY <1>3, <1>4, <1>5, <1>9, <2>1, <2>2 DEF ChosenOf, all, m
<1>10. CASE m # Nil /\ c = Nil
  <2>1. ChooseModelCandidate(c, m) = m /\ NamedIn(all) = {last}
    BY <1>4, <1>10 DEF ChooseModelCandidate, ChosenOf
  <2>2. IsBestIn(all, last)
    BY <1>3, <2>1 DEF IsBestIn
  <2> QED BY <1>3, <1>10, <2>1, <2>2 DEF ChosenOf, all, m
<1>11. CASE m # Nil /\ c # Nil
  <2>1. PICK k \in NamedIn(list) : IsBestIn(list, k) /\ c = ModelCandidate(list[k].raw)
    BY <1>11 DEF ChosenOf
  <2>2. c.priority = RankIn(list, k) /\ c.priority \in 0 .. 3 /\ m.priority \in 0 .. 3
    BY <1>1, <1>7, <1>8, <1>11, <2>1 DEF RankIn
  <2>3. CASE m.priority < c.priority
    <3>1. ChooseModelCandidate(c, m) = c
      BY <1>11, <2>3 DEF ChooseModelCandidate
    <3>2. IsBestIn(all, k)
      BY <1>4, <1>5, <1>11, <2>1, <2>2, <2>3 DEF IsBestIn
    <3> QED BY <1>3, <1>4, <1>5, <1>11, <2>1, <3>1, <3>2 DEF ChosenOf, all, m
  <2>4. CASE ~(m.priority < c.priority)
    <3>1. ChooseModelCandidate(c, m) = m
      BY <1>11, <2>4 DEF ChooseModelCandidate
    <3>2. \A j \in NamedIn(list) : RankIn(list, j) <= m.priority /\ j <= last
      BY <1>3, <1>5, <1>7, <2>1, <2>2, <2>4 DEF IsBestIn
    <3>3. IsBestIn(all, last)
      BY <1>3, <1>4, <1>5, <1>7, <1>11, <2>2, <3>2 DEF IsBestIn
    <3> QED BY <1>3, <1>4, <1>11, <3>1, <3>3 DEF ChosenOf, all, m
  <2> QED BY <2>3, <2>4
<1> QED BY <1>9, <1>10, <1>11

ChosenSoFar == format = "current" => ChosenOf(events, candidate)

LEMMA ChosenNext == ReadingInvariant /\ ChosenSoFar /\ [Next]_vars => ChosenSoFar'
<1> SUFFICES ASSUME ReadingInvariant, ChosenSoFar, [Next]_vars, format' = "current"
             PROVE  ChosenOf(events', candidate')
  BY DEF ChosenSoFar
<1>0. /\ sequence \in Nat /\ events \in Seq(Events) /\ candidate \in Candidates \cup {Nil}
  BY DEF ReadingInvariant, ReadingType, TypeOK, Candidates
<1>1. CASE LineStep
  <2>1. format = "current" /\ pc = "lines"
    BY <1>1, LineSteps DEF ReadingInvariant, BeforeLines
  <2>2. CASE IssueOnly /\ candidate' = candidate
    BY <2>1, <2>2 DEF IssueOnly, ChosenSoFar
  <2>3. ASSUME NEW line \in LineValues, OneEvent(line),
               candidate' = ChooseModelCandidate(candidate, ModelCandidate(line))
        PROVE  ChosenOf(events', candidate')
    <3>1. Event(line, sequence + 1) \in Events /\ Event(line, sequence + 1).raw = line
      BY <1>0, EventsOfLines
    <3>2. events' = Append(events, Event(line, sequence + 1))
      BY <2>3 DEF OneEvent
    <3> QED BY <1>0, <2>1, <2>3, <3>1, <3>2, ChoiceGoesOn DEF ChosenSoFar
  <2> QED BY <1>1, <2>1, <2>2, <2>3, LineSteps DEF ReadingInvariant
<1>2. CASE FailReading
  <2>1. events' = <<>> /\ candidate' = Nil
    BY <1>2 DEF FailReading
  <2> QED BY <2>1 DEF ChosenOf, NamedIn
<1>3. CASE UNCHANGED <<format, events, candidate>>
  BY <1>3 DEF ChosenSoFar
<1>4. CASE \/ ReadWorkspace \/ EventsExist \/ StatAndOpen \/ FinishReading \/ ReadLegacy
           \/ FinishTimeline \/ CliWrites \/ CliCompletesLine \/ RemoveFile \/ Chmod
           \/ UNCHANGED vars
  <2>1. UNCHANGED <<format, events, candidate>>
    BY <1>4 DEF ReadWorkspace, EventsExist, StatAndOpen, Stop, FinishReading, ReadLegacy, FinishTimeline,
                CliWrites, CliCompletesLine, RemoveFile, Chmod, vars, source, result
  <2> QED BY <1>3, <2>1
<1> QED BY <1>1, <1>2, <1>4 DEF Next, LineStep

\* The model of a session is the one named last among those of the highest priority,
\* however many lines name one.
THEOREM ModelIsTheLatestBest == Spec => []SelectedModelIsTheLatestBest
<1>1. Init => ChosenSoFar
  BY DEF Init, ChosenSoFar, ChosenOf, NamedIn
<1>2. ReadingInvariant /\ ChosenSoFar => SelectedModelIsTheLatestBest
  <2> SUFFICES ASSUME ReadingInvariant, ChosenSoFar, format = "current"
               PROVE  /\ NamedIn(events) = {} => SelectedModel = Nil
                      /\ \A k \in NamedIn(events) : IsBestIn(events, k) =>
                           SelectedModel = ModelCandidate(events[k].raw).value
    BY DEF SelectedModelIsTheLatestBest, NamedIn, IsBestIn, RankIn
  <2>1. ChosenOf(events, candidate)
    BY DEF ChosenSoFar
  <2>2. NamedIn(events) = {} => candidate = Nil
    BY <2>1 DEF ChosenOf
  <2>3. ASSUME NEW k \in NamedIn(events), IsBestIn(events, k)
        PROVE  candidate # Nil /\ candidate = ModelCandidate(events[k].raw)
    <3>1. candidate # Nil
      BY <2>1 DEF ChosenOf
    <3>2. PICK j \in NamedIn(events) : IsBestIn(events, j) /\ candidate = ModelCandidate(events[j].raw)
      BY <2>1, <3>1 DEF ChosenOf
    <3>3. \A i \in NamedIn(events) : i \in Nat /\ RankIn(events, i) \in 0 .. 3
      <4>1. \A i \in DOMAIN events : i \in Nat /\ events[i].raw \in LineValues
        BY LinesOfEvents DEF ReadingInvariant, ReadingType, TypeOK
      <4> QED BY <4>1, CandidatesOfLines DEF NamedIn, RankIn, Candidates
    <3>4. j = k
      BY <2>3, <3>2, <3>3 DEF IsBestIn
    <3> QED BY <3>1, <3>2, <3>4
  <2> QED BY <2>2, <2>3 DEF SelectedModel
<1> QED BY <1>1, <1>2, ReadingInvariantHolds, ChosenNext, PTL DEF Spec
-----------------------------------------------------------------------------
(* What becomes of each line and each issue                                *)

LineCodes == {"parse_failed", "unknown_shape", "partial_mapping"}
EventLines(list) == {<<list[k].sequence, list[k].raw>> : k \in DOMAIN list}

\* Events are what the normalizer makes of lines, in the order of their numbers.
EventsAreMapped(es) ==
  /\ \A j, k \in DOMAIN es : j < k => es[j].sequence < es[k].sequence
  /\ \A k \in DOMAIN es : es[k] = Event(es[k].raw, es[k].sequence)

\* No issue is there twice, and those of lines are the ones that have a number.
IssuesAreDistinct(is) ==
  /\ \A j, k \in DOMAIN is : is[j] = is[k] => j = k
  /\ \A k \in DOMAIN is : (is[k].sequence = Nil) <=> (is[k].code \notin LineCodes)

PartialEventsHaveIssues(es, is) ==
  \A k \in DOMAIN es : es[k].partial =>
    \E n \in DOMAIN is : is[n].code = "partial_mapping" /\ is[n].sequence = es[k].sequence

\* Unless the reading failed, the events are the legible lines that were taken in one piece.
TakenAreEvents(es, is, lines) ==
  IF "events_unreadable" \in CodesIn(is) THEN es = <<>>
  ELSE /\ EventLines(es) \subseteq lines
       /\ \A t \in lines : t \in EventLines(es) \/ t[2].json = "broken"

LinesAreKept ==
  /\ EventsAreMapped(events) /\ IssuesAreDistinct(issues)
  /\ PartialEventsHaveIssues(events, issues) /\ TakenAreEvents(events, issues, taken)
  /\ pc # "done" => "events_unreadable" \notin CodesIn(issues)

\* What a line leaves in the history.
LEMMA LinesTaken ==
  ASSUME ReadingType, LineStep
  PROVE  \/ /\ IssueOnly
            /\ \/ taken' = taken
               \/ \E line \in LineValues :
                    line.json = "broken" /\ taken' = taken \cup {<<sequence + 1, line>>}
         \/ \E line \in LineValues :
              OneEvent(line) /\ taken' = taken \cup {<<sequence + 1, line>>}
<1>1. position < Len(file) /\ issues \in Seq(Issues)
  BY DEF LineStep, TakeLine, TakeFirstPart, TakeRest, TakeEntry, ReadingType, TypeOK, Issues
<1>2. PICK line \in LineValues : line = file[position + 1]
  BY <1>1, NextLineIsTyped
<1>3. Fragment(line).json = "broken"
  BY FragmentsAreBroken
<1>4. ASSUME Take(line), taken' = taken \cup {<<sequence', line>>}
      PROVE  \/ /\ IssueOnly
                /\ line.json = "broken" /\ taken' = taken \cup {<<sequence + 1, line>>}
             \/ OneEvent(line) /\ taken' = taken \cup {<<sequence + 1, line>>}
  <2>1. sequence' = sequence + 1
    BY <1>4 DEF Take
  <2> QED BY <1>1, <1>4, <2>1, TakeIsIssueOrEvent
<1>5. ASSUME Take(Fragment(line)), taken' = taken
      PROVE  IssueOnly /\ taken' = taken
  BY <1>1, <1>3, <1>5, TakeIsIssueOrEvent
<1>6. CASE TakeLine
  <2>1. Take(line) /\ taken' = taken \cup {<<sequence', line>>}
    BY <1>2, <1>6 DEF TakeLine
  <2> QED BY <1>4, <2>1
<1>7. CASE TakeFirstPart
  <2>1. \/ Take(Fragment(line)) /\ taken' = taken
        \/ Take(line) /\ taken' = taken \cup {<<sequence', line>>}
    BY <1>2, <1>7 DEF TakeFirstPart
  <2> QED BY <1>4, <1>5, <2>1
<1>8. CASE TakeRest
  <2>1. Take(Fragment(line)) /\ taken' = taken
    BY <1>2, <1>8 DEF TakeRest
  <2> QED BY <1>5, <2>1
<1>9. CASE TakeEntry
  <2>1. /\ Normalize(line) /\ sequence' = sequence + 1
        /\ taken' = taken \cup {<<sequence', line>>}
    BY <1>2, <1>9 DEF TakeEntry
  <2>2. OneEvent(line)
    BY <1>1, <2>1, NormalizeIsOneEvent
  <2> QED BY <2>1, <2>2
<1> QED BY <1>6, <1>7, <1>8, <1>9 DEF LineStep

\* An issue with a number or code that no other has is one more.
LEMMA DistinctIssues ==
  ASSUME NEW is \in Seq(Issues), NEW i \in Issues, IssuesAreDistinct(is),
         \A k \in DOMAIN is : is[k] # i,
         (i.sequence = Nil) <=> (i.code \notin LineCodes)
  PROVE  IssuesAreDistinct(Append(is, i))
<1> DEFINE all == Append(is, i)
<1>1. /\ DOMAIN all = DOMAIN is \cup {Len(is) + 1} /\ all[Len(is) + 1] = i
      /\ \A k \in DOMAIN is : all[k] = is[k]
  OBVIOUS
<1> HIDE DEF all
<1>2. IssuesAreDistinct(all)
  BY <1>1 DEF IssuesAreDistinct
<1> QED BY <1>2 DEF all

\* Lines are numbered on: the issue of the next line is new, and no event has its number.
LEMMA NextNumberIsNew ==
  ASSUME ReadingInvariant
  PROVE  /\ \A k \in DOMAIN issues : issues[k].sequence # sequence + 1
         /\ \A k \in DOMAIN events : events[k].sequence < sequence + 1
<1>1. sequence \in Nat
  BY DEF ReadingInvariant, ReadingType, TypeOK
<1>2. \A k \in DOMAIN issues : issues[k].sequence # sequence + 1
  BY <1>1, NilAssumption DEF ReadingInvariant, Reported
<1>3. \A k \in DOMAIN events : events[k].sequence < sequence + 1
  BY <1>1 DEF ReadingInvariant, Reported, SequencesIn
<1> QED BY <1>2, <1>3

\* Issues that are appended leave the earlier ones in their places.
LEMMA MoreIssues ==
  ASSUME NEW is \in Seq(Issues), NEW i \in Issues, NEW es, PartialEventsHaveIssues(es, is)
  PROVE  PartialEventsHaveIssues(es, Append(is, i))
<1> DEFINE all == Append(is, i)
<1>1. \A k \in DOMAIN is : k \in DOMAIN all /\ all[k] = is[k]
  OBVIOUS
<1> HIDE DEF all
<1>2. PartialEventsHaveIssues(es, all)
  BY <1>1 DEF PartialEventsHaveIssues
<1> QED BY <1>2 DEF all

LEMMA IssueOfLineIsKept ==
  ASSUME ReadingInvariant, LinesAreKept, NEW c \in LineCodes
  PROVE  /\ IssuesAreDistinct(Append(issues, Issue(c, sequence + 1)))
         /\ PartialEventsHaveIssues(events, Append(issues, Issue(c, sequence + 1)))
         /\ "events_unreadable" \in CodesIn(Append(issues, Issue(c, sequence + 1)))
              <=> "events_unreadable" \in CodesIn(issues)
<1>1. issues \in Seq(Issues) /\ sequence \in Nat
  BY DEF ReadingInvariant, ReadingType, TypeOK, Issues
<1>2. /\ Issue(c, sequence + 1) \in Issues /\ Issue(c, sequence + 1).code = c
      /\ Issue(c, sequence + 1).sequence = sequence + 1
  BY <1>1 DEF Issue, Issues, LineCodes, IssueCodes
<1>3. (Issue(c, sequence + 1).sequence = Nil) <=> (Issue(c, sequence + 1).code \notin LineCodes)
  BY <1>1, <1>2, NilAssumption
<1>4. \A k \in DOMAIN issues : issues[k] # Issue(c, sequence + 1)
  BY <1>2, NextNumberIsNew
<1>5. CodesIn(Append(issues, Issue(c, sequence + 1))) = CodesIn(issues) \cup {c}
  BY <1>1, <1>2, AppendedIssues
<1> QED BY <1>1, <1>2, <1>3, <1>4, <1>5, DistinctIssues, MoreIssues DEF LinesAreKept, LineCodes

\* What the normalizer makes of a line depends on the format only, which stays.
LEMMA MappingIsOfTheFormat ==
  ASSUME format' = format, EventsAreMapped(events), events' = events
  PROVE  EventsAreMapped(events)'
<1>1. \A l, n : Event(l, n)' = Event(l, n)
  BY DEF Event, Kind, IsMessage, IsDetail, IsPartial
<1> QED BY <1>1 DEF EventsAreMapped

\* A line that is mapped adds its event behind the others.
LEMMA EventOfLineIsKept ==
  ASSUME ReadingInvariant, LinesAreKept, LineStep, NEW line \in LineValues, OneEvent(line),
         taken' = taken \cup {<<sequence + 1, line>>}
  PROVE  LinesAreKept'
<1>1. issues \in Seq(Issues) /\ events \in Seq(Events) /\ sequence \in Nat
  BY DEF ReadingInvariant, ReadingType, TypeOK, Issues
<1> DEFINE e == Event(line, sequence + 1)
           last == Len(events) + 1
<1>2. /\ e \in Events /\ e.sequence = sequence + 1 /\ e.raw = line
      /\ e.kind = Kind(line) /\ e.partial = IsPartial(line)
  BY <1>1, EventsOfLines
<1>3. e = Event(e.raw, e.sequence)
  BY <1>2
<1>4. events' = Append(events, e)
  BY DEF OneEvent
<1> HIDE DEF e
<1>5. /\ DOMAIN events' = DOMAIN events \cup {last} /\ events'[last] = e
      /\ \A k \in DOMAIN events : events'[k] = events[k] /\ k # last
      /\ \A k \in DOMAIN events : k \in Nat /\ k < last
      /\ last \in Nat
  BY <1>1, <1>2, <1>4, AppendedEvents
<1> HIDE DEF last
<1>6. EventsAreMapped(events')
  <2>1. \A k \in DOMAIN events : events[k] = Event(events[k].raw, events[k].sequence)
    BY DEF LinesAreKept, EventsAreMapped
  <2>2. \A k \in DOMAIN events' : events'[k] = Event(events'[k].raw, events'[k].sequence)
    BY <1>3, <1>5, <2>1
  <2>3. ASSUME NEW j \in DOMAIN events', NEW k \in DOMAIN events', j < k
        PROVE  events'[j].sequence < events'[k].sequence
    <3>1. j \in DOMAIN events
      BY <1>5, <2>3
    <3>2. CASE k = last
      BY <1>2, <1>5, <3>1, <3>2, NextNumberIsNew
    <3>3. CASE k # last
      BY <1>5, <2>3, <3>1, <3>3 DEF LinesAreKept, EventsAreMapped
    <3> QED BY <3>2, <3>3
  <2> QED BY <2>2, <2>3 DEF EventsAreMapped
<1>7. format' = format /\ pc' = pc /\ pc # "done" /\ "events_unreadable" \notin CodesIn(issues)
  BY LineSteps DEF ReadingInvariant, LinesAreKept
<1>8. EventsAreMapped(events)'
  <2>1. \A l, n : Event(l, n)' = Event(l, n)
    BY <1>7 DEF Event, Kind, IsPartial, IsMessage, IsDetail
  <2> QED BY <1>6, <2>1 DEF EventsAreMapped
<1>9. EventLines(events') = EventLines(events) \cup {<<sequence + 1, line>>}
  BY <1>2, <1>5 DEF EventLines
<1>10. ASSUME IssuesAreDistinct(issues'), PartialEventsHaveIssues(events, issues'),
              "events_unreadable" \notin CodesIn(issues'),
              IsPartial(line) => \E n \in DOMAIN issues' :
                issues'[n].code = "partial_mapping" /\ issues'[n].sequence = sequence + 1
       PROVE  LinesAreKept'
  <2>1. PartialEventsHaveIssues(events', issues')
    BY <1>2, <1>5, <1>10 DEF PartialEventsHaveIssues
  <2>2. TakenAreEvents(events', issues', taken')
    BY <1>9, <1>7, <1>10 DEF LinesAreKept, TakenAreEvents
  <2> QED BY <1>8, <1>7, <1>10, <2>1, <2>2 DEF LinesAreKept
<1>11. CASE issues' = issues /\ ~IsPartial(line)
  BY <1>7, <1>10, <1>11 DEF LinesAreKept
<1>12. ASSUME NEW c \in {"unknown_shape", "partial_mapping"},
              issues' = Append(issues, Issue(c, sequence + 1)),
              c = "partial_mapping" \/ Kind(line) = "unknown"
       PROVE  LinesAreKept'
  <2>1. /\ IssuesAreDistinct(issues') /\ PartialEventsHaveIssues(events, issues')
        /\ "events_unreadable" \notin CodesIn(issues')
    BY <1>7, <1>12, IssueOfLineIsKept DEF LineCodes
  <2>2. IsPartial(line) => c = "partial_mapping"
    BY <1>12 DEF IsPartial
  <2>3. /\ Len(issues) + 1 \in DOMAIN issues'
        /\ issues'[Len(issues) + 1] = Issue(c, sequence + 1)
    BY <1>1, <1>12
  <2>4. Issue(c, sequence + 1).code = c /\ Issue(c, sequence + 1).sequence = sequence + 1
    BY DEF Issue
  <2> QED BY <1>10, <2>1, <2>2, <2>3, <2>4
<1> QED BY <1>11, <1>12 DEF OneEvent

LEMMA LinesAreKeptNext == ReadingInvariant /\ LinesAreKept /\ [Next]_vars => LinesAreKept'
<1> SUFFICES ASSUME ReadingInvariant, LinesAreKept, [Next]_vars PROVE LinesAreKept'
  OBVIOUS
<1>0. issues \in Seq(Issues) /\ sequence \in Nat /\ events \in Seq(Events)
  BY DEF ReadingInvariant, ReadingType, TypeOK, Issues
<1>1. ASSUME NEW c \in {"events_missing", "events_unreadable", "legacy_unreadable", "legacy_parse_failed"},
             Stop(Issue(c, Nil)), events = <<>>, \A k \in DOMAIN issues : issues[k].code = "workspace"
      PROVE  LinesAreKept'
  <2> DEFINE i == Issue(c, Nil)
  <2>1. i \in Issues /\ i.code = c /\ i.sequence = Nil
    BY DEF Issue, Issues, IssueCodes
  <2>2. /\ issues' = Append(issues, i) /\ events' = <<>> /\ taken' = taken /\ pc' = "done"
    BY <1>1 DEF Stop, Goto
  <2> HIDE DEF i
  <2>3. IssuesAreDistinct(issues')
    <3>1. \A k \in DOMAIN issues : issues[k] # i
      BY <1>1, <2>1
    <3>2. (i.sequence = Nil) <=> (i.code \notin LineCodes)
      BY <2>1 DEF LineCodes
    <3> QED BY <1>0, <2>1, <2>2, <3>1, <3>2, DistinctIssues DEF LinesAreKept
  <2>4. EventsAreMapped(events)' /\ PartialEventsHaveIssues(events, issues)' /\ EventLines(events') = {}
    BY <2>2 DEF EventsAreMapped, PartialEventsHaveIssues, EventLines
  <2>5. TakenAreEvents(events', issues', taken')
    <3>1. "events_unreadable" \notin CodesIn(issues)
      BY <1>1 DEF CodesIn
    <3>2. EventLines(events) = {}
      BY <1>1 DEF EventLines
    <3> QED BY <1>1, <2>2, <2>4, <3>1, <3>2 DEF LinesAreKept, TakenAreEvents
  <2> QED BY <2>2, <2>3, <2>4, <2>5 DEF LinesAreKept
<1>2. WorkspaceIssues \in Seq(Issues) /\ \A k \in DOMAIN WorkspaceIssues : WorkspaceIssues[k].code = "workspace"
  BY WorkspaceIssuesAreTyped DEF WorkspaceIssues, Issue
<1>3. IssuesAreDistinct(WorkspaceIssues) /\ "events_unreadable" \notin CodesIn(WorkspaceIssues)
  <2>1. \A j, k \in DOMAIN WorkspaceIssues : j = k
    BY DEF WorkspaceIssues
  <2>2. \A k \in DOMAIN WorkspaceIssues :
          WorkspaceIssues[k].sequence = Nil /\ WorkspaceIssues[k].code = "workspace"
    BY DEF WorkspaceIssues, Issue
  <2> QED BY <2>1, <2>2 DEF IssuesAreDistinct, CodesIn, LineCodes
<1>4. /\ pc \in {"workspace", "exist", "stat"} => events = <<>>
      /\ pc = "workspace" => issues = <<>>
      /\ pc \in {"exist", "stat"} => issues = WorkspaceIssues
  BY DEF ReadingInvariant, BeforeLines
<1>5. CASE LineStep
  <2>1. format' = format /\ pc' = pc /\ pc # "done"
    BY <1>5, LineSteps DEF ReadingInvariant
  <2>2. ASSUME NEW line \in LineValues, OneEvent(line),
               taken' = taken \cup {<<sequence + 1, line>>}
        PROVE  LinesAreKept'
    BY <1>5, <2>1, <2>2, EventOfLineIsKept
  <2>3. ASSUME IssueOnly,
               \/ taken' = taken
               \/ \E line \in LineValues :
                    line.json = "broken" /\ taken' = taken \cup {<<sequence + 1, line>>}
        PROVE  LinesAreKept'
    <3>1. /\ events' = events /\ issues' = Append(issues, Issue("parse_failed", sequence + 1))
      BY <2>3 DEF IssueOnly
    <3>2. /\ IssuesAreDistinct(issues') /\ PartialEventsHaveIssues(events, issues')
          /\ "events_unreadable" \notin CodesIn(issues) /\ "events_unreadable" \notin CodesIn(issues')
      BY <2>1, <3>1, IssueOfLineIsKept DEF LinesAreKept, LineCodes
    <3>3. EventsAreMapped(events)'
      BY <2>1, <3>1, MappingIsOfTheFormat DEF LinesAreKept
    <3>4. TakenAreEvents(events, issues', taken')
      BY <2>3, <3>2 DEF TakenAreEvents, LinesAreKept
    <3> QED BY <2>1, <3>1, <3>2, <3>3, <3>4 DEF LinesAreKept
  <2> QED BY <1>5, <2>2, <2>3, LinesTaken DEF ReadingInvariant
<1>6. CASE ReadWorkspace
  <2>1. /\ issues' = WorkspaceIssues /\ events' = <<>> /\ taken' = taken /\ pc = "workspace" /\ pc' = "exist"
        /\ events = <<>> /\ issues = <<>>
    BY <1>4, <1>6 DEF ReadWorkspace, Goto
  <2>2. EventsAreMapped(events)' /\ PartialEventsHaveIssues(events, issues)'
    BY <2>1 DEF EventsAreMapped, PartialEventsHaveIssues
  <2>3. TakenAreEvents(events', issues', taken')
    <3>1. "events_unreadable" \notin CodesIn(issues)
      BY <2>1 DEF LinesAreKept
    <3> QED BY <1>3, <2>1, <3>1 DEF LinesAreKept, TakenAreEvents
  <2> QED BY <1>3, <2>1, <2>2, <2>3 DEF LinesAreKept
<1>7. ASSUME UNCHANGED <<format, events, issues, taken>>, pc' = "done" \/ pc # "done"
      PROVE  LinesAreKept'
  BY <1>7, MappingIsOfTheFormat DEF LinesAreKept, PartialEventsHaveIssues
<1>8. CASE EventsExist \/ StatAndOpen
  <2>1. pc \in {"exist", "stat"}
    BY <1>8 DEF EventsExist, StatAndOpen
  <2>2. \/ \E c \in {"events_missing", "events_unreadable"} : Stop(Issue(c, Nil))
        \/ UNCHANGED <<format, events, issues, taken>>
    BY <1>8 DEF EventsExist, StatAndOpen, source, result
  <2> QED BY <1>1, <1>2, <1>4, <1>7, <2>1, <2>2
<1>9. CASE ReadLegacy
  <2>1. pc = "workspace"
    BY <1>9 DEF ReadLegacy
  <2>2. \/ \E c \in {"legacy_unreadable", "legacy_parse_failed"} : Stop(Issue(c, Nil))
        \/ UNCHANGED <<format, events, issues, taken>>
    BY <1>9 DEF ReadLegacy, source, result
  <2> QED BY <1>1, <1>4, <1>7, <2>1, <2>2
<1>10. CASE FinishReading \/ FinishTimeline
  <2>1. UNCHANGED <<format, events, issues, taken>> /\ pc' = "done"
    BY <1>10 DEF FinishReading, FinishTimeline, Goto, source, result
  <2> QED BY <1>7, <2>1
<1>11. CASE FailReading
  <2> DEFINE i == Issue("events_unreadable", Nil)
  <2>1. i \in Issues /\ i.code = "events_unreadable" /\ i.sequence = Nil
    BY DEF Issue, Issues, IssueCodes
  <2>2. issues' = Append(WorkspaceIssues, i) /\ events' = <<>> /\ pc' = "done"
    BY <1>11 DEF FailReading, Goto
  <2> HIDE DEF i
  <2>3. IssuesAreDistinct(issues')
    <3>1. \A k \in DOMAIN WorkspaceIssues : WorkspaceIssues[k] # i
      BY <1>2, <2>1
    <3>2. (i.sequence = Nil) <=> (i.code \notin LineCodes)
      BY <2>1 DEF LineCodes
    <3> QED BY <1>2, <1>3, <2>1, <2>2, <3>1, <3>2, DistinctIssues
  <2>4. "events_unreadable" \in CodesIn(issues')
    BY <1>2, <2>1, <2>2, AppendedIssues
  <2>5. EventsAreMapped(events)' /\ PartialEventsHaveIssues(events, issues)'
    BY <2>2 DEF EventsAreMapped, PartialEventsHaveIssues
  <2>6. TakenAreEvents(events', issues', taken')
    BY <2>2, <2>4 DEF TakenAreEvents
  <2> QED BY <2>2, <2>3, <2>5, <2>6 DEF LinesAreKept
<1>12. CASE CliWrites \/ CliCompletesLine \/ RemoveFile \/ Chmod
  <2>1. UNCHANGED <<format, events, issues, taken>> /\ pc # "done"
    BY <1>12 DEF CliWrites, CliCompletesLine, RemoveFile, Chmod, Reading, BeforeOpen, source, result
  <2> QED BY <1>7, <2>1
<1>13. CASE UNCHANGED vars
  <2>1. UNCHANGED <<format, events, issues, taken>> /\ pc' = pc
    BY <1>13 DEF vars, source, result
  <2> QED BY <1>7, <2>1
<1> QED BY <1>5, <1>6, <1>8, <1>9, <1>10, <1>11, <1>12, <1>13 DEF Next, LineStep

\* What becomes of each line and issue, for files of any length.
THEOREM LinesAreKeptHolds == Spec => []LinesAreKept
<1>1. Init => LinesAreKept
  BY DEF Init, LinesAreKept, EventsAreMapped, IssuesAreDistinct, PartialEventsHaveIssues,
         TakenAreEvents, EventLines, CodesIn
<1> QED BY <1>1, ReadingInvariantHolds, LinesAreKeptNext, PTL DEF Spec

-----------------------------------------------------------------------------
(* The conversation, the activity and the search                           *)

\* A line is of the conversation exactly if a user or the assistant said something in it.
LEMMA SaidIsConversation ==
  ASSUME NEW line \in LineValues, NEW n, format \in {"current", "legacy"}
  PROVE  /\ IsConversation(Event(line, n)) <=> IsSaid(line)
         /\ IsSaid(line) => Kind(line) = "message" /\ (Event(line, n).content <=> line.content)
         /\ IsActivity(Event(line, n)) <=>
              Kind(line) # "message" \/ RoleOf(line) = "system"
         /\ IsSaid(line) => RoleOf(line) # "system"
<1>1. /\ Event(line, n).kind = Kind(line)
      /\ Kind(line) = "message" => Event(line, n).role = RoleOf(line)
      /\ Event(line, n).content <=> Kind(line) = "message" /\ line.content
      /\ Event(line, n).calls <=> Kind(line) = "message" /\ HasCalls(line)
  BY DEF Event
<1>2. Kind(line) = "message" <=> line.json = "hash" /\ IsMessage(line)
  BY DEF Kind
<1>3. line.content \in BOOLEAN /\ line.role \in Roles \cup {Nil}
  BY DEF LineValues
<1>4. Kind(line) \in {"message", "detail", "unknown"}
  BY KindsOfLines
<1>5. ASSUME NEW role \in {"user", "assistant"}
      PROVE  Says(line, role) <=>
               Kind(line) = "message" /\ RoleOf(line) = role /\ (line.content \/ HasCalls(line))
  <2>1. TypeOfRole[role] = IF role = "user" THEN "user.message" ELSE "assistant.message"
    BY DEF TypeOfRole
  <2>2. CASE line.type \in CurrentMessages
    <3>1. line.type \in {"user.message", "assistant.message", "system.message"} /\ line.type \notin LegacyMessages
      BY <2>2 DEF CurrentMessages, LegacyMessages
    <3>2. RoleOf(line) = role <=> line.role = role \/ (line.role = Nil /\ line.type = TypeOfRole[role])
      BY <1>3, <2>1, <2>2, <3>1, NilAssumption DEF RoleOf, RoleOfType, Roles
    <3> QED BY <1>2, <2>2, <3>1, <3>2 DEF Says, IsMessage, HasCalls
  <2>3. CASE line.type \notin CurrentMessages
    BY <1>2, <2>3 DEF Says, IsMessage, HasCalls, RoleOf
  <2> QED BY <2>2, <2>3
<1>6. IsSaid(line) <=> /\ Kind(line) = "message" /\ RoleOf(line) \in {"user", "assistant"}
                       /\ line.content \/ HasCalls(line)
  BY <1>5 DEF IsSaid
<1>7. IsConversation(Event(line, n)) <=> IsSaid(line)
  BY <1>1, <1>6 DEF IsConversation
<1>8. IsActivity(Event(line, n)) <=> Kind(line) # "message" \/ RoleOf(line) = "system"
  BY <1>1, <1>4 DEF IsActivity
<1> QED BY <1>1, <1>3, <1>6, <1>7, <1>8

\* What the invariants say of each event.
LEMMA KeptEvents ==
  ASSUME ReadingInvariant, LinesAreKept, NEW k \in DOMAIN events
  PROVE  /\ events[k].raw \in LineValues /\ events[k].sequence \in Nat \ {0}
         /\ k \in Conversation <=> IsSaid(events[k].raw)
         /\ k \in Activity <=> events[k].kind # "message" \/ RoleOf(events[k].raw) = "system"
         /\ events[k].kind = Kind(events[k].raw) /\ events[k].partial = IsPartial(events[k].raw)
         /\ IsSaid(events[k].raw) =>
              /\ Kind(events[k].raw) = "message" /\ RoleOf(events[k].raw) # "system"
              /\ events[k].content <=> events[k].raw.content
<1>1. events[k] \in Events /\ format \in {"current", "legacy"}
  BY DEF ReadingInvariant, ReadingType, TypeOK
<1>2. events[k].raw \in LineValues /\ events[k].sequence \in Nat \ {0}
  BY <1>1 DEF Events
<1>3. events[k] = Event(events[k].raw, events[k].sequence)
  BY DEF LinesAreKept, EventsAreMapped
<1>4. events[k].kind = Kind(events[k].raw) /\ events[k].partial = IsPartial(events[k].raw)
  BY <1>2, <1>3, EventsOfLines
<1>5. k \in Conversation <=> IsConversation(events[k])
  BY DEF Conversation
<1>6. k \in Activity <=> IsActivity(events[k])
  BY DEF Activity
<1> QED BY <1>1, <1>2, <1>3, <1>4, <1>5, <1>6, SaidIsConversation

LEMMA SaidIsTaken ==
  ASSUME ReadingInvariant, LinesAreKept, "events_unreadable" \notin CodesIn(issues)
  PROVE  {<<events[k].sequence, events[k].raw>> : k \in Conversation} = {t \in taken : IsSaid(t[2])}
<1>1. /\ EventLines(events) \subseteq taken
      /\ \A t \in taken : t \in EventLines(events) \/ t[2].json = "broken"
  BY DEF LinesAreKept, TakenAreEvents
<1>2. \A k \in DOMAIN events : k \in Conversation <=> IsSaid(events[k].raw)
  BY KeptEvents
<1>3. Conversation \subseteq DOMAIN events
  BY DEF Conversation
<1>4. \A line : IsSaid(line) => line.json = "hash"
  BY DEF IsSaid, Says
<1>5. ASSUME NEW k \in Conversation
      PROVE  <<events[k].sequence, events[k].raw>> \in {t \in taken : IsSaid(t[2])}
  BY <1>1, <1>2, <1>3, <1>5 DEF EventLines
<1>6. ASSUME NEW t \in taken, IsSaid(t[2])
      PROVE  \E k \in Conversation : t = <<events[k].sequence, events[k].raw>>
  <2>1. t \in EventLines(events)
    BY <1>1, <1>4, <1>6
  <2>2. PICK k \in DOMAIN events : t = <<events[k].sequence, events[k].raw>>
    BY <2>1 DEF EventLines
  <2>3. k \in Conversation
    BY <1>2, <1>6, <2>2
  <2> QED BY <2>2, <2>3
<1> QED BY <1>5, <1>6

LEMMA NothingSaidIsLost == ReadingInvariant /\ LinesAreKept => NoUtteranceIsLost
<1> SUFFICES ASSUME ReadingInvariant, LinesAreKept, "events_unreadable" \notin Codes
             PROVE  /\ {<<events[k].sequence, events[k].raw>> : k \in Conversation}
                         = {t \in taken : IsSaid(t[2])}
                    /\ \A j, k \in DOMAIN events : j < k => events[j].sequence < events[k].sequence
                    /\ \A k \in Activity : ~IsSaid(events[k].raw)
  BY DEF NoUtteranceIsLost
<1>1. "events_unreadable" \notin CodesIn(issues)
  BY DEF Codes, CodesIn
<1>2. \A k \in Activity : ~IsSaid(events[k].raw)
  <2>1. \A k \in Activity : k \in DOMAIN events
    BY DEF Activity
  <2> QED BY <2>1, KeptEvents
<1> QED BY <1>1, <1>2, SaidIsTaken DEF LinesAreKept, EventsAreMapped

\* What a user and the assistant said in lines that were taken in one piece is the
\* conversation, in its order, in a file of any lines and any length.
THEOREM UtterancesAreKept == Spec => []NoUtteranceIsLost
BY ReadingInvariantHolds, LinesAreKeptHolds, NothingSaidIsLost, PTL

\* "No events" is said of a session of which no line was taken.
THEOREM EmptyReasonCorrect == Spec => []EmptyReasonIsHonest
<1>1. ReadingInvariant /\ LinesAreKept => EmptyReasonIsHonest
  <2> SUFFICES ASSUME ReadingInvariant, LinesAreKept
               PROVE  (EmptyReason = "no_events") = (sequence = 0 /\ "events_unreadable" \notin Codes)
    BY DEF EmptyReasonIsHonest
  <2>1. sequence \in Nat /\ events \in Seq(Events) /\ "no_events" # Nil
    BY NilAssumption DEF ReadingInvariant, ReadingType, TypeOK, EmptyReasons
  <2>2. /\ Codes = CodesIn(issues)
        /\ "parse_failed" \in Codes <=> NumbersIn(issues, "parse_failed") # {}
    BY DEF Codes, CodesIn, NumbersIn
  <2>3. events = <<>> <=> SequencesIn(events) = {}
    <3>1. CASE events = <<>>
      BY <3>1 DEF SequencesIn
    <3>2. CASE events # <<>>
      <4>1. 1 \in DOMAIN events
        BY <2>1, <3>2
      <4>2. events[1].sequence \in SequencesIn(events)
        BY <4>1 DEF SequencesIn
      <4> QED BY <3>2, <4>2
    <3> QED BY <3>1, <3>2
  <2>4. events = <<>> => Conversation = {}
    BY DEF Conversation
  <2>5. EmptyReason = "no_events" <=> events = <<>> /\ ~EventsUnavailable
    BY <2>1, <2>4 DEF EmptyReason
  <2>6. "events_unreadable" \notin Codes =>
          (events = <<>> /\ "parse_failed" \notin Codes <=> sequence = 0)
    <3>1. "events_unreadable" \notin Codes =>
            SequencesIn(events) \cup NumbersIn(issues, "parse_failed") = 1 .. sequence
      BY <2>2 DEF ReadingInvariant, Reported
    <3>2. 1 .. sequence = {} <=> sequence = 0
      BY <2>1
    <3> QED BY <2>2, <2>3, <3>1, <3>2
  <2>7. EmptyReason = "no_events" <=> sequence = 0 /\ "events_unreadable" \notin Codes
    BY <2>5, <2>6 DEF EventsUnavailable
  <2> QED BY <2>7, Zenon
<1> QED BY <1>1, ReadingInvariantHolds, LinesAreKeptHolds, PTL

\* An issue of a line is of the session exactly if its line has no event; the codes of
\* failures are those of the session.
LEMMA IssuesOfTheSession ==
  ASSUME ReadingInvariant, LinesAreKept, NEW n \in DOMAIN issues
  PROVE  /\ n \in SessionIssues <=> \A k \in DOMAIN events : n \notin IssuesShownWith(k)
         /\ issues[n].code \notin {"unknown_shape", "partial_mapping"} => n \in SessionIssues
<1>1. \A k \in DOMAIN events : events[k].sequence # Nil
  BY KeptEvents, NilAssumption
<1>2. n \in SessionIssues <=> \A k \in DOMAIN events : events[k].sequence # issues[n].sequence
  BY <1>1 DEF SessionIssues, IsOfSession, Sequences
<1>3. n \in SessionIssues <=> \A k \in DOMAIN events : n \notin IssuesShownWith(k)
  BY <1>2 DEF IssuesShownWith
<1>4. ASSUME issues[n].code \notin {"unknown_shape", "partial_mapping"}
      PROVE  \A k \in DOMAIN events : events[k].sequence # issues[n].sequence
  <2>1. CASE issues[n].code # "parse_failed"
    BY <1>1, <1>4, <2>1 DEF LinesAreKept, IssuesAreDistinct, LineCodes
  <2>2. CASE issues[n].code = "parse_failed" /\ "events_unreadable" \notin CodesIn(issues)
    <3>1. SequencesIn(events) \cap NumbersIn(issues, "parse_failed") = {}
      BY <2>2 DEF ReadingInvariant, Reported
    <3> QED BY <2>2, <3>1 DEF SequencesIn, NumbersIn
  <2>3. CASE "events_unreadable" \in CodesIn(issues)
    BY <2>3 DEF LinesAreKept, TakenAreEvents
  <2> QED BY <2>1, <2>2, <2>3
<1> QED BY <1>2, <1>3, <1>4

\* The search text has what was said in the lines that were taken in one piece, and the
\* codes of all that was lost.
THEOREM SearchFindsAll == Spec => []SearchFindsSaidAndLost
<1>1. ReadingInvariant /\ LinesAreKept => SearchFindsSaidAndLost
  <2> SUFFICES ASSUME ReadingInvariant, LinesAreKept
               PROVE  /\ "events_unreadable" \notin Codes =>
                           SearchWords = {line \in {t[2] : t \in taken} : line.content /\ IsSaid(line)}
                      /\ Codes \ {"unknown_shape", "partial_mapping"} \subseteq SearchCodes
                      /\ \A k \in DOMAIN events :
                           events[k].partial /\ IsSaid(events[k].raw) => "partial_mapping" \in SearchCodes
    BY DEF SearchFindsSaidAndLost
  <2>1. ASSUME "events_unreadable" \notin Codes
        PROVE  SearchWords = {line \in {t[2] : t \in taken} : line.content /\ IsSaid(line)}
    <3>1. {<<events[k].sequence, events[k].raw>> : k \in Conversation} = {t \in taken : IsSaid(t[2])}
      <4>1. "events_unreadable" \notin CodesIn(issues)
        BY <2>1 DEF Codes, CodesIn
      <4> QED BY <4>1, SaidIsTaken
    <3>2. \A k \in Conversation : k \in DOMAIN events
      BY DEF Conversation
    <3>3. \A k \in Conversation : events[k].content <=> events[k].raw.content
      BY <3>2, KeptEvents
    <3>4. ASSUME NEW line \in SearchWords
          PROVE  line \in {t[2] : t \in taken} /\ line.content /\ IsSaid(line)
      <4>1. PICK k \in Conversation : events[k].content /\ line = events[k].raw
        BY DEF SearchWords
      <4>2. <<events[k].sequence, line>> \in {t \in taken : IsSaid(t[2])}
        BY <3>1, <4>1
      <4>3. <<events[k].sequence, line>> \in taken /\ IsSaid(line)
        BY <4>2
      <4> QED BY <3>3, <4>1, <4>3
    <3>5. ASSUME NEW t \in taken, t[2].content, IsSaid(t[2])
          PROVE  t[2] \in SearchWords
      <4>1. PICK k \in Conversation : t = <<events[k].sequence, events[k].raw>>
        BY <3>1, <3>5
      <4> QED BY <3>3, <3>5, <4>1 DEF SearchWords
    <3> QED BY <3>4, <3>5
  <2>2. ASSUME NEW n \in DOMAIN issues, issues[n].code \notin {"unknown_shape", "partial_mapping"}
        PROVE  issues[n].code \in SearchCodes
    BY <2>2, IssuesOfTheSession DEF SearchCodes, CodesOf
  <2>3. ASSUME NEW k \in DOMAIN events, events[k].partial, IsSaid(events[k].raw)
        PROVE  "partial_mapping" \in SearchCodes
    <3>1. k \in Conversation
      BY <2>3, KeptEvents
    <3>2. PICK n \in DOMAIN issues :
            issues[n].code = "partial_mapping" /\ issues[n].sequence = events[k].sequence
      BY <2>3 DEF LinesAreKept, PartialEventsHaveIssues
    <3>3. n \in IssuesShownWith(k)
      BY <3>2 DEF IssuesShownWith
    <3> QED BY <3>1, <3>2, <3>3 DEF SearchCodes, CodesOf
  <2> QED BY <2>1, <2>2, <2>3 DEF Codes
<1> QED BY <1>1, ReadingInvariantHolds, LinesAreKeptHolds, PTL

-----------------------------------------------------------------------------
(* The places of an issue on the page                                      *)

\* An event that is not mapped in full has an issue.
LEMMA PartialIsShown ==
  ASSUME ReadingInvariant, LinesAreKept, NEW k \in DOMAIN events, events[k].partial
  PROVE  IssuesShownWith(k) # {}
<1>1. PICK n \in DOMAIN issues : issues[n].sequence = events[k].sequence
  BY DEF LinesAreKept, PartialEventsHaveIssues
<1> QED BY <1>1 DEF IssuesShownWith

\* The issue of a line is shown with one event at most.
LEMMA OneEventEach ==
  ASSUME ReadingInvariant, LinesAreKept, NEW n,
         NEW j \in DOMAIN events, NEW k \in DOMAIN events,
         n \in IssuesShownWith(j), n \in IssuesShownWith(k)
  PROVE  j = k
<1>1. events \in Seq(Events)
  BY DEF ReadingInvariant, ReadingType, TypeOK
<1>2. j \in Nat /\ k \in Nat
  BY <1>1
<1>3. events[j].sequence = events[k].sequence
  BY DEF IssuesShownWith
<1>4. events[j].sequence \in Nat
  BY KeptEvents
<1>5. ~(j < k) /\ ~(k < j)
  BY <1>3, <1>4 DEF LinesAreKept, EventsAreMapped
<1> QED BY <1>2, <1>5

\* Where the issue of an event is: nowhere, or in the one list its event is in.
LEMMA PlacesOfAnEvent ==
  ASSUME ReadingInvariant, LinesAreKept, NEW n \in DOMAIN issues, NEW k \in DOMAIN events,
         n \in IssuesShownWith(k)
  PROVE  IF SaysNothing(events[k].raw) THEN PlacesOnPage(n) = {}
         ELSE \E list \in {"conversation", "activity"} : PlacesOnPage(n) = {<<list, k>>}
<1>1. n \notin SessionIssues
  BY IssuesOfTheSession
<1>2. \A j \in DOMAIN events : n \in IssuesShownWith(j) => j = k
  BY OneEventEach
<1>3. Conversation \subseteq DOMAIN events /\ Activity \subseteq DOMAIN events
  BY DEF Conversation, Activity
<1>4. /\ {e \in Conversation : n \in IssuesShownWith(e)} = Conversation \cap {k}
      /\ {e \in Activity : n \in IssuesShownWith(e)} = Activity \cap {k}
  BY <1>2, <1>3
<1>5. PlacesOnPage(n) = {<<"conversation", e>> : e \in Conversation \cap {k}}
                          \cup {<<"activity", e>> : e \in Activity \cap {k}}
  BY <1>1, <1>4 DEF PlacesOnPage
<1>6. /\ k \in Conversation <=> IsSaid(events[k].raw)
      /\ k \in Activity <=> Kind(events[k].raw) # "message" \/ RoleOf(events[k].raw) = "system"
      /\ IsSaid(events[k].raw) => Kind(events[k].raw) = "message" /\ RoleOf(events[k].raw) # "system"
  BY KeptEvents
<1>7. CASE SaysNothing(events[k].raw)
  BY <1>5, <1>6, <1>7 DEF SaysNothing
<1>8. CASE k \in Conversation
  <2>1. k \notin Activity /\ ~SaysNothing(events[k].raw)
    BY <1>6, <1>8 DEF SaysNothing
  <2>2. PlacesOnPage(n) = {<<"conversation", k>>}
    BY <1>5, <1>8, <2>1
  <2> QED BY <2>1, <2>2
<1>9. CASE k \in Activity
  <2>1. k \notin Conversation /\ ~SaysNothing(events[k].raw)
    BY <1>6, <1>9 DEF SaysNothing
  <2>2. PlacesOnPage(n) = {<<"activity", k>>}
    BY <1>5, <1>9, <2>1
  <2> QED BY <2>1, <2>2
<1> QED BY <1>6, <1>7, <1>8, <1>9 DEF SaysNothing

\* The issue of no event is in the list of the session.
LEMMA PlaceInTheSession ==
  ASSUME ReadingInvariant, LinesAreKept, NEW n \in DOMAIN issues,
         \A k \in DOMAIN events : n \notin IssuesShownWith(k)
  PROVE  PlacesOnPage(n) = {<<"session", n>>}
<1>1. n \in SessionIssues
  BY IssuesOfTheSession
<1>2. Conversation \subseteq DOMAIN events /\ Activity \subseteq DOMAIN events
  BY DEF Conversation, Activity
<1> QED BY <1>1, <1>2 DEF PlacesOnPage

\* No issue is on the page twice, and what is not on it is of a message that says nothing
\* and of a session marked as degraded, however many lines and issues there are.
THEOREM IssuesAreShownOnce == Spec => []IssuesHaveOnePlace
<1>1. ReadingInvariant /\ LinesAreKept => IssuesHaveOnePlace
  <2> SUFFICES ASSUME ReadingInvariant, LinesAreKept PROVE IssuesHaveOnePlace
    OBVIOUS
  <2>1. ASSUME NEW n \in DOMAIN issues
        PROVE  /\ \A p, q \in PlacesOnPage(n) : p = q
               /\ PlacesOnPage(n) = {} =>
                    /\ SourceState = "degraded"
                    /\ \E k \in DOMAIN events : n \in IssuesShownWith(k) /\ SaysNothing(events[k].raw)
    <3>1. CASE \A k \in DOMAIN events : n \notin IssuesShownWith(k)
      <4>1. PlacesOnPage(n) = {<<"session", n>>}
        BY <3>1, PlaceInTheSession
      <4> QED BY <4>1
    <3>2. ASSUME NEW k \in DOMAIN events, n \in IssuesShownWith(k)
          PROVE  /\ \A p, q \in PlacesOnPage(n) : p = q
                 /\ PlacesOnPage(n) = {} => SourceState = "degraded" /\ SaysNothing(events[k].raw)
      <4>1. SourceState = "degraded"
        <5>1. issues[n].sequence # Nil
          BY <3>2, KeptEvents, NilAssumption DEF IssuesShownWith
        <5>2. issues[n].code \in Codes /\ issues[n].code # "events_missing"
          BY <5>1 DEF LinesAreKept, IssuesAreDistinct, LineCodes, Codes
        <5> QED BY <5>2 DEF SourceState
      <4>2. IF SaysNothing(events[k].raw) THEN PlacesOnPage(n) = {}
            ELSE \E list \in {"conversation", "activity"} : PlacesOnPage(n) = {<<list, k>>}
        BY <3>2, PlacesOfAnEvent
      <4> QED BY <4>1, <4>2
    <3> QED BY <3>1, <3>2
  <2>2. \A j, k \in DOMAIN issues : issues[j] = issues[k] => j = k
    BY DEF LinesAreKept, IssuesAreDistinct
  <2>3. HasActivityWarning <=> \E k \in Activity : IssuesShownWith(k) # {}
    <3>1. \A k \in Activity : k \in DOMAIN events
      BY DEF Activity
    <3> QED BY <3>1, PartialIsShown DEF HasActivityWarning
  <2>4. HasActivityWarning = \E k \in Activity : IssuesShownWith(k) # {}
    <3>1. HasActivityWarning \in BOOLEAN
      BY Zenon DEF HasActivityWarning
    <3> QED BY <2>3, <3>1, Zenon
  <2> QED BY <2>1, <2>2, <2>4 DEF IssuesHaveOnePlace
<1> QED BY <1>1, ReadingInvariantHolds, LinesAreKeptHolds, PTL
=============================================================================
