------------------------- MODULE ConversationContent -------------------------
(***************************************************************************)
(* What a conversation entry shows: its text, cut into text and code blocks *)
(* at fence marks, and its tool calls; whether it is hidden by default and  *)
(* which tool arguments are collapsed.                                      *)
(*                                                                          *)
(* A content is a sequence of tokens: "fence" is three backticks, "tick" a  *)
(* single one, "skill" the opening of a skill context, "word" anything else *)
(* that can be read.  A block names the positions of the tokens it holds;   *)
(* blocks are shown in the order of where they begin.                       *)
(***************************************************************************)
EXTENDS Naturals, Sequences, FiniteSetsExt

CONSTANT NoText  \* null

Tokens == {"fence", "newline", "tick", "word", "space", "skill"}
Blank == {"newline", "space"}

ToolCalls == [name : {"skill-context", "bash", NoText}, is_truncated : BOOLEAN,
              arguments_preview : {NoText, "line", "lines"}]

ConversationEntries == [content : Seq(Tokens) \cup {NoText}, tool_calls : Seq(ToolCalls)]

-----------------------------------------------------------------------------
(* Text and code                                                           *)

FenceMarks(content) == {i \in DOMAIN content : content[i] = "fence"}

\* The matches of CODE_FENCE_PATTERN: fence marks pair up from the left.
Fences(content) ==
  {m \in [open : FenceMarks(content), close : FenceMarks(content)] :
     /\ Cardinality(FenceMarks(content) \cap (1 .. m.open)) % 2 = 1
     /\ m.open < m.close
     /\ \A i \in FenceMarks(content) : ~(m.open < i /\ i < m.close)}

\* ([^\n`]*)\n? takes the rest of the opening mark's line, up to a backtick.
HintEnd(content, m) ==
  Min({i \in m.open + 1 .. m.close : content[i] \in {"newline", "tick", "fence"}}) - 1
CodeStart(content, m) ==
  HintEnd(content, m) + (IF content[HintEnd(content, m) + 1] = "newline" THEN 2 ELSE 1)

CodeBlock(content, m) ==
  [kind |-> "code", from |-> m.open, language |-> m.open + 1 .. HintEnd(content, m),
   at |-> CodeStart(content, m) .. m.close - 1]

\* From the beginning or behind a match up to the next match or the end.
TextBlock(content, from) ==
  [kind |-> "text", from |-> from,
   at |-> from .. Min({m.open - 1 : m \in {n \in Fences(content) : n.open >= from}}
                        \cup {Len(content)})]

ExtractContentBlocks(content) ==
  IF content = NoText THEN {}
  ELSE {CodeBlock(content, m) : m \in Fences(content)}
         \cup {b \in {TextBlock(content, from) :
                        from \in {1} \cup {m.close + 1 : m \in Fences(content)}} : b.at # {}}

-----------------------------------------------------------------------------
(* Tools                                                                   *)

\* skill_context and truncated_arguments collapse a tool that has no arguments too.
ArgumentsDefaultCollapsed(tool) ==
  \/ tool.name = "skill-context"
  \/ tool.is_truncated
  \/ tool.arguments_preview # NoText

HasArgumentsPreview(tool) == tool.arguments_preview # NoText

ExtractToolHintBlocks(tools) ==
  [k \in 1 .. Len(tools) |->
     [argumentsDefaultCollapsed |-> ArgumentsDefaultCollapsed(tools[k]),
      hasArgumentsPreview |-> HasArgumentsPreview(tools[k])]]

-----------------------------------------------------------------------------
(* Hidden by default                                                       *)

Legible(content, block) == {i \in block.at : content[i] \notin Blank}

StartsWithSkillContext(content, block) ==
  /\ block.kind = "text" /\ Legible(content, block) # {}
  /\ content[Min(Legible(content, block))] = "skill"

IsFirst(block, blocks) == \A b \in blocks : block.from <= b.from

\* Variant: code is not looked at.
HiddenUnlessText(entry) ==
  LET blocks == ExtractContentBlocks(entry.content) IN
  \/ \E b \in blocks : IsFirst(b, blocks) /\ StartsWithSkillContext(entry.content, b)
  \/ /\ entry.tool_calls # <<>>
     /\ \A b \in blocks : b.kind = "text" => Legible(entry.content, b) = {}

ShouldDefaultHide(entry) ==
  LET blocks == ExtractContentBlocks(entry.content) IN
  \/ \E b \in blocks : IsFirst(b, blocks) /\ StartsWithSkillContext(entry.content, b)
  \/ /\ entry.tool_calls # <<>>
     /\ \A b \in blocks : b.kind = "text" /\ Legible(entry.content, b) = {}

-----------------------------------------------------------------------------
(* Properties                                                              *)

\* A token on the same line as a fence mark before it.
OnFenceLine(content, i) ==
  \E m \in 1 .. i - 1 : content[m] = "fence" /\ \A j \in m .. i : content[j] # "newline"

\* What an entry says is on the page once and in order, but for fence marks and what
\* stands on their line; and an entry that says anything is not hidden by default,
\* unless it opens with a skill context.
SaysItAll(entry) ==
  LET content == IF entry.content = NoText THEN <<>> ELSE entry.content
      blocks == ExtractContentBlocks(entry.content)
      legible == {i \in 1 .. Len(content) : content[i] \notin Blank \cup {"fence"}}
  IN /\ \A b, c \in blocks :
          b # c => /\ b.from # c.from
                   /\ b.from < c.from => \A i \in b.at, j \in c.at : i < j
     /\ \A i \in legible : OnFenceLine(content, i) \/ \E b \in blocks : i \in b.at
     /\ ShouldDefaultHide(entry) /\ legible # {} => content[Min(legible)] = "skill"
=============================================================================
