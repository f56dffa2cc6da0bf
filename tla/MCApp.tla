------------------------------- MODULE MCApp -------------------------------
(* Instances of App for TLC. *)
EXTENDS App

CONSTANTS r1, r2, r3, i1, i2, a, b, x

\* An entry with code and a tool beside one with a skill context; and one of tools only.
Tool(name, preview) ==
  [name |-> name, is_truncated |-> FALSE, arguments_preview |-> preview]
TwoSessions ==
  (i1 :> <<[content |-> <<"word", "fence", "newline", "word", "fence">>,
            tool_calls |-> <<Tool("bash", "line")>>],
           [content |-> <<"newline", "skill", "word">>, tool_calls |-> <<>>]>>)
    @@ (i2 :> <<[content |-> NoText,
                 tool_calls |-> <<Tool("bash", NoText), Tool("skill-context", "lines")>>]>>)

\* Everything an entry may say, up to a length.
Texts(n) ==
  {t \in BoundedSeq(Tokens, n) :
     \A i \in 1 .. Len(t) - 1 : {t[i], t[i + 1]} # {"tick", "fence"}}
SmallEntries ==
  [content : Texts(6) \cup {NoText}, tool_calls : {<<>>, <<Tool("bash", "line")>>}]

In(segments) == [cwd |-> [segments |-> segments, slash |-> FALSE, padded |-> FALSE]]
Slashed(s) == [s EXCEPT !.cwd.slash = TRUE]
Padded(s) == [s EXCEPT !.cwd.padded = TRUE]
Nowhere == [cwd |-> NoCwd]
Blanks == [cwd |-> BlankCwd]

SomeLists == {<<In(<<a, x>>)>>, <<In(<<a, x>>), In(<<b, x>>)>>,
              <<Blanks, In(<<b, x>>)>>, <<Padded(In(<<a, x>>)), In(<<b, x>>), Nowhere>>}

SomeSessions ==
  {Nowhere, Blanks, In(<<>>)}
    \cup {In(p) : p \in {<<x>>, <<a, x>>, <<b, x>>, <<b, a, x>>, <<a, b, a, x>>, <<a, b>>}}
    \cup {Slashed(In(<<a, x>>)), Slashed(In(<<x>>)), Padded(In(<<b, x>>))}
SomeListings == BoundedSeq(SomeSessions, 4) \ {<<>>}
=============================================================================
