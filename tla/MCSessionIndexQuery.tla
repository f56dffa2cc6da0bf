------------------------- MODULE MCSessionIndexQuery -------------------------
(* An instance of SessionIndexQuery and of the forms that ask it, for TLC. *)
EXTENDS ListForms
LOCAL INSTANCE SequencesExt

OneTerm == {<<"letter">>}
\* An older update may come with or without a creation time, a newer one with it.
SomeContents ==
  [updated : {3, Nil}, created : {4, Nil}, text : SUBSET OneTerm]
    \cup [updated : {5}, created : {4}, text : SUBSET OneTerm]

Day(n) == [unit |-> "day", at |-> n]
Instant(n) == [unit |-> "instant", at |-> n]

\* Day 2 is the first of the last seven.
SomeDrafts ==
  [from : {2, Nil}, to : {1, 2, Nil},
   text : {<<>>, <<"wide", "letter", "blank">>, <<"letter", "astral", "astral">>}]
AllTexts == BoundedSeq(Characters, 4)

\* From and to that split the times, or are absent; out of order; unreadable; and
\* what the page sends.
SomeParams ==
  [from : {Day(2), Nil}, to : {Day(2), Nil}, limit : {1, Nil}, term : Terms \cup {Nil}]
    \cup [from : {Day(2)}, to : {Instant(3), Malformed}, limit : {Nil}, term : {Nil}]
    \cup {Request[c] : c \in Applied}
=============================================================================
