------------------------------ MODULE ListForms ------------------------------
(***************************************************************************)
(* The two forms of the index page, from what is typed to what the API      *)
(* reads: which drafts may be submitted, the range and the term that the    *)
(* page then names, and the parameters that GET /api/sessions gets of them. *)
(*                                                                          *)
(* A text is a sequence of characters: "blank" is white space to everyone,  *)
(* "wide" (the ideographic space) only where Unicode is asked for, "astral" *)
(* is one character of two UTF-16 units.                                    *)
(***************************************************************************)
EXTENDS SessionIndexQuery

CONSTANTS
  Drafts,          \* what the fields may hold: a day or nothing in from and to, and a text
  SearchMaxLength,
  Texts            \* what a conversation may say

Characters == {"letter", "astral", "blank", "wide", "control"}

ASSUME DraftsAssumption ==
  /\ Drafts \subseteq [from : Nat \cup {Nil}, to : Nat \cup {Nil}, text : Seq(Characters)]
  /\ Texts \subseteq Seq(Characters) /\ SearchMaxLength \in Nat
  /\ {Nil, Malformed} \cap Seq(Characters) = {}
  /\ Now \div DayLength >= 6

-----------------------------------------------------------------------------
(* sessionDateFilter                                                       *)

Today == Now \div DayLength
BuildDefaultRange == [from |-> Today - 6, to |-> Today]

ResolveAppliedRange(range) ==
  IF range.from = Nil /\ range.to = Nil THEN BuildDefaultRange ELSE range

ValidateRange(range) ==
  range.from # Nil /\ range.to # Nil => range.from <= range.to

\* Variant: the last day is asked for up to its first instant.
LastDayOpens(day) == [unit |-> "instant", at |-> day * DayLength]

\* 00:00:00 and 23:59:59.999999 of a day in Japan.
FirstOfDay(day) == [unit |-> "instant", at |-> day * DayLength]
LastOfDay(day) == [unit |-> "instant", at |-> day * DayLength + DayLength - 1]

-----------------------------------------------------------------------------
(* sessionIndexCriteria, and the same work at the API                      *)

\* Runs of spaces become one, and those at the ends none: the words are kept, and the
\* first space behind a word that another follows.
IsWord(text, i, spaces) == text[i] \notin spaces
KeptPlaces(text, spaces) ==
  {i \in DOMAIN text :
     \/ IsWord(text, i, spaces)
     \/ /\ i > 1 /\ IsWord(text, i - 1, spaces)
        /\ \E j \in DOMAIN text : j > i /\ IsWord(text, j, spaces)}
PlaceOf(i, places) == Cardinality(places \cap (1 .. i))
Squeezed(text, spaces) ==
  LET kept == KeptPlaces(text, spaces) IN
  [k \in 1 .. Cardinality(kept) |->
     LET i == CHOOSE j \in kept : PlaceOf(j, kept) = k
     IN IF IsWord(text, i, spaces) THEN text[i] ELSE "blank"]

HasControl(text) == \E i \in DOMAIN text : text[i] = "control"
Utf16Length(text) == Len(text) + Cardinality({i \in DOMAIN text : text[i] = "astral"})

NormalizeSearchTerm(text) == Squeezed(text, {"blank", "wide"})
ValidateSearchTerm(text) ==
  ~HasControl(text) /\ Utf16Length(NormalizeSearchTerm(text)) <= SearchMaxLength

\* parse_search of SessionListParams, whose \s is not Unicode's.
ParseSearch(text) ==
  LET normalized == Squeezed(text, {"blank"}) IN
  IF HasControl(text) THEN Malformed
  ELSE IF normalized = <<>> THEN Nil
  ELSE IF Len(normalized) > SearchMaxLength THEN Malformed
  ELSE normalized

\* normalize of SessionSearchTextBuilder.
SearchText(text) == Squeezed(text, {"blank", "wide"})

-----------------------------------------------------------------------------
(* From the forms to the API                                               *)

\* The criteria that the page applies and names, of all that may be submitted.
Criteria(draft) == [range |-> ResolveAppliedRange([from |-> draft.from, to |-> draft.to]),
                    term |-> NormalizeSearchTerm(draft.text)]
Applied == {Criteria(d) : d \in {e \in Drafts : ValidateRange(e) /\ ValidateSearchTerm(e.text)}}

\* toSessionIndexQuery, buildRequestUrl and back: an empty value is not sent.
Request == [c \in Applied |->
  [from |-> IF c.range.from = Nil THEN Nil ELSE FirstOfDay(c.range.from),
   to |-> IF c.range.to = Nil THEN Nil ELSE LastOfDay(c.range.to),
   limit |-> Nil, term |-> ParseSearch(c.term)]]

-----------------------------------------------------------------------------
(* Properties                                                              *)

\* What the page names is what is listed: of a row, the day and the term.
IsNamed(c, row) ==
  /\ row # NoRow /\ DisplayTime(row) # Nil
  /\ c.range.from # Nil => DisplayTime(row) \div DayLength >= c.range.from
  /\ c.range.to # Nil => DisplayTime(row) \div DayLength <= c.range.to
  /\ c.term \in row.text \cup {<<>>}

\* What is copied from a conversation, with whatever spaces are in it and around it,
\* is found in its search text when the form lets it through.
Parts(text) == {SubSeq(text, i, j) : i, j \in 1 .. Len(text)}
CopiedTermsAreFound ==
  \A text \in Texts : \A part \in Parts(text) :
    ValidateSearchTerm(part) =>
      LET term == ParseSearch(NormalizeSearchTerm(part)) IN
      /\ term # Malformed
      /\ term # Nil => term \in Parts(SearchText(text))

\* The lists that the page gets are exactly what it names: whatever its forms let
\* through is accepted, and when no sync commits during the call the sessions listed
\* are all those of the named days and term, in order.
PageListsAreExact ==
  /\ QuietListsAreExact
  /\ \A c \in Applied : asked = Request[c] =>
       /\ pc # "invalid"
       /\ \A table \in moments : pc = "answered" /\ moments = {table} =>
            Listed = {i \in SessionIds : IsNamed(c, table[i])}
  /\ CopiedTermsAreFound
=============================================================================
