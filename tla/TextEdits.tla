------------------------------- MODULE TextEdits -------------------------------
(***************************************************************************)
(* What FileEdit makes of a text, and the preview of the difference.       *)
(*                                                                         *)
(* A text is a sequence of characters: a letter, the straight quote        *)
(* "s", a curly quote "L", a carriage return "r" and a line feed "n".      *)
(* An edit is sought literally first, then with the file's line endings,   *)
(* then with curly quotes taken for straight ones; several places are      *)
(* replaced from right to left.  The preview is read off a table of        *)
(* longest common subsequences.                                            *)
(* TxtReplaceForward and TxtTableLeft are versions of the definition after *)
(* each of them with a plausible fault.                                    *)
(***************************************************************************)
EXTENDS Integers, FiniteSets, SequencesExt

CONSTANTS
  TxtMaxContent,  \* bound: characters of a file
  TxtMaxPiece,    \* bound: characters of a text to replace
  TxtMaxLines     \* bound: lines of the texts compared

ASSUME TxtAssumption ==
  TxtMaxContent \in Nat /\ TxtMaxPiece \in Nat /\ TxtMaxLines \in Nat

VARIABLE txt      \* the edit under way and what became of it

txtVars == <<txt>>

TxtInit == txt = [phase |-> "idle"]

TxtCharacters == {"a", "s", "L", "r", "n"}
TxtOfLength(most) == UNION {[1 .. n -> TxtCharacters] : n \in 0 .. most}
TxtNews == TxtOfLength(1) \cup {<<"s", "s">>}

-----------------------------------------------------------------------------
(* Line endings and quotes *)

TxtHasCrlf(text) ==
  \E i \in 1 .. Len(text) - 1 : text[i] = "r" /\ text[i + 1] = "n"

TxtEnding(content) == IF TxtHasCrlf(content) THEN <<"r", "n">> ELSE <<"n">>

\* Each ending becomes the one given: a line feed behind a carriage return is part of its
\* ending.
TxtWithEnding(text, ending) ==
  FlattenSeq([i \in DOMAIN text |->
                IF text[i] = "n" /\ i > 1 /\ text[i - 1] = "r" THEN <<>>
                ELSE IF text[i] \in {"r", "n"} THEN ending ELSE <<text[i]>>])

TxtFlatQuotes(text) == [i \in DOMAIN text |-> IF text[i] = "L" THEN "s" ELSE text[i]]

\* The straight quotes of the new text become, in turn, the quotes found in the file.
TxtKeepQuotes(template, candidate, actual) ==
  LET found == FlattenSeq([i \in DOMAIN actual |->
                             IF TxtFlatQuotes(candidate)[i] = "s" THEN <<actual[i]>> ELSE <<>>])
      nth(i) == Cardinality({j \in 1 .. i : template[j] = "s"})
  IN [i \in DOMAIN template |->
        IF template[i] = "s" /\ found # <<>>
        THEN found[((nth(i) - 1) % Len(found)) + 1] ELSE template[i]]

-----------------------------------------------------------------------------
(* Places *)

TxtAt(text, i, piece) ==
  i + Len(piece) - 1 <= Len(text) /\ SubSeq(text, i, i + Len(piece) - 1) = piece

\* From left to right, going on behind each place.
TxtPositions(text, piece) ==
  LET from[i \in 1 .. Len(text) + Len(piece)] ==
        IF i > Len(text) THEN <<>>
        ELSE IF TxtAt(text, i, piece) THEN <<i>> \o from[i + Len(piece)]
        ELSE from[i + 1]
  IN from[1]

TxtCandidates(content, old) ==
  LET normal == TxtWithEnding(old, TxtEnding(content))
  IN IF normal = old THEN <<old>> ELSE <<old, normal>>

TxtMatch(content, candidate, quotes) ==
  [piece |-> candidate, quotes |-> quotes,
   at |-> IF quotes THEN TxtPositions(TxtFlatQuotes(content), TxtFlatQuotes(candidate))
          ELSE TxtPositions(content, candidate)]

\* The first way of looking that finds a place.
TxtFind(content, old) ==
  LET candidates == TxtCandidates(content, old)
      tried == [i \in DOMAIN candidates |-> TxtMatch(content, candidates[i], FALSE)]
               \o [i \in DOMAIN candidates |-> TxtMatch(content, candidates[i], TRUE)]
      found == {k \in DOMAIN tried : tried[k].at # <<>>}
  IN IF found = {} THEN [piece |-> old, quotes |-> FALSE, at |-> <<>>]
     ELSE tried[CHOOSE k \in found : \A other \in found : k <= other]

-----------------------------------------------------------------------------
(* Replacing *)

TxtReplacement(text, i, match, template) ==
  IF match.quotes
  THEN TxtKeepQuotes(template, match.piece, SubSeq(text, i, i + Len(match.piece) - 1))
  ELSE template

TxtReplaceOne(content, text, i, match, template) ==
  SubSeq(text, 1, i - 1) \o TxtReplacement(content, i, match, template)
    \o SubSeq(text, i + Len(match.piece), Len(text))

\* As if the places were taken from left to right.
TxtReplaceForward(content, at, match, template) ==
  LET upto[k \in 0 .. Len(at)] ==
        IF k = 0 THEN content ELSE TxtReplaceOne(content, upto[k - 1], at[k], match, template)
  IN upto[Len(at)]

TxtReplace(content, at, match, template) ==
  LET from[k \in 1 .. Len(at) + 1] ==
        IF k > Len(at) THEN content
        ELSE TxtReplaceOne(content, from[k + 1], at[k], match, template)
  IN from[1]

TxtRefused(reason, content) == [ok |-> FALSE, reason |-> reason, text |-> content]

TxtApply(content, old, new, all) ==
  LET match == TxtFind(content, old)
      template == TxtWithEnding(new, TxtEnding(content))
      at == IF all THEN match.at ELSE SubSeq(match.at, 1, 1)
      next == TxtReplace(content, at, match, template)
  IN IF old = <<>> THEN TxtRefused("empty_old_string", content)
     ELSE IF old = new THEN TxtRefused("no_op", content)
     ELSE IF match.at = <<>> THEN TxtRefused("not_found", content)
     ELSE IF Len(match.at) > 1 /\ ~ all THEN TxtRefused("not_unique", content)
     ELSE IF next = content THEN TxtRefused("no_op", content)
     ELSE [ok |-> TRUE, reason |-> "none", text |-> next]

-----------------------------------------------------------------------------
(* The preview *)

\* Lines without their endings; the empty line after the last ending is none.
TxtLines(text) ==
  LET ends == {i \in DOMAIN text : text[i] = "n"}
      start(e) == IF \E d \in ends : d < e THEN Max({d \in ends : d < e}) + 1 ELSE 1
      cut(e) == IF e > start(e) /\ e \in ends /\ text[e - 1] = "r" THEN e - 2 ELSE e - 1
      line(e) == SubSeq(text, start(e), cut(e))
      stops == ends \cup (IF text # <<>> /\ text[Len(text)] # "n" THEN {Len(text) + 1} ELSE {})
  IN [k \in 1 .. Cardinality(stops) |->
        line(CHOOSE e \in stops : Cardinality({d \in stops : d <= e}) = k)]

\* A place in each of the two texts, or behind it.
TxtCells(old, new) == (1 .. Len(old) + 1) \X (1 .. Len(new) + 1)

\* As if the bound of a match were taken beside it.
TxtTableLeft(old, new) ==
  LET longest[at \in TxtCells(old, new)] ==
        LET i == at[1] j == at[2] IN
        IF i > Len(old) \/ j > Len(new) THEN 0
        ELSE IF old[i] = new[j] THEN 1 + longest[<<i + 1, j>>]
        ELSE Max({longest[<<i + 1, j>>], longest[<<i, j + 1>>]})
  IN longest

TxtTable(old, new) ==
  LET longest[at \in TxtCells(old, new)] ==
        LET i == at[1] j == at[2] IN
        IF i > Len(old) \/ j > Len(new) THEN 0
        ELSE IF old[i] = new[j] THEN 1 + longest[<<i + 1, j + 1>>]
        ELSE Max({longest[<<i + 1, j>>], longest[<<i, j + 1>>]})
  IN longest

TxtLine(type, value) == [type |-> type, value |-> value]

TxtDiff(old, new) ==
  LET table == TxtTable(old, new)
      from[at \in TxtCells(old, new)] ==
        LET i == at[1] j == at[2] IN
        IF i > Len(old) /\ j > Len(new) THEN <<>>
        ELSE IF i > Len(old) THEN <<TxtLine("add", new[j])>> \o from[<<i, j + 1>>]
        ELSE IF j > Len(new) THEN <<TxtLine("delete", old[i])>> \o from[<<i + 1, j>>]
        ELSE IF old[i] = new[j] THEN <<TxtLine("context", old[i])>> \o from[<<i + 1, j + 1>>]
        ELSE IF table[<<i + 1, j>>] >= table[<<i, j + 1>>]
             THEN <<TxtLine("delete", old[i])>> \o from[<<i + 1, j>>]
        ELSE <<TxtLine("add", new[j])>> \o from[<<i, j + 1>>]
  IN from[<<1, 1>>]

-----------------------------------------------------------------------------
(* Actions *)

TxtEdit ==
  /\ txt.phase = "idle"
  /\ \E content \in TxtOfLength(TxtMaxContent), old \in TxtOfLength(TxtMaxPiece),
       new \in TxtNews, all \in BOOLEAN :
       txt' = [phase |-> "edited", content |-> content, old |-> old, new |-> new,
               all |-> all, result |-> TxtApply(content, old, new, all)]

\* Shown with the result of an edit.
TxtShow ==
  /\ txt.phase = "edited" /\ txt.result.ok
  /\ LET old == TxtLines(txt.content) new == TxtLines(txt.result.text) IN
     txt' = [phase |-> "shown", old |-> old, new |-> new, diff |-> TxtDiff(old, new)]

\* generateUnifiedDiff and formatDiffSummary of any two texts.
TxtCompare ==
  /\ txt.phase = "idle"
  /\ LET texts == UNION {[1 .. n -> {"x", "y"}] : n \in 0 .. TxtMaxLines} IN
     \E old, new \in texts :
       old # new /\ txt' = [phase |-> "shown", old |-> old, new |-> new,
                            diff |-> TxtDiff(old, new)]

TxtNext == TxtEdit \/ TxtShow \/ TxtCompare

TxtSpec == TxtInit /\ [][TxtNext]_txtVars

-----------------------------------------------------------------------------
(* Properties *)

\* One pass from left to right: what an edit of a match should leave.
TxtExpected(content, match, template) ==
  LET seen == IF match.quotes THEN TxtFlatQuotes(content) ELSE content
      piece == IF match.quotes THEN TxtFlatQuotes(match.piece) ELSE match.piece
      from[i \in 1 .. Len(content) + Len(piece)] ==
        IF i > Len(content) THEN <<>>
        ELSE IF TxtAt(seen, i, piece)
             THEN TxtReplacement(content, i, match, template) \o from[i + Len(piece)]
        ELSE <<content[i]>> \o from[i + 1]
  IN from[1]

\* What of a text is no plain letter.
TxtKept(text) == FlattenSeq([i \in DOMAIN text |-> IF text[i] # "a" THEN <<text[i]>> ELSE <<>>])

\* A text that stands in the file as given is replaced there, at every place or at the
\* only one, and nothing else changes; one that is refused leaves the file alone; and
\* an edit that replaces only letters never changes a curly quote or a line ending.
TxtEditExact ==
  txt.phase = "edited" =>
    LET result == txt.result
        literal == \E i \in DOMAIN txt.content : TxtAt(txt.content, i, txt.old)
        ending == TxtEnding(txt.content)
        expected(piece, quotes) ==
          TxtExpected(txt.content, [piece |-> piece, quotes |-> quotes, at |-> <<>>],
                      TxtWithEnding(txt.new, ending))
    IN /\ ~ result.ok => result.text = txt.content
       /\ result.ok /\ literal => result.text = expected(txt.old, FALSE)
       /\ result.ok /\ ~ literal =>
            \E piece \in {txt.old, TxtWithEnding(txt.old, ending)}, quotes \in BOOLEAN :
              result.text = expected(piece, quotes)
       /\ literal => result.reason # "not_found"
       /\ TxtKept(txt.old) = <<>> /\ TxtKept(txt.new) = <<>> =>
            TxtKept(result.text) = TxtKept(txt.content)

\* The lines of a preview that are of one of the types.
TxtSide(diff, types) ==
  FlattenSeq([i \in DOMAIN diff |->
                IF diff[i].type \in types THEN <<diff[i].value>> ELSE <<>>])

\* Pairs of equal lines, of which none crosses another: what two texts have in common.
TxtCommon(old, new) ==
  {pairs \in SUBSET {at \in (DOMAIN old) \X (DOMAIN new) : old[at[1]] = new[at[2]]} :
     \A p, q \in pairs : \/ p = q
                         \/ p[1] < q[1] /\ p[2] < q[2]
                         \/ q[1] < p[1] /\ q[2] < p[2]}

\* A preview says truly what went and what came, and shows no line as changed that a
\* longest common part of the two texts would keep.
TxtDiffExact ==
  txt.phase = "shown" =>
    /\ TxtSide(txt.diff, {"context", "delete"}) = txt.old
    /\ TxtSide(txt.diff, {"context", "add"}) = txt.new
    /\ \A pairs \in TxtCommon(txt.old, txt.new) :
         Cardinality(pairs) <= Len(TxtSide(txt.diff, {"context"}))

\* FileEdit changes exactly what it was asked to change, and shows it as it is
\* (applyEditToFile, generateUnifiedDiff).
EditsExact == TxtEditExact /\ TxtDiffExact
================================================================================
