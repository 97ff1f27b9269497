-------------------------------- MODULE Toolbar --------------------------------
(***************************************************************************)
(* The formatting of plain text with markers (lib/richTextToolbar.ts): the *)
(* edit a toolbar action makes of a text and a selection.  A text is a     *)
(* sequence of symbols; a tag and the prefix of a list line are one symbol *)
(* each, "*" and "~" are symbols of their own, as their meaning depends on *)
(* their neighbours.  Positions lie between symbols and count from 0.      *)
(***************************************************************************)
EXTENDS Integers, Sequences, SequencesExt, FiniteSetsExt

CONSTANTS
  Texts,     \* the texts the editor begins with: sequences of symbols
  Formats,   \* the inline formats that are used: "bold", "italic", "underline", "strike"
  ListPrefixes,  \* the list prefixes that are used: "- ", or Numbers
  MaxEdits   \* bound: toolbar actions one after the other

VARIABLES
  value,      \* the text
  selection,  \* what is selected, and what the last action selected
  edits,      \* how many actions were applied
  original    \* history: the text at first

vars == <<value, selection, edits, original>>

Symbols == {"a", "b", "*", "~", "<u>", "</u>", "\n", "- ", "1. ", "2. ", "3. ", "4. ", "5. "}
Numbers == <<"1. ", "2. ", "3. ", "4. ", "5. ">>

Slice(v, from, to) == SubSeq(v, from + 1, to)

InlineFormats == {"bold", "italic", "underline", "strike"}

\* INLINE_MARKERS
Opening(f) == CASE f = "bold" -> <<"*", "*">> [] f = "italic" -> <<"*">>
                [] f = "underline" -> <<"<u>">> [] f = "strike" -> <<"~", "~">>
Closing(f) == IF f = "underline" THEN <<"</u>">> ELSE Opening(f)

------------------------------------------------------------------------------
(* The marked ranges of a text *)

\* An asterisk beside another one is not italic; from and to bound what is looked at.
Alone(v, from, to, i) ==
  ~(from < i /\ v[i] = "*") /\ ~(i + 1 < to /\ v[i + 2] = "*")

\* Where a token of the format stands in v between from and to, at cursor or later.
Places(v, from, cursor, to, f, token) ==
  {i \in cursor .. to - Len(token) :
     /\ Slice(v, i, i + Len(token)) = token
     /\ f = "italic" => Alone(v, from, to, i)}

Least(S) == {i \in S : \A j \in S : i <= j}

\* The first pair of each format: an opening without a closing has no later one either.
Pairs(v, from, cursor, to) ==
  UNION {UNION {
    {[format |-> f, start |-> open, end |-> close + Len(Closing(f)),
      contentStart |-> open + Len(Opening(f)), contentEnd |-> close] :
       close \in Least(Places(v, from, open + Len(Opening(f)), to, f, Closing(f)))} :
    open \in Least(Places(v, from, cursor, to, f, Opening(f)))} :
    f \in InlineFormats}

First(pairs) == CHOOSE p \in pairs : \A q \in pairs : p.start <= q.start

\* Mutant: nothing is looked for inside of a range.
MarkerRangesFlat(v) ==
  LET In[cursor \in 0 .. Len(v)] ==
        LET pairs == Pairs(v, 0, cursor, Len(v))
        IN  IF pairs = {} THEN {} ELSE {First(pairs)} \cup In[First(pairs).end]
  IN  In[0]

Spans(v) == [from : 0 .. Len(v), cursor : 0 .. Len(v), to : 0 .. Len(v)]
Whole(v) == [from |-> 0, cursor |-> 0, to |-> Len(v)]
Inside(r) == [from |-> r.contentStart, cursor |-> r.contentStart, to |-> r.contentEnd]
After(x, r) == [x EXCEPT !.cursor = r.end]

\* The next pair, what is inside of it, and what follows; In has what the spans contain.
Collected(v, In, x) ==
  LET pairs == Pairs(v, x.from, x.cursor, x.to)
      next == First(pairs)
  IN  IF pairs = {} THEN {} ELSE {next} \cup In[Inside(next)] \cup In[After(x, next)]

\* collectInlineMarkerRanges
MarkerRanges(v) == LET In[x \in Spans(v)] == Collected(v, In, x) IN In[Whole(v)]

\* One side of the range is in the selection, or a part of it.
Clips(s, r) ==
  \/ s.start < r.contentStart /\ r.start < s.end
  \/ r.contentEnd < s.end /\ s.start < r.end

Covers(s, t) == s.start <= t.start /\ t.end <= s.end

Smallest(selections) == CHOOSE t \in selections : \A u \in selections : Covers(u, t)

\* The selections around s, up to the end of the text, that clip no range without covering it.
Unclipped(ranges, s, end) ==
  {t \in [start : 0 .. s.start, end : s.end .. end] : \A r \in ranges : Clips(t, r) => Covers(t, r)}

\* The loop widens s by the ranges it clips, in their order: to the smallest there is.
NormalizeInlineSelection(v, s) == Smallest(Unclipped(MarkerRanges(v), s, Len(v)))

------------------------------------------------------------------------------
(* The actions *)

\* Unwrapped if the markers stand right around it, wrapped otherwise.
ToggledAround(v, n, f) ==
  LET width == Len(Opening(f))
      selected == Slice(v, n.start, n.end)
      wrapped == /\ width <= n.start
                 /\ Slice(v, n.start - width, n.start) = Opening(f)
                 /\ n.end + Len(Closing(f)) <= Len(v)
                 /\ Slice(v, n.end, n.end + Len(Closing(f))) = Closing(f)
  IN  IF wrapped
      THEN [value |-> Slice(v, 0, n.start - width) \o selected
                      \o Slice(v, n.end + Len(Closing(f)), Len(v)),
            selection |-> [start |-> n.start - width, end |-> n.end - width]]
      ELSE [value |-> Slice(v, 0, n.start) \o Opening(f) \o selected \o Closing(f)
                      \o Slice(v, n.end, Len(v)),
            selection |-> [start |-> n.start + width, end |-> n.end + width]]

ToggleInlineFormat(v, s, f) == ToggledAround(v, NormalizeInlineSelection(v, s), f)

Breaks(v) == {i \in 0 .. Len(v) - 1 : v[i + 1] = "\n"}

\* lastIndexOf also looks at the position it is given, so at 0 for a selection from 0.
SelectedLines(v, s) ==
  LET before == {i \in Breaks(v) : i <= Max({0, s.start - 1})}
      after == {i \in Breaks(v) : s.end <= i}
  IN  [start |-> Max({-1} \cup before) + 1, end |-> Min({Len(v)} \cup after)]

\* The lines of a text; the slice of a range that ends before it starts is empty.
Lines(v) ==
  LET cuts == SetToSortSeq({-1, Len(v)} \cup Breaks(v), <)
  IN  [k \in 1 .. Len(cuts) - 1 |-> Slice(v, cuts[k] + 1, cuts[k + 1])]

Joined(lines) == FoldLeft(LAMBDA text, line : text \o <<"\n">> \o line, Head(lines), Tail(lines))

\* The prefix of the k-th line.
Prefix(p, k) == IF p = "numbers" THEN Numbers[k] ELSE p

IsListed(p, lines) ==
  \A k \in DOMAIN lines : lines[k] = <<>> \/ Head(lines[k]) = Prefix(p, k)

\* Mutant: empty lines are not counted when numbers are given.
ToggledLinesCounting(p, lines) ==
  [k \in DOMAIN lines |->
     IF lines[k] = <<>> THEN <<>>
     ELSE IF IsListed(p, lines) THEN Tail(lines[k])
     ELSE <<Prefix(p, Cardinality({j \in 1 .. k : lines[j] # <<>>}))>> \o lines[k]]

ToggledLines(p, lines) ==
  [k \in DOMAIN lines |-> IF lines[k] = <<>> THEN <<>>
                          ELSE IF IsListed(p, lines) THEN Tail(lines[k])
                          ELSE <<Prefix(p, k)>> \o lines[k]]

\* toggleLinePrefix, toggleNumberedList
ReplacedLines(v, range, lines) ==
  [value |-> Slice(v, 0, range.start) \o Joined(lines) \o Slice(v, range.end, Len(v)),
   selection |-> [start |-> range.start, end |-> range.start + Len(Joined(lines))]]

ToggledRange(v, range, p) ==
  ReplacedLines(v, range, ToggledLines(p, Lines(Slice(v, range.start, range.end))))

ToggleList(v, s, p) == ToggledRange(v, SelectedLines(v, s), p)

Init ==
  /\ value \in Texts /\ original = value
  /\ selection = [start |-> 0, end |-> 0]
  /\ edits = 0

Apply(result) ==
  /\ value' = result.value /\ selection' = result.selection
  /\ edits < MaxEdits /\ edits' = edits + 1
  /\ UNCHANGED original

\* The user selects, with the mouse or the keyboard.
Select(s) ==
  /\ s.start <= s.end /\ edits < MaxEdits
  /\ selection' = s
  /\ UNCHANGED <<value, edits, original>>

Next ==
  \/ \E f \in Formats : Apply(ToggleInlineFormat(value, selection, f))
  \/ \E p \in ListPrefixes : Apply(ToggleList(value, selection, p))
  \/ \E s \in [start : 0 .. Len(value), end : 0 .. Len(value)] : Select(s)

Spec == Init /\ [][Next]_vars

------------------------------------------------------------------------------
(* Properties *)

TypeOK ==
  /\ value \in Seq(Symbols) /\ original \in Texts
  /\ selection \in [start : 0 .. Len(value), end : 0 .. Len(value)]
  /\ edits \in 0 .. MaxEdits

\* The caret is on an empty first line: SelectedLines ends before it starts, and a list
\* put there doubles the break.
LeadingBreak(s) == value # <<>> /\ Head(value) = "\n" /\ s.end = 0

\* The markers of strike: in a row of four, the first two and the last two.
StrikeMarks(v) ==
  {i \in 0 .. Len(v) - 2 :
     /\ Slice(v, i, i + 2) = <<"~", "~">>
     /\ LET before == Max({-1} \cup {j \in 0 .. i - 1 : v[j + 1] # "~"})
        IN  (i - before) % 2 = 1}

\* Strike and underline are nested or apart: between two markers that make a pair stand
\* as many opening as closing tags.
Nests(v) ==
  LET marks == SetToSortSeq(StrikeMarks(v), <)
      tags(k, tag) == {i \in marks[2 * k - 1] + 1 .. marks[2 * k] : v[i] = tag}
  IN  \A k \in 1 .. Len(marks) \div 2 : Cardinality(tags(k, "<u>")) = Cardinality(tags(k, "</u>"))

\* The formats a text has none of.
Absent(v) == {f \in Formats : \A r \in MarkerRanges(v) : r.format # f}

\* A format put on a stored text that has none of it never overlaps what is there:
\* a selection that clips a marked range is widened as far as it has to be (the comment
\* of normalizeInlineSelection, with the condition it needs).
WidenedEnough ==
  value = original => \A f \in Absent(value) : Nests(ToggleInlineFormat(value, selection, f).value)

FormatComesOff(on, f) ==
  Len(value) < Len(on.value) => ToggleInlineFormat(on.value, on.selection, f).value = value

ListComesOff(on, p) ==
  Len(value) < Len(on.value) => ToggleList(on.value, on.selection, p).value = value

\* What an action puts on a stored text comes off again and leaves the text as it was,
\* whatever is selected: a format the text has none of, and a list, with some lines
\* listed before or none.
OnAndOff ==
  value = original =>
    /\ \A f \in Absent(value) : FormatComesOff(ToggleInlineFormat(value, selection, f), f)
    /\ LeadingBreak(selection)
       \/ \A p \in ListPrefixes : ListComesOff(ToggleList(value, selection, p), p)
================================================================================
