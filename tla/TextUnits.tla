----------------------------- MODULE TextUnits ------------------------------
(***************************************************************************)
(* How the normalize stage cuts a text into units                          *)
(* (pipeline/stages/_normalize.py).  A Markdown file is read line by line: *)
(* a unit is a run of non-blank lines of one section, closed early when it *)
(* would grow beyond the limit of characters.  Any other text is cut into  *)
(* windows of a fixed number of lines that overlap.  The two loops are     *)
(* steps here, one per turn, so that what they keep invariant can be       *)
(* stated, and proved, for every text.                                     *)
(***************************************************************************)
EXTENDS SourceText

VARIABLES
  text,       \* the file that is cut, NoFile between files
  limits,     \* the settings of the deployment
  mode,       \* idle, sections, windows, cut (done) or raised
  line,       \* the line the loop looks at next
  sectionEnd, \* the last line of the section at hand
  first,      \* pending_lines[0], 0 when no line is pending
  last,       \* pending_lines[-1]
  chars,      \* current_chars
  units       \* the units cut so far: first and last line

NoFile == [none |-> TRUE]

cutVars == <<text, mode, line, sectionEnd, first, last, chars, units>>
textVars == <<limits, cutVars>>

Pending == first # 0

HeadingLines(f) == {i \in 1..f.n : f.heading[i]}

\* heading_line_indices[0]: what stands before the first heading is in no
\* section, and a text without headings is one section.
FirstSection(f) ==
  IF HeadingLines(f) = {} THEN 1
  ELSE CHOOSE i \in HeadingLines(f) : \A j \in HeadingLines(f) : i <= j

\* sections: the section that starts at a line ends before the next heading.
IsSectionEnd(f, start, end) ==
  /\ \A i \in (start + 1)..end : ~ f.heading[i]
  /\ end < f.n => f.heading[end + 1]

TextInit ==
  /\ limits \in Settings
  /\ text = NoFile /\ mode = "idle" /\ line = 0 /\ sectionEnd = 0
  /\ first = 0 /\ last = 0 /\ chars = 0 /\ units = {}

\* normalize.run calls markdown_units or code_units for a decoded file.
OpenText(f) ==
  /\ mode = "idle"
  /\ text' = f
  /\ IF f.language = "markdown"
       THEN /\ mode' = "sections"
            /\ line' = FirstSection(f)
            /\ sectionEnd' = FirstSection(f) - 1
       ELSE /\ mode' = "windows" /\ line' = 1 /\ sectionEnd' = 0
  /\ first' = 0 /\ last' = 0 /\ chars' = 0 /\ units' = {}
  /\ UNCHANGED limits

\* _flush_markdown_chunk and text_units: the byte range of a unit is looked up
\* in file_line_ranges, which may have fewer rows than the text has lines; an
\* IndexError ends the file.
HasRange(f, b) == b <= f.ranges

\* A unit is closed.
Close(a, b) ==
  IF HasRange(text, b)
    THEN units' = units \cup {[first |-> a, last |-> b]} /\ UNCHANGED mode
    ELSE mode' = "raised" /\ UNCHANGED units

Forget == first' = 0 /\ last' = 0 /\ chars' = 0

-----------------------------------------------------------------------------
(* markdown_units *)

InSection == mode = "sections" /\ line <= sectionEnd

\* The loop over the sections gets to the next one.
NextSection ==
  /\ mode = "sections" /\ line = sectionEnd + 1
  /\ ~ Pending
  /\ line <= text.n
  /\ \E end \in line..text.n : IsSectionEnd(text, line, end) /\ sectionEnd' = end
  /\ UNCHANGED <<text, limits, mode, line, first, last, chars, units>>

\* What is pending when a section ends is its last unit.
EndSection ==
  /\ mode = "sections" /\ line = sectionEnd + 1
  /\ Pending
  /\ Close(first, last) /\ Forget
  /\ UNCHANGED <<text, limits, line, sectionEnd>>

\* Mutant: a blank line is passed over, and the paragraph goes on behind it.
BlankGoesOn ==
  /\ InSection
  /\ text.blank[line]
  /\ line' = line + 1
  /\ UNCHANGED <<text, limits, mode, sectionEnd, first, last, chars, units>>

\* A blank line closes the unit at hand.
BlankLine ==
  /\ InSection
  /\ text.blank[line]
  /\ IF Pending THEN Close(first, last) ELSE UNCHANGED <<mode, units>>
  /\ Forget
  /\ line' = line + 1
  /\ UNCHANGED <<text, limits, sectionEnd>>

LineChars == Size(text, line, line)

\* Mutant: the limit is compared with the unit without the new line.
FullBefore == Pending /\ chars > limits.maxChars

Full == Pending /\ chars + LineChars > limits.maxChars

\* A unit that the line does not fit in is closed, and the line starts a new one.
FullChunk ==
  /\ InSection
  /\ ~ text.blank[line] /\ Full
  /\ Close(first, last)
  /\ first' = line /\ last' = line /\ chars' = LineChars
  /\ line' = line + 1
  /\ UNCHANGED <<text, limits, sectionEnd>>

AddLine ==
  /\ InSection
  /\ ~ text.blank[line] /\ ~ Full
  /\ first' = IF Pending THEN first ELSE line
  /\ last' = line /\ chars' = chars + LineChars
  /\ line' = line + 1
  /\ UNCHANGED <<text, limits, mode, sectionEnd, units>>

EndMarkdown ==
  /\ mode = "sections" /\ line = sectionEnd + 1 /\ line > text.n
  /\ ~ Pending
  /\ mode' = "cut"
  /\ UNCHANGED <<text, limits, line, sectionEnd, first, last, chars, units>>

-----------------------------------------------------------------------------
(* text_units *)

\* Mutant: an overlap as long as a window stops the loop.
PlainStep == limits.chunkLines - limits.overlap

\* Mutant: windows that do not overlap.
StepWhole == limits.chunkLines

\* step = max(1, chunk_lines - overlap_lines)
Step == IF limits.chunkLines > limits.overlap THEN limits.chunkLines - limits.overlap ELSE 1

WindowEnd ==
  IF line - 1 + limits.chunkLines < text.n THEN line - 1 + limits.chunkLines ELSE text.n

BlankLines(f, a, b) == \A i \in a..b : f.blank[i]

\* A window of blank lines is passed over, whether or not it is the last one.
BlankWindow ==
  /\ mode = "windows" /\ line <= text.n
  /\ BlankLines(text, line, WindowEnd)
  /\ line' = line + Step
  /\ UNCHANGED <<text, limits, mode, sectionEnd, first, last, chars, units>>

\* Mutant: the loop goes on behind the window that reaches the end.
NeverLast(end) == FALSE

\* if end_index >= len(lines): break
IsLast(end) == end >= text.n

Window ==
  /\ mode = "windows" /\ line <= text.n
  /\ ~ BlankLines(text, line, WindowEnd)
  /\ IF HasRange(text, WindowEnd)
       THEN /\ units' = units \cup {[first |-> line, last |-> WindowEnd]}
            /\ mode' = IF IsLast(WindowEnd) THEN "cut" ELSE mode
            /\ line' = line + Step
       ELSE mode' = "raised" /\ UNCHANGED <<line, units>>
  /\ UNCHANGED <<text, limits, sectionEnd, first, last, chars>>

EndWindows ==
  /\ mode = "windows" /\ line > text.n
  /\ mode' = "cut"
  /\ UNCHANGED <<text, limits, line, sectionEnd, first, last, chars, units>>

-----------------------------------------------------------------------------

Cut ==
  \/ NextSection \/ EndSection \/ BlankLine \/ FullChunk \/ AddLine \/ EndMarkdown
  \/ BlankWindow \/ Window \/ EndWindows

\* The units are taken over, or the process is killed in the middle of a file.
DropText ==
  /\ text' = NoFile /\ mode' = "idle" /\ line' = 0 /\ sectionEnd' = 0
  /\ Forget /\ units' = {}
  /\ UNCHANGED limits

TextNext == (\E f \in Files : OpenText(f)) \/ Cut \/ DropText

TextSpec == TextInit /\ [][TextNext]_textVars

-----------------------------------------------------------------------------
(* Properties.                                                             *)

InMarkdown == mode \in {"sections", "cut"} /\ text.language = "markdown"
InWindows == mode \in {"windows", "cut"} /\ text.language # "markdown"

\* The units of a Markdown file are a partition of the non-blank lines from the
\* first heading on: no line is in two of them or lost between a paragraph, a
\* full unit and the end of a section, and none reaches over a blank line or
\* into the next section (markdown_units).
MarkdownPartition ==
  InMarkdown =>
    /\ \A u \in units :
         /\ FirstSection(text) <= u.first /\ u.first <= u.last /\ u.last < line
         /\ \A i \in u.first..u.last : ~ text.blank[i]
         /\ \A i \in (u.first + 1)..u.last : ~ text.heading[i]
    /\ \A u, v \in units : u # v => u.last < v.first \/ v.last < u.first
    /\ \A i \in FirstSection(text)..(line - 1) :
         \/ text.blank[i]
         \/ \E u \in units : i \in u.first..u.last
         \/ Pending /\ i \in first..last
    /\ mode = "cut" => line = text.n + 1 /\ ~ Pending

\* A unit of a Markdown file is as long as it may be and no longer: one of
\* several lines keeps to the limit, and where a paragraph goes on in another
\* unit, its first line would not have fit any more (markdown_units).
ChunksAreFull ==
  InMarkdown =>
    \A u \in units :
      /\ u.first = u.last \/ Size(text, u.first, u.last) <= limits.maxChars
      /\ \A v \in units :
           v.first = u.last + 1 /\ ~ text.heading[v.first]
             => Size(text, u.first, v.first) > limits.maxChars

\* Whatever a search has to find together is found in one unit: a stretch of
\* lines no longer than the overlap of two windows, and one line more, is not
\* cut apart by their borders, and no line is left out (text_units).
WindowsCutNothing ==
  InWindows =>
    \A a \in 1..text.n : \A b \in a..text.n :
      /\ a < line \/ mode = "cut"
      /\ b - a <= limits.overlap /\ b - a < limits.chunkLines
      /\ ~ BlankLines(text, a, b)
      => \E u \in units : u.first <= a /\ b <= u.last

\* No window repeats what another one holds: the loop ends with the window that
\* reaches the last line, although it goes on behind blank ones (text_units).
NoNestedWindows ==
  InWindows =>
    \A u, v \in units : u.first <= v.first /\ v.last <= u.last => u = v

=============================================================================
