---------------------------- MODULE Texts_proofs ----------------------------
(***************************************************************************)
(* The units that normalize cuts are sound for every text and all          *)
(* settings, and the symbols of a script are named by the classes around   *)
(* them, for every arrangement of declarations and braces.                 *)
(***************************************************************************)
EXTENDS TextUnits, ScriptSymbols, TLAPS, WellFoundedInduction, SequenceTheorems

(***************************************************************************)
(* The inductive invariant.  The loop over the sections keeps, with what   *)
(* the properties say of the units it has closed, that no heading is ahead *)
(* of it in its section, and how the pending lines lie between the units   *)
(* and the line at hand.  Each window but the last is as long as it may be.*)
(***************************************************************************)

TextTypeOK ==
  /\ limits \in Settings
  /\ mode \in {"idle", "sections", "windows", "cut", "raised"}
  /\ mode # "idle" => text \in Files
  /\ mode = "sections" => text.language = "markdown"
  /\ mode = "windows" => text.language # "markdown"
  /\ line \in Nat /\ sectionEnd \in Nat /\ first \in Nat /\ last \in Nat
  /\ units \subseteq [first : Nat, last : Nat]

SectionAhead ==
  /\ FirstSection(text) <= line /\ line <= text.n + 1
  /\ line <= sectionEnd + 1 /\ sectionEnd <= text.n
  /\ \A i \in (line + 1)..sectionEnd : ~ text.heading[i]
  /\ Pending /\ line <= sectionEnd => ~ text.heading[line]
  /\ FirstSection(text) <= sectionEnd /\ sectionEnd < text.n => text.heading[sectionEnd + 1]

PendingLines ==
  Pending =>
    /\ FirstSection(text) <= first /\ first <= last /\ last = line - 1
    /\ \A i \in first..last : ~ text.blank[i]
    /\ \A i \in (first + 1)..last : ~ text.heading[i]
    /\ chars = Size(text, first, last)
    /\ first = last \/ chars <= limits.maxChars
    /\ \A u \in units :
         /\ u.last < first
         /\ u.last + 1 = first /\ ~ text.heading[first] =>
              Size(text, u.first, first) > limits.maxChars

NothingPending ==
  ~ Pending =>
    /\ last = 0 /\ chars = 0
    /\ \A u \in units : u.last + 1 = line /\ line <= text.n => text.heading[line]

SectionsInv == mode = "sections" => SectionAhead /\ PendingLines /\ NothingPending

WindowsInv ==
  mode = "windows" =>
    /\ line >= 1
    /\ \A u \in units :
         /\ 1 <= u.first /\ u.first < line
         /\ u.last = u.first - 1 + limits.chunkLines /\ u.last < text.n

TextInv ==
  /\ TextTypeOK
  /\ SectionsInv /\ MarkdownPartition /\ ChunksAreFull
  /\ WindowsInv /\ WindowsCutNothing /\ NoNestedWindows

Less == {x \in Nat \X Nat : x[1] < x[2]}

LEMMA LessWellFounded == IsWellFoundedOn(Less, Nat)
  BY NatLessThanWellFounded, Zenon DEF OpToRel, Less

\* A set of line or brace numbers that is not empty has a least element.
LEMMA Least ==
  ASSUME NEW T \in SUBSET Nat, T # {}
  PROVE \E x \in T : \A y \in T : x <= y
<1>1. PICK x \in T : \A y \in T : ~ (<<y, x>> \in Less)
  BY LessWellFounded, WFMin, Zenon
<1>2. ASSUME NEW y \in T PROVE x <= y
  <2>1. x \in Nat /\ y \in Nat
    OBVIOUS
  <2>2. ASSUME y < x PROVE <<y, x>> \in Less
    BY <2>1, <2>2 DEF Less
  <2> QED BY <1>1, <2>1, <2>2
<1> QED BY <1>2

LEMMA FileFacts ==
  ASSUME NEW f \in Files
  PROVE /\ f.n \in Nat /\ f.ranges \in Nat
        /\ f.blank \in [1..f.n -> BOOLEAN] /\ f.heading \in [1..f.n -> BOOLEAN]
        /\ f.ends \in [0..f.n -> Nat]
        /\ \A i \in 1..f.n : f.ends[i] > f.ends[i - 1]
BY FilesAssumption

\* The first section starts on a line of the file, or where the next one would be.
LEMMA FirstSectionInFile ==
  ASSUME NEW f \in Files
  PROVE FirstSection(f) \in 1..(f.n + 1)
<1>1. CASE HeadingLines(f) = {}
  BY <1>1, FileFacts DEF FirstSection
<1>2. CASE HeadingLines(f) # {}
  <2>1. HeadingLines(f) \in SUBSET Nat /\ HeadingLines(f) \subseteq 1..f.n
    BY FileFacts DEF HeadingLines
  <2>2. \E i \in HeadingLines(f) : \A j \in HeadingLines(f) : i <= j
    BY <1>2, <2>1, Least
  <2>3. FirstSection(f) \in HeadingLines(f)
    BY <1>2, <2>2 DEF FirstSection
  <2> QED BY <2>1, <2>3, FileFacts
<1> QED BY <1>1, <1>2

\* Sizes add up.
LEMMA SizeAdds ==
  ASSUME NEW f \in Files, NEW a \in 1..f.n, NEW b \in 0..(f.n - 1), a <= b + 1
  PROVE /\ Size(f, a, b) \in Int /\ Size(f, b + 1, b + 1) \in Nat
        /\ Size(f, a, b) + Size(f, b + 1, b + 1) = Size(f, a, b + 1)
<1>1. a - 1 \in 0..f.n /\ b \in 0..f.n /\ b + 1 \in 1..f.n /\ b + 1 \in 0..f.n /\ (b + 1) - 1 = b
  <2>1. f.n \in Nat
    BY FileFacts
  <2> QED BY <2>1
<1>2. /\ f.ends[a - 1] \in Nat /\ f.ends[b] \in Nat /\ f.ends[b + 1] \in Nat
      /\ f.ends[b + 1] > f.ends[(b + 1) - 1]
  BY <1>1, FileFacts
<1> QED BY <1>1, <1>2 DEF Size

LEMMA TextInitInv == TextInit => TextInv
BY DEF TextInit, TextInv, TextTypeOK, SectionsInv, MarkdownPartition, ChunksAreFull,
   WindowsInv, WindowsCutNothing, NoNestedWindows, InMarkdown, InWindows

(***************************************************************************)
(* The steps of markdown_units.                                            *)
(***************************************************************************)

\* What the invariant says in the loop over the sections.
LEMMA InSections ==
  ASSUME TextInv, mode = "sections"
  PROVE /\ text \in Files /\ text.language = "markdown" /\ text.n \in Nat
        /\ FirstSection(text) \in 1..(text.n + 1)
        /\ line \in Nat /\ sectionEnd \in Nat /\ first \in Nat /\ last \in Nat
        /\ text.blank \in [1..text.n -> BOOLEAN] /\ text.heading \in [1..text.n -> BOOLEAN]
        /\ units \subseteq [first : Nat, last : Nat]
        /\ limits \in Settings /\ limits.maxChars \in Nat
        /\ SectionAhead /\ PendingLines /\ NothingPending
        /\ MarkdownPartition /\ ChunksAreFull
BY FirstSectionInFile, FileFacts, SettingsAssumption DEF TextInv, TextTypeOK, SectionsInv

\* A step that stays in a Markdown file, or raises, says nothing of windows.
LEMMA NoWindows ==
  ASSUME TextInv, mode = "sections", text' = text, mode' \in {"sections", "cut", "raised"}
  PROVE WindowsInv' /\ WindowsCutNothing' /\ NoNestedWindows'
BY InSections DEF WindowsInv, WindowsCutNothing, NoNestedWindows, InWindows

LEMMA NextSectionStep == TextInv /\ NextSection => TextInv'
<1>. SUFFICES ASSUME TextInv, NextSection PROVE TextInv'
  OBVIOUS
<1>. USE DEF NextSection
<1>1. mode = "sections" /\ text' = text /\ mode' = mode /\ line' = line /\ units' = units
  OBVIOUS
<1>2. TextTypeOK'
  BY <1>1, InSections DEF TextTypeOK, TextInv
<1>3. SectionsInv'
  <2>1. SectionAhead'
    BY <1>1, InSections DEF SectionAhead, Pending, IsSectionEnd, FirstSection, HeadingLines
  <2>2. PendingLines' /\ NothingPending'
    BY <1>1, InSections DEF PendingLines, NothingPending, Pending
  <2> QED BY <2>1, <2>2 DEF SectionsInv
<1>4. MarkdownPartition' /\ ChunksAreFull'
  BY <1>1, InSections DEF MarkdownPartition, ChunksAreFull, InMarkdown, Pending, FirstSection,
                          HeadingLines
<1> QED BY <1>1, <1>2, <1>3, <1>4, NoWindows DEF TextInv

\* What the properties say of units U when nothing is pending before the line l.
SoundUnits(U, l) ==
  /\ U \subseteq [first : Nat, last : Nat]
  /\ \A u \in U :
       /\ FirstSection(text) <= u.first /\ u.first <= u.last /\ u.last < l
       /\ \A i \in u.first..u.last : ~ text.blank[i]
       /\ \A i \in (u.first + 1)..u.last : ~ text.heading[i]
       /\ u.first = u.last \/ Size(text, u.first, u.last) <= limits.maxChars
  /\ \A u, v \in U : u # v => u.last < v.first \/ v.last < u.first
  /\ \A u, v \in U : v.first = u.last + 1 /\ ~ text.heading[v.first] =>
                       Size(text, u.first, v.first) > limits.maxChars
  /\ \A i \in FirstSection(text)..(l - 1) :
       text.blank[i] \/ \E u \in U : i \in u.first..u.last

LEMMA SoundWithoutPending ==
  ASSUME TextInv, mode = "sections", ~ Pending
  PROVE SoundUnits(units, line)
BY InSections DEF SoundUnits, MarkdownPartition, ChunksAreFull, InMarkdown

\* Closing the pending lines keeps the units sound.
LEMMA SoundClosed ==
  ASSUME TextInv, mode = "sections", Pending
  PROVE SoundUnits(units \cup {[first |-> first, last |-> last]}, line)
<1>. DEFINE new == [first |-> first, last |-> last]
            U == units \cup {new}
<1>0. new.first = first /\ new.last = last /\ new \in [first : Nat, last : Nat]
  BY InSections
<1>1. /\ FirstSection(text) <= first /\ first <= last /\ last = line - 1
      /\ \A i \in first..last : ~ text.blank[i]
      /\ \A i \in (first + 1)..last : ~ text.heading[i]
      /\ chars = Size(text, first, last)
      /\ first = last \/ chars <= limits.maxChars
      /\ \A u \in units :
           /\ u.last < first
           /\ u.last + 1 = first /\ ~ text.heading[first] =>
                Size(text, u.first, first) > limits.maxChars
  BY InSections DEF PendingLines
<1>2. \A u \in units :
        /\ u.first \in Nat /\ u.last \in Nat
        /\ FirstSection(text) <= u.first /\ u.first <= u.last /\ u.last < line
        /\ \A i \in u.first..u.last : ~ text.blank[i]
        /\ \A i \in (u.first + 1)..u.last : ~ text.heading[i]
        /\ u.first = u.last \/ Size(text, u.first, u.last) <= limits.maxChars
  BY InSections DEF MarkdownPartition, ChunksAreFull, InMarkdown
<1>3. \A u, v \in units :
        /\ u # v => u.last < v.first \/ v.last < u.first
        /\ v.first = u.last + 1 /\ ~ text.heading[v.first] =>
             Size(text, u.first, v.first) > limits.maxChars
  BY InSections DEF MarkdownPartition, ChunksAreFull, InMarkdown
<1>4. U \subseteq [first : Nat, last : Nat]
  BY <1>0, InSections
<1>. HIDE DEF new
<1>5. \A u \in U :
       /\ FirstSection(text) <= u.first /\ u.first <= u.last /\ u.last < line
       /\ \A i \in u.first..u.last : ~ text.blank[i]
       /\ \A i \in (u.first + 1)..u.last : ~ text.heading[i]
       /\ u.first = u.last \/ Size(text, u.first, u.last) <= limits.maxChars
  BY <1>0, <1>1, <1>2, InSections
<1>6. \A u, v \in U : u # v => u.last < v.first \/ v.last < u.first
  BY <1>0, <1>1, <1>2, <1>3
<1>7. \A u, v \in U : v.first = u.last + 1 /\ ~ text.heading[v.first] =>
                        Size(text, u.first, v.first) > limits.maxChars
  BY <1>0, <1>1, <1>2, <1>3, InSections
<1>8. ASSUME NEW i \in FirstSection(text)..(line - 1), ~ text.blank[i]
      PROVE \E u \in U : i \in u.first..u.last
  <2>1. CASE i \in first..last
    BY <1>0, <2>1
  <2>2. CASE \E u \in units : i \in u.first..u.last
    BY <2>2
  <2> QED BY <1>8, <2>1, <2>2, InSections DEF MarkdownPartition, InMarkdown
<1> QED BY <1>4, <1>5, <1>6, <1>7, <1>8 DEF SoundUnits, new

\* A step that leaves nothing pending, with sound units.
LEMMA FromSound ==
  ASSUME TextInv, mode = "sections", text' = text, limits' = limits,
         mode' = "sections" \/ (mode' = "cut" /\ line' = text.n + 1),
         first' = 0, last' = 0, chars' = 0, line' \in Nat, sectionEnd' \in Nat,
         SoundUnits(units', line')
  PROVE TextTypeOK' /\ PendingLines' /\ MarkdownPartition' /\ ChunksAreFull'
<1>1. TextTypeOK'
  BY InSections DEF TextTypeOK, TextInv, SoundUnits
<1>2. PendingLines'
  BY DEF PendingLines, Pending
<1>3. FirstSection(text)' = FirstSection(text)
  BY DEF FirstSection, HeadingLines
<1>4. MarkdownPartition' /\ ChunksAreFull'
  BY <1>3 DEF SoundUnits, MarkdownPartition, ChunksAreFull, InMarkdown, Pending, Size
<1> QED BY <1>1, <1>2, <1>4

\* A file that raises leaves nothing to be said of its units.
LEMMA WhenRaised ==
  ASSUME TextInv, mode # "idle", text' = text, limits' = limits, mode' = "raised",
         line' \in Nat, sectionEnd' \in Nat, first' \in Nat, last' \in Nat, units' = units
  PROVE TextInv'
BY DEF TextInv, TextTypeOK, SectionsInv, MarkdownPartition, ChunksAreFull, InMarkdown,
       WindowsInv, WindowsCutNothing, NoNestedWindows, InWindows

\* The loop stays where it is, or goes on by a line.
LEMMA AheadKept ==
  ASSUME TextInv, mode = "sections", text' = text, sectionEnd' = sectionEnd,
         line' = line \/ (line' = line + 1 /\ line <= sectionEnd), line' = line + 1 \/ first' = 0
  PROVE SectionAhead'
<1>1. FirstSection(text)' = FirstSection(text)
  BY DEF FirstSection, HeadingLines
<1>2. /\ FirstSection(text) <= line /\ line <= text.n + 1
      /\ line <= sectionEnd + 1 /\ sectionEnd <= text.n
      /\ \A i \in (line + 1)..sectionEnd : ~ text.heading[i]
      /\ FirstSection(text) <= sectionEnd /\ sectionEnd < text.n => text.heading[sectionEnd + 1]
      /\ line \in Nat /\ sectionEnd \in Nat /\ text.n \in Nat /\ FirstSection(text) \in Nat
  BY InSections DEF SectionAhead
<1>3. CASE line' = line /\ first' = 0
  BY <1>1, <1>2, <1>3 DEF SectionAhead, Pending
<1>4. CASE line' = line + 1 /\ line <= sectionEnd
  BY <1>1, <1>2, <1>4 DEF SectionAhead
<1> QED BY <1>2, <1>3, <1>4

LEMMA EndSectionStep == TextInv /\ EndSection => TextInv'
<1>. SUFFICES ASSUME TextInv, EndSection PROVE TextInv'
  OBVIOUS
<1>1. /\ mode = "sections" /\ line = sectionEnd + 1 /\ Pending
      /\ text' = text /\ limits' = limits /\ line' = line /\ sectionEnd' = sectionEnd
      /\ first' = 0 /\ last' = 0 /\ chars' = 0
  BY DEF EndSection, Forget
<1>2. CASE mode' = "raised" /\ units' = units
  BY <1>1, <1>2, InSections, WhenRaised
<1>3. CASE mode' = mode /\ units' = units \cup {[first |-> first, last |-> last]}
  <2>1. SoundUnits(units', line')
    BY <1>1, <1>3, SoundClosed
  <2>2. TextTypeOK' /\ PendingLines' /\ MarkdownPartition' /\ ChunksAreFull'
    BY <1>1, <1>3, <2>1, FromSound, InSections
  <2>3. SectionAhead'
    BY <1>1, AheadKept
  <2>4. NothingPending'
    BY <1>1, InSections DEF SectionAhead, PendingLines, NothingPending, Pending
  <2>5. WindowsInv' /\ WindowsCutNothing' /\ NoNestedWindows'
    BY <1>1, <1>3, NoWindows
  <2> QED BY <2>2, <2>3, <2>4, <2>5 DEF TextInv, SectionsInv
<1> QED BY <1>2, <1>3 DEF EndSection, Close

\* Behind a blank line every unit ends before the line that was blank.
LEMMA BlankLineStep == TextInv /\ BlankLine => TextInv'
<1>. SUFFICES ASSUME TextInv, BlankLine PROVE TextInv'
  OBVIOUS
<1>1. /\ mode = "sections" /\ line <= sectionEnd /\ text.blank[line]
      /\ text' = text /\ limits' = limits /\ line' = line + 1 /\ sectionEnd' = sectionEnd
      /\ first' = 0 /\ last' = 0 /\ chars' = 0
  BY DEF BlankLine, InSection, Forget
<1>2. CASE mode' = "raised" /\ units' = units
  BY <1>1, <1>2, InSections, WhenRaised
<1>3. CASE mode' = mode /\ SoundUnits(units', line)
  <2>1. SoundUnits(units', line')
    <3>1. line \in Nat /\ text.n \in Nat /\ FirstSection(text) \in Nat
      BY InSections, <1>1
    <3>2. \A i \in FirstSection(text)..(line' - 1) : i \in FirstSection(text)..(line - 1) \/ i = line
      BY <1>1, <3>1
    <3>3. \A u \in units' : u.last < line => u.last < line'
      BY <1>1, <1>3, <3>1 DEF SoundUnits
    <3> QED BY <1>1, <1>3, <3>2, <3>3 DEF SoundUnits
  <2>2. TextTypeOK' /\ PendingLines' /\ MarkdownPartition' /\ ChunksAreFull'
    <3>1. line' \in Nat /\ sectionEnd' \in Nat
      BY <1>1, InSections
    <3> QED BY <1>1, <1>3, <2>1, <3>1, FromSound
  <2>3. SectionAhead'
    BY <1>1, AheadKept
  <2>4. NothingPending'
    BY <1>1, <1>3, InSections DEF NothingPending, Pending, SoundUnits
  <2>5. WindowsInv' /\ WindowsCutNothing' /\ NoNestedWindows'
    BY <1>1, <1>3, NoWindows
  <2> QED BY <2>2, <2>3, <2>4, <2>5 DEF TextInv, SectionsInv
<1>4. Pending => \/ mode' = "raised" /\ units' = units
                 \/ mode' = mode /\ units' = units \cup {[first |-> first, last |-> last]}
  BY DEF BlankLine, Close
<1>5. ~ Pending => mode' = mode /\ units' = units
  BY DEF BlankLine
<1> QED BY <1>1, <1>2, <1>3, <1>4, <1>5, SoundClosed, SoundWithoutPending

\* A unit is full: its lines and the next one, which is no heading, are too many.
LEMMA FullChunkStep == TextInv /\ FullChunk => TextInv'
<1>. SUFFICES ASSUME TextInv, FullChunk PROVE TextInv'
  OBVIOUS
<1>1. /\ mode = "sections" /\ line <= sectionEnd /\ ~ text.blank[line]
      /\ Pending /\ chars + LineChars > limits.maxChars
      /\ text' = text /\ limits' = limits /\ line' = line + 1 /\ sectionEnd' = sectionEnd
      /\ first' = line /\ last' = line /\ chars' = LineChars
  BY DEF FullChunk, InSection, Full
<1>2. CASE mode' = "raised" /\ units' = units
  BY <1>1, <1>2, InSections, WhenRaised
<1>3. CASE mode' = mode /\ units' = units \cup {[first |-> first, last |-> last]}
  <2>1. SoundUnits(units', line)
    BY <1>1, <1>3, SoundClosed
  <2>2. /\ line \in 1..text.n /\ 1 <= first /\ first <= last /\ last = line - 1
        /\ last \in 0..(text.n - 1) /\ first \in 1..text.n
    <3>1. /\ text.n \in Nat /\ line \in Nat /\ sectionEnd \in Nat /\ first \in Nat /\ last \in Nat
          /\ FirstSection(text) \in 1..(text.n + 1)
      BY <1>1, InSections
    <3>2. FirstSection(text) <= first /\ first <= last /\ last = line - 1 /\ sectionEnd <= text.n
      BY <1>1, InSections DEF SectionAhead, PendingLines
    <3> QED BY <1>1, <3>1, <3>2
  <2>3. Size(text, first, line) > limits.maxChars
    <3>1. Size(text, first, last) + Size(text, last + 1, last + 1) = Size(text, first, last + 1)
      <4>1. first <= last + 1
        BY <2>2, InSections
      <4>2. text \in Files /\ first \in 1..text.n /\ last \in 0..(text.n - 1)
        BY <1>1, <2>2, InSections
      <4> QED BY <4>1, <4>2, SizeAdds
    <3>2. last + 1 = line /\ chars = Size(text, first, last)
      BY <1>1, <2>2, InSections DEF PendingLines
    <3> QED BY <1>1, <3>1, <3>2 DEF LineChars
  <2>4. TextTypeOK'
    BY <1>1, <1>3, <2>1, InSections DEF TextTypeOK, TextInv, SoundUnits
  <2>5. SectionAhead'
    BY <1>1, AheadKept
  <2>6. FirstSection(text)' = FirstSection(text)
    BY <1>1 DEF FirstSection, HeadingLines
  <2>7. \A u \in units' : u.last < line /\ (u.last + 1 = line => Size(text, u.first, line) > limits.maxChars)
    <3>1. \A u \in units : u.last < first /\ u.last \in Nat
      BY <1>1, InSections DEF PendingLines
    <3>2. \A u \in units : u.last + 1 # line
      BY <2>2, <3>1
    <3> QED BY <1>3, <2>1, <2>3, <3>2 DEF SoundUnits
  <2>8. PendingLines' /\ NothingPending'
    BY <1>1, <2>2, <2>6, <2>7, InSections
       DEF PendingLines, NothingPending, Pending, SectionAhead, LineChars, Size
  <2>9. MarkdownPartition' /\ ChunksAreFull'
    BY <1>1, <1>3, <2>1, <2>2, <2>6, InSections
       DEF SoundUnits, MarkdownPartition, ChunksAreFull, InMarkdown, Pending, Size
  <2>10. WindowsInv' /\ WindowsCutNothing' /\ NoNestedWindows'
    BY <1>1, <1>3, NoWindows
  <2> QED BY <2>4, <2>5, <2>8, <2>9, <2>10 DEF TextInv, SectionsInv
<1> QED BY <1>2, <1>3 DEF FullChunk, Close

LEMMA AddLineStep == TextInv /\ AddLine => TextInv'
<1>. SUFFICES ASSUME TextInv, AddLine PROVE TextInv'
  OBVIOUS
<1>1. /\ mode = "sections" /\ line <= sectionEnd /\ ~ text.blank[line]
      /\ Pending => chars + LineChars <= limits.maxChars
      /\ text' = text /\ limits' = limits /\ line' = line + 1 /\ sectionEnd' = sectionEnd
      /\ last' = line /\ chars' = chars + LineChars /\ mode' = mode /\ units' = units
      /\ Pending => first' = first
      /\ ~ Pending => first' = line
  <2>1. chars + LineChars \in Int
    <3>1. line \in 1..text.n /\ text \in Files
      BY InSections DEF AddLine, InSection, SectionAhead
    <3>2. LineChars \in Int
      BY <3>1, SizeAdds, FileFacts DEF LineChars, Size
    <3>3. chars \in Int
      <4>1. CASE ~ Pending
        BY <4>1, InSections DEF AddLine, InSection, NothingPending
      <4>2. CASE Pending
        <5>1. first \in 1..text.n /\ last \in 1..text.n /\ chars = Size(text, first, last)
          BY <3>1, <4>2, InSections DEF AddLine, InSection, SectionAhead, PendingLines
        <5>2. first - 1 \in 0..text.n /\ last \in 0..text.n /\ text.ends \in [0..text.n -> Nat]
          BY <3>1, <5>1, FileFacts
        <5>3. text.ends[first - 1] \in Nat /\ text.ends[last] \in Nat
          BY <5>2
        <5> QED BY <5>1, <5>3 DEF Size
      <4> QED BY <4>1, <4>2
    <3> QED BY <3>2, <3>3
  <2> QED BY <2>1, InSections DEF AddLine, InSection, Full
<1>2. /\ line \in 1..text.n /\ text \in Files
      /\ FirstSection(text)' = FirstSection(text)
  <2>1. line \in 1..text.n /\ text \in Files
    BY <1>1, InSections DEF SectionAhead
  <2>2. FirstSection(text)' = FirstSection(text)
    BY <1>1 DEF FirstSection, HeadingLines
  <2> QED BY <2>1, <2>2
<1>3. TextTypeOK'
  BY <1>1, InSections DEF TextTypeOK, TextInv, SoundUnits
<1>4. SectionAhead'
  BY <1>1, AheadKept
<1>5. PendingLines' /\ NothingPending'
  <2>1. CASE ~ Pending
    <3>1. chars' = Size(text, line, line)
      <4>1. chars = 0 /\ LineChars \in Int
        BY <1>1, <1>2, <2>1, InSections, SizeAdds DEF NothingPending, LineChars
      <4> QED BY <1>1, <4>1 DEF LineChars
    <3>2. \A u \in units : u.last < line /\ (u.last + 1 = line => text.heading[line])
      BY <1>1, <1>2, <2>1, InSections DEF NothingPending, MarkdownPartition, InMarkdown
    <3> QED BY <1>1, <1>2, <2>1, <3>1, <3>2, InSections
            DEF PendingLines, NothingPending, Pending, SectionAhead, Size
  <2>2. CASE Pending
    <3>1. /\ FirstSection(text) <= first /\ first <= last /\ last = line - 1
          /\ \A i \in first..last : ~ text.blank[i]
          /\ \A i \in (first + 1)..last : ~ text.heading[i]
          /\ chars = Size(text, first, last)
          /\ \A u \in units :
               /\ u.last < first
               /\ u.last + 1 = first /\ ~ text.heading[first] =>
                    Size(text, u.first, first) > limits.maxChars
      BY <1>1, <2>2, InSections DEF PendingLines
    <3>2. chars' = Size(text, first, line) /\ chars' <= limits.maxChars
      <4>1. /\ first \in 1..text.n /\ last \in 0..(text.n - 1) /\ first <= last + 1
            /\ last + 1 = line
        BY <1>1, <1>2, <3>1, InSections
      <4>2. Size(text, first, last) + Size(text, last + 1, last + 1) = Size(text, first, last + 1)
        BY <1>2, <4>1, SizeAdds
      <4> QED BY <1>1, <2>2, <3>1, <4>1, <4>2 DEF LineChars
    <3>3. ~ text.heading[line]
      BY <1>1, <2>2, InSections DEF SectionAhead
    <3>4. Pending' /\ NothingPending'
      BY <1>1, <2>2 DEF Pending, NothingPending
    <3>5. \A i \in first..line : ~ text.blank[i]
      BY <1>1, <1>2, <3>1, InSections
    <3>6. \A i \in (first + 1)..line : ~ text.heading[i]
      BY <1>1, <1>2, <3>1, <3>3, InSections
    <3> QED BY <1>1, <1>2, <2>2, <3>1, <3>2, <3>4, <3>5, <3>6, InSections DEF PendingLines, Size
  <2> QED BY <2>1, <2>2
<1>6. MarkdownPartition' /\ ChunksAreFull'
  <2>1. ChunksAreFull'
    BY <1>1, InSections DEF ChunksAreFull, InMarkdown, Size
  <2>2. \A i \in FirstSection(text)..line :
          text.blank[i] \/ (\E u \in units : i \in u.first..u.last) \/ (first' # 0 /\ i \in first'..line)
    <3>1. line \in first'..line /\ first' # 0
      BY <1>1, <1>2, InSections DEF PendingLines, Pending
    <3>2. ASSUME Pending, NEW i \in first..last PROVE i \in first'..line
      BY <1>1, <3>2, InSections DEF PendingLines
    <3>3. /\ FirstSection(text) \in Nat /\ line \in Nat
          /\ \A i \in FirstSection(text)..(line - 1) :
               text.blank[i] \/ (\E u \in units : i \in u.first..u.last)
                 \/ (Pending /\ i \in first..last)
      BY <1>1, InSections DEF MarkdownPartition, InMarkdown
    <3>4. \A i \in FirstSection(text)..line : i \in FirstSection(text)..(line - 1) \/ i = line
      BY <3>3
    <3> QED BY <3>1, <3>2, <3>3, <3>4
  <2>3. \A u \in units : u.last < line + 1
    BY <1>1, InSections DEF MarkdownPartition, InMarkdown
  <2>4. /\ \A u \in units :
            /\ FirstSection(text) <= u.first /\ u.first <= u.last
            /\ \A i \in u.first..u.last : ~ text.blank[i]
            /\ \A i \in (u.first + 1)..u.last : ~ text.heading[i]
        /\ \A u, v \in units : u # v => u.last < v.first \/ v.last < u.first
    BY <1>1, InSections DEF MarkdownPartition, InMarkdown
  <2>5. (line + 1) - 1 = line
    BY <1>2, InSections
  <2> QED BY <1>1, <1>2, <2>1, <2>2, <2>3, <2>4, <2>5 DEF MarkdownPartition, InMarkdown, Pending
<1>7. WindowsInv' /\ WindowsCutNothing' /\ NoNestedWindows'
  BY <1>1, NoWindows
<1> QED BY <1>3, <1>4, <1>5, <1>6, <1>7 DEF TextInv, SectionsInv

LEMMA EndMarkdownStep == TextInv /\ EndMarkdown => TextInv'
<1>. SUFFICES ASSUME TextInv, EndMarkdown PROVE TextInv'
  OBVIOUS
<1>1. /\ mode = "sections" /\ line = sectionEnd + 1 /\ line > text.n /\ ~ Pending
      /\ text' = text /\ limits' = limits /\ mode' = "cut" /\ line' = line
      /\ sectionEnd' = sectionEnd /\ first' = first /\ last' = last /\ chars' = chars
      /\ units' = units
  BY DEF EndMarkdown
<1>2. line = text.n + 1 /\ first = 0 /\ last = 0 /\ chars = 0
  BY <1>1, InSections DEF SectionAhead, NothingPending, Pending
<1>3. TextTypeOK' /\ PendingLines' /\ MarkdownPartition' /\ ChunksAreFull'
  BY <1>1, <1>2, FromSound, SoundWithoutPending, InSections
<1>4. WindowsInv' /\ WindowsCutNothing' /\ NoNestedWindows'
  BY <1>1, NoWindows
<1> QED BY <1>1, <1>3, <1>4 DEF TextInv, SectionsInv

(***************************************************************************)
(* The steps of text_units.                                                *)
(***************************************************************************)

LEMMA InWindowsFacts ==
  ASSUME TextInv, mode = "windows"
  PROVE /\ text \in Files /\ text.language # "markdown" /\ text.n \in Nat
        /\ text.blank \in [1..text.n -> BOOLEAN]
        /\ limits.chunkLines \in Nat \ {0} /\ limits.overlap \in Nat
        /\ line \in Nat /\ line >= 1 /\ sectionEnd \in Nat /\ first \in Nat /\ last \in Nat
        /\ units \subseteq [first : Nat, last : Nat]
        /\ limits \in Settings
        /\ \A u \in units :
             /\ 1 <= u.first /\ u.first < line
             /\ u.last = u.first - 1 + limits.chunkLines /\ u.last < text.n
        /\ WindowsCutNothing
BY FileFacts, SettingsAssumption DEF TextInv, TextTypeOK, WindowsInv

\* A step goes on by at least a line, and by no more than what two windows share.
LEMMA StepFacts ==
  ASSUME TextInv, mode = "windows"
  PROVE /\ Step \in Nat /\ 1 <= Step /\ Step <= limits.chunkLines
        /\ \A k \in Int : k <= limits.overlap /\ k < limits.chunkLines =>
                            k <= limits.chunkLines - Step
BY InWindowsFacts DEF Step

\* The window at hand holds every stretch that starts before the next one.
LEMMA WindowHolds ==
  ASSUME TextInv, mode = "windows", line <= text.n,
         NEW a \in 1..text.n, NEW b \in a..text.n,
         line <= a, a < line + Step \/ WindowEnd >= text.n,
         b - a <= limits.overlap, b - a < limits.chunkLines
  PROVE b <= WindowEnd
<1>1. b - a <= limits.chunkLines - Step
  BY StepFacts, InWindowsFacts
<1>2. text.n \in Nat /\ line \in Nat /\ limits.chunkLines \in Nat /\ Step \in Nat
  BY StepFacts, InWindowsFacts
<1>3. a \in Nat /\ b \in Nat /\ b <= text.n
  BY <1>2
<1>4. CASE WindowEnd >= text.n
  BY <1>2, <1>3, <1>4 DEF WindowEnd
<1>5. CASE a < line + Step
  BY <1>1, <1>2, <1>3, <1>5 DEF WindowEnd
<1> QED BY <1>4, <1>5

\* Nothing of what a text in windows is depends on the sections.
LEMMA NoSections ==
  ASSUME TextInv, mode = "windows", text' = text, mode' \in {"windows", "cut"}
  PROVE SectionsInv' /\ MarkdownPartition' /\ ChunksAreFull'
BY InWindowsFacts DEF SectionsInv, MarkdownPartition, ChunksAreFull, InMarkdown

LEMMA BlankWindowStep == TextInv /\ BlankWindow => TextInv'
<1>. SUFFICES ASSUME TextInv, BlankWindow PROVE TextInv'
  OBVIOUS
<1>1. /\ mode = "windows" /\ line <= text.n /\ BlankLines(text, line, WindowEnd)
      /\ line' = line + Step /\ text' = text /\ limits' = limits /\ mode' = mode
      /\ sectionEnd' = sectionEnd /\ first' = first /\ last' = last /\ units' = units
  BY DEF BlankWindow
<1>2. TextTypeOK'
  BY <1>1, InWindowsFacts, StepFacts DEF TextTypeOK
<1>3. WindowsInv'
  BY <1>1, InWindowsFacts, StepFacts DEF WindowsInv
<1>4. WindowsCutNothing'
  <2>1. SUFFICES ASSUME NEW a \in 1..text.n, NEW b \in a..text.n, a < line + Step,
                        b - a <= limits.overlap, b - a < limits.chunkLines,
                        ~ BlankLines(text, a, b)
                 PROVE \E u \in units : u.first <= a /\ b <= u.last
    BY <1>1 DEF WindowsCutNothing, InWindows, BlankLines
  <2>2. CASE a < line
    BY <1>1, <2>1, <2>2, InWindowsFacts DEF WindowsCutNothing, InWindows
  <2>3. CASE line <= a
    <3>1. b <= WindowEnd
      BY <1>1, <2>1, <2>3, WindowHolds
    <3>2. \A i \in a..b : i \in line..WindowEnd
      <4>1. line \in Nat /\ WindowEnd \in Int
        BY <1>1, InWindowsFacts DEF WindowEnd
      <4> QED BY <2>3, <3>1, <4>1
    <3> QED BY <1>1, <2>1, <3>2 DEF BlankLines
  <2> QED BY <1>1, <2>1, <2>2, <2>3, InWindowsFacts
<1>5. NoNestedWindows'
  BY <1>1 DEF NoNestedWindows, InWindows, TextInv
<1>6. SectionsInv' /\ MarkdownPartition' /\ ChunksAreFull'
  BY <1>1, NoSections
<1> QED BY <1>2, <1>3, <1>4, <1>5, <1>6 DEF TextInv

LEMMA WindowStep == TextInv /\ Window => TextInv'
<1>. SUFFICES ASSUME TextInv, Window PROVE TextInv'
  OBVIOUS
<1>1. /\ mode = "windows" /\ line <= text.n
      /\ text' = text /\ limits' = limits
      /\ sectionEnd' = sectionEnd /\ first' = first /\ last' = last
  BY DEF Window
<1>2. CASE mode' = "raised" /\ line' = line /\ units' = units
  <2>1. line' \in Nat /\ sectionEnd' \in Nat /\ first' \in Nat /\ last' \in Nat
    BY <1>1, <1>2, InWindowsFacts
  <2> QED BY <1>1, <1>2, <2>1, WhenRaised
<1>3. CASE /\ units' = units \cup {[first |-> line, last |-> WindowEnd]}
           /\ mode' = IF IsLast(WindowEnd) THEN "cut" ELSE mode
           /\ line' = line + Step
  <2>. DEFINE new == [first |-> line, last |-> WindowEnd]
  <2>1. /\ WindowEnd \in Nat /\ line <= WindowEnd /\ WindowEnd <= text.n
        /\ WindowEnd < text.n => WindowEnd = line - 1 + limits.chunkLines
        /\ WindowEnd <= line - 1 + limits.chunkLines
    BY <1>1, InWindowsFacts DEF WindowEnd
  <2>2. new \in [first : Nat, last : Nat] /\ new.first = line /\ new.last = WindowEnd
    BY <2>1, InWindowsFacts, <1>1
  <2>3. units' = units \cup {new}
    BY <1>3
  <2>. HIDE DEF new
  <2>4. mode' = IF WindowEnd >= text.n THEN "cut" ELSE "windows"
    BY <1>1, <1>3 DEF IsLast
  <2>5. TextTypeOK'
    BY <1>1, <1>3, <2>2, <2>3, <2>4, InWindowsFacts, StepFacts DEF TextTypeOK
  <2>6. WindowsInv'
    BY <1>1, <1>3, <2>1, <2>2, <2>3, <2>4, InWindowsFacts, StepFacts DEF WindowsInv
  <2>7. WindowsCutNothing'
    <3>1. SUFFICES ASSUME NEW a \in 1..text.n, NEW b \in a..text.n,
                          a < line + Step \/ mode' = "cut",
                          b - a <= limits.overlap, b - a < limits.chunkLines,
                          ~ BlankLines(text, a, b)
                   PROVE \E u \in units' : u.first <= a /\ b <= u.last
      BY <1>1, <1>3 DEF WindowsCutNothing, InWindows, BlankLines
    <3>2. CASE a < line
      BY <1>1, <2>3, <3>1, <3>2, InWindowsFacts DEF WindowsCutNothing, InWindows
    <3>3. CASE line <= a
      <4>1. a < line + Step \/ WindowEnd >= text.n
        BY <2>1, <2>4, <3>1, InWindowsFacts
      <4>2. b <= WindowEnd
        BY <1>1, <3>1, <3>3, <4>1, WindowHolds
      <4> QED BY <2>2, <2>3, <3>3, <4>2
    <3> QED BY <1>1, <3>1, <3>2, <3>3, InWindowsFacts
  <2>8. NoNestedWindows'
    <3>1. \A u \in units : u.first < line /\ u.last < WindowEnd /\ u.first \in Nat /\ u.last \in Nat
      BY <1>1, <2>1, InWindowsFacts
    <3>2. \A u, v \in units : u.first <= v.first /\ v.last <= u.last => u = v
      BY <1>1, InWindowsFacts DEF TextInv, NoNestedWindows, InWindows
    <3>3. \A u, v \in units' : u.first <= v.first /\ v.last <= u.last => u = v
      BY <2>1, <2>2, <2>3, <3>1, <3>2, InWindowsFacts, <1>1
    <3> QED BY <3>3 DEF NoNestedWindows
  <2>9. SectionsInv' /\ MarkdownPartition' /\ ChunksAreFull'
    BY <1>1, <2>4, NoSections
  <2> QED BY <2>5, <2>6, <2>7, <2>8, <2>9 DEF TextInv
<1> QED BY <1>2, <1>3 DEF Window

LEMMA EndWindowsStep == TextInv /\ EndWindows => TextInv'
<1>. SUFFICES ASSUME TextInv, EndWindows PROVE TextInv'
  OBVIOUS
<1>1. /\ mode = "windows" /\ line > text.n /\ mode' = "cut" /\ text' = text /\ limits' = limits
      /\ line' = line /\ sectionEnd' = sectionEnd /\ first' = first /\ last' = last
      /\ units' = units
  BY DEF EndWindows
<1>2. TextTypeOK' /\ WindowsInv'
  BY <1>1, InWindowsFacts DEF TextTypeOK, WindowsInv
<1>3. WindowsCutNothing'
  <2>1. \A a \in 1..text.n : a < line
    BY <1>1, InWindowsFacts
  <2>2. \A a \in 1..text.n : \A b \in a..text.n :
          b - a <= limits.overlap /\ b - a < limits.chunkLines /\ ~ BlankLines(text, a, b)
            => \E u \in units : u.first <= a /\ b <= u.last
    BY <1>1, <2>1, InWindowsFacts DEF WindowsCutNothing, InWindows
  <2> QED BY <1>1, <2>2 DEF WindowsCutNothing, BlankLines
<1>4. NoNestedWindows'
  BY <1>1, InWindowsFacts DEF NoNestedWindows, InWindows, TextInv
<1>5. SectionsInv' /\ MarkdownPartition' /\ ChunksAreFull'
  BY <1>1, NoSections
<1> QED BY <1>2, <1>3, <1>4, <1>5 DEF TextInv

(***************************************************************************)
(* The machine.                                                            *)
(***************************************************************************)

LEMMA OpenTextStep ==
  ASSUME TextInv, NEW f \in Files, OpenText(f)
  PROVE TextInv'
<1>1. FirstSection(f) \in 1..(f.n + 1) /\ f.n \in Nat
  BY FirstSectionInFile, FileFacts
<1>2. /\ text' = f /\ limits' = limits /\ first' = 0 /\ last' = 0 /\ chars' = 0 /\ units' = {}
      /\ \/ /\ f.language = "markdown" /\ mode' = "sections" /\ line' = FirstSection(f)
            /\ sectionEnd' = FirstSection(f) - 1
         \/ f.language # "markdown" /\ mode' = "windows" /\ line' = 1 /\ sectionEnd' = 0
  BY DEF OpenText
<1>3. FirstSection(text)' = FirstSection(f)
  BY <1>2 DEF FirstSection, HeadingLines
<1>4. TextTypeOK'
  BY <1>1, <1>2 DEF TextTypeOK, TextInv
<1>5. SectionsInv'
  BY <1>1, <1>2, <1>3 DEF SectionsInv, SectionAhead, PendingLines, NothingPending, Pending
<1>6. MarkdownPartition' /\ ChunksAreFull'
  BY <1>1, <1>2, <1>3 DEF MarkdownPartition, ChunksAreFull, InMarkdown
<1>7. WindowsInv' /\ WindowsCutNothing' /\ NoNestedWindows'
  BY <1>2 DEF WindowsInv, WindowsCutNothing, NoNestedWindows, InWindows
<1> QED BY <1>4, <1>5, <1>6, <1>7 DEF TextInv

LEMMA DropTextStep == TextInv /\ DropText => TextInv'
BY DEF DropText, Forget, TextInv, TextTypeOK, SectionsInv, MarkdownPartition, ChunksAreFull,
   InMarkdown, WindowsInv, WindowsCutNothing, NoNestedWindows, InWindows

LEMMA TextStays == TextInv /\ UNCHANGED textVars => TextInv'
<1>. SUFFICES ASSUME TextInv, UNCHANGED textVars PROVE TextInv'
  OBVIOUS
<1>. USE DEF textVars, cutVars
<1>1. TextTypeOK' /\ SectionsInv'
  BY DEF TextInv, TextTypeOK, SectionsInv, SectionAhead, PendingLines, NothingPending, Pending,
         FirstSection, HeadingLines, Size
<1>2. MarkdownPartition' /\ ChunksAreFull'
  BY DEF TextInv, MarkdownPartition, ChunksAreFull, InMarkdown, Pending, FirstSection,
         HeadingLines, Size
<1>3. WindowsInv' /\ WindowsCutNothing' /\ NoNestedWindows'
  BY DEF TextInv, WindowsInv, WindowsCutNothing, NoNestedWindows, InWindows, BlankLines
<1> QED BY <1>1, <1>2, <1>3 DEF TextInv

LEMMA TextStep == TextInv /\ [TextNext]_textVars => TextInv'
BY NextSectionStep, EndSectionStep, BlankLineStep, FullChunkStep, AddLineStep, EndMarkdownStep,
   BlankWindowStep, WindowStep, EndWindowsStep, OpenTextStep, DropTextStep, TextStays
   DEF TextNext, Cut

LEMMA TextInvariant == TextSpec => []TextInv
BY TextInitInv, TextStep, PTL DEF TextSpec

\* The units of a Markdown file partition its non-blank lines, whatever lines it
\* has and whatever the limit of characters (markdown_units).
THEOREM MarkdownIsPartitioned == TextSpec => []MarkdownPartition
BY TextInvariant, PTL DEF TextInv

\* They are as long as the limit allows and no longer (markdown_units).
THEOREM ChunksFillUp == TextSpec => []ChunksAreFull
BY TextInvariant, PTL DEF TextInv

\* No short stretch of lines falls between two windows, for every length of a
\* window and every overlap (text_units).
THEOREM WindowsKeepTogether == TextSpec => []WindowsCutNothing
BY TextInvariant, PTL DEF TextInv

\* No window lies within another one (text_units).
THEOREM WindowsAdvance == TextSpec => []NoNestedWindows
BY TextInvariant, PTL DEF TextInv

(***************************************************************************)
(* Whether a text raises depends on the text and the settings alone: a     *)
(* Markdown file does when a line of a unit lies behind the byte ranges,   *)
(* any other one when a window that is not blank ends there.               *)
(***************************************************************************)

WindowFrom(f, l) == IF l - 1 + limits.chunkLines < f.n THEN l - 1 + limits.chunkLines ELSE f.n

Start(k) == 1 + k * Step

\* The k-th window of the text has no byte range.
BadWindow(f, k) ==
  /\ Start(k) <= f.n
  /\ ~ BlankLines(f, Start(k), WindowFrom(f, Start(k)))
  /\ ~ HasRange(f, WindowFrom(f, Start(k)))

Fails(f) ==
  IF f.language = "markdown"
    THEN \E i \in 1..f.n : i >= FirstSection(f) /\ ~ f.blank[i] /\ ~ HasRange(f, i)
    ELSE \E k \in Nat : BadWindow(f, k)

OutcomeInv ==
  /\ InMarkdown => \A u \in units : HasRange(text, u.last)
  /\ mode = "windows" => \E k \in Nat : line = Start(k) /\ \A j \in 0..(k - 1) : ~ BadWindow(text, j)
  /\ mode = "raised" => Fails(text)
  /\ mode = "cut" => ~ Fails(text)

LEMMA NoTimes ==
  ASSUME NEW m \in Nat
  PROVE 0 * m = 0
OBVIOUS

LEMMA Multiples ==
  ASSUME NEW m \in Nat, NEW a \in Nat, NEW b \in Nat, a < b
  PROVE a * m + m <= b * m
<1>1. b = a + 1 + (b - a - 1) /\ b - a - 1 \in Nat
  OBVIOUS
<1>2. \A d \in Nat : d * m \in Nat /\ (a + 1 + d) * m = a * m + m + d * m /\ a * m \in Nat
  OBVIOUS
<1> QED BY <1>1, <1>2

\* The window that the loop looks at is the next one.
LEMMA AtWindow ==
  ASSUME TextInv, OutcomeInv, mode = "windows"
  PROVE \E k \in Nat : /\ line = Start(k) /\ line + Step = Start(k + 1)
                       /\ \A j \in 0..(k - 1) : ~ BadWindow(text, j)
                       /\ \A j \in Nat : j >= k => Start(j) >= line
<1>1. PICK k \in Nat : line = Start(k) /\ \A j \in 0..(k - 1) : ~ BadWindow(text, j)
  BY DEF OutcomeInv
<1>2. Step \in Nat /\ 1 <= Step
  BY StepFacts
<1>3. line + Step = Start(k + 1)
  <2>1. (k + 1) * Step = k * Step + Step
    BY <1>2
  <2> QED BY <1>1, <1>2, <2>1 DEF Start
<1>4. ASSUME NEW j \in Nat, j >= k PROVE Start(j) >= line
  <2>1. CASE j = k
    BY <1>1, <1>2, <2>1 DEF Start
  <2>2. CASE k < j
    <3>1. k * Step + Step <= j * Step
      BY <1>2, <2>2, Multiples
    <3> QED BY <1>1, <1>2, <3>1 DEF Start
  <2> QED BY <1>4, <2>1, <2>2
<1> QED BY <1>1, <1>3, <1>4

LEMMA WindowOutcome ==
  ASSUME TextInv, OutcomeInv, BlankWindow \/ Window \/ EndWindows
  PROVE OutcomeInv'
<1>1. /\ mode = "windows" /\ text' = text /\ limits' = limits
      /\ text \in Files /\ text.language # "markdown" /\ text.n \in Nat /\ line \in Nat
  BY InWindowsFacts DEF BlankWindow, Window, EndWindows
<1>2. PICK k \in Nat : /\ line = Start(k) /\ line + Step = Start(k + 1)
                       /\ \A j \in 0..(k - 1) : ~ BadWindow(text, j)
                       /\ \A j \in Nat : j >= k => Start(j) >= line
  BY <1>1, AtWindow
<1>3. WindowFrom(text, line) = WindowEnd
  BY DEF WindowFrom, WindowEnd
<1>4. \A j : Start(j)' = Start(j) /\ BadWindow(text, j)' = BadWindow(text, j)
  BY <1>1 DEF Start, Step, BadWindow, WindowFrom, HasRange, BlankLines
<1>5. Fails(text)' <=> \E j \in Nat : BadWindow(text, j)
  BY <1>1, <1>4 DEF Fails
<1>6. ~ InMarkdown'
  BY <1>1 DEF InMarkdown, BlankWindow, Window, EndWindows
<1>7. ASSUME mode' = "windows", line' = line + Step, ~ BadWindow(text, k) PROVE OutcomeInv'
  <2>1. \A j \in 0..k : ~ BadWindow(text, j)
    BY <1>2, <1>7
  <2>2. line' = Start(k + 1) /\ \A j \in 0..((k + 1) - 1) : ~ BadWindow(text, j)
    BY <1>2, <1>7, <2>1
  <2> QED BY <1>1, <1>4, <1>6, <1>7, <2>2 DEF OutcomeInv
<1>8. CASE BlankWindow
  BY <1>1, <1>2, <1>3, <1>7, <1>8 DEF BlankWindow, BadWindow
<1>9. CASE Window
  <2>1. CASE ~ HasRange(text, WindowEnd)
    <3>1. BadWindow(text, k)
      BY <1>2, <1>3, <1>9, <2>1 DEF Window, BadWindow
    <3> QED BY <1>5, <1>6, <1>9, <2>1, <3>1 DEF Window, OutcomeInv
  <2>2. CASE HasRange(text, WindowEnd) /\ ~ IsLast(WindowEnd)
    BY <1>1, <1>2, <1>3, <1>7, <1>9, <2>2 DEF Window, BadWindow
  <2>3. CASE HasRange(text, WindowEnd) /\ IsLast(WindowEnd)
    <3>1. text.n <= text.ranges /\ text.ranges \in Nat
      BY <1>1, <1>3, <2>3, InWindowsFacts, FileFacts DEF HasRange, IsLast, WindowEnd
    <3>2. ASSUME NEW j \in Nat PROVE ~ BadWindow(text, j)
      <4>1. Start(j) \in Nat
        BY StepFacts, <1>1 DEF Start
      <4> QED BY <1>1, <3>1, <4>1, InWindowsFacts DEF BadWindow, HasRange, WindowFrom
    <3> QED BY <1>5, <1>6, <1>9, <2>3, <3>2 DEF Window, OutcomeInv
  <2> QED BY <2>1, <2>2, <2>3
<1>10. CASE EndWindows
  <2>1. ASSUME NEW j \in Nat PROVE ~ BadWindow(text, j)
    <3>1. CASE j < k
      BY <1>2, <3>1
    <3>2. CASE j >= k
      <4>1. Start(j) \in Nat /\ Start(j) > text.n
        BY StepFacts, <1>1, <1>2, <1>10, <3>2 DEF EndWindows, Start
      <4> QED BY <1>1, <4>1 DEF BadWindow
    <3> QED BY <3>1, <3>2
  <2> QED BY <1>5, <1>6, <1>10, <2>1 DEF EndWindows, OutcomeInv
<1> QED BY <1>8, <1>9, <1>10

LEMMA SectionOutcome ==
  ASSUME TextInv, OutcomeInv,
         NextSection \/ EndSection \/ BlankLine \/ FullChunk \/ AddLine \/ EndMarkdown
  PROVE OutcomeInv'
<1>1. /\ mode = "sections" /\ text' = text /\ text \in Files /\ text.language = "markdown"
      /\ text.n \in Nat /\ FirstSection(text) \in 1..(text.n + 1) /\ line \in Nat
  BY InSections DEF NextSection, EndSection, BlankLine, FullChunk, AddLine, EndMarkdown, InSection
<1>2. \A u \in units : HasRange(text, u.last)
  BY <1>1 DEF OutcomeInv, InMarkdown
<1>3. Fails(text)' <=> \E i \in 1..text.n : i >= FirstSection(text) /\ ~ text.blank[i] /\ ~ HasRange(text, i)
  BY <1>1 DEF Fails, FirstSection, HeadingLines, HasRange
<1>4. CASE mode' = "sections" /\ units' = units
  BY <1>1, <1>2, <1>4 DEF OutcomeInv, HasRange
<1>5. CASE Pending /\ Close(first, last)
  <2>1. /\ FirstSection(text) <= first /\ first <= last /\ last = line - 1 /\ ~ text.blank[last]
        /\ line <= text.n + 1 /\ first \in Nat
    BY <1>1, <1>5, InSections DEF TextInv, SectionsInv, SectionAhead, PendingLines
  <2>2. last \in 1..text.n /\ last >= FirstSection(text)
    BY <1>1, <2>1
  <2>3. CASE HasRange(text, last)
    BY <1>1, <1>2, <1>5, <2>3 DEF Close, OutcomeInv, HasRange
  <2>4. CASE ~ HasRange(text, last)
    BY <1>1, <1>3, <1>5, <2>1, <2>2, <2>4 DEF Close, OutcomeInv, InMarkdown
  <2> QED BY <2>3, <2>4
<1>6. CASE EndMarkdown
  <2>1. \A i \in FirstSection(text)..text.n : text.blank[i] \/ \E u \in units : i \in u.first..u.last
    <3>1. line > text.n /\ ~ Pending /\ line <= text.n + 1
      BY <1>1, <1>6 DEF EndMarkdown, TextInv, SectionsInv, SectionAhead
    <3>2. line - 1 = text.n
      BY <1>1, <3>1
    <3> QED BY <1>1, <3>1, <3>2 DEF TextInv, MarkdownPartition, InMarkdown
  <2>2. \A u \in units : u.last <= text.ranges /\ u.last \in Nat /\ u.first \in Nat
    BY <1>1, <1>2, InSections DEF HasRange
  <2>3. ASSUME NEW i \in 1..text.n, i >= FirstSection(text), ~ text.blank[i] PROVE HasRange(text, i)
    <3>1. i \in FirstSection(text)..text.n
      BY <1>1, <2>3
    <3>2. PICK u \in units : i \in u.first..u.last
      BY <2>1, <2>3, <3>1
    <3>3. text.ranges \in Nat
      BY <1>1, FileFacts
    <3> QED BY <1>1, <2>2, <3>2, <3>3 DEF HasRange
  <2> QED BY <1>1, <1>2, <1>3, <1>6, <2>3 DEF EndMarkdown, OutcomeInv, HasRange
<1>7. CASE NextSection \/ AddLine
  BY <1>1, <1>4, <1>7 DEF NextSection, AddLine
<1>8. CASE EndSection
  BY <1>5, <1>8 DEF EndSection
<1>9. CASE FullChunk
  BY <1>5, <1>9 DEF FullChunk, Full
<1>10. CASE BlankLine
  <2>1. CASE Pending
    BY <1>5, <1>10, <2>1 DEF BlankLine
  <2>2. CASE ~ Pending
    <3>1. UNCHANGED <<mode, units>>
      BY <1>10, <2>2 DEF BlankLine
    <3> QED BY <1>1, <1>4, <3>1
  <2> QED BY <2>1, <2>2
<1> QED BY <1>6, <1>7, <1>8, <1>9, <1>10

LEMMA OutcomeStep == TextInv /\ OutcomeInv /\ [TextNext]_textVars => OutcomeInv'
<1>. SUFFICES ASSUME TextInv, OutcomeInv, [TextNext]_textVars PROVE OutcomeInv'
  OBVIOUS
<1>1. ASSUME NEW f \in Files, OpenText(f) PROVE OutcomeInv'
  <2>1. CASE f.language = "markdown"
    BY <1>1, <2>1 DEF OpenText, OutcomeInv
  <2>2. CASE f.language # "markdown"
    <3>1. limits.chunkLines \in Nat /\ limits.overlap \in Nat
      BY SettingsAssumption DEF TextInv, TextTypeOK
    <3>2. Step' \in Nat
      BY <1>1, <3>1 DEF OpenText, Step
    <3>3. Start(0)' = 1
      <4>1. 0 * Step' = 0
        BY <3>2, NoTimes
      <4>2. Start(0)' = 1 + 0 * Step'
        BY DEF Start
      <4> QED BY <4>1, <4>2
    <3>4. mode' = "windows" /\ line' = 1 /\ units' = {}
      BY <1>1, <2>2 DEF OpenText
    <3>5. (\E k \in Nat : line = Start(k) /\ \A j \in 0..(k - 1) : ~ BadWindow(text, j))'
      <4>1. 0..(0 - 1) = {} /\ 0 \in Nat
        OBVIOUS
      <4>2. (line = Start(0) /\ \A j \in 0..(0 - 1) : ~ BadWindow(text, j))'
        BY <3>3, <3>4, <4>1
      <4> QED BY <4>1, <4>2
    <3> QED BY <3>4, <3>5 DEF OutcomeInv
  <2> QED BY <2>1, <2>2
<1>2. CASE DropText
  BY <1>2 DEF DropText, OutcomeInv, InMarkdown
<1>3. CASE UNCHANGED textVars
  BY <1>3 DEF textVars, cutVars, OutcomeInv, InMarkdown, HasRange, Fails, BadWindow, Start, Step,
              WindowFrom, BlankLines, FirstSection, HeadingLines
<1> QED BY <1>1, <1>2, <1>3, WindowOutcome, SectionOutcome DEF TextNext, Cut

LEMMA OutcomeInvariant == TextSpec => [](TextInv /\ OutcomeInv)
<1>1. TextInit => OutcomeInv
  BY DEF TextInit, OutcomeInv, InMarkdown
<1> QED BY <1>1, TextInitInv, TextStep, OutcomeStep, PTL DEF TextSpec

\* Whether a text is cut or ends in an error depends on the text and the settings
\* alone, not on what came before it: a stage that is done again reports the
\* files that it reported the first time (markdown_units, text_units).
THEOREM OutcomeIsDecided ==
  TextSpec => []((mode = "raised" => Fails(text)) /\ (mode = "cut" => ~ Fails(text)))
BY OutcomeInvariant, PTL DEF OutcomeInv

(***************************************************************************)
(* The loops end.  A turn over the sections goes to the next line, closes a*)
(* unit or opens a section; a turn over the windows goes on by a step of at*)
(* least one line, however the overlap is set.                             *)
(***************************************************************************)

One(condition) == IF condition THEN 1 ELSE 0

SectionTurns == 3 * (text.n + 1 - line) + One(Pending) + One(line > sectionEnd)

WindowTurns == IF line <= text.n THEN text.n + 1 - line ELSE 0

\* How many turns are left at most.
CutLeft ==
  IF mode = "sections" THEN 1 + SectionTurns
  ELSE IF mode = "windows" THEN 1 + WindowTurns
  ELSE 0

LEMMA OneAtMost == \A c : One(c) \in 0..1
BY DEF One

LEMMA TurnsAreNumbers ==
  ASSUME TextInv
  PROVE /\ mode = "sections" => SectionTurns \in Nat
        /\ mode = "windows" => WindowTurns \in Nat
<1>1. CASE mode = "sections"
  <2>1. text.n \in Nat /\ line \in Nat /\ line <= text.n + 1
    BY <1>1, InSections DEF SectionAhead
  <2>2. 3 * (text.n + 1 - line) \in Nat
    BY <2>1
  <2> QED BY <1>1, <2>2, OneAtMost DEF SectionTurns
<1>2. CASE mode = "windows"
  BY <1>2, InWindowsFacts DEF WindowTurns
<1> QED BY <1>1, <1>2

LEMMA CutLeftIsNumber == TextInv => CutLeft \in Nat
BY TurnsAreNumbers DEF CutLeft

LEMMA CutTurns ==
  ASSUME TextInv, Cut
  PROVE CutLeft' < CutLeft
<1>1. CASE BlankWindow \/ Window
  <2>1. /\ mode = "windows" /\ text' = text /\ text.n \in Nat /\ line \in Nat /\ line <= text.n
        /\ Step \in Nat /\ Step >= 1
    BY <1>1, InWindowsFacts, StepFacts DEF BlankWindow, Window
  <2>2. mode' \in {"cut", "raised"} \/ (mode' = "windows" /\ line' = line + Step)
    BY <1>1, <2>1 DEF BlankWindow, Window
  <2>3. CutLeft = 1 + (text.n + 1 - line)
    BY <2>1 DEF CutLeft, WindowTurns
  <2>4. CASE mode' \in {"cut", "raised"}
    BY <2>1, <2>3, <2>4 DEF CutLeft
  <2>5. CASE mode' = "windows" /\ line' = line + Step
    BY <2>1, <2>3, <2>5 DEF CutLeft, WindowTurns
  <2> QED BY <2>2, <2>4, <2>5
<1>2. CASE EndWindows \/ EndMarkdown
  <2>1. mode \in {"windows", "sections"} /\ mode' = "cut"
    BY <1>2 DEF EndWindows, EndMarkdown
  <2>2. CutLeft > 0
    BY <2>1, TurnsAreNumbers DEF CutLeft
  <2> QED BY <2>1, <2>2 DEF CutLeft
<1>3. CASE NextSection \/ EndSection \/ BlankLine \/ FullChunk \/ AddLine
  <2>1. /\ mode = "sections" /\ text' = text /\ text.n \in Nat /\ line \in Nat /\ sectionEnd \in Nat
        /\ line <= text.n + 1 /\ line <= sectionEnd + 1 /\ sectionEnd <= text.n
        /\ mode' \in {"sections", "raised"}
    BY <1>3, InSections
       DEF NextSection, EndSection, BlankLine, FullChunk, AddLine, InSection, SectionAhead, Close
  <2>2. CutLeft = 1 + SectionTurns /\ SectionTurns \in Nat
    BY <2>1, OneAtMost DEF CutLeft, SectionTurns
  <2>3. CASE mode' = "raised"
    BY <2>2, <2>3 DEF CutLeft
  <2>4. ASSUME SectionTurns' < SectionTurns, SectionTurns' \in Int, mode' = "sections"
        PROVE CutLeft' < CutLeft
    BY <2>2, <2>4 DEF CutLeft
  <2>5. CASE NextSection
    <3>1. /\ line' = line /\ line > sectionEnd /\ ~ (line' > sectionEnd') /\ first' = first
          /\ mode' = "sections" /\ sectionEnd' \in Int
      BY <2>1, <2>5 DEF NextSection
    <3> QED BY <2>1, <2>4, <3>1, OneAtMost DEF SectionTurns, Pending, One
  <2>6. CASE EndSection
    <3>1. line' = line /\ sectionEnd' = sectionEnd /\ first # 0 /\ first' = 0
      BY <2>6 DEF EndSection, Forget, Pending
    <3> QED BY <2>1, <2>3, <2>4, <3>1, OneAtMost DEF SectionTurns, Pending, One
  <2>7. CASE BlankLine \/ FullChunk \/ AddLine
    <3>1. line <= sectionEnd /\ line' = line + 1 /\ sectionEnd' = sectionEnd
      BY <2>7 DEF BlankLine, FullChunk, AddLine, InSection
    <3>2. SectionTurns' <= 3 * (text.n + 1 - line - 1) + 1 + 1
      BY <2>1, <3>1, OneAtMost DEF SectionTurns
    <3>3. 3 * (text.n + 1 - line) <= SectionTurns
      BY <2>1, OneAtMost DEF SectionTurns
    <3>4. SectionTurns' \in Int
      BY <2>1, <3>1, OneAtMost DEF SectionTurns
    <3> QED BY <2>1, <2>2, <2>3, <2>4, <3>1, <3>2, <3>3, <3>4
  <2> QED BY <1>3, <2>5, <2>6, <2>7
<1> QED BY <1>1, <1>2, <1>3 DEF Cut

\* The first turn has no more than three times the lines before it.
LEMMA CutStart ==
  ASSUME TextInv, NEW f \in Files, OpenText(f)
  PROVE CutLeft' <= 3 * f.n + 2
<1>1. FirstSection(f) \in 1..(f.n + 1) /\ f.n \in Nat
  BY FirstSectionInFile, FileFacts
<1>2. CASE f.language = "markdown"
  <2>1. /\ mode' = "sections" /\ text' = f /\ line' = FirstSection(f)
        /\ sectionEnd' = FirstSection(f) - 1 /\ ~ Pending'
    BY <1>2 DEF OpenText, Pending
  <2> QED BY <1>1, <2>1, OneAtMost DEF CutLeft, SectionTurns, One
<1>3. CASE f.language # "markdown"
  <2>1. mode' = "windows" /\ text' = f /\ line' = 1
    BY <1>3 DEF OpenText
  <2> QED BY <1>1, <2>1 DEF CutLeft, WindowTurns
<1> QED BY <1>2, <1>3

\* No loop over sections, lines or windows goes on for ever: each turn leaves
\* fewer before it, also where windows overlap by their whole length or more
\* (markdown_units, text_units).
THEOREM CuttingAdvances ==
  TextSpec => [][Cut => CutLeft \in Nat /\ CutLeft' \in Nat /\ CutLeft' < CutLeft]_textVars
<1>1. TextSpec => [](CutLeft \in Nat)
  BY TextInvariant, CutLeftIsNumber, PTL
<1>2. TextInv /\ CutLeft \in Nat /\ (CutLeft \in Nat)'
        => (Cut => CutLeft \in Nat /\ CutLeft' \in Nat /\ CutLeft' < CutLeft)
  BY CutTurns
<1> QED BY <1>1, <1>2, TextInvariant, PTL

-----------------------------------------------------------------------------
(* The scan of a script.                                                   *)

(***************************************************************************)
(* Blocks.  Where every declaration opens its block at once, the blocks    *)
(* are nested: a block that starts within another one ends within it.      *)
(***************************************************************************)

LEMMA BraceFacts ==
  ASSUME NEW f \in Files
  PROVE /\ f.n \in Nat /\ f.braces \in Nat
        /\ f.at \in [1..f.braces -> 1..f.n]
        /\ \A j, k \in 1..f.braces : j <= k => f.at[j] <= f.at[k]
        /\ f.depth \in [0..f.braces -> Int]
        /\ \A k \in 1..f.braces : f.depth[k] \in {f.depth[k - 1] - 1, f.depth[k - 1] + 1}
        /\ f.decl \in [1..f.n -> DeclKinds \cup {"none"}]
BY BracesAssumption, FilesAssumption

\* Where the braces of a declaration begin.
LEMMA Opening ==
  ASSUME NEW f \in Files, OpensAtOnce(f), NEW l \in 1..f.n, f.decl[l] # "none"
  PROVE \E k \in 1..f.braces :
          /\ f.at[k] = l /\ Up(f, k)
          /\ k \in From(f, l) /\ \A j \in From(f, l) : k <= j
          /\ DepthBefore(f, l) = f.depth[k - 1]
<1>1. PICK k \in From(f, l) : f.at[k] = l /\ Up(f, k) /\ \A j \in From(f, l) : k <= j
  BY DEF OpensAtOnce
<1>2. k \in 1..f.braces /\ From(f, l) \subseteq 1..f.braces
  BY <1>1 DEF From
<1>. DEFINE first_ == CHOOSE x \in From(f, l) : \A j \in From(f, l) : x <= j
<1>3. first_ \in From(f, l) /\ \A j \in From(f, l) : first_ <= j
  BY <1>1
<1>4. first_ = k
  BY <1>1, <1>2, <1>3, BraceFacts
<1>5. DepthBefore(f, l) = f.depth[first_ - 1]
  BY <1>1 DEF DepthBefore
<1> QED BY <1>1, <1>2, <1>4, <1>5

LEMMA Nested ==
  ASSUME NEW f \in Files, OpensAtOnce(f),
         NEW l \in 1..f.n, NEW m \in 1..f.n, f.decl[l] # "none", f.decl[m] # "none",
         NEW el \in 1..f.n, NEW em \in 1..f.n, IsBlockEnd(f, l, el), IsBlockEnd(f, m, em),
         l < m, m <= el
  PROVE em <= el
<1>1. CASE Closing(f, l) = {}
  BY <1>1, BraceFacts DEF IsBlockEnd
<1>2. CASE Closing(f, l) # {}
  <2>1. PICK kl \in 1..f.braces :
               /\ f.at[kl] = l /\ Up(f, kl)
               /\ kl \in From(f, l) /\ \A j \in From(f, l) : kl <= j
               /\ DepthBefore(f, l) = f.depth[kl - 1]
    BY Opening
  <2>2. PICK km \in 1..f.braces :
               /\ f.at[km] = m /\ Up(f, km)
               /\ km \in From(f, m) /\ \A j \in From(f, m) : km <= j
               /\ DepthBefore(f, m) = f.depth[km - 1]
    BY Opening
  <2>3. PICK cl \in Closing(f, l) : f.at[cl] = el /\ \A j \in Closing(f, l) : cl <= j
    BY <1>2 DEF IsBlockEnd
  <2>4. /\ cl \in 1..f.braces /\ cl \in From(f, l) /\ ~ Up(f, cl)
        /\ f.depth[cl] <= DepthBefore(f, l)
    BY <2>3 DEF Closing, From
  <2>5. kl < km
    BY <2>1, <2>2, BraceFacts DEF From, Before
  <2>6. km < cl
    <3>1. km # cl
      BY <2>2, <2>4
    <3>2. f.at[cl] >= m
      BY <2>3
    <3>3. f.at[cl] \in Nat /\ m \in Nat /\ km \in Nat /\ cl \in Nat
      <4>1. f.n \in Nat /\ f.braces \in Nat /\ f.at \in [1..f.braces -> 1..f.n]
        BY BraceFacts
      <4>2. f.at[cl] \in 1..f.n
        BY <2>4, <4>1
      <4>3. cl \in 1..f.braces /\ km \in 1..f.braces
        BY <2>2, <2>4
      <4> QED BY <4>1, <4>2, <4>3
    <3>4. cl \in From(f, m)
      BY <2>4, <3>2, <3>3 DEF From, Before
    <3>5. km <= cl
      BY <2>2, <3>4
    <3> QED BY <3>1, <3>3, <3>5
  <2>7. /\ kl \in Nat /\ km \in Nat /\ cl \in Nat /\ f.braces \in Nat
        /\ 1 <= kl /\ cl <= f.braces
        /\ \A k \in 1..f.braces :
             /\ f.depth[k] \in Int /\ f.depth[k - 1] \in Int
             /\ f.depth[k] = f.depth[k - 1] - 1 \/ f.depth[k] = f.depth[k - 1] + 1
    <3>1. \A k \in 1..f.braces : k \in 0..f.braces /\ k - 1 \in 0..f.braces
      BY BraceFacts
    <3>2. \A k \in 1..f.braces : f.depth[k] \in Int /\ f.depth[k - 1] \in Int
      BY <3>1, BraceFacts
    <3>3. \A k \in 1..f.braces : f.depth[k] = f.depth[k - 1] - 1 \/ f.depth[k] = f.depth[k - 1] + 1
      BY BraceFacts
    <3>4. /\ kl \in Nat /\ km \in Nat /\ cl \in Nat /\ f.braces \in Nat
          /\ 1 <= kl /\ cl <= f.braces
      BY <2>1, <2>2, <2>4, BraceFacts
    <3> QED BY <3>2, <3>3, <3>4
  \* Between the opening brace and the closing one the depth is greater.
  <2>8. \A k \in kl..(cl - 1) : f.depth[k] > f.depth[kl - 1]
    <3>. DEFINE Low == {k \in kl..(cl - 1) : f.depth[k] <= f.depth[kl - 1]}
    <3>1. /\ Low \in SUBSET Nat
          /\ \A k \in Low : k \in kl..(cl - 1) /\ f.depth[k] <= f.depth[kl - 1]
          /\ \A k \in kl..(cl - 1) : k \notin Low => ~ f.depth[k] <= f.depth[kl - 1]
      BY <2>7
    <3>. HIDE DEF Low
    <3>2. ASSUME Low # {} PROVE FALSE
      <4>1. PICK k \in Low : \A j \in Low : k <= j
        BY <3>1, <3>2, Least
      <4>2. k \in Nat /\ kl <= k /\ k < cl /\ k \in 1..f.braces /\ f.depth[k] <= f.depth[kl - 1]
        BY <2>7, <3>1, <4>1
      <4>3. k # kl
        BY <2>1, <2>7, <4>2 DEF Up
      <4>4. k - 1 \in kl..(cl - 1) /\ k - 1 \notin Low
        BY <2>7, <3>1, <4>1, <4>2, <4>3
      <4>5. f.depth[k - 1] > f.depth[kl - 1]
        <5>1. k - 1 \in 1..f.braces /\ kl \in 1..f.braces
          BY <2>7, <4>2, <4>4
        <5> QED BY <2>7, <3>1, <4>4, <5>1
      <4>6. ~ Up(f, k)
        <5>1. f.depth[k] \in Int /\ f.depth[k - 1] \in Int /\ f.depth[kl - 1] \in Int
          BY <2>1, <2>7, <4>2
        <5> QED BY <4>2, <4>5, <5>1 DEF Up
      <4>7. k \in From(f, l)
        <5>1. f.at[kl] <= f.at[k] /\ f.at[k] \in 1..f.n /\ f.at[kl] = l
          BY <2>1, <4>2, BraceFacts
        <5> QED BY <4>2, <5>1, BraceFacts DEF From, Before
      <4>8. k \in Closing(f, l)
        BY <2>1, <2>7, <4>2, <4>3, <4>6, <4>7 DEF Closing
      <4> QED BY <2>3, <2>7, <4>2, <4>8
    <3>3. \A k \in kl..(cl - 1) : f.depth[k] \in Int /\ f.depth[kl - 1] \in Int
      BY <2>1, <2>7
    <3> QED BY <3>1, <3>2, <3>3
  <2>9. f.depth[km - 1] > f.depth[kl - 1]
    <3>1. km - 1 \in kl..(cl - 1)
      BY <2>5, <2>6, <2>7
    <3> QED BY <2>8, <3>1
  <2>12. cl \in Closing(f, m)
    <3>1. cl \in From(f, m)
      <4>1. f.at[km] <= f.at[cl] /\ f.at[cl] \in 1..f.n /\ f.at[km] = m
        <5>1. km \in 1..f.braces /\ cl \in 1..f.braces /\ km <= cl /\ f.at[km] = m
          BY <2>2, <2>4, <2>6, <2>7
        <5> QED BY <5>1, BraceFacts
      <4> QED BY <2>4, <4>1, BraceFacts DEF From, Before
    <3>2. f.depth[cl] <= DepthBefore(f, m)
      <4>1. f.depth[cl] \in Int /\ f.depth[km - 1] \in Int /\ f.depth[kl - 1] \in Int
        BY <2>1, <2>2, <2>4, <2>7
      <4>2. f.depth[cl] <= f.depth[kl - 1] /\ DepthBefore(f, m) = f.depth[km - 1]
        BY <2>1, <2>2, <2>4
      <4> QED BY <2>9, <4>1, <4>2
    <3> QED BY <2>2, <2>4, <2>6, <3>1, <3>2 DEF Closing
  <2>10. PICK cm \in Closing(f, m) : f.at[cm] = em /\ \A j \in Closing(f, m) : cm <= j
    BY <2>12 DEF IsBlockEnd
  <2>11. cm \in 1..f.braces /\ cm <= cl
    BY <2>12, <2>10 DEF Closing, From
  <2> QED BY <2>3, <2>4, <2>10, <2>11, BraceFacts
<1> QED BY <1>1, <1>2

(***************************************************************************)
(* The inductive invariant of the scan.  Every symbol runs from its line   *)
(* to the end of its block; the stack holds places of classes, the top one *)
(* open on the line before; and where blocks are nested, the stack holds   *)
(* the classes that are open, and is itself nested.                        *)
(***************************************************************************)

Places == [first : Nat, last : Nat]

IsClass(c) == c.kind = "class"

\* The place of the symbol is on the stack.
OnStack(c) == \E i \in 1..Len(classStack) :
                classStack[i].first = c.first /\ classStack[i].last = c.last

SymbolsOK ==
  \A s \in symbols :
    /\ s.first \in 1..script.n /\ s.last \in 1..script.n
    /\ s.first < row /\ s.first <= s.last
    /\ script.decl[s.first] # "none" /\ IsBlockEnd(script, s.first, s.last)
    /\ \A o \in s.owners : o < s.first

StackOK ==
  /\ classStack \in Seq(Places)
  /\ \A i \in 1..Len(classStack) : \E c \in symbols :
       IsClass(c) /\ classStack[i].first = c.first /\ classStack[i].last = c.last
  /\ classStack # <<>> => classStack[Len(classStack)].last >= row - 1
  /\ \A c \in symbols : IsClass(c) /\ c.last = script.n => OnStack(c)

StackNested ==
  OpensAtOnce(script) =>
    /\ \A i, j \in 1..Len(classStack) : i < j => classStack[j].last <= classStack[i].last
    /\ \A i \in 1..Len(classStack) : classStack[i].last >= row - 1
    /\ \A c \in symbols : IsClass(c) /\ c.last >= row - 1 => OnStack(c)

ScanInv ==
  /\ scan \in {"idle", "lines", "scanned"}
  /\ scan # "idle" =>
       /\ script \in Files
       /\ row \in 1..(script.n + 1)
       /\ SymbolsOK /\ StackOK /\ StackNested
       /\ OwnersEnclose
  /\ scan = "scanned" => row = script.n + 1 /\ (mismatch <=> classStack # <<>>)

\* The places that are left on the stack.
LEMMA PoppedFacts ==
  ASSUME NEW l \in Nat, classStack \in Seq(Places)
  PROVE /\ Popped(l) \in 0..Len(classStack)
        /\ Popped(l) > 0 => classStack[Popped(l)].last >= l
        /\ \A j \in (Popped(l) + 1)..Len(classStack) : classStack[j].last < l
<1>. DEFINE Kept == {i \in 0..Len(classStack) :
                       \A j \in (i + 1)..Len(classStack) : classStack[j].last < l}
<1>1. Len(classStack) \in Nat /\ \A i \in 1..Len(classStack) : classStack[i].last \in Nat
  <2>1. Len(classStack) \in Nat /\ \A i \in 1..Len(classStack) : classStack[i] \in Places
    OBVIOUS
  <2>2. \A p \in Places : p.last \in Nat
    BY DEF Places
  <2> QED BY <2>1, <2>2
<1>2. Kept \in SUBSET Nat /\ Len(classStack) \in Kept
  BY <1>1
<1>3. PICK i \in Kept : \A j \in Kept : i <= j
  BY <1>2, Least
<1>4. i \in 0..Len(classStack) /\ \A j \in (i + 1)..Len(classStack) : classStack[j].last < l
  BY <1>3
<1>5. ASSUME i > 0, ~ (classStack[i].last >= l) PROVE FALSE
  <2>1. i - 1 \in 0..Len(classStack) /\ i \in 1..Len(classStack) /\ (i - 1) + 1 = i
    BY <1>1, <1>4, <1>5
  <2>2. \A j \in ((i - 1) + 1)..Len(classStack) : classStack[j].last < l
    <3>1. classStack[i].last < l
      BY <1>1, <1>5, <2>1
    <3>2. \A j \in i..Len(classStack) : j = i \/ j \in (i + 1)..Len(classStack)
      BY <1>1, <1>4
    <3> QED BY <1>4, <2>1, <3>1, <3>2
  <2>3. i - 1 \in Kept
    BY <2>1, <2>2
  <2>4. i <= i - 1
    BY <1>3, <2>3
  <2> QED BY <1>1, <1>4, <2>4
<1>6. i > 0 => classStack[i].last >= l
  BY <1>5
<1> QED BY <1>4, <1>6 DEF Popped

LEMMA LeftFacts ==
  ASSUME row \in Nat, classStack \in Seq(Places)
  PROVE /\ Left \in Seq(Places)
        /\ Len(Left) \in 0..Len(classStack)
        /\ \A i \in 1..Len(Left) : i \in 1..Len(classStack) /\ Left[i] = classStack[i]
        /\ Left # <<>> => Left[Len(Left)].last >= row
        /\ \A j \in (Len(Left) + 1)..Len(classStack) : classStack[j].last < row
<1>1. /\ Popped(row) \in 0..Len(classStack)
      /\ Popped(row) > 0 => classStack[Popped(row)].last >= row
      /\ \A j \in (Popped(row) + 1)..Len(classStack) : classStack[j].last < row
  BY PoppedFacts
<1>2. Len(classStack) \in Nat /\ \A i \in 1..Len(classStack) : classStack[i] \in Places
  OBVIOUS
<1>3. \A i \in 1..Popped(row) : classStack[i] \in Places
  BY <1>1, <1>2
<1>4. /\ Left \in Seq(Places)
      /\ Len(Left) = IF 1 <= Popped(row) THEN Popped(row) - 1 + 1 ELSE 0
      /\ \A i \in 1..(Popped(row) - 1 + 1) : Left[i] = classStack[1 + i - 1]
  BY <1>1, <1>3, SubSeqProperties DEF Left
<1>5. Len(Left) = Popped(row) /\ \A i \in 1..Len(Left) : Left[i] = classStack[i]
  BY <1>1, <1>2, <1>4
<1>6. Left # <<>> => Len(Left) > 0
  BY <1>4, EmptySeq
<1> QED BY <1>1, <1>2, <1>4, <1>5, <1>6

LEMMA InLines ==
  ASSUME ScanInv, NextRow
  PROVE /\ script \in Files /\ script.n \in Nat
        /\ row \in 1..script.n /\ row \in Nat
        /\ scan = "lines" /\ scan' = scan /\ script' = script /\ row' = row + 1
        /\ mismatch' = mismatch
        /\ script.decl \in [1..script.n -> DeclKinds \cup {"none"}]
        /\ SymbolsOK /\ StackOK /\ StackNested /\ OwnersEnclose
        /\ classStack \in Seq(Places)
        /\ Left \in Seq(Places)
        /\ Len(Left) \in 0..Len(classStack) /\ Len(classStack) \in Nat
        /\ \A i \in 1..Len(Left) : i \in 1..Len(classStack) /\ Left[i] = classStack[i]
        /\ Left # <<>> => Left[Len(Left)].last >= row
        /\ \A j \in (Len(Left) + 1)..Len(classStack) : classStack[j].last < row
<1>1. /\ script \in Files /\ scan = "lines" /\ row \in 1..(script.n + 1) /\ row <= script.n
      /\ scan' = scan /\ script' = script /\ row' = row + 1 /\ mismatch' = mismatch
      /\ SymbolsOK /\ StackOK /\ StackNested /\ OwnersEnclose
  BY DEF ScanInv, NextRow
<1>2. script.n \in Nat /\ script.decl \in [1..script.n -> DeclKinds \cup {"none"}]
  BY <1>1, BraceFacts
<1>3. row \in Nat /\ row \in 1..script.n /\ classStack \in Seq(Places)
  BY <1>1, <1>2 DEF StackOK
<1>4. Len(classStack) \in Nat
  BY <1>3
<1> QED BY <1>1, <1>2, <1>3, <1>4, LeftFacts

\* What is left on the stack are places of classes, and among nested blocks it is
\* the classes that are open at the line.
LEMMA LeftIsOpen ==
  ASSUME ScanInv, NextRow
  PROVE /\ \A i \in 1..Len(Left) : \E c \in symbols :
             IsClass(c) /\ Left[i].first = c.first /\ Left[i].last = c.last
        /\ \A c \in symbols : IsClass(c) /\ c.last = script.n =>
             \E i \in 1..Len(Left) : Left[i].first = c.first /\ Left[i].last = c.last
        /\ OpensAtOnce(script) =>
             /\ \A i, j \in 1..Len(Left) : i < j => Left[j].last <= Left[i].last
             /\ \A i \in 1..Len(Left) : Left[i].last >= row
             /\ \A c \in symbols : IsClass(c) /\ c.last >= row =>
                  \E i \in 1..Len(Left) : Left[i].first = c.first /\ Left[i].last = c.last
<1>1. \A i \in 1..Len(Left) : \E c \in symbols :
             IsClass(c) /\ Left[i].first = c.first /\ Left[i].last = c.last
  BY InLines DEF StackOK
<1>2. \A i \in 1..Len(classStack) : classStack[i].last >= row => i \in 1..Len(Left)
  <2>1. \A i \in 1..Len(classStack) : i \in 1..Len(Left) \/ i \in (Len(Left) + 1)..Len(classStack)
    BY InLines
  <2>2. \A i \in 1..Len(classStack) : classStack[i].last \in Nat
    <3>1. \A i \in 1..Len(classStack) : classStack[i] \in Places
      BY InLines
    <3> QED BY <3>1 DEF Places
  <2> QED BY <2>1, <2>2, InLines
<1>3. ASSUME NEW c \in symbols, OnStack(c), c.last >= row
      PROVE \E i \in 1..Len(Left) : Left[i].first = c.first /\ Left[i].last = c.last
  BY <1>2, <1>3, InLines DEF OnStack
<1>4. ASSUME NEW c \in symbols, IsClass(c), c.last = script.n
      PROVE \E i \in 1..Len(Left) : Left[i].first = c.first /\ Left[i].last = c.last
  <2>1. OnStack(c) /\ c.last >= row
    BY <1>4, InLines DEF StackOK
  <2> QED BY <1>3, <2>1
<1>5. ASSUME OpensAtOnce(script)
      PROVE /\ \A i, j \in 1..Len(Left) : i < j => Left[j].last <= Left[i].last
            /\ \A i \in 1..Len(Left) : Left[i].last >= row
            /\ \A c \in symbols : IsClass(c) /\ c.last >= row =>
                 \E i \in 1..Len(Left) : Left[i].first = c.first /\ Left[i].last = c.last
  <2>1. \A i, j \in 1..Len(Left) : i < j => Left[j].last <= Left[i].last
    BY <1>5, InLines DEF StackNested
  <2>2. ASSUME NEW i \in 1..Len(Left) PROVE Left[i].last >= row
    <3>1. Left[Len(Left)].last >= row /\ Len(Left) \in 1..Len(Left) /\ i <= Len(Left)
      BY <2>2, InLines
    <3>2. Left[i].last \in Nat /\ Left[Len(Left)].last \in Nat
      <4>1. Left[i] \in Places /\ Left[Len(Left)] \in Places
        BY <3>1, InLines
      <4> QED BY <4>1 DEF Places
    <3>3. i = Len(Left) \/ Left[Len(Left)].last <= Left[i].last
      BY <2>1, <3>1, InLines
    <3> QED BY <3>1, <3>2, <3>3, InLines
  <2>3. ASSUME NEW c \in symbols, IsClass(c), c.last >= row
        PROVE \E i \in 1..Len(Left) : Left[i].first = c.first /\ Left[i].last = c.last
    <3>1. c.last >= row - 1
      BY <2>3, InLines DEF SymbolsOK
    <3> QED BY <1>3, <1>5, <2>3, <3>1, InLines DEF StackNested
  <2> QED BY <2>1, <2>2, <2>3
<1> QED BY <1>1, <1>4, <1>5

\* A symbol that is added is enclosed by the classes left on the stack, and the
\* properties of the others stay as they are.
LEMMA NewSymbol ==
  ASSUME ScanInv, NextRow, NEW kind, NEW end \in row..script.n,
         IsBlockEnd(script, row, end), script.decl[row] # "none",
         symbols' = symbols \cup {Symbol(kind, end, Left)}
  PROVE SymbolsOK' /\ OwnersEnclose'
<1>. DEFINE s == Symbol(kind, end, Left)
<1>1. /\ s.kind = kind /\ s.first = row /\ s.last = end
      /\ s.owners = {Left[i].first : i \in 1..Len(Left)}
  BY InLines DEF Symbol
<1>2. symbols' = symbols \cup {s}
  OBVIOUS
<1>. HIDE DEF s
<1>3. \A o \in s.owners : \E c \in symbols : IsClass(c) /\ c.first = o
  BY <1>1, LeftIsOpen
<1>4. \A c \in symbols : c.first < row /\ c.first \in Nat /\ c.last \in Nat
  BY InLines DEF SymbolsOK
<1>5. SymbolsOK'
  <2>1. \A o \in s.owners : o < s.first
    BY <1>1, <1>3, <1>4
  <2>2. row < row + 1 /\ row <= end /\ end \in 1..script.n
    BY InLines
  <2>3. \A c \in symbols : /\ c.first \in 1..script.n /\ c.last \in 1..script.n
                           /\ c.first < row + 1 /\ c.first <= c.last
                           /\ script.decl[c.first] # "none"
                           /\ IsBlockEnd(script, c.first, c.last)
                           /\ \A o \in c.owners : o < c.first
    BY <1>4, InLines DEF SymbolsOK
  <2>4. \A c \in symbols' : /\ c.first \in 1..script.n /\ c.last \in 1..script.n
                            /\ c.first < row + 1 /\ c.first <= c.last
                            /\ script.decl[c.first] # "none"
                            /\ IsBlockEnd(script, c.first, c.last)
                            /\ \A o \in c.owners : o < c.first
    BY <1>1, <1>2, <2>1, <2>2, <2>3, InLines
  <2>5. script' = script /\ row' = row + 1
    BY InLines
  <2>6. \A c \in symbols' : /\ c.first \in 1..script'.n /\ c.last \in 1..script'.n
                            /\ c.first < row' /\ c.first <= c.last
                            /\ script'.decl[c.first] # "none"
                            /\ IsBlockEnd(script', c.first, c.last)
                            /\ \A o \in c.owners : o < c.first
    BY <2>4, <2>5
  <2> QED BY <2>6 DEF SymbolsOK
<1>6. ASSUME OpensAtOnce(script), NEW t \in symbols', NEW c \in symbols'
      PROVE /\ IsClass(c) /\ c.first < t.first => (c.first \in t.owners <=> t.first <= c.last)
            /\ c.first \in t.owners => c.first < t.first /\ t.last <= c.last
  <2>1. CASE t \in symbols /\ c \in symbols
    BY <1>6, <2>1, InLines DEF OwnersEnclose, IsClass
  <2>2. CASE t = s /\ c = s
    <3>1. c.first = row /\ t.first = row /\ row \in Nat
      BY <1>1, <2>2, InLines
    <3>2. c.first \notin t.owners
      BY <1>3, <1>4, <2>2, <3>1
    <3> QED BY <3>1, <3>2
  <2>3. CASE t \in symbols /\ c = s
    <3>1. t.first < row /\ t.first \in Nat /\ \A o \in t.owners : o < t.first
      BY <2>3, InLines, <1>4 DEF SymbolsOK
    <3>2. ~ (c.first < t.first) /\ c.first \notin t.owners
      BY <1>1, <2>3, <3>1, InLines
    <3> QED BY <3>2
  <2>4. CASE t = s /\ c \in symbols
    <3>1. c.first < t.first /\ t.first = row /\ t.last = end
      BY <1>1, <1>4, <2>4
    <3>2. ASSUME c.first \in t.owners PROVE c.last >= row
      <4>1. PICK i \in 1..Len(Left) : Left[i].first = c.first
        BY <1>1, <2>4, <3>2
      <4>2. PICK d \in symbols : IsClass(d) /\ d.first = c.first /\ Left[i].last = d.last
        BY <4>1, LeftIsOpen
      <4>3. d.last >= row
        BY <1>6, <4>2, LeftIsOpen
      \* The two symbols begin on one line and end by the same braces.
      <4>4. IsBlockEnd(script, d.first, c.last) /\ IsBlockEnd(script, d.first, d.last)
        BY <2>4, <4>2, InLines DEF SymbolsOK
      <4>5. c.last = d.last
        <5>1. CASE Closing(script, d.first) = {}
          BY <4>4, <5>1 DEF IsBlockEnd
        <5>2. CASE Closing(script, d.first) # {}
          <6>1. PICK k \in Closing(script, d.first) :
                       script.at[k] = c.last /\ \A j \in Closing(script, d.first) : k <= j
            BY <4>4, <5>2 DEF IsBlockEnd
          <6>2. PICK m \in Closing(script, d.first) :
                       script.at[m] = d.last /\ \A j \in Closing(script, d.first) : m <= j
            BY <4>4, <5>2 DEF IsBlockEnd
          <6>3. k \in Nat /\ m \in Nat
            BY <6>1, <6>2, InLines, BraceFacts DEF Closing, From
          <6> QED BY <6>1, <6>2, <6>3
        <5> QED BY <5>1, <5>2
      <4> QED BY <4>3, <4>5
    <3>3. ASSUME c.last >= row PROVE end <= c.last
      <4>1. /\ c.first \in 1..script.n /\ c.last \in 1..script.n /\ script.decl[c.first] # "none"
            /\ IsBlockEnd(script, c.first, c.last) /\ c.first < row
        BY <2>4, InLines DEF SymbolsOK
      <4>2. end \in 1..script.n /\ row <= c.last
        BY <3>3, <4>1, InLines
      <4> QED BY <1>6, <4>1, <4>2, InLines, Nested
    <3>4. ASSUME IsClass(c), c.last >= row PROVE c.first \in t.owners
      <4>1. PICK i \in 1..Len(Left) : Left[i].first = c.first
        BY <1>6, <2>4, <3>4, LeftIsOpen
      <4> QED BY <1>1, <2>4, <4>1
    <3>5. t.first <= c.last <=> c.last >= row
      BY <1>4, <2>4, <3>1, InLines
    <3> QED BY <3>1, <3>2, <3>3, <3>4, <3>5
  <2> QED BY <1>2, <2>1, <2>2, <2>3, <2>4
<1>7. OwnersEnclose'
  <2>1. OpensAtOnce(script') => OpensAtOnce(script)
    BY InLines
  <2>2. \A t, c \in symbols' : OpensAtOnce(script) =>
          /\ c.kind = "class" /\ c.first < t.first => (c.first \in t.owners <=> t.first <= c.last)
          /\ c.first \in t.owners => c.first < t.first /\ t.last <= c.last
    BY <1>6 DEF IsClass
  <2> QED BY <2>1, <2>2 DEF OwnersEnclose
<1> QED BY <1>5, <1>7

\* The line declares no class: the stack is what is left of it.
LEMMA StackIsLeft ==
  ASSUME ScanInv, NextRow, classStack' = Left,
         symbols \subseteq symbols', \A c \in symbols' \ symbols : ~ IsClass(c)
  PROVE StackOK' /\ StackNested'
<1>1. row' - 1 = row /\ script' = script
  BY InLines
<1>2. /\ classStack' \in Seq(Places)
      /\ \A i \in 1..Len(classStack') : \E c \in symbols' :
           IsClass(c) /\ classStack'[i].first = c.first /\ classStack'[i].last = c.last
      /\ classStack' # <<>> => classStack'[Len(classStack')].last >= row
  BY InLines, LeftIsOpen
<1>3. ASSUME NEW c \in symbols', IsClass(c), c.last = script.n
      PROVE \E i \in 1..Len(classStack') :
              classStack'[i].first = c.first /\ classStack'[i].last = c.last
  BY <1>3, LeftIsOpen
<1>4. StackOK'
  BY <1>1, <1>2, <1>3 DEF StackOK, OnStack, IsClass
<1>5. ASSUME OpensAtOnce(script)
      PROVE /\ \A i, j \in 1..Len(classStack') :
                 i < j => classStack'[j].last <= classStack'[i].last
            /\ \A i \in 1..Len(classStack') : classStack'[i].last >= row
            /\ \A c \in symbols' : IsClass(c) /\ c.last >= row =>
                 \E i \in 1..Len(classStack') :
                   classStack'[i].first = c.first /\ classStack'[i].last = c.last
  BY <1>5, LeftIsOpen
<1>6. StackNested'
  BY <1>1, <1>5 DEF StackNested, OnStack, IsClass
<1> QED BY <1>4, <1>6

LEMMA ScanClassStep == ScanInv /\ ScanClass => ScanInv'
<1>. SUFFICES ASSUME ScanInv, ScanClass PROVE ScanInv'
  OBVIOUS
<1>1. NextRow /\ script.decl[row] = "class"
  BY DEF ScanClass
<1>2. PICK end \in row..script.n :
        /\ IsBlockEnd(script, row, end)
        /\ symbols' = symbols \cup {Symbol("class", end, Left)}
        /\ classStack' = Append(Left, [first |-> row, last |-> end])
  BY DEF ScanClass
<1>3. SymbolsOK' /\ OwnersEnclose'
  BY <1>1, <1>2, NewSymbol
<1>. DEFINE s == Symbol("class", end, Left)
            top == [first |-> row, last |-> end]
<1>4. /\ IsClass(s) /\ s.first = row /\ s.last = end /\ top.first = row /\ top.last = end
      /\ top \in Places /\ end \in Nat /\ end >= row /\ end <= script.n
  BY <1>1, <1>2, InLines DEF Symbol, IsClass, Places
<1>5. symbols' = symbols \cup {s} /\ classStack' = Append(Left, top)
  BY <1>2
<1>. HIDE DEF s, top
<1>6. /\ classStack' \in Seq(Places) /\ classStack' # <<>>
      /\ Len(classStack') = Len(Left) + 1
      /\ \A i \in 1..Len(Left) : classStack'[i] = Left[i]
      /\ classStack'[Len(Left) + 1] = top
      /\ Len(Left) \in Nat
  BY <1>1, <1>4, <1>5, InLines, AppendProperties
<1>7. \A i \in 1..Len(classStack') : i \in 1..Len(Left) \/ i = Len(Left) + 1
  BY <1>6
<1>8. row' - 1 = row /\ script' = script /\ Len(Left) + 1 \in 1..Len(classStack')
      /\ \A i \in 1..Len(Left) : i \in 1..Len(classStack')
  BY <1>1, <1>6, InLines
<1>9. \A c \in symbols : (\E i \in 1..Len(Left) : Left[i].first = c.first /\ Left[i].last = c.last)
        => \E i \in 1..Len(classStack') : classStack'[i].first = c.first /\ classStack'[i].last = c.last
  BY <1>6, <1>8
<1>10. \E i \in 1..Len(classStack') : classStack'[i].first = s.first /\ classStack'[i].last = s.last
  BY <1>4, <1>6, <1>8
<1>11. StackOK'
  <2>1. \A i \in 1..Len(classStack') : \E c \in symbols' :
          IsClass(c) /\ classStack'[i].first = c.first /\ classStack'[i].last = c.last
    BY <1>1, <1>4, <1>5, <1>6, <1>7, LeftIsOpen
  <2>2. classStack'[Len(classStack')].last >= row
    BY <1>4, <1>6
  <2>3. \A c \in symbols' : IsClass(c) /\ c.last = script.n =>
          \E i \in 1..Len(classStack') : classStack'[i].first = c.first /\ classStack'[i].last = c.last
    BY <1>1, <1>5, <1>9, <1>10, LeftIsOpen
  <2> QED BY <1>6, <1>8, <2>1, <2>2, <2>3 DEF StackOK, OnStack, IsClass
<1>12. StackNested'
  <2>1. SUFFICES ASSUME OpensAtOnce(script)
                 PROVE /\ \A i, j \in 1..Len(classStack') :
                            i < j => classStack'[j].last <= classStack'[i].last
                       /\ \A i \in 1..Len(classStack') : classStack'[i].last >= row
                       /\ \A c \in symbols' : IsClass(c) /\ c.last >= row =>
                            \E i \in 1..Len(classStack') :
                              classStack'[i].first = c.first /\ classStack'[i].last = c.last
    BY <1>8 DEF StackNested, OnStack, IsClass
  <2>2. \A i \in 1..Len(Left) : Left[i].last >= row /\ Left[i].last \in Nat
    <3>1. \A i \in 1..Len(Left) : Left[i] \in Places
      BY <1>1, InLines
    <3> QED BY <1>1, <2>1, <3>1, LeftIsOpen DEF Places
  \* The class starts within each class that is left, and so ends within it.
  <2>3. ASSUME NEW i \in 1..Len(Left) PROVE end <= Left[i].last
    <3>1. PICK c \in symbols : IsClass(c) /\ Left[i].first = c.first /\ Left[i].last = c.last
      BY <1>1, LeftIsOpen
    <3>2. /\ c.first \in 1..script.n /\ c.last \in 1..script.n /\ script.decl[c.first] # "none"
          /\ IsBlockEnd(script, c.first, c.last) /\ c.first < row /\ row <= c.last
      BY <1>1, <2>2, <3>1, InLines DEF SymbolsOK
    <3>3. /\ end \in 1..script.n /\ row \in 1..script.n /\ script.decl[row] # "none"
          /\ IsBlockEnd(script, row, end) /\ script \in Files
      BY <1>1, <1>2, <1>4, InLines
    <3> QED BY <2>1, <3>1, <3>2, <3>3, Nested
  <2>4. \A i, j \in 1..Len(classStack') : i < j => classStack'[j].last <= classStack'[i].last
    <3>1. \A i, j \in 1..Len(Left) : i < j => Left[j].last <= Left[i].last
      BY <1>1, <2>1, LeftIsOpen
    <3> QED BY <1>4, <1>6, <1>7, <2>3, <3>1
  <2>5. \A i \in 1..Len(classStack') : classStack'[i].last >= row
    BY <1>4, <1>6, <1>7, <2>2
  <2>6. \A c \in symbols' : IsClass(c) /\ c.last >= row =>
          \E i \in 1..Len(classStack') : classStack'[i].first = c.first /\ classStack'[i].last = c.last
    BY <1>1, <1>5, <1>9, <1>10, <2>1, LeftIsOpen
  <2> QED BY <2>4, <2>5, <2>6
<1>13. script' \in Files /\ row' \in 1..(script'.n + 1) /\ scan' = "lines"
  BY <1>1, InLines
<1> QED BY <1>3, <1>8, <1>11, <1>12, <1>13 DEF ScanInv

LEMMA ScanDeclarationStep == ScanInv /\ ScanDeclaration => ScanInv'
<1>. SUFFICES ASSUME ScanInv, ScanDeclaration PROVE ScanInv'
  OBVIOUS
<1>1. /\ NextRow /\ script.decl[row] \in {"interface", "enum", "function", "method"}
      /\ classStack' = Left
  BY DEF ScanDeclaration, Declares
<1>2. PICK end \in row..script.n :
        /\ IsBlockEnd(script, row, end)
        /\ symbols' = symbols \cup {Symbol(script.decl[row], end, Left)}
  BY DEF ScanDeclaration
<1>3. SymbolsOK' /\ OwnersEnclose'
  BY <1>1, <1>2, NewSymbol
<1>4. StackOK' /\ StackNested'
  <2>1. ~ IsClass(Symbol(script.decl[row], end, Left))
    BY <1>1 DEF IsClass, Symbol
  <2> QED BY <1>1, <1>2, <2>1, StackIsLeft
<1> QED BY <1>1, <1>3, <1>4, InLines DEF ScanInv

LEMMA ScanOtherStep == ScanInv /\ ScanOther => ScanInv'
<1>. SUFFICES ASSUME ScanInv, ScanOther PROVE ScanInv'
  OBVIOUS
<1>1. NextRow /\ classStack' = Left /\ symbols' = symbols
  BY DEF ScanOther
<1>2. SymbolsOK'
  <2>1. \A c \in symbols : /\ c.first \in 1..script.n /\ c.last \in 1..script.n
                           /\ c.first < row + 1 /\ c.first <= c.last
                           /\ script.decl[c.first] # "none"
                           /\ IsBlockEnd(script, c.first, c.last)
                           /\ \A o \in c.owners : o < c.first
    BY <1>1, InLines DEF SymbolsOK
  <2>2. script' = script /\ row' = row + 1
    BY <1>1, InLines
  <2>3. \A c \in symbols' : /\ c.first \in 1..script'.n /\ c.last \in 1..script'.n
                            /\ c.first < row' /\ c.first <= c.last
                            /\ script'.decl[c.first] # "none"
                            /\ IsBlockEnd(script', c.first, c.last)
                            /\ \A o \in c.owners : o < c.first
    BY <1>1, <2>1, <2>2
  <2> QED BY <2>3 DEF SymbolsOK
<1>3. OwnersEnclose'
  BY <1>1, InLines DEF OwnersEnclose
<1>4. StackOK' /\ StackNested'
  BY <1>1, StackIsLeft
<1> QED BY <1>1, <1>2, <1>3, <1>4, InLines DEF ScanInv

\* The scan is left as it is, but for how it is called.
LEMMA ScanKept ==
  ASSUME ScanInv, script' = script, row' = row, classStack' = classStack, symbols' = symbols,
         scan # "idle"
  PROVE SymbolsOK' /\ StackOK' /\ StackNested' /\ OwnersEnclose'
<1>1. SymbolsOK /\ StackOK /\ StackNested /\ OwnersEnclose
  BY DEF ScanInv
<1>2. SymbolsOK'
  BY <1>1 DEF SymbolsOK
<1>3. StackOK'
  BY <1>1 DEF StackOK, OnStack
<1>4. StackNested'
  BY <1>1 DEF StackNested, OnStack
<1>5. OwnersEnclose'
  BY <1>1 DEF OwnersEnclose
<1> QED BY <1>2, <1>3, <1>4, <1>5

LEMMA EndScanStep == ScanInv /\ EndScan => ScanInv'
<1>. SUFFICES ASSUME ScanInv, EndScan PROVE ScanInv'
  OBVIOUS
<1>1. /\ scan = "lines" /\ row > script.n /\ scan' = "scanned" /\ mismatch' = (classStack # <<>>)
      /\ script' = script /\ row' = row /\ classStack' = classStack /\ symbols' = symbols
  BY DEF EndScan
<1>2. script \in Files /\ script.n \in Nat /\ row \in 1..(script.n + 1)
  BY <1>1, BraceFacts DEF ScanInv
<1>3. SymbolsOK' /\ StackOK' /\ StackNested' /\ OwnersEnclose'
  BY <1>1, ScanKept
<1>4. row' = script'.n + 1
  BY <1>1, <1>2
<1>5. mismatch' <=> classStack' # <<>>
  BY <1>1, Zenon
<1> QED BY <1>1, <1>2, <1>3, <1>4, <1>5 DEF ScanInv

LEMMA OpenScriptStep ==
  ASSUME ScanInv, NEW f \in Files, OpenScript(f)
  PROVE ScanInv'
<1>1. /\ script' = f /\ scan' = "lines" /\ row' = 1 /\ classStack' = <<>> /\ symbols' = {}
      /\ f.n \in Nat
  BY BraceFacts DEF OpenScript
<1>2. SymbolsOK' /\ StackNested' /\ OwnersEnclose'
  BY <1>1 DEF SymbolsOK, StackNested, OwnersEnclose
<1>3. StackOK'
  BY <1>1 DEF StackOK
<1> QED BY <1>1, <1>2, <1>3 DEF ScanInv

LEMMA ScanStays == ScanInv /\ UNCHANGED scanVars => ScanInv'
<1>. SUFFICES ASSUME ScanInv, UNCHANGED scanVars PROVE ScanInv'
  OBVIOUS
<1>1. /\ script' = script /\ scan' = scan /\ row' = row /\ classStack' = classStack
      /\ symbols' = symbols /\ mismatch' = mismatch
  BY DEF scanVars
<1>2. CASE scan = "idle"
  BY <1>1, <1>2 DEF ScanInv
<1>3. CASE scan # "idle"
  <2>1. SymbolsOK' /\ StackOK' /\ StackNested' /\ OwnersEnclose'
    BY <1>1, <1>3, ScanKept
  <2> QED BY <1>1, <1>3, <2>1 DEF ScanInv
<1> QED BY <1>2, <1>3

LEMMA ScanInitInv == ScanInit => ScanInv
BY DEF ScanInit, ScanInv

LEMMA DropScriptStep == ScanInv /\ DropScript => ScanInv'
BY DEF DropScript, ScanInv

LEMMA ScanStep == ScanInv /\ [ScanNext]_scanVars => ScanInv'
BY ScanClassStep, ScanDeclarationStep, ScanOtherStep, EndScanStep, OpenScriptStep, DropScriptStep,
   ScanStays DEF ScanNext, Scan

LEMMA ScanInvariant == ScanSpec => []ScanInv
BY ScanInitInv, ScanStep, PTL DEF ScanSpec

LEMMA InvOwners == ScanInv => OwnersEnclose
BY DEF ScanInv, OwnersEnclose

LEMMA InvMismatch == ScanInv => MismatchMeansOpenEnd
<1>. SUFFICES ASSUME ScanInv, scan = "scanned"
              PROVE mismatch <=> \E c \in symbols : c.kind = "class" /\ c.last = script.n
  BY DEF MismatchMeansOpenEnd
<1>1. /\ script.n \in Nat /\ row = script.n + 1 /\ (mismatch <=> classStack # <<>>)
      /\ SymbolsOK /\ StackOK
  BY BraceFacts DEF ScanInv
<1>2. ASSUME classStack # <<>> PROVE \E c \in symbols : c.kind = "class" /\ c.last = script.n
  <2>1. Len(classStack) \in 1..Len(classStack)
    BY <1>1, <1>2, EmptySeq DEF StackOK
  <2>2. PICK c \in symbols : IsClass(c) /\ classStack[Len(classStack)].last = c.last
    BY <1>1, <2>1 DEF StackOK
  <2>3. c.last >= script.n /\ c.last \in 1..script.n
    BY <1>1, <1>2, <2>2 DEF StackOK, SymbolsOK
  <2> QED BY <1>1, <2>2, <2>3 DEF IsClass
<1>3. ASSUME NEW c \in symbols, c.kind = "class", c.last = script.n PROVE classStack # <<>>
  <2>1. PICK i \in 1..Len(classStack) : classStack[i].last = c.last
    BY <1>1, <1>3 DEF StackOK, OnStack, IsClass
  <2> QED BY <1>1, <2>1 DEF StackOK
<1> QED BY <1>1, <1>2, <1>3

\* Symbols are named by the classes that enclose them, for every script whose
\* declarations open their blocks at once (_collect_javascript_like).
THEOREM OwnersAreAround == ScanSpec => []OwnersEnclose
BY ScanInvariant, InvOwners, PTL

LEMMA InvUnclosed == ScanInv => UnclosedIsReported
<1>. SUFFICES ASSUME ScanInv, scan = "scanned", NEW c \in symbols, c.kind = "class",
                     Closing(script, c.first) = {}
              PROVE mismatch
  BY DEF UnclosedIsReported
<1>1. IsBlockEnd(script, c.first, c.last)
  BY DEF ScanInv, SymbolsOK
<1>2. c.last = script.n
  BY <1>1 DEF IsBlockEnd
<1> QED BY <1>2, InvMismatch DEF MismatchMeansOpenEnd

\* A class that is never closed is recorded, for every script, whatever else is
\* open or unbalanced in it (_collect_javascript_like).
THEOREM UnclosedAreReported == ScanSpec => []UnclosedIsReported
BY ScanInvariant, InvUnclosed, PTL

\* Which classes are recorded, exactly: a mismatch stands for a class that reaches
\* to the last line of its script, balanced or not (_collect_javascript_like).
THEOREM MismatchIsOpenEnd == ScanSpec => []MismatchMeansOpenEnd
BY ScanInvariant, InvMismatch, PTL

\* How many turns are left of a scan.
ScanLeft == IF scan = "lines" THEN script.n + 2 - row ELSE 0

LEMMA ScanLeftIsNumber == ScanInv => ScanLeft \in Nat
<1>. SUFFICES ASSUME ScanInv, scan = "lines" PROVE ScanLeft \in Nat
  BY DEF ScanLeft
<1>1. script \in Files /\ row \in 1..(script.n + 1)
  BY DEF ScanInv
<1>2. script.n \in Nat
  BY <1>1, BraceFacts
<1> QED BY <1>1, <1>2 DEF ScanLeft

LEMMA ScanTurns ==
  ASSUME ScanInv, Scan
  PROVE ScanLeft' < ScanLeft
<1>1. script \in Files /\ row \in 1..(script.n + 1) /\ scan = "lines"
  BY DEF ScanInv, Scan, ScanClass, ScanDeclaration, ScanOther, NextRow, EndScan
<1>2. script.n \in Nat
  BY <1>1, BraceFacts
<1>3. CASE NextRow
  BY <1>1, <1>2, <1>3 DEF NextRow, ScanLeft
<1>4. CASE EndScan
  BY <1>1, <1>2, <1>4 DEF EndScan, ScanLeft
<1> QED BY <1>3, <1>4 DEF Scan, ScanClass, ScanDeclaration, ScanOther

=============================================================================
