---------------------------- MODULE MCDocuments -----------------------------
(* Instances of Documents for TLC: all short texts, scripts and modules.   *)
EXTENDS Documents

CONSTANTS r1, r2, TextLines, ScriptLines

\* Ends of lines of the given sizes.
EndsOf(sizes) ==
  LET end[i \in 0..Len(sizes)] == IF i = 0 THEN 0 ELSE end[i - 1] + sizes[i] IN end

Lines(n, kinds) == UNION {[1..k -> kinds] : k \in 0..n}

\* A file of plain lines; a line is blank, short, long or a heading.
PlainFile(language, content, ls, ranges) ==
  [name |-> "a", language |-> language, content |-> content, parses |-> TRUE,
   n |-> Len(ls), ranges |-> ranges, says |-> ls,
   blank |-> [i \in 1..Len(ls) |-> ls[i] = "blank"],
   heading |-> [i \in 1..Len(ls) |-> ls[i] = "heading"],
   ends |-> EndsOf([i \in 1..Len(ls) |-> IF ls[i] = "long" THEN 3
                                         ELSE IF ls[i] = "blank" THEN 1 ELSE 2]),
   braces |-> 0, at |-> <<>>, depth |-> [k \in 0..0 |-> 0],
   decl |-> [i \in 1..Len(ls) |-> "none"], imports |-> [i \in 1..Len(ls) |-> FALSE],
   nodes |-> <<>>]

TextKinds == {"blank", "short", "long", "heading"}

MarkdownFiles ==
  {PlainFile("markdown", "text", ls, Len(ls)) : ls \in Lines(TextLines, TextKinds)}
WindowFiles ==
  {PlainFile("other", "text", ls, Len(ls)) : ls \in Lines(TextLines + 1, {"blank", "short"})}

\* Files with a form feed, of white space, with a NUL, and binary ones.
OddFiles ==
  {PlainFile(lang, c, <<"short", "blank", "short">>, ranges) :
     lang \in {"markdown", "other"}, c \in {"text", "lateNul", "binary"}, ranges \in {1, 3}}
    \cup {PlainFile("markdown", "space", <<"blank">>, 1), PlainFile("python", "text", <<>>, 0)}
    \cup {[PlainFile("config", "text", <<"short">>, 1) EXCEPT !.parses = b] : b \in BOOLEAN}

\* A line of a script: what it declares and the braces on it.
Line(decl, braces) == [decl |-> decl, braces |-> braces]
Open == 1
Shut == -1

ScriptKinds ==
  {Line("class", <<Open>>), Line("class", <<Open, Shut>>), Line("method", <<Open>>),
   Line("method", <<Open, Shut>>), Line("none", <<Shut>>)}

\* The braces of a script in a row: the line of each and the depth it leaves.
AllBraces(ls) ==
  LET all[i \in 0..Len(ls)] ==
        IF i = 0 THEN <<>>
        ELSE all[i - 1] \o [k \in DOMAIN ls[i].braces |-> [on |-> i, way |-> ls[i].braces[k]]]
  IN all[Len(ls)]

DepthOf(bs) ==
  LET depth[k \in 0..Len(bs)] == IF k = 0 THEN 0 ELSE depth[k - 1] + bs[k].way IN depth

ScriptFile(ls) ==
  LET bs == AllBraces(ls)
      plain == PlainFile("script", "text", [i \in 1..Len(ls) |-> "short"], Len(ls))
  IN [plain EXCEPT !.braces = Len(bs), !.at = [k \in 1..Len(bs) |-> bs[k].on],
                   !.depth = DepthOf(bs),
                   !.decl = [i \in 1..Len(ls) |-> ls[i].decl],
                   !.says = [i \in 1..Len(ls) |-> ls[i].decl]]

ScriptFiles == {ScriptFile(ls) : ls \in Lines(ScriptLines, ScriptKinds)}

\* A script with an import, one without a class, one with a class in a class and
\* what follows it, and one with a class that has no brace on its line.
MoreScripts ==
  {ScriptFile(<<Line("class", <<Open>>), Line("class", <<Open>>), Line("none", <<Shut>>),
                Line("method", <<Open, Shut>>), Line("none", <<Shut>>), Line("method", <<Open>>)>>),
   [ScriptFile(<<Line("none", <<>>), Line("class", <<Open, Shut>>)>>)
      EXCEPT !.imports = [i \in 1..2 |-> i = 1]],
   ScriptFile(<<Line("class", <<Open>>), Line("class", <<>>), Line("none", <<Shut, Open>>),
                Line("none", <<Shut>>), Line("method", <<Open, Shut>>)>>),
   ScriptFile(<<Line("function", <<Open>>), Line("interface", <<Open, Shut>>),
                Line("none", <<Shut>>), Line("enum", <<>>)>>)}

Node(kind, up, a, b, names) == [kind |-> kind, up |-> up, first |-> a, last |-> b, names |-> names]

PythonFile(nodes) == [PlainFile("python", "text", [i \in 1..3 |-> "short"], 3) EXCEPT !.nodes = nodes]

\* A class with a method and a nested class, and a function in a branch.
SoundModules ==
  {PythonFile(<<Node("import", {}, 1, 1, <<1, 2>>), Node("constant", {}, 2, 2, <<3>>),
                Node("class", {}, 3, 3, <<4>>), Node("function", {3}, 3, 3, <<5>>)>>),
   PythonFile(<<Node("class", {}, 1, 3, <<1>>), Node("class", {1}, 2, 3, <<2>>),
                Node("function", {1, 2}, 3, 3, <<3>>), Node("other", {}, 3, 3, <<>>),
                Node("function", {4}, 3, 3, <<4>>)>>),
   [PythonFile(<<>>) EXCEPT !.parses = FALSE]}

\* Two names for one value, two statements on a line, one name imported twice.
CollidingModules ==
  {PythonFile(<<Node("constant", {}, 1, 1, <<1, 2>>)>>),
   PythonFile(<<Node("constant", {}, 1, 1, <<1>>), Node("constant", {}, 1, 1, <<2>>)>>),
   PythonFile(<<Node("import", {}, 1, 1, <<1, 1>>)>>)}

MixedFiles == OddFiles \cup MoreScripts \cup SoundModules \cup CollidingModules

\* Files that come second.
SecondFiles == {[f EXCEPT !.name = "b"] : f \in {PythonFile(<<>>), ScriptFile(<<>>)}}

\* Two texts and a module.
ShortFile == PlainFile("other", "text", <<"short">>, 1)
LongFile == PlainFile("other", "text", <<"short", "short">>, 2)
ImportFile == PythonFile(<<Node("import", {}, 1, 1, <<1>>)>>)

AllFiles ==
  MarkdownFiles \cup WindowFiles \cup ScriptFiles \cup MixedFiles \cup SecondFiles
    \cup {ShortFile, LongFile, ImportFile}

Pairs ==
  LET odd == {f \in OddFiles : f.language = "other"}
      second(lang) == CHOOSE f \in SecondFiles : f.language = lang
  IN {<<f, second("python")>> : f \in odd} \cup {<<f, second("script")>> : f \in CollidingModules}

\* Files whose paths differ in a slash only.
SlashPairs == {<<ShortFile, ShortFile>>, <<ShortFile, LongFile>>, <<ImportFile, ImportFile>>}

\* Those of the files that may not be read: texts and binary ones, the only file
\* of their commit or the first of two.
UnsafeFiles == OddFiles \cup {ShortFile, ImportFile}

\* Every file by itself, and some pairs of different ones.
AllTrees == {<<f>> : f \in AllFiles} \cup Pairs \cup SlashPairs

\* The second run matters to the tables, not to how a file is cut or scanned: the
\* bulk of the files is left to the first.
SecondRunOfFew ==
  run = r2 \/ passed[r2] # {} => \A p \in Paths : tree[p] \in MixedFiles \cup SecondFiles
                                                       \cup {ShortFile, LongFile, ImportFile}

PythonFiles == SoundModules \cup CollidingModules

PythonTrees == {<<f>> : f \in PythonFiles}

Setting(size, symbol, n, overlap) ==
  [maxChars |-> size, maxSymbol |-> symbol, chunkLines |-> n, overlap |-> overlap]

\* Windows that overlap, and an overlap as long as a window; symbols of all
\* sizes and of six characters.
AllSettings == {Setting(4, 100, 3, 1), Setting(5, 6, 2, 2)}

=============================================================================
