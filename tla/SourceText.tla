----------------------------- MODULE SourceText -----------------------------
(***************************************************************************)
(* The files of a snapshot as the normalize and syntax stages of the       *)
(* pipeline see them, and the settings that govern how they are cut.       *)
(*                                                                         *)
(* A file is a record.  Its text has lines 1..f.n, by Python's             *)
(* str.splitlines; a line is blank or not, may be a Markdown heading, may  *)
(* start a declaration of a script, and ends after f.ends[line]            *)
(* characters, so that f.ends[b] - f.ends[a - 1] is the size of the lines  *)
(* a..b with their line ends.  str.splitlines also splits at form feeds    *)
(* and at Unicode separators; f.ranges counts the lines that newlines and  *)
(* carriage returns make of the same text.  The braces of a script are     *)
(* numbered: brace k stands on line f.at[k] and leaves the nesting depth   *)
(* at f.depth[k].  A Python file has f.nodes, its statements.  f.says is   *)
(* the text of each line, and f.name the path as normalize_path writes it: *)
(* with a slash for each backslash, so that two files may have one name.   *)
(***************************************************************************)
EXTENDS Integers, Sequences, FiniteSets

CONSTANTS
  Files,     \* the files that may occur
  Settings   \* the settings that a deployment may choose

Contents == {"text", "space", "lateNul", "binary"}

Languages == {"markdown", "script", "python", "config", "other"}

DeclKinds == {"class", "interface", "enum", "function", "method"}

ASSUME FilesAssumption ==
  \A f \in Files :
    /\ f.language \in Languages /\ f.content \in Contents
    /\ f.parses \in BOOLEAN
    /\ f.n \in Nat /\ f.ranges \in Nat /\ f.ranges <= f.n
    /\ f.blank \in [1..f.n -> BOOLEAN]
    /\ f.heading \in [1..f.n -> BOOLEAN]
    /\ \A i \in 1..f.n : f.heading[i] => ~ f.blank[i]
    /\ DOMAIN f.says = 1..f.n
    /\ f.ends \in [0..f.n -> Nat]
    /\ \A i, j \in 0..f.n : i < j => f.ends[i] < f.ends[j]

ASSUME SettingsAssumption ==
  \A s \in Settings :
    /\ s.maxChars \in Nat /\ s.maxSymbol \in Nat
    /\ s.chunkLines \in Nat \ {0} /\ s.overlap \in Nat

\* The braces of a script, line by line.
ASSUME BracesAssumption ==
  \A f \in Files :
    /\ f.braces \in Nat
    /\ f.at \in [1..f.braces -> 1..f.n]
    /\ \A j, k \in 1..f.braces : j <= k => f.at[j] <= f.at[k]
    /\ f.depth \in [0..f.braces -> Int]
    /\ \A k \in 1..f.braces : f.depth[k] \in {f.depth[k - 1] - 1, f.depth[k - 1] + 1}
    /\ f.decl \in [1..f.n -> DeclKinds \cup {"none"}]
    /\ f.imports \in [1..f.n -> BOOLEAN]

\* The statements of a Python file: f.nodes[i].up are the statements around the
\* i-th, names the names that it binds.
ASSUME NodesAssumption ==
  \A f \in Files : \A i \in DOMAIN f.nodes :
    LET node == f.nodes[i] IN
    /\ node.kind \in {"class", "function", "constant", "import", "other"}
    /\ node.up \subseteq DOMAIN f.nodes
    /\ node.first \in Nat /\ node.last \in Nat
    /\ 1 <= node.first /\ node.first <= node.last /\ node.last <= f.n

\* Characters of the lines a..b, each with one for its end.
Size(f, a, b) == f.ends[b] - f.ends[a - 1]

\* decode_file: a file of white space is binary, a NUL behind the first 8 KiB is
\* not looked for.
NormalizeReads(f) == f.content \in {"text", "lateNul"}

\* _decode_text: a NUL anywhere makes the file binary, white space is text.
SyntaxReads(f) == f.content \in {"text", "space"}

=============================================================================
