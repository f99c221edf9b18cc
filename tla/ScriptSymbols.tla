--------------------------- MODULE ScriptSymbols ----------------------------
(***************************************************************************)
(* How the syntax stage finds the declarations of a JavaScript or          *)
(* TypeScript file (pipeline/analyzers/tree_sitter.py,                     *)
(* _collect_javascript_like): one pass over the lines, with regular        *)
(* expressions for the declarations, braces counted to find their ends,    *)
(* and a stack of the classes that the line is thought to stand in.        *)
(***************************************************************************)
EXTENDS SourceText

VARIABLES
  script,     \* the file that is scanned, NoScript between files
  scan,       \* idle, lines, or scanned (done)
  row,        \* the line the loop looks at next
  classStack, \* class_stack, without the names: first and last lines
  symbols,    \* the declarations found so far
  imported,   \* the lines of the imports found so far
  mismatch    \* a brace_mismatch has been recorded

NoScript == [none |-> TRUE]

scanVars == <<script, scan, row, classStack, symbols, imported, mismatch>>

ScanInit ==
  /\ script = NoScript /\ scan = "idle" /\ row = 0
  /\ classStack = <<>> /\ symbols = {} /\ imported = {} /\ mismatch = FALSE

OpenScript(f) ==
  /\ scan = "idle"
  /\ script' = f /\ scan' = "lines" /\ row' = 1
  /\ classStack' = <<>> /\ symbols' = {} /\ imported' = {} /\ mismatch' = FALSE

\* The braces of a file from a line on.
Before(f, l) == {k \in 1..f.braces : f.at[k] < l}
From(f, l) == (1..f.braces) \ Before(f, l)

Up(f, k) == f.depth[k] > f.depth[k - 1]

DepthBefore(f, l) ==
  IF From(f, l) = {} THEN 0
  ELSE f.depth[(CHOOSE k \in From(f, l) : \A j \in From(f, l) : k <= j) - 1]

\* _match_brace_block: the closing braces that may end a block that starts at
\* the line.  A brace that closes before any has been opened is only counted.
Closing(f, l) ==
  {k \in From(f, l) :
    /\ ~ Up(f, k) /\ f.depth[k] <= DepthBefore(f, l)
    /\ \E j \in From(f, l) : j < k /\ Up(f, j)}

\* The first of them ends the block; without one it runs to the end of the file.
IsBlockEnd(f, l, end) ==
  IF Closing(f, l) = {} THEN end = f.n
  ELSE \E k \in Closing(f, l) :
         f.at[k] = end /\ \A j \in Closing(f, l) : k <= j

\* Mutant: the class that ends on the line before is still on the stack.
PoppedLate(l) ==
  CHOOSE i \in 0..Len(classStack) :
    /\ i > 0 => classStack[i].last >= l - 1
    /\ \A j \in (i + 1)..Len(classStack) : classStack[j].last < l - 1

\* Mutant: a class is off the stack on its last line already, so that one that
\* ends with the file is not taken for open.
PoppedEarly(l) ==
  CHOOSE i \in 0..Len(classStack) :
    /\ i > 0 => classStack[i].last > l
    /\ \A j \in (i + 1)..Len(classStack) : classStack[j].last <= l

\* while class_stack and class_stack[-1][2] < line_no: class_stack.pop()
\* The number of classes that are left on the stack.
Popped(l) ==
  CHOOSE i \in 0..Len(classStack) :
    /\ i > 0 => classStack[i].last >= l
    /\ \A j \in (i + 1)..Len(classStack) : classStack[j].last < l

Left == SubSeq(classStack, 1, Popped(row))

\* A declaration is named by the classes on the stack (current_prefix).
Symbol(kind, end, stack) ==
  [kind |-> kind, first |-> row, last |-> end,
   owners |-> {stack[i].first : i \in DOMAIN stack}]

NextRow ==
  /\ scan = "lines" /\ row <= script.n
  /\ imported' = IF script.imports[row] THEN imported \cup {row} ELSE imported
  /\ row' = row + 1
  /\ UNCHANGED <<script, scan, mismatch>>

ScanClass ==
  /\ NextRow
  /\ script.decl[row] = "class"
  /\ \E end \in row..script.n :
       /\ IsBlockEnd(script, row, end)
       /\ symbols' = symbols \cup {Symbol("class", end, Left)}
       /\ classStack' = Append(Left, [first |-> row, last |-> end])

\* What looks like a method is one only inside of a class.
Declares(l) ==
  \/ script.decl[l] \in {"interface", "enum", "function"}
  \/ script.decl[l] = "method" /\ Left # <<>>

ScanDeclaration ==
  /\ NextRow
  /\ Declares(row)
  /\ \E end \in row..script.n :
       /\ IsBlockEnd(script, row, end)
       /\ symbols' = symbols \cup {Symbol(script.decl[row], end, Left)}
  /\ classStack' = Left

ScanOther ==
  /\ NextRow
  /\ script.decl[row] # "class" /\ ~ Declares(row)
  /\ classStack' = Left
  /\ UNCHANGED symbols

\* Behind the last line nothing is popped any more: a class that is left there is
\* recorded as a brace_mismatch, an "Unbalanced class block".
EndScan ==
  /\ scan = "lines" /\ row > script.n
  /\ mismatch' = (classStack # <<>>)
  /\ scan' = "scanned"
  /\ UNCHANGED <<script, row, classStack, symbols, imported>>

Scan == ScanClass \/ ScanDeclaration \/ ScanOther \/ EndScan

\* The symbols are taken over, or the process is killed in the middle of a file.
DropScript ==
  /\ script' = NoScript /\ scan' = "idle" /\ row' = 0
  /\ classStack' = <<>> /\ symbols' = {} /\ imported' = {} /\ mismatch' = FALSE

ScanNext == (\E f \in Files : OpenScript(f)) \/ Scan \/ DropScript

ScanSpec == ScanInit /\ [][ScanNext]_scanVars

-----------------------------------------------------------------------------
(* Properties.                                                             *)

\* Every declaration of the file opens its block on its own line, before it
\* closes any other.
OpensAtOnce(f) ==
  \A l \in 1..f.n :
    f.decl[l] # "none" =>
      \E k \in From(f, l) : f.at[k] = l /\ Up(f, k) /\ \A j \in From(f, l) : k <= j

\* A declaration is named by the classes that enclose it, by all of them and by
\* no other, and lies within them, although ends are found by counting braces
\* and the stack is only popped from the top (_collect_javascript_like).
OwnersEnclose ==
  scan # "idle" /\ OpensAtOnce(script) =>
    \A s, c \in symbols :
      /\ c.kind = "class" /\ c.first < s.first =>
           (c.first \in s.owners <=> s.first <= c.last)
      /\ c.first \in s.owners => c.first < s.first /\ s.last <= c.last

\* A class whose block is never closed is recorded as a mismatch, wherever it
\* stands and whatever is put on the stack, or taken from it, behind it
\* (_collect_javascript_like).
UnclosedIsReported ==
  scan = "scanned" =>
    \A c \in symbols : c.kind = "class" /\ Closing(script, c.first) = {} => mismatch

\* What is recorded besides.  A mismatch says no more than that a class reaches to
\* the last line of the file.  This is not what the message of the code says, an
\* "Unbalanced class block": a class whose closing brace is on the last line is
\* recorded too, as nothing pops it (_collect_javascript_like).
MismatchMeansOpenEnd ==
  scan = "scanned" =>
    (mismatch <=> \E c \in symbols : c.kind = "class" /\ c.last = script.n)

=============================================================================
