----------------------------- MODULE UnifiedDiff -----------------------------
(***************************************************************************)
(* parseUnifiedDiff, which the diff viewer numbers its lines with, against *)
(* the edit script the diff was made from.  A line of a patch is what the  *)
(* parser looks at: its prefix and, for a hunk's header, the two numbers.  *)
(***************************************************************************)
EXTENDS Integers, SequencesExt, Listings

MetaPrefixes == {"diff ", "index ", "---", "+++"}

None == -1          \* a line has no number in this column

Line(prefix) == [prefix |-> prefix, old |-> None, new |-> None]

DiffLine(kind, prefix, old, new) == [kind |-> kind, prefix |-> prefix, old |-> old, new |-> new]

EmptyParse ==
  [ok |-> FALSE, lines |-> <<>>, oldLine |-> 0, newLine |-> 0, additions |-> 0, deletions |-> 0]

Shown(parsed, line) == [parsed EXCEPT !.lines = Append(@, line)]

(* Broken variant: only the first hunk's header sets the numbers.          *)
StartHunkOnce(parsed, text) ==
  IF parsed.ok THEN parsed ELSE [parsed EXCEPT !.ok = TRUE, !.oldLine = text.old, !.newLine = text.new]

(* A hunk's header; "ok" is sawHunk.                                       *)
StartHunk(parsed, text) == [parsed EXCEPT !.ok = TRUE, !.oldLine = text.old, !.newLine = text.new]

(* One iteration of the loop.                                              *)
ParseLine(parsed, text) ==
  LET shown(kind, old, new) == Shown(parsed, DiffLine(kind, text.prefix, old, new))
  IN  CASE text.prefix = "@@" -> StartHunk(shown("hunk", None, None), text)
        [] text.prefix # "@@" /\ (~parsed.ok \/ text.prefix \in MetaPrefixes) -> shown("meta", None, None)
        [] parsed.ok /\ text.prefix = "+"
             -> [shown("add", None, parsed.newLine) EXCEPT !.additions = @ + 1, !.newLine = @ + 1]
        [] parsed.ok /\ text.prefix = "-"
             -> [shown("remove", parsed.oldLine, None) EXCEPT !.deletions = @ + 1, !.oldLine = @ + 1]
        [] parsed.ok /\ text.prefix \notin MetaPrefixes \cup {"@@", "+", "-"}
             -> [shown("context", parsed.oldLine, parsed.newLine) EXCEPT
                   !.oldLine = @ + 1, !.newLine = @ + 1]

ParseUnifiedDiff(patch) == FoldLeft(ParseLine, EmptyParse, patch)

-----------------------------------------------------------------------------
(* What a diff means: the lines of two files as one edit script.  "skip"   *)
(* is a line of both that is in no hunk, "keep" one that is.  "add++" is   *)
(* an added line that begins with "++", "remove--" a removed one that      *)
(* begins with "--": in the patch they begin with "+++" and "---".  After  *)
(* the last line of a file that does not end in a newline git puts a note, *)
(* "unended", that is a line of neither file.                              *)
Edits == {"skip", "keep", "add", "remove", "add++", "remove--", "unended"}

InOld(edit) == edit \in {"skip", "keep", "remove", "remove--"}

InNew(edit) == edit \in {"skip", "keep", "add", "add++"}

(* The note follows the last line that a hunk has of some file.            *)
IsScript(script) ==
  \A n \in DOMAIN script :
    script[n] = "unended" =>
      /\ n > 1 /\ script[n - 1] \notin {"skip", "unended"}
      /\ \A i \in n + 1..Len(script) : /\ InOld(script[n - 1]) => ~InOld(script[i])
                                       /\ InNew(script[n - 1]) => ~InNew(script[i])

(* Where the n-th line of the script stands in the old and the new file.   *)
OldNumber(script, n) == 1 + Cardinality({i \in 1..n - 1 : InOld(script[i])})

NewNumber(script, n) == 1 + Cardinality({i \in 1..n - 1 : InNew(script[i])})

(* The hunk that begins at n, or what is left of it there.  Its header     *)
(* gives for a side without lines the line before.                         *)
HunkFrom(script, n) == {i \in n..Len(script) : \A j \in n..i : script[j] # "skip"}

Hunk(script, n) ==
  LET hunk == HunkFrom(script, n)
  IN  [prefix |-> "@@",
       old |-> OldNumber(script, n) - (IF \E i \in hunk : InOld(script[i]) THEN 0 ELSE 1),
       new |-> NewNumber(script, n) - (IF \E i \in hunk : InNew(script[i]) THEN 0 ELSE 1)]

Prefix(edit) ==
  CASE edit = "keep"     -> " "
    [] edit = "add"      -> "+"
    [] edit = "remove"   -> "-"
    [] edit = "add++"    -> "+++"
    [] edit = "remove--" -> "---"
    [] edit = "unended"  -> "\\"

(* The patch of one file.  Its last newline gives split an empty line      *)
(* more, as does the newline that patchForRenderItem joins it to the next  *)
(* patch with.                                                             *)
LinesOf(script, n) ==
  IF script[n] = "skip" THEN <<>>
  ELSE (IF n = 1 \/ script[n - 1] = "skip" THEN <<Hunk(script, n)>> ELSE <<>>)
       \o <<Line(Prefix(script[n]))>>

PatchOf(script) ==
  <<Line("diff "), Line("index "), Line("---"), Line("+++")>>
  \o FlattenSeq([n \in DOMAIN script |-> LinesOf(script, n)]) \o <<Line("")>>

-----------------------------------------------------------------------------
(* The rows the viewer shows for the script.  The parser takes "add++" and *)
(* "remove--" for headers of a file, which have no number, and the note    *)
(* for a line of both files: the numbers of the rest of their hunk are off *)
(* by that much.                                                           *)
HunkBefore(script, n) == {i \in 1..n - 1 : \A j \in i..n - 1 : script[j] # "skip"}

Before(script, n, edit) == Cardinality({i \in HunkBefore(script, n) : script[i] = edit})

OldShown(script, n) ==
  OldNumber(script, n) - Before(script, n, "remove--") + Before(script, n, "unended")

NewShown(script, n) ==
  NewNumber(script, n) - Before(script, n, "add++") + Before(script, n, "unended")

RowOf(script, n) ==
  CASE script[n] = "keep"   -> <<DiffLine("context", " ", OldShown(script, n), NewShown(script, n))>>
    [] script[n] = "add"    -> <<DiffLine("add", "+", None, NewShown(script, n))>>
    [] script[n] = "remove" -> <<DiffLine("remove", "-", OldShown(script, n), None)>>
    [] script[n] \in {"skip", "add++", "remove--", "unended"} -> <<>>

RowsOf(script) == FlattenSeq([n \in DOMAIN script |-> RowOf(script, n)])

(* A line of a file.  The viewer shows the note and an empty line after a  *)
(* hunk, which are no lines of a file, as context lines.                   *)
IsRow(line) == line.kind \in {"context", "add", "remove"} /\ line.prefix \notin {"", "\\"}

Numbered(lines) == Kept(lines, {i \in DOMAIN lines : IsRow(lines[i])})

CountOf(rows, kind) == Cardinality({i \in DOMAIN rows : rows[i].kind = kind})
=============================================================================
