--------------------------- MODULE MCDocumentLoop ---------------------------
(***************************************************************************)
(* A small instance of the loops for TLC: versions of a question and its   *)
(* answer, with and without a session and a creation time, the answer's    *)
(* calls and reasoning, a text that makes the question an injected one,    *)
(* files with and without a name, models, and data the page refuses.       *)
(***************************************************************************)
EXTENDS DocumentViews

CONSTANTS s1, m1, m2, p1, p2, p3, c1, f1, v1, n1, text, other

Of(type, data) == [type |-> type, data |-> data]

(* The ids of the two messages differ only in their case.                  *)
MCSlug(id) == IF id = m2 THEN m1 ELSE id

MCInputs ==
  {Of("message", [id |-> m1, role |-> "user", text |-> text, created |-> 7]),
   Of("message", [id |-> m1, role |-> "user", text |-> other, completed |-> 2]),
   Of("message", [id |-> m2, role |-> "assistant", sessionID |-> s1, parentID |-> m1, created |-> 5]),
   Of("message", [id |-> m2, role |-> "system", created |-> 7]),
   Of("message", [text |-> text]),
   Of("part", [id |-> p1, messageID |-> m1, type |-> "text", text |-> other]),
   Of("part", [id |-> p1, messageID |-> m2, type |-> "tool", callID |-> c1, output |-> text]),
   Of("part", [id |-> p1, messageID |-> m2, type |-> "tool", callID |-> c1, output |-> Empty, end |-> 3]),
   Of("part", [id |-> p2, messageID |-> m2, type |-> "tool-call", tool |-> "task"]),
   Of("part", [id |-> p2, messageID |-> m1, type |-> "tool"]),
   Of("part", [id |-> p3, messageID |-> m2, type |-> "reasoning"]),
   Of("part", [id |-> p1, messageID |-> m1]),
   Of("session", [title |-> text, updated |-> 2, parentID |-> s1]),
   Of("session", [id |-> s1, title |-> text]),
   Of("session_diff", [file |-> f1, patch |-> text]),
   Of("session_diff", [patch |-> other]),
   Of("session_diff", NotData),
   Of("model", [id |-> n1, providerID |-> v1]),
   Of("model", [id |-> Empty, providerID |-> v1, name |-> n1]),
   Of("malformed", NotData),
   Of("unknown", NotData)}
=============================================================================
