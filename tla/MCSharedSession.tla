-------------------------- MODULE MCSharedSession --------------------------
(***************************************************************************)
(* Small instances of SharedSession for TLC: a question and its answer     *)
(* that carry creation times, another pair that does not, their parts, and *)
(* a later text that turns out to be an injected reminder.                 *)
(***************************************************************************)
EXTENDS SharedSession

CONSTANTS u1, a1, u2, a2, p1, p2, p3, text, reminder

Of(type, data) == [type |-> type, data |-> data]

asked    == Of("message", [id |-> u1, role |-> "user", created |-> 101])
answered == Of("message", [id |-> a1, role |-> "assistant", parentID |-> u1, created |-> 102])
question == Of("message", [id |-> u2, role |-> "user", content |-> text])
answer   == Of("message", [id |-> a2, role |-> "assistant", parentID |-> u2])
note     == Of("message", [id |-> a2, role |-> "system"])
prompt   == Of("part", [id |-> p1, messageID |-> u1, type |-> "text", text |-> text])
marked   == Of("part", [id |-> p1, messageID |-> u1, type |-> "text", text |-> reminder])
tool     == Of("part", [id |-> p2, messageID |-> a1, type |-> "tool"])
thought  == Of("part", [id |-> p3, messageID |-> a1, type |-> "reasoning"])

Singles == {asked, answered, question, answer, note, prompt, marked, tool, thought}

MCBatches == {<<event>> : event \in Singles} \cup {<<tool, answered>>, <<asked, marked>>}

(* An answer that carries no creation time, to a reminder that does.       *)
untimed == Of("message", [id |-> a1, role |-> "assistant", parentID |-> u1])

UntimedBatches == {<<event>> : event \in {asked, marked, untimed, question, answer, prompt, tool}}
=============================================================================
