---------------------------- MODULE MCReaderPage ----------------------------
(***************************************************************************)
(* Pages of a few small shares for TLC, with and without "?debug=1": a     *)
(* question, its answer with calls, reasoning and a patch, an injected     *)
(* reminder and a system message.  Their elements are those ShareApp puts  *)
(* on the page; further pages have a diff of up to MaxEdits lines and      *)
(* perhaps a second file.                                                  *)
(***************************************************************************)
EXTENDS ReaderPage, ReaderPanels

CONSTANTS
  m1, m2, m3, m4, p1, p2, p3, c1, plain, fenced, long, diff, reminder,
  MaxEdits   \* bound: lines of the two versions of a file

MCSlug(id) == IF id = m2 THEN m1 ELSE id

Of(type, data) == [type |-> type, data |-> data]

Asked    == Of("message", [id |-> m1, role |-> "user", content |-> fenced])
Answered == Of("message", [id |-> m2, role |-> "assistant", parentID |-> m1])
Reminded == Of("message", [id |-> m3, role |-> "user", content |-> reminder])
System   == Of("message", [id |-> m4, role |-> "system"])
Thought  == Of("part", [id |-> p1, messageID |-> m2, type |-> "reasoning", text |-> fenced])
Call     == Of("part", [id |-> p2, messageID |-> m2, type |-> "tool", callID |-> c1, output |-> long])
Patch    == Of("part", [id |-> p3, messageID |-> m2, type |-> "patch", patch |-> plain])

Shares ==
  {<<Answered, Thought>>, <<Answered, Call>>, <<Asked, Answered, Patch>>, <<Reminded>>,
   <<System, Asked>>}

Log(share) ==
  [i \in DOMAIN share |->
     [type |-> share[i].type, data |-> share[i].data, rawItemIndex |-> i - 1, arrayOffset |-> 0]]

ElementsOf(share, debug) ==
  LET log == Log(share)
      doc == FoldLeft(ReadRecord, EmptyDocument, log)
      entries == RawLog(log)
  IN  ShareApp(ReaderViewModel(doc.latest, entries), entries, debug)

(* The elements in some order, each named by its place in it.              *)
PageOf(elements, clipboard, files) ==
  LET at == FoldSet(LAMBDA e, seq : Append(seq, e), <<>>, elements)
      all == DOMAIN at
      under(e, path) == at[e].kind # "block" /\ IsPrefix(at[e].path, path)
  IN  [elements |-> all,
       kind |-> [e \in all |-> at[e].kind],
       holders |-> [e \in all |-> {h \in all \ {e} : under(h, at[e].path)}],
       openers |-> [e \in all |-> {h \in all : under(h, at[e].opener)}],
       choices |-> [e \in all |-> at[e].choices],
       unfolded |-> {e \in all : at[e].open},
       forgets |-> {e \in all : Last(at[e].path) = <<"injected raw">>},
       clipboard |-> clipboard,
       diff |-> files]

MCElements == 1..16

Scripts == {script \in UNION {[1..n -> Edits] : n \in 0..MaxEdits} : IsScript(script)}

SecondFiles == {<<>>, <<<<"keep", "remove">>>>, <<<<"skip", "add", "keep">>>>}

DiffPages == {PageOf({}, TRUE, <<script>> \o file) : script \in Scripts, file \in SecondFiles}

MCPages ==
  {PageOf(ElementsOf(share, debug), clipboard, <<>>) :
     share \in Shares, debug \in BOOLEAN, clipboard \in BOOLEAN} \cup DiffPages
=============================================================================
