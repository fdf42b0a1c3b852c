---------------------------- MODULE ReaderPanels ----------------------------
(***************************************************************************)
(* What the components of the share page put on the screen for a view      *)
(* model: one operator per component.  The elements a reader can act on    *)
(* are collapses, drawers and code blocks; each has a path, the names of   *)
(* the components it is in, so that everything inside a collapse or drawer *)
(* has its path as a prefix.  Text is a value of which only matters what   *)
(* the three constants say.                                                *)
(***************************************************************************)
EXTENDS ReaderView, NormalizedShare

CONSTANTS
  FencedTexts,   \* texts whose markdown has a fenced code block
  LongTexts,     \* outputs of more than 10 lines or 2000 characters
  DiffTexts      \* patches that begin as, and parse as, a unified diff

Page == <<>>

Element(kind, at, name) ==
  [kind |-> kind, path |-> Append(at, name), open |-> FALSE, opener |-> at,
   choices |-> {<<"content">>}]

Block(at) == {Element("block", at, <<"code">>)}

(* A closed Collapse and, inside it, a CodeBlock.                          *)
FoldedBlock(at, name) == {Element("collapse", at, name)} \cup Block(Append(at, name))

(* RawJsonDrawer: it lives at "at", the buttons that open it in "opener".  *)
RawJsonDrawer(at, name, opener, choices) ==
  {[Element("drawer", at, name) EXCEPT !.opener = opener, !.choices = choices]}
  \cup Block(Append(at, name))

MarkdownBlock(at, texts) == IF texts \cap FencedTexts = {} THEN {} ELSE Block(at)

-----------------------------------------------------------------------------
(* Cards of the main narrative.                                            *)
AgentTools == {"task", "background_output", "call_omo_agent"}

(* The card of a call.  An agent's task shows a summary in place of its    *)
(* output; the drawer of an output that is not long cannot be opened.      *)
ToolCallCard(at, part) ==
  LET output == Get(part, "output")
      shown == output \notin {Absent, Empty} /\ Get(part, "tool") \notin AgentTools
  IN  (IF Get(part, "input") \in {Absent, Empty} THEN {} ELSE FoldedBlock(at, <<"input">>))
      \cup (IF shown /\ output \in LongTexts
            THEN FoldedBlock(at, <<"preview">>)
                 \cup RawJsonDrawer(at, <<"output">>, at, {<<"content">>})
            ELSE {})
      \cup (IF shown /\ output \notin LongTexts THEN Block(at) ELSE {})

ToolKey(part, index) ==
  Or(Get(part, "callID"), Or(Get(part, "id"), <<"index", index>>))

ToolGroupView(at, parts) ==
  UNION {ToolCallCard(Append(at, <<"tool", ToolKey(parts[i], i)>>), parts[i]) : i \in DOMAIN parts}

(* The patch is open from the start; what is no diff is shown as it is.    *)
PatchPart(at, patches) ==
  LET collapse == [Element("collapse", at, <<"patch">>) EXCEPT !.open = TRUE]
  IN  {collapse} \cup (IF patches = <<>> \/ Head(patches) \in DiffTexts THEN {}
                       ELSE Block(collapse.path))

PartRenderer(at, item) ==
  LET part == Head(item.parts)
  IN  CASE item.type = "tool-group"  -> ToolGroupView(at, item.parts)
        [] part.type = "text"        -> MarkdownBlock(at, {Get(part, "text")})
        [] part.type = "reasoning"   -> {Element("collapse", at, <<"thinking">>)} \cup
                                        MarkdownBlock(Append(at, <<"thinking">>), {Get(part, "text")})
        [] part.type = "patch"       -> PatchPart(at, item.patch)
        [] part.type \notin KnownPartTypes -> Block(at)
        [] OTHER                     -> {}

(* renderItemKey: callIDs and ids joined, or the id of a single part.      *)
RenderItemKey(item, index) ==
  LET name(part) == Or(Get(part, "callID"), Or(Get(part, "id"), <<part.type>>))
      names == [i \in DOMAIN item.parts |-> name(item.parts[i])]
  IN  IF item.type = "single"
      THEN Or(Get(Head(item.parts), "id"), <<Head(item.parts).type, item.sourceIndexes, index>>)
      ELSE IF Len(names) = 1 THEN Head(names) ELSE names

AssistantMessageCard(at, item) ==
  UNION {PartRenderer(Append(at, <<"item", RenderItemKey(item.renderItems[i], i)>>),
                      item.renderItems[i]) : i \in DOMAIN item.renderItems}

(* A user's card shows the text of the message and none of its parts.      *)
UserMessageCard(at, item) ==
  MarkdownBlock(at, MessageTexts([info |-> item.message, parts |-> item.parts]))

ReaderTurnSectionView(section) ==
  LET at(item) == <<section.id, <<"card", item.id>>>>
      user == Head(section.items)
      answers == section.assistants
  IN  (IF section.hasUser THEN UserMessageCard(at(user), user) ELSE {})
      \cup UNION {AssistantMessageCard(at(answers[i]), answers[i]) : i \in DOMAIN answers}

-----------------------------------------------------------------------------
(* The side panel.                                                         *)
InjectedItems(view) == Filter(view.sideItems, LAMBDA item : item.kind = "injected_message")

SideEvents(view) == Filter(view.sideItems, LAMBDA item : item.kind # "injected_message")

InjectedMessages(view) == Filter(view.debugItems, LAMBDA item : item.injected)

InjectedMessagesPanel(messages) ==
  LET panel == Element("collapse", Page, <<"injected">>)
  IN  {panel} \cup (IF messages = <<>> THEN {}
                    ELSE RawJsonDrawer(Page, <<"injected raw">>, panel.path,
                           {<<"message", messages[i].value.id>> : i \in DOMAIN messages}))

SideEventView(at, index) ==
  LET card == Element("collapse", at, <<"event", index>>)
  IN  {card} \cup RawJsonDrawer(at, <<"event raw", index>>, card.path, {<<"content">>})

(* representativeTargets: of each list the first item that has sources.    *)
Target(category, items, sources(_)) ==
  LET sourced == Filter(items, LAMBDA item : item.sourceIndexes # <<>>)
  IN  IF sourced = <<>> THEN <<>>
      ELSE <<[category |-> category, item |-> Head(sourced), sourceIndexes |-> sources(Head(sourced))]>>

RepresentativeTargets(view) ==
  LET of(map, key, item) == IF key \in DOMAIN map THEN map[key] ELSE item.sourceIndexes
      narrated(item) == of(view.provenance.byNarrativeID, item.id, item)
      injected(item) == of(view.provenance.byMessageID, item.value.id, item)
      aside(item) == of(view.provenance.bySideEventID, item.id, item)
      called(item) == of(view.provenance.byToolCallID, item.callID, item)
  IN  Target("narrative", view.mainNarrative, narrated)
      \o Target("injected", InjectedMessages(view), injected)
      \o Target("side-event", SideEvents(view), aside)
      \o Target("tool-run", view.toolRuns, called)

InspectorRows(view, entries) ==
  LET targets == RepresentativeTargets(view)
  IN  [i \in DOMAIN targets |->
         [target |-> targets[i], sources |-> ResolveRawSources(entries, targets[i].sourceIndexes)]]

ProvenanceInspector(at, view, entries) ==
  LET rows == InspectorRows(view, entries)
  IN  {Element("collapse", at, <<"coverage">>)}
      \cup RawJsonDrawer(at, <<"source raw">>, at,
             UNION {{<<"source", rows[i].target.category, n>> : n \in DOMAIN rows[i].sources} :
                      i \in DOMAIN rows})

(* summarizeTools: how many runs each tool has.                            *)
SummarizeTools(toolRuns) ==
  LET toolOf(i) == Or(StringField(toolRuns[i].part, "tool"), "unknown")
  IN  [tool \in {toolOf(i) : i \in DOMAIN toolRuns} |->
         Cardinality({i \in DOMAIN toolRuns : toolOf(i) = tool})]

ReaderCounts(view, normalized) ==
  [narrative |-> view.meta.narrativeCount,
   sections |-> view.meta.sectionCount,
   injected |-> view.rawDebug.injectedUserMessageCount,
   sideEvents |-> IF view.sideItems # <<>> THEN Len(SideEvents(view))
                  ELSE view.rawDebug.sideEventCount,
   toolRuns |-> Len(view.toolRuns),
   warnings |-> Cardinality(normalized.warnings),
   files |-> Cardinality(view.fileSummaries),
   rawItems |-> view.rawDebug.totalRawItems]

ReaderSidePanel(view, entries, debug) ==
  LET events == Element("collapse", Page, <<"side events">>)
      provenance == Element("collapse", Page, <<"provenance">>)
  IN  {events, provenance}
      \cup (IF view.toolRuns = <<>> THEN {} ELSE {Element("collapse", Page, <<"tool runs">>)})
      \cup InjectedMessagesPanel(InjectedMessages(view))
      \cup UNION {SideEventView(events.path, i) : i \in DOMAIN SideEvents(view)}
      \cup (IF debug THEN ProvenanceInspector(provenance.path, view, entries) ELSE {})

(* ShareApp's ready state: the shell and the drawer of the normalised data.*)
ShareApp(view, entries, debug) ==
  UNION {ReaderTurnSectionView(view.sections[i]) : i \in DOMAIN view.sections}
  \cup ReaderSidePanel(view, entries, debug)
  \cup (IF debug THEN RawJsonDrawer(Page, <<"debug">>, Page, {<<"content">>}) ELSE {})
=============================================================================
