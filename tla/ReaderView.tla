----------------------------- MODULE ReaderView -----------------------------
(***************************************************************************)
(* The view model of a share: createReaderViewModel and the parts of       *)
(* opencode.ts, opencode-reader.ts and layout.ts it puts together.  The    *)
(* order of file names, titles and wording are left out.                   *)
(***************************************************************************)
EXTENDS DocumentGraph

CONSTANT Slug(_)   \* slugify: lower case, all but ASCII letters and digits a dash; not injective

SequenceField(data, field) == IF Get(data, field) = Absent THEN <<>> ELSE data[field]

-----------------------------------------------------------------------------
(* buildRenderItems: a group for each run of tool calls, every other part  *)
(* on its own.                                                             *)
PartAt(entry, i) == [part |-> entry.parts[i], sources |-> PartSourcesAt(entry, i)]

PartsOfEntry(entry) == [i \in DOMAIN entry.parts |-> PartAt(entry, i)]

Single(at) == [type |-> "single", parts |-> <<at.part>>, sourceIndexes |-> at.sources]

Group(at) == [type |-> "tool-group", parts |-> <<at.part>>, sourceIndexes |-> at.sources]

WithPart(item, at) ==
  [type |-> item.type, parts |-> Append(item.parts, at.part),
   sourceIndexes |-> item.sourceIndexes \o at.sources]

(* Broken variant: the tools still collected at the end are not flushed.   *)
RenderItemsUnflushed(entry) ==
  LET add(items, i) ==
        LET at == PartAt(entry, i)
        IN  IF IsToolPart(at.part) /\ i = Len(entry.parts) THEN items
            ELSE Append(items, IF IsToolPart(at.part) THEN Group(at) ELSE Single(at))
  IN  FoldLeft(add, <<>>, [i \in DOMAIN entry.parts |-> i])

AddRenderItem(items, at) ==
  IF ~IsToolPart(at.part) THEN Append(items, Single(at))
  ELSE IF items = <<>> \/ items[Len(items)].type # "tool-group" THEN Append(items, Group(at))
  ELSE [items EXCEPT ![Len(items)] = WithPart(@, at)]

RenderItems(entry) == FoldLeft(AddRenderItem, <<>>, PartsOfEntry(entry))

(* resolvePatch: the first diff of the message's own summary that names    *)
(* the file, or the session's, or nothing.                                 *)
ResolvePatch(latest, info, file) ==
  LET diffs == InOrder(latest, "session_diff")
      own == Filter(SequenceField(info, "diffs"), LAMBDA diff : Get(diff, "file") = file)
      session == Filter([i \in DOMAIN diffs |-> CurrentOf(latest, "session_diff", diffs[i])],
                           LAMBDA diff : Get(diff, "file") = file)
      patch(found) == IF found = <<>> THEN Absent ELSE Get(Head(found), "patch")
  IN  IF patch(own) # Absent THEN patch(own) ELSE Or(patch(session), Empty)

(* The patches a patch part shows, one for each of its files.              *)
Patches(latest, info, part) ==
  LET files == SequenceField(part, "files")
      named == IF files = <<>> THEN <<Empty>> ELSE files
  IN  Filter([i \in DOMAIN named |-> ResolvePatch(latest, info, named[i])],
                LAMBDA patch : patch # Empty)

NarrativeViewItem(latest, item) ==
  LET items == RenderItems(item.entry)
      patches(part) == IF Get(part, "type") = "patch" THEN Patches(latest, item.entry.info, part)
                       ELSE <<>>
  IN  [id |-> item.id, kind |-> item.kind, message |-> item.entry.info,
       parts |-> item.entry.parts, sourceIndexes |-> item.sourceIndexes,
       renderItems |-> [i \in DOMAIN items |->
         [type |-> items[i].type, parts |-> items[i].parts,
          sourceIndexes |-> items[i].sourceIndexes, patch |-> patches(Head(items[i].parts))]]]

-----------------------------------------------------------------------------
(* createSection and createAssistantOnlySection, with the answers and      *)
(* sources that were added to the section since.                           *)
SectionView(section) ==
  [id |-> <<"turn", Slug(section.items[1].id)>>,
   hasUser |-> section.hasUser,
   assistants |-> IF section.hasUser THEN Tail(section.items) ELSE section.items,
   items |-> section.items,
   sourceIndexes |-> FlattenSeq([i \in DOMAIN section.items |-> section.items[i].sourceIndexes])]

SectionViews(narrative) ==
  LET turns == TurnSections(narrative) IN [i \in DOMAIN turns |-> SectionView(turns[i])]

(* A link of the navigation, and what it says: who asked, how many answers.*)
NavSection(section) ==
  [id |-> section.id, hasUser |-> section.hasUser, answers |-> Len(section.assistants)]

NamedFiles(latest) ==
  {k \in DOMAIN latest["session_diff"] : Get(CurrentOf(latest, "session_diff", k), "file") # Absent}

FileSummaries(latest) ==
  {[file |-> Get(CurrentOf(latest, "session_diff", key), "file"),
    patch |-> Or(Get(CurrentOf(latest, "session_diff", key), "patch"), Empty),
    sourceIndexes |-> Sources(latest, "session_diff", key)] :
     key \in NamedFiles(latest)}

InjectedOf(plan) ==
  Filter(plan.sideEvents, LAMBDA event : event.kind = "injected_message")

DebugItem(label, id, value) ==
  [id |-> <<label, id>>, injected |-> label = "injected", value |-> value,
   sourceIndexes |-> value.sourceIndexes]

DebugItems(plan, toolRuns) ==
  LET injected == InjectedOf(plan)
  IN  [i \in DOMAIN injected |-> DebugItem("injected", injected[i].id, injected[i])]
      \o [i \in DOMAIN plan.sideEvents |-> DebugItem("side", plan.sideEvents[i].id, plan.sideEvents[i])]
      \o [i \in DOMAIN toolRuns |-> DebugItem("tool", toolRuns[i].callID, toolRuns[i])]

-----------------------------------------------------------------------------
(* keyedSources and keyedToolSources: the last item of a key wins.         *)
PutSources(result, item) == Put(result, item.key, item.sources)

KeyedSources(items, key(_)) ==
  FoldLeft(PutSources, <<>>,
           [i \in DOMAIN items |-> [key |-> key(items[i]), sources |-> items[i].sourceIndexes]])

Provenance(visible, plan, toolRuns) ==
  LET idOf(item) == item.id
      callOf(tool) == tool.callID
  IN  [byMessageID |-> KeyedSources(visible, MessageID),
       byNarrativeID |-> KeyedSources(plan.narrative, idOf),
       bySideEventID |-> KeyedSources(plan.sideEvents, idOf),
       byToolCallID |-> KeyedSources(toolRuns, callOf)]

(* createReaderViewModel: narrative, sections, lists and their counts.     *)
ViewModelOf(latest, entries, visible, plan, toolRuns, narrative) ==
  LET sections == SectionViews(narrative)
      injected == Len(InjectedOf(plan))
  IN  [mainNarrative |-> narrative,
       sections |-> sections,
       navSections |-> [i \in DOMAIN sections |-> NavSection(sections[i])],
       sideItems |-> SideItems(plan),
       debugItems |-> DebugItems(plan, toolRuns),
       toolRuns |-> toolRuns,
       fileSummaries |-> FileSummaries(latest),
       meta |-> [totalRawItems |-> Len(entries), narrativeCount |-> Len(narrative),
                 sectionCount |-> Len(sections),
                 sideItemCount |-> Len(plan.sideEvents) + injected,
                 toolRunCount |-> Len(toolRuns),
                 fileCount |-> Cardinality(NamedFiles(latest))],
       provenance |-> Provenance(visible, plan, toolRuns),
       rawDebug |-> [totalRawItems |-> Len(entries),
                     hiddenFromMainCount |-> Len(plan.sideEvents),
                     injectedUserMessageCount |-> injected,
                     sideEventCount |-> Len(plan.sideEvents)]]

ViewModelOfPlan(latest, entries, visible, plan) ==
  ViewModelOf(latest, entries, visible, plan, ToolRunsOf(latest, plan),
              [i \in DOMAIN plan.narrative |-> NarrativeViewItem(latest, plan.narrative[i])])

ReaderViewModel(latest, entries) ==
  ViewModelOfPlan(latest, entries, VisibleMessages(latest), Plan(latest))

-----------------------------------------------------------------------------
(* resolveRawSources: the raw log's entry for each source, if there is one.*)
ResolveRawSources(entries, sourceIndexes) ==
  [i \in DOMAIN sourceIndexes |->
     LET index == sourceIndexes[i].rawItemIndex
     IN  [sourceIndex |-> sourceIndexes[i],
          rawEntry |-> IF \E n \in DOMAIN entries : entries[n].rawIndex = index
                       THEN CHOOSE entry \in Range(entries) : entry.rawIndex = index
                       ELSE Absent]]
=============================================================================
