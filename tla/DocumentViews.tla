--------------------------- MODULE DocumentViews ---------------------------
(***************************************************************************)
(* Properties of everything the page derives from the events DocumentLoop  *)
(* reads: the raw log and its graph, the lists in order, the view model,   *)
(* what the components show of it, and the groupings into turns.           *)
(***************************************************************************)
EXTENDS DocumentLoop, ReaderPanels, DisplayPlan

(* What is undefined is no entry of the raw log.                           *)
RawEntries ==
  [rawIndex : Nat, kind : KnownEntryParts \cup {"message", "unknown_part"},
   sessionID : GivenIDs \cup {Absent}, messageID : GivenIDs \cup {Absent},
   itemID : GivenIDs \cup {Absent}]

ASSUME EntryAssumption == Absent \notin RawEntries

Data == NormalizedShareData(doc.normalized, EventsOf(log), doc.warnings)

Sourced(entries, node) == {entries[i].rawIndex : i \in {j \in DOMAIN entries : NodeID(entries[j]) = node}}

RawIndexes(sourceIndexes) == {sourceIndexes[i].rawItemIndex : i \in DOMAIN sourceIndexes}

(* The graph joins two passes over the events that name entities on their  *)
(* own, rawEntry with nodeID and buildLatestState with its keys.  In a     *)
(* share the page shows, the events an edge is sourced from are exactly    *)
(* those of the node it leads to, and it starts at a node exactly if the   *)
(* entity the current version names has been received.  (A session without *)
(* an id has no node of its own, and an empty id names nothing.)           *)
EdgesLeadToNodes ==
  ~Corrupt(doc) =>
    LET entries == RawLog(log)
        graph == Graph(doc.latest, entries)
    IN  \A edge \in graph.references :
          /\ \/ Sourced(entries, edge.to) = RawIndexes(edge.sourceIndexes)
             \/ edge.type = "session_parent" /\ <<edge.to[2]>> \notin DOMAIN doc.latest["session"]
          /\ edge.from[2] # Empty =>
               (edge.from \in graph.nodes <=> <<edge.from[2]>> \in DOMAIN doc.latest[edge.from[1]])

(* The two passes put things in one order: in a share the page shows, a    *)
(* message has the same parts in the same order in the normalised groups   *)
(* and on the page, and the messages themselves are in one order as long   *)
(* as every version of them carries one creation time.                     *)
TimesAreSettled ==
  \A key \in DOMAIN doc.latest["message"] :
    LET history == doc.latest["message"][key]
        created == {Get(history[i].value, "created") : i \in DOMAIN history}
    IN  Absent \notin created /\ Cardinality(created) = 1

PassesAgreeOnOrder ==
  ~Corrupt(doc) =>
    /\ \A messageID \in DOMAIN Data.partsByMessageID :
         Data.partsByMessageID[messageID] = PartsOf(doc.latest, messageID)
    /\ TimesAreSettled => Data.messages = MessageKeys(doc.latest)

(* Every file an event names is listed once among the changed files, with  *)
(* the events that name it and no other; entries without a name, which     *)
(* share the keys of their array offsets, are listed at most without a     *)
(* name and never under the name of a file.                                *)
FilesNamed ==
  {log[n].data.file : n \in {m \in DOMAIN log :
     log[m].type = "session_diff" /\ Recorded(log[m]) /\ StringField(log[m].data, "file") # Absent}}

FilesListedOnce ==
  LET summaries == FileSummaries(doc.latest)
      changes == FileChanges(doc.latest)
      naming(file) == Kept(log, {n \in DOMAIN log : /\ log[n].type = "session_diff" /\ Recorded(log[n])
                                                     /\ Get(log[n].data, "file") = file})
  IN  \A file \in FilesNamed :
        /\ Cardinality({summary \in summaries : summary.file = file}) = 1
        /\ \A summary \in summaries :
             summary.file = file =>
               /\ summary.sourceIndexes = [i \in DOMAIN naming(file) |-> Source(naming(file)[i])]
               /\ file \in DOMAIN changes /\ changes[file] = summary.sourceIndexes

-----------------------------------------------------------------------------
View == ReaderViewModel(doc.latest, RawLog(log))

(* Calls have ids of their own, which no part shares.                      *)
CallsAreDistinct(runs) ==
  LET called == {i \in DOMAIN runs : Get(runs[i].part, "callID") # Absent}
  IN  /\ \A i \in called, j \in DOMAIN runs : runs[j].callID = runs[i].callID => i = j
      /\ \A i \in called, key \in DOMAIN doc.latest["part"] :
           Get(CurrentOf(doc.latest, "part", key), "id") # runs[i].callID

Distinct(seq, key(_)) == \A i, j \in DOMAIN seq : key(seq[i]) = key(seq[j]) => i = j

(* In a share the page shows, everything is rendered once: sections hold   *)
(* the narrative in order and only the first may begin without a user;     *)
(* the render items of a message hold its parts in order, with consecutive *)
(* tools, and no others, in one group; its groups hold the tool runs that  *)
(* point to it.  No two cards and no two render items of one have one key, *)
(* which would make Svelte drop or mix them.  Sections begin with          *)
(* different messages, and two have one key, and one anchor, only if       *)
(* slugify makes one of the ids of these.                                  *)
RenderedOnce(item, run) ==
  LET items == item.renderItems
      keys == [i \in DOMAIN items |-> RenderItemKey(items[i], i)]
      grouped == {i \in DOMAIN items : items[i].type = "tool-group"}
  IN  /\ FlattenSeq([i \in DOMAIN items |-> items[i].parts]) = item.parts
      /\ \A i \in DOMAIN items \ {1} : "single" \in {items[i - 1].type, items[i].type}
      /\ \A i \in DOMAIN items : \A n \in DOMAIN items[i].parts :
           IsToolPart(items[i].parts[n]) <=> i \in grouped
      /\ IsInjective(keys)
      /\ UNION {Range(items[i].parts) : i \in grouped} =
           {run[i].part : i \in {n \in DOMAIN run : run[n].narrativeMessageID = item.id}}

AllRenderedOnce(view) ==
  LET sections == view.sections
      idOf(thing) == thing.id
      firstOf(section) == section.items[1].id
  IN  /\ FlattenSeq([i \in DOMAIN sections |-> sections[i].items]) = view.mainNarrative
      /\ \A i \in DOMAIN sections :
           /\ sections[i].hasUser \/ i = 1
           /\ \A n \in DOMAIN sections[i].items :
                sections[i].items[n].kind = "real_user_input" <=> n = 1 /\ sections[i].hasUser
      /\ Distinct(sections, firstOf)
      /\ \A i, j \in DOMAIN sections :
           sections[i].id = sections[j].id => Slug(firstOf(sections[i])) = Slug(firstOf(sections[j]))
      /\ DOMAIN view.navSections = DOMAIN sections
      /\ \A i \in DOMAIN sections : view.navSections[i].id = sections[i].id
      /\ Distinct(view.mainNarrative, idOf)
      /\ \A i \in DOMAIN view.mainNarrative : RenderedOnce(view.mainNarrative[i], view.toolRuns)

EverythingRenderedOnce ==
  ~Corrupt(doc) =>
    \A view \in {View} : CallsAreDistinct(view.toolRuns) => AllRenderedOnce(view)

(* Every source index the page gives for something leads to raw entries    *)
(* that name it: the provenance maps, the answers and parts in the cards,  *)
(* the rows of the inspector.  The map of tool calls has one key for calls *)
(* of one callID, and for calls without any whose part ids are the same in *)
(* two messages: of these it knows the last one.                           *)
NamesMessage(entry, id) == entry.kind = "message" /\ entry.messageID = id

NamesPart(entry, part) ==
  entry.kind # "message" /\ entry.messageID = part.messageID /\ entry.itemID = part.id

Lead(entries, sourceIndexes, to(_)) ==
  LET resolved == ResolveRawSources(entries, sourceIndexes)
  IN  resolved # <<>> /\ \A i \in DOMAIN resolved : resolved[i].rawEntry # Absent /\ to(resolved[i].rawEntry)

AllSourcesLead(view, entries, sideEvents) ==
  LET map == view.provenance
      rows == InspectorRows(view, entries)
      callOf(run) == run.callID
      told == Distinct(view.toolRuns, callOf)
      narrated(id) == Lead(entries, map.byNarrativeID[id], LAMBDA entry : NamesMessage(entry, id))
      aside(event) ==
        Lead(entries, map.bySideEventID[event.id],
             LAMBDA entry : IF event.part = Absent THEN NamesMessage(entry, event.id)
                            ELSE NamesPart(entry, event.part))
      called(run) ==
        Lead(entries, map.byToolCallID[run.callID], LAMBDA entry : NamesPart(entry, run.part))
  IN  /\ \A id \in DOMAIN map.byNarrativeID : narrated(id)
      /\ \A i \in DOMAIN sideEvents : aside(sideEvents[i])
      /\ told => \A i \in DOMAIN view.toolRuns : called(view.toolRuns[i])
      /\ \A i \in DOMAIN rows :
           /\ told \/ rows[i].target.category # "tool-run" =>
                rows[i].target.sourceIndexes = rows[i].target.item.sourceIndexes
           /\ \A n \in DOMAIN rows[i].sources : rows[i].sources[n].rawEntry # Absent

SourcesLeadHome ==
  ~Corrupt(doc) =>
    \A view \in {View} : AllSourcesLead(view, RawLog(log), Plan(doc.latest).sideEvents)

(* The numbers in the panels are those of the things the page lists: cards *)
(* and sections, injected messages and side events, messages of the share  *)
(* (each is narrated or set aside), tool runs by tool, raw items.          *)
CountsMatch(view, counts, normalized) ==
  LET set_aside == Filter(view.sideItems, LAMBDA item : item.part = Absent)
      tools == SummarizeTools(view.toolRuns)
  IN  /\ counts.narrative = Len(FlattenSeq([i \in DOMAIN view.sections |-> view.sections[i].items]))
      /\ counts.sections = Len(view.sections) /\ counts.files = view.meta.fileCount
      /\ counts.injected = Len(InjectedItems(view)) /\ counts.injected = Len(InjectedMessages(view))
      /\ counts.sideEvents + counts.injected = Len(view.sideItems)
      /\ counts.narrative + Len(set_aside) = Len(normalized.messages)
      /\ SumFunction(tools) = counts.toolRuns
      /\ counts.rawItems = Len(normalized.rawIndex.all)

CountsMatchLists ==
  ~Corrupt(doc) =>
    \A view \in {View}, normalized \in {Data} :
      CountsMatch(view, ReaderCounts(view, normalized), normalized)

(* The totals of a turn, kept while its messages arrive in order, are      *)
(* those of its messages; and the two groupings into turns, over the       *)
(* normalised and over the latest messages, are the same from the first    *)
(* user on, if both order the messages alike and no message changes role.  *)
RolesAreSettled ==
  \A key \in DOMAIN doc.latest["message"] :
    LET history == doc.latest["message"][key]
    IN  Cardinality({Get(history[i].value, "role") : i \in DOMAIN history}) = 1

TurnsAgree ==
  ~Corrupt(doc) =>
    LET plan == OpenCodeDisplayPlan(doc.latest)
        timeline == plan.timeline
        turns == Turns(doc.normalized, Data)
        asked == Filter(timeline, LAMBDA turn : turn.hasUser)
        ids(turn) == [i \in DOMAIN turn.messages |-> turn.messages[i].id]
    IN  /\ \A i \in DOMAIN timeline :
             /\ timeline[i].rawRange = RawRange(plan.outline[i])
             /\ timeline[i].toolCount =
                  Len(FlattenSeq([n \in DOMAIN timeline[i].messages |->
                        Filter(timeline[i].messages[n].parts, IsToolPart)]))
        /\ TimesAreSettled /\ RolesAreSettled =>
             /\ [i \in DOMAIN turns |-> turns[i].messageIDs] = [i \in DOMAIN asked |-> ids(asked[i])]
             /\ \A i \in DOMAIN turns :
                  turns[i].messageEndIndex - turns[i].messageStartIndex + 1 = Len(turns[i].messages)
=============================================================================
