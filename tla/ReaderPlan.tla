----------------------------- MODULE ReaderPlan -----------------------------
(***************************************************************************)
(* What the page shows of a document: messages with their parts in order   *)
(* (buildMessageEnvelopes), the split into the main narrative and side     *)
(* events (buildOpenCodeReaderPlan), and the sections and lists of the     *)
(* view model.  All operators work on one value of "latest".               *)
(***************************************************************************)
EXTENDS OpenCodeDocument, Listings, SequencesExt

CONSTANT InjectedTexts   \* the texts that hold an injection marker

CurrentOf(latest, type, key) == Current(latest[type][key])

FirstIndex(latest, type, key) == latest[type][key][1].sourceIndex.rawItemIndex

(* Object.values: the keys of an object in the order they were added.      *)
AddedBefore(latest, type) ==
  {pair \in (DOMAIN latest[type]) \X (DOMAIN latest[type]) :
     LET one == latest[type][pair[1]][1].sourceIndex
         two == latest[type][pair[2]][1].sourceIndex
     IN  \/ one.rawItemIndex < two.rawItemIndex
         \/ one.rawItemIndex = two.rawItemIndex /\ one.arrayOffset < two.arrayOffset}

InOrder(latest, type) == Listed(DOMAIN latest[type], AddedBefore(latest, type))

-----------------------------------------------------------------------------
(* Broken variant: the position of the current version orders messages.    *)
MessageOrderCurrent(latest, key) ==
  LET created == Get(CurrentOf(latest, "message", key), "created")
      history == latest["message"][key]
  IN  IF created # Absent THEN created
      ELSE history[Len(history)].sourceIndex.rawItemIndex

MessageOrder(latest, key) ==
  LET created == Get(CurrentOf(latest, "message", key), "created")
  IN  IF created # Absent THEN created ELSE FirstIndex(latest, "message", key)

(* The sort is stable: equal messages keep the order they were added in.   *)
MessageBefore(latest) ==
  {pair \in (DOMAIN latest["message"]) \X (DOMAIN latest["message"]) :
     \/ MessageOrder(latest, pair[1]) < MessageOrder(latest, pair[2])
     \/ /\ MessageOrder(latest, pair[1]) = MessageOrder(latest, pair[2])
        /\ FirstIndex(latest, "message", pair[1]) < FirstIndex(latest, "message", pair[2])}

MessageKeys(latest) == Listed(DOMAIN latest["message"], MessageBefore(latest))

(* Broken variant: parts that arrive before their message are lost.        *)
PartsOfArrived(latest, messageID) ==
  Listed({key \in DOMAIN latest["part"] :
            /\ Get(CurrentOf(latest, "part", key), "messageID") = messageID
            /\ \E m \in DOMAIN latest["message"] :
                 /\ Get(CurrentOf(latest, "message", m), "id") = messageID
                 /\ FirstIndex(latest, "message", m) < FirstIndex(latest, "part", key)},
         AddedBefore(latest, "part"))

PartsOf(latest, messageID) ==
  Listed({key \in DOMAIN latest["part"] : Get(CurrentOf(latest, "part", key), "messageID") = messageID},
         AddedBefore(latest, "part"))

Sources(latest, type, key) ==
  [i \in DOMAIN latest[type][key] |-> latest[type][key][i].sourceIndex]

Envelope(latest, key, messageIndex) ==
  LET info == CurrentOf(latest, "message", key)
      parts == PartsOf(latest, Or(Get(info, "id"), Empty))
  IN  [info |-> info,
       parts |-> [i \in DOMAIN parts |-> CurrentOf(latest, "part", parts[i])],
       partSources |-> [i \in DOMAIN parts |-> Sources(latest, "part", parts[i])],
       sourceIndexes |-> Sources(latest, "message", key),
       messageIndex |-> messageIndex]

VisibleMessages(latest) ==
  LET keys == MessageKeys(latest)
  IN  [i \in DOMAIN keys |-> Envelope(latest, keys[i], i - 1)]

-----------------------------------------------------------------------------
(* The reader plan.                                                        *)

MessageTexts(entry) ==
  {Get(entry.info, "content")} \cup
  {Get(entry.parts[i], "text") : i \in {j \in DOMAIN entry.parts : Get(entry.parts[j], "type") = "text"}}

(* Broken variant: only the message's own content is looked at.            *)
DetectInContent(entry) ==
  Get(entry.info, "role") = "user" /\ Get(entry.info, "content") \in InjectedTexts

DetectInjectedMessage(entry) ==
  Get(entry.info, "role") = "user" /\ MessageTexts(entry) \cap InjectedTexts # {}

MessageID(entry) == Or(Get(entry.info, "id"), <<"message", entry.messageIndex>>)

ParentID(entry) == Get(entry.info, "parentID")

Item(entry, kind) ==
  [id |-> MessageID(entry), kind |-> kind, entry |-> entry,
   part |-> Absent, sourceIndexes |-> entry.sourceIndexes]

SidePartKind(part) ==
  CASE Get(part, "type") = "reasoning"   -> "reasoning_part"
    [] Get(part, "type") = "step-start"  -> "step_start"
    [] Get(part, "type") = "step-finish" -> "step_finish"
    [] Get(part, "type") = "compaction"  -> "compaction_part"
    [] OTHER                             -> "none"

(* Broken variant: a part is taken to come from its message's events.      *)
PartSourcesAtMessage(entry, i) == entry.sourceIndexes

(* partSourceIndexes[partKey(part)]: parts without a key have no sources.  *)
PartSourcesAt(entry, i) ==
  IF PartKey(entry.parts[i]) = Absent THEN <<>> ELSE entry.partSources[i]

(* The reasoning, step and compaction parts of a narrative message.        *)
PartSideEvents(entry) ==
  LET side == Ascending({i \in DOMAIN entry.parts : SidePartKind(entry.parts[i]) # "none"})
  IN  [n \in DOMAIN side |->
         LET part == entry.parts[side[n]]
         IN  [id |-> <<MessageID(entry), Or(Get(part, "id"), part.type)>>,
              kind |-> SidePartKind(part), entry |-> entry,
              part |-> part, sourceIndexes |-> PartSourcesAt(entry, side[n])]]

EmptyPlan == [injected |-> {}, aside |-> {}, narrative |-> <<>>, sideEvents |-> <<>>]

(* Broken variant: the set of hidden messages is not kept.                 *)
SetAsideUnmarked(plan, entry, kind) ==
  [plan EXCEPT !.sideEvents = Append(@, Item(entry, kind))]

SetAside(plan, entry, kind) ==
  [plan EXCEPT !.aside = @ \cup {MessageID(entry)},
               !.sideEvents = Append(@, Item(entry, kind))]

Narrate(plan, entry, kind) ==
  [plan EXCEPT !.narrative = Append(@, Item(entry, kind)),
               !.sideEvents = @ \o PartSideEvents(entry)]

(* Broken variant: the first "continue" is missing.                        *)
PlanMessageFallingThrough(plan, entry) ==
  IF DetectInjectedMessage(entry)
  THEN Narrate(SetAside(plan, entry, "injected_message"), entry, "real_user_input")
  ELSE IF Get(entry.info, "role") = "user" THEN Narrate(plan, entry, "real_user_input")
  ELSE IF Get(entry.info, "role") = "assistant" THEN Narrate(plan, entry, "assistant_response")
  ELSE SetAside(plan, entry, "non_dialog_message")

(* One iteration of the loop over the visible messages.                    *)
PlanMessage(plan, entry) ==
  IF DetectInjectedMessage(entry)
  THEN SetAside([plan EXCEPT !.injected = @ \cup {MessageID(entry)}],
                entry, "injected_message")
  ELSE IF ParentID(entry) \in plan.injected
  THEN SetAside(plan, entry, "assistant_after_injection")
  ELSE IF Get(entry.info, "role") = "user" THEN Narrate(plan, entry, "real_user_input")
  ELSE IF Get(entry.info, "role") = "assistant" THEN Narrate(plan, entry, "assistant_response")
  ELSE SetAside(plan, entry, "non_dialog_message")

Plan(latest) == FoldLeft(PlanMessage, EmptyPlan, VisibleMessages(latest))

(* toolRuns: where the page shows each tool call.                          *)
IsToolPart(part) == Get(part, "type") \in {"tool", "tool-call"}

ToolRun(latest, plan, key) ==
  LET part == CurrentOf(latest, "part", key)
      messageID == Get(part, "messageID")
      sources == Sources(latest, "part", key)
      partID == Get(part, "id")
  IN  [part |-> part,
       partID |-> partID,
       callID |-> IF Get(part, "callID") # Absent THEN part.callID
                  ELSE IF partID # Absent THEN partID
                  ELSE <<Get(part, "tool"), sources>>,
       sourceIndexes |-> sources,
       narrativeMessageID |-> IF messageID \in plan.aside THEN Absent ELSE messageID,
       sideEventID |-> IF messageID \in plan.aside THEN messageID ELSE Absent]

ToolRunsOf(latest, plan) ==
  LET keys == Listed({key \in DOMAIN latest["part"] : IsToolPart(CurrentOf(latest, "part", key))},
                     AddedBefore(latest, "part"))
  IN  [i \in DOMAIN keys |-> ToolRun(latest, plan, keys[i])]

ToolRuns(latest) == ToolRunsOf(latest, Plan(latest))

-----------------------------------------------------------------------------
(* The view model: a section per user message, the assistants that follow  *)
(* it inside; assistants before the first user message have their own.     *)
NewSection(item) == [hasUser |-> item.kind = "real_user_input", items |-> <<item>>]

PlaceInSection(sections, item) ==
  IF item.kind = "real_user_input" \/ sections = <<>>
  THEN Append(sections, NewSection(item))
  ELSE [sections EXCEPT ![Len(sections)].items = Append(@, item)]

TurnSections(narrative) == FoldLeft(PlaceInSection, <<>>, narrative)

(* Broken variant: injected messages are not left out of the second list.  *)
SideItemsRepeating(plan) ==
  Filter(plan.sideEvents, LAMBDA event : event.kind = "injected_message")
  \o plan.sideEvents

(* buildSideItems: the injected messages, then every other side event.     *)
SideItems(plan) ==
  Filter(plan.sideEvents, LAMBDA event : event.kind = "injected_message")
  \o Filter(plan.sideEvents, LAMBDA event : event.id \notin plan.injected)
=============================================================================
