---------------------------- MODULE DisplayPlan ----------------------------
(***************************************************************************)
(* The two other groupings of a share into turns: buildTurns, over the     *)
(* normalised messages, and buildOpenCodeDisplayPlan, over the visible     *)
(* ones.  The page does not call them yet; the tests do.  Titles, models   *)
(* and costs are left out, and tools are told apart but not categorised.   *)
(***************************************************************************)
EXTENDS ReaderView, NormalizedShare

-----------------------------------------------------------------------------
(* turns.ts.                                                               *)
TurnMessage(normalized, data, messageIndex) ==
  LET key == data.messages[messageIndex]
      message == ValueOf(normalized, "message", key)
      id == Or(Get(message, "id"), Empty)
      parts == IF id \in DOMAIN data.partsByMessageID THEN data.partsByMessageID[id] ELSE <<>>
  IN  [id |-> id, role |-> Get(message, "role"),
       messageIndex |-> messageIndex - 1,
       tools |-> Filter(parts, LAMBDA part : IsToolPart(ValueOf(normalized, "part", part)))]

NewTurn(user) ==
  [messages |-> <<user>>, messageIDs |-> <<user.id>>, tools |-> user.tools,
   messageStartIndex |-> user.messageIndex, messageEndIndex |-> user.messageIndex]

(* A message joins the turn of the last user, and none before the first.   *)
JoinTurn(turns, message) ==
  IF message.role = "user" THEN Append(turns, NewTurn(message))
  ELSE IF turns = <<>> THEN turns
  ELSE [turns EXCEPT
          ![Len(turns)].messages = Append(@, message),
          ![Len(turns)].messageIDs = Append(@, message.id),
          ![Len(turns)].tools = @ \o message.tools,
          ![Len(turns)].messageEndIndex = message.messageIndex]

Turns(normalized, data) ==
  FoldLeft(JoinTurn, <<>>, [i \in DOMAIN data.messages |-> TurnMessage(normalized, data, i)])

-----------------------------------------------------------------------------
(* opencode-display.ts.                                                    *)
DisplayMessage(entry) ==
  [id |-> MessageID(entry), role |-> Or(Get(entry.info, "role"), "unknown"),
   parts |-> entry.parts, renderItems |-> RenderItems(entry),
   sourceIndexes |-> entry.sourceIndexes]

CountTools(parts) == Len(Filter(parts, IsToolPart))

CountFiles(messages) ==
  Cardinality(UNION {UNION {Range(SequenceField(messages[i].parts[j], "files")) :
                              j \in {n \in DOMAIN messages[i].parts :
                                       messages[i].parts[n].type = "patch"}} :
                       i \in DOMAIN messages})

NoRange == [first |-> -1, last |-> -1]

RawRange(sourceIndexes) ==
  LET indexes == {sourceIndexes[i].rawItemIndex : i \in DOMAIN sourceIndexes}
  IN  IF indexes = {} THEN NoRange ELSE [first |-> Min(indexes), last |-> Max(indexes)]

(* Broken variant: the range ends where the last message's does.           *)
MergeRangeLast(left, right) == [first |-> left.first, last |-> right.last]

MergeRange(left, right) ==
  IF left.first < 0 THEN right
  ELSE IF right.first < 0 THEN left
  ELSE [first |-> Min({left.first, right.first}), last |-> Max({left.last, right.last})]

DisplayTurn(message) ==
  [hasUser |-> message.role = "user", messages |-> <<message>>,
   rawRange |-> RawRange(message.sourceIndexes),
   toolCount |-> CountTools(message.parts), fileCount |-> CountFiles(<<message>>)]

(* buildTimeline: totals are kept as messages join the current turn.       *)
JoinTimeline(turns, message) ==
  IF message.role = "user" \/ turns = <<>> THEN Append(turns, DisplayTurn(message))
  ELSE LET messages == Append(Last(turns).messages, message)
       IN  [turns EXCEPT
              ![Len(turns)].messages = messages,
              ![Len(turns)].rawRange = MergeRange(@, RawRange(message.sourceIndexes)),
              ![Len(turns)].toolCount = @ + CountTools(message.parts),
              ![Len(turns)].fileCount = CountFiles(messages)]

Timeline(messages) == FoldLeft(JoinTimeline, <<>>, messages)

(* The first turn's source indexes, and so on: one entry per turn.         *)
Outline(turns) ==
  [i \in DOMAIN turns |->
     FlattenSeq([n \in DOMAIN turns[i].messages |-> turns[i].messages[n].sourceIndexes])]

ToolGroups(messages) ==
  LET groups(message) == Filter(message.renderItems, LAMBDA item : item.type = "tool-group")
  IN  FlattenSeq([i \in DOMAIN messages |->
        [n \in DOMAIN groups(messages[i]) |->
           [messageID |-> messages[i].id, parts |-> groups(messages[i])[n].parts,
            sourceIndexes |-> groups(messages[i])[n].sourceIndexes]]])

(* buildFileChanges: the diffs grouped by the file they name.              *)
FileChanges(latest) ==
  LET fileOf(key) == Get(CurrentOf(latest, "session_diff", key), "file")
      of(file) == Listed({key \in NamedFiles(latest) : fileOf(key) = file},
                         AddedBefore(latest, "session_diff"))
  IN  [file \in {fileOf(key) : key \in NamedFiles(latest)} |->
         FlattenSeq([i \in DOMAIN of(file) |-> Sources(latest, "session_diff", of(file)[i])])]

OpenCodeDisplayPlan(latest) ==
  LET visible == VisibleMessages(latest)
      messages == [i \in DOMAIN visible |-> DisplayMessage(visible[i])]
  IN  [timeline |-> Timeline(messages), outline |-> Outline(Timeline(messages)),
       toolGroups |-> ToolGroups(messages), fileChanges |-> FileChanges(latest)]
=============================================================================
