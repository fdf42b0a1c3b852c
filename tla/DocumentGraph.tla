--------------------------- MODULE DocumentGraph ---------------------------
(***************************************************************************)
(* The raw log of convertOpenCodeShare, one entry per event, and the graph *)
(* of the latest state over it.  Ids of nodes are tuples where the code    *)
(* joins strings.                                                          *)
(***************************************************************************)
EXTENDS ReaderPlan

KnownEntryParts == {"text", "reasoning", "tool", "tool-call", "subtask", "file",
                    "step-start", "step-finish", "snapshot", "patch", "agent",
                    "retry", "compaction"}

(* The events of a log: the first record of each raw item.                 *)
EventsOf(log) == Kept(log, {n \in DOMAIN log : log[n].arrayOffset = 0})

BaseEntry(rec, kind, sessionID, messageID, itemID) ==
  [rawIndex |-> rec.rawItemIndex, kind |-> kind,
   sessionID |-> sessionID, messageID |-> messageID, itemID |-> itemID]

(* rawEntry: what an event is and which entities it names.                 *)
RawEntry(rec) ==
  LET field(name) == StringField(rec.data, name)
  IN  CASE rec.type \notin Types \cup {"malformed"}
             -> BaseEntry(rec, "unknown_top_level", Absent, Absent, Absent)
        [] \/ rec.type = "malformed"
           \/ rec.type = "part" /\ (rec.data = NotData \/ Get(rec.data, "type") = Absent)
             -> BaseEntry(rec, "malformed", Absent, Absent, Absent)
        [] rec.type = "part" /\ rec.data # NotData /\ Get(rec.data, "type") # Absent
             -> BaseEntry(rec, IF rec.data.type \in KnownEntryParts THEN rec.data.type
                               ELSE "unknown_part",
                          field("sessionID"), field("messageID"), field("id"))
        [] rec.type = "session" /\ rec.data # NotData
             -> BaseEntry(rec, "session", field("id"), Absent, field("id"))
        [] rec.type = "message" /\ rec.data # NotData
             -> BaseEntry(rec, "message", field("sessionID"), field("id"), field("id"))
        [] \/ rec.type \in ArrayTypes
           \/ rec.type \in {"session", "message"} /\ rec.data = NotData
             -> BaseEntry(rec, rec.type, Absent, Absent, Absent)

RawLog(log) == [i \in DOMAIN EventsOf(log) |-> RawEntry(EventsOf(log)[i])]

-----------------------------------------------------------------------------
(* The first id an entry has, or its position.                             *)
AnyID(entry) ==
  Or(entry.itemID, Or(entry.messageID, Or(entry.sessionID, <<"raw", entry.rawIndex>>)))

(* Broken variant: every node is named by its kind and its own id.         *)
NodeIDByKind(entry) == <<entry.kind, AnyID(entry)>>

NodeID(entry) ==
  CASE entry.kind = "session" /\ entry.sessionID # Absent -> <<"session", entry.sessionID>>
    [] entry.kind = "message" /\ entry.messageID # Absent -> <<"message", entry.messageID>>
    [] entry.kind # "message" /\ Absent \notin {entry.messageID, entry.itemID}
         -> <<"part", <<entry.messageID, entry.itemID>>>>
    [] OTHER -> <<entry.kind, AnyID(entry)>>

(* messageNodeID and the session's: by the current id, or by the key.      *)
EntityNode(latest, type, key) ==
  <<type, Or(Get(CurrentOf(latest, type, key), "id"), key)>>

PartNode(latest, key) == <<"part", Or(PartKey(CurrentOf(latest, "part", key)), key)>>

Edge(latest, type, key, from, to, kind) ==
  [from |-> from, to |-> to, type |-> kind, sourceIndexes |-> Sources(latest, type, key)]

(* addUpdateEdges: from each version to the next.  Their ends carry the    *)
(* raw index of the version and are no nodes of the graph.                 *)
UpdateEdges(latest, type, key) ==
  LET history == latest[type][key]
      version(i) == <<type, key, history[i].sourceIndex.rawItemIndex>>
  IN  {[from |-> version(i - 1), to |-> version(i), type |-> "same_identity_update",
        sourceIndexes |-> <<history[i - 1].sourceIndex, history[i].sourceIndex>>] :
         i \in 2..Len(history)}

(* An edge from the entity that the current version names in a field.      *)
ReferenceEdges(latest, type, field, from(_), to(_), kind) ==
  {Edge(latest, type, key, from(Get(CurrentOf(latest, type, key), field)), to(key), kind) :
     key \in {k \in DOMAIN latest[type] : Get(CurrentOf(latest, type, k), field) # Absent}}

Graph(latest, entries) ==
  LET session(id) == <<"session", id>>
      message(id) == <<"message", id>>
      messageNode(key) == EntityNode(latest, "message", key)
      sessionNode(key) == EntityNode(latest, "session", key)
      partNode(key) == PartNode(latest, key)
      members(type, field) ==
        [id \in {Get(CurrentOf(latest, type, key), field) : key \in DOMAIN latest[type]} \ {Absent} |->
           Filter(InOrder(latest, type),
                     LAMBDA key : Get(CurrentOf(latest, type, key), field) = id)]
  IN  [nodes |-> {NodeID(entries[i]) : i \in DOMAIN entries},
       references |->
         ReferenceEdges(latest, "message", "sessionID", session, messageNode, "session_message")
         \cup ReferenceEdges(latest, "message", "parentID", message, messageNode, "assistant_parent")
         \cup ReferenceEdges(latest, "part", "messageID", message, partNode, "message_part")
         \cup {edge \in ReferenceEdges(latest, "session", "parentID", session, sessionNode,
                                       "session_parent") : edge.from # session(Empty)},
       updates |-> UNION {UNION {UpdateEdges(latest, type, key) : key \in DOMAIN latest[type]} :
                            type \in ObjectTypes},
       messagesBySessionID |-> members("message", "sessionID"),
       partsByMessageID |-> members("part", "messageID")]
=============================================================================
