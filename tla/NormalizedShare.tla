-------------------------- MODULE NormalizedShare --------------------------
(***************************************************************************)
(* The result of normalizeShareItems once its loop is done: the session    *)
(* the header describes, messages and parts in order and grouped, and the  *)
(* index of the raw items.  "normalized" is the loop's entries by type and *)
(* key, "events" one record per event.                                     *)
(***************************************************************************)
EXTENDS OpenCodeDocument, Listings, SequencesExt

ValueOf(normalized, type, key) == normalized[type][key].value

FirstSeen(normalized, type, key) == normalized[type][key].firstIndex.rawItemIndex

(* latestEntry: the richest entry, of equally rich ones the earliest.      *)
LatestEntry(normalized, type) ==
  CHOOSE key \in DOMAIN normalized[type] :
    \A other \in DOMAIN normalized[type] \ {key} :
      LET value == ValueOf(normalized, type, key)
          rival == ValueOf(normalized, type, other)
      IN  \/ Richer(value, rival)
          \/ /\ ~Richer(rival, value)
             /\ FirstSeen(normalized, type, key) < FirstSeen(normalized, type, other)

Session(normalized) ==
  IF DOMAIN normalized["session"] = {} THEN <<>>
  ELSE ValueOf(normalized, "session", LatestEntry(normalized, "session"))

(* Creation times, undefined after every number, then arrival.             *)
SortedBefore(normalized) ==
  LET keys == DOMAIN normalized["message"]
      created(key) == Get(ValueOf(normalized, "message", key), "created")
  IN  {pair \in keys \X keys :
         IF created(pair[1]) = created(pair[2])
         THEN FirstSeen(normalized, "message", pair[1]) < FirstSeen(normalized, "message", pair[2])
         ELSE /\ created(pair[1]) # Absent
              /\ created(pair[2]) = Absent \/ created(pair[1]) < created(pair[2])}

SortMessages(normalized) == Listed(DOMAIN normalized["message"], SortedBefore(normalized))

SeenBefore(normalized) ==
  LET keys == DOMAIN normalized["part"]
  IN  {pair \in keys \X keys :
         FirstSeen(normalized, "part", pair[1]) < FirstSeen(normalized, "part", pair[2])}

(* Broken variant: parts are sorted by their identity's last arrival.      *)
SortPartsReversed(normalized) ==
  LET keys == DOMAIN normalized["part"]
  IN  Listed(keys, (keys \X keys) \ (SeenBefore(normalized) \cup {pair \in keys \X keys : pair[1] = pair[2]}))

(* An event is one part, so no two parts share an index and partTime, the  *)
(* second criterion, never decides.                                        *)
SortParts(normalized) == Listed(DOMAIN normalized["part"], SeenBefore(normalized))

(* groupMessages, groupParts: the keys that share the value of a field.    *)
GroupBy(normalized, type, keys, field) ==
  LET group(i) == Or(Get(ValueOf(normalized, type, keys[i]), field), Empty)
  IN  [value \in {group(i) : i \in DOMAIN keys} |->
         Kept(keys, {i \in DOMAIN keys : group(i) = value})]

(* The raw items as lists of their indexes.                                *)
RawIndex(events, warnings) ==
  LET all == [i \in DOMAIN events |-> events[i].rawItemIndex]
      typed(type) == Filter(events, LAMBDA event : event.type = type)
      of(code) == {w.index : w \in {v \in warnings : v.code \in code}}
  IN  [all |-> all,
       byType |-> [type \in {events[i].type : i \in DOMAIN events} \ {"malformed"} |->
                     [i \in DOMAIN typed(type) |-> typed(type)[i].rawItemIndex]],
       unknownTopLevel |-> of({"unknown_top_level_type"}),
       malformed |-> of({"malformed_item", "malformed_data"})]

NormalizedShareData(normalized, events, warnings) ==
  LET messages == SortMessages(normalized)
  IN  [session |-> Session(normalized),
       messages |-> messages,
       messagesBySessionID |-> GroupBy(normalized, "message", messages, "sessionID"),
       partsByMessageID |-> GroupBy(normalized, "part", SortParts(normalized), "messageID"),
       rawIndex |-> RawIndex(events, warnings),
       warnings |-> warnings]
=============================================================================
