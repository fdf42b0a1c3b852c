-------------------------- MODULE OpenCodeDocument --------------------------
(***************************************************************************)
(* How the page reads a share's events: normalizeShareItems, which merges  *)
(* the versions of an entity into the richest one, and buildLatestState,   *)
(* which keeps every version and shows the last.  Both run over the same   *)
(* events; here each operator takes one record at a time.                  *)
(*                                                                         *)
(* A record is one JSON object of an event: the data of a session, message *)
(* or part, or one entry of the array of a session_diff or model event.    *)
(* Its data is a function from the fields it has (nested ones by their     *)
(* leaf: time.completed is "completed") to their values.                   *)
(***************************************************************************)
EXTENDS Naturals, Sequences, FiniteSets

CONSTANTS
  Absent,     \* undefined
  Empty,      \* the empty string
  NotData     \* data, or an array entry, that is no object

ObjectTypes == {"session", "message", "part"}
ArrayTypes  == {"session_diff", "model"}
Types       == ObjectTypes \cup ArrayTypes

KnownPartTypes == {"text", "reasoning", "tool", "tool-call", "step-start",
                   "step-finish", "patch", "compaction"}

(* Where a record stands: its event's raw index and its place in the array *)
Source(rec) == [rawItemIndex |-> rec.rawItemIndex, arrayOffset |-> rec.arrayOffset]

Get(data, field) == IF field \in DOMAIN data THEN data[field] ELSE Absent

(* stringField, stringValue: a non-empty string or undefined.              *)
StringField(data, field) ==
  IF Get(data, field) = Empty THEN Absent ELSE Get(data, field)

Number(data, field) == IF Get(data, field) = Absent THEN 0 ELSE data[field]

(* A Map or object used as a map: set or replace the value of a key.       *)
Put(map, key, value) ==
  [k \in DOMAIN map \cup {key} |-> IF k = key THEN value ELSE map[k]]

-----------------------------------------------------------------------------
(* Identity.  NormalizedKey is Absent where normalize.ts refuses the data; *)
(* opencode.ts always finds a key, with the position as the last resort.   *)
IDKey(data) ==
  IF StringField(data, "id") = Absent THEN Absent ELSE <<StringField(data, "id")>>

FallbackKey(rec) ==
  IF rec.type \in ArrayTypes THEN <<rec.type, rec.arrayOffset>>
  ELSE <<rec.type, rec.rawItemIndex>>

PartKey(data) ==
  IF Absent \in {StringField(data, "id"), StringField(data, "messageID")} THEN Absent
  ELSE <<StringField(data, "messageID"), StringField(data, "id")>>

FileKey(data) ==
  IF StringField(data, "file") = Absent THEN Absent ELSE <<StringField(data, "file")>>

Or(key, fallback) == IF key = Absent THEN fallback ELSE key

NormalizedModelKey(data) ==
  IF StringField(data, "id") # Absent \/ StringField(data, "providerID") # Absent
  THEN <<StringField(data, "providerID"), StringField(data, "id")>>
  ELSE IF StringField(data, "name") # Absent THEN <<StringField(data, "name")>>
  ELSE Absent

NormalizedKey(rec) ==
  CASE rec.type = "session"      -> Or(IDKey(rec.data), FallbackKey(rec))
    [] rec.type = "message"      -> IDKey(rec.data)
    [] rec.type = "part"         -> PartKey(rec.data)
    [] rec.type = "session_diff" -> Or(FileKey(rec.data), FallbackKey(rec))
    [] rec.type = "model"        -> Or(NormalizedModelKey(rec.data), FallbackKey(rec))

(* data.id ?? data.name: an id that is the empty string hides the name.    *)
LatestModelKey(data) ==
  LET id == IF Get(data, "id") = Absent THEN StringField(data, "name")
            ELSE StringField(data, "id")
  IN  IF Absent \in {StringField(data, "providerID"), id} THEN Absent
      ELSE <<StringField(data, "providerID"), id>>

(* Broken variant: parts are told apart by their position alone.           *)
LatestKeyPositional(rec) ==
  IF rec.type = "part" \/ IDKey(rec.data) = Absent THEN FallbackKey(rec)
  ELSE IDKey(rec.data)

(* The key the data itself gives, Absent where it gives none.              *)
OwnKey(rec) ==
  CASE rec.type \in {"session", "message"} -> IDKey(rec.data)
    [] rec.type = "part"                   -> PartKey(rec.data)
    [] rec.type = "session_diff"           -> FileKey(rec.data)
    [] rec.type = "model"                  -> LatestModelKey(rec.data)

LatestKey(rec) == Or(OwnKey(rec), FallbackKey(rec))

-----------------------------------------------------------------------------
(* Richness: completed, with output, updated later, ended later, more      *)
(* fields that say something; compared in this order.                      *)
HasCompletedTime(data) == Get(data, "completed") # Absent

HasOutput(data) == Get(data, "output") \notin {Absent, Empty}

MeaningfulKeys(data) == {field \in DOMAIN data : data[field] \notin {Absent, Empty}}

(* The first check that differs decides.                                   *)
Richer(left, right) ==
  LET lc == HasCompletedTime(left)   rc == HasCompletedTime(right)
      lo == HasOutput(left)          ro == HasOutput(right)
      lu == Number(left, "updated")  ru == Number(right, "updated")
      le == Number(left, "end")      re == Number(right, "end")
  IN  \/ lc /\ ~rc
      \/ lc = rc /\ lo /\ ~ro
      \/ lc = rc /\ lo = ro /\ lu > ru
      \/ lc = rc /\ lo = ro /\ lu = ru /\ le > re
      \/ /\ lc = rc /\ lo = ro /\ lu = ru /\ le = re
         /\ Cardinality(MeaningfulKeys(left)) > Cardinality(MeaningfulKeys(right))

(* Broken variant: the loser's fields win where both have one.             *)
DeepMergeSwapped(base, override) ==
  [field \in DOMAIN base \cup DOMAIN override |->
     IF field \in DOMAIN base THEN base[field] ELSE override[field]]

DeepMerge(base, override) ==
  [field \in DOMAIN base \cup DOMAIN override |->
     IF field \in DOMAIN override THEN override[field] ELSE base[field]]

(* mergeRicher with preferRightOnTie.                                      *)
MergeRicher(left, right) ==
  IF Richer(left, right) THEN DeepMerge(right, left) ELSE DeepMerge(left, right)

(* Broken variant: an update moves the entry to the update's position.     *)
MergeEntryMoving(map, key, data, source) ==
  Put(map, key, [value |-> IF key \in DOMAIN map THEN MergeRicher(map[key].value, data)
                           ELSE data,
                 firstIndex |-> source])

MergeEntry(map, key, data, source) ==
  Put(map, key, IF key \in DOMAIN map
                THEN [map[key] EXCEPT !.value = MergeRicher(map[key].value, data)]
                ELSE [value |-> data, firstIndex |-> source])

(* Broken variant: an entity's later versions replace its history.         *)
UpsertOnly(map, key, data, source) ==
  Put(map, key, <<[value |-> data, sourceIndex |-> source]>>)

(* upsertVersion: the last element of the history is the current version.  *)
UpsertVersion(map, key, data, source) ==
  Put(map, key, (IF key \in DOMAIN map THEN map[key] ELSE <<>>)
                  \o <<[value |-> data, sourceIndex |-> source]>>)

Current(history) == history[Len(history)].value

-----------------------------------------------------------------------------
NoEntries == [type \in Types |-> <<>>]

EmptyDocument ==
  [normalized |-> NoEntries, latest |-> NoEntries, warnings |-> {}]

Warning(code, rec) == [code |-> code, index |-> rec.rawItemIndex]

WarnIf(condition, code, rec) == IF condition THEN {Warning(code, rec)} ELSE {}

(* mergePartItem looks at the subtype before it looks for a key.           *)
DataWarnings(rec) ==
  IF rec.type = "part" /\ StringField(rec.data, "type") = Absent
  THEN {Warning("malformed_data", rec)}
  ELSE WarnIf(rec.type = "part" /\ rec.data.type \notin KnownPartTypes,
              "unknown_part_type", rec)
       \cup WarnIf(NormalizedKey(rec) = Absent, "malformed_data", rec)

RecordWarnings(rec) ==
  CASE rec.type = "malformed" -> {Warning("malformed_item", rec)}
    [] rec.type \in Types     -> IF rec.data = NotData THEN {Warning("malformed_data", rec)}
                                 ELSE DataWarnings(rec)
    [] OTHER                  -> {Warning("unknown_top_level_type", rec)}

Malformed(rec) ==
  \E w \in RecordWarnings(rec) : w.code \in {"malformed_item", "malformed_data"}

Recorded(rec) == rec.type \in Types /\ rec.data # NotData

Normalize(entries, rec) ==
  IF rec.type \notin Types \/ Malformed(rec) THEN entries
  ELSE [entries EXCEPT ![rec.type] =
          MergeEntry(entries[rec.type], NormalizedKey(rec), rec.data, Source(rec))]

Upsert(entries, rec) ==
  IF ~Recorded(rec) THEN entries
  ELSE [entries EXCEPT ![rec.type] =
          UpsertVersion(entries[rec.type], LatestKey(rec), rec.data, Source(rec))]

ReadRecord(doc, rec) ==
  [normalized |-> Normalize(doc.normalized, rec),
   latest     |-> Upsert(doc.latest, rec),
   warnings   |-> doc.warnings \cup RecordWarnings(rec)]

(* createShareViewModel refuses to show such a share.                      *)
Corrupt(doc) ==
  \E w \in doc.warnings : w.code \in {"malformed_item", "malformed_data"}
=============================================================================
