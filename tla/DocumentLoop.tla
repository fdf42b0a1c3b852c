---------------------------- MODULE DocumentLoop ----------------------------
(***************************************************************************)
(* The forEach loops of normalizeShareItems and buildLatestState as a      *)
(* state machine: each step reads the next record of the share's events.   *)
(***************************************************************************)
EXTENDS OpenCodeDocument

CONSTANTS
  Inputs,     \* the [type, data] pairs events consist of
  MaxRecords  \* bound: records of one share

(* A JSON object: finitely many fields, its times are numbers.             *)
IsObject(data) ==
  /\ data = [field \in DOMAIN data |-> data[field]]
  /\ IsFiniteSet(DOMAIN data)
  /\ \A field \in DOMAIN data \cap {"created", "updated", "end"} : data[field] \in Nat

ASSUME InputAssumption ==
  \A input \in Inputs :
    /\ input.type \in Types \cup {"malformed", "unknown"}
    /\ input.data = NotData \/ IsObject(input.data)

ASSUME BoundAssumption == MaxRecords \in Nat

(* Ids are names that OpenCode makes up; none is one of the names that the *)
(* code makes from a position.  A value makes a key, which is defined.     *)
ASSUME NameAssumption ==
  \A input \in Inputs : input.data # NotData =>
    /\ \A field \in DOMAIN input.data : <<input.data[field]>> # Absent
    /\ \A field \in DOMAIN input.data \cap {"id", "sessionID", "parentID"} :
         input.data[field] \notin (Types \cup {"raw"}) \X Nat

(* Keys that the code joins from several ids are lists; an id is none.     *)
(* What is undefined is neither a text nor an object.                      *)
IDFields == {"id", "messageID", "callID", "sessionID"}

GivenIDs ==
  UNION {{input.data[field] : field \in DOMAIN input.data \cap IDFields} :
           input \in {i \in Inputs : i.data # NotData}}

ASSUME ListAssumption == \A id \in GivenIDs : id \notin Seq(GivenIDs)

ASSUME UndefinedAssumption ==
  /\ Absent # "user"
  /\ \A input \in Inputs : input.data # NotData => input.data # Absent

VARIABLES
  log,   \* the records read so far
  doc    \* what the loops have built from them

vars == <<log, doc>>

Init == log = <<>> /\ doc = EmptyDocument

LastRecord == log[Len(log)]

(* The position of the next record: the next event, or the next entry of   *)
(* the array the last one came from.                                       *)
NextEvent == IF log = <<>> THEN 0 ELSE LastRecord.rawItemIndex + 1

InArray(type) == log # <<>> /\ LastRecord.type = type /\ type \in ArrayTypes /\ LastRecord.data # NotData

Record(input, rawItemIndex, arrayOffset) ==
  [type |-> input.type, data |-> input.data,
   rawItemIndex |-> rawItemIndex, arrayOffset |-> arrayOffset]

Read(rec) ==
  /\ Len(log) < MaxRecords
  /\ log' = Append(log, rec)
  /\ doc' = ReadRecord(doc, rec)

ReadEvent == \E input \in Inputs : Read(Record(input, NextEvent, 0))

ReadArrayEntry ==
  \E input \in Inputs :
    /\ InArray(input.type)
    /\ Read(Record(input, LastRecord.rawItemIndex, LastRecord.arrayOffset + 1))

Next == ReadEvent \/ ReadArrayEntry

Spec == Init /\ [][Next]_vars

-----------------------------------------------------------------------------
(* Properties.                                                             *)

Entries(type, key) ==
  {n \in DOMAIN log : /\ log[n].type = type /\ Recorded(log[n])
                      /\ LatestKey(log[n]) = key}

(* Every version of every entity is kept once, in the order of the events, *)
(* under its identity, with the index of the event it came from; the one   *)
(* shown is the last one the events carry.  What the debug drawer and the  *)
(* provenance inspector say about an entity rests on this.                 *)
HistoryOf(type, key) ==
  LET history == doc.latest[type][key]
  IN  \E at \in [DOMAIN history -> Entries(type, key)] :
        /\ \A i, j \in DOMAIN history : i < j => at[i] < at[j]
        /\ {at[i] : i \in DOMAIN history} = Entries(type, key)
        /\ \A i \in DOMAIN history :
             history[i] = [value |-> log[at[i]].data, sourceIndex |-> Source(log[at[i]])]

ProvenanceIsExact ==
  \A type \in Types :
    /\ DOMAIN doc.latest[type] =
         {LatestKey(log[n]) : n \in {m \in DOMAIN log : log[m].type = type /\ Recorded(log[m])}}
    /\ \A key \in DOMAIN doc.latest[type] : HistoryOf(type, key)

(* As more events arrive, what the page knows of an entity never gets      *)
(* poorer: a late or repeated older version does not undo a completion or  *)
(* an update time that was reached.                                        *)
NeverPoorer ==
  [][\A type \in Types : \A key \in DOMAIN doc.normalized[type] :
       ~Richer(doc.normalized[type][key].value, doc'.normalized[type][key].value)]_vars

(* The two views of the events, the normalised one behind the page's       *)
(* counts and the latest one behind its messages, know the same sessions,  *)
(* messages, parts and files, first seen at the same event, in every share *)
(* the page is willing to show.                                            *)
ViewsAgree ==
  ~Corrupt(doc) =>
    \A type \in Types \ {"model"} :
      /\ DOMAIN doc.normalized[type] = DOMAIN doc.latest[type]
      /\ \A key \in DOMAIN doc.latest[type] :
           doc.normalized[type][key].firstIndex = doc.latest[type][key][1].sourceIndex
=============================================================================
