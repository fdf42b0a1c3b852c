--------------------------- MODULE SharedSession ---------------------------
(***************************************************************************)
(* A session from the client that syncs it to the page that shows it: what *)
(* the page shows for the events the backend keeps.  The client may mark   *)
(* its events with a "_key" or not, may repeat a sync whose answer was     *)
(* lost, and its syncs may reach the backend in another order.             *)
(***************************************************************************)
EXTENDS ReaderPlan, ShareMerge

CONSTANTS
  Batches,    \* what one sync sends: sequences of [type, data] events
  MaxEvents   \* bound: events of one share

Events == UNION {{batch[i] : i \in DOMAIN batch} : batch \in Batches}

VARIABLES
  log,     \* the share's events when they carry no "_key"
  keyed,   \* the share's events when each carries its entity's "_key"
  last     \* the last accepted sync

vars == <<log, keyed, last>>

(* The "_key" a client gives an event: its entity.                         *)
EntityKey(event) == <<event.type, LatestKey([type |-> event.type, data |-> event.data,
                                             rawItemIndex |-> 0, arrayOffset |-> 0])>>

Keyed(event) == [key |-> EntityKey(event), event |-> event]

Unkeyed(event) == [key |-> NoKey, event |-> event]

(* Every event says which entity it is a version of: the page refuses a    *)
(* share with a message or a part that does not.                           *)
ASSUME EventAssumption ==
  /\ \A batch \in Batches : batch \in Seq(Events)
  /\ \A event \in Events :
       /\ event.type \in Types /\ event.data # NotData /\ OwnKey(event) # Absent
       /\ EntityKey(event) # NoKey

(* Creation times are in milliseconds since 1970, so later than any index. *)
ASSUME TimeAssumption ==
  /\ MaxEvents \in Nat
  /\ \A event \in Events :
       LET created == Get(event.data, "created")
       IN  event.type = "message" /\ created # Absent => created \in Nat /\ created >= MaxEvents

(* A part's side event is named by its message and the part; no message    *)
(* bears such a name.                                                      *)
ASSUME NameAssumption ==
  \A one, two, part \in Events :
    one.type = "message" /\ two.type = "message" /\ part.type = "part" =>
      Get(one.data, "id") # <<Get(two.data, "id"), Get(part.data, "id")>>

MergeBatch(items, batch) == FoldLeft(MergeData, items, batch)

Init == log = <<>> /\ keyed = <<>> /\ last = <<>>

Accept(batch) ==
  /\ Len(log) + Len(batch) <= MaxEvents
  /\ log' = MergeBatch(log, [i \in DOMAIN batch |-> Unkeyed(batch[i])])
  /\ keyed' = MergeBatch(keyed, [i \in DOMAIN batch |-> Keyed(batch[i])])
  /\ last' = batch

Sync == \E batch \in Batches : Accept(batch)

(* The answer to the last sync was lost and the client sends it again.     *)
RetrySync == last # <<>> /\ Accept(last)

Next == Sync \/ RetrySync

Spec == Init /\ [][Next]_vars

-----------------------------------------------------------------------------
(* What a page loaded now would show.                                      *)
RecordOf(item, index) ==
  [type |-> item.event.type, data |-> item.event.data,
   rawItemIndex |-> index, arrayOffset |-> 0]

Document(items) ==
  FoldLeft(ReadRecord, EmptyDocument, [i \in DOMAIN items |-> RecordOf(items[i], i - 1)])

Latest(items) == Document(items).latest

Shown(items) ==
  LET visible == VisibleMessages(Latest(items))
  IN  [i \in DOMAIN visible |-> <<visible[i].info, visible[i].parts>>]

PlanNow == Plan(Latest(log))

Narrated == {PlanNow.narrative[i].id : i \in DOMAIN PlanNow.narrative}

IsMessageEvent(event) ==
  event.kind \in {"injected_message", "assistant_after_injection", "non_dialog_message"}

-----------------------------------------------------------------------------
(* Properties.                                                             *)

(* Whether the client marks its events with keys, so that the backend      *)
(* replaces them in place, or not, so that it keeps them all, the page     *)
(* shows the same messages with the same parts in the same order.          *)
KeysDoNotShow == Shown(keyed) = Shown(log)

(* Repeating the last sync changes nothing on the page, keyed or not.      *)
RetryIsInvisible ==
  [][log' # log /\ last' = last => Shown(log') = Shown(log) /\ Shown(keyed') = Shown(keyed)]_vars

(* Events of different entities may overtake each other: parts before      *)
(* their message, an answer before its question.  Only the order of parts  *)
(* of one message, and of messages the page knows no different creation    *)
(* times of, is taken from the order of arrival.                           *)
CreatedNow(event) == Get(CurrentOf(Latest(log), "message", EntityKey(event)[2]), "created")

OrderMatters(a, b) ==
  \/ EntityKey(a) = EntityKey(b)
  \/ a.type = "part" /\ b.type = "part" /\ a.data.messageID = b.data.messageID
  \/ a.type = "message" /\ b.type = "message" /\ CreatedNow(a) = CreatedNow(b)

Swapped(items, i) == [items EXCEPT ![i] = items[i + 1], ![i + 1] = items[i]]

OvertakingIsInvisible ==
  \A i \in 1..Len(log) - 1 :
    ~OrderMatters(log[i].event, log[i + 1].event) => Shown(Swapped(log, i)) = Shown(log)

(* Every message is shown exactly once, in the narrative or aside.         *)
MessagesPlacedOnce ==
  LET visible == VisibleMessages(Latest(log))
      aside == {n \in DOMAIN PlanNow.sideEvents : IsMessageEvent(PlanNow.sideEvents[n])}
  IN  /\ Len(PlanNow.narrative) + Cardinality(aside) = Len(visible)
      /\ Narrated \cup {PlanNow.sideEvents[n].id : n \in aside} =
           {MessageID(visible[i]) : i \in DOMAIN visible}

(* A tool run points to the narrative exactly if its message is shown      *)
(* there, and to a side event exactly if it is shown aside, whatever order *)
(* parts, messages and the marks of an injection arrive in.                *)
ToolRunsFollowMessages ==
  LET runs == ToolRuns(Latest(log))
      visible == VisibleMessages(Latest(log))
  IN  \A i \in DOMAIN runs, j \in DOMAIN visible :
        Get(runs[i].part, "messageID") = MessageID(visible[j]) =>
          /\ runs[i].narrativeMessageID # Absent <=> MessageID(visible[j]) \in Narrated
          /\ runs[i].sideEventID # Absent <=>
               \E n \in DOMAIN PlanNow.sideEvents :
                 PlanNow.sideEvents[n].id = MessageID(visible[j])

(* "keeps OC and OMO injected user reminders and assistant-after-injection *)
(* out of main narrative" (layout.test.ts:91): no answer to an injected    *)
(* message is narrated, ...                                                *)
InjectedMessages ==
  LET visible == VisibleMessages(Latest(log))
  IN  {MessageID(visible[i]) : i \in {j \in DOMAIN visible :
         /\ Get(visible[j].info, "role") = "user"
         /\ MessageTexts(visible[j]) \cap InjectedTexts # {}}}

AnswersToInjectedStayAside ==
  \A i \in DOMAIN PlanNow.narrative :
    /\ PlanNow.narrative[i].id \notin InjectedMessages
    /\ ParentID(PlanNow.narrative[i].entry) \notin InjectedMessages

(* ... which holds as long as every question is sorted before its answer.  *)
QuestionsComeFirst ==
  LET visible == VisibleMessages(Latest(log))
  IN  \A i, j \in DOMAIN visible :
        ParentID(visible[i]) = MessageID(visible[j]) => j < i

OrderedAnswersStayAside == QuestionsComeFirst => AnswersToInjectedStayAside
=============================================================================
