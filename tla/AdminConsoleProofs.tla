------------------------- MODULE AdminConsoleProofs -------------------------
(***************************************************************************)
(* Proofs about the administrator's page for any number of overlapping     *)
(* saves, shares and owners: its buttons are disabled only for a save that *)
(* is out, and a completed save shows a state no older than itself.        *)
(***************************************************************************)
EXTENDS AdminConsole, TLAPS, FiniteSetTheorems

-----------------------------------------------------------------------------
(* The inductive invariant, in parts.                                      *)

Slots == Tasks \cup Others

BackendInv ==
  /\ DOMAIN db = IDs /\ IsFiniteSet(Stored(db))
  /\ DOMAIN phase = Slots /\ DOMAIN call = Slots /\ DOMAIN reply = Slots
  /\ \A r \in Slots : phase[r] # "idle" => call[r] \in OtherCalls \cup AdminCalls

IsTask(x) == x = [kind |-> x.kind, id |-> x.id, stage |-> x.stage]

PageInv ==
  /\ DOMAIN task = Tasks /\ DOMAIN since = Tasks
  /\ \A t \in Tasks : IsTask(task[t])

(* Before onMount there are no rows, so nothing can be clicked.            *)
FreshInv ==
  ~mounted => shares = <<>> /\ busyID = NoID /\ \A t \in Tasks : task[t].stage = "none"

(* The request of a task that is out is the one the task waits for.        *)
OwnRequest(t) ==
  task[t].stage = "list" /\ phase[t] # "idle" => call[t] = ListShares

(* A listing that has been made names ids and, for a save, shows of its    *)
(* row what could be shown since its PUT took effect.                      *)
ListedIDs(rows) == {rows[i].id : i \in DOMAIN rows}

ListingIsFresh(t) ==
  task[t].stage = "list" /\ phase[t] = "answered" =>
    /\ ListedIDs(reply[t].body) \subseteq IDs
    /\ task[t].kind = "save" => RowText(reply[t].body, task[t].id) \in since[t]

(* A save whose PUT was accepted has noted a state of its row.             *)
AcceptedIsNoted(t) ==
  /\ task[t].kind = "save"
  /\ \/ task[t].stage \in {"reload", "list"}
     \/ task[t].stage = "put" /\ phase[t] = "answered" /\ reply[t].status = "ok"
  => since[t] # {}

TaskInv(t) == OwnRequest(t) /\ ListingIsFresh(t) /\ AcceptedIsNoted(t)

TasksInv == \A t \in Tasks : TaskInv(t)

IInv == BackendInv /\ PageInv /\ FreshInv /\ TypeOK /\ BusyRowIsSaving /\ TasksInv

-----------------------------------------------------------------------------
(* Facts about the backend's outcomes.                                     *)

LEMMA CallKinds ==
  ASSUME NEW c \in OtherCalls \cup AdminCalls
  PROVE  /\ c \in Call
         /\ c \in WriteCall => c.op \in {"Create", "Sync", "SetPassword", "Remove"}
         /\ c \notin WriteCall => c.op \in {"List", "Get", "Data", "CheckViewPassword",
                                            "DataWithPassword"}
<1>1. c \in Call
  BY AdminAssumption DEF AdminCalls, ListShares, Call, ReadCall, ListCall, WriteCall, SetPasswordCall
<1>. QED
  BY <1>1 DEF Call, ReadCall, WriteCall, CreateCall, SyncCall, SetPasswordCall, RemoveCall,
              LookupCall, PasswordCall, ListCall

(* The instance of the backend has the same calls and summaries.           *)
LEMMA SameTypes ==
  /\ API!WriteCall = WriteCall
  /\ \A d : API!Stored(d) = Stored(d)
  /\ \A d, id : API!Summary(d, id) = Summary(d, id)
<1>1. API!WriteCall = WriteCall
  BY DEF API!WriteCall, WriteCall, API!CreateCall, CreateCall, API!SyncCall, SyncCall,
         API!SetPasswordCall, SetPasswordCall, API!RemoveCall, RemoveCall, API!Item, Item
<1>2. \A d : API!Stored(d) = Stored(d)
  BY DEF API!Stored, Stored
<1>3. \A d, id : API!Summary(d, id) = Summary(d, id)
  BY DEF API!Summary, Summary
<1>. QED
  BY <1>1, <1>2, <1>3

(* A call changes at most the share it names.                              *)
Local(d, id, e) == DOMAIN e = DOMAIN d /\ \A other \in DOMAIN d \ {id} : e[other] = d[other]

LEMMA LocalFacts ==
  ASSUME NEW d, NEW id
  PROVE  /\ \A answer : Local(d, id, API!Outcome(d, answer).db)
         /\ \A share, answer : Local(d, id, API!Outcome([d EXCEPT ![id] = share], answer).db)
         /\ \A share : \A o \in API!Updated(d, id, share) : Local(d, id, o.db)
<1>1. \A e, answer : API!Outcome(e, answer).db = e
  BY DEF API!Outcome
<1>2. Local(d, id, d) /\ \A share : Local(d, id, [d EXCEPT ![id] = share])
  BY DEF Local
<1>3. ASSUME NEW share, NEW o \in API!Updated(d, id, share) PROVE Local(d, id, o.db)
  <2>1. PICK t : o = API!Outcome([d EXCEPT ![id] = API!Encode([share EXCEPT !.updatedAt = t])],
                                 API!Failure("ok"))
    BY <1>3 DEF API!Updated
  <2>. QED
    BY <1>1, <1>2, <2>1
<1>. QED
  BY <1>1, <1>2, <1>3

LEMMA CreatedOutcome ==
  ASSUME NEW d, NEW c, c.id \in ValidIDs, d[c.id] = NoShare, NEW o \in API!CreateOutcomes(d, c)
  PROVE  \E share, answer : o = API!Outcome([d EXCEPT ![c.id] = share], answer)
<1>1. \E s \in Secrets \ API!LiveSecrets(d), t \in 0..clock :
        o = API!Outcome([d EXCEPT ![c.id] = [secret |-> s, data |-> <<>>,
                                             password |-> NoPassword,
                                             createdAt |-> t, updatedAt |-> t]],
                        API!Answer("ok", s))
  BY SMT DEF API!CreateOutcomes
<1>. QED
  BY <1>1

LEMMA OutcomeIsLocal ==
  ASSUME NEW d, NEW c \in OtherCalls \cup AdminCalls, NEW o \in API!Outcomes(d, c)
  PROVE  /\ Local(d, c.id, o.db)
         /\ c.op = "List" => /\ o.db = d /\ o.reply.status = "ok"
                             /\ o.reply.body \in API!Listings(d)
<1>1. CASE c \notin WriteCall
  <2>1. o \in API!ReadOutcomes(d, c)
    BY <1>1, SameTypes DEF API!Outcomes
  <2>2. c.op \in {"List", "Get", "Data", "CheckViewPassword", "DataWithPassword"}
    BY <1>1, CallKinds
  <2>3. CASE c.op = "List"
    <3>1. PICK l \in API!Listings(d) : o = API!Outcome(d, API!Answer("ok", l))
      BY <2>1, <2>3 DEF API!ReadOutcomes
    <3>. QED
      BY <3>1, LocalFacts DEF API!Outcome, API!Answer
  <2>4. CASE c.op # "List"
    <3>1. \E answer : o = API!Outcome(d, answer)
      BY <2>1, <2>2, <2>4 DEF API!ReadOutcomes, API!ViewOutcomes
    <3>. QED
      BY <3>1, <2>4, LocalFacts
  <2>. QED
    BY <2>3, <2>4
<1>2. CASE c \in WriteCall
  <2>1. o \in API!WriteOutcomes(d, c)
    BY <1>2, SameTypes DEF API!Outcomes
  <2>2. c.op \in {"Create", "Sync", "SetPassword", "Remove"}
    BY <1>2, CallKinds
  <2>3. CASE \E answer : o = API!Outcome(d, answer)
    <3>1. PICK answer : o = API!Outcome(d, answer)
      BY <2>3
    <3>2. Local(d, c.id, o.db)
      BY <3>1, LocalFacts
    <3>. QED
      BY <2>2, <3>2
  <2>4. CASE c.op = "Create" /\ o \in API!CreateOutcomes(d, c)
    <3>1. CASE c.id \notin ValidIDs \/ d[c.id] # NoShare
      <4>1. \/ o = API!Outcome(d, API!Failure("invalid_input"))
            \/ o = API!Outcome(d, API!Failure("already_exists"))
        BY <2>4, <3>1 DEF API!CreateOutcomes
      <4>. QED
        BY <2>3, <4>1
    <3>2. CASE c.id \in ValidIDs /\ d[c.id] = NoShare
      <4>1. PICK share, answer : o = API!Outcome([d EXCEPT ![c.id] = share], answer)
        BY <2>4, <3>2, CreatedOutcome
      <4>2. Local(d, c.id, o.db)
        BY <4>1, LocalFacts
      <4>. QED
        BY <2>4, <4>2
    <3>. QED
      BY <3>1, <3>2
  <2>5. CASE c.op = "Sync" /\ o \in API!SyncOutcomes(d, c)
    BY <2>5, LocalFacts DEF API!SyncOutcomes
  <2>6. CASE c.op = "SetPassword" /\ o \in API!SetPasswordOutcomes(d, c)
    BY <2>6, LocalFacts DEF API!SetPasswordOutcomes
  <2>7. CASE c.op = "Remove" /\ o \in API!RemoveOutcomes(d, c)
    BY <2>7, LocalFacts DEF API!RemoveOutcomes
  <2>. QED
    BY <2>1, <2>2, <2>3, <2>4, <2>5, <2>6, <2>7 DEF API!WriteOutcomes
<1>. QED
  BY <1>1, <1>2

(* A listing has a row for every stored share, with what it can show.      *)
LEMMA ListingShowsCurrent ==
  ASSUME NEW d, IsFiniteSet(Stored(d)), NEW rows \in API!Listings(d)
  PROVE  /\ ListedIDs(rows) \subseteq IDs
         /\ \A id \in IDs : RowText(rows, id) = CurrentText(d, id)
<1> DEFINE ids == Stored(d)
           n == Cardinality(ids)
<1>1. n \in Nat
  BY FS_CardinalityType
<1>2. PICK f \in [1..n -> ids] :
        /\ rows = [i \in 1..n |-> Summary(d, f[i])]
        /\ \A i, j \in 1..n : i < j => f[i] # f[j]
  <2>1. API!Listings(d) =
          {[i \in 1..n |-> Summary(d, f[i])] :
             f \in {g \in [1..n -> ids] :
                      \A i, j \in 1..n :
                         i < j => g[i] # g[j] /\ d[g[i]].updatedAt >= d[g[j]].updatedAt}}
    BY DEF API!Listings, API!Stored, Stored, API!Summary, Summary, API!Cardinality, Cardinality
  <2> HIDE DEF n, ids
  <2>. QED
    BY <2>1
<1>3. \A i \in 1..n : f[i] \in ids
  OBVIOUS
<1>4. ids \subseteq IDs /\ \A id \in IDs : id \in ids <=> d[id] # NoShare
  BY DEF Stored
<1>5. \A id \in ids : \E i \in 1..n : f[i] = id
  <2> DEFINE R == {f[i] : i \in 1..n}
  <2> HIDE DEF n, ids
  <2>1. f \in Surjection(1..n, R)
    BY DEF Surjection
  <2>2. f \in Injection(1..n, R)
    BY <1>1, <1>2 DEF Injection, IsInjective
  <2>3. IsFiniteSet(1..n) /\ Cardinality(1..n) = n
    BY <1>1, FS_Interval
  <2>4. Cardinality(R) = n
    BY <2>1, <2>2, <2>3, FS_Surjection
  <2>5. R \subseteq ids
    BY <1>3
  <2>6. R = ids
    BY <2>4, <2>5, FS_Subset DEF n, ids
  <2>. QED
    BY <2>6
<1>6. \A i \in 1..n : rows[i] = Summary(d, f[i]) /\ rows[i].id = f[i]
  BY <1>2 DEF Summary
<1>7. DOMAIN rows = 1..n
  BY <1>2
<1> HIDE DEF n, ids
<1>8. ListedIDs(rows) \subseteq IDs
  BY <1>3, <1>4, <1>6, <1>7 DEF ListedIDs
<1>9. ASSUME NEW id \in IDs PROVE RowText(rows, id) = CurrentText(d, id)
  <2> DEFINE text == PasswordText(Summary(d, id).hasPassword, Summary(d, id).usesDefaultPassword)
  <2>1. \A i \in 1..n : rows[i].id = id =>
          PasswordText(rows[i].hasPassword, rows[i].usesDefaultPassword) = text
    BY <1>6
  <2> HIDE DEF text
  <2>2. CASE id \in ids
    <3>1. RowText(rows, id) = {text}
      BY <1>5, <1>6, <1>7, <2>1, <2>2 DEF RowText
    <3>. QED
      BY <1>4, <2>2, <3>1 DEF CurrentText, text
  <2>3. CASE id \notin ids
    <3>1. RowText(rows, id) = {}
      BY <1>3, <1>6, <1>7, <2>3 DEF RowText
    <3>. QED
      BY <1>4, <2>3, <3>1 DEF CurrentText
  <2>. QED
    BY <2>2, <2>3
<1>. QED
  BY <1>8, <1>9
-----------------------------------------------------------------------------
(* The steps of the backend.                                               *)

(* A task that no step touches keeps its part of the invariant, also when  *)
(* more is noted about its row.                                            *)
LEMMA Untouched ==
  ASSUME NEW t \in Tasks, TaskInv(t),
         task'[t] = task[t], since[t] \subseteq since'[t],
         phase'[t] = phase[t], call'[t] = call[t], reply'[t] = reply[t]
  PROVE  TaskInv(t)'
BY DEF TaskInv, OwnRequest, ListingIsFresh, AcceptedIsNoted, RowText

(* A task that waits for nothing has nothing to keep.                      *)
LEMMA Waitless ==
  ASSUME NEW t \in Tasks, task'[t].stage \notin {"put", "list", "reload"}
  PROVE  TaskInv(t)'
BY DEF TaskInv, OwnRequest, ListingIsFresh, AcceptedIsNoted

LEMMA ReceiveStep ==
  ASSUME BackendInv, NEW r \in Slots, API!Receive(r)
  PROVE  /\ BackendInv'
         /\ phase' = [phase EXCEPT ![r] = "called"] /\ phase[r] = "idle" /\ phase'[r] = "called"
         /\ \A s \in Slots \ {r} : call'[s] = call[s] /\ phase'[s] = phase[s]
         /\ db' = db /\ reply' = reply
<1>1. PICK c \in OtherCalls \cup AdminCalls : call' = [call EXCEPT ![r] = c]
  BY DEF API!Receive
<1>2. phase[r] = "idle" /\ phase' = [phase EXCEPT ![r] = "called"] /\ db' = db /\ reply' = reply
  BY DEF API!Receive
<1>3. BackendInv'
  BY <1>1, <1>2 DEF BackendInv
<1>. QED
  BY <1>1, <1>2, <1>3 DEF BackendInv

LEMMA RespondStep ==
  ASSUME BackendInv, NEW r \in Slots, API!Respond(r)
  PROVE  /\ BackendInv' /\ phase[r] = "answered" /\ phase'[r] = "idle" /\ db' = db
         /\ \A s \in Slots \ {r} : call'[s] = call[s] /\ phase'[s] = phase[s] /\ reply'[s] = reply[s]
BY DEF API!Respond, BackendInv

LEMMA CrashStep ==
  ASSUME BackendInv, API!Crash
  PROVE  BackendInv' /\ \A r \in Slots : phase'[r] = "idle"
BY DEF API!Crash, BackendInv, Slots

(* One call takes effect; a listing shows what it leaves in the database.  *)
LEMMA EffectStep ==
  ASSUME BackendInv, NEW r \in Slots, API!TakeEffect(r)
  PROVE  /\ BackendInv' /\ phase[r] = "called" /\ phase'[r] = "answered" /\ call' = call
         /\ \A s \in Slots \ {r} : phase'[s] = phase[s] /\ reply'[s] = reply[s]
         /\ call[r] = ListShares => /\ reply'[r].status = "ok"
                                    /\ ListedIDs(reply'[r].body) \subseteq IDs
                                    /\ \A id \in IDs : RowText(reply'[r].body, id) = CurrentText(db', id)
<1>1. PICK o \in API!Outcomes(db, call[r]) : db' = o.db /\ reply' = [reply EXCEPT ![r] = o.reply]
  BY DEF API!TakeEffect
<1>2. /\ phase[r] = "called" /\ phase' = [phase EXCEPT ![r] = "answered"] /\ call' = call
  BY DEF API!TakeEffect
<1>3. call[r] \in OtherCalls \cup AdminCalls
  BY <1>2 DEF BackendInv
<1>4. /\ Local(db, call[r].id, db')
      /\ call[r].op = "List" => /\ db' = db /\ o.reply.status = "ok"
                                /\ o.reply.body \in API!Listings(db)
  BY <1>1, <1>3, OutcomeIsLocal
<1>5. DOMAIN db' = IDs /\ IsFiniteSet(Stored(db'))
  <2>1. DOMAIN db' = IDs /\ Stored(db') \subseteq Stored(db) \cup {call[r].id}
    BY <1>4 DEF Local, BackendInv, Stored
  <2>2. IsFiniteSet(Stored(db) \cup {call[r].id})
    BY FS_AddElement DEF BackendInv
  <2>. QED
    BY <2>1, <2>2, FS_Subset
<1>6. BackendInv'
  BY <1>1, <1>2, <1>3, <1>5 DEF BackendInv
<1>7. reply'[r] = o.reply
  BY <1>1 DEF BackendInv
<1>8. ASSUME call[r] = ListShares
      PROVE  /\ reply'[r].status = "ok"
             /\ ListedIDs(reply'[r].body) \subseteq IDs
             /\ \A id \in IDs : RowText(reply'[r].body, id) = CurrentText(db', id)
  <2>1. db' = db /\ reply'[r].status = "ok" /\ reply'[r].body \in API!Listings(db)
    BY <1>4, <1>7, <1>8 DEF ListShares
  <2>. QED
    BY <2>1, ListingShowsCurrent DEF BackendInv
<1>. QED
  BY <1>1, <1>2, <1>6, <1>8 DEF BackendInv

-----------------------------------------------------------------------------
(* The steps of the page.                                                  *)

(* A step of one task that leaves the other requests alone has only its    *)
(* own part of the invariant to show.                                      *)
LEMMA OneTask ==
  ASSUME TasksInv, NEW t \in Tasks, TaskInv(t)',
         \A u \in Tasks \ {t} : /\ task'[u] = task[u] /\ since'[u] = since[u] /\ phase'[u] = phase[u]
                                /\ call'[u] = call[u] /\ reply'[u] = reply[u]
  PROVE  TasksInv'
<1>1. ASSUME NEW u \in Tasks PROVE TaskInv(u)'
  <2>1. CASE u = t
    BY <2>1
  <2>2. CASE u # t
    BY <2>2, Untouched DEF TasksInv
  <2>. QED
    BY <2>1, <2>2
<1>. QED
  BY <1>1 DEF TasksInv

LEMMA TaskFields ==
  \A kind, id, stage : /\ Task(kind, id, stage).kind = kind
                       /\ Task(kind, id, stage).id = id
                       /\ Task(kind, id, stage).stage = stage
                       /\ Task(kind, id, stage) = [kind |-> Task(kind, id, stage).kind,
                                                   id |-> Task(kind, id, stage).id,
                                                   stage |-> Task(kind, id, stage).stage]
BY DEF Task

OthersKept(t) ==
  \A u \in Tasks \ {t} : /\ task'[u] = task[u] /\ phase'[u] = phase[u]
                         /\ call'[u] = call[u] /\ reply'[u] = reply[u]

LEMMA FetchStep ==
  ASSUME IInv, NEW t \in Tasks, NEW c, NEW kind, NEW id, NEW stage, NEW refused, stage # refused,
         Fetch(t, c, Task(kind, id, stage), Task(kind, id, refused))
  PROVE  /\ BackendInv' /\ DOMAIN task' = Tasks /\ OthersKept(t)
         /\ IsTask(task'[t]) /\ task'[t].kind = kind /\ task'[t].id = id
         /\ task'[t].stage \in {stage, refused}
         /\ task'[t].stage = stage => call'[t] = c /\ phase'[t] = "called"
<1>1. t \in Slots /\ Tasks \subseteq Slots
  BY DEF Slots
<1>2. CASE admitted
  <2>1. API!Receive(t) /\ call'[t] = c /\ task' = [task EXCEPT ![t] = Task(kind, id, stage)]
    BY <1>2 DEF Fetch
  <2>2. /\ task'[t] = Task(kind, id, stage) /\ DOMAIN task' = Tasks
        /\ \A u \in Tasks \ {t} : task'[u] = task[u]
    BY <2>1 DEF IInv, PageInv
  <2>3. /\ BackendInv' /\ phase'[t] = "called" /\ OthersKept(t)
    BY <1>1, <2>1, <2>2, ReceiveStep DEF IInv, OthersKept
  <2>4. /\ IsTask(task'[t]) /\ task'[t].kind = kind /\ task'[t].id = id
        /\ task'[t].stage = stage
    BY <2>2, TaskFields DEF IsTask
  <2>. QED
    BY <2>1, <2>2, <2>3, <2>4
<1>3. CASE ~admitted
  <2>1. task' = [task EXCEPT ![t] = Task(kind, id, refused)] /\ UNCHANGED backend
    BY <1>3 DEF Fetch
  <2>2. /\ task'[t] = Task(kind, id, refused) /\ DOMAIN task' = Tasks
        /\ \A u \in Tasks \ {t} : task'[u] = task[u]
    BY <2>1 DEF IInv, PageInv
  <2>3. /\ BackendInv' /\ OthersKept(t)
    BY <2>1, <2>2 DEF IInv, BackendInv, backend, OthersKept
  <2>4. /\ IsTask(task'[t]) /\ task'[t].kind = kind /\ task'[t].id = id
        /\ task'[t].stage = refused
    BY <2>2, TaskFields DEF IsTask
  <2>. QED
    BY <2>2, <2>3, <2>4
<1>. QED
  BY <1>2, <1>3

(* What a list that has been asked for, or refused, leaves to show.        *)
LEMMA ListAsked ==
  ASSUME NEW t \in Tasks,
         task'[t].stage \in {"list", "refused list"},
         task'[t].stage = "list" => call'[t] = ListShares /\ phase'[t] = "called",
         task'[t].kind = "save" => since'[t] # {}
  PROVE  TaskInv(t)'
BY DEF TaskInv, OwnRequest, ListingIsFresh, AcceptedIsNoted

(* A page whose tasks are as described and whose rows have not changed.    *)
LEMMA PageStepInv ==
  ASSUME IInv, NEW t \in Tasks, mounted', since' = since, DOMAIN task' = Tasks,
         IsTask(task'[t]), \A u \in Tasks \ {t} : task'[u] = task[u]
  PROVE  PageInv' /\ FreshInv'
BY DEF IInv, PageInv, FreshInv, IsTask

LEMMA MountStep ==
  ASSUME IInv, NEW t \in Tasks, Mount(t)
  PROVE  IInv'
<1>1. /\ ~mounted /\ mounted' = TRUE /\ since' = since
      /\ shares' = shares /\ passwords' = passwords /\ status' = status /\ busyID' = busyID
      /\ Fetch(t, ListShares, Task("load", NoID, "list"), Task("load", NoID, "refused list"))
  BY DEF Mount, FetchList, screen
<1>2. /\ BackendInv' /\ DOMAIN task' = Tasks /\ OthersKept(t)
      /\ IsTask(task'[t]) /\ task'[t].kind = "load" /\ task'[t].id = NoID
      /\ task'[t].stage \in {"list", "refused list"}
      /\ task'[t].stage = "list" => call'[t] = ListShares /\ phase'[t] = "called"
  BY <1>1, FetchStep
<1>3. TasksInv'
  <2>1. TaskInv(t)'
    BY <1>2, ListAsked
  <2>. QED
    BY <1>1, <1>2, <2>1, OneTask DEF IInv, OthersKept
<1>4. PageInv' /\ FreshInv'
  BY <1>1, <1>2, PageStepInv DEF OthersKept
<1>5. TypeOK' /\ BusyRowIsSaving'
  <2>1. busyID' = NoID
    BY <1>1 DEF IInv, FreshInv
  <2>2. \A u \in Tasks : /\ task'[u].kind \in {"none", "load", "save"}
                         /\ task'[u].id \in IDs \cup {NoID}
                         /\ task'[u].kind = "save" <=> task'[u].id # NoID
    BY <1>2, AdminAssumption DEF IInv, TypeOK, OthersKept
  <2>3. shares' = shares /\ passwords' = passwords /\ status' = status
    BY <1>1
  <2>. QED
    BY <2>1, <2>2, <2>3 DEF IInv, TypeOK, BusyRowIsSaving, Displayed
<1>. QED
  BY <1>2, <1>3, <1>4, <1>5 DEF IInv

LEMMA SetPasswordStep ==
  ASSUME IInv, NEW t \in Tasks, NEW id \in IDs, NEW password, SetPassword(t, id, password)
  PROVE  IInv'
<1> DEFINE c == [op |-> "SetPassword", id |-> id, password |-> password]
<1>1. /\ id \in Displayed /\ busyID' = id /\ since' = since /\ mounted' = mounted
      /\ shares' = shares /\ passwords' = passwords /\ status' = status
      /\ Fetch(t, c, Task("save", id, "put"), Task("save", id, "refused put"))
  BY DEF SetPassword
<1> HIDE DEF c
<1>2. /\ BackendInv' /\ DOMAIN task' = Tasks /\ OthersKept(t)
      /\ IsTask(task'[t]) /\ task'[t].kind = "save" /\ task'[t].id = id
      /\ task'[t].stage \in {"put", "refused put"}
      /\ task'[t].stage = "put" => call'[t] = c /\ phase'[t] = "called"
  BY <1>1, FetchStep
<1>3. TasksInv'
  <2>1. TaskInv(t)'
    BY <1>2 DEF TaskInv, OwnRequest, ListingIsFresh, AcceptedIsNoted
  <2>. QED
    BY <1>1, <1>2, <2>1, OneTask DEF IInv, OthersKept
<1>4. mounted
  <2>1. shares = <<>> => Displayed = {}
    BY DEF Displayed
  <2>. QED
    BY <1>1, <2>1 DEF IInv, FreshInv
<1>5. PageInv' /\ FreshInv'
  BY <1>1, <1>2, <1>4, PageStepInv DEF OthersKept
<1>6. TypeOK' /\ BusyRowIsSaving'
  BY <1>1, <1>2, AdminAssumption DEF IInv, TypeOK, BusyRowIsSaving, Displayed, OthersKept
<1>. QED
  BY <1>2, <1>3, <1>5, <1>6 DEF IInv

(* Whatever fails, no row stays disabled for it.                           *)
LEMMA FailStep ==
  ASSUME IInv, NEW t \in Tasks, task[t].stage # "none",
         NEW message \in {"set_failed", "load_failed", "network_failed"}, Fail(t, message),
         BackendInv',
         \A u \in Tasks \ {t} : phase'[u] = phase[u] /\ call'[u] = call[u] /\ reply'[u] = reply[u]
  PROVE  IInv'
<1>1. /\ status' = message /\ task' = [task EXCEPT ![t] = Idle]
      /\ busyID' = IF task[t].kind = "save" THEN NoID ELSE busyID
      /\ since' = [since EXCEPT ![t] = {}]
      /\ mounted' = mounted /\ shares' = shares /\ passwords' = passwords
  BY DEF Fail
<1>2. /\ task'[t] = Idle
      /\ \A u \in Tasks \ {t} : task'[u] = task[u] /\ since'[u] = since[u]
  BY <1>1 DEF IInv, PageInv
<1>3. TasksInv'
  <2>1. TaskInv(t)'
    BY <1>2, Waitless DEF Idle
  <2>. QED
    BY <1>2, <2>1, OneTask DEF IInv
<1>4. mounted
  BY DEF IInv, FreshInv
<1>5. PageInv' /\ FreshInv'
  BY <1>1, <1>2, <1>4 DEF IInv, PageInv, FreshInv, Idle, IsTask
<1>6. TypeOK'
  BY <1>1, <1>2 DEF IInv, TypeOK, Displayed, Idle
<1>7. BusyRowIsSaving'
  BY <1>1, <1>2 DEF IInv, BusyRowIsSaving
<1>. QED
  BY <1>3, <1>5, <1>6, <1>7 DEF IInv

LEMMA RefusedStep ==
  ASSUME IInv, NEW t \in Tasks, Refused(t)
  PROVE  IInv'
<1>1. /\ UNCHANGED backend /\ task[t].stage # "none"
      /\ \E message \in {"set_failed", "load_failed", "network_failed"} : Fail(t, message)
  BY DEF Refused
<1>2. BackendInv' /\ phase' = phase /\ call' = call /\ reply' = reply
  BY <1>1 DEF IInv, BackendInv, backend
<1>. QED
  BY <1>1, <1>2, FailStep

LEMMA LoseConnectionStep ==
  ASSUME IInv, NEW t \in Tasks, LoseConnection(t)
  PROVE  IInv'
<1>1. UNCHANGED backend /\ task[t].stage # "none" /\ Fail(t, "network_failed")
  BY DEF LoseConnection
<1>2. BackendInv' /\ phase' = phase /\ call' = call /\ reply' = reply
  BY <1>1 DEF IInv, BackendInv, backend
<1>. QED
  BY <1>1, <1>2, FailStep

LEMMA PutAnsweredStep ==
  ASSUME IInv, NEW t \in Tasks, PutAnswered(t)
  PROVE  IInv'
<1>1. task[t].stage = "put" /\ API!Respond(t) /\ t \in Slots /\ Tasks \subseteq Slots
  BY DEF PutAnswered, Slots
<1>2. /\ BackendInv' /\ phase[t] = "answered"
      /\ \A u \in Tasks \ {t} : phase'[u] = phase[u] /\ call'[u] = call[u] /\ reply'[u] = reply[u]
  BY <1>1, RespondStep DEF IInv
<1>3. CASE reply[t].status = "ok"
  <2>1. /\ task' = [task EXCEPT ![t].stage = "reload"] /\ since' = since /\ mounted' = mounted
        /\ shares' = shares /\ passwords' = passwords /\ status' = status /\ busyID' = busyID
    BY <1>3 DEF PutAnswered, screen
  <2>2. /\ DOMAIN task' = Tasks /\ IsTask(task'[t])
        /\ task'[t].kind = task[t].kind /\ task'[t].id = task[t].id /\ task'[t].stage = "reload"
        /\ \A u \in Tasks \ {t} : task'[u] = task[u]
    BY <2>1 DEF IInv, PageInv, IsTask
  <2>3. TasksInv'
    <3>1. task[t].kind = "save" => since[t] # {}
      BY <1>1, <1>2, <1>3 DEF IInv, TasksInv, TaskInv, AcceptedIsNoted
    <3>2. TaskInv(t)'
      BY <2>1, <2>2, <3>1 DEF TaskInv, OwnRequest, ListingIsFresh, AcceptedIsNoted
    <3>. QED
      BY <1>2, <2>1, <2>2, <3>2, OneTask DEF IInv
  <2>4. mounted
    BY <1>1 DEF IInv, FreshInv
  <2>5. PageInv' /\ FreshInv'
    BY <2>1, <2>2, <2>4, PageStepInv
  <2>6. TypeOK' /\ BusyRowIsSaving'
    BY <2>1, <2>2 DEF IInv, TypeOK, BusyRowIsSaving, Displayed
  <2>. QED
    BY <1>2, <2>3, <2>5, <2>6 DEF IInv
<1>4. CASE reply[t].status # "ok"
  <2>1. Fail(t, "set_failed")
    BY <1>4 DEF PutAnswered
  <2>. QED
    BY <1>1, <1>2, <2>1, FailStep
<1>. QED
  BY <1>3, <1>4

LEMMA ReloadStep ==
  ASSUME IInv, NEW t \in Tasks, Reload(t)
  PROVE  IInv'
<1> DEFINE kind == task[t].kind
           id == task[t].id
<1> HIDE DEF kind, id
<1>1. /\ task[t].stage = "reload" /\ since' = since /\ mounted' = mounted
      /\ shares' = shares /\ passwords' = passwords /\ status' = status /\ busyID' = busyID
      /\ Fetch(t, ListShares, Task(kind, id, "list"), Task(kind, id, "refused list"))
  BY DEF Reload, FetchList, screen, kind, id
<1>2. /\ BackendInv' /\ DOMAIN task' = Tasks /\ OthersKept(t)
      /\ IsTask(task'[t]) /\ task'[t].kind = kind /\ task'[t].id = id
      /\ task'[t].stage \in {"list", "refused list"}
      /\ task'[t].stage = "list" => call'[t] = ListShares /\ phase'[t] = "called"
  BY <1>1, FetchStep
<1>3. TasksInv'
  <2>1. task[t].kind = "save" => since[t] # {}
    BY <1>1 DEF IInv, TasksInv, TaskInv, AcceptedIsNoted
  <2>2. TaskInv(t)'
    BY <1>1, <1>2, <2>1, ListAsked DEF kind
  <2>. QED
    BY <1>1, <1>2, <2>2, OneTask DEF IInv, OthersKept
<1>4. mounted
  BY <1>1 DEF IInv, FreshInv
<1>5. PageInv' /\ FreshInv'
  BY <1>1, <1>2, <1>4, PageStepInv DEF OthersKept
<1>6. \A u \in Tasks : task'[u].kind = task[u].kind /\ task'[u].id = task[u].id
  BY <1>2 DEF OthersKept, kind, id
<1>7. TypeOK' /\ BusyRowIsSaving'
  BY <1>1, <1>6 DEF IInv, TypeOK, BusyRowIsSaving, Displayed
<1>. QED
  BY <1>2, <1>3, <1>5, <1>7 DEF IInv

LEMMA ListAnsweredStep ==
  ASSUME IInv, NEW t \in Tasks, ListAnswered(t)
  PROVE  IInv'
<1>1. /\ task[t].stage = "list" /\ API!Respond(t) /\ t \in Slots /\ Tasks \subseteq Slots
      /\ shares' = reply[t].body /\ status' = "count" /\ mounted' = mounted
      /\ task' = [task EXCEPT ![t] = Idle] /\ since' = [since EXCEPT ![t] = {}]
      /\ task[t].kind = "save" => /\ passwords' = [passwords EXCEPT ![task[t].id] = NoPassword]
                                  /\ busyID' = NoID
      /\ task[t].kind # "save" => passwords' = passwords /\ busyID' = busyID
  BY DEF ListAnswered, Slots
<1>2. /\ BackendInv' /\ phase[t] = "answered"
      /\ \A u \in Tasks \ {t} : phase'[u] = phase[u] /\ call'[u] = call[u] /\ reply'[u] = reply[u]
  BY <1>1, RespondStep DEF IInv
<1>3. /\ DOMAIN task' = Tasks /\ DOMAIN since' = Tasks /\ task'[t] = Idle
      /\ \A u \in Tasks \ {t} : task'[u] = task[u] /\ since'[u] = since[u]
  BY <1>1 DEF IInv, PageInv
<1>4. TasksInv'
  <2>1. TaskInv(t)'
    BY <1>3, Waitless DEF Idle
  <2>. QED
    BY <1>2, <1>3, <2>1, OneTask DEF IInv
<1>5. mounted
  BY <1>1 DEF IInv, FreshInv
<1>6. PageInv' /\ FreshInv'
  BY <1>1, <1>3, <1>5 DEF IInv, PageInv, FreshInv, Idle, IsTask
<1>7. Displayed' \subseteq IDs
  <2>1. ListedIDs(reply[t].body) \subseteq IDs
    BY <1>1, <1>2 DEF IInv, TasksInv, TaskInv, ListingIsFresh
  <2>. QED
    BY <1>1, <2>1 DEF Displayed, ListedIDs
<1>8. TypeOK'
  <2>1. passwords' \in [IDs -> Passwords]
    BY <1>1, PasswordAssumption DEF IInv, TypeOK
  <2>2. busyID' \in IDs \cup {NoID}
    BY <1>1 DEF IInv, TypeOK
  <2>3. \A u \in Tasks : /\ task'[u].kind \in {"none", "load", "save"}
                         /\ task'[u].id \in IDs \cup {NoID}
                         /\ task'[u].kind = "save" <=> task'[u].id # NoID
    BY <1>3 DEF IInv, TypeOK, Idle
  <2>4. status' = "count"
    BY <1>1
  <2>. QED
    BY <1>7, <2>1, <2>2, <2>3, <2>4 DEF TypeOK
<1>9. BusyRowIsSaving'
  BY <1>1, <1>3 DEF IInv, BusyRowIsSaving
<1>. QED
  BY <1>2, <1>4, <1>6, <1>8, <1>9 DEF IInv

LEMMA DropAnswerStep ==
  ASSUME IInv, NEW t \in Tasks, DropAnswer(t)
  PROVE  IInv'
<1>1. /\ task[t] = Idle /\ API!Respond(t) /\ t \in Slots /\ Tasks \subseteq Slots
      /\ task' = task /\ since' = since /\ mounted' = mounted
      /\ shares' = shares /\ passwords' = passwords /\ status' = status /\ busyID' = busyID
  BY DEF DropAnswer, Slots, screen
<1>2. /\ BackendInv'
      /\ \A u \in Tasks \ {t} : phase'[u] = phase[u] /\ call'[u] = call[u] /\ reply'[u] = reply[u]
  BY <1>1, RespondStep DEF IInv
<1>3. TasksInv'
  <2>1. TaskInv(t)'
    BY <1>1, Waitless DEF Idle
  <2>. QED
    BY <1>1, <1>2, <2>1, OneTask DEF IInv
<1>4. PageInv' /\ FreshInv' /\ TypeOK' /\ BusyRowIsSaving'
  BY <1>1 DEF IInv, PageInv, FreshInv, TypeOK, BusyRowIsSaving, Displayed
<1>. QED
  BY <1>2, <1>3, <1>4 DEF IInv

LEMMA TypeStep ==
  ASSUME IInv, NEW id \in IDs, Type(id)
  PROVE  IInv'
<1>1. /\ UNCHANGED backend /\ task' = task /\ since' = since /\ mounted' = mounted
      /\ shares' = shares /\ status' = status /\ busyID' = busyID
      /\ \E text \in Passwords : passwords' = [passwords EXCEPT ![id] = text]
  BY DEF Type
<1>2. BackendInv' /\ phase' = phase /\ call' = call /\ reply' = reply
  BY <1>1 DEF IInv, BackendInv, backend
<1>3. TasksInv'
  BY <1>1, <1>2, Untouched DEF IInv, TasksInv
<1>4. PageInv' /\ FreshInv' /\ TypeOK' /\ BusyRowIsSaving'
  BY <1>1 DEF IInv, PageInv, FreshInv, TypeOK, BusyRowIsSaving, Displayed
<1>. QED
  BY <1>2, <1>3, <1>4 DEF IInv

-----------------------------------------------------------------------------
(* The backend's own steps, the owners' and a restart.                     *)

(* The page does not notice them.                                          *)
LEMMA PageKept ==
  ASSUME IInv, DOMAIN since' = Tasks, UNCHANGED <<mounted, screen, task>>
  PROVE  PageInv' /\ FreshInv' /\ TypeOK' /\ BusyRowIsSaving'
BY DEF IInv, PageInv, FreshInv, TypeOK, BusyRowIsSaving, Displayed, screen

LEMMA TakeEffectStep ==
  ASSUME IInv, NEW r \in Slots, TakeEffect(r)
  PROVE  IInv'
<1>1. /\ API!TakeEffect(r) /\ UNCHANGED <<mounted, screen, task>> /\ Tasks \subseteq Slots
      /\ since' = [t \in Tasks |-> IF PutDone(t) THEN since[t] \cup {CurrentText(db', task[t].id)}
                                   ELSE since[t]]
  BY DEF TakeEffect, Slots
<1>2. /\ BackendInv' /\ phase[r] = "called" /\ phase'[r] = "answered" /\ call' = call
      /\ \A s \in Slots \ {r} : phase'[s] = phase[s] /\ reply'[s] = reply[s]
      /\ call[r] = ListShares => /\ reply'[r].status = "ok"
                                 /\ ListedIDs(reply'[r].body) \subseteq IDs
                                 /\ \A id \in IDs : RowText(reply'[r].body, id) = CurrentText(db', id)
  BY <1>1, EffectStep DEF IInv
<1>3. /\ DOMAIN since' = Tasks /\ task' = task
      /\ \A t \in Tasks : /\ since[t] \subseteq since'[t]
                          /\ PutDone(t) => CurrentText(db', task[t].id) \in since'[t]
  BY <1>1
<1>4. PageInv' /\ FreshInv' /\ TypeOK' /\ BusyRowIsSaving'
  BY <1>1, <1>3, PageKept
<1>5. ASSUME NEW t \in Tasks PROVE TaskInv(t)'
  <2>1. TaskInv(t)
    BY DEF IInv, TasksInv
  <2>2. CASE t # r
    BY <1>1, <1>2, <1>3, <2>1, <2>2, Untouched
  <2>3. CASE t = r
    <3>1. OwnRequest(t)'
      BY <1>2, <1>3, <2>1, <2>3 DEF TaskInv, OwnRequest
    <3>2. ListingIsFresh(t)'
      <4>1. SUFFICES ASSUME task[t].stage = "list"
                     PROVE  /\ ListedIDs(reply'[t].body) \subseteq IDs
                            /\ task[t].kind = "save" => RowText(reply'[t].body, task[t].id) \in since'[t]
        BY <1>3 DEF ListingIsFresh, RowText
      <4>2. call[r] = ListShares
        BY <1>2, <2>1, <2>3, <4>1 DEF TaskInv, OwnRequest
      <4>3. task[t].kind = "save" => PutDone(t)
        BY <2>1, <4>1 DEF TaskInv, AcceptedIsNoted, PutDone
      <4>4. task[t].kind = "save" => task[t].id \in IDs
        BY DEF IInv, TypeOK
      <4>. QED
        BY <1>2, <1>3, <2>3, <4>2, <4>3, <4>4
    <3>3. AcceptedIsNoted(t)'
      <4>1. SUFFICES ASSUME task[t].kind = "save",
                            \/ task[t].stage \in {"reload", "list"}
                            \/ task[t].stage = "put" /\ phase'[t] = "answered" /\ reply'[t].status = "ok"
                     PROVE  since'[t] # {}
        BY <1>3 DEF AcceptedIsNoted
      <4>2. since[t] # {} \/ PutDone(t)
        BY <2>1, <4>1 DEF TaskInv, AcceptedIsNoted, PutDone
      <4>. QED
        BY <1>3, <4>2
    <3>. QED
      BY <3>1, <3>2, <3>3 DEF TaskInv
  <2>. QED
    BY <2>2, <2>3
<1>. QED
  BY <1>2, <1>4, <1>5 DEF IInv, TasksInv

LEMMA OtherStepStep ==
  ASSUME IInv, NEW o \in Others, OtherStep(o)
  PROVE  IInv'
<1>1. /\ o \in Slots /\ Tasks \subseteq Slots /\ o \notin Tasks
      /\ UNCHANGED <<mounted, screen, task>> /\ since' = since /\ task' = task
      /\ API!Receive(o) \/ API!Respond(o)
  BY AdminAssumption DEF OtherStep, Slots
<1>2. /\ BackendInv'
      /\ \A s \in Slots \ {o} : phase'[s] = phase[s] /\ call'[s] = call[s] /\ reply'[s] = reply[s]
  BY <1>1, ReceiveStep, RespondStep DEF IInv
<1>3. ASSUME NEW t \in Tasks PROVE TaskInv(t)'
  BY <1>1, <1>2, Untouched DEF IInv, TasksInv
<1>4. PageInv' /\ FreshInv' /\ TypeOK' /\ BusyRowIsSaving'
  BY <1>1, PageKept DEF IInv, PageInv
<1>. QED
  BY <1>2, <1>3, <1>4 DEF IInv, TasksInv

LEMMA RestartStep ==
  ASSUME IInv, Restart
  PROVE  IInv'
<1>1. /\ API!Crash /\ UNCHANGED <<mounted, screen, task>> /\ since' = since /\ task' = task
      /\ Tasks \subseteq Slots
  BY DEF Restart, Slots
<1>2. BackendInv' /\ \A r \in Slots : phase'[r] = "idle"
  BY <1>1, CrashStep DEF IInv
<1>3. ASSUME NEW t \in Tasks PROVE TaskInv(t)'
  <2>1. phase'[t] = "idle" /\ TaskInv(t)
    BY <1>1, <1>2 DEF IInv, TasksInv
  <2>. QED
    BY <1>1, <2>1 DEF TaskInv, OwnRequest, ListingIsFresh, AcceptedIsNoted
<1>4. PageInv' /\ FreshInv' /\ TypeOK' /\ BusyRowIsSaving'
  BY <1>1, PageKept DEF IInv, PageInv
<1>. QED
  BY <1>2, <1>3, <1>4 DEF IInv, TasksInv

-----------------------------------------------------------------------------
(* Before the page asks for anything there is nothing to lock or to show.  *)
LEMMA InitInv == Init => IInv
<1>1. SUFFICES ASSUME Init PROVE IInv
  OBVIOUS
<1>2. BackendInv
  <2>1. DOMAIN db = IDs /\ IsFiniteSet(Stored(db))
    BY <1>1, AdminAssumption DEF Init
  <2>. QED
    BY <1>1, <2>1 DEF Init, BackendInv, Slots
<1>3. /\ DOMAIN task = Tasks /\ DOMAIN since = Tasks
      /\ \A t \in Tasks : task[t] = Idle
      /\ shares = <<>> /\ busyID = NoID /\ status = "loading"
      /\ passwords \in [IDs -> Passwords]
  BY <1>1, PasswordAssumption DEF Init
<1>4. PageInv /\ FreshInv /\ TasksInv
  BY <1>3 DEF PageInv, FreshInv, TasksInv, TaskInv, OwnRequest, ListingIsFresh,
              AcceptedIsNoted, Idle, IsTask
<1>5. TypeOK /\ BusyRowIsSaving
  <2>1. Displayed = {}
    BY <1>3 DEF Displayed
  <2>. QED
    BY <1>3, <2>1 DEF TypeOK, BusyRowIsSaving, Idle
<1>. QED
  BY <1>2, <1>4, <1>5 DEF IInv

LEMMA StepInv == IInv /\ [Next]_vars => IInv'
<1>1. SUFFICES ASSUME IInv, [Next]_vars PROVE IInv'
  OBVIOUS
<1>2. ASSUME NEW t \in Tasks, PageStep(t) PROVE IInv'
  <2>1. ASSUME NEW id \in IDs, SavePassword(t, id) \/ ClearPassword(t, id) PROVE IInv'
    BY <1>1, <2>1, SetPasswordStep DEF SavePassword, ClearPassword
  <2>. QED
    BY <1>1, <1>2, <2>1, MountStep, RefusedStep, PutAnsweredStep, ReloadStep, ListAnsweredStep,
       LoseConnectionStep, DropAnswerStep DEF PageStep
<1>3. CASE UNCHANGED vars
  BY <1>1, <1>3 DEF vars, backend, screen, IInv, BackendInv, PageInv, FreshInv, TypeOK, Displayed,
                    BusyRowIsSaving, TasksInv, TaskInv, OwnRequest, ListingIsFresh, AcceptedIsNoted,
                    RowText
<1>. QED
  BY <1>1, <1>2, <1>3, TypeStep, OtherStepStep, TakeEffectStep, RestartStep DEF Next, Slots

(* The invariant holds for any saves, owners, failures and restarts.       *)
LEMMA Invariance == Spec => []IInv
<1>. QED
  BY InitInv, StepInv, PTL DEF Spec

(* A save that waits for its listing and completes has received it.        *)
LEMMA OnlyListsAnswer ==
  ASSUME IInv, Next, NEW t \in Tasks, task[t].stage = "list", task'[t] = Idle, status' = "count"
  PROVE  ListAnswered(t)
<1>1. task[t] # Idle /\ task'[t] # task[t]
  BY DEF Idle
<1>2. PICK u \in Tasks : PageStep(u)
  <2>1. ASSUME UNCHANGED task PROVE FALSE
    BY <1>1, <2>1
  <2>. QED
    BY <2>1 DEF Next, Type, OtherStep, TakeEffect, Restart
<1>3. \A m : Fail(u, m) => status' = m
  BY DEF Fail
<1>4. ~Refused(u) /\ ~LoseConnection(u)
  BY <1>3 DEF Refused, LoseConnection
<1>5. u = t
  <2>1. SUFFICES ASSUME u # t PROVE FALSE
    OBVIOUS
  <2>2. \A x : task' = [task EXCEPT ![u] = x] => task'[t] = task[t]
    BY <2>1 DEF IInv, PageInv
  <2>3. ASSUME NEW c, NEW x, NEW y, Fetch(u, c, x, y) PROVE FALSE
    BY <1>1, <2>2, <2>3 DEF Fetch
  <2>4. ~ListAnswered(u) /\ ~DropAnswer(u) /\ ~PutAnswered(u)
    BY <1>1, <2>2 DEF ListAnswered, DropAnswer, PutAnswered, Fail
  <2>5. ~Mount(u) /\ ~Reload(u)
    BY <2>3 DEF Mount, Reload, FetchList
  <2>6. \A id \in IDs : ~SavePassword(u, id) /\ ~ClearPassword(u, id)
    BY <2>3 DEF SavePassword, ClearPassword, SetPassword
  <2>. QED
    BY <1>2, <1>4, <2>4, <2>5, <2>6 DEF PageStep
<1>6. ~PutAnswered(t) /\ ~DropAnswer(t) /\ ~Reload(t)
  BY <1>1 DEF PutAnswered, DropAnswer, Reload
<1>7. ~Mount(t)
  BY DEF Mount, IInv, FreshInv
<1>8. \A id \in IDs : ~SavePassword(t, id) /\ ~ClearPassword(t, id)
  BY <1>1 DEF SavePassword, ClearPassword, SetPassword
<1>. QED
  BY <1>2, <1>4, <1>5, <1>6, <1>7, <1>8 DEF PageStep

(* What the page keeps is of its types: it never has a row or a busy row   *)
(* for anything but a share.                                               *)
THEOREM TypeCorrect == Spec => []TypeOK
<1>1. IInv => TypeOK
  BY DEF IInv
<1>. QED
  BY <1>1, Invariance, PTL

(* However saves overlap and fail, a row is disabled only while a save of  *)
(* its own is out: the finally block of one save never locks another row.  *)
THEOREM NoRowIsLocked == Spec => []BusyRowIsSaving
<1>1. IInv => BusyRowIsSaving
  BY DEF IInv
<1>. QED
  BY <1>1, Invariance, PTL

(* After a completed save its row shows a state the share had since the    *)
(* PUT took effect, whoever else changes the share meanwhile.              *)
THEOREM SavesShowFreshRows == Spec => SavedRowIsFresh
<1> DEFINE Fresh == \A t \in Tasks :
             task[t].kind = "save" /\ task[t].stage = "list" /\ task'[t] = Idle /\ status' = "count"
               => RowText(shares', task[t].id) \in since[t]
<1>1. ASSUME IInv, [Next]_vars PROVE [Fresh]_vars
  <2>1. SUFFICES ASSUME Next, NEW t \in Tasks, task[t].kind = "save", task[t].stage = "list",
                        task'[t] = Idle, status' = "count"
                 PROVE  RowText(shares', task[t].id) \in since[t]
    BY <1>1
  <2>2. ListAnswered(t)
    <3>1. task'[t] # task[t]
      BY <2>1 DEF Idle
    <3>. QED
      BY <1>1, <2>1, <3>1, OnlyListsAnswer
  <2>3. phase[t] = "answered" /\ shares' = reply[t].body
    BY <2>2 DEF ListAnswered, API!Respond
  <2>. QED
    BY <1>1, <2>1, <2>3 DEF IInv, TasksInv, TaskInv, ListingIsFresh, RowText
<1>. QED
  BY <1>1, Invariance, PTL DEF Spec, SavedRowIsFresh
=============================================================================
