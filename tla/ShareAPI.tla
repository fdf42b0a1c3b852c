------------------------------ MODULE ShareAPI ------------------------------
(***************************************************************************)
(* What the share backend promises its callers: every call takes effect at *)
(* one instant between its arrival and its answer, on a map from session   *)
(* ids to shares that survives crashes.  No lock, transaction, loop or     *)
(* encoding order appears here; ShareService implements this module.       *)
(***************************************************************************)
EXTENDS ShareTypes

CONSTANTS
  Requests,   \* the requests that may be in flight together
  Calls       \* the calls clients make

VARIABLES
  db,      \* id -> the share, or NoShare
  clock,   \* wall clock
  phase,   \* request -> "idle", "called" or "answered"
  call,    \* request -> the call it carries
  reply    \* request -> the answer computed for it

vars == <<db, clock, phase, call, reply>>

(***************************************************************************)
(* The data of a share after an accepted sync, in closed form.  Events     *)
(* keep the place where their key first appeared and take the value of the *)
(* last incoming event with that key; the others are added in order.       *)
(***************************************************************************)
KeyOf(item) == IF item.key = NoKey THEN {} ELSE {item.key}

KeysIn(items) == UNION {KeyOf(items[i]) : i \in DOMAIN items}

Latest(item, incoming) ==
  LET same == {j \in DOMAIN incoming : incoming[j].key = item.key}
  IN  IF item.key = NoKey \/ same = {} THEN item
      ELSE incoming[CHOOSE j \in same : \A k \in same : k <= j]

Introduces(old, incoming, i) ==
  incoming[i].key \notin KeysIn(old) \cup KeysIn(SubSeq(incoming, 1, i - 1))

Merged(old, incoming) ==
  LET new      == {i \in DOMAIN incoming : Introduces(old, incoming, i)}
      place(i) == Cardinality({j \in new : j <= i})
  IN  [i \in DOMAIN old |-> Latest(old[i], incoming)] \o
      [p \in 1..Cardinality(new) |->
         Latest(incoming[CHOOSE i \in new : place(i) = p], incoming)]

-----------------------------------------------------------------------------
(* The answers and effects a call may have on the map d.                   *)
Outcome(d, answer) == [db |-> d, reply |-> answer]

(* Broken variant: a request without a password is always let through.     *)
MayViewBare(share, password) ==
  password = NoPassword \/ password \in {share.password, DefaultPassword}

MayView(share, password) ==
  \/ share.password = NoPassword /\ DefaultPassword = NoPassword
  \/ share.password = NoPassword /\ password = DefaultPassword
  \/ share.password # NoPassword /\ password = share.password

LiveSecrets(d) == {d[id].secret : id \in Stored(d)}

CreateOutcomes(d, c) ==
  IF c.id \notin ValidIDs THEN {Outcome(d, Failure("invalid_input"))}
  ELSE IF d[c.id] # NoShare THEN {Outcome(d, Failure("already_exists"))}
  ELSE {Outcome([d EXCEPT ![c.id] = [secret |-> s, data |-> <<>>,
                                     password |-> NoPassword,
                                     createdAt |-> t, updatedAt |-> t]],
                Answer("ok", s)) : s \in Secrets \ LiveSecrets(d), t \in 0..clock}

(* A call that changes a stored share: refused, or applied at some time    *)
(* not before the share's last update.                                     *)
Updated(d, id, share) ==
  {Outcome([d EXCEPT ![id] = Encode([share EXCEPT !.updatedAt = t])],
           Failure("ok")) : t \in d[id].updatedAt..clock}

Acceptable(data, items) ==
  /\ \A i \in DOMAIN items : items[i].valid /\ items[i].raw <= MaxItemBytes
  /\ ~(DataSize(Merged(data, items)) > MaxShareDataBytes)

SyncOutcomes(d, c) ==
  IF Len(c.items) > MaxSyncItems THEN {Outcome(d, Failure("invalid_input"))}
  ELSE IF d[c.id] = NoShare THEN {Outcome(d, Failure("not_found"))}
  ELSE IF c.secret # d[c.id].secret THEN {Outcome(d, Failure("invalid_secret"))}
  ELSE IF ~Acceptable(d[c.id].data, c.items)
       THEN {Outcome(d, Failure("invalid_input"))}
  ELSE Updated(d, c.id, [d[c.id] EXCEPT !.data = Merged(d[c.id].data, c.items)])

SetPasswordOutcomes(d, c) ==
  IF c.password \in LongPasswords THEN {Outcome(d, Failure("invalid_input"))}
  ELSE IF d[c.id] = NoShare THEN {Outcome(d, Failure("not_found"))}
  ELSE Updated(d, c.id, [d[c.id] EXCEPT !.password = c.password])

RemoveOutcomes(d, c) ==
  IF d[c.id] = NoShare THEN {Outcome(d, Failure("not_found"))}
  ELSE IF c.secret # d[c.id].secret THEN {Outcome(d, Failure("invalid_secret"))}
  ELSE {Outcome([d EXCEPT ![c.id] = NoShare], Failure("ok"))}

ViewOutcomes(d, c, body) ==
  IF d[c.id] = NoShare THEN {Outcome(d, Failure("not_found"))}
  ELSE IF ~MayView(d[c.id], c.password) THEN {Outcome(d, Failure("invalid_secret"))}
  ELSE {Outcome(d, Answer("ok", body))}

(* A listing names every share once, no share before one updated later.    *)
Listings(d) ==
  LET ids == Stored(d)
      n   == Cardinality(ids)
  IN  {[i \in 1..n |-> Summary(d, f[i])] :
         f \in {g \in [1..n -> ids] :
                  \A i, j \in 1..n :
                     i < j => /\ g[i] # g[j]
                              /\ d[g[i]].updatedAt >= d[g[j]].updatedAt}}

ReadOutcomes(d, c) ==
  CASE c.op = "List" -> {Outcome(d, Answer("ok", l)) : l \in Listings(d)}
    [] c.op = "Get" ->
         {Outcome(d, Failure(IF d[c.id] = NoShare THEN "missing" ELSE "found"))}
    [] c.op = "Data" ->
         {Outcome(d, IF d[c.id] = NoShare THEN Failure("not_found")
                     ELSE Answer("ok", d[c.id].data))}
    [] c.op = "CheckViewPassword" -> ViewOutcomes(d, c, NoBody)
    [] c.op = "DataWithPassword" ->
         ViewOutcomes(d, c, IF d[c.id] = NoShare THEN NoBody ELSE d[c.id].data)

(* A write may also fail inside the database and then changes nothing.     *)
WriteOutcomes(d, c) ==
  {Outcome(d, Failure("internal"))} \cup
  CASE c.op = "Create"      -> CreateOutcomes(d, c)
    [] c.op = "Sync"        -> SyncOutcomes(d, c)
    [] c.op = "SetPassword" -> SetPasswordOutcomes(d, c)
    [] c.op = "Remove"      -> RemoveOutcomes(d, c)

Outcomes(d, c) == IF c \in WriteCall THEN WriteOutcomes(d, c) ELSE ReadOutcomes(d, c)

-----------------------------------------------------------------------------
Init ==
  /\ db = [id \in IDs |-> NoShare]
  /\ clock = 0
  /\ phase = [r \in Requests |-> "idle"]
  /\ call = [r \in Requests |-> NoBody]
  /\ reply = [r \in Requests |-> NoBody]

Receive(r) ==
  /\ phase[r] = "idle"
  /\ \E c \in Calls : call' = [call EXCEPT ![r] = c]
  /\ phase' = [phase EXCEPT ![r] = "called"]
  /\ UNCHANGED <<db, clock, reply>>

TakeEffect(r) ==
  /\ phase[r] = "called"
  /\ \E o \in Outcomes(db, call[r]) :
       db' = o.db /\ reply' = [reply EXCEPT ![r] = o.reply]
  /\ phase' = [phase EXCEPT ![r] = "answered"]
  /\ UNCHANGED <<clock, call>>

Respond(r) ==
  /\ phase[r] = "answered"
  /\ phase' = [phase EXCEPT ![r] = "idle"]
  /\ call' = [call EXCEPT ![r] = NoBody]
  /\ reply' = [reply EXCEPT ![r] = NoBody]
  /\ UNCHANGED <<db, clock>>

Tick == clock' \in Nat /\ clock' > clock /\ UNCHANGED <<db, phase, call, reply>>

(* A crash drops the calls in flight, whether or not they took effect.     *)
Crash ==
  /\ phase' = [r \in Requests |-> "idle"]
  /\ call' = [r \in Requests |-> NoBody]
  /\ reply' = [r \in Requests |-> NoBody]
  /\ UNCHANGED <<db, clock>>

Next == \/ \E r \in Requests : Receive(r) \/ TakeEffect(r) \/ Respond(r)
        \/ Tick \/ Crash

Spec == Init /\ [][Next]_vars

FairSpec == Spec /\ \A r \in Requests : WF_vars(TakeEffect(r)) /\ WF_vars(Respond(r))
=============================================================================
