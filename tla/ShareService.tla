---------------------------- MODULE ShareService ----------------------------
(***************************************************************************)
(* share.Service over its bbolt store, as concurrent request goroutines    *)
(* run it.  A write is a bbolt Update: it waits for the one writer lock,   *)
(* decodes the share, works on local copies (Sync one event at a time) and *)
(* commits or rolls back.  A read is a bbolt View: one snapshot.           *)
(***************************************************************************)
EXTENDS ShareTypes

CONSTANTS
  Requests,   \* the request goroutines that may be in flight together
  Calls,      \* the calls clients make
  NoRequest,  \* the writer lock is free
  MaxClock    \* bound: the wall clock stops here

ASSUME CallAssumption == Calls \subseteq Call
ASSUME RequestAssumption == NoRequest \notin Requests
ASSUME ClockAssumption == MaxClock \in Nat

VARIABLES
  db,      \* the committed shares bucket: id -> share or NoShare
  writer,  \* the request inside bbolt's Update, or NoRequest
  clock,   \* time.Now(), assumed not to be set back
  issued,  \* the secrets uuid.NewString has returned
  pc,      \* request -> where its goroutine is
  call,    \* request -> the call it carries, NoBody when idle
  share,   \* request -> its local Share: the one to create, or the decoded one
  merged,  \* request -> Sync's local slice
  next,    \* request -> Sync's position in the incoming events
  reply    \* request -> the answer computed for it, NoBody before

vars == <<db, writer, clock, issued, pc, call, share, merged, next, reply>>

locals == <<share, merged, next>>

Steps == {"idle", "called", "locking", "update", "merge", "commit", "reply"}

-----------------------------------------------------------------------------
(* service.go helpers.                                                     *)

(* Broken variant: no character is checked.                                *)
UncheckedSessionID(id) == TRUE

ValidSessionID(id) == id \in ValidIDs

(* Broken variant: the default password is forgotten.                      *)
CheckOwnPassword(s, password) == s.password = NoPassword \/ password = s.password

CheckViewPassword(s, password) ==
  LET required == IF s.password = NoPassword THEN DefaultPassword ELSE s.password
  IN  required = NoPassword \/ password = required

(* Broken variant: json.Valid is not asked.                                *)
IsItemSmall(item) == item.raw <= MaxItemBytes

IsItemAccepted(item) == item.raw <= MaxItemBytes /\ item.valid

-----------------------------------------------------------------------------
Init ==
  /\ db = [id \in IDs |-> NoShare]
  /\ writer = NoRequest
  /\ clock = 0
  /\ issued = {}
  /\ pc = [r \in Requests |-> "idle"]
  /\ call = [r \in Requests |-> NoBody]
  /\ share = [r \in Requests |-> NoShare]
  /\ merged = [r \in Requests |-> <<>>]
  /\ next = [r \in Requests |-> 1]
  /\ reply = [r \in Requests |-> NoBody]

Goto(r, step) == pc' = [pc EXCEPT ![r] = step]

Finish(r, answer) == Goto(r, "reply") /\ reply' = [reply EXCEPT ![r] = answer]

(* Broken variant: an error path that leaves the writer lock held.         *)
RollbackLocked(r, status) ==
  Finish(r, Failure(status)) /\ UNCHANGED <<db, writer, clock, issued, call, locals>>

(* Update's function returned an error: bbolt rolls back and unlocks.      *)
Rollback(r, status) ==
  /\ Finish(r, Failure(status))
  /\ writer' = NoRequest
  /\ UNCHANGED <<db, clock, issued, call, locals>>

(* Bound: as many Create calls as there are secrets left to mint.          *)
SecretsLeft ==
  Cardinality({q \in Requests : pc[q] = "called" /\ call[q].op = "Create"})
    < Cardinality(Secrets \ issued)

(* A request arrives.                                                      *)
Receive(r) ==
  /\ pc[r] = "idle"
  /\ \E c \in Calls : /\ c.op = "Create" => SecretsLeft
                      /\ call' = [call EXCEPT ![r] = c]
  /\ Goto(r, "called")
  /\ UNCHANGED <<db, writer, clock, issued, locals, reply>>

(* What Create, SetPassword and Sync check before they touch the store.    *)
RefusedEarly(c) ==
  \/ c.op = "Create" /\ ~ValidSessionID(c.id)
  \/ c.op = "SetPassword" /\ c.password \in LongPasswords
  \/ c.op = "Sync" /\ Len(c.items) > MaxSyncItems

Refuse(r) ==
  /\ pc[r] = "called"
  /\ RefusedEarly(call[r])
  /\ Finish(r, Failure("invalid_input"))
  /\ UNCHANGED <<db, writer, clock, issued, call, locals>>

(* Broken variant: UpdatedAt keeps its zero value.                         *)
UndatedShare(secret) ==
  [secret |-> secret, data |-> <<>>, password |-> NoPassword,
   createdAt |-> clock, updatedAt |-> 0]

(* Create builds the whole share, its time included, before the            *)
(* transaction starts.                                                     *)
NewShare(secret) ==
  [secret |-> secret, data |-> <<>>, password |-> NoPassword,
   createdAt |-> clock, updatedAt |-> clock]

(* Broken variant: a secret that was issued before may come again.         *)
StartCreateReusing(r) ==
  /\ pc[r] = "called"
  /\ call[r].op = "Create" /\ ~RefusedEarly(call[r])
  /\ \E secret \in Secrets :
       /\ issued' = issued \cup {secret}
       /\ share' = [share EXCEPT ![r] = NewShare(secret)]
  /\ Goto(r, "locking")
  /\ UNCHANGED <<db, writer, clock, call, merged, next, reply>>

StartCreate(r) ==
  /\ pc[r] = "called"
  /\ call[r].op = "Create" /\ ~RefusedEarly(call[r])
  /\ \E secret \in Secrets \ issued :
       /\ issued' = issued \cup {secret}
       /\ share' = [share EXCEPT ![r] = NewShare(secret)]
  /\ Goto(r, "locking")
  /\ UNCHANGED <<db, writer, clock, call, merged, next, reply>>

StartUpdate(r) ==
  /\ pc[r] = "called"
  /\ call[r].op \in {"Sync", "SetPassword", "Remove"} /\ ~RefusedEarly(call[r])
  /\ Goto(r, "locking")
  /\ UNCHANGED <<db, writer, clock, issued, call, locals, reply>>

-----------------------------------------------------------------------------
(* Broken variant: the share is read outside the writer lock.              *)
BeginUnlocked(r) ==
  /\ pc[r] = "locking"
  /\ Goto(r, "update")
  /\ UNCHANGED <<db, writer, clock, issued, call, locals, reply>>

(* Write transactions.  Begin takes the writer lock and does the bucket.Get *)
(* that store.create, update and deleteIf start with.                      *)
Begin(r) ==
  /\ pc[r] = "locking"
  /\ writer = NoRequest
  /\ writer' = r
  /\ Goto(r, "update")
  /\ UNCHANGED <<db, clock, issued, call, locals, reply>>

Working(r, op) == pc[r] = "update" /\ call[r].op = op

AlreadyExists(r) ==
  /\ Working(r, "Create")
  /\ db[call[r].id] # NoShare
  /\ Rollback(r, "already_exists")

(* Broken variant: Create does not look for an existing share.             *)
PutAlways(r) ==
  /\ Working(r, "Create")
  /\ Goto(r, "commit")
  /\ UNCHANGED <<db, writer, clock, issued, call, locals, reply>>

PutNew(r) ==
  /\ Working(r, "Create")
  /\ db[call[r].id] = NoShare
  /\ Goto(r, "commit")
  /\ UNCHANGED <<db, writer, clock, issued, call, locals, reply>>

NotFound(r) ==
  /\ pc[r] = "update"
  /\ call[r].op # "Create"
  /\ db[call[r].id] = NoShare
  /\ Rollback(r, "not_found")

Found(r, op) == Working(r, op) /\ db[call[r].id] # NoShare

InvalidSecret(r) ==
  /\ \E op \in {"Sync", "Remove"} : Found(r, op)
  /\ db[call[r].id].secret # call[r].secret
  /\ Rollback(r, "invalid_secret")

SetPassword(r) ==
  /\ Found(r, "SetPassword")
  /\ share' = [share EXCEPT ![r] = [db[call[r].id] EXCEPT
                                      !.password = call[r].password,
                                      !.updatedAt = clock]]
  /\ Goto(r, "commit")
  /\ UNCHANGED <<db, writer, clock, issued, call, merged, next, reply>>

(* Broken variant: Remove does not compare the secret.                     *)
RemoveUnchecked(r) ==
  /\ Found(r, "Remove")
  /\ Goto(r, "commit")
  /\ UNCHANGED <<db, writer, clock, issued, call, locals, reply>>

Remove(r) ==
  /\ Found(r, "Remove")
  /\ db[call[r].id].secret = call[r].secret
  /\ Goto(r, "commit")
  /\ UNCHANGED <<db, writer, clock, issued, call, locals, reply>>

(* Sync copies share.Data and loops over the incoming events.              *)
BeginMerge(r) ==
  /\ Found(r, "Sync")
  /\ db[call[r].id].secret = call[r].secret
  /\ share' = [share EXCEPT ![r] = db[call[r].id]]
  /\ merged' = [merged EXCEPT ![r] = db[call[r].id].data]
  /\ next' = [next EXCEPT ![r] = 1]
  /\ Goto(r, "merge")
  /\ UNCHANGED <<db, writer, clock, issued, call, reply>>

Incoming(r) == call[r].items

MergeItem(r) ==
  /\ pc[r] = "merge"
  /\ next[r] <= Len(Incoming(r))
  /\ IsItemAccepted(Incoming(r)[next[r]])
  /\ merged' = [merged EXCEPT ![r] = MergeData(merged[r], Incoming(r)[next[r]])]
  /\ next' = [next EXCEPT ![r] = next[r] + 1]
  /\ UNCHANGED <<db, writer, clock, issued, pc, call, share, reply>>

RejectItem(r) ==
  /\ pc[r] = "merge"
  /\ next[r] <= Len(Incoming(r))
  /\ ~IsItemAccepted(Incoming(r)[next[r]])
  /\ Rollback(r, "invalid_input")

TooMuchData(r) ==
  /\ pc[r] = "merge"
  /\ next[r] > Len(Incoming(r))
  /\ DataSize(merged[r]) > MaxShareDataBytes
  /\ Rollback(r, "invalid_input")

EndMerge(r) ==
  /\ pc[r] = "merge"
  /\ next[r] > Len(Incoming(r))
  /\ ~(DataSize(merged[r]) > MaxShareDataBytes)
  /\ share' = [share EXCEPT ![r] = [share[r] EXCEPT !.data = merged[r],
                                                   !.updatedAt = clock]]
  /\ Goto(r, "commit")
  /\ UNCHANGED <<db, writer, clock, issued, call, merged, next, reply>>

(* json.Marshal and bucket.Put (or Delete), then bbolt's atomic commit.    *)
Committed(r) == IF call[r].op = "Remove" THEN NoShare ELSE Encode(share[r])

Success(r) ==
  IF call[r].op = "Create" THEN Answer("ok", share[r].secret) ELSE Failure("ok")

Commit(r) ==
  /\ pc[r] = "commit"
  /\ db' = [db EXCEPT ![call[r].id] = Committed(r)]
  /\ writer' = NoRequest
  /\ Finish(r, Success(r))
  /\ UNCHANGED <<clock, issued, call, locals>>

(* Put or the commit failed (a full disk): nothing changed, the error is   *)
(* not one serviceError knows.                                             *)
FailCommit(r) == pc[r] = "commit" /\ Rollback(r, "internal")

-----------------------------------------------------------------------------
(* Broken variant: the shares come in bucket order.                        *)
IsUnsortedListing(listing) == {listing[i].id : i \in DOMAIN listing} = Stored(db)

(* Read transactions, answered from one snapshot.                          *)
IsListing(listing) ==
  /\ {listing[i].id : i \in DOMAIN listing} = Stored(db)
  /\ \A i, j \in DOMAIN listing :
       i < j => listing[i].updatedAt >= listing[j].updatedAt

List(r) ==
  /\ pc[r] = "called"
  /\ call[r].op = "List"
  /\ \E listing \in [1..Cardinality(Stored(db)) -> {Summary(db, id) : id \in Stored(db)}] :
       IsListing(listing) /\ Finish(r, Answer("ok", listing))
  /\ UNCHANGED <<db, writer, clock, issued, call, locals>>

GetAnswer(s) == Failure(IF s = NoShare THEN "missing" ELSE "found")

DataAnswer(s) == IF s = NoShare THEN Failure("not_found") ELSE Answer("ok", s.data)

(* DataWithPassword and CheckViewPassword: found, then password, then body *)
ViewAnswer(s, password, body) ==
  IF s = NoShare THEN Failure("not_found")
  ELSE IF ~CheckViewPassword(s, password) THEN Failure("invalid_secret")
  ELSE Answer("ok", body)

Lookup(r) ==
  /\ pc[r] = "called"
  /\ call[r].op \in {"Get", "Data"}
  /\ LET s == db[call[r].id]
     IN  Finish(r, IF call[r].op = "Get" THEN GetAnswer(s) ELSE DataAnswer(s))
  /\ UNCHANGED <<db, writer, clock, issued, call, locals>>

View(r) ==
  /\ pc[r] = "called"
  /\ call[r].op \in {"CheckViewPassword", "DataWithPassword"}
  /\ LET s == db[call[r].id]
         body == IF s = NoShare \/ call[r].op = "CheckViewPassword" THEN NoBody
                 ELSE s.data
     IN  Finish(r, ViewAnswer(s, call[r].password, body))
  /\ UNCHANGED <<db, writer, clock, issued, call, locals>>

-----------------------------------------------------------------------------
(* The answer leaves; the goroutine's locals are gone.                     *)
Respond(r) ==
  /\ pc[r] = "reply"
  /\ Goto(r, "idle")
  /\ call' = [call EXCEPT ![r] = NoBody]
  /\ share' = [share EXCEPT ![r] = NoShare]
  /\ merged' = [merged EXCEPT ![r] = <<>>]
  /\ next' = [next EXCEPT ![r] = 1]
  /\ reply' = [reply EXCEPT ![r] = NoBody]
  /\ UNCHANGED <<db, writer, clock, issued>>

Tick ==
  /\ clock < MaxClock
  /\ clock' = clock + 1
  /\ UNCHANGED <<db, writer, issued, pc, call, locals, reply>>

(* The process dies and is started again on the same database file: what   *)
(* was committed stays, everything in memory goes.                         *)
Crash ==
  /\ writer' = NoRequest
  /\ pc' = [r \in Requests |-> "idle"]
  /\ call' = [r \in Requests |-> NoBody]
  /\ share' = [r \in Requests |-> NoShare]
  /\ merged' = [r \in Requests |-> <<>>]
  /\ next' = [r \in Requests |-> 1]
  /\ reply' = [r \in Requests |-> NoBody]
  /\ UNCHANGED <<db, clock, issued>>

Write(r) ==
  \/ AlreadyExists(r) \/ PutNew(r) \/ NotFound(r) \/ InvalidSecret(r)
  \/ SetPassword(r) \/ Remove(r)
  \/ BeginMerge(r) \/ MergeItem(r) \/ RejectItem(r) \/ TooMuchData(r) \/ EndMerge(r)
  \/ Commit(r) \/ FailCommit(r)

Start(r) == Refuse(r) \/ StartCreate(r) \/ StartUpdate(r)

Read(r) == List(r) \/ Lookup(r) \/ View(r)

Next == \/ \E r \in Requests : \/ Receive(r) \/ Start(r) \/ Begin(r)
                               \/ Write(r) \/ Read(r) \/ Respond(r)
        \/ Tick
        \/ Crash

Spec == Init /\ [][Next]_vars

(* A goroutine the Go scheduler runs keeps running; the writer lock is a   *)
(* sync.Mutex, whose starvation mode hands it to a waiter in the end.      *)
Fairness ==
  \A r \in Requests : /\ WF_vars(Start(r)) /\ WF_vars(Write(r)) /\ WF_vars(Read(r))
                      /\ WF_vars(Respond(r)) /\ SF_vars(Begin(r))

FairSpec == Spec /\ Fairness
-----------------------------------------------------------------------------
(* The inductive invariant behind the safety properties below, in parts.   *)

InTransaction(r) == pc[r] \in {"update", "merge", "commit"}

(* The writer lock is held exactly by the goroutine inside Update.         *)
LockInv == \A r \in Requests : InTransaction(r) <=> writer = r

(* Only writes wait for the lock and only Sync merges.                     *)
StepInv ==
  \A r \in Requests :
    /\ pc[r] = "locking" \/ InTransaction(r) => call[r] \in WriteCall
    /\ pc[r] = "merge" => call[r] \in SyncCall

KeysUniqueIn(items) ==
  \A i, j \in DOMAIN items :
    items[i].key = items[j].key /\ items[i].key # NoKey => i = j

(* A share's times are ordered and not in the future; its keys are unique. *)
WellFormed(s) ==
  /\ s \in Share
  /\ s.createdAt <= s.updatedAt /\ s.updatedAt <= clock
  /\ KeysUniqueIn(s.data)

IsEncoded(items) == \A i \in DOMAIN items : items[i].raw = items[i].enc

(* Everything stored is well formed and in encoded form.                   *)
StoredInv ==
  \A id \in Stored(db) : WellFormed(db[id]) /\ IsEncoded(db[id].data)

(* Until its commit a Create carries the empty share it built, for an id   *)
(* that was accepted.                                                      *)
CreateInv ==
  \A r \in Requests :
    (pc[r] = "locking" \/ InTransaction(r)) /\ call[r].op = "Create"
      => /\ WellFormed(share[r]) /\ share[r].data = <<>>
         /\ ValidSessionID(call[r].id)

(* While Sync loops, the share it decoded is still the committed one.      *)
MergeInv ==
  \A r \in Requests : pc[r] = "merge" =>
    /\ db[call[r].id] # NoShare
    /\ share[r] = db[call[r].id]
    /\ share[r].secret = call[r].secret
    /\ WellFormed([share[r] EXCEPT !.data = merged[r]])

(* An update about to be stored is well formed and not older than the      *)
(* share it replaces.                                                      *)
CommitInv ==
  \A r \in Requests :
    pc[r] = "commit" /\ call[r].op \in {"Sync", "SetPassword"}
      => WellFormed(share[r]) /\ share[r].updatedAt >= db[call[r].id].updatedAt

-----------------------------------------------------------------------------
(* Properties.                                                             *)

(* Every variable keeps its type, only ids that validateSessionID accepts  *)
(* are stored, and a goroutine past Receive has a call.                    *)
TypeOK ==
  /\ db \in [IDs -> Share \cup {NoShare}]
  /\ Stored(db) \subseteq ValidIDs
  /\ writer \in Requests \cup {NoRequest}
  /\ clock \in 0..MaxClock
  /\ issued \subseteq Secrets
  /\ pc \in [Requests -> Steps]
  /\ call \in [Requests -> Call \cup {NoBody}]
  /\ \A r \in Requests : pc[r] # "idle" => call[r] \in Call
  /\ share \in [Requests -> Share \cup {NoShare}]
  /\ merged \in [Requests -> Seq(Item)]
  /\ next \in [Requests -> Nat \ {0}]

(* mergeData keeps at most one stored event per "_key", however syncs of   *)
(* several clients interleave, fail and are retried.                       *)
KeysUnique == \A id \in Stored(db) : KeysUniqueIn(db[id].data)

(* What List tells the administrator of a share is what checkViewPassword  *)
(* does with it: "public" opens without a password, "default password"     *)
(* opens with the default one, "own password" only with that one.          *)
SummariesAreTruthful ==
  \A id \in Stored(db) : \A password \in Passwords :
    LET summary == Summary(db, id)
    IN  CheckViewPassword(db[id], password) <=>
          \/ ~summary.hasPassword
          \/ summary.usesDefaultPassword /\ password = DefaultPassword
          \/ /\ summary.hasPassword /\ ~summary.usesDefaultPassword
             /\ password = db[id].password

(* What a write transaction is about to store still agrees with the        *)
(* committed share on everything its operation does not set: no committed  *)
(* sync, password or removal is undone by a transaction that began before. *)
AgreesWith(c, new, now) ==
  /\ c.op = "Create" <=> now = NoShare
  /\ c.op \in {"Sync", "Remove"} => now.secret = c.secret
  /\ c.op = "Sync" =>
       new = [now EXCEPT !.data = new.data, !.updatedAt = new.updatedAt]
  /\ c.op = "SetPassword" =>
       new = [now EXCEPT !.password = c.password, !.updatedAt = new.updatedAt]

CommitIsCurrent ==
  \A r \in Requests :
    pc[r] = "commit" => AgreesWith(call[r], share[r], db[call[r].id])

(* The inductive invariant.                                                *)
IInv ==
  /\ TypeOK /\ LockInv /\ StepInv /\ StoredInv
  /\ CreateInv /\ MergeInv /\ CommitInv /\ CommitIsCurrent

(* A stored share's data change only by a sync that presents its secret,   *)
(* its password only by SetPassword, and it disappears only by a Remove    *)
(* that presents its secret.                                               *)
ActsOn(id, op) ==
  \E r \in Requests : /\ pc[r] = "commit" /\ writer = r
                      /\ call[r].op = op /\ call[r].id = id
                      /\ op # "SetPassword" => call[r].secret = db[id].secret

ChangesAreAuthorised ==
  [][\A id \in Stored(db) :
       IF db'[id] = NoShare THEN ActsOn(id, "Remove")
       ELSE /\ db'[id].data # db[id].data => ActsOn(id, "Sync")
            /\ db'[id].password # db[id].password => ActsOn(id, "SetPassword")]_vars

(* While a share exists it keeps its secret and creation time, and its     *)
(* update time never goes back: Create never overwrites, and each          *)
(* transaction stamps the time under the writer lock.                      *)
LivesAreStable ==
  [][\A id \in Stored(db) : db'[id] # NoShare =>
       /\ db'[id].secret = db[id].secret
       /\ db'[id].createdAt = db[id].createdAt
       /\ db'[id].updatedAt >= db[id].updatedAt]_vars

(* Once a share is removed and no goroutine still works on it, its secret  *)
(* never opens a share again, not even one created later under the same    *)
(* session id.                                                             *)
Retired(secret) ==
  /\ secret \in issued
  /\ \A id \in Stored(db) : db[id].secret # secret
  /\ \A r \in Requests : share[r] # NoShare => share[r].secret # secret

RetiredSecretsStayRetired ==
  [][\A secret \in Secrets : Retired(secret) => Retired(secret)']_vars

(* Listings, views and writes answer as if each call ran alone at one      *)
(* instant between its arrival and its answer, across crashes.             *)
Phase(step) ==
  CASE step = "idle"  -> "idle"
    [] step = "reply" -> "answered"
    [] OTHER          -> "called"

API == INSTANCE ShareAPI WITH phase <- [r \in Requests |-> Phase(pc[r])]

ImplementsAPI == API!Spec

(* Every call is answered, or dropped by a crash.                          *)
EveryCallAnswered ==
  \A r \in Requests : pc[r] = "called" ~> pc[r] \in {"reply", "idle"}

(* MaxShareDataBytes, "limits a share's accumulated encoded data size"     *)
(* (service.go:19): what is stored stays within it.                        *)
StoredDataWithinLimit ==
  \A id \in Stored(db) : DataSize(db[id].data) <= MaxShareDataBytes
=============================================================================
