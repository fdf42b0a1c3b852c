------------------------- MODULE ShareServiceProofs -------------------------
(***************************************************************************)
(* Proofs about ShareService for any sets of requests, ids, secrets, keys  *)
(* and calls and any limits: the inductive invariant IInv, the safety      *)
(* properties it carries, and that ShareService implements ShareAPI.       *)
(***************************************************************************)
EXTENDS ShareService, TLAPS, FiniteSetTheorems

(* What the type of a call says of its fields, by operation.               *)
LEMMA CallFields ==
  ASSUME NEW c \in Call
  PROVE  /\ c.op \in {"Create", "Sync", "SetPassword", "Remove"} => c \in WriteCall
         /\ c \in WriteCall => /\ c.id \in IDs
                               /\ c.op \in {"Create", "Sync", "SetPassword", "Remove"}
         /\ c.op = "Sync" => c \in SyncCall
         /\ c \in SyncCall => /\ c.op = "Sync" /\ c.id \in IDs
                              /\ c.secret \in Secrets /\ c.items \in Seq(Item)
         /\ c.op = "SetPassword" => c.password \in Passwords
BY DEF Call, WriteCall, ReadCall, CreateCall, SyncCall, SetPasswordCall,
       RemoveCall, LookupCall, PasswordCall, ListCall

LEMMA ShareFields ==
  ASSUME NEW s \in Share
  PROVE  /\ s.secret \in Secrets /\ s.data \in Seq(Item) /\ s.password \in Passwords
         /\ s.createdAt \in Nat /\ s.updatedAt \in Nat
BY DEF Share

(* Storing a share changes the encoding of its events and nothing else,    *)
(* and nothing at all when they are already in encoded form.               *)
LEMMA EncodeFacts ==
  ASSUME NEW s \in Share
  PROVE  /\ Encode(s) \in Share
         /\ Encode(s).secret = s.secret /\ Encode(s).password = s.password
         /\ Encode(s).createdAt = s.createdAt /\ Encode(s).updatedAt = s.updatedAt
         /\ IsEncoded(Encode(s).data)
         /\ KeysUniqueIn(s.data) => KeysUniqueIn(Encode(s).data)
         /\ IsEncoded(s.data) => Encode(s).data = s.data
<1> DEFINE d == [i \in 1..Len(s.data) |-> EncodeItem(s.data[i])]
<1>1. s.data \in Seq(Item) /\ Len(s.data) \in Nat /\ DOMAIN s.data = 1..Len(s.data)
  BY ShareFields
<1>2. \A i \in 1..Len(s.data) : s.data[i] \in Item
  BY <1>1
<1>3. \A i \in 1..Len(s.data) : /\ EncodeItem(s.data[i]) \in Item
                                /\ EncodeItem(s.data[i]).key = s.data[i].key
                                /\ EncodeItem(s.data[i]).raw = EncodeItem(s.data[i]).enc
                                /\ s.data[i].raw = s.data[i].enc
                                     => EncodeItem(s.data[i]) = s.data[i]
  BY <1>2 DEF EncodeItem, Item
<1>4. d \in Seq(Item) /\ DOMAIN d = 1..Len(s.data)
  BY <1>1, <1>3
<1>5. Encode(s) = [s EXCEPT !.data = d]
  BY DEF Encode
<1>6. Encode(s) \in Share /\ Encode(s).data = d
  BY <1>4, <1>5 DEF Share
<1>7. IsEncoded(d)
  BY <1>3, <1>4 DEF IsEncoded
<1>8. KeysUniqueIn(s.data) => KeysUniqueIn(d)
  BY <1>1, <1>3, <1>4 DEF KeysUniqueIn
<1>9. IsEncoded(s.data) => d = s.data
  BY <1>1, <1>3, <1>4 DEF IsEncoded
<1> HIDE DEF d
<1>10. QED
  BY <1>5, <1>6, <1>7, <1>8, <1>9 DEF Share

(* mergeData returns events and keeps at most one event per key.           *)
LEMMA MergeDataFacts ==
  ASSUME NEW items \in Seq(Item), NEW item \in Item
  PROVE  /\ MergeData(items, item) \in Seq(Item)
         /\ KeysUniqueIn(items) => KeysUniqueIn(MergeData(items, item))
<1> DEFINE n == FirstWithKey(items, item.key)
<1>1. CASE item.key # NoKey /\ HasKey(items, item.key) /\ KeysUniqueIn(items)
  <2>1. PICK i \in DOMAIN items : items[i].key = item.key
    BY <1>1 DEF HasKey
  <2>2. \A j \in DOMAIN items : items[j].key = item.key => i = j
    BY <1>1, <2>1 DEF KeysUniqueIn
  <2>3. i <= i
    BY <2>1
  <2>4. n \in DOMAIN items /\ items[n].key = item.key
    BY <2>1, <2>2, <2>3 DEF FirstWithKey
  <2>5. MergeData(items, item) = [items EXCEPT ![n] = item]
    BY <1>1 DEF MergeData
  <2>6. n = i
    BY <2>2, <2>4
  <2> HIDE DEF n
  <2>7. QED
    BY <2>2, <2>4, <2>5, <1>1 DEF KeysUniqueIn
<1>2. CASE item.key # NoKey /\ HasKey(items, item.key) /\ ~KeysUniqueIn(items)
  <2>1. MergeData(items, item) = [items EXCEPT ![n] = item]
    BY <1>2 DEF MergeData
  <2>2. items \in [1..Len(items) -> Item] /\ Len(items) \in Nat
    OBVIOUS
  <2> HIDE DEF n
  <2>3. [items EXCEPT ![n] = item] \in [1..Len(items) -> Item]
    BY <2>2
  <2>4. QED
    BY <2>1, <2>2, <2>3, <1>2
<1>3. CASE ~(item.key # NoKey /\ HasKey(items, item.key))
  <2>1. MergeData(items, item) = Append(items, item)
    BY <1>3 DEF MergeData
  <2>2. QED
    BY <2>1, <1>3 DEF KeysUniqueIn, HasKey
<1>4. QED
  BY <1>1, <1>2, <1>3

-----------------------------------------------------------------------------
(* Steps that move one goroutine and leave every value alone.  Where it    *)
(* may go: to its answer, out of a transaction or not, or forward.         *)

(* A call answered without a transaction.                                  *)
LEMMA AnswerStep ==
  ASSUME IInv, NEW r \in Requests, pc[r] = "called",
         pc' = [pc EXCEPT ![r] = "reply"],
         UNCHANGED <<db, writer, clock, issued, call, share, merged, next>>
  PROVE  IInv'
<1>1. \A q \in Requests : pc'[q] = IF q = r THEN "reply" ELSE pc[q]
  BY DEF IInv, TypeOK
<1>2. TypeOK'
  BY <1>1 DEF IInv, TypeOK, Steps
<1>3. LockInv' /\ StepInv'
  BY <1>1 DEF IInv, LockInv, StepInv, InTransaction
<1>4. StoredInv'
  BY DEF IInv, StoredInv, Stored, WellFormed
<1>5. CreateInv' /\ MergeInv' /\ CommitInv'
  BY <1>1 DEF IInv, CreateInv, MergeInv, CommitInv, InTransaction, WellFormed
<1>6. CommitIsCurrent'
  BY <1>1 DEF IInv, CommitIsCurrent
<1>7. QED
  BY <1>2, <1>3, <1>4, <1>5, <1>6 DEF IInv

(* A transaction rolled back.                                              *)
LEMMA RollbackStep ==
  ASSUME IInv, NEW r \in Requests, InTransaction(r), NEW status, Rollback(r, status)
  PROVE  IInv'
<1> USE DEF Rollback, Finish, Goto, locals
<1>1. \A q \in Requests : pc'[q] = IF q = r THEN "reply" ELSE pc[q]
  BY DEF IInv, TypeOK
<1>2. writer = r /\ \A q \in Requests : InTransaction(q) => q = r
  BY DEF IInv, LockInv
<1>3. TypeOK'
  BY <1>1, RequestAssumption DEF IInv, TypeOK, Steps, InTransaction
<1>4. LockInv' /\ StepInv'
  BY <1>1, <1>2, RequestAssumption DEF IInv, LockInv, StepInv, InTransaction
<1>5. StoredInv'
  BY DEF IInv, StoredInv, Stored, WellFormed
<1>6. CreateInv' /\ MergeInv' /\ CommitInv'
  BY <1>1 DEF IInv, CreateInv, MergeInv, CommitInv, InTransaction, WellFormed
<1>7. CommitIsCurrent'
  BY <1>1 DEF IInv, CommitIsCurrent
<1>8. QED
  BY <1>3, <1>4, <1>5, <1>6, <1>7 DEF IInv

-----------------------------------------------------------------------------
(* One lemma per remaining action of a goroutine.                          *)

LEMMA ReceiveStep ==
  ASSUME IInv, NEW r \in Requests, Receive(r)
  PROVE  IInv'
<1> USE DEF Receive, Goto, locals
<1>1. PICK c \in Calls : call' = [call EXCEPT ![r] = c]
  OBVIOUS
<1>2. c \in Call
  BY CallAssumption
<1>3. \A q \in Requests : /\ pc'[q] = IF q = r THEN "called" ELSE pc[q]
                         /\ call'[q] = IF q = r THEN c ELSE call[q]
  BY <1>1 DEF IInv, TypeOK
<1>4. TypeOK'
  BY <1>1, <1>2, <1>3 DEF IInv, TypeOK, Steps
<1>5. LockInv' /\ StepInv'
  BY <1>3 DEF IInv, LockInv, StepInv, InTransaction
<1>6. StoredInv'
  BY DEF IInv, StoredInv, Stored, WellFormed
<1>7. CreateInv' /\ MergeInv' /\ CommitInv'
  BY <1>3 DEF IInv, CreateInv, MergeInv, CommitInv, InTransaction, WellFormed
<1>8. CommitIsCurrent'
  BY <1>3 DEF IInv, CommitIsCurrent
<1>9. QED
  BY <1>4, <1>5, <1>6, <1>7, <1>8 DEF IInv

LEMMA StartCreateStep ==
  ASSUME IInv, NEW r \in Requests, StartCreate(r)
  PROVE  IInv'
<1> USE DEF StartCreate, Goto, locals
<1>1. PICK secret \in Secrets \ issued :
        issued' = issued \cup {secret} /\ share' = [share EXCEPT ![r] = NewShare(secret)]
  OBVIOUS
<1>2. WellFormed(NewShare(secret)) /\ NewShare(secret).data = <<>>
  BY PasswordAssumption, ClockAssumption
     DEF NewShare, WellFormed, Share, KeysUniqueIn, IInv, TypeOK
<1>3. \A q \in Requests : /\ pc'[q] = IF q = r THEN "locking" ELSE pc[q]
                         /\ share'[q] = IF q = r THEN NewShare(secret) ELSE share[q]
  BY <1>1 DEF IInv, TypeOK
<1>4. call[r] \in WriteCall /\ call[r].op = "Create"
  BY CallFields DEF IInv, TypeOK
<1>5. TypeOK'
  BY <1>1, <1>2, <1>3 DEF IInv, TypeOK, Steps, WellFormed
<1>6. LockInv' /\ StepInv'
  BY <1>3, <1>4 DEF IInv, LockInv, StepInv, InTransaction
<1>7. StoredInv'
  BY DEF IInv, StoredInv, Stored, WellFormed
<1>8. CreateInv'
  <2>1. ValidSessionID(call[r].id)
    BY DEF RefusedEarly
  <2>2. QED
    BY <1>2, <1>3, <2>1 DEF IInv, CreateInv, InTransaction, WellFormed, ValidSessionID
<1>9. MergeInv' /\ CommitInv'
  BY <1>3 DEF IInv, MergeInv, CommitInv, InTransaction, WellFormed
<1>10. CommitIsCurrent'
  BY <1>3 DEF IInv, CommitIsCurrent
<1>11. QED
  BY <1>5, <1>6, <1>7, <1>8, <1>9, <1>10 DEF IInv

LEMMA StartUpdateStep ==
  ASSUME IInv, NEW r \in Requests, StartUpdate(r)
  PROVE  IInv'
<1> USE DEF StartUpdate, Goto, locals
<1>1. \A q \in Requests : pc'[q] = IF q = r THEN "locking" ELSE pc[q]
  BY DEF IInv, TypeOK
<1>2. call[r] \in WriteCall /\ call[r].op # "Create"
  BY CallFields DEF IInv, TypeOK
<1>3. TypeOK'
  BY <1>1 DEF IInv, TypeOK, Steps
<1>4. LockInv' /\ StepInv'
  BY <1>1, <1>2 DEF IInv, LockInv, StepInv, InTransaction
<1>5. StoredInv'
  BY DEF IInv, StoredInv, Stored, WellFormed
<1>6. CreateInv' /\ MergeInv' /\ CommitInv'
  BY <1>1, <1>2 DEF IInv, CreateInv, MergeInv, CommitInv, InTransaction, WellFormed
<1>7. CommitIsCurrent'
  BY <1>1 DEF IInv, CommitIsCurrent
<1>8. QED
  BY <1>3, <1>4, <1>5, <1>6, <1>7 DEF IInv

LEMMA BeginStep ==
  ASSUME IInv, NEW r \in Requests, Begin(r)
  PROVE  IInv'
<1> USE DEF Begin, Goto, locals
<1>1. \A q \in Requests : pc'[q] = IF q = r THEN "update" ELSE pc[q]
  BY DEF IInv, TypeOK
<1>2. \A q \in Requests : ~InTransaction(q)
  BY RequestAssumption DEF IInv, LockInv
<1>3. TypeOK'
  BY <1>1 DEF IInv, TypeOK, Steps
<1>4. LockInv' /\ StepInv'
  BY <1>1, <1>2 DEF IInv, LockInv, StepInv, InTransaction
<1>5. StoredInv'
  BY DEF IInv, StoredInv, Stored, WellFormed
<1>6. CreateInv' /\ MergeInv' /\ CommitInv'
  BY <1>1 DEF IInv, CreateInv, MergeInv, CommitInv, InTransaction, WellFormed
<1>7. CommitIsCurrent'
  BY <1>1 DEF IInv, CommitIsCurrent
<1>8. QED
  BY <1>3, <1>4, <1>5, <1>6, <1>7 DEF IInv

(* Create and Remove decide to commit without touching their locals.       *)
LEMMA DecideStep ==
  ASSUME IInv, NEW r \in Requests, PutNew(r) \/ Remove(r)
  PROVE  IInv'
<1> USE DEF PutNew, Remove, Found, Working, Goto, locals
<1>1. \A q \in Requests : pc'[q] = IF q = r THEN "commit" ELSE pc[q]
  BY DEF IInv, TypeOK
<1>2. call[r].op \in {"Create", "Remove"}
  OBVIOUS
<1>3. AgreesWith(call[r], share[r], db[call[r].id])
  BY DEF AgreesWith
<1>4. TypeOK'
  BY <1>1 DEF IInv, TypeOK, Steps
<1>5. LockInv' /\ StepInv'
  BY <1>1 DEF IInv, LockInv, StepInv, InTransaction
<1>6. StoredInv'
  BY DEF IInv, StoredInv, Stored, WellFormed
<1>7. CreateInv' /\ MergeInv' /\ CommitInv'
  BY <1>1, <1>2 DEF IInv, CreateInv, MergeInv, CommitInv, InTransaction, WellFormed
<1>8. CommitIsCurrent'
  BY <1>1, <1>3 DEF IInv, CommitIsCurrent
<1>9. QED
  BY <1>4, <1>5, <1>6, <1>7, <1>8 DEF IInv

(* What a transaction that found its share works with.                     *)
LEMMA FoundFacts ==
  ASSUME IInv, NEW r \in Requests, InTransaction(r), db[call[r].id] # NoShare
  PROVE  /\ call[r] \in Call /\ call[r] \in WriteCall /\ call[r].id \in IDs
         /\ WellFormed(db[call[r].id]) /\ IsEncoded(db[call[r].id].data)
         /\ writer = r /\ \A q \in Requests : InTransaction(q) => q = r
<1>1. call[r] \in WriteCall
  BY DEF IInv, StepInv
<1>2. call[r] \in Call /\ call[r].id \in IDs
  BY <1>1, CallFields DEF Call
<1>3. WellFormed(db[call[r].id]) /\ IsEncoded(db[call[r].id].data)
  BY <1>2 DEF IInv, StoredInv, Stored
<1>4. writer = r /\ \A q \in Requests : InTransaction(q) => q = r
  BY DEF IInv, LockInv
<1>5. QED
  BY <1>1, <1>2, <1>3, <1>4

LEMMA SetPasswordStep ==
  ASSUME IInv, NEW r \in Requests, SetPassword(r)
  PROVE  IInv'
<1> USE DEF SetPassword, Found, Working, Goto
<1> DEFINE now == db[call[r].id]
           new == [now EXCEPT !.password = call[r].password, !.updatedAt = clock]
<1>1. /\ call[r] \in Call /\ WellFormed(now)
      /\ \A q \in Requests : InTransaction(q) => q = r
  BY FoundFacts DEF InTransaction
<1>2. call[r].op = "SetPassword" /\ call[r].password \in Passwords
  BY <1>1, CallFields
<1>3. clock \in Nat
  BY ClockAssumption DEF IInv, TypeOK
<1>4. WellFormed(new) /\ new.updatedAt >= now.updatedAt
  <2>1. now \in Share
    BY <1>1 DEF WellFormed
  <2>2. /\ new \in Share /\ new.data = now.data
        /\ new.createdAt = now.createdAt /\ new.updatedAt = clock
    BY <2>1, <1>2, <1>3 DEF Share
  <2>3. now.createdAt \in Nat /\ now.updatedAt \in Nat
    BY <2>1, ShareFields
  <2> HIDE DEF new, now
  <2>4. QED
    BY <1>1, <1>3, <2>2, <2>3 DEF WellFormed
<1>5. AgreesWith(call[r], new, now)
  BY <1>1, <1>2 DEF AgreesWith, WellFormed, Share
<1>6. /\ share' = [share EXCEPT ![r] = new]
      /\ pc' = [pc EXCEPT ![r] = "commit"]
      /\ UNCHANGED <<db, writer, clock, issued, call, merged, next>>
      /\ pc[r] = "update"
  OBVIOUS
<1> HIDE DEF now, new, SetPassword
<1>7. \A q \in Requests : /\ pc'[q] = IF q = r THEN "commit" ELSE pc[q]
                          /\ share'[q] = IF q = r THEN new ELSE share[q]
  BY <1>6 DEF IInv, TypeOK
<1>8. TypeOK'
  BY <1>4, <1>6, <1>7 DEF IInv, TypeOK, Steps, WellFormed
<1>9. LockInv' /\ StepInv'
  BY <1>6, <1>7 DEF IInv, LockInv, StepInv, InTransaction
<1>10. StoredInv'
  BY <1>6 DEF IInv, StoredInv, Stored, WellFormed
<1>11. CreateInv' /\ MergeInv'
  BY <1>6, <1>2, <1>7 DEF IInv, CreateInv, MergeInv, InTransaction, WellFormed
<1>12. CommitInv'
  BY <1>6, <1>4, <1>7 DEF IInv, CommitInv, WellFormed, now
<1>13. CommitIsCurrent'
  BY <1>6, <1>5, <1>7 DEF IInv, CommitIsCurrent, now
<1>14. QED
  BY <1>8, <1>9, <1>10, <1>11, <1>12, <1>13 DEF IInv

LEMMA BeginMergeStep ==
  ASSUME IInv, NEW r \in Requests, BeginMerge(r)
  PROVE  IInv'
<1> USE DEF BeginMerge, Found, Working, Goto
<1> DEFINE now == db[call[r].id]
<1>1. /\ call[r] \in Call /\ WellFormed(now)
      /\ \A q \in Requests : InTransaction(q) => q = r
  BY FoundFacts DEF InTransaction
<1>2. call[r].op = "Sync" /\ call[r] \in SyncCall
  BY <1>1, CallFields
<1>3. now \in Share /\ now.data \in Seq(Item) /\ [now EXCEPT !.data = now.data] = now
  BY <1>1 DEF WellFormed, Share
<1>4. /\ now # NoShare /\ now.secret = call[r].secret
      /\ share' = [share EXCEPT ![r] = now]
      /\ merged' = [merged EXCEPT ![r] = now.data]
      /\ next' = [next EXCEPT ![r] = 1]
  OBVIOUS
<1> HIDE DEF now
<1>5. \A q \in Requests : /\ pc'[q] = IF q = r THEN "merge" ELSE pc[q]
                          /\ share'[q] = IF q = r THEN now ELSE share[q]
                          /\ merged'[q] = IF q = r THEN now.data ELSE merged[q]
  BY <1>4 DEF IInv, TypeOK
<1>6. TypeOK'
  BY <1>3, <1>4, <1>5 DEF IInv, TypeOK, Steps
<1>7. LockInv' /\ StepInv'
  BY <1>2, <1>5 DEF IInv, LockInv, StepInv, InTransaction
<1>8. StoredInv'
  BY DEF IInv, StoredInv, Stored, WellFormed
<1>9. CreateInv' /\ CommitInv'
  BY <1>2, <1>5 DEF IInv, CreateInv, CommitInv, InTransaction, WellFormed
<1>10. MergeInv'
  <2>1. \A q \in Requests : pc'[q] = "merge" => q = r
    BY <1>1, <1>5 DEF InTransaction
  <2>2. [share'[r] EXCEPT !.data = merged'[r]] = now
    BY <1>3, <1>5
  <2>3. WellFormed([share[r] EXCEPT !.data = merged[r]])'
    BY <1>1, <2>2 DEF WellFormed
  <2>4. QED
    BY <1>4, <1>5, <2>1, <2>3 DEF MergeInv, now
<1>11. CommitIsCurrent'
  BY <1>5 DEF IInv, CommitIsCurrent
<1>12. QED
  BY <1>6, <1>7, <1>8, <1>9, <1>10, <1>11 DEF IInv

LEMMA MergeItemStep ==
  ASSUME IInv, NEW r \in Requests, MergeItem(r)
  PROVE  IInv'
<1> USE DEF MergeItem, Incoming
<1> DEFINE item  == call[r].items[next[r]]
           items == MergeData(merged[r], item)
<1>1. call[r] \in SyncCall /\ call[r] \in Call
  BY DEF IInv, StepInv, TypeOK
<1>2. call[r].items \in Seq(Item) /\ call[r].op = "Sync"
  BY <1>1, CallFields
<1>3. next[r] \in Nat \ {0} /\ merged[r] \in Seq(Item)
  BY DEF IInv, TypeOK
<1>4. item \in Item
  BY <1>2, <1>3
<1>5. /\ WellFormed([share[r] EXCEPT !.data = merged[r]])
      /\ share[r] = db[call[r].id] /\ db[call[r].id] # NoShare
      /\ share[r].secret = call[r].secret
  BY DEF IInv, MergeInv
<1>6. share[r] \in Share
  BY <1>5 DEF IInv, TypeOK
<1>7. KeysUniqueIn(merged[r])
  BY <1>5, <1>6 DEF WellFormed, Share
<1>8. items \in Seq(Item) /\ KeysUniqueIn(items)
  BY <1>3, <1>4, <1>7, MergeDataFacts
<1>9. WellFormed([share[r] EXCEPT !.data = items])
  BY <1>5, <1>6, <1>8 DEF WellFormed, Share
<1>10. merged' = [merged EXCEPT ![r] = items] /\ next' = [next EXCEPT ![r] = next[r] + 1]
  OBVIOUS
<1> HIDE DEF items, item
<1>11. \A q \in Requests : merged'[q] = IF q = r THEN items ELSE merged[q]
  BY <1>10 DEF IInv, TypeOK
<1>12. TypeOK'
  BY <1>3, <1>8, <1>10 DEF IInv, TypeOK
<1>13. LockInv' /\ StepInv'
  BY DEF IInv, LockInv, StepInv, InTransaction
<1>14. StoredInv'
  BY DEF IInv, StoredInv, Stored, WellFormed
<1>15. CreateInv' /\ CommitInv'
  BY <1>2 DEF IInv, CreateInv, CommitInv, InTransaction, WellFormed
<1>16. MergeInv'
  BY <1>5, <1>9, <1>11 DEF IInv, MergeInv, WellFormed
<1>17. CommitIsCurrent'
  BY DEF IInv, CommitIsCurrent
<1>18. QED
  BY <1>12, <1>13, <1>14, <1>15, <1>16, <1>17 DEF IInv

LEMMA EndMergeStep ==
  ASSUME IInv, NEW r \in Requests, EndMerge(r)
  PROVE  IInv'
<1> USE DEF EndMerge, Goto
<1> DEFINE now == db[call[r].id]
           new == [share[r] EXCEPT !.data = merged[r], !.updatedAt = clock]
<1>1. call[r] \in SyncCall /\ call[r].op = "Sync"
  BY CallFields DEF IInv, StepInv, TypeOK
<1>2. /\ WellFormed([share[r] EXCEPT !.data = merged[r]])
      /\ share[r] = now /\ now # NoShare
      /\ share[r].secret = call[r].secret
  BY DEF IInv, MergeInv
<1>3. share[r] \in Share /\ merged[r] \in Seq(Item) /\ clock \in Nat
  BY <1>2, ClockAssumption DEF IInv, TypeOK
<1>4. WellFormed(new) /\ new.updatedAt >= now.updatedAt
  <2> DEFINE old == [share[r] EXCEPT !.data = merged[r]]
  <2>1. /\ new \in Share /\ new.data = old.data /\ new.data = merged[r]
        /\ new.createdAt = old.createdAt /\ new.updatedAt = clock
        /\ old.updatedAt = now.updatedAt
    BY <1>2, <1>3 DEF Share
  <2>2. old \in Share /\ old.createdAt \in Nat /\ old.updatedAt \in Nat
    BY <1>3 DEF Share
  <2>3. WellFormed(old)
    BY <1>2
  <2> HIDE DEF new, now, old
  <2>4. QED
    BY <1>3, <2>1, <2>2, <2>3 DEF WellFormed
<1>5. AgreesWith(call[r], new, now)
  BY <1>1, <1>2, <1>3 DEF AgreesWith, Share
<1>6. /\ share' = [share EXCEPT ![r] = new]
      /\ pc' = [pc EXCEPT ![r] = "commit"]
      /\ UNCHANGED <<db, writer, clock, issued, call, merged, next>>
      /\ pc[r] = "merge"
  OBVIOUS
<1> HIDE DEF now, new, EndMerge
<1>7. \A q \in Requests : /\ pc'[q] = IF q = r THEN "commit" ELSE pc[q]
                          /\ share'[q] = IF q = r THEN new ELSE share[q]
  BY <1>6 DEF IInv, TypeOK
<1>8. TypeOK'
  BY <1>4, <1>6, <1>7 DEF IInv, TypeOK, Steps, WellFormed
<1>9. LockInv' /\ StepInv'
  BY <1>6, <1>7 DEF IInv, LockInv, StepInv, InTransaction
<1>10. StoredInv'
  BY <1>6 DEF IInv, StoredInv, Stored, WellFormed
<1>11. CreateInv' /\ MergeInv'
  BY <1>6, <1>1, <1>7 DEF IInv, CreateInv, MergeInv, InTransaction, WellFormed
<1>12. CommitInv'
  BY <1>6, <1>4, <1>7 DEF IInv, CommitInv, WellFormed, now
<1>13. CommitIsCurrent'
  BY <1>6, <1>5, <1>7 DEF IInv, CommitIsCurrent, now
<1>14. QED
  BY <1>8, <1>9, <1>10, <1>11, <1>12, <1>13 DEF IInv

(* What a commit stores: nothing for a Remove, else a well-formed share in *)
(* encoded form with the fields of the local one.                          *)
LEMMA CommitFacts ==
  ASSUME IInv, NEW r \in Requests, pc[r] = "commit"
  PROVE  /\ call[r] \in WriteCall /\ call[r].id \in IDs
         /\ call[r].op \in {"Create", "Sync", "SetPassword", "Remove"}
         /\ \A q \in Requests : InTransaction(q) => q = r
         /\ writer = r
         /\ db[call[r].id] # NoShare \/ call[r].id \in ValidIDs
         /\ call[r].op = "Remove" => Committed(r) = NoShare
         /\ call[r].op # "Remove" =>
              /\ WellFormed(share[r]) /\ Committed(r) = Encode(share[r])
              /\ WellFormed(Committed(r)) /\ IsEncoded(Committed(r).data)
<1>1. call[r] \in WriteCall
  BY DEF IInv, StepInv, InTransaction
<1>2. call[r].id \in IDs /\ call[r].op \in {"Create", "Sync", "SetPassword", "Remove"}
  BY <1>1, CallFields DEF Call
<1>3. writer = r /\ \A q \in Requests : InTransaction(q) => q = r
  BY DEF IInv, LockInv, InTransaction
<1>4. call[r].op # "Remove" => WellFormed(share[r])
  BY <1>2 DEF IInv, CreateInv, CommitInv, InTransaction
<1>5. ASSUME call[r].op # "Remove"
      PROVE  WellFormed(Encode(share[r])) /\ IsEncoded(Encode(share[r]).data)
  BY <1>4, <1>5, EncodeFacts DEF WellFormed
<1>6. db[call[r].id] # NoShare \/ call[r].id \in ValidIDs
  BY DEF IInv, CommitIsCurrent, AgreesWith, CreateInv, InTransaction, ValidSessionID
<1>7. QED
  BY <1>1, <1>2, <1>3, <1>4, <1>5, <1>6 DEF Committed

LEMMA CommitStep ==
  ASSUME IInv, NEW r \in Requests, Commit(r)
  PROVE  IInv'
<1> USE DEF Commit, Finish, Goto, locals
<1>1. /\ call[r].id \in IDs
      /\ \A q \in Requests : InTransaction(q) => q = r
      /\ writer = r
  BY CommitFacts
<1>2. Committed(r) # NoShare => WellFormed(Committed(r)) /\ IsEncoded(Committed(r).data)
  BY CommitFacts
<1>3. /\ db' = [db EXCEPT ![call[r].id] = Committed(r)]
      /\ pc' = [pc EXCEPT ![r] = "reply"]
      /\ writer' = NoRequest
      /\ UNCHANGED <<clock, issued, call, share, merged, next>>
  OBVIOUS
<1> HIDE DEF Commit
<1>4. /\ \A q \in Requests : pc'[q] = IF q = r THEN "reply" ELSE pc[q]
      /\ \A id \in IDs : db'[id] = IF id = call[r].id THEN Committed(r) ELSE db[id]
  BY <1>3 DEF IInv, TypeOK
<1>5. TypeOK'
  <2>1. Committed(r) \in Share \cup {NoShare}
    BY <1>2 DEF WellFormed
  <2>2. db' \in [IDs -> Share \cup {NoShare}]
    BY <2>1, <1>3 DEF IInv, TypeOK
  <2>3. pc' \in [Requests -> Steps]
    BY <1>3 DEF IInv, TypeOK, Steps
  <2>4. \A q \in Requests : pc'[q] # "idle" => call'[q] \in Call
    BY <1>3, <1>4, CommitFacts DEF IInv, TypeOK, Commit
  <2>5. Stored(db)' \subseteq ValidIDs
    BY <1>4, CommitFacts DEF IInv, TypeOK, Stored, Commit
  <2>6. QED
    BY <1>3, <2>2, <2>3, <2>4, <2>5 DEF IInv, TypeOK
<1>6. LockInv' /\ StepInv'
  BY <1>1, <1>3, <1>4, RequestAssumption DEF IInv, LockInv, StepInv, InTransaction
<1>7. StoredInv'
  BY <1>2, <1>3, <1>4 DEF IInv, StoredInv, Stored, WellFormed
<1>8. CreateInv'
  BY <1>3, <1>4 DEF IInv, CreateInv, InTransaction, WellFormed
<1>9. \A q \in Requests : ~InTransaction(q)'
  BY <1>1, <1>4 DEF InTransaction
<1>10. MergeInv' /\ CommitInv' /\ CommitIsCurrent'
  BY <1>9 DEF MergeInv, CommitInv, CommitIsCurrent, InTransaction
<1>11. QED
  BY <1>5, <1>6, <1>7, <1>8, <1>10 DEF IInv

LEMMA RespondStep ==
  ASSUME IInv, NEW r \in Requests, Respond(r)
  PROVE  IInv'
<1> USE DEF Respond, Goto
<1>1. \A q \in Requests :
        /\ pc'[q] = IF q = r THEN "idle" ELSE pc[q]
        /\ q # r => /\ call'[q] = call[q] /\ share'[q] = share[q]
                    /\ merged'[q] = merged[q]
  BY DEF IInv, TypeOK
<1>2. TypeOK'
  BY <1>1 DEF IInv, TypeOK, Steps
<1>3. LockInv' /\ StepInv'
  BY <1>1 DEF IInv, LockInv, StepInv, InTransaction
<1>4. StoredInv'
  BY DEF IInv, StoredInv, Stored, WellFormed
<1>5. CreateInv' /\ MergeInv' /\ CommitInv'
  BY <1>1 DEF IInv, CreateInv, MergeInv, CommitInv, InTransaction, WellFormed
<1>6. CommitIsCurrent'
  BY <1>1 DEF IInv, CommitIsCurrent
<1>7. QED
  BY <1>2, <1>3, <1>4, <1>5, <1>6 DEF IInv

LEMMA TickStep ==
  ASSUME IInv, Tick
  PROVE  IInv'
<1> USE DEF Tick, locals
<1>1. clock \in Nat /\ clock' \in 0..MaxClock /\ clock <= clock'
  BY ClockAssumption DEF IInv, TypeOK
<1>2. ASSUME NEW s, WellFormed(s)
      PROVE  s \in Share /\ s.createdAt <= s.updatedAt
             /\ s.updatedAt <= clock' /\ KeysUniqueIn(s.data)
  BY <1>1, <1>2, ShareFields DEF WellFormed
<1>3. TypeOK'
  BY <1>1 DEF IInv, TypeOK
<1>4. LockInv' /\ StepInv'
  BY DEF IInv, LockInv, StepInv, InTransaction
<1>5. StoredInv'
  BY <1>2 DEF IInv, StoredInv, Stored, WellFormed
<1>6. CreateInv' /\ MergeInv' /\ CommitInv'
  BY <1>2 DEF IInv, CreateInv, MergeInv, CommitInv, InTransaction, WellFormed
<1>7. CommitIsCurrent'
  BY DEF IInv, CommitIsCurrent
<1>8. QED
  BY <1>3, <1>4, <1>5, <1>6, <1>7 DEF IInv

LEMMA CrashStep ==
  ASSUME IInv, Crash
  PROVE  IInv'
<1> USE DEF Crash
<1>1. \A q \in Requests : pc'[q] = "idle"
  OBVIOUS
<1>2. TypeOK'
  BY <1>1 DEF IInv, TypeOK, Steps
<1>3. LockInv' /\ StepInv'
  BY <1>1, RequestAssumption DEF LockInv, StepInv, InTransaction
<1>4. StoredInv'
  BY DEF IInv, StoredInv, Stored, WellFormed
<1>5. CreateInv' /\ MergeInv' /\ CommitInv' /\ CommitIsCurrent'
  BY <1>1 DEF CreateInv, MergeInv, CommitInv, CommitIsCurrent, InTransaction
<1>6. QED
  BY <1>2, <1>3, <1>4, <1>5 DEF IInv

-----------------------------------------------------------------------------
(* The inductive invariant.                                                *)

LEMMA InitIInv == Init => IInv
<1> SUFFICES ASSUME Init PROVE IInv
  OBVIOUS
<1> USE DEF Init
<1>1. TypeOK
  BY ClockAssumption DEF TypeOK, Steps, Stored
<1>2. LockInv /\ StepInv
  BY RequestAssumption DEF LockInv, StepInv, InTransaction
<1>3. StoredInv
  BY DEF StoredInv, Stored
<1>4. CreateInv /\ MergeInv /\ CommitInv /\ CommitIsCurrent
  BY DEF CreateInv, MergeInv, CommitInv, CommitIsCurrent, InTransaction
<1>5. QED
  BY <1>1, <1>2, <1>3, <1>4 DEF IInv

LEMMA NextIInv == IInv /\ [Next]_vars => IInv'
<1> SUFFICES ASSUME IInv, [Next]_vars PROVE IInv'
  OBVIOUS
<1>1. ASSUME NEW r \in Requests, Receive(r) PROVE IInv'
  BY <1>1, ReceiveStep
<1>2. ASSUME NEW r \in Requests, Start(r) PROVE IInv'
  <2>1. CASE Refuse(r)
    BY <2>1, AnswerStep DEF Refuse, Finish, Goto, locals
  <2>2. QED
    BY <1>2, <2>1, StartCreateStep, StartUpdateStep DEF Start
<1>3. ASSUME NEW r \in Requests, Begin(r) PROVE IInv'
  BY <1>3, BeginStep
<1>4. ASSUME NEW r \in Requests, Write(r) PROVE IInv'
  <2>1. CASE AlreadyExists(r) \/ NotFound(r) \/ InvalidSecret(r) \/ RejectItem(r)
             \/ TooMuchData(r) \/ FailCommit(r)
    <3>1. InTransaction(r) /\ \E status : Rollback(r, status)
      BY <2>1 DEF AlreadyExists, NotFound, InvalidSecret, RejectItem, TooMuchData,
                  FailCommit, InTransaction, Working, Found
    <3>2. QED
      BY <3>1, RollbackStep
  <2>2. CASE PutNew(r) \/ Remove(r)
    BY <2>2, DecideStep
  <2>3. CASE SetPassword(r)
    BY <2>3, SetPasswordStep
  <2>4. CASE BeginMerge(r)
    BY <2>4, BeginMergeStep
  <2>5. CASE MergeItem(r)
    BY <2>5, MergeItemStep
  <2>6. CASE EndMerge(r)
    BY <2>6, EndMergeStep
  <2>7. CASE Commit(r)
    BY <2>7, CommitStep
  <2>8. QED
    BY <1>4, <2>1, <2>2, <2>3, <2>4, <2>5, <2>6, <2>7 DEF Write
<1>5. ASSUME NEW r \in Requests, Read(r) PROVE IInv'
  <2>1. /\ pc[r] = "called" /\ pc' = [pc EXCEPT ![r] = "reply"]
        /\ UNCHANGED <<db, writer, clock, issued, call, share, merged, next>>
    BY <1>5 DEF Read, List, Lookup, View, Finish, Goto, locals
  <2>2. QED
    BY <2>1, AnswerStep
<1>6. ASSUME NEW r \in Requests, Respond(r) PROVE IInv'
  BY <1>6, RespondStep
<1>7. CASE Tick
  BY <1>7, TickStep
<1>8. CASE Crash
  BY <1>8, CrashStep
<1>9. CASE UNCHANGED vars
  BY <1>9 DEF vars, IInv, TypeOK, LockInv, StepInv, StoredInv, Stored, CreateInv,
              MergeInv, CommitInv, CommitIsCurrent, InTransaction, WellFormed
<1>10. QED
  BY <1>1, <1>2, <1>3, <1>4, <1>5, <1>6, <1>7, <1>8, <1>9 DEF Next

(* IInv holds in every reachable state.                                    *)
THEOREM Invariance == Spec => []IInv
BY InitIInv, NextIInv, PTL DEF Spec

(* Every variable of the service keeps its type.                           *)
THEOREM TypeCorrect == Spec => []TypeOK
BY Invariance, PTL DEF IInv

(* A stored share never holds two events with one key (mergeData).         *)
THEOREM KeysStayUnique == Spec => []KeysUnique
<1>1. IInv => KeysUnique
  BY DEF IInv, StoredInv, WellFormed, KeysUnique
<1>2. QED
  BY <1>1, Invariance, PTL

(* The administrator's listing says of every share what it takes to view   *)
(* it (List against checkViewPassword).                                    *)
THEOREM TruthfulSummaries == Spec => []SummariesAreTruthful
<1>1. IInv => SummariesAreTruthful
  BY DEF SummariesAreTruthful, Summary, CheckViewPassword
<1>2. QED
  BY <1>1, Invariance, PTL

(* No write transaction commits over a change it did not read.             *)
THEOREM NoLostUpdate == Spec => []CommitIsCurrent
BY Invariance, PTL DEF IInv

-----------------------------------------------------------------------------
(* Action properties.  Only a commit changes the bucket.                   *)

LEMMA OnlyCommitsChange ==
  ASSUME [Next]_vars
  PROVE  db' = db \/ \E r \in Requests : Commit(r)
BY DEF Next, vars, Start, Write, Read, Receive, Refuse, StartCreate, StartUpdate, Begin,
       AlreadyExists, PutNew, NotFound, InvalidSecret, SetPassword, Remove, BeginMerge,
       MergeItem, RejectItem, TooMuchData, EndMerge, FailCommit, Rollback, List, Lookup,
       View, Respond, Tick, Crash

(* What a commit does to the share it names, by operation.                 *)
LEMMA CommitEffect ==
  ASSUME IInv, NEW r \in Requests, Commit(r), NEW id \in Stored(db), db'[id] # db[id]
  PROVE  /\ id = call[r].id /\ pc[r] = "commit" /\ writer = r
         /\ call[r].op \in {"Sync", "SetPassword", "Remove"}
         /\ call[r].op # "SetPassword" => call[r].secret = db[id].secret
         /\ call[r].op = "Remove" <=> db'[id] = NoShare
         /\ call[r].op # "Remove" =>
              /\ db'[id].secret = db[id].secret
              /\ db'[id].createdAt = db[id].createdAt
              /\ db'[id].updatedAt >= db[id].updatedAt
         /\ call[r].op = "Sync" => db'[id].password = db[id].password
         /\ call[r].op = "SetPassword" => db'[id].data = db[id].data
<1> DEFINE now == db[id]
           new == share[r]
<1>1. /\ pc[r] = "commit" /\ db' = [db EXCEPT ![call[r].id] = Committed(r)]
      /\ id \in IDs /\ now # NoShare
  BY DEF Commit, Stored
<1>2. id = call[r].id /\ db'[id] = Committed(r)
  BY <1>1 DEF IInv, TypeOK
<1>3. /\ WellFormed(now) /\ IsEncoded(now.data) /\ now \in Share
  BY DEF IInv, StoredInv, WellFormed
<1>4. AgreesWith(call[r], new, now)
  BY <1>1, <1>2 DEF IInv, CommitIsCurrent
<1>5. /\ writer = r /\ call[r].op \in {"Sync", "SetPassword", "Remove"}
      /\ call[r].op # "SetPassword" => call[r].secret = now.secret
  BY <1>1, <1>4, CommitFacts DEF AgreesWith
<1>6. CASE call[r].op = "Remove"
  BY <1>1, <1>2, <1>5, <1>6, CommitFacts
<1>7. CASE call[r].op # "Remove"
  <2>1. WellFormed(new) /\ Committed(r) = Encode(new) /\ Committed(r) # NoShare
    BY <1>1, <1>7, CommitFacts, SentinelAssumption DEF WellFormed
  <2>2. /\ Encode(new).secret = new.secret /\ Encode(new).password = new.password
        /\ Encode(new).createdAt = new.createdAt /\ Encode(new).updatedAt = new.updatedAt
        /\ IsEncoded(new.data) => Encode(new).data = new.data
    BY <2>1, EncodeFacts DEF WellFormed
  <2>3. new.updatedAt >= now.updatedAt
    BY <1>1, <1>2, <1>5, <1>7 DEF IInv, CommitInv
  <2>4. CASE call[r].op = "Sync"
    <3>1. /\ new.secret = now.secret /\ new.password = now.password
          /\ new.createdAt = now.createdAt
      BY <1>3, <1>4, <2>4 DEF AgreesWith, Share
    <3> HIDE DEF now, new
    <3>2. QED
      BY <1>1, <1>2, <1>5, <2>1, <2>2, <2>3, <2>4, <3>1 DEF now
  <2>5. CASE call[r].op = "SetPassword"
    <3>1. /\ new.secret = now.secret /\ new.data = now.data
          /\ new.createdAt = now.createdAt
      BY <1>3, <1>4, <2>5 DEF AgreesWith, Share
    <3> HIDE DEF now, new
    <3>2. QED
      BY <1>1, <1>2, <1>3, <1>5, <2>1, <2>2, <2>3, <2>5, <3>1 DEF now
  <2>6. QED
    BY <1>5, <1>7, <2>4, <2>5
<1>8. QED
  BY <1>6, <1>7

(* The owner's secret guards data and removal, the administrator's call    *)
(* the password, and no call changes what is another's.                    *)
THEOREM Authorised == Spec => ChangesAreAuthorised
<1> DEFINE A == \A id \in Stored(db) :
                  IF db'[id] = NoShare THEN ActsOn(id, "Remove")
                  ELSE /\ db'[id].data # db[id].data => ActsOn(id, "Sync")
                       /\ db'[id].password # db[id].password => ActsOn(id, "SetPassword")
<1>1. ASSUME IInv, [Next]_vars PROVE A
  <2> SUFFICES ASSUME NEW id \in Stored(db), db'[id] # db[id]
               PROVE  IF db'[id] = NoShare THEN ActsOn(id, "Remove")
                      ELSE /\ db'[id].data # db[id].data => ActsOn(id, "Sync")
                           /\ db'[id].password # db[id].password
                                => ActsOn(id, "SetPassword")
    BY DEF Stored
  <2>1. PICK r \in Requests : Commit(r)
    BY <1>1, OnlyCommitsChange
  <2>2. \A op \in {"Sync", "SetPassword", "Remove"} : call[r].op = op => ActsOn(id, op)
    BY <1>1, <2>1, CommitEffect DEF ActsOn
  <2>3. /\ call[r].op \in {"Sync", "SetPassword", "Remove"}
        /\ call[r].op = "Remove" <=> db'[id] = NoShare
        /\ call[r].op = "Sync" => db'[id].password = db[id].password
        /\ call[r].op = "SetPassword" => db'[id].data = db[id].data
    BY <1>1, <2>1, CommitEffect
  <2>4. QED
    BY <2>2, <2>3
<1>2. QED
  BY <1>1, Invariance, PTL DEF Spec, ChangesAreAuthorised

(* A share keeps its secret and creation time while it exists, and its     *)
(* update time never goes back.                                            *)
THEOREM StableLives == Spec => LivesAreStable
<1> DEFINE A == \A id \in Stored(db) : db'[id] # NoShare =>
                  /\ db'[id].secret = db[id].secret
                  /\ db'[id].createdAt = db[id].createdAt
                  /\ db'[id].updatedAt >= db[id].updatedAt
<1>1. ASSUME IInv, [Next]_vars PROVE A
  <2> SUFFICES ASSUME NEW id \in Stored(db), db'[id] # NoShare
               PROVE  /\ db'[id].secret = db[id].secret
                      /\ db'[id].createdAt = db[id].createdAt
                      /\ db'[id].updatedAt >= db[id].updatedAt
    OBVIOUS
  <2>1. CASE db'[id] = db[id]
    <3>1. db[id].updatedAt \in Nat
      BY <1>1, ShareFields DEF IInv, StoredInv, WellFormed
    <3>2. QED
      BY <2>1, <3>1
  <2>2. CASE db'[id] # db[id]
    BY <1>1, <2>2, OnlyCommitsChange, CommitEffect
  <2>3. QED
    BY <2>1, <2>2
<1>2. QED
  BY <1>1, Invariance, PTL DEF Spec, LivesAreStable

(* The secret of a removed share never opens a share again.                *)
THEOREM SecretsStayRetired == Spec => RetiredSecretsStayRetired
<1>1. ASSUME IInv, [Next]_vars, NEW secret \in Secrets, Retired(secret)
      PROVE  Retired(secret)'
  <2>1. /\ secret \in issued
        /\ \A id \in IDs : db[id] # NoShare => db[id].secret # secret
        /\ \A r \in Requests : share[r] # NoShare => share[r].secret # secret
    BY <1>1 DEF Retired, Stored
  <2>2. secret \in issued'
    BY <1>1, <2>1
       DEF Next, vars, Start, Write, Read, Receive, Refuse, StartCreate, StartUpdate,
           Begin, AlreadyExists, PutNew, NotFound, InvalidSecret, SetPassword, Remove,
           BeginMerge, MergeItem, RejectItem, TooMuchData, EndMerge, Commit, FailCommit,
           Rollback, List, Lookup, View, Respond, Tick, Crash
  <2>3. \A id \in IDs : db'[id] # NoShare => db'[id].secret # secret
    <3>1. CASE db' = db
      BY <2>1, <3>1
    <3>2. ASSUME NEW r \in Requests, Commit(r)
          PROVE  \A id \in IDs : db'[id] # NoShare => db'[id].secret # secret
      <4>1. /\ pc[r] = "commit"
            /\ \A id \in IDs : db'[id] = IF id = call[r].id THEN Committed(r) ELSE db[id]
        BY <1>1, <3>2 DEF Commit, IInv, TypeOK
      <4>2. Committed(r) # NoShare =>
              /\ share[r] \in Share /\ Committed(r) = Encode(share[r])
        BY <1>1, <4>1, CommitFacts DEF WellFormed
      <4>3. Committed(r) # NoShare => Committed(r).secret = share[r].secret
        BY <4>2, EncodeFacts
      <4>4. QED
        BY <2>1, <4>1, <4>2, <4>3, SentinelAssumption
    <3>3. QED
      BY <1>1, <3>1, <3>2, OnlyCommitsChange
  <2>4. \A r \in Requests : share'[r] # NoShare => share'[r].secret # secret
    <3>1. CASE share' = share
      BY <2>1, <3>1
    <3>2. ASSUME NEW r \in Requests, StartCreate(r)
          PROVE  \A q \in Requests : share'[q] # NoShare => share'[q].secret # secret
      <4>1. PICK fresh \in Secrets \ issued : share' = [share EXCEPT ![r] = NewShare(fresh)]
        BY <3>2 DEF StartCreate
      <4>2. NewShare(fresh).secret # secret
        BY <2>1 DEF NewShare
      <4>3. \A q \in Requests : share'[q] = IF q = r THEN NewShare(fresh) ELSE share[q]
        BY <1>1, <4>1 DEF IInv, TypeOK
      <4>4. QED
        BY <2>1, <4>2, <4>3
    <3>3. ASSUME NEW r \in Requests, SetPassword(r) \/ BeginMerge(r)
          PROVE  \A q \in Requests : share'[q] # NoShare => share'[q].secret # secret
      <4> DEFINE now == db[call[r].id]
      <4>1. now # NoShare /\ call[r].id \in IDs /\ now \in Share
        BY <1>1, <3>3, FoundFacts
           DEF SetPassword, BeginMerge, Found, Working, InTransaction, WellFormed
      <4>2. now.secret # secret
        BY <2>1, <4>1
      <4>3. /\ share'[r].secret = now.secret
            /\ \A q \in Requests : q # r => share'[q] = share[q]
        BY <1>1, <3>3, <4>1 DEF SetPassword, BeginMerge, IInv, TypeOK, Share
      <4>4. QED
        BY <2>1, <4>2, <4>3
    <3>4. ASSUME NEW r \in Requests, EndMerge(r)
          PROVE  \A q \in Requests : share'[q] # NoShare => share'[q].secret # secret
      <4>1. share[r] \in Share /\ share[r] # NoShare
        BY <1>1, <3>4, SentinelAssumption DEF EndMerge, IInv, MergeInv, TypeOK
      <4>2. /\ share'[r].secret = share[r].secret
            /\ \A q \in Requests : q # r => share'[q] = share[q]
        BY <1>1, <3>4, <4>1 DEF EndMerge, IInv, TypeOK, Share
      <4>3. QED
        BY <2>1, <4>1, <4>2
    <3>5. ASSUME NEW r \in Requests, Respond(r)
          PROVE  \A q \in Requests : share'[q] # NoShare => share'[q].secret # secret
      BY <1>1, <2>1, <3>5 DEF Respond, IInv, TypeOK
    <3>6. CASE Crash
      BY <3>6 DEF Crash
    <3>7. QED
      BY <1>1, <3>1, <3>2, <3>3, <3>4, <3>5, <3>6
         DEF Next, vars, Start, Write, Read, Receive, Refuse, StartUpdate, Begin,
             AlreadyExists, PutNew, NotFound, InvalidSecret, Remove, MergeItem, RejectItem,
             TooMuchData, Commit, FailCommit, Rollback, List, Lookup, View, Tick, locals
  <2>5. QED
    BY <2>2, <2>3, <2>4 DEF Retired, Stored
<1>2. QED
  <2>1. IInv /\ [Next]_vars
          => [\A secret \in Secrets : Retired(secret) => Retired(secret)']_vars
    BY <1>1
  <2>2. QED
    BY <2>1, Invariance, PTL DEF Spec, RetiredSecretsStayRetired

-----------------------------------------------------------------------------
(***************************************************************************)
(* The refinement: locks, transactions and the loop over events cannot be  *)
(* told from calls that take effect at one instant each.                   *)
(***************************************************************************)

(* The operators ShareAPI shares with ShareService mean the same there.    *)
LEMMA SameOperators ==
  /\ \A S : API!Cardinality(S) = Cardinality(S)
  /\ \A d : API!Stored(d) = Stored(d)
  /\ \A s : API!Encode(s) = Encode(s)
  /\ \A items : API!DataSize(items) = DataSize(items)
  /\ \A d, id : API!Summary(d, id) = Summary(d, id)
  /\ \A status, body : API!Answer(status, body) = Answer(status, body)
  /\ \A status : API!Failure(status) = Failure(status)
<1>1. \A S : API!Cardinality(S) = Cardinality(S)
  BY DEF API!Cardinality, Cardinality
<1>2. \A items : API!DataSize(items) = DataSize(items)
  BY DEF API!DataSize, DataSize
<1>3. \A s : API!Encode(s) = Encode(s)
  BY DEF API!Encode, Encode, API!EncodeItem, EncodeItem
<1>4. \A d, id : API!Summary(d, id) = Summary(d, id)
  BY DEF API!Summary, Summary
<1>. QED
  BY <1>1, <1>2, <1>3, <1>4
     DEF API!Stored, Stored, API!Answer, Answer, API!Failure, Failure

LEMMA SameCalls == API!WriteCall = WriteCall
BY DEF API!WriteCall, WriteCall, API!CreateCall, CreateCall, API!SyncCall, SyncCall,
       API!SetPasswordCall, SetPasswordCall, API!RemoveCall, RemoveCall, API!Item, Item

-----------------------------------------------------------------------------
(* What Merged is made of.                                                 *)

LEMMA KeysInFacts ==
  ASSUME NEW items, NEW key
  PROVE  key \in API!KeysIn(items) <=> key # NoKey /\ HasKey(items, key)
BY DEF API!KeysIn, API!KeyOf, HasKey

(* The events of a batch that bring a key of their own.                    *)
News(old, inc) == {i \in DOMAIN inc : API!Introduces(old, inc, i)}

LEMMA IntroducesFacts ==
  ASSUME NEW old, NEW inc \in Seq(Item), NEW i \in DOMAIN inc
  PROVE  API!Introduces(old, inc, i) <=>
           \/ inc[i].key = NoKey
           \/ /\ ~HasKey(old, inc[i].key)
              /\ \A j \in DOMAIN inc : j < i => inc[j].key # inc[i].key
<1> DEFINE before == SubSeq(inc, 1, i - 1)
<1>1. /\ DOMAIN before = {j \in DOMAIN inc : j < i}
      /\ \A j \in DOMAIN before : before[j] = inc[j]
  OBVIOUS
<1> HIDE DEF before
<1>2. HasKey(before, inc[i].key) <=> \E j \in DOMAIN inc : j < i /\ inc[j].key = inc[i].key
  BY <1>1 DEF HasKey
<1>3. API!Introduces(old, inc, i) <=>
        inc[i].key \notin API!KeysIn(old) /\ inc[i].key \notin API!KeysIn(before)
  BY DEF API!Introduces, before
<1>. QED
  BY <1>2, <1>3, KeysInFacts

Same(inc, key) == {j \in DOMAIN inc : inc[j].key = key}

IsLast(inc, j) ==
  j \in DOMAIN inc /\ \A k \in Same(inc, inc[j].key) : k <= j

LEMMA LatestFacts ==
  ASSUME NEW item, NEW inc \in Seq(Item)
  PROVE  /\ item.key = NoKey \/ Same(inc, item.key) = {} => API!Latest(item, inc) = item
         /\ \A j : item.key # NoKey /\ IsLast(inc, j) /\ inc[j].key = item.key
                     => API!Latest(item, inc) = inc[j]
<1>1. Same(inc, item.key) = {j \in DOMAIN inc : inc[j].key = item.key}
  BY DEF Same
<1>2. API!Latest(item, inc) =
        IF item.key = NoKey \/ Same(inc, item.key) = {} THEN item
        ELSE inc[CHOOSE j \in Same(inc, item.key) : \A k \in Same(inc, item.key) : k <= j]
  BY <1>1 DEF API!Latest
<1>3. ASSUME NEW j, item.key # NoKey, IsLast(inc, j), inc[j].key = item.key
      PROVE  API!Latest(item, inc) = inc[j]
  <2> DEFINE S == Same(inc, item.key)
             n == CHOOSE i \in S : \A k \in S : k <= i
  <2>1. j \in S /\ \A k \in S : k <= j
    BY <1>3 DEF IsLast, Same
  <2>2. S \subseteq Nat
    BY DEF Same
  <2>5. S # {} /\ API!Latest(item, inc) = IF item.key = NoKey \/ S = {} THEN item ELSE inc[n]
    BY <1>2, <2>1
  <2> HIDE DEF S
  <2>3. n \in S /\ \A k \in S : k <= n
    BY <2>1
  <2> HIDE DEF n
  <2>4. n = j
    BY <2>1, <2>2, <2>3
  <2>. QED
    BY <1>3, <2>4, <2>5
<1>. QED
  BY <1>2, <1>3

(* Where an event of its own key comes among them.                         *)
Place(S, i) == Cardinality({j \in S : j <= i})

(* A batch of which every event has been read: each key has a last event   *)
(* and is stored or comes with a first one, and those are numbered.        *)
Grounded(old, inc) ==
  /\ \A j \in DOMAIN inc : \E k \in Same(inc, inc[j].key) : IsLast(inc, k)
  /\ \A j \in DOMAIN inc :
       inc[j].key = NoKey \/ HasKey(old, inc[j].key)
         \/ \E i \in News(old, inc) : inc[i].key = inc[j].key
  /\ IsFiniteSet(News(old, inc))
  /\ \A p \in 1..Cardinality(News(old, inc)) :
       \E i \in News(old, inc) : Place(News(old, inc), i) = p
  /\ \A i \in News(old, inc) :
       Place(News(old, inc), i) \in 1..Cardinality(News(old, inc))
  /\ \A i, j \in News(old, inc) :
       Place(News(old, inc), i) = Place(News(old, inc), j) => i = j

LEMMA LatestType ==
  ASSUME NEW old, NEW inc \in Seq(Item), Grounded(old, inc), NEW item \in Item
  PROVE  API!Latest(item, inc) \in Item /\ API!Latest(item, inc).key = item.key
<1>1. CASE item.key = NoKey \/ Same(inc, item.key) = {}
  BY <1>1, LatestFacts
<1>2. CASE item.key # NoKey /\ Same(inc, item.key) # {}
  <2>1. PICK k : IsLast(inc, k) /\ inc[k].key = item.key
    BY <1>2 DEF Grounded, Same
  <2>2. API!Latest(item, inc) = inc[k]
    BY <1>2, <2>1, LatestFacts
  <2>. QED
    BY <2>1, <2>2 DEF IsLast
<1>. QED
  BY <1>1, <1>2

(* Merged, place by place.                                                 *)
LEMMA MergedFacts ==
  ASSUME NEW old \in Seq(Item), NEW inc \in Seq(Item), Grounded(old, inc)
  PROVE  LET m == API!Merged(old, inc)
             S == News(old, inc)
         IN  /\ m \in Seq(Item)
             /\ Len(m) = Len(old) + Cardinality(S)
             /\ \A i \in 1..Len(old) : m[i] = API!Latest(old[i], inc)
             /\ \A i \in S : m[Len(old) + Place(S, i)] = API!Latest(inc[i], inc)
<1> DEFINE S == News(old, inc)
           c == Cardinality(S)
           At(p) == CHOOSE i \in S : API!Cardinality({j \in S : j <= i}) = p
           head == [i \in DOMAIN old |-> API!Latest(old[i], inc)]
           rest == [p \in 1..c |-> API!Latest(inc[At(p)], inc)]
<1>1. API!Merged(old, inc) = head \o rest
  <2>1. API!Merged(old, inc) =
          head \o [p \in 1..API!Cardinality(S) |-> API!Latest(inc[At(p)], inc)]
    BY DEF API!Merged, News
  <2>. QED
    BY <2>1, SameOperators
<1>2. c \in Nat /\ S \subseteq DOMAIN inc
  BY FS_CardinalityType DEF Grounded, News
<1>3. \A i : API!Cardinality({j \in S : j <= i}) = Place(S, i)
  BY SameOperators DEF Place
<1>4. ASSUME NEW p \in 1..c
      PROVE  At(p) \in S /\ Place(S, At(p)) = p
  <2>1. \E i \in S : API!Cardinality({j \in S : j <= i}) = p
    BY <1>3 DEF Grounded
  <2>2. At(p) \in S /\ API!Cardinality({j \in S : j <= At(p)}) = p
    BY <2>1
  <2>. QED
    BY <1>3, <2>2
<1> HIDE DEF S, c, At
<1>5. head \in Seq(Item) /\ Len(head) = Len(old)
      /\ \A i \in 1..Len(old) : head[i] = API!Latest(old[i], inc)
  BY LatestType
<1>6. rest \in Seq(Item) /\ Len(rest) = c
      /\ \A p \in 1..c : rest[p] = API!Latest(inc[At(p)], inc)
  BY <1>2, <1>4, LatestType
<1> HIDE DEF head, rest
<1>7. \A i \in S : Place(S, i) \in 1..c
  BY DEF Grounded, S, c
<1>8. /\ head \o rest \in Seq(Item)
      /\ Len(head \o rest) = Len(old) + c
      /\ \A i \in 1..Len(old) : (head \o rest)[i] = head[i]
      /\ \A p \in 1..c : (head \o rest)[Len(old) + p] = rest[p]
  BY <1>2, <1>5, <1>6
<1>9. \A i \in S : (head \o rest)[Len(old) + Place(S, i)] = API!Latest(inc[i], inc)
  <2>1. \A i, j \in S : Place(S, i) = Place(S, j) => i = j
    BY DEF Grounded, S
  <2>2. \A i \in S : At(Place(S, i)) = i
    BY <1>4, <1>7, <2>1
  <2>. QED
    BY <1>6, <1>7, <1>8, <2>2
<1>. QED
  BY <1>1, <1>5, <1>8, <1>9 DEF S, c

-----------------------------------------------------------------------------
(* One more event.                                                         *)

LEMMA EmptyBatch ==
  ASSUME NEW old \in Seq(Item)
  PROVE  Grounded(old, <<>>) /\ API!Merged(old, <<>>) = old
<1>1. News(old, <<>>) = {}
  BY DEF News
<1>2. IsFiniteSet({}) /\ Cardinality({}) = 0
  BY FS_EmptySet
<1>0. <<>> \in Seq(Item) /\ DOMAIN <<>> = {}
  OBVIOUS
<1>3. Grounded(old, <<>>)
  <2> DEFINE inc == <<>>
  <2>1. DOMAIN inc = {} /\ News(old, inc) = {}
    BY <1>0, <1>1
  <2> HIDE DEF inc
  <2>2. Grounded(old, inc)
    <3>1. IsFiniteSet(News(old, inc)) /\ Cardinality(News(old, inc)) = 0 /\ 1..0 = {}
      BY <1>2, <2>1
    <3>. QED
      BY <2>1, <3>1 DEF Grounded
  <2>. QED
    BY <2>2 DEF inc
<1> DEFINE m == API!Merged(old, <<>>)
<1>4. /\ m \in Seq(Item) /\ Len(m) = Len(old)
      /\ \A i \in 1..Len(old) : m[i] = API!Latest(old[i], <<>>)
  <2>1. /\ m \in Seq(Item) /\ Len(m) = Len(old) + Cardinality(News(old, <<>>))
        /\ \A i \in 1..Len(old) : m[i] = API!Latest(old[i], <<>>)
    BY <1>0, <1>3, MergedFacts
  <2>2. Cardinality(News(old, <<>>)) = 0
    BY <1>1, <1>2, Zenon
  <2>3. Len(old) \in Nat
    OBVIOUS
  <2>. HIDE DEF m
  <2>4. Len(m) = Len(old)
    BY <2>1, <2>2, <2>3
  <2>. QED
    BY <2>1, <2>4
<1>5. \A item : API!Latest(item, <<>>) = item
  BY <1>0, LatestFacts DEF Same
<1> HIDE DEF m
<1>6. m = old
  BY <1>4, <1>5
<1>. QED
  BY <1>3, <1>6 DEF m

(* Whether an event that follows a batch brings a key of its own.          *)
Fresh(old, inc, x) ==
  \/ x.key = NoKey
  \/ ~HasKey(old, x.key) /\ ~HasKey(inc, x.key)

LEMMA AppendFacts ==
  ASSUME NEW inc \in Seq(Item), NEW x \in Item
  PROVE  LET n == Len(inc) + 1
             more == Append(inc, x)
         IN  /\ more \in Seq(Item) /\ n \in Nat /\ n \notin DOMAIN inc
             /\ DOMAIN more = DOMAIN inc \cup {n}
             /\ more[n] = x
             /\ \A i \in DOMAIN inc : more[i] = inc[i] /\ i < n /\ i \in Nat /\ inc[i] \in Item
OBVIOUS

LEMMA NewsAppend ==
  ASSUME NEW old, NEW inc \in Seq(Item), NEW x \in Item
  PROVE  News(old, Append(inc, x)) =
           News(old, inc) \cup (IF Fresh(old, inc, x) THEN {Len(inc) + 1} ELSE {})
<1> DEFINE n == Len(inc) + 1
           more == Append(inc, x)
<1>1. /\ more \in Seq(Item) /\ n \in Nat /\ n \notin DOMAIN inc
      /\ DOMAIN more = DOMAIN inc \cup {n}
      /\ more[n] = x
      /\ \A i \in DOMAIN inc : more[i] = inc[i] /\ i < n /\ i \in Nat
  BY AppendFacts
<1> HIDE DEF n, more
<1>2. ASSUME NEW i \in DOMAIN inc
      PROVE  API!Introduces(old, more, i) <=> API!Introduces(old, inc, i)
  <2>1. API!Introduces(old, inc, i) <=>
           \/ inc[i].key = NoKey
           \/ /\ ~HasKey(old, inc[i].key)
              /\ \A j \in DOMAIN inc : j < i => inc[j].key # inc[i].key
    BY IntroducesFacts
  <2>2. API!Introduces(old, more, i) <=>
           \/ more[i].key = NoKey
           \/ /\ ~HasKey(old, more[i].key)
              /\ \A j \in DOMAIN more : j < i => more[j].key # more[i].key
    BY <1>1, IntroducesFacts
  <2>. QED
    BY <1>1, <2>1, <2>2
<1>3. API!Introduces(old, more, n) <=> Fresh(old, inc, x)
  <2>1. API!Introduces(old, more, n) <=>
           \/ more[n].key = NoKey
           \/ /\ ~HasKey(old, more[n].key)
              /\ \A j \in DOMAIN more : j < n => more[j].key # more[n].key
    BY <1>1, IntroducesFacts
  <2>2. HasKey(inc, x.key) <=> \E j \in DOMAIN more : j < n /\ more[j].key = x.key
    BY <1>1 DEF HasKey
  <2>3. API!Introduces(old, more, n) <=>
           \/ x.key = NoKey
           \/ ~HasKey(old, x.key) /\ ~HasKey(inc, x.key)
    BY <1>1, <2>1, <2>2
  <2>. QED
    BY <2>3 DEF Fresh
<1>4. News(old, more) = News(old, inc) \cup (IF Fresh(old, inc, x) THEN {n} ELSE {})
  BY <1>1, <1>2, <1>3 DEF News
<1>. QED
  BY <1>4 DEF n, more

(* A later event has the next place.                                       *)
LEMMA PlaceAppend ==
  ASSUME NEW S, IsFiniteSet(S), NEW n \in Nat, \A i \in S : i \in Nat /\ i < n
  PROVE  LET T == S \cup {n}
         IN  /\ IsFiniteSet(T) /\ Cardinality(T) = Cardinality(S) + 1
             /\ \A i \in S : Place(T, i) = Place(S, i)
             /\ Place(T, n) = Cardinality(S) + 1
<1> DEFINE T == S \cup {n}
<1>1. IsFiniteSet(T) /\ Cardinality(T) = Cardinality(S) + 1
  BY FS_AddElement
<1>2. ASSUME NEW i \in S
      PROVE  Place(T, i) = Place(S, i)
  <2>1. {j \in T : j <= i} = {j \in S : j <= i}
    OBVIOUS
  <2>. QED
    BY <2>1 DEF Place
<1>3. {j \in T : j <= n} = T
  OBVIOUS
<1>. QED
  BY <1>1, <1>2, <1>3 DEF Place

LEMMA GroundedAppend ==
  ASSUME NEW old, NEW inc \in Seq(Item), NEW x \in Item, Grounded(old, inc)
  PROVE  Grounded(old, Append(inc, x))
<1> DEFINE n == Len(inc) + 1
           more == Append(inc, x)
           S == News(old, inc)
           T == News(old, more)
<1>1. /\ more \in Seq(Item) /\ n \in Nat /\ n \notin DOMAIN inc
      /\ DOMAIN more = DOMAIN inc \cup {n}
      /\ more[n] = x
      /\ \A i \in DOMAIN inc : more[i] = inc[i] /\ i < n /\ i \in Nat
  BY AppendFacts
<1>2. T = S \cup (IF Fresh(old, inc, x) THEN {n} ELSE {})
  BY NewsAppend
<1>3. IsFiniteSet(S) /\ Cardinality(S) \in Nat /\ S \subseteq DOMAIN inc
  BY FS_CardinalityType DEF Grounded, News
<1>4. \A j \in DOMAIN inc : \E k \in Same(inc, inc[j].key) : IsLast(inc, k)
  BY DEF Grounded
<1>5. \A j \in DOMAIN inc :
        inc[j].key = NoKey \/ HasKey(old, inc[j].key) \/ \E i \in S : inc[i].key = inc[j].key
  BY DEF Grounded
<1> HIDE DEF n, more, T
<1>6. ASSUME NEW j \in DOMAIN more
      PROVE  \E k \in Same(more, more[j].key) : IsLast(more, k)
  <2>1. CASE more[j].key = x.key
    BY <1>1, <2>1 DEF Same, IsLast
  <2>2. CASE more[j].key # x.key
    <3>1. j \in DOMAIN inc /\ more[j].key = inc[j].key
      BY <1>1, <2>2
    <3>2. PICK k \in Same(inc, inc[j].key) : IsLast(inc, k)
      BY <1>4, <3>1
    <3>. QED
      BY <1>1, <2>2, <3>1, <3>2 DEF Same, IsLast
  <2>. QED
    BY <2>1, <2>2
<1>7. ASSUME NEW j \in DOMAIN more
      PROVE  more[j].key = NoKey \/ HasKey(old, more[j].key)
               \/ \E i \in T : more[i].key = more[j].key
  <2>1. CASE j \in DOMAIN inc
    BY <1>1, <1>2, <1>3, <1>5, <2>1
  <2>2. CASE j = n /\ Fresh(old, inc, x)
    BY <1>2, <2>2
  <2>3. CASE j = n /\ ~Fresh(old, inc, x)
    <3>1. CASE HasKey(old, x.key)
      BY <1>1, <2>3, <3>1
    <3>2. CASE ~HasKey(old, x.key)
      <4>1. PICK i \in DOMAIN inc : inc[i].key = x.key /\ x.key # NoKey
        BY <2>3, <3>2 DEF Fresh, HasKey
      <4>2. PICK k \in S : inc[k].key = x.key
        BY <1>5, <3>2, <4>1
      <4>. QED
        BY <1>1, <1>2, <1>3, <2>3, <4>2
    <3>. QED
      BY <3>1, <3>2
  <2>. QED
    BY <1>1, <2>1, <2>2, <2>3
<1>8. /\ IsFiniteSet(T)
      /\ \A p \in 1..Cardinality(T) : \E i \in T : Place(T, i) = p
      /\ \A i \in T : Place(T, i) \in 1..Cardinality(T)
      /\ \A i, j \in T : Place(T, i) = Place(T, j) => i = j
  <2>1. /\ \A p \in 1..Cardinality(S) : \E i \in S : Place(S, i) = p
        /\ \A i \in S : Place(S, i) \in 1..Cardinality(S)
        /\ \A i, j \in S : Place(S, i) = Place(S, j) => i = j
    BY DEF Grounded
  <2>2. CASE ~Fresh(old, inc, x)
    <3>1. T = S
      BY <1>2, <2>2
    <3>. QED
      BY <1>3, <2>1, <3>1
  <2>3. CASE Fresh(old, inc, x)
    <3>1. T = S \cup {n}
      BY <1>2, <2>3
    <3>2. /\ IsFiniteSet(T) /\ Cardinality(T) = Cardinality(S) + 1
          /\ \A i \in S : Place(T, i) = Place(S, i)
          /\ Place(T, n) = Cardinality(S) + 1
      BY <1>1, <1>3, <3>1, PlaceAppend
    <3> HIDE DEF S
    <3>3. \A p \in 1..Cardinality(T) : p \in 1..Cardinality(S) \/ p = Cardinality(S) + 1
      BY <1>3, <3>2
    <3>4. \A p \in 1..Cardinality(T) : \E i \in T : Place(T, i) = p
      <4>1. SUFFICES ASSUME NEW p \in 1..Cardinality(T)
                     PROVE  \E i \in T : Place(T, i) = p
        OBVIOUS
      <4>2. CASE p \in 1..Cardinality(S)
        BY <2>1, <3>1, <3>2, <4>2
      <4>3. CASE p = Cardinality(S) + 1
        BY <3>1, <3>2, <4>3
      <4>. QED
        BY <3>3, <4>2, <4>3
    <3>5. ASSUME NEW i \in S
          PROVE  /\ Place(T, i) = Place(S, i) /\ Place(T, i) # Cardinality(S) + 1
                 /\ Place(T, i) \in 1..Cardinality(T)
      <4>1. Place(T, i) = Place(S, i) /\ Place(S, i) \in 1..Cardinality(S)
        BY <2>1, <3>2
      <4>. QED
        BY <1>3, <3>2, <4>1
    <3>6. \A i \in T : Place(T, i) \in 1..Cardinality(T)
      <4>1. Place(T, n) \in 1..Cardinality(T)
        BY <1>3, <3>2
      <4>. QED
        BY <3>1, <3>5, <4>1
    <3>7. ASSUME NEW i \in T, NEW j \in T, Place(T, i) = Place(T, j)
          PROVE  i = j
      <4>1. CASE i = n
        BY <3>1, <3>2, <3>5, <3>7, <4>1
      <4>2. CASE j = n
        BY <3>1, <3>2, <3>5, <3>7, <4>2
      <4>3. CASE i \in S /\ j \in S
        BY <2>1, <3>5, <3>7, <4>3
      <4>. QED
        BY <3>1, <4>1, <4>2, <4>3
    <3>. QED
      BY <3>2, <3>4, <3>6, <3>7
  <2>. QED
    BY <2>2, <2>3
<1>9. Grounded(old, more)
  BY <1>6, <1>7, <1>8 DEF Grounded, T
<1>. QED
  BY <1>9 DEF more

LEMMA LatestAppend ==
  ASSUME NEW old, NEW inc \in Seq(Item), NEW x \in Item, Grounded(old, inc), NEW item \in Item
  PROVE  API!Latest(item, Append(inc, x)) =
           IF item.key # NoKey /\ item.key = x.key THEN x ELSE API!Latest(item, inc)
<1> DEFINE n == Len(inc) + 1
           more == Append(inc, x)
<1>1. /\ more \in Seq(Item) /\ n \in Nat /\ n \notin DOMAIN inc
      /\ DOMAIN more = DOMAIN inc \cup {n}
      /\ more[n] = x
      /\ \A i \in DOMAIN inc : more[i] = inc[i] /\ i < n /\ i \in Nat
  BY AppendFacts
<1> HIDE DEF n, more
<1>2. CASE item.key # NoKey /\ item.key = x.key
  <2>1. IsLast(more, n)
    BY <1>1 DEF IsLast, Same
  <2>2. API!Latest(item, more) = more[n]
    BY <1>1, <1>2, <2>1, LatestFacts
  <2>. QED
    BY <1>1, <1>2, <2>2 DEF more
<1>3. CASE item.key = NoKey
  <2>1. API!Latest(item, more) = item /\ API!Latest(item, inc) = item
    BY <1>1, <1>3, LatestFacts
  <2>. QED
    BY <1>3, <2>1 DEF more
<1>4. CASE item.key # NoKey /\ item.key # x.key
  <2>1. Same(more, item.key) = Same(inc, item.key)
    BY <1>1, <1>4 DEF Same
  <2>2. CASE Same(inc, item.key) = {}
    <3>1. API!Latest(item, more) = item /\ API!Latest(item, inc) = item
      BY <1>1, <2>1, <2>2, LatestFacts
    <3>. QED
      BY <1>4, <3>1 DEF more
  <2>3. CASE Same(inc, item.key) # {}
    <3>1. PICK k : IsLast(inc, k) /\ inc[k].key = item.key
      BY <2>3 DEF Grounded, Same
    <3>2. IsLast(more, k) /\ more[k].key = item.key /\ more[k] = inc[k]
      BY <1>1, <2>1, <3>1 DEF IsLast
    <3>3. API!Latest(item, more) = inc[k] /\ API!Latest(item, inc) = inc[k]
      BY <1>1, <1>4, <3>1, <3>2, LatestFacts
    <3>. QED
      BY <1>4, <3>3 DEF more
  <2>. QED
    BY <2>2, <2>3
<1>. QED
  BY <1>2, <1>3, <1>4

(* The places of the merged events: those of the old ones, then one each   *)
(* for the new ones.                                                       *)
LEMMA PlacesOf ==
  ASSUME NEW old \in Seq(Item), NEW inc \in Seq(Item), Grounded(old, inc),
         NEW q \in DOMAIN API!Merged(old, inc)
  PROVE  q \in 1..Len(old) \/ \E i \in News(old, inc) : q = Len(old) + Place(News(old, inc), i)
<1> DEFINE S == News(old, inc)
           c == Cardinality(S)
           m == API!Merged(old, inc)
<1>1. m \in Seq(Item) /\ Len(m) = Len(old) + c /\ Len(old) \in Nat /\ c \in Nat
  BY MergedFacts, FS_CardinalityType DEF Grounded
<1>2. \A p \in 1..c : \E i \in S : Place(S, i) = p
  BY DEF Grounded
<1> HIDE DEF S, c, m
<1>3. q \in 1..(Len(old) + c)
  BY <1>1 DEF m
<1>4. q \in 1..Len(old) \/ (q - Len(old) \in 1..c /\ q = Len(old) + (q - Len(old)))
  BY <1>1, <1>3
<1>. QED
  BY <1>2, <1>4 DEF S

(* The merged events have the keys of the old and of the incoming ones.    *)
LEMMA MergedKeys ==
  ASSUME NEW old \in Seq(Item), NEW inc \in Seq(Item), Grounded(old, inc), NEW key, key # NoKey
  PROVE  HasKey(API!Merged(old, inc), key) <=> HasKey(old, key) \/ HasKey(inc, key)
<1> DEFINE S == News(old, inc)
           c == Cardinality(S)
           m == API!Merged(old, inc)
<1>1. /\ m \in Seq(Item) /\ Len(m) = Len(old) + c /\ Len(old) \in Nat /\ c \in Nat
      /\ \A i \in 1..Len(old) : m[i] = API!Latest(old[i], inc)
      /\ \A i \in S : m[Len(old) + Place(S, i)] = API!Latest(inc[i], inc)
  BY MergedFacts, FS_CardinalityType DEF Grounded
<1>2. /\ S \subseteq DOMAIN inc
      /\ \A i \in S : Place(S, i) \in 1..c
      /\ \A j \in DOMAIN inc :
           inc[j].key = NoKey \/ HasKey(old, inc[j].key) \/ \E i \in S : inc[i].key = inc[j].key
  BY DEF Grounded, News
<1>3. \A q \in DOMAIN m : q \in 1..Len(old) \/ \E i \in S : q = Len(old) + Place(S, i)
  BY PlacesOf
<1>4. /\ \A i \in DOMAIN old : old[i] \in Item
      /\ \A i \in DOMAIN inc : inc[i] \in Item
      /\ DOMAIN old = 1..Len(old) /\ DOMAIN m = 1..Len(m)
  BY <1>1
<1> HIDE DEF S, c, m
<1>5. /\ \A i \in 1..Len(old) : m[i].key = old[i].key /\ i \in DOMAIN m
      /\ \A i \in S : /\ m[Len(old) + Place(S, i)].key = inc[i].key
                      /\ Len(old) + Place(S, i) \in DOMAIN m
  <2>1. \A i \in 1..Len(old) : m[i].key = old[i].key
    BY <1>1, <1>4, LatestType
  <2>2. \A i \in S : m[Len(old) + Place(S, i)].key = inc[i].key
    BY <1>1, <1>2, <1>4, LatestType
  <2>. QED
    BY <1>1, <1>2, <1>4, <2>1, <2>2
<1>6. ASSUME HasKey(m, key)
      PROVE  HasKey(old, key) \/ HasKey(inc, key)
  BY <1>2, <1>3, <1>4, <1>5, <1>6 DEF HasKey
<1>7. ASSUME HasKey(old, key)
      PROVE  HasKey(m, key)
  BY <1>4, <1>5, <1>7 DEF HasKey
<1>8. ASSUME HasKey(inc, key)
      PROVE  HasKey(m, key)
  <2>1. HasKey(old, key) \/ \E i \in S : inc[i].key = key
    BY <1>2, <1>8 DEF HasKey
  <2>2. ASSUME NEW i \in S, inc[i].key = key
        PROVE  HasKey(m, key)
    BY <1>5, <2>2 DEF HasKey
  <2>. QED
    BY <1>7, <2>1, <2>2
<1>. QED
  BY <1>6, <1>7, <1>8 DEF m

(* What one more event does to the merged events: it replaces those of its *)
(* key, and is added if there is none.                                     *)
LEMMA MergedNext ==
  ASSUME NEW old \in Seq(Item), NEW inc \in Seq(Item), NEW x \in Item, Grounded(old, inc)
  PROVE  LET m == API!Merged(old, inc)
             m2 == API!Merged(old, Append(inc, x))
         IN  /\ m \in Seq(Item) /\ m2 \in Seq(Item)
             /\ \A q \in DOMAIN m :
                  /\ q \in DOMAIN m2
                  /\ m2[q] = IF x.key # NoKey /\ m[q].key = x.key THEN x ELSE m[q]
             /\ ~Fresh(old, inc, x) => Len(m2) = Len(m)
             /\ Fresh(old, inc, x) => Len(m2) = Len(m) + 1 /\ m2[Len(m) + 1] = x
<1> DEFINE more == Append(inc, x)
           n == Len(inc) + 1
           S == News(old, inc)
           T == News(old, more)
           c == Cardinality(S)
           m == API!Merged(old, inc)
           m2 == API!Merged(old, more)
<1>1. Grounded(old, more) /\ more \in Seq(Item)
  BY GroundedAppend, AppendFacts
<1>2. /\ m \in Seq(Item) /\ Len(m) = Len(old) + c /\ Len(old) \in Nat /\ c \in Nat
      /\ \A i \in 1..Len(old) : m[i] = API!Latest(old[i], inc)
      /\ \A i \in S : m[Len(old) + Place(S, i)] = API!Latest(inc[i], inc)
  BY MergedFacts, FS_CardinalityType DEF Grounded
<1>3. /\ m2 \in Seq(Item) /\ Len(m2) = Len(old) + Cardinality(T)
      /\ \A i \in 1..Len(old) : m2[i] = API!Latest(old[i], more)
      /\ \A i \in T : m2[Len(old) + Place(T, i)] = API!Latest(more[i], more)
  BY <1>1, MergedFacts
<1>4. /\ \A i \in DOMAIN inc : more[i] = inc[i] /\ i < n /\ i \in Nat /\ inc[i] \in Item
      /\ more[n] = x /\ n \in Nat /\ S \subseteq DOMAIN inc /\ IsFiniteSet(S)
      /\ \A i \in 1..Len(old) : old[i] \in Item
  BY AppendFacts DEF News, Grounded
<1>5. T = S \cup (IF Fresh(old, inc, x) THEN {n} ELSE {})
  BY NewsAppend
<1>6. \A i \in S : Place(S, i) \in 1..c
  BY DEF Grounded
<1>7. \A q \in DOMAIN m : q \in 1..Len(old) \/ \E i \in S : q = Len(old) + Place(S, i)
  BY PlacesOf
<1>8. \A item \in Item :
        /\ API!Latest(item, more) =
             IF item.key # NoKey /\ item.key = x.key THEN x ELSE API!Latest(item, inc)
        /\ API!Latest(item, inc).key = item.key
  BY LatestAppend, LatestType
<1> HIDE DEF more, n, S, T, c, m, m2
<1>9. /\ \A i \in S : i \in T /\ Place(T, i) = Place(S, i)
      /\ ~Fresh(old, inc, x) => Cardinality(T) = c
      /\ Fresh(old, inc, x) => n \in T /\ Cardinality(T) = c + 1 /\ Place(T, n) = c + 1
  <2>1. CASE Fresh(old, inc, x)
    BY <1>4, <1>5, <2>1, PlaceAppend DEF c
  <2>2. CASE ~Fresh(old, inc, x)
    <3>1. T = S
      BY <1>5, <2>2
    <3>. QED
      BY <2>2, <3>1 DEF c
  <2>. QED
    BY <2>1, <2>2
<1>10. DOMAIN m = 1..Len(m) /\ DOMAIN m2 = 1..Len(m2) /\ Len(m) \in Nat /\ Len(m2) \in Nat
  BY <1>2, <1>3
<1>11. ASSUME NEW q \in DOMAIN m
       PROVE  /\ q \in DOMAIN m2
              /\ m2[q] = IF x.key # NoKey /\ m[q].key = x.key THEN x ELSE m[q]
  <2>1. q \in DOMAIN m2
    BY <1>2, <1>3, <1>9, <1>10
  <2>2. CASE q \in 1..Len(old)
    <3>1. m[q] = API!Latest(old[q], inc) /\ m2[q] = API!Latest(old[q], more) /\ old[q] \in Item
      BY <1>2, <1>3, <1>4, <2>2
    <3>. QED
      BY <1>8, <2>1, <3>1
  <2>3. ASSUME NEW i \in S, q = Len(old) + Place(S, i)
        PROVE  m2[q] = IF x.key # NoKey /\ m[q].key = x.key THEN x ELSE m[q]
    <3>1. m[q] = API!Latest(inc[i], inc) /\ m2[q] = API!Latest(inc[i], more) /\ inc[i] \in Item
      BY <1>2, <1>3, <1>4, <1>9, <2>3
    <3>. QED
      BY <1>8, <3>1
  <2>. QED
    BY <1>7, <2>1, <2>2, <2>3
<1>12. ASSUME Fresh(old, inc, x)
       PROVE  Len(m2) = Len(m) + 1 /\ m2[Len(m) + 1] = x
  <2>1. Len(m2) = Len(m) + 1
    BY <1>2, <1>3, <1>9, <1>12
  <2>2. Len(m) + 1 = Len(old) + Place(T, n)
    BY <1>2, <1>9, <1>12
  <2>3. m2[Len(m) + 1] = API!Latest(x, more)
    BY <1>3, <1>4, <1>9, <1>12, <2>2
  <2>4. API!Latest(x, more) = x
    <3>1. CASE x.key # NoKey
      BY <1>8, <3>1
    <3>2. CASE x.key = NoKey
      BY <1>1, <3>2, LatestFacts
    <3>. QED
      BY <3>1, <3>2
  <2>. QED
    BY <2>1, <2>3, <2>4
<1>13. ~Fresh(old, inc, x) => Len(m2) = Len(m)
  BY <1>2, <1>3, <1>9
<1>. QED
  BY <1>2, <1>3, <1>11, <1>12, <1>13 DEF m, m2, more

(* The loop of Sync computes Merged: mergeData takes it from one event to  *)
(* the next.                                                               *)
LEMMA MergedAppend ==
  ASSUME NEW old \in Seq(Item), NEW inc \in Seq(Item), NEW x \in Item, Grounded(old, inc),
         KeysUniqueIn(API!Merged(old, inc))
  PROVE  MergeData(API!Merged(old, inc), x) = API!Merged(old, Append(inc, x))
<1> DEFINE m == API!Merged(old, inc)
           m2 == API!Merged(old, Append(inc, x))
<1>1. /\ m \in Seq(Item) /\ m2 \in Seq(Item)
      /\ \A q \in DOMAIN m :
           m2[q] = IF x.key # NoKey /\ m[q].key = x.key THEN x ELSE m[q]
      /\ ~Fresh(old, inc, x) => Len(m2) = Len(m)
      /\ Fresh(old, inc, x) => Len(m2) = Len(m) + 1 /\ m2[Len(m) + 1] = x
  BY MergedNext
<1>2. x.key # NoKey => (HasKey(m, x.key) <=> HasKey(old, x.key) \/ HasKey(inc, x.key))
  BY MergedKeys
<1> HIDE DEF m, m2
<1>3. CASE Fresh(old, inc, x)
  <2>1. x.key = NoKey \/ ~HasKey(m, x.key)
    BY <1>2, <1>3 DEF Fresh
  <2>2. MergeData(m, x) = Append(m, x)
    BY <2>1 DEF MergeData
  <2>3. \A q \in DOMAIN m : m2[q] = m[q]
    BY <1>1, <2>1 DEF HasKey
  <2>4. Append(m, x) = m2
    BY <1>1, <1>3, <2>3
  <2>. QED
    BY <2>2, <2>4 DEF m, m2
<1>4. CASE ~Fresh(old, inc, x)
  <2> DEFINE f == FirstWithKey(m, x.key)
  <2>1. x.key # NoKey /\ HasKey(m, x.key)
    BY <1>2, <1>4 DEF Fresh
  <2>2. PICK i \in DOMAIN m : m[i].key = x.key
    BY <2>1 DEF HasKey
  <2>3. \A j \in DOMAIN m : m[j].key = x.key <=> j = i
    BY <2>1, <2>2 DEF KeysUniqueIn, m
  <2>4. i \in Nat
    BY <1>1, <2>2
  <2>5. f \in DOMAIN m /\ m[f].key = x.key
    BY <2>2, <2>3, <2>4 DEF FirstWithKey
  <2>6. MergeData(m, x) = [m EXCEPT ![f] = x]
    BY <2>1 DEF MergeData
  <2> HIDE DEF f
  <2>7. f = i
    BY <2>3, <2>5
  <2>8. m2 = [m EXCEPT ![i] = x]
    <3>1. Len(m2) = Len(m) /\ DOMAIN m2 = DOMAIN m
      BY <1>1, <1>4
    <3>2. \A q \in DOMAIN m : m2[q] = IF q = i THEN x ELSE m[q]
      BY <1>1, <2>1, <2>3
    <3>3. m \in [DOMAIN m -> Item] /\ m2 \in [DOMAIN m2 -> Item]
      BY <1>1
    <3>. QED
      BY <3>1, <3>2, <3>3
  <2>. QED
    BY <2>6, <2>7, <2>8 DEF m, m2
<1>. QED
  BY <1>3, <1>4

-----------------------------------------------------------------------------
(* The invariant of the refinement, beside IInv.                           *)

Creating(r) == (pc[r] = "locking" \/ InTransaction(r)) /\ call[r].op = "Create"

(* The events Sync has read.                                               *)
Done(r) == SubSeq(Incoming(r), 1, next[r] - 1)

StoredData(r) == db[call[r].id].data

(* A call that waits for the lock or has it was not refused before; a      *)
(* Create carries a share as API creates it; Sync's slice is Merged of     *)
(* the events it has read, and at the end of all.                          *)
RequestInv(r) ==
  /\ pc[r] = "locking" \/ InTransaction(r) => ~RefusedEarly(call[r])
  /\ Creating(r) => /\ share[r].password = NoPassword
                    /\ share[r].createdAt = share[r].updatedAt
                    /\ share[r].secret \in issued
  /\ pc[r] = "merge" =>
       /\ next[r] <= Len(Incoming(r)) + 1
       /\ \A i \in 1..(next[r] - 1) : IsItemAccepted(Incoming(r)[i])
       /\ Grounded(StoredData(r), Done(r))
       /\ merged[r] = API!Merged(StoredData(r), Done(r))
  /\ pc[r] = "commit" /\ call[r].op = "Sync" =>
       /\ API!Acceptable(StoredData(r), Incoming(r))
       /\ share[r].data = API!Merged(StoredData(r), Incoming(r))

(* Secrets that are stored, or about to be, were issued and differ.        *)
SecretsInv ==
  /\ \A id \in Stored(db) : db[id].secret \in issued
  /\ \A r \in Requests : Creating(r) => \A id \in Stored(db) : db[id].secret # share[r].secret
  /\ \A q, r \in Requests :
       Creating(q) /\ Creating(r) /\ q # r => share[q].secret # share[r].secret

RInv ==
  /\ IInv
  /\ IsFiniteSet(Stored(db))
  /\ \A r \in Requests : RequestInv(r)
  /\ SecretsInv

(* A goroutine's step that touches no other and not the bucket, and that   *)
(* does not begin a creation.                                              *)
Alone(r) ==
  /\ db' = db /\ issued' = issued
  /\ \A q \in Requests \ {r} :
       /\ pc'[q] = pc[q] /\ call'[q] = call[q] /\ share'[q] = share[q]
       /\ merged'[q] = merged[q] /\ next'[q] = next[q]

LEMMA RequestKept ==
  ASSUME NEW q \in Requests, RequestInv(q), db' = db, issued \subseteq issued',
         pc'[q] = pc[q], call'[q] = call[q], share'[q] = share[q],
         merged'[q] = merged[q], next'[q] = next[q]
  PROVE  RequestInv(q)' /\ (Creating(q)' <=> Creating(q))
BY DEF RequestInv, Creating, InTransaction, StoredData, Done, Incoming

LEMMA AloneStep ==
  ASSUME RInv, IInv', NEW r \in Requests, Alone(r), RequestInv(r)',
         Creating(r)' => Creating(r) /\ share'[r] = share[r]
  PROVE  RInv'
<1>1. \A q \in Requests \ {r} : RequestInv(q)' /\ (Creating(q)' <=> Creating(q)) /\ share'[q] = share[q]
  BY RequestKept DEF RInv, Alone
<1>2. db' = db /\ issued' = issued
  BY DEF Alone
<1>3. \A q \in Requests : Creating(q)' => Creating(q) /\ share'[q] = share[q]
  BY <1>1
<1>4. SecretsInv'
  BY <1>2, <1>3 DEF RInv, SecretsInv, Stored
<1>. QED
  BY <1>1, <1>2, <1>4 DEF RInv, Stored

(* A goroutine that goes where nothing is asked of it.                     *)
LEMMA QuietStep ==
  ASSUME RInv, IInv', NEW r \in Requests, Alone(r), pc'[r] \in {"idle", "called", "reply"}
  PROVE  RInv'
<1>1. RequestInv(r)' /\ ~Creating(r)'
  BY DEF RequestInv, Creating, InTransaction
<1>. QED
  BY <1>1, AloneStep

LEMMA ToReply ==
  ASSUME RInv, IInv', NEW r \in Requests, Goto(r, "reply"),
         UNCHANGED <<db, issued, call, share, merged, next>>
  PROVE  RInv'
<1>1. Alone(r) /\ pc'[r] = "reply"
  BY DEF Alone, RInv, IInv, TypeOK, Goto
<1>. QED
  BY <1>1, QuietStep

LEMMA ReceiveKeeps ==
  ASSUME RInv, IInv', NEW r \in Requests, Receive(r)
  PROVE  RInv'
<1>1. PICK c \in Calls : call' = [call EXCEPT ![r] = c]
  BY DEF Receive
<1>2. Alone(r) /\ pc'[r] = "called"
  BY <1>1 DEF Alone, RInv, IInv, TypeOK, Receive, Goto, locals
<1>. QED
  BY <1>2, QuietStep

LEMMA RespondKeeps ==
  ASSUME RInv, IInv', NEW r \in Requests, Respond(r)
  PROVE  RInv'
<1>1. Alone(r) /\ pc'[r] = "idle"
  BY DEF Alone, RInv, IInv, TypeOK, Respond, Goto
<1>. QED
  BY <1>1, QuietStep

(* The steps between the arrival of an update and its commit that leave    *)
(* the share and the slice alone.                                          *)
LEMMA StartUpdateKeeps ==
  ASSUME RInv, IInv', NEW r \in Requests, StartUpdate(r)
  PROVE  RInv'
<1>1. /\ Alone(r) /\ pc'[r] = "locking" /\ call'[r] = call[r]
      /\ call[r].op # "Create" /\ ~RefusedEarly(call[r])
  BY DEF Alone, RInv, IInv, TypeOK, StartUpdate, Goto, locals
<1>2. RequestInv(r)' /\ ~Creating(r)'
  BY <1>1 DEF RequestInv, Creating, InTransaction, RefusedEarly
<1>. QED
  BY <1>1, <1>2, AloneStep

LEMMA BeginKeeps ==
  ASSUME RInv, IInv', NEW r \in Requests, Begin(r)
  PROVE  RInv'
<1>1. /\ Alone(r) /\ pc[r] = "locking" /\ pc'[r] = "update"
      /\ call'[r] = call[r] /\ share'[r] = share[r]
  BY DEF Alone, RInv, IInv, TypeOK, Begin, Goto, locals
<1>2. RequestInv(r)' /\ (Creating(r)' => Creating(r)) /\ issued' = issued
  BY <1>1 DEF RInv, RequestInv, Creating, InTransaction, Alone, RefusedEarly
<1>. QED
  BY <1>1, <1>2, AloneStep

LEMMA DecideKeeps ==
  ASSUME RInv, IInv', NEW r \in Requests, PutNew(r) \/ Remove(r)
  PROVE  RInv'
<1>1. /\ Alone(r) /\ pc[r] = "update" /\ pc'[r] = "commit"
      /\ call'[r] = call[r] /\ share'[r] = share[r]
      /\ call[r].op # "Sync"
  BY DEF Alone, RInv, IInv, TypeOK, PutNew, Remove, Found, Working, Goto, locals
<1>2. RequestInv(r)' /\ (Creating(r)' => Creating(r)) /\ issued' = issued
  BY <1>1 DEF RInv, RequestInv, Creating, InTransaction, Alone, RefusedEarly
<1>. QED
  BY <1>1, <1>2, AloneStep

LEMMA SetPasswordKeeps ==
  ASSUME RInv, IInv', NEW r \in Requests, SetPassword(r)
  PROVE  RInv'
<1>1. /\ Alone(r) /\ pc[r] = "update" /\ pc'[r] = "commit" /\ call'[r] = call[r]
      /\ call[r].op = "SetPassword"
  BY DEF Alone, RInv, IInv, TypeOK, SetPassword, Found, Working, Goto
<1>2. RequestInv(r)' /\ ~Creating(r)'
  BY <1>1 DEF RInv, RequestInv, Creating, InTransaction, RefusedEarly
<1>. QED
  BY <1>1, <1>2, AloneStep

(* A Create gets a secret that nobody has.                                 *)
LEMMA StartCreateKeeps ==
  ASSUME RInv, IInv', NEW r \in Requests, StartCreate(r)
  PROVE  RInv'
<1>1. PICK secret \in Secrets \ issued :
        issued' = issued \cup {secret} /\ share' = [share EXCEPT ![r] = NewShare(secret)]
  BY DEF StartCreate
<1>2. /\ pc[r] = "called" /\ pc'[r] = "locking" /\ share'[r] = NewShare(secret)
      /\ db' = db /\ call' = call /\ merged' = merged /\ next' = next
      /\ \A q \in Requests : q # r => pc'[q] = pc[q] /\ share'[q] = share[q]
      /\ ~RefusedEarly(call[r])
  BY <1>1 DEF StartCreate, Goto, RInv, IInv, TypeOK
<1>3. /\ NewShare(secret).password = NoPassword /\ NewShare(secret).secret = secret
      /\ NewShare(secret).createdAt = NewShare(secret).updatedAt
  BY DEF NewShare
<1>4. RequestInv(r)'
  BY <1>1, <1>2, <1>3 DEF RequestInv, Creating, InTransaction, RefusedEarly
<1>5. \A q \in Requests : q # r => RequestInv(q)' /\ (Creating(q)' <=> Creating(q))
  BY <1>1, <1>2, RequestKept DEF RInv
<1>6. \A q \in Requests : q # r /\ Creating(q) => share[q].secret \in issued
  BY DEF RInv, RequestInv
<1>7. SecretsInv'
  <2>1. \A id \in Stored(db)' : db'[id].secret \in issued
    BY <1>2 DEF RInv, SecretsInv, Stored
  <2>2. ASSUME NEW q \in Requests, Creating(q)', NEW id \in Stored(db)'
        PROVE  db'[id].secret # share'[q].secret
    <3>1. CASE q = r
      BY <1>1, <1>2, <1>3, <2>1, <3>1
    <3>2. CASE q # r
      BY <1>2, <1>5, <2>2, <3>2 DEF RInv, SecretsInv, Stored
    <3>. QED
      BY <3>1, <3>2
  <2>3. ASSUME NEW p \in Requests, NEW q \in Requests, Creating(p)', Creating(q)', p # q
        PROVE  share'[p].secret # share'[q].secret
    <3>1. CASE p # r /\ q # r
      BY <1>2, <1>5, <2>3, <3>1 DEF RInv, SecretsInv
    <3>2. CASE p = r \/ q = r
      BY <1>1, <1>2, <1>3, <1>5, <1>6, <2>3, <3>2
    <3>. QED
      BY <3>1, <3>2
  <2>. QED
    BY <1>1, <2>1, <2>2, <2>3 DEF SecretsInv
<1>. QED
  BY <1>2, <1>4, <1>5, <1>7 DEF RInv, Stored

-----------------------------------------------------------------------------
(* The loop of Sync.                                                       *)

LEMMA BeginMergeKeeps ==
  ASSUME RInv, IInv', NEW r \in Requests, BeginMerge(r)
  PROVE  RInv'
<1> DEFINE old == StoredData(r)
<1>1. /\ Alone(r) /\ pc[r] = "update" /\ pc'[r] = "merge" /\ call'[r] = call[r]
      /\ call[r].op = "Sync" /\ db[call[r].id] # NoShare
      /\ merged'[r] = old /\ next'[r] = 1 /\ db' = db
  BY DEF Alone, RInv, IInv, TypeOK, BeginMerge, Found, Working, Goto, StoredData
<1>2. call[r] \in SyncCall /\ Incoming(r) \in Seq(Item)
  BY <1>1, CallFields DEF RInv, IInv, TypeOK, Incoming
<1>3. old \in Seq(Item)
  BY <1>1, FoundFacts, ShareFields DEF RInv, InTransaction, WellFormed, StoredData
<1>4. Done(r)' = <<>> /\ StoredData(r)' = old /\ Incoming(r)' = Incoming(r)
  BY <1>1, <1>2 DEF Done, StoredData, Incoming
<1>5. Grounded(old, <<>>) /\ API!Merged(old, <<>>) = old
  BY <1>3, EmptyBatch
<1> HIDE DEF old
<1>6. ~RefusedEarly(call[r])
  BY <1>1 DEF RInv, RequestInv, InTransaction
<1>7. RequestInv(r)' /\ ~Creating(r)'
  <2>1. next'[r] <= Len(Incoming(r)') + 1 /\ 1..(next'[r] - 1) = {}
    BY <1>1, <1>2, <1>4
  <2>2. Grounded(StoredData(r), Done(r))' /\ merged'[r] = API!Merged(StoredData(r), Done(r))'
    <3>1. Grounded(StoredData(r)', Done(r)') /\ merged'[r] = API!Merged(StoredData(r)', Done(r)')
      BY <1>1, <1>4, <1>5
    <3>. QED
      BY <3>1
  <2>. QED
    BY <1>1, <1>6, <2>1, <2>2 DEF RequestInv, Creating, InTransaction, RefusedEarly
<1>. QED
  BY <1>1, <1>7, AloneStep

(* What Sync's loop has at hand.                                           *)
LEMMA MergeFacts ==
  ASSUME RInv, NEW r \in Requests, pc[r] = "merge"
  PROVE  /\ call[r] \in SyncCall /\ call[r] \in Call /\ Incoming(r) \in Seq(Item)
         /\ next[r] \in Nat \ {0} /\ next[r] <= Len(Incoming(r)) + 1
         /\ StoredData(r) \in Seq(Item) /\ Grounded(StoredData(r), Done(r))
         /\ merged[r] = API!Merged(StoredData(r), Done(r))
         /\ KeysUniqueIn(merged[r])
         /\ \A i \in 1..(next[r] - 1) : IsItemAccepted(Incoming(r)[i])
         /\ db[call[r].id] # NoShare /\ db[call[r].id].secret = call[r].secret
         /\ ~RefusedEarly(call[r])
<1>1. call[r] \in SyncCall /\ call[r] \in Call /\ Incoming(r) \in Seq(Item)
  BY CallFields DEF RInv, IInv, StepInv, TypeOK, Incoming
<1>2. /\ next[r] \in Nat \ {0} /\ next[r] <= Len(Incoming(r)) + 1
      /\ Grounded(StoredData(r), Done(r)) /\ merged[r] = API!Merged(StoredData(r), Done(r))
      /\ \A i \in 1..(next[r] - 1) : IsItemAccepted(Incoming(r)[i])
      /\ ~RefusedEarly(call[r])
  BY DEF RInv, IInv, TypeOK, RequestInv, InTransaction
<1>3. /\ db[call[r].id] # NoShare /\ share[r] = db[call[r].id]
      /\ share[r].secret = call[r].secret
      /\ WellFormed([share[r] EXCEPT !.data = merged[r]])
  BY DEF RInv, IInv, MergeInv
<1>4. StoredData(r) \in Seq(Item) /\ share[r] \in Share
  BY <1>3, FoundFacts, ShareFields DEF RInv, InTransaction, WellFormed, StoredData
<1>5. KeysUniqueIn(merged[r])
  BY <1>3, <1>4 DEF WellFormed, Share
<1>. QED
  BY <1>1, <1>2, <1>3, <1>4, <1>5

LEMMA MergeItemKeeps ==
  ASSUME RInv, IInv', NEW r \in Requests, MergeItem(r)
  PROVE  RInv'
<1> DEFINE old == StoredData(r)
           items == Incoming(r)
           n == next[r]
           done == Done(r)
<1>1. /\ Alone(r) /\ pc[r] = "merge" /\ pc'[r] = "merge" /\ call'[r] = call[r]
      /\ n <= Len(items) /\ IsItemAccepted(items[n])
      /\ merged'[r] = MergeData(merged[r], items[n])
      /\ next'[r] = n + 1 /\ db' = db
  BY DEF Alone, RInv, IInv, TypeOK, MergeItem
<1>2. /\ call[r] \in SyncCall /\ items \in Seq(Item) /\ n \in Nat \ {0}
      /\ old \in Seq(Item) /\ Grounded(old, done)
      /\ merged[r] = API!Merged(old, done) /\ KeysUniqueIn(merged[r])
      /\ \A i \in 1..(n - 1) : IsItemAccepted(items[i])
      /\ ~RefusedEarly(call[r])
  BY <1>1, MergeFacts
<1>3. done = SubSeq(items, 1, n - 1)
  BY DEF Done
<1>4. StoredData(r)' = old /\ Incoming(r)' = items /\ Done(r)' = SubSeq(items, 1, next'[r] - 1)
  BY <1>1 DEF StoredData, Incoming, Done
<1> HIDE DEF old, items, n, done
<1>5. /\ done \in Seq(Item) /\ items[n] \in Item
      /\ SubSeq(items, 1, n) = Append(done, items[n])
  BY <1>1, <1>2, <1>3
<1>6. Done(r)' = Append(done, items[n])
  BY <1>1, <1>2, <1>4, <1>5
<1>7. /\ Grounded(old, Append(done, items[n]))
      /\ merged'[r] = API!Merged(old, Append(done, items[n]))
  BY <1>1, <1>2, <1>5, GroundedAppend, MergedAppend
<1>8. \A i \in 1..(next'[r] - 1) : IsItemAccepted(items[i])
  BY <1>1, <1>2
<1>9. next'[r] <= Len(items) + 1
  BY <1>1, <1>2
<1>10. call[r].op = "Sync"
  BY <1>2, CallFields, <1>1 DEF SyncCall
<1>11. RequestInv(r)' /\ ~Creating(r)'
  <2>1. Grounded(StoredData(r), Done(r))' /\ merged'[r] = API!Merged(StoredData(r), Done(r))'
    <3>1. Grounded(StoredData(r)', Done(r)') /\ merged'[r] = API!Merged(StoredData(r)', Done(r)')
      BY <1>4, <1>6, <1>7
    <3>. QED
      BY <3>1
  <2>. QED
    BY <1>1, <1>2, <1>4, <1>8, <1>9, <1>10, <2>1
       DEF RequestInv, Creating, InTransaction, RefusedEarly
<1>. QED
  BY <1>1, <1>11, AloneStep

(* After the last event the slice is Merged of the whole batch.            *)
LEMMA AllDone ==
  ASSUME RInv, NEW r \in Requests, pc[r] = "merge", next[r] > Len(Incoming(r))
  PROVE  /\ merged[r] = API!Merged(StoredData(r), Incoming(r))
         /\ \A i \in DOMAIN Incoming(r) : IsItemAccepted(Incoming(r)[i])
<1> DEFINE items == Incoming(r)
<1>1. /\ items \in Seq(Item) /\ next[r] \in Nat /\ next[r] <= Len(items) + 1
      /\ merged[r] = API!Merged(StoredData(r), Done(r))
      /\ \A i \in 1..(next[r] - 1) : IsItemAccepted(items[i])
  BY MergeFacts
<1>2. Done(r) = SubSeq(items, 1, next[r] - 1) /\ next[r] > Len(items)
  BY DEF Done
<1> HIDE DEF items
<1>3. next[r] - 1 = Len(items) /\ SubSeq(items, 1, Len(items)) = items
  BY <1>1, <1>2
<1>4. DOMAIN items = 1..Len(items)
  BY <1>1
<1>. QED
  BY <1>1, <1>2, <1>3, <1>4 DEF items

LEMMA EndMergeKeeps ==
  ASSUME RInv, IInv', NEW r \in Requests, EndMerge(r)
  PROVE  RInv'
<1> DEFINE old == StoredData(r)
           items == Incoming(r)
<1>1. /\ Alone(r) /\ pc[r] = "merge" /\ pc'[r] = "commit" /\ call'[r] = call[r]
      /\ next[r] > Len(items) /\ ~(DataSize(merged[r]) > MaxShareDataBytes)
      /\ share'[r] = [share[r] EXCEPT !.data = merged[r], !.updatedAt = clock]
      /\ db' = db
  BY DEF Alone, RInv, IInv, TypeOK, EndMerge, Goto
<1>2. /\ merged[r] = API!Merged(old, items)
      /\ \A i \in DOMAIN items : IsItemAccepted(items[i])
  BY <1>1, AllDone
<1>3. StoredData(r)' = old /\ Incoming(r)' = items
  BY <1>1 DEF StoredData, Incoming
<1>4. API!Acceptable(old, items)
  BY <1>1, <1>2, SameOperators DEF API!Acceptable, IsItemAccepted
<1>5. share'[r].data = merged[r]
  <2>1. share[r] \in Share
    BY <1>1, FoundFacts DEF RInv, IInv, MergeInv, InTransaction, WellFormed
  <2>. QED
    BY <1>1, <2>1 DEF Share
<1>6. ~RefusedEarly(call[r]) /\ call[r].op = "Sync"
  BY <1>1, MergeFacts, CallFields
<1> HIDE DEF old, items
<1>7. RequestInv(r)' /\ ~Creating(r)'
  <2>1. /\ API!Acceptable(StoredData(r), Incoming(r))'
        /\ share'[r].data = API!Merged(StoredData(r), Incoming(r))'
    <3>1. /\ API!Acceptable(StoredData(r)', Incoming(r)')
          /\ share'[r].data = API!Merged(StoredData(r)', Incoming(r)')
      BY <1>2, <1>3, <1>4, <1>5
    <3>. QED
      BY <3>1
  <2>. QED
    BY <1>1, <1>6, <2>1 DEF RequestInv, Creating, InTransaction, RefusedEarly
<1>. QED
  BY <1>1, <1>7, AloneStep

(* A commit: the others are before their Begin.                            *)
LEMMA CommitKeeps ==
  ASSUME RInv, IInv', NEW r \in Requests, Commit(r)
  PROVE  RInv'
<1> DEFINE id == call[r].id
<1>1. /\ pc[r] = "commit" /\ pc'[r] = "reply" /\ db' = [db EXCEPT ![id] = Committed(r)]
      /\ issued' = issued /\ call' = call /\ share' = share
      /\ \A q \in Requests : q # r => pc'[q] = pc[q]
  BY DEF Commit, Finish, Goto, locals, RInv, IInv, TypeOK
<1>2. /\ id \in IDs /\ \A q \in Requests : InTransaction(q) => q = r
      /\ call[r].op \in {"Create", "Sync", "SetPassword", "Remove"}
      /\ call[r].op = "Remove" => Committed(r) = NoShare
      /\ call[r].op # "Remove" => share[r] \in Share /\ Committed(r) = Encode(share[r])
  BY <1>1, CommitFacts DEF RInv, WellFormed
<1>3. call[r].op # "Remove" => Committed(r).secret = share[r].secret
  BY <1>2, EncodeFacts
<1>4. call[r].op \in {"Sync", "SetPassword"} =>
        db[id] # NoShare /\ share[r].secret = db[id].secret
  <2>1. AgreesWith(call[r], share[r], db[id])
    BY <1>1 DEF RInv, IInv, CommitIsCurrent
  <2>2. call[r].op \in {"Sync", "SetPassword"} => db[id] # NoShare
    BY <2>1 DEF AgreesWith
  <2>3. db[id] # NoShare => db[id] \in Share
    BY <1>2 DEF RInv, IInv, TypeOK
  <2>. QED
    BY <2>1, <2>2, <2>3 DEF AgreesWith, Share
<1>5. call[r].op = "Create" => Creating(r)
  BY <1>1 DEF Creating, InTransaction
<1>6. \A i \in IDs : db'[i] = IF i = id THEN Committed(r) ELSE db[i]
  BY <1>1 DEF RInv, IInv, TypeOK
<1> HIDE DEF id
<1>7. IsFiniteSet(Stored(db'))
  <2>1. Stored(db') \subseteq Stored(db) \cup {id}
    BY <1>6 DEF Stored
  <2>2. IsFiniteSet(Stored(db) \cup {id})
    BY FS_AddElement DEF RInv
  <2>. QED
    BY <2>1, <2>2, FS_Subset
<1>8. \A q \in Requests : q # r =>
        RequestInv(q)' /\ (Creating(q)' <=> Creating(q)) /\ ~InTransaction(q)
  BY <1>1, <1>2 DEF RInv, RequestInv, Creating, InTransaction, RefusedEarly
<1>9. RequestInv(r)' /\ ~Creating(r)'
  BY <1>1 DEF RequestInv, Creating, InTransaction
<1>10. ASSUME NEW i \in Stored(db')
       PROVE  \/ i \in Stored(db) /\ db'[i].secret = db[i].secret
              \/ Creating(r) /\ db'[i].secret = share[r].secret
  <2>1. CASE i # id
    BY <1>6, <1>10, <2>1 DEF Stored
  <2>2. CASE i = id
    <3>1. call[r].op # "Remove" /\ i \in IDs
      BY <1>2, <1>6, <1>10, <2>2 DEF Stored
    <3>. QED
      BY <1>2, <1>3, <1>4, <1>5, <1>6, <2>2, <3>1 DEF Stored
  <2>. QED
    BY <2>1, <2>2
<1>11. SecretsInv'
  <2>1. \A i \in Stored(db') : db'[i].secret \in issued
    BY <1>10 DEF RInv, SecretsInv, RequestInv
  <2>2. ASSUME NEW q \in Requests, Creating(q)', NEW i \in Stored(db')
        PROVE  db'[i].secret # share[q].secret
    <3>1. q # r /\ Creating(q)
      BY <1>8, <1>9, <2>2
    <3>. QED
      BY <1>10, <3>1 DEF RInv, SecretsInv
  <2>3. \A p, q \in Requests :
          Creating(p)' /\ Creating(q)' /\ p # q => share[p].secret # share[q].secret
    BY <1>8, <1>9 DEF RInv, SecretsInv
  <2>. QED
    BY <1>1, <2>1, <2>2, <2>3 DEF SecretsInv
<1>. QED
  BY <1>7, <1>8, <1>9, <1>11 DEF RInv

LEMMA InitRInv == Init => RInv
<1> SUFFICES ASSUME Init PROVE RInv
  OBVIOUS
<1>1. IInv
  BY InitIInv
<1>2. Stored(db) = {}
  BY DEF Init, Stored
<1>3. IsFiniteSet(Stored(db))
  BY <1>2, FS_EmptySet
<1>4. \A r \in Requests : RequestInv(r) /\ ~Creating(r)
  BY DEF Init, RequestInv, Creating, InTransaction
<1>5. SecretsInv
  BY <1>2, <1>4 DEF SecretsInv
<1>. QED
  BY <1>1, <1>3, <1>4, <1>5 DEF RInv

LEMMA NextRInv == RInv /\ [Next]_vars => RInv'
<1> SUFFICES ASSUME RInv, [Next]_vars PROVE RInv'
  OBVIOUS
<1>1. IInv'
  BY NextIInv DEF RInv
<1>2. ASSUME NEW r \in Requests, Receive(r) \/ Respond(r) PROVE RInv'
  BY <1>1, <1>2, ReceiveKeeps, RespondKeeps
<1>3. ASSUME NEW r \in Requests, Start(r) \/ Begin(r) PROVE RInv'
  <2>1. CASE Refuse(r)
    BY <1>1, <2>1, ToReply DEF Refuse, Finish, locals
  <2>. QED
    BY <1>1, <1>3, <2>1, StartCreateKeeps, StartUpdateKeeps, BeginKeeps DEF Start
<1>4. ASSUME NEW r \in Requests, Write(r) PROVE RInv'
  <2>1. ASSUME NEW status, Rollback(r, status) PROVE RInv'
    BY <1>1, <2>1, ToReply DEF Rollback, Finish, locals
  <2>2. CASE AlreadyExists(r) \/ NotFound(r) \/ InvalidSecret(r)
    BY <2>1, <2>2 DEF AlreadyExists, NotFound, InvalidSecret
  <2>3. CASE RejectItem(r) \/ TooMuchData(r) \/ FailCommit(r)
    BY <2>1, <2>3 DEF RejectItem, TooMuchData, FailCommit
  <2>4. CASE PutNew(r) \/ Remove(r)
    BY <1>1, <2>4, DecideKeeps
  <2>5. CASE SetPassword(r)
    BY <1>1, <2>5, SetPasswordKeeps
  <2>6. CASE BeginMerge(r) \/ MergeItem(r) \/ EndMerge(r)
    BY <1>1, <2>6, BeginMergeKeeps, MergeItemKeeps, EndMergeKeeps
  <2>7. CASE Commit(r)
    BY <1>1, <2>7, CommitKeeps
  <2>. QED
    BY <1>4, <2>2, <2>3, <2>4, <2>5, <2>6, <2>7 DEF Write
<1>5. ASSUME NEW r \in Requests, Read(r) PROVE RInv'
  BY <1>1, <1>5, ToReply DEF Read, List, Lookup, View, Finish, locals
<1>6. ASSUME UNCHANGED <<db, issued, pc, call, share, merged, next>> PROVE RInv'
  <2>1. \A q \in Requests : RequestInv(q)' /\ (Creating(q)' <=> Creating(q))
    BY <1>6, RequestKept DEF RInv
  <2>. QED
    BY <1>1, <1>6, <2>1 DEF RInv, SecretsInv, Stored
<1>7. CASE Crash
  <2>1. \A q \in Requests : RequestInv(q)' /\ ~Creating(q)'
    BY <1>7 DEF Crash, RequestInv, Creating, InTransaction
  <2>. QED
    BY <1>1, <1>7, <2>1 DEF Crash, RInv, SecretsInv, Stored
<1>8. CASE Tick
  BY <1>6, <1>8 DEF Tick, locals
<1>9. CASE UNCHANGED vars
  BY <1>6, <1>9 DEF vars
<1>. QED
  BY <1>2, <1>3, <1>4, <1>5, <1>7, <1>8, <1>9 DEF Next

LEMMA RefinementInvariance == Spec => []RInv
BY InitRInv, NextRInv, PTL DEF Spec

-----------------------------------------------------------------------------
(* The steps that answer a call take effect as ShareAPI says.              *)

Effect(d, answer) == [db |-> d, reply |-> answer]

(* The outcomes of a write, operation by operation.                        *)
LEMMA WriteOutcomesOf ==
  ASSUME NEW c \in WriteCall, NEW d
  PROVE  /\ API!Outcomes(d, c) = API!WriteOutcomes(d, c)
         /\ Effect(d, Failure("internal")) \in API!Outcomes(d, c)
         /\ c.op = "Create" => API!CreateOutcomes(d, c) \subseteq API!Outcomes(d, c)
         /\ c.op = "Sync" => API!SyncOutcomes(d, c) \subseteq API!Outcomes(d, c)
         /\ c.op = "SetPassword" => API!SetPasswordOutcomes(d, c) \subseteq API!Outcomes(d, c)
         /\ c.op = "Remove" => API!RemoveOutcomes(d, c) \subseteq API!Outcomes(d, c)
<1>1. API!Outcomes(d, c) = API!WriteOutcomes(d, c)
  BY SameCalls DEF API!Outcomes
<1>2. API!Failure("internal") = Failure("internal")
  BY SameOperators
<1>. QED
  BY <1>1, <1>2 DEF API!WriteOutcomes, API!Outcome, Effect

(* A goroutine's step that answers its call with one of the outcomes.      *)
LEMMA EffectStep ==
  ASSUME IInv, NEW r \in Requests, NEW answer,
         pc[r] \notin {"idle", "reply"},
         Finish(r, answer), UNCHANGED <<clock, call>>,
         Effect(db', answer) \in API!Outcomes(db, call[r])
  PROVE  API!TakeEffect(r)
<1> DEFINE phase == [q \in Requests |-> Phase(pc[q])]
<1>1. Phase(pc[r]) = "called" /\ Phase("reply") = "answered"
  BY DEF Phase
<1>2. [q \in Requests |-> Phase(pc[q])]' = [phase EXCEPT ![r] = "answered"]
  <2>1. \A q \in Requests : pc'[q] = IF q = r THEN "reply" ELSE pc[q]
    BY DEF IInv, TypeOK, Finish, Goto
  <2>. QED
    BY <1>1, <2>1
<1>3. phase[r] = "called"
  BY <1>1
<1>4. \E o \in API!Outcomes(db, call[r]) : db' = o.db /\ reply' = [reply EXCEPT ![r] = o.reply]
  <2>1. reply' = [reply EXCEPT ![r] = answer]
    BY DEF Finish
  <2>2. Effect(db', answer).db = db' /\ Effect(db', answer).reply = answer
    BY DEF Effect
  <2>. QED
    BY <2>1, <2>2
<1>. QED
  BY <1>2, <1>3, <1>4 DEF API!TakeEffect

LEMMA RefuseEffect ==
  ASSUME RInv, NEW r \in Requests, Refuse(r)
  PROVE  API!TakeEffect(r)
<1> DEFINE c == call[r]
           no == Failure("invalid_input")
<1>1. /\ pc[r] = "called" /\ Finish(r, no) /\ UNCHANGED <<clock, call>> /\ db' = db
      /\ RefusedEarly(c)
  BY DEF Refuse
<1>2. c \in Call
  BY <1>1 DEF RInv, IInv, TypeOK
<1>3. c.op \in {"Create", "SetPassword", "Sync"}
  BY <1>1 DEF RefusedEarly
<1>4. c \in WriteCall
  BY <1>2, <1>3, CallFields
<1>5. API!Failure("invalid_input") = no
  BY SameOperators
<1> HIDE DEF c, no
<1>6. Effect(db, no) \in API!Outcomes(db, c)
  <2>1. CASE c.op = "Create"
    <3>1. c.id \notin ValidIDs
      BY <1>1, <2>1 DEF RefusedEarly, ValidSessionID
    <3>2. Effect(db, no) \in API!CreateOutcomes(db, c)
      BY <1>5, <3>1 DEF API!CreateOutcomes, API!Outcome, Effect
    <3>. QED
      BY <1>4, <2>1, <3>2, WriteOutcomesOf
  <2>2. CASE c.op = "SetPassword"
    <3>1. c.password \in LongPasswords
      BY <1>1, <2>2 DEF RefusedEarly
    <3>2. Effect(db, no) \in API!SetPasswordOutcomes(db, c)
      BY <1>5, <3>1 DEF API!SetPasswordOutcomes, API!Outcome, Effect
    <3>. QED
      BY <1>4, <2>2, <3>2, WriteOutcomesOf
  <2>3. CASE c.op = "Sync"
    <3>1. Len(c.items) > MaxSyncItems
      BY <1>1, <2>3 DEF RefusedEarly
    <3>2. Effect(db, no) \in API!SyncOutcomes(db, c)
      BY <1>5, <3>1 DEF API!SyncOutcomes, API!Outcome, Effect
    <3>. QED
      BY <1>4, <2>3, <3>2, WriteOutcomesOf
  <2>. QED
    BY <1>3, <2>1, <2>2, <2>3
<1>7. Effect(db', no) \in API!Outcomes(db, call[r])
  BY <1>1, <1>6 DEF c
<1>. QED
  BY <1>1, <1>7, EffectStep DEF RInv

(* A transaction that answers an error it may answer.                      *)
LEMMA RollbackEffect ==
  ASSUME RInv, NEW r \in Requests, InTransaction(r), NEW status, Rollback(r, status),
         Effect(db, Failure(status)) \in API!Outcomes(db, call[r])
  PROVE  API!TakeEffect(r)
<1>1. /\ Finish(r, Failure(status)) /\ UNCHANGED <<clock, call>> /\ db' = db
  BY DEF Rollback
<1>2. pc[r] \notin {"idle", "reply"}
  BY DEF InTransaction
<1>3. Effect(db', Failure(status)) \in API!Outcomes(db, call[r])
  BY <1>1
<1>. QED
  BY <1>1, <1>2, <1>3, EffectStep DEF RInv

LEMMA WorkFacts ==
  ASSUME RInv, NEW r \in Requests, InTransaction(r)
  PROVE  /\ call[r] \in WriteCall /\ call[r] \in Call /\ call[r].id \in IDs
         /\ call[r].op \in {"Create", "Sync", "SetPassword", "Remove"}
         /\ call[r].op = "Create" => call[r].id \in ValidIDs
         /\ call[r].op = "Sync" => ~(Len(call[r].items) > MaxSyncItems)
         /\ call[r].op = "SetPassword" => call[r].password \notin LongPasswords
<1>1. call[r] \in WriteCall
  BY DEF RInv, IInv, StepInv
<1>2. call[r] \in Call
  BY <1>1 DEF Call
<1>3. ~RefusedEarly(call[r])
  BY DEF RInv, RequestInv
<1>. QED
  BY <1>1, <1>2, <1>3, CallFields DEF RefusedEarly, ValidSessionID

LEMMA AlreadyExistsEffect ==
  ASSUME RInv, NEW r \in Requests, AlreadyExists(r)
  PROVE  API!TakeEffect(r)
<1> DEFINE no == Failure("already_exists")
<1>1. /\ InTransaction(r) /\ Rollback(r, "already_exists") /\ call[r].op = "Create"
      /\ db[call[r].id] # NoShare
  BY DEF AlreadyExists, Working, InTransaction
<1>2. API!Failure("already_exists") = no
  BY SameOperators
<1>3. call[r].id \in ValidIDs /\ call[r] \in WriteCall
  BY <1>1, WorkFacts
<1> HIDE DEF no
<1>4. Effect(db, no) \in API!CreateOutcomes(db, call[r])
  BY <1>1, <1>2, <1>3 DEF API!CreateOutcomes, API!Outcome, Effect
<1>5. Effect(db, no) \in API!Outcomes(db, call[r])
  BY <1>1, <1>3, <1>4, WriteOutcomesOf
<1>. QED
  BY <1>1, <1>5, RollbackEffect DEF no

LEMMA NotFoundEffect ==
  ASSUME RInv, NEW r \in Requests, NotFound(r)
  PROVE  API!TakeEffect(r)
<1> DEFINE no == Failure("not_found")
<1>1. /\ InTransaction(r) /\ Rollback(r, "not_found") /\ call[r].op # "Create"
      /\ db[call[r].id] = NoShare
  BY DEF NotFound, InTransaction
<1>2. API!Failure("not_found") = no
  BY SameOperators
<1>3. /\ call[r] \in WriteCall /\ call[r].op \in {"Sync", "SetPassword", "Remove"}
      /\ call[r].op = "Sync" => ~(Len(call[r].items) > MaxSyncItems)
      /\ call[r].op = "SetPassword" => call[r].password \notin LongPasswords
  BY <1>1, WorkFacts
<1> HIDE DEF no
<1>4. /\ call[r].op = "Sync" => Effect(db, no) \in API!SyncOutcomes(db, call[r])
      /\ call[r].op = "SetPassword" => Effect(db, no) \in API!SetPasswordOutcomes(db, call[r])
      /\ call[r].op = "Remove" => Effect(db, no) \in API!RemoveOutcomes(db, call[r])
  BY <1>1, <1>2, <1>3
     DEF API!SyncOutcomes, API!SetPasswordOutcomes, API!RemoveOutcomes, API!Outcome, Effect
<1>5. Effect(db, no) \in API!Outcomes(db, call[r])
  BY <1>3, <1>4, WriteOutcomesOf
<1>. QED
  BY <1>1, <1>5, RollbackEffect DEF no

LEMMA InvalidSecretEffect ==
  ASSUME RInv, NEW r \in Requests, InvalidSecret(r)
  PROVE  API!TakeEffect(r)
<1> DEFINE no == Failure("invalid_secret")
<1>1. /\ InTransaction(r) /\ Rollback(r, "invalid_secret")
      /\ call[r].op \in {"Sync", "Remove"}
      /\ db[call[r].id] # NoShare /\ db[call[r].id].secret # call[r].secret
  BY DEF InvalidSecret, Found, Working, InTransaction
<1>2. API!Failure("invalid_secret") = no
  BY SameOperators
<1>3. /\ call[r] \in WriteCall
      /\ call[r].op = "Sync" => ~(Len(call[r].items) > MaxSyncItems)
  BY <1>1, WorkFacts
<1> HIDE DEF no
<1>4. /\ call[r].op = "Sync" => Effect(db, no) \in API!SyncOutcomes(db, call[r])
      /\ call[r].op = "Remove" => Effect(db, no) \in API!RemoveOutcomes(db, call[r])
  BY <1>1, <1>2, <1>3 DEF API!SyncOutcomes, API!RemoveOutcomes, API!Outcome, Effect
<1>5. Effect(db, no) \in API!Outcomes(db, call[r])
  BY <1>1, <1>3, <1>4, WriteOutcomesOf
<1>. QED
  BY <1>1, <1>5, RollbackEffect DEF no

(* Sync refuses a batch for one of its events, or for what it adds up to.  *)
LEMMA BatchEffect ==
  ASSUME RInv, NEW r \in Requests, RejectItem(r) \/ TooMuchData(r)
  PROVE  API!TakeEffect(r)
<1> DEFINE no == Failure("invalid_input")
           items == Incoming(r)
           old == StoredData(r)
<1>1. InTransaction(r) /\ pc[r] = "merge" /\ Rollback(r, "invalid_input")
  BY DEF RejectItem, TooMuchData, InTransaction
<1>2. /\ call[r] \in WriteCall /\ call[r].op = "Sync" /\ items \in Seq(Item)
      /\ next[r] \in Nat \ {0} /\ ~(Len(call[r].items) > MaxSyncItems)
      /\ db[call[r].id] # NoShare /\ db[call[r].id].secret = call[r].secret
  BY <1>1, MergeFacts, WorkFacts, CallFields
<1>3. ~API!Acceptable(old, items)
  <2>1. CASE RejectItem(r)
    <3>1. next[r] \in DOMAIN items /\ ~IsItemAccepted(items[next[r]])
      BY <1>2, <2>1 DEF RejectItem
    <3>. QED
      BY <3>1 DEF API!Acceptable, IsItemAccepted
  <2>2. CASE TooMuchData(r)
    <3>1. merged[r] = API!Merged(old, items) /\ DataSize(merged[r]) > MaxShareDataBytes
      BY <1>1, <2>2, AllDone DEF TooMuchData
    <3>2. API!DataSize(API!Merged(old, items)) > MaxShareDataBytes
      BY <3>1, SameOperators
    <3>. QED
      BY <3>2 DEF API!Acceptable
  <2>. QED
    BY <2>1, <2>2
<1>4. API!Failure("invalid_input") = no
  BY SameOperators
<1>5. ~API!Acceptable(db[call[r].id].data, call[r].items)
  BY <1>3 DEF StoredData, Incoming
<1> HIDE DEF no
<1>6. Effect(db, no) \in API!SyncOutcomes(db, call[r])
  BY <1>2, <1>4, <1>5 DEF API!SyncOutcomes, API!Outcome, Effect
<1>7. Effect(db, no) \in API!Outcomes(db, call[r])
  BY <1>2, <1>6, WriteOutcomesOf
<1>. QED
  BY <1>1, <1>7, RollbackEffect DEF no

LEMMA FailCommitEffect ==
  ASSUME RInv, NEW r \in Requests, FailCommit(r)
  PROVE  API!TakeEffect(r)
<1>1. InTransaction(r) /\ Rollback(r, "internal")
  BY DEF FailCommit, InTransaction
<1>2. call[r] \in WriteCall
  BY <1>1, WorkFacts
<1>3. Effect(db, Failure("internal")) \in API!Outcomes(db, call[r])
  BY <1>2, WriteOutcomesOf
<1>. QED
  BY <1>1, <1>3, RollbackEffect

-----------------------------------------------------------------------------
(* The commit.                                                             *)

LEMMA SameShare ==
  ASSUME NEW s \in Share, NEW t \in Share,
         s.secret = t.secret, s.data = t.data, s.password = t.password,
         s.createdAt = t.createdAt, s.updatedAt = t.updatedAt
  PROVE  s = t
BY DEF Share

LEMMA CreateCommit ==
  ASSUME RInv, NEW r \in Requests, pc[r] = "commit", call[r].op = "Create"
  PROVE  Effect([db EXCEPT ![call[r].id] = Committed(r)], Success(r))
           \in API!CreateOutcomes(db, call[r])
<1> DEFINE c == call[r]
           s == share[r]
<1>1. /\ InTransaction(r) /\ Creating(r) /\ db[c.id] = NoShare
      /\ Success(r) = Answer("ok", s.secret)
  BY DEF InTransaction, Creating, RInv, IInv, CommitIsCurrent, AgreesWith, Success
<1>2. c.id \in ValidIDs
  BY <1>1, WorkFacts
<1>3. /\ s.password = NoPassword /\ s.createdAt = s.updatedAt
      /\ \A id \in Stored(db) : db[id].secret # s.secret
  BY <1>1 DEF RInv, RequestInv, SecretsInv
<1>4. WellFormed(s) /\ s.data = <<>>
  BY <1>1 DEF RInv, IInv, CreateInv
<1>5. s \in Share /\ s.updatedAt <= clock /\ s.updatedAt \in Nat /\ clock \in Nat
      /\ s.secret \in Secrets
  BY <1>4, ShareFields, ClockAssumption DEF WellFormed, RInv, IInv, TypeOK
<1>6. Committed(r) = Encode(s)
  BY DEF Committed
<1>7. Encode(s) = s
  <2>1. IsEncoded(s.data)
    BY <1>4 DEF IsEncoded
  <2>. QED
    BY <1>5, <2>1, EncodeFacts, SameShare
<1> DEFINE n == s.updatedAt
           new == [secret |-> s.secret, data |-> <<>>, password |-> NoPassword,
                   createdAt |-> n, updatedAt |-> n]
<1>8. s = new
  BY <1>3, <1>4, <1>5 DEF Share
<1>9. s.secret \notin API!LiveSecrets(db)
  BY <1>3, SameOperators DEF API!LiveSecrets
<1>10. n \in 0..clock
  BY <1>5
<1>11. API!Answer("ok", s.secret) = Answer("ok", s.secret)
  BY SameOperators
<1> HIDE DEF c, s, n
<1>12. Effect([db EXCEPT ![c.id] = new], Answer("ok", s.secret)) \in API!CreateOutcomes(db, c)
  BY <1>1, <1>2, <1>5, <1>9, <1>10, <1>11 DEF API!CreateOutcomes, API!Outcome, Effect
<1>13. Committed(r) = new
  BY <1>6, <1>7, <1>8
<1>. QED
  BY <1>1, <1>12, <1>13 DEF c

(* What an update commits was made of the share it replaces.               *)
LEMMA UpdateFacts ==
  ASSUME RInv, NEW r \in Requests, pc[r] = "commit", call[r].op \in {"Sync", "SetPassword"}
  PROVE  /\ db[call[r].id] # NoShare /\ db[call[r].id] \in Share /\ share[r] \in Share
         /\ Committed(r) = Encode(share[r]) /\ Success(r) = Failure("ok")
         /\ share[r].updatedAt \in db[call[r].id].updatedAt..clock
<1> DEFINE now == db[call[r].id]
           s == share[r]
<1>1. now # NoShare /\ now \in Share
  <2>1. AgreesWith(call[r], s, now)
    BY DEF RInv, IInv, CommitIsCurrent
  <2>2. call[r].id \in IDs
    BY WorkFacts DEF InTransaction
  <2>. QED
    BY <2>1, <2>2 DEF AgreesWith, RInv, IInv, TypeOK
<1>2. WellFormed(s) /\ s.updatedAt >= now.updatedAt
  BY DEF RInv, IInv, CommitInv
<1>3. s \in Share /\ s.updatedAt <= clock /\ clock \in Nat
  BY <1>2, ClockAssumption DEF WellFormed, RInv, IInv, TypeOK
<1>4. s.updatedAt \in Nat /\ now.updatedAt \in Nat
  BY <1>1, <1>3, ShareFields
<1>5. Committed(r) = Encode(s) /\ Success(r) = Failure("ok")
  BY DEF Committed, Success
<1> HIDE DEF now, s
<1>6. s.updatedAt \in now.updatedAt..clock
  BY <1>2, <1>3, <1>4
<1>. QED
  BY <1>1, <1>3, <1>5, <1>6 DEF now, s

LEMMA InUpdated ==
  ASSUME NEW d, NEW id, NEW s, NEW t \in d[id].updatedAt..clock
  PROVE  Effect([d EXCEPT ![id] = Encode([s EXCEPT !.updatedAt = t])], Failure("ok"))
           \in API!Updated(d, id, s)
<1> DEFINE E(u) == Encode([s EXCEPT !.updatedAt = u])
           F(u) == API!Encode([s EXCEPT !.updatedAt = u])
<1>1. API!Failure("ok") = Failure("ok") /\ \A u : F(u) = E(u)
  BY SameOperators
<1>2. API!Updated(d, id, s) =
        {Effect([d EXCEPT ![id] = F(u)], API!Failure("ok")) : u \in d[id].updatedAt..clock}
  BY DEF API!Updated, API!Outcome, Effect
<1> HIDE DEF E, F
<1>3. Effect([d EXCEPT ![id] = E(t)], Failure("ok")) \in API!Updated(d, id, s)
  BY <1>1, <1>2
<1>. QED
  BY <1>3 DEF E

LEMMA SyncCommit ==
  ASSUME RInv, NEW r \in Requests, pc[r] = "commit", call[r].op = "Sync"
  PROVE  Effect([db EXCEPT ![call[r].id] = Committed(r)], Success(r))
           \in API!SyncOutcomes(db, call[r])
<1> DEFINE c == call[r]
           now == db[c.id]
           s == share[r]
           data == API!Merged(now.data, c.items)
           t == s.updatedAt
           a == [now EXCEPT !.data = data]
<1>1. /\ now # NoShare /\ now \in Share /\ s \in Share
      /\ Committed(r) = Encode(s) /\ Success(r) = Failure("ok")
      /\ t \in now.updatedAt..clock
  BY UpdateFacts
<1>2. AgreesWith(c, s, now)
  BY DEF RInv, IInv, CommitIsCurrent
<1>3. API!Acceptable(now.data, c.items) /\ s.data = data
  BY DEF RInv, RequestInv, StoredData, Incoming
<1>4. ~(Len(c.items) > MaxSyncItems)
  BY WorkFacts DEF InTransaction
<1>5. c.secret = now.secret /\ s = [now EXCEPT !.data = s.data, !.updatedAt = s.updatedAt]
  BY <1>2 DEF AgreesWith
<1> HIDE DEF c, now, s, data
<1>6. [a EXCEPT !.updatedAt = t] = s
  <2>1. /\ a \in Share /\ a.secret = now.secret /\ a.data = data
        /\ a.password = now.password /\ a.createdAt = now.createdAt
    BY <1>1, <1>3 DEF Share
  <2>2. /\ s.secret = now.secret /\ s.password = now.password /\ s.createdAt = now.createdAt
        /\ t \in Nat
    BY <1>1, <1>5 DEF Share
  <2> HIDE DEF a, t
  <2>3. /\ [a EXCEPT !.updatedAt = t] \in Share
        /\ [a EXCEPT !.updatedAt = t].secret = a.secret
        /\ [a EXCEPT !.updatedAt = t].data = a.data
        /\ [a EXCEPT !.updatedAt = t].password = a.password
        /\ [a EXCEPT !.updatedAt = t].createdAt = a.createdAt
        /\ [a EXCEPT !.updatedAt = t].updatedAt = t
    BY <2>1, <2>2 DEF Share
  <2>. QED
    BY <1>1, <1>3, <2>1, <2>2, <2>3, SameShare DEF t
<1>7. API!SyncOutcomes(db, c) = API!Updated(db, c.id, a)
  BY <1>1, <1>3, <1>4, <1>5 DEF API!SyncOutcomes, now, data
<1> HIDE DEF a, t
<1>8. Effect([db EXCEPT ![c.id] = Encode([a EXCEPT !.updatedAt = t])], Failure("ok"))
        \in API!Updated(db, c.id, a)
  BY <1>1, InUpdated DEF now
<1>. QED
  BY <1>1, <1>6, <1>7, <1>8 DEF c

LEMMA SetPasswordCommit ==
  ASSUME RInv, NEW r \in Requests, pc[r] = "commit", call[r].op = "SetPassword"
  PROVE  Effect([db EXCEPT ![call[r].id] = Committed(r)], Success(r))
           \in API!SetPasswordOutcomes(db, call[r])
<1> DEFINE c == call[r]
           now == db[c.id]
           s == share[r]
           t == s.updatedAt
           a == [now EXCEPT !.password = c.password]
<1>1. /\ now # NoShare /\ now \in Share /\ s \in Share
      /\ Committed(r) = Encode(s) /\ Success(r) = Failure("ok")
      /\ t \in now.updatedAt..clock
  BY UpdateFacts
<1>2. AgreesWith(c, s, now)
  BY DEF RInv, IInv, CommitIsCurrent
<1>3. c.password \notin LongPasswords /\ c.password \in Passwords
  BY WorkFacts, CallFields DEF InTransaction
<1>4. s = [now EXCEPT !.password = c.password, !.updatedAt = s.updatedAt]
  BY <1>2 DEF AgreesWith
<1> HIDE DEF c, now, s
<1>5. [a EXCEPT !.updatedAt = t] = s
  <2>1. /\ a \in Share /\ a.secret = now.secret /\ a.data = now.data
        /\ a.password = c.password /\ a.createdAt = now.createdAt
    BY <1>1, <1>3 DEF Share
  <2>2. /\ s.secret = now.secret /\ s.password = c.password /\ s.createdAt = now.createdAt
        /\ s.data = now.data /\ t \in Nat
    BY <1>1, <1>4 DEF Share
  <2> HIDE DEF a, t
  <2>3. /\ [a EXCEPT !.updatedAt = t] \in Share
        /\ [a EXCEPT !.updatedAt = t].secret = a.secret
        /\ [a EXCEPT !.updatedAt = t].data = a.data
        /\ [a EXCEPT !.updatedAt = t].password = a.password
        /\ [a EXCEPT !.updatedAt = t].createdAt = a.createdAt
        /\ [a EXCEPT !.updatedAt = t].updatedAt = t
    BY <2>1, <2>2 DEF Share
  <2>. QED
    BY <1>1, <2>1, <2>2, <2>3, SameShare DEF t
<1>6. API!SetPasswordOutcomes(db, c) = API!Updated(db, c.id, a)
  BY <1>1, <1>3 DEF API!SetPasswordOutcomes, now
<1> HIDE DEF a, t
<1>7. Effect([db EXCEPT ![c.id] = Encode([a EXCEPT !.updatedAt = t])], Failure("ok"))
        \in API!Updated(db, c.id, a)
  BY <1>1, InUpdated DEF now
<1>. QED
  BY <1>1, <1>5, <1>6, <1>7 DEF c

LEMMA RemoveCommit ==
  ASSUME RInv, NEW r \in Requests, pc[r] = "commit", call[r].op = "Remove"
  PROVE  Effect([db EXCEPT ![call[r].id] = Committed(r)], Success(r))
           \in API!RemoveOutcomes(db, call[r])
<1>1. AgreesWith(call[r], share[r], db[call[r].id])
  BY DEF RInv, IInv, CommitIsCurrent
<1>2. db[call[r].id] # NoShare /\ db[call[r].id].secret = call[r].secret
  BY <1>1 DEF AgreesWith
<1>3. Committed(r) = NoShare /\ Success(r) = Failure("ok") /\ API!Failure("ok") = Failure("ok")
  BY SameOperators DEF Committed, Success
<1>. QED
  BY <1>2, <1>3 DEF API!RemoveOutcomes, API!Outcome, Effect

LEMMA CommitEffects ==
  ASSUME RInv, NEW r \in Requests, Commit(r)
  PROVE  API!TakeEffect(r)
<1>1. /\ pc[r] = "commit" /\ InTransaction(r) /\ Finish(r, Success(r))
      /\ db' = [db EXCEPT ![call[r].id] = Committed(r)] /\ UNCHANGED <<clock, call>>
  BY DEF Commit, InTransaction
<1>2. /\ call[r] \in WriteCall
      /\ call[r].op \in {"Create", "Sync", "SetPassword", "Remove"}
  BY <1>1, WorkFacts
<1>3. Effect([db EXCEPT ![call[r].id] = Committed(r)], Success(r)) \in API!Outcomes(db, call[r])
  BY <1>1, <1>2, CreateCommit, SyncCommit, SetPasswordCommit, RemoveCommit, WriteOutcomesOf
<1>4. Effect(db', Success(r)) \in API!Outcomes(db, call[r])
  BY <1>1, <1>3
<1>. QED
  BY <1>1, <1>4, EffectStep DEF RInv

-----------------------------------------------------------------------------
(* The reads.                                                              *)

LEMMA ReadOutcomesOf ==
  ASSUME NEW c, NEW d, c.op \in {"List", "Get", "Data", "CheckViewPassword", "DataWithPassword"},
         c \in Call
  PROVE  API!Outcomes(d, c) = API!ReadOutcomes(d, c)
<1>1. c \notin WriteCall
  BY CallFields
<1>. QED
  BY <1>1, SameCalls DEF API!Outcomes

(* A listing of n shares that names each of n ids names each once.         *)
LEMMA ListingNamesOnce ==
  ASSUME IsFiniteSet(Stored(db)),
         NEW listing \in [1..Cardinality(Stored(db)) -> {Summary(db, id) : id \in Stored(db)}],
         IsListing(listing)
  PROVE  listing \in API!Listings(db)
<1> DEFINE ids == Stored(db)
           n == Cardinality(ids)
           f == [i \in 1..n |-> listing[i].id]
<1>1. n \in Nat
  BY FS_CardinalityType
<1>2. \A i \in 1..n : listing[i].id \in ids /\ listing[i] = Summary(db, listing[i].id)
  BY DEF Summary
<1>3. {listing[i].id : i \in 1..n} = ids
  BY DEF IsListing
<1>4. \A i, j \in 1..n : i < j => listing[i].updatedAt >= listing[j].updatedAt
  BY DEF IsListing
<1>5. \A i \in 1..n : listing[i].updatedAt = db[listing[i].id].updatedAt
  BY <1>2 DEF Summary
<1> HIDE DEF ids, n
<1>6. f \in [1..n -> ids] /\ \A s \in ids : \E i \in 1..n : f[i] = s
  BY <1>2, <1>3
<1>7. f \in Surjection(1..n, ids)
  BY <1>6 DEF Surjection
<1>8. IsFiniteSet(1..n) /\ Cardinality(1..n) = n
  BY <1>1, FS_Interval
<1>9. f \in Injection(1..n, ids)
  BY <1>7, <1>8, FS_SurjSameCardinalityImpliesInj DEF n
<1>10. \A i, j \in 1..n : f[i] = f[j] => i = j
  BY <1>9 DEF Injection, IsInjective
<1>11. \A i, j \in 1..n : i < j => f[i] # f[j] /\ db[f[i]].updatedAt >= db[f[j]].updatedAt
  BY <1>1, <1>4, <1>5, <1>10
<1>12. listing = [i \in 1..n |-> Summary(db, f[i])]
  BY <1>2 DEF n, ids
<1> HIDE DEF f
<1>13. listing \in {[i \in 1..n |-> Summary(db, g[i])] :
                      g \in {h \in [1..n -> ids] :
                               \A i, j \in 1..n :
                                  i < j => /\ h[i] # h[j]
                                           /\ db[h[i]].updatedAt >= db[h[j]].updatedAt}}
  BY <1>6, <1>11, <1>12
<1>14. API!Stored(db) = ids /\ API!Cardinality(ids) = n
       /\ \A id : API!Summary(db, id) = Summary(db, id)
  BY SameOperators DEF n, ids
<1>. QED
  BY <1>13, <1>14 DEF API!Listings

LEMMA ReadEffect ==
  ASSUME RInv, NEW r \in Requests, Read(r)
  PROVE  API!TakeEffect(r)
<1> DEFINE c == call[r]
           s == db[c.id]
<1>1. pc[r] = "called" /\ UNCHANGED <<clock, call>> /\ db' = db
  BY DEF Read, List, Lookup, View
<1>2. c \in Call
  BY <1>1 DEF RInv, IInv, TypeOK
<1>3. ASSUME NEW answer, Finish(r, answer), Effect(db, answer) \in API!Outcomes(db, c)
      PROVE  API!TakeEffect(r)
  <2>1. Effect(db', answer) \in API!Outcomes(db, call[r])
    BY <1>1, <1>3
  <2>. QED
    BY <1>1, <1>3, <2>1, EffectStep DEF RInv
<1>4. /\ \A status : API!Failure(status) = Failure(status)
      /\ \A status, body : API!Answer(status, body) = Answer(status, body)
  BY SameOperators
<1>5. CASE List(r)
  <2>1. PICK listing \in [1..Cardinality(Stored(db)) -> {Summary(db, id) : id \in Stored(db)}] :
          IsListing(listing) /\ Finish(r, Answer("ok", listing))
    BY <1>5 DEF List
  <2>2. c.op = "List"
    BY <1>5 DEF List
  <2>3. listing \in API!Listings(db)
    BY <2>1, ListingNamesOnce DEF RInv
  <2> HIDE DEF c
  <2>4. Effect(db, Answer("ok", listing)) \in API!ReadOutcomes(db, c)
    BY <1>4, <2>2, <2>3 DEF API!ReadOutcomes, API!Outcome, Effect
  <2>. QED
    BY <1>2, <1>3, <2>1, <2>2, <2>4, ReadOutcomesOf
<1>6. CASE Lookup(r)
  <2>1. c.op \in {"Get", "Data"}
    BY <1>6 DEF Lookup
  <2>2. Finish(r, IF c.op = "Get" THEN GetAnswer(s) ELSE DataAnswer(s))
    BY <1>6 DEF Lookup
  <2> HIDE DEF c, s
  <2>3. CASE c.op = "Get"
    <3>1. Effect(db, GetAnswer(s)) \in API!ReadOutcomes(db, c)
      BY <1>4, <2>3 DEF API!ReadOutcomes, API!Outcome, Effect, GetAnswer, s
    <3>. QED
      BY <1>2, <1>3, <2>2, <2>3, <3>1, ReadOutcomesOf
  <2>4. CASE c.op = "Data"
    <3>1. Effect(db, DataAnswer(s)) \in API!ReadOutcomes(db, c)
      BY <1>4, <2>4 DEF API!ReadOutcomes, API!Outcome, Effect, DataAnswer, s
    <3>. QED
      BY <1>2, <1>3, <2>2, <2>4, <3>1, ReadOutcomesOf
  <2>. QED
    BY <2>1, <2>3, <2>4
<1>7. CASE View(r)
  <2> DEFINE body == IF s = NoShare \/ c.op = "CheckViewPassword" THEN NoBody ELSE s.data
             answer == ViewAnswer(s, c.password, body)
  <2>1. c.op \in {"CheckViewPassword", "DataWithPassword"}
    BY <1>7 DEF View
  <2>2. Finish(r, answer)
    BY <1>7 DEF View
  <2>3. CheckViewPassword(s, c.password) <=> API!MayView(s, c.password)
    BY DEF CheckViewPassword, API!MayView
  <2> HIDE DEF c, s
  <2>4. Effect(db, answer) \in API!ViewOutcomes(db, c, body)
    BY <1>4, <2>3 DEF API!ViewOutcomes, API!Outcome, Effect, ViewAnswer, s
  <2>5. API!ReadOutcomes(db, c) = API!ViewOutcomes(db, c, body)
    <3>1. CASE c.op = "CheckViewPassword"
      BY <3>1 DEF API!ReadOutcomes
    <3>2. CASE c.op = "DataWithPassword"
      BY <3>2 DEF API!ReadOutcomes, s
    <3>. QED
      BY <2>1, <3>1, <3>2
  <2> HIDE DEF answer
  <2>. QED
    BY <1>2, <1>3, <2>1, <2>2, <2>4, <2>5, ReadOutcomesOf
<1>. QED
  BY <1>5, <1>6, <1>7 DEF Read

-----------------------------------------------------------------------------
(* Every step is one of ShareAPI's, or none.                               *)

(* A step within a call.                                                   *)
LEMMA InternalStep ==
  ASSUME IInv, NEW r \in Requests, UNCHANGED <<db, clock, call, reply>>,
         NEW step \in Steps \ {"idle", "reply"}, pc[r] \notin {"idle", "reply"},
         Goto(r, step)
  PROVE  UNCHANGED API!vars
<1>1. Phase(step) = "called" /\ Phase(pc[r]) = "called"
  BY DEF Phase, Steps
<1>2. \A q \in Requests : pc'[q] = IF q = r THEN step ELSE pc[q]
  BY DEF IInv, TypeOK, Goto
<1>3. [q \in Requests |-> Phase(pc[q])]' = [q \in Requests |-> Phase(pc[q])]
  BY <1>1, <1>2
<1>. QED
  BY <1>3 DEF API!vars

LEMMA Simulation ==
  ASSUME RInv, [Next]_vars
  PROVE  [API!Next]_(API!vars)
<1> DEFINE phase == [q \in Requests |-> Phase(pc[q])]
<1>1. ASSUME NEW r \in Requests, Receive(r) PROVE API!Receive(r)
  <2>1. \A q \in Requests : pc'[q] = IF q = r THEN "called" ELSE pc[q]
    BY <1>1 DEF RInv, IInv, TypeOK, Receive, Goto
  <2>2. Phase("called") = "called" /\ Phase("idle") = "idle" /\ pc[r] = "idle"
    BY <1>1 DEF Phase, Receive
  <2>3. [q \in Requests |-> Phase(pc[q])]' = [phase EXCEPT ![r] = "called"]
    BY <2>1, <2>2
  <2>4. phase[r] = "idle"
    BY <2>2
  <2>. QED
    BY <1>1, <2>3, <2>4 DEF API!Receive, Receive
<1>2. ASSUME NEW r \in Requests, Respond(r) PROVE API!Respond(r)
  <2>1. \A q \in Requests : pc'[q] = IF q = r THEN "idle" ELSE pc[q]
    BY <1>2 DEF RInv, IInv, TypeOK, Respond, Goto
  <2>2. Phase("reply") = "answered" /\ Phase("idle") = "idle" /\ pc[r] = "reply"
    BY <1>2 DEF Phase, Respond
  <2>3. [q \in Requests |-> Phase(pc[q])]' = [phase EXCEPT ![r] = "idle"]
    BY <2>1, <2>2
  <2>4. phase[r] = "answered"
    BY <2>2
  <2>. QED
    BY <1>2, <2>3, <2>4 DEF API!Respond, Respond
<1>3. ASSUME NEW r \in Requests, Start(r) \/ Begin(r)
      PROVE  API!TakeEffect(r) \/ UNCHANGED API!vars
  <2>1. CASE Refuse(r)
    BY <2>1, RefuseEffect
  <2>2. CASE StartCreate(r) \/ StartUpdate(r)
    <3>1. /\ UNCHANGED <<db, clock, call, reply>> /\ pc[r] = "called"
          /\ Goto(r, "locking") /\ "locking" \in Steps \ {"idle", "reply"}
      BY <2>2 DEF StartCreate, StartUpdate, Steps, locals
    <3>. QED
      BY <3>1, InternalStep DEF RInv
  <2>3. CASE Begin(r)
    <3>1. /\ UNCHANGED <<db, clock, call, reply>> /\ pc[r] = "locking"
          /\ Goto(r, "update") /\ "update" \in Steps \ {"idle", "reply"}
      BY <2>3 DEF Begin, Steps, locals
    <3>. QED
      BY <3>1, InternalStep DEF RInv
  <2>. QED
    BY <1>3, <2>1, <2>2, <2>3 DEF Start
<1>4. ASSUME NEW r \in Requests, Write(r)
      PROVE  API!TakeEffect(r) \/ UNCHANGED API!vars
  <2>1. CASE PutNew(r) \/ SetPassword(r) \/ Remove(r) \/ EndMerge(r)
    <3>1. /\ UNCHANGED <<db, clock, call, reply>> /\ pc[r] \in {"update", "merge"}
          /\ Goto(r, "commit") /\ "commit" \in Steps \ {"idle", "reply"}
      BY <2>1 DEF PutNew, SetPassword, Remove, EndMerge, Found, Working, Steps, locals
    <3>. QED
      BY <3>1, InternalStep DEF RInv
  <2>2. CASE BeginMerge(r)
    <3>1. /\ UNCHANGED <<db, clock, call, reply>> /\ pc[r] = "update"
          /\ Goto(r, "merge") /\ "merge" \in Steps \ {"idle", "reply"}
      BY <2>2 DEF BeginMerge, Found, Working, Steps
    <3>. QED
      BY <3>1, InternalStep DEF RInv
  <2>3. CASE MergeItem(r)
    BY <2>3 DEF MergeItem, API!vars
  <2>4. CASE RejectItem(r) \/ TooMuchData(r)
    BY <2>4, BatchEffect
  <2>5. CASE AlreadyExists(r) \/ NotFound(r) \/ InvalidSecret(r)
    BY <2>5, AlreadyExistsEffect, NotFoundEffect, InvalidSecretEffect
  <2>6. CASE Commit(r) \/ FailCommit(r)
    BY <2>6, CommitEffects, FailCommitEffect
  <2>. QED
    BY <1>4, <2>1, <2>2, <2>3, <2>4, <2>5, <2>6 DEF Write
<1>5. CASE Tick
  <2>1. clock \in Nat /\ clock' \in Nat /\ clock' > clock
    BY <1>5, ClockAssumption DEF RInv, IInv, TypeOK, Tick
  <2>. QED
    BY <1>5, <2>1 DEF Tick, API!Tick, API!Next
<1>6. CASE Crash
  <2>1. \A q \in Requests : Phase(pc'[q]) = "idle"
    BY <1>6 DEF Crash, Phase
  <2>2. [q \in Requests |-> Phase(pc[q])]' = [q \in Requests |-> "idle"]
    BY <2>1
  <2>. QED
    BY <1>6, <2>2 DEF Crash, API!Crash, API!Next
<1>7. CASE UNCHANGED vars
  BY <1>7 DEF vars, API!vars
<1>. QED
  BY <1>1, <1>2, <1>3, <1>4, ReadEffect, <1>5, <1>6, <1>7 DEF Next, API!Next

(* Seen from outside, the service is ShareAPI: each call takes effect at   *)
(* one instant between its arrival and its answer, or not at all, on a map *)
(* that survives crashes (Create, Sync, SetPassword, Remove and the reads  *)
(* of service.go over store.go).                                           *)
THEOREM ServiceImplementsAPI == Spec => ImplementsAPI
<1>1. Init => API!Init
  <2> SUFFICES ASSUME Init PROVE API!Init
    OBVIOUS
  <2>1. \A q \in Requests : Phase(pc[q]) = "idle"
    BY DEF Init, Phase
  <2>. QED
    BY <2>1 DEF Init, API!Init
<1>2. RInv /\ [Next]_vars => [API!Next]_(API!vars)
  BY Simulation
<1>. QED
  BY <1>1, <1>2, RefinementInvariance, PTL DEF Spec, ImplementsAPI, API!Spec
=============================================================================
