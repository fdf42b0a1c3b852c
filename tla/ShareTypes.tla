----------------------------- MODULE ShareTypes -----------------------------
(***************************************************************************)
(* The values the share backend works on: JSON events, persisted shares,   *)
(* the calls the service receives and the answers it gives                 *)
(* (internal/share/service.go and store.go).                               *)
(***************************************************************************)
EXTENDS ShareMerge, FiniteSets

CONSTANTS
  IDs,             \* the :share_id values callers name
  ValidIDs,        \* the ones validateSessionID accepts
  Secrets,         \* the values uuid.NewString can return
  Passwords,       \* view passwords callers set or present
  NoPassword,      \* the empty password ""
  LongPasswords,   \* passwords longer than MaxItemBytes
  DefaultPassword, \* DEFAULT_SHARE_PASSWORD, NoPassword when it is unset
  Keys,            \* the non-empty "_key" strings of events
  Bodies,          \* the rest of an event
  NoShare,         \* "bucket.Get returned nil"
  NoBody,          \* an answer that carries no value
  MaxSyncItems, MaxItemBytes, MaxShareDataBytes

ASSUME IDAssumption == ValidIDs \subseteq IDs
ASSUME PasswordAssumption ==
  /\ NoPassword \in Passwords \ LongPasswords
  /\ DefaultPassword \in Passwords
  /\ LongPasswords \subseteq Passwords
ASSUME KeyAssumption == NoKey \notin Keys
ASSUME LimitAssumption ==
  MaxSyncItems \in Nat /\ MaxItemBytes \in Nat /\ MaxShareDataBytes \in Nat

(***************************************************************************)
(* One event, a json.RawMessage.  raw is its length as the code holds it;  *)
(* enc is its length once encoding/json has written it: Marshal compacts a *)
(* RawMessage and escapes the characters < > & (one byte becomes six), so  *)
(* enc may be below or above raw.                                          *)
(***************************************************************************)
Item == [key   : Keys \cup {NoKey},
         body  : Bodies,
         valid : BOOLEAN,
         raw   : Nat,
         enc   : Nat]

(* What json.Marshal and json.Unmarshal leave of an event: re-encoding an  *)
(* encoded event changes nothing more.                                     *)
EncodeItem(item) == [item EXCEPT !.raw = item.enc]

Share == [secret    : Secrets,
          data      : Seq(Item),
          password  : Passwords,
          createdAt : Nat,
          updatedAt : Nat]

(* The share a later transaction decodes from the bytes Put stored.        *)
Encode(share) ==
  [share EXCEPT !.data = [i \in 1..Len(share.data) |-> EncodeItem(share.data[i])]]

(* dataSize: the brackets, the commas and the events at their raw lengths. *)
DataSize(items) ==
  LET size[n \in 0..Len(items)] ==
        IF n = 0 THEN 2
        ELSE size[n - 1] + items[n].raw + (IF n > 1 THEN 1 ELSE 0)
  IN  size[Len(items)]

-----------------------------------------------------------------------------
(* Calls of share.Service.                                                 *)
CreateCall      == [op : {"Create"}, id : IDs]
SyncCall        == [op : {"Sync"}, id : IDs, secret : Secrets, items : Seq(Item)]
SetPasswordCall == [op : {"SetPassword"}, id : IDs, password : Passwords]
RemoveCall      == [op : {"Remove"}, id : IDs, secret : Secrets]
WriteCall       == CreateCall \cup SyncCall \cup SetPasswordCall \cup RemoveCall

LookupCall      == [op : {"Get", "Data"}, id : IDs]
PasswordCall    == [op : {"CheckViewPassword", "DataWithPassword"},
                    id : IDs, password : Passwords]
ListCall        == [op : {"List"}]
ReadCall        == LookupCall \cup PasswordCall \cup ListCall
Call            == WriteCall \cup ReadCall

(* The sentinels are none of the values they stand beside.                 *)
ASSUME SentinelAssumption == NoShare \notin Share /\ NoBody \notin Call

(* The error classes serviceError tells apart; "internal" is any other     *)
(* error, "found"/"missing" is Get's boolean.                              *)
Answer(status, body) == [status |-> status, body |-> body]
Failure(status)      == Answer(status, NoBody)

(* Summaries: one per stored share, latest update first; sort.Slice may    *)
(* leave equal times in any order.                                         *)
Stored(db) == {id \in IDs : db[id] # NoShare}

Summary(db, id) ==
  [id                  |-> id,
   items               |-> Len(db[id].data),
   hasPassword         |-> db[id].password # NoPassword \/ DefaultPassword # NoPassword,
   usesDefaultPassword |-> db[id].password = NoPassword /\ DefaultPassword # NoPassword,
   createdAt           |-> db[id].createdAt,
   updatedAt           |-> db[id].updatedAt]
=============================================================================
