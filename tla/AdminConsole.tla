---------------------------- MODULE AdminConsole ----------------------------
(***************************************************************************)
(* The administrator's page (AdminApp.svelte): a list of the shares, a     *)
(* password field per row, and asynchronous saves that may overlap.  Each  *)
(* save is a PUT followed by a reload of the whole list.  The backend is   *)
(* ShareAPI behind requireAdmin; owners change shares meanwhile.           *)
(***************************************************************************)
EXTENDS ShareTypes

CONSTANTS
  Tasks,       \* the page's asynchronous calls that may be out together
  Others,      \* request slots of owners
  OtherCalls,  \* the calls those make
  NoID,        \* the empty busyID
  StartDBs     \* what may be stored when the page is opened

ASSUME AdminAssumption ==
  /\ Tasks \cap Others = {} /\ NoID \notin IDs
  /\ StartDBs \subseteq [IDs -> Share \cup {NoShare}]
  /\ \A d \in StartDBs : IsFiniteSet(Stored(d))
  /\ OtherCalls \subseteq Call

VARIABLES
  db, clock, phase, call, reply,   \* the backend (ShareAPI)
  admitted,   \* requireAdmin lets this browser through (else 401 or 503)
  mounted,    \* onMount has run
  shares,     \* the rows shown
  passwords,  \* id -> the text in its row's password field
  status,     \* the status line
  busyID,     \* the row whose buttons are disabled
  task,       \* asynchronous call -> what it is doing
  since       \* history: what its row could show since its PUT took effect

backend == <<db, clock, phase, call, reply>>
screen == <<shares, passwords, status, busyID>>
vars == <<backend, admitted, mounted, screen, task, since>>

ListShares == [op |-> "List"]

AdminCalls ==
  {ListShares} \cup [op : {"SetPassword"}, id : IDs, password : Passwords]

API == INSTANCE ShareAPI
         WITH Requests <- Tasks \cup Others, Calls <- OtherCalls \cup AdminCalls

-----------------------------------------------------------------------------
Idle == [kind |-> "none", id |-> NoID, stage |-> "none"]

Task(kind, id, stage) == [kind |-> kind, id |-> id, stage |-> stage]

Displayed == {shares[i].id : i \in DOMAIN shares}

(* passwordText: public, default password or own password.                 *)
PasswordText(hasPassword, usesDefaultPassword) ==
  IF ~hasPassword THEN "public"
  ELSE IF usesDefaultPassword THEN "default" ELSE "own"

RowText(rows, id) ==
  {PasswordText(rows[i].hasPassword, rows[i].usesDefaultPassword) :
     i \in {j \in DOMAIN rows : rows[j].id = id}}

(* What the row of id shows if the list is read now: nothing if removed.   *)
CurrentText(d, id) ==
  IF d[id] = NoShare THEN {}
  ELSE {PasswordText(Summary(d, id).hasPassword, Summary(d, id).usesDefaultPassword)}

Init ==
  /\ db \in StartDBs /\ clock = 0
  /\ phase = [r \in Tasks \cup Others |-> "idle"]
  /\ call = [r \in Tasks \cup Others |-> NoBody]
  /\ reply = [r \in Tasks \cup Others |-> NoBody]
  /\ admitted \in BOOLEAN
  /\ mounted = FALSE
  /\ shares = <<>>
  /\ passwords = [id \in IDs |-> NoPassword]
  /\ status = "loading"
  /\ busyID = NoID
  /\ task = [t \in Tasks |-> Idle]
  /\ since = [t \in Tasks |-> {}]

(* fetch(): the request reaches the handler, or requireAdmin refuses it.   *)
Fetch(t, c, running, refused) ==
  IF admitted
  THEN API!Receive(t) /\ call'[t] = c /\ task' = [task EXCEPT ![t] = running]
  ELSE phase[t] = "idle" /\ task' = [task EXCEPT ![t] = refused] /\ UNCHANGED backend

FetchList(t, kind, id) ==
  Fetch(t, ListShares, Task(kind, id, "list"), Task(kind, id, "refused list"))

(* onMount                                                                 *)
Mount(t) ==
  /\ ~mounted
  /\ mounted' = TRUE
  /\ FetchList(t, "load", NoID)
  /\ UNCHANGED <<admitted, screen, since>>

(* Typing into a row's field.                                              *)
Type(id) ==
  /\ id \in Displayed
  /\ \E text \in Passwords : passwords' = [passwords EXCEPT ![id] = text]
  /\ UNCHANGED <<backend, admitted, mounted, shares, status, busyID, task, since>>

(* setPassword: only the row in busyID has its buttons disabled.           *)
SetPassword(t, id, password) ==
  /\ id \in Displayed
  /\ busyID # id
  /\ task[t] = Idle
  /\ busyID' = id
  /\ Fetch(t, [op |-> "SetPassword", id |-> id, password |-> password],
           Task("save", id, "put"), Task("save", id, "refused put"))
  /\ UNCHANGED <<admitted, mounted, shares, passwords, status, since>>

SavePassword(t, id) == SetPassword(t, id, passwords[id])

ClearPassword(t, id) == SetPassword(t, id, NoPassword)

(* Broken variant: the finally block is missing.                           *)
FailLeavingBusy(t, message) ==
  /\ status' = message
  /\ task' = [task EXCEPT ![t] = Idle]
  /\ since' = [since EXCEPT ![t] = {}]
  /\ UNCHANGED <<admitted, mounted, shares, passwords, busyID>>

(* The promise rejects: catch shows the message, a save's finally block    *)
(* enables every row again.                                                *)
Fail(t, message) ==
  /\ status' = message
  /\ task' = [task EXCEPT ![t] = Idle]
  /\ busyID' = IF task[t].kind = "save" THEN NoID ELSE busyID
  /\ since' = [since EXCEPT ![t] = {}]
  /\ UNCHANGED <<admitted, mounted, shares, passwords>>

Refused(t) ==
  /\ \/ task[t].stage = "refused put" /\ Fail(t, "set_failed")
     \/ task[t].stage = "refused list" /\ Fail(t, "load_failed")
  /\ UNCHANGED backend

(* Broken variant: response.ok is not looked at.                           *)
PutAnsweredUnchecked(t) ==
  /\ task[t].stage = "put"
  /\ API!Respond(t)
  /\ task' = [task EXCEPT ![t].stage = "reload"]
  /\ UNCHANGED <<admitted, mounted, screen, since>>

PutAnswered(t) ==
  /\ task[t].stage = "put"
  /\ API!Respond(t)
  /\ IF reply[t].status = "ok"
     THEN /\ task' = [task EXCEPT ![t].stage = "reload"]
          /\ UNCHANGED <<admitted, mounted, screen, since>>
     ELSE Fail(t, "set_failed")

(* Broken variant: the reload forgets that it belongs to a save.           *)
ReloadUntied(t) ==
  /\ task[t].stage = "reload"
  /\ FetchList(t, "load", task[t].id)
  /\ UNCHANGED <<admitted, mounted, screen, since>>

(* await loadShares()                                                      *)
Reload(t) ==
  /\ task[t].stage = "reload"
  /\ FetchList(t, task[t].kind, task[t].id)
  /\ UNCHANGED <<admitted, mounted, screen, since>>

ListAnswered(t) ==
  /\ task[t].stage = "list"
  /\ API!Respond(t)
  /\ shares' = reply[t].body
  /\ status' = "count"
  /\ task' = [task EXCEPT ![t] = Idle]
  /\ IF task[t].kind = "save"
     THEN /\ passwords' = [passwords EXCEPT ![task[t].id] = NoPassword]
          /\ busyID' = NoID
     ELSE UNCHANGED <<passwords, busyID>>
  /\ since' = [since EXCEPT ![t] = {}]
  /\ UNCHANGED <<admitted, mounted>>

(* The connection breaks; the server may or may not have seen the request. *)
LoseConnection(t) ==
  /\ task[t].stage \in {"put", "list"}
  /\ Fail(t, "network_failed")
  /\ UNCHANGED backend

(* An answer nobody waits for is thrown away.                              *)
DropAnswer(t) ==
  /\ task[t] = Idle
  /\ API!Respond(t)
  /\ UNCHANGED <<admitted, mounted, screen, task, since>>

-----------------------------------------------------------------------------
(* The backend's own steps.  History: a save whose PUT has taken effect    *)
(* notes what its row could show from then on.                             *)
PutDone(t) ==
  /\ task[t].kind = "save"
  /\ \/ since[t] # {}
     \/ task[t].stage = "put" /\ phase'[t] = "answered" /\ reply'[t].status = "ok"

TakeEffect(r) ==
  /\ API!TakeEffect(r)
  /\ since' = [t \in Tasks |->
                 IF PutDone(t) THEN since[t] \cup {CurrentText(db', task[t].id)}
                 ELSE since[t]]
  /\ UNCHANGED <<admitted, mounted, screen, task>>

OtherStep(o) ==
  /\ \/ API!Receive(o) /\ call'[o] \in OtherCalls
     \/ API!Respond(o)
  /\ UNCHANGED <<admitted, mounted, screen, task, since>>

(* A restart may change ADMIN_PASSWORD.                                    *)
Restart ==
  /\ API!Crash
  /\ admitted' \in BOOLEAN
  /\ UNCHANGED <<mounted, screen, task, since>>

PageStep(t) ==
  \/ Mount(t) \/ Refused(t) \/ PutAnswered(t) \/ Reload(t) \/ ListAnswered(t)
  \/ LoseConnection(t) \/ DropAnswer(t)
  \/ \E id \in IDs : SavePassword(t, id) \/ ClearPassword(t, id)

Next == \/ \E t \in Tasks : PageStep(t)
        \/ \E id \in IDs : Type(id)
        \/ \E o \in Others : OtherStep(o)
        \/ \E r \in Tasks \cup Others : TakeEffect(r)
        \/ Restart

Spec == Init /\ [][Next]_vars

(* Requests are answered, answers arrive, and a fetch whose request is     *)
(* gone is rejected; nobody has to click.                                  *)
Fairness ==
  \A t \in Tasks :
    /\ WF_vars(TakeEffect(t)) /\ WF_vars(PutAnswered(t)) /\ WF_vars(ListAnswered(t))
    /\ WF_vars(Refused(t)) /\ WF_vars(Reload(t))
    /\ WF_vars(LoseConnection(t) /\ phase[t] = "idle")

FairSpec == Spec /\ Fairness

-----------------------------------------------------------------------------
(* Properties.                                                             *)

TypeOK ==
  /\ \A t \in Tasks :
       /\ task[t].kind \in {"none", "load", "save"}
       /\ task[t].id \in IDs \cup {NoID}
       /\ task[t].kind = "save" <=> task[t].id # NoID
  /\ Displayed \subseteq IDs
  /\ passwords \in [IDs -> Passwords]
  /\ busyID \in IDs \cup {NoID}
  /\ status \in {"loading", "count", "set_failed", "load_failed", "network_failed"}

(* Buttons are disabled only for a row whose own save is still out: no     *)
(* interleaving of overlapping saves and failures locks a row for good.    *)
BusyRowIsSaving ==
  busyID # NoID => \E t \in Tasks : task[t].kind = "save" /\ task[t].id = busyID

(* When a save completes, its row shows a password state the share had     *)
(* after the save took effect, never one from before it.                   *)
SavedRowIsFresh ==
  [][\A t \in Tasks :
       task[t].kind = "save" /\ task[t].stage = "list" /\ task'[t] = Idle /\ status' = "count"
         => RowText(shares', task[t].id) \in since[t]]_vars

(* Every disabled row is enabled again.                                    *)
BusyEnds == busyID # NoID ~> busyID = NoID
=============================================================================
