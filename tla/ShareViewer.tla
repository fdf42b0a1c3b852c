---------------------------- MODULE ShareViewer ----------------------------
(***************************************************************************)
(* A browser on /share/:share_id (ShareApp.svelte, shared/api/share.ts and *)
(* the page states of layout.ts) talking to the backend while owners and   *)
(* administrators change the share.  The backend is ShareAPI, which        *)
(* ShareService implements; the handlers of internal/web/server.go turn    *)
(* its answers into HTTP responses.  A request may outlive the page that   *)
(* sent it, a response may be lost, and the server may restart.            *)
(***************************************************************************)
EXTENDS ShareTypes

CONSTANTS
  Viewers,         \* browser tabs
  Others,          \* request slots of owners and administrators
  OtherCalls,      \* the calls those make
  ViewedID,        \* the share the tabs are opened on
  HeaderValue,     \* password typed -> what the X-Share-Password header carries
  Unsendable,      \* "fetch throws": a character no header can hold
  MessageBodies,   \* events that give the reader something to show
  CorruptBodies,   \* events normalizeShareItems calls malformed
  NullBodies,      \* the JSON value null among those
  SessionBodies,   \* session events with an id
  FatalBodies,     \* events with a field the conversion uses unchecked (tokens: null)
  MaxVersions      \* bound: versions of the share during one data request

ASSUME ViewerAssumption ==
  /\ Viewers \cap Others = {}
  /\ OtherCalls \subseteq Call
  /\ ViewedID \in IDs
  /\ HeaderValue \in [Passwords -> Passwords \cup {Unsendable}]
  /\ HeaderValue[NoPassword] = NoPassword
  /\ NullBodies \subseteq CorruptBodies

VARIABLES
  db, clock, phase, call, reply,   \* the backend (ShareAPI)
  page,      \* tab -> what it shows
  entered,   \* tab -> the password its last data request was made with
  code,      \* tab -> HTTP status of the last data response, 0 when none came
  offered    \* tab -> the versions of the share since that request was sent

backend == <<db, clock, phase, call, reply>>
vars == <<db, clock, phase, call, reply, page, entered, code, offered>>

ViewerCalls ==
  [op : {"Get"}, id : {ViewedID}]
  \cup [op : {"DataWithPassword"}, id : {ViewedID}, password : Passwords]

API == INSTANCE ShareAPI
         WITH Requests <- Viewers \cup Others, Calls <- OtherCalls \cup ViewerCalls

-----------------------------------------------------------------------------
(* Broken variant: a wrong password is answered with 403.                  *)
ServiceErrorForbidden(status) ==
  CASE status = "invalid_input"  -> 400
    [] status = "already_exists" -> 409
    [] status = "not_found"      -> 404
    [] status = "invalid_secret" -> 403
    [] OTHER                     -> 500

(* internal/web/server.go: the status of an answer, and its JSON body.     *)
(* DataWithPassword appends to a nil slice, so the events of a share that  *)
(* has none are nil and c.JSON writes null.                                *)
ServiceError(status) ==
  CASE status = "invalid_input"  -> 400
    [] status = "already_exists" -> 409
    [] status = "not_found"      -> 404
    [] status = "invalid_secret" -> 401
    [] OTHER                     -> 500

Response(answer) ==
  IF answer.status # "ok" THEN [code |-> ServiceError(answer.status), isArray |-> FALSE]
  ELSE [code |-> 200, isArray |-> answer.body # <<>>]

(* The states of the page.                                                 *)
Page(status, detail, items) == [status |-> status, detail |-> detail, items |-> items]

Closed     == Page("closed", "", <<>>)
Loading    == Page("loading", "", <<>>)
LoadFailed == Page("error", "load_failed", <<>>)

BodiesOf(items) == {items[i].body : i \in DOMAIN items}

(* The conversion comes before the check for malformed events, and does    *)
(* not survive every event: firstSessionID reads the type of null when no  *)
(* session was normalised, and fields such as tokens are read unchecked.   *)
Throws(items) ==
  \/ BodiesOf(items) \cap FatalBodies # {}
  \/ /\ BodiesOf(items) \cap NullBodies # {}
     /\ BodiesOf(items) \cap SessionBodies = {}

CreateShareViewModel(items) ==
  LET bodies == BodiesOf(items)
  IN  IF bodies \cap CorruptBodies # {} THEN Page("error", "corrupt", items)
      ELSE IF bodies \cap MessageBodies = {} THEN Page("empty", "", items)
      ELSE Page("ready", "", items)

(* Broken variant: a 404 is taken for a missing password.                  *)
ResponseErrorMixed(status, attempted) ==
  IF status \in {401, 404}
  THEN Page("password", IF attempted THEN "retry" ELSE "first", <<>>)
  ELSE LoadFailed

ResponseError(status, attempted) ==
  CASE status = 401 -> Page("password", IF attempted THEN "retry" ELSE "first", <<>>)
    [] status = 404 -> Page("error", "not_found", <<>>)
    [] OTHER        -> LoadFailed

(* shared/api/share.ts: fetchShareData and shareStateFromResult; then      *)
(* createShareViewModel on the events of a response it accepts.  Nobody    *)
(* catches what that throws, so the page stays as loadData left it.        *)
LoadedPage(answer, attempted) ==
  LET response == Response(answer)
  IN  IF response.code # 200 THEN ResponseError(response.code, attempted)
      ELSE IF ~response.isArray THEN LoadFailed
      ELSE IF Throws(answer.body) THEN Loading
      ELSE CreateShareViewModel(answer.body)

-----------------------------------------------------------------------------
Init ==
  /\ API!Init
  /\ page = [v \in Viewers |-> Closed]
  /\ entered = [v \in Viewers |-> NoPassword]
  /\ code = [v \in Viewers |-> 0]
  /\ offered = [v \in Viewers |-> {}]

Show(v, p) == page' = [page EXCEPT ![v] = p]

(* Bound: a tab sends its next request once its last one left the server.  *)
Send(v, c) ==
  /\ API!Receive(v)
  /\ call'[v] = c

(* loadData: show "loading" and fetch; a fetch that throws is a failure.   *)
LoadData(v, password) ==
  /\ entered' = [entered EXCEPT ![v] = password]
  /\ code' = [code EXCEPT ![v] = 0]
  /\ offered' = [offered EXCEPT ![v] = {db[ViewedID]}]
  /\ \/ /\ HeaderValue[password] = Unsendable
        /\ Show(v, LoadFailed)
        /\ UNCHANGED backend
     \/ /\ HeaderValue[password] # Unsendable
        /\ Show(v, Loading)
        /\ Send(v, [op |-> "DataWithPassword", id |-> ViewedID,
                    password |-> HeaderValue[password]])

(* The address is opened: the server looks the share up (sharePage).       *)
Open(v) ==
  /\ page[v].status = "closed"
  /\ Send(v, [op |-> "Get", id |-> ViewedID])
  /\ Show(v, Page("opening", "", <<>>))
  /\ UNCHANGED <<entered, code, offered>>

ServePage(v) ==
  /\ page[v].status = "opening"
  /\ API!Respond(v)
  /\ Show(v, IF reply[v].status = "found" THEN Page("served", "", <<>>)
             ELSE Page("absent", "", <<>>))
  /\ UNCHANGED <<entered, code, offered>>

(* onMount *)
Mount(v) ==
  /\ page[v].status = "served"
  /\ LoadData(v, NoPassword)

(* The password form is only there while the page asks for a password.     *)
SubmitPassword(v) ==
  /\ page[v].status = "password"
  /\ \E password \in Passwords : LoadData(v, password)

(* The fetch of loadData is out: no response has come.                     *)
Fetching(v) == page[v].status = "loading" /\ code[v] = 0

(* The response to the data request reaches the page.                      *)
ReceiveData(v) ==
  /\ Fetching(v)
  /\ API!Respond(v)
  /\ Show(v, LoadedPage(reply[v], entered[v] # NoPassword))
  /\ code' = [code EXCEPT ![v] = Response(reply[v]).code]
  /\ UNCHANGED <<entered, offered>>

Waiting(v) == page[v].status = "opening" \/ Fetching(v)

(* Broken variant: fetchShareData does not catch a fetch that throws.      *)
LoseConnectionUncaught(v) ==
  /\ Waiting(v)
  /\ page' = IF page[v].status = "opening" THEN [page EXCEPT ![v] = Closed] ELSE page
  /\ UNCHANGED <<backend, entered, code, offered>>

(* The connection breaks: a page load fails, a fetch rejects.  What the    *)
(* server does with the request is not affected.                           *)
LoseConnection(v) ==
  /\ Waiting(v)
  /\ Show(v, IF page[v].status = "opening" THEN Closed ELSE LoadFailed)
  /\ UNCHANGED <<backend, entered, code, offered>>

(* The tab is closed, whatever it shows.                                   *)
Close(v) ==
  /\ page[v] # Closed
  /\ Show(v, Closed)
  /\ entered' = [entered EXCEPT ![v] = NoPassword]
  /\ code' = [code EXCEPT ![v] = 0]
  /\ offered' = [offered EXCEPT ![v] = {}]
  /\ UNCHANGED backend

(* An answer nobody waits for is thrown away.                              *)
DropAnswer(v) ==
  /\ ~Waiting(v)
  /\ API!Respond(v)
  /\ UNCHANGED <<page, entered, code, offered>>

-----------------------------------------------------------------------------
(* The backend's own steps, and the other clients'.  History: each tab     *)
(* notes the versions of the share that exist while its request is out.    *)
NoteVersion ==
  offered' = [v \in Viewers |->
                IF Fetching(v) THEN offered[v] \cup {db'[ViewedID]}
                ELSE offered[v]]

(* Bound: a change waits once MaxVersions versions passed a loading tab.   *)
TakeEffect(r) ==
  /\ API!TakeEffect(r)
  /\ NoteVersion
  /\ \A v \in Viewers : Cardinality(offered'[v]) <= MaxVersions
  /\ UNCHANGED <<page, entered, code>>

OtherStep(o) ==
  /\ \/ API!Receive(o) /\ call'[o] \in OtherCalls
     \/ API!Respond(o)
  /\ UNCHANGED <<page, entered, code, offered>>

Restart == API!Crash /\ UNCHANGED <<page, entered, code, offered>>

TabStep(v) ==
  \/ Open(v) \/ ServePage(v) \/ Mount(v) \/ SubmitPassword(v) \/ ReceiveData(v)
  \/ LoseConnection(v) \/ Close(v) \/ DropAnswer(v)

Next == \/ \E v \in Viewers : TabStep(v)
        \/ \E o \in Others : OtherStep(o)
        \/ \E r \in Viewers \cup Others : TakeEffect(r)
        \/ Restart

Spec == Init /\ [][Next]_vars

(* The server answers, answers arrive, and a fetch whose request is gone   *)
(* is rejected; nobody has to open a tab or to type.                       *)
Fairness ==
  \A v \in Viewers :
    /\ WF_vars(TakeEffect(v))
    /\ WF_vars(ServePage(v)) /\ WF_vars(ReceiveData(v))
    /\ WF_vars(LoseConnection(v) /\ phase[v] = "idle")

FairSpec == Spec /\ Fairness

-----------------------------------------------------------------------------
(* Properties.                                                             *)

TypeOK ==
  /\ \A v \in Viewers :
       /\ page[v].status \in {"closed", "opening", "served", "absent", "loading",
                              "password", "error", "empty", "ready"}
       /\ page[v].items \in Seq(Item)
       /\ offered[v] \subseteq Share \cup {NoShare}
  /\ entered \in [Viewers -> Passwords]
  /\ code \in [Viewers -> {0, 200, 400, 401, 404, 409, 500}]

Required(share) ==
  IF share.password = NoPassword THEN DefaultPassword ELSE share.password

(* A page that renders events renders those of one version the share had   *)
(* after the request was sent, and what the tab presented opened it: a     *)
(* password set or changed meanwhile, a late answer or a restart never     *)
(* shows the events of one version under the password of another.          *)
PagesShowOneVersion ==
  \A v \in Viewers :
    page[v].status \in {"ready", "empty"} \/ page[v].detail = "corrupt" =>
      \E share \in offered[v] \ {NoShare} :
        /\ share.data = page[v].items
        /\ Required(share) \in {NoPassword, HeaderValue[entered[v]]}

(* A tab is asked for a password (again) only if the share needed another  *)
(* one than its header carried at some moment of the request, and is told  *)
(* that there is no such share only if there was none at some moment of    *)
(* it.  What the header carries may not be what was typed: a password that *)
(* ends in a blank is refused although it is the right one.                *)
RefusalsAreJustified ==
  \A v \in Viewers :
    /\ page[v].status = "password" =>
         \E share \in offered[v] \ {NoShare} : Required(share) \notin {NoPassword, HeaderValue[entered[v]]}
    /\ page[v].detail = "not_found" => NoShare \in offered[v]
    /\ page[v].detail = "retry" => entered[v] # NoPassword

(* No tab stays on "loading", unless an answer came whose events the       *)
(* conversion throws on: the request, its answer, a broken connection, a   *)
(* restart in between or a fetch that throws all end it.                   *)
LoadingEnds ==
  \A v \in Viewers :
    page[v].status \in {"opening", "loading"} ~>
      \/ page[v].status \notin {"opening", "loading"}
      \/ code[v] = 200 /\ \E share \in offered[v] \ {NoShare} : Throws(share.data)

(* A share that was created and has no events yet is shown as one without  *)
(* messages to render (layout.ts:97), so a 200 is never a failed load.     *)
AnsweredPagesLoad ==
  \A v \in Viewers : page[v].status # "loading" /\ code[v] = 200 =>
    page[v].detail # "load_failed"
=============================================================================
