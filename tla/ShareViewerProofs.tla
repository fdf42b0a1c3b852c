------------------------- MODULE ShareViewerProofs -------------------------
(***************************************************************************)
(* Proofs about the share page for any tabs, clients, passwords and calls: *)
(* what a tab renders is one version of the share that its password opens, *)
(* and what it refuses was refused by a version of the share it asked for. *)
(***************************************************************************)
EXTENDS ShareViewer, FoldFacts

-----------------------------------------------------------------------------
(* The inductive invariant, in parts.                                      *)

Slots == Viewers \cup Others

SlotShape == DOMAIN phase = Slots /\ DOMAIN call = Slots /\ DOMAIN reply = Slots

TabShape ==
  /\ DOMAIN page = Viewers /\ DOMAIN entered = Viewers
  /\ DOMAIN code = Viewers /\ DOMAIN offered = Viewers

Opens(share, password) == Required(share) \in {NoPassword, password}

(* The answers one version of the share gives to a data request.           *)
Fits(answer, share, password) ==
  \/ share = NoShare /\ answer.status = "not_found"
  \/ /\ share # NoShare /\ Required(share) \notin {NoPassword, password}
     /\ answer.status = "invalid_secret"
  \/ /\ share # NoShare /\ Opens(share, password)
     /\ answer.status = "ok" /\ answer.body = share.data

DataRequest(v) ==
  [op |-> "DataWithPassword", id |-> ViewedID, password |-> HeaderValue[entered[v]]]

(* A tab whose fetch is out has noted the present version of the share;    *)
(* its request carries its password, and the answer is that of a version   *)
(* it noted.                                                               *)
LoadingInv(v) ==
  Fetching(v) =>
    /\ db[ViewedID] \in offered[v]
    /\ phase[v] # "idle" => call[v] = DataRequest(v)
    /\ phase[v] = "answered" =>
         \E share \in offered[v] : Fits(reply[v], share, HeaderValue[entered[v]])

(* What a tab shows, as the properties say it.                             *)
Rendered(v) ==
  page[v].status \in {"ready", "empty"} \/ page[v].detail = "corrupt" =>
    \E share \in offered[v] \ {NoShare} :
      /\ share.data = page[v].items
      /\ Required(share) \in {NoPassword, HeaderValue[entered[v]]}

Refused(v) ==
  /\ page[v].status = "password" =>
       \E share \in offered[v] \ {NoShare} :
         Required(share) \notin {NoPassword, HeaderValue[entered[v]]}
  /\ page[v].detail = "not_found" => NoShare \in offered[v]
  /\ page[v].detail = "retry" => entered[v] # NoPassword

TabInv(v) == LoadingInv(v) /\ Rendered(v) /\ Refused(v)

TabsInv == \A v \in Viewers : TabInv(v)

IInv == SlotShape /\ TabShape /\ TabsInv

-----------------------------------------------------------------------------
(* The backend.                                                            *)

(* A data request is answered as the version in the database answers it,   *)
(* and changes nothing.                                                    *)
LEMMA DataOutcome ==
  ASSUME NEW d, NEW password,
         NEW o \in API!Outcomes(d, [op |-> "DataWithPassword", id |-> ViewedID, password |-> password])
  PROVE  o.db = d /\ Fits(o.reply, d[ViewedID], password)
<1> DEFINE c == [op |-> "DataWithPassword", id |-> ViewedID, password |-> password]
<1>1. c.op = "DataWithPassword" /\ c.id = ViewedID /\ c.password = password
  OBVIOUS
<1> HIDE DEF c
<1>2. c \notin API!WriteCall
  BY <1>1 DEF API!WriteCall, API!CreateCall, API!SyncCall, API!SetPasswordCall, API!RemoveCall
<1>3. o \in API!ReadOutcomes(d, c)
  BY <1>2 DEF API!Outcomes, c
<1>4. o \in API!ViewOutcomes(d, c, IF d[ViewedID] = NoShare THEN NoBody ELSE d[ViewedID].data)
  BY <1>1, <1>3 DEF API!ReadOutcomes
<1>5. \A share : API!MayView(share, password) <=> Opens(share, password)
  BY DEF API!MayView, Opens, Required
<1>6. CASE d[ViewedID] = NoShare
  <2>1. o = [db |-> d, reply |-> [status |-> "not_found", body |-> NoBody]]
    BY <1>1, <1>4, <1>6 DEF API!ViewOutcomes, API!Outcome, API!Failure, API!Answer
  <2>. QED
    BY <1>6, <2>1 DEF Fits
<1>7. CASE d[ViewedID] # NoShare /\ ~Opens(d[ViewedID], password)
  <2>1. o = [db |-> d, reply |-> [status |-> "invalid_secret", body |-> NoBody]]
    BY <1>1, <1>4, <1>5, <1>7 DEF API!ViewOutcomes, API!Outcome, API!Failure, API!Answer
  <2>. QED
    BY <1>7, <2>1 DEF Fits, Opens
<1>8. CASE d[ViewedID] # NoShare /\ Opens(d[ViewedID], password)
  <2>1. o = [db |-> d, reply |-> [status |-> "ok", body |-> d[ViewedID].data]]
    BY <1>1, <1>4, <1>5, <1>8 DEF API!ViewOutcomes, API!Outcome, API!Answer
  <2>. QED
    BY <1>8, <2>1 DEF Fits
<1>. QED
  BY <1>6, <1>7, <1>8

(* What the page makes of such an answer.                                  *)
Explains(p, share, password, attempted) ==
  /\ p.status \in {"ready", "empty"} \/ p.detail = "corrupt" =>
       share # NoShare /\ share.data = p.items /\ Opens(share, password)
  /\ p.status = "password" => share # NoShare /\ ~Opens(share, password)
  /\ p.detail = "not_found" => share = NoShare
  /\ p.detail = "retry" => attempted

LEMMA ViewPage ==
  ASSUME NEW share, NEW password, NEW attempted, NEW status \in {"empty", "ready"},
         NEW detail, detail # "not_found", detail # "retry",
         share # NoShare, Opens(share, password)
  PROVE  Explains(Page(status, detail, share.data), share, password, attempted)
BY DEF Page, Explains

LEMMA PageOfAnswer ==
  ASSUME NEW answer, NEW share, NEW password, Fits(answer, share, password), NEW attempted \in BOOLEAN
  PROVE  Explains(LoadedPage(answer, attempted), share, password, attempted)
<1> DEFINE p == LoadedPage(answer, attempted)
<1>1. CASE share = NoShare /\ answer.status = "not_found"
  <2>1. p = Page("error", "not_found", <<>>)
    BY <1>1 DEF LoadedPage, Response, ServiceError, ResponseError
  <2>. QED
    BY <1>1, <2>1 DEF Page, Explains
<1>2. CASE /\ share # NoShare /\ Required(share) \notin {NoPassword, password}
           /\ answer.status = "invalid_secret"
  <2>1. p = Page("password", IF attempted THEN "retry" ELSE "first", <<>>)
    BY <1>2 DEF LoadedPage, Response, ServiceError, ResponseError
  <2>2. /\ p.status = "password"
        /\ p.detail = IF attempted THEN "retry" ELSE "first"
    BY <2>1 DEF Page
  <2>3. p.detail \in {"retry", "first"} /\ (p.detail = "retry" => attempted)
    BY <2>2
  <2>4. share # NoShare /\ ~Opens(share, password)
    BY <1>2 DEF Opens
  <2>. HIDE DEF p
  <2>5. Explains(p, share, password, attempted)
    BY <2>2, <2>3, <2>4 DEF Explains
  <2>. QED
    BY <2>5 DEF p
<1>3. CASE /\ share # NoShare /\ Opens(share, password)
           /\ answer.status = "ok" /\ answer.body = share.data
  <2>1. p = LoadFailed \/ p = Loading \/ p = CreateShareViewModel(share.data)
    BY <1>3 DEF LoadedPage, Response
  <2>2. \/ p = LoadFailed \/ p = Loading
        \/ p = Page("error", "corrupt", share.data)
        \/ p = Page("empty", "", share.data)
        \/ p = Page("ready", "", share.data)
    BY <2>1 DEF CreateShareViewModel
  <2>3. CASE p = LoadFailed \/ p = Loading
    <3>1. /\ Explains(LoadFailed, share, password, attempted)
          /\ Explains(Loading, share, password, attempted)
      BY DEF Page, LoadFailed, Loading, Explains
    <3>. QED
      BY <2>3, <3>1, Zenon
  <2>4. CASE p = Page("error", "corrupt", share.data)
    BY <1>3, <2>4 DEF Page, Explains
  <2>5. CASE p = Page("empty", "", share.data)
    <3>1. Explains(Page("empty", "", share.data), share, password, attempted)
      BY <1>3, ViewPage, Zenon
    <3>. QED
      BY <2>5, <3>1, Zenon
  <2>6. CASE p = Page("ready", "", share.data)
    <3>1. Explains(Page("ready", "", share.data), share, password, attempted)
      BY <1>3, ViewPage, Zenon
    <3>. QED
      BY <2>6, <3>1, Zenon
  <2>. QED
    BY <2>2, <2>3, <2>4, <2>5, <2>6, Zenon
<1>. QED
  BY <1>1, <1>2, <1>3 DEF Fits

-----------------------------------------------------------------------------
(* One tab.                                                                *)

(* A step that leaves a tab alone, but for its noting a new version or for *)
(* its request leaving the server, keeps what the tab may show.            *)
LEMMA TabKept ==
  ASSUME NEW v \in Viewers, TabInv(v),
         page'[v] = page[v], entered'[v] = entered[v], code'[v] = code[v],
         offered[v] \subseteq offered'[v],
         Fetching(v) => db'[ViewedID] \in offered'[v],
         \/ phase'[v] = "idle"
         \/ phase'[v] = phase[v] /\ call'[v] = call[v] /\ reply'[v] = reply[v]
  PROVE  TabInv(v)'
<1>1. DataRequest(v)' = DataRequest(v)
  BY DEF DataRequest
<1>2. LoadingInv(v)'
  <2> SUFFICES ASSUME Fetching(v)
               PROVE  LoadingInv(v)'
    BY DEF LoadingInv, Fetching
  <2>1. phase'[v] # "idle" => call'[v] = DataRequest(v)'
    BY <1>1 DEF TabInv, LoadingInv
  <2>2. phase'[v] = "answered" =>
          \E share \in offered'[v] : Fits(reply'[v], share, HeaderValue[entered'[v]])
    BY DEF TabInv, LoadingInv
  <2>. QED
    BY <2>1, <2>2 DEF LoadingInv
<1>3. Rendered(v)' /\ Refused(v)'
  BY DEF TabInv, Rendered, Refused
<1>. QED
  BY <1>2, <1>3 DEF TabInv

(* A page that neither waits for data nor shows what came of it.           *)
Plain(p) == p.status \in {"closed", "opening", "served", "absent", "error"}
            /\ p.detail \in {"", "load_failed"}

LEMMA PlainTab ==
  ASSUME NEW v \in Viewers, Plain(page'[v])
  PROVE  TabInv(v)'
BY DEF Plain, TabInv, LoadingInv, Fetching, Rendered, Refused

LEMMA PlainPages ==
  /\ Plain(Closed) /\ Plain(LoadFailed)
  /\ Plain(Page("opening", "", <<>>))
  /\ Plain(Page("served", "", <<>>)) /\ Plain(Page("absent", "", <<>>))
BY Zenon DEF Plain, Page, Closed, LoadFailed

LEMMA LoadingPage ==
  /\ Loading.status = "loading"
  /\ Loading.detail # "corrupt" /\ Loading.detail # "not_found" /\ Loading.detail # "retry"
BY Zenon DEF Loading, Page

(* The tabs a step does not touch.                                         *)
Untouched(w) ==
  /\ page'[w] = page[w] /\ entered'[w] = entered[w]
  /\ code'[w] = code[w] /\ offered'[w] = offered[w]
  /\ phase'[w] = phase[w] /\ call'[w] = call[w] /\ reply'[w] = reply[w]

LEMMA OthersKept ==
  ASSUME TabsInv, NEW v, db' = db, \A w \in Viewers \ {v} : Untouched(w), TabInv(v)'
  PROVE  TabsInv'
<1> SUFFICES ASSUME NEW w \in Viewers, w # v
             PROVE  TabInv(w)'
  BY DEF TabsInv
<1>1. Fetching(w) => db[ViewedID] \in offered[w]
  BY DEF TabsInv, TabInv, LoadingInv
<1>. QED
  BY <1>1, TabKept DEF TabsInv, Untouched

(* What a step of one request slot does to the slots.                      *)
LEMMA SlotStep ==
  ASSUME SlotShape, NEW r \in Slots, API!Receive(r) \/ API!Respond(r)
  PROVE  /\ SlotShape'
         /\ db' = db
         /\ \A w : w # r => /\ phase'[w] = phase[w]
                           /\ call'[w] = call[w]
                           /\ reply'[w] = reply[w]
         /\ API!Receive(r) => phase'[r] = "called"
         /\ API!Respond(r) => phase'[r] = "idle"
<1>1. CASE API!Receive(r)
  BY <1>1 DEF API!Receive, API!Respond, SlotShape
<1>2. CASE API!Respond(r)
  BY <1>2 DEF API!Receive, API!Respond, SlotShape
<1>. QED
  BY <1>1, <1>2

-----------------------------------------------------------------------------
(* The steps of a tab.                                                     *)

LEMMA LoadDataStep ==
  ASSUME IInv, NEW v \in Viewers, NEW password \in Passwords, LoadData(v, password)
  PROVE  IInv'
<1>1. CASE HeaderValue[password] = Unsendable /\ Show(v, LoadFailed) /\ UNCHANGED backend
  <2>1. SlotShape' /\ TabShape' /\ db' = db
    BY <1>1 DEF IInv, SlotShape, TabShape, LoadData, Show, backend
  <2>2. page'[v] = LoadFailed
    BY <1>1 DEF IInv, TabShape, LoadData, Show
  <2>3. TabInv(v)'
    BY <2>2, PlainPages, PlainTab
  <2>4. \A w \in Viewers \ {v} : Untouched(w)
    BY <1>1 DEF Untouched, IInv, TabShape, LoadData, Show, backend
  <2>. QED
    BY <2>1, <2>3, <2>4, OthersKept DEF IInv
<1>2. CASE /\ HeaderValue[password] # Unsendable
           /\ Show(v, Loading)
           /\ Send(v, [op |-> "DataWithPassword", id |-> ViewedID,
                       password |-> HeaderValue[password]])
  <2>1. API!Receive(v) /\ v \in Slots
    BY <1>2 DEF Send, Slots
  <2>2. SlotShape' /\ db' = db /\ phase'[v] = "called"
    BY <2>1, SlotStep DEF IInv
  <2>3. TabShape'
    BY <1>2 DEF IInv, TabShape, LoadData, Show
  <2>4. /\ page'[v] = Loading /\ entered'[v] = password /\ offered'[v] = {db[ViewedID]}
        /\ call'[v] = [op |-> "DataWithPassword", id |-> ViewedID,
                       password |-> HeaderValue[password]]
    BY <1>2 DEF IInv, TabShape, LoadData, Show, Send
  <2>5. /\ page'[v].status = "loading"
        /\ page'[v].detail # "corrupt" /\ page'[v].detail # "not_found"
        /\ page'[v].detail # "retry"
    BY <2>4, LoadingPage
  <2>6. LoadingInv(v)'
    BY <2>2, <2>4 DEF LoadingInv, Fetching, DataRequest
  <2>7. Rendered(v)' /\ Refused(v)'
    BY <2>5 DEF Rendered, Refused
  <2>8. \A w \in Viewers \ {v} : Untouched(w)
    BY <1>2, <2>1, SlotStep DEF Untouched, IInv, TabShape, LoadData, Show
  <2>. QED
    BY <2>2, <2>3, <2>6, <2>7, <2>8, OthersKept DEF IInv, TabInv
<1>. QED
  BY <1>1, <1>2 DEF LoadData

LEMMA OpenStep ==
  ASSUME IInv, NEW v \in Viewers, Open(v)
  PROVE  IInv'
<1>1. API!Receive(v) /\ v \in Slots
  BY DEF Open, Send, Slots
<1>2. /\ SlotShape' /\ db' = db
      /\ \A w : w # v => phase'[w] = phase[w] /\ call'[w] = call[w] /\ reply'[w] = reply[w]
  BY <1>1, SlotStep DEF IInv
<1>3. /\ TabShape' /\ page'[v] = Page("opening", "", <<>>) /\ entered' = entered /\ code' = code
      /\ \A w \in Viewers : w # v => page'[w] = page[w] /\ offered'[w] = offered[w]
  BY DEF IInv, TabShape, Open, Show
<1>4. TabInv(v)'
  BY <1>3, PlainPages, PlainTab
<1>. QED
  BY <1>2, <1>3, <1>4, OthersKept DEF IInv, Untouched

LEMMA ServePageStep ==
  ASSUME IInv, NEW v \in Viewers, ServePage(v)
  PROVE  IInv'
<1>1. API!Respond(v) /\ v \in Slots
  BY DEF ServePage, Slots
<1>2. /\ SlotShape' /\ db' = db
      /\ \A w : w # v => phase'[w] = phase[w] /\ call'[w] = call[w] /\ reply'[w] = reply[w]
  BY <1>1, SlotStep DEF IInv
<1>3. /\ TabShape' /\ entered' = entered /\ code' = code
      /\ page'[v] \in {Page("served", "", <<>>), Page("absent", "", <<>>)}
      /\ \A w \in Viewers : w # v => page'[w] = page[w] /\ offered'[w] = offered[w]
  BY DEF IInv, TabShape, ServePage, Show
<1>4. TabInv(v)'
  BY <1>3, PlainPages, PlainTab
<1>. QED
  BY <1>2, <1>3, <1>4, OthersKept DEF IInv, Untouched

(* The page explains the answer of a version its tab has noted.            *)
LEMMA ReceiveDataStep ==
  ASSUME IInv, NEW v \in Viewers, ReceiveData(v)
  PROVE  IInv'
<1> DEFINE password == HeaderValue[entered[v]]
           attempted == entered[v] # NoPassword
<1>1. API!Respond(v) /\ v \in Slots /\ phase[v] = "answered"
  BY DEF ReceiveData, Slots, API!Respond
<1>2. /\ SlotShape' /\ db' = db
      /\ \A w : w # v => phase'[w] = phase[w] /\ call'[w] = call[w] /\ reply'[w] = reply[w]
  BY <1>1, SlotStep DEF IInv
<1>3. /\ TabShape' /\ entered' = entered /\ offered' = offered
      /\ page'[v] = LoadedPage(reply[v], attempted)
      /\ code'[v] = Response(reply[v]).code
      /\ \A w \in Viewers : w # v => page'[w] = page[w] /\ code'[w] = code[w]
  BY DEF IInv, TabShape, ReceiveData, Show
<1>4. PICK share \in offered[v] : Fits(reply[v], share, password)
  BY <1>1 DEF IInv, TabsInv, TabInv, LoadingInv, ReceiveData
<1>5. attempted \in BOOLEAN
  OBVIOUS
<1>6. Explains(page'[v], share, password, attempted)
  BY <1>3, <1>4, <1>5, PageOfAnswer
<1>7. LoadingInv(v)' /\ Rendered(v)'
  <2>1. code'[v] # 0
    BY <1>3 DEF Response, ServiceError
  <2>. QED
    BY <1>3, <1>4, <1>6, <2>1 DEF Explains, LoadingInv, Fetching, Rendered, Opens
<1>8. Refused(v)'
  BY <1>3, <1>4, <1>6 DEF Explains, Refused, Opens
<1>. QED
  BY <1>2, <1>3, <1>7, <1>8, OthersKept DEF IInv, Untouched, TabInv

LEMMA LoseConnectionStep ==
  ASSUME IInv, NEW v \in Viewers, LoseConnection(v)
  PROVE  IInv'
<1>1. /\ SlotShape' /\ TabShape' /\ db' = db
      /\ page'[v] \in {Closed, LoadFailed}
      /\ \A w \in Viewers \ {v} : Untouched(w)
  BY DEF IInv, SlotShape, TabShape, LoseConnection, Show, Untouched, backend
<1>2. TabInv(v)'
  BY <1>1, PlainPages, PlainTab
<1>. QED
  BY <1>1, <1>2, OthersKept DEF IInv

LEMMA CloseStep ==
  ASSUME IInv, NEW v \in Viewers, Close(v)
  PROVE  IInv'
<1>1. /\ SlotShape' /\ TabShape' /\ db' = db
      /\ page'[v] = Closed
      /\ \A w \in Viewers \ {v} : Untouched(w)
  BY DEF IInv, SlotShape, TabShape, Close, Show, Untouched, backend
<1>2. TabInv(v)'
  BY <1>1, PlainPages, PlainTab
<1>. QED
  BY <1>1, <1>2, OthersKept DEF IInv

LEMMA DropAnswerStep ==
  ASSUME IInv, NEW v \in Viewers, DropAnswer(v)
  PROVE  IInv'
<1>1. API!Respond(v) /\ v \in Slots
  BY DEF DropAnswer, Slots
<1>2. /\ SlotShape' /\ db' = db /\ phase'[v] = "idle"
      /\ \A w : w # v => phase'[w] = phase[w] /\ call'[w] = call[w] /\ reply'[w] = reply[w]
  BY <1>1, SlotStep DEF IInv
<1>3. /\ ~Fetching(v) /\ TabShape'
      /\ page' = page /\ entered' = entered /\ code' = code /\ offered' = offered
  BY DEF IInv, TabShape, DropAnswer, Waiting
<1>4. TabInv(v)'
  BY <1>2, <1>3, TabKept DEF IInv, TabsInv
<1>. QED
  BY <1>2, <1>3, <1>4, OthersKept DEF IInv, Untouched

-----------------------------------------------------------------------------
(* The backend's steps.                                                    *)

(* A request takes effect: every loading tab notes the version it leaves,  *)
(* and a tab's own data request is answered from that version.             *)
LEMMA TakeEffectStep ==
  ASSUME IInv, NEW r \in Slots, TakeEffect(r)
  PROVE  IInv'
<1>1. PICK o \in API!Outcomes(db, call[r]) :
        db' = o.db /\ reply' = [reply EXCEPT ![r] = o.reply]
  BY DEF TakeEffect, API!TakeEffect
<1>2. /\ phase[r] = "called"
      /\ phase' = [phase EXCEPT ![r] = "answered"] /\ call' = call
      /\ page' = page /\ entered' = entered /\ code' = code
      /\ NoteVersion
  BY DEF TakeEffect, API!TakeEffect
<1>3. SlotShape' /\ TabShape'
  BY <1>1, <1>2 DEF IInv, SlotShape, TabShape, NoteVersion
<1>4. ASSUME NEW v \in Viewers
      PROVE  TabInv(v)'
  <2>1. /\ page'[v] = page[v] /\ entered'[v] = entered[v]
        /\ offered[v] \subseteq offered'[v]
        /\ Fetching(v) => db'[ViewedID] \in offered'[v]
    BY <1>2 DEF NoteVersion
  <2>2. TabInv(v)
    BY DEF IInv, TabsInv
  <2>3. CASE v # r
    BY <1>1, <1>2, <2>1, <2>2, <2>3, TabKept
  <2>4. CASE v = r
    <3>1. CASE ~Fetching(v)
      BY <1>2, <2>1, <2>2, <3>1 DEF TabInv, LoadingInv, Fetching, Rendered, Refused
    <3>2. CASE Fetching(v)
      <4>1. call[v] = DataRequest(v)
        BY <1>2, <2>2, <2>4, <3>2 DEF TabInv, LoadingInv
      <4>2. o.db = db /\ Fits(o.reply, db[ViewedID], HeaderValue[entered[v]])
        BY <1>1, <2>4, <4>1, DataOutcome DEF DataRequest
      <4>3. reply'[v] = o.reply /\ db' = db
        BY <1>1, <2>4, <4>2 DEF IInv, SlotShape
      <4>4. LoadingInv(v)'
        BY <1>2, <2>1, <3>2, <4>1, <4>2, <4>3 DEF LoadingInv, DataRequest
      <4>5. Rendered(v)' /\ Refused(v)'
        BY <2>1, <2>2 DEF TabInv, Rendered, Refused
      <4>. QED
        BY <4>4, <4>5 DEF TabInv
    <3>. QED
      BY <3>1, <3>2
  <2>. QED
    BY <2>3, <2>4
<1>. QED
  BY <1>3, <1>4 DEF IInv, TabsInv

LEMMA OtherStepKeeps ==
  ASSUME IInv, NEW o \in Others, OtherStep(o)
  PROVE  IInv'
<1>1. (API!Receive(o) \/ API!Respond(o)) /\ o \in Slots
  BY DEF OtherStep, Slots
<1>2. /\ SlotShape' /\ db' = db
      /\ \A w : w # o => phase'[w] = phase[w] /\ call'[w] = call[w] /\ reply'[w] = reply[w]
  BY <1>1, SlotStep DEF IInv
<1>3. /\ TabShape' /\ page' = page
      /\ entered' = entered /\ code' = code /\ offered' = offered
  BY DEF IInv, TabShape, OtherStep
<1>4. \A w \in Viewers : w # o
  BY ViewerAssumption
<1>5. ASSUME NEW w \in Viewers
      PROVE  TabInv(w)'
  BY <1>2, <1>3, <1>4, TabKept DEF IInv, TabsInv, TabInv, LoadingInv
<1>. QED
  BY <1>2, <1>3, <1>5 DEF IInv, TabsInv

LEMMA RestartStep ==
  ASSUME IInv, Restart
  PROVE  IInv'
<1>1. /\ SlotShape' /\ TabShape' /\ db' = db
      /\ page' = page /\ entered' = entered /\ code' = code /\ offered' = offered
      /\ \A w \in Viewers : phase'[w] = "idle"
  BY DEF IInv, SlotShape, TabShape, Restart, API!Crash, Slots
<1>2. ASSUME NEW w \in Viewers
      PROVE  TabInv(w)'
  BY <1>1, TabKept DEF IInv, TabsInv, TabInv, LoadingInv
<1>. QED
  BY <1>1, <1>2 DEF IInv, TabsInv

-----------------------------------------------------------------------------
(* The invariant.                                                          *)

LEMMA InitInv ==
  ASSUME Init
  PROVE  IInv
<1>1. SlotShape /\ TabShape
  BY DEF Init, API!Init, SlotShape, TabShape, Slots
<1>2. ASSUME NEW v \in Viewers
      PROVE  TabInv(v)
  <2>1. page[v] = Closed
    BY DEF Init
  <2>2. Plain(page[v])
    BY <2>1, PlainPages
  <2>. QED
    BY <2>2 DEF Plain, TabInv, LoadingInv, Fetching, Rendered, Refused
<1>. QED
  BY <1>1, <1>2 DEF IInv, TabsInv

LEMMA StepInv ==
  ASSUME IInv, [Next]_vars
  PROVE  IInv'
<1>1. CASE UNCHANGED vars
  <2>1. SlotShape' /\ TabShape'
    BY <1>1 DEF vars, IInv, SlotShape, TabShape
  <2>2. ASSUME NEW v \in Viewers
        PROVE  TabInv(v)'
    BY <1>1, TabKept DEF vars, IInv, TabsInv, TabInv, LoadingInv
  <2>. QED
    BY <2>1, <2>2 DEF IInv, TabsInv
<1>2. ASSUME NEW v \in Viewers, TabStep(v)
      PROVE  IInv'
  <2>1. CASE Mount(v)
    BY <2>1, LoadDataStep, PasswordAssumption DEF Mount
  <2>2. CASE SubmitPassword(v)
    BY <2>2, LoadDataStep DEF SubmitPassword
  <2>. QED
    BY <1>2, <2>1, <2>2, OpenStep, ServePageStep, ReceiveDataStep,
       LoseConnectionStep, CloseStep, DropAnswerStep DEF TabStep
<1>3. ASSUME NEW r \in Viewers \cup Others, TakeEffect(r)
      PROVE  IInv'
  BY <1>3, TakeEffectStep DEF Slots
<1>. QED
  BY <1>1, <1>2, <1>3, OtherStepKeeps, RestartStep DEF Next

LEMMA Invariance == Spec => []IInv
<1>. QED
  BY InitInv, StepInv, PTL DEF Spec

-----------------------------------------------------------------------------
(* Whatever the password set, changed or removed meanwhile, the answer     *)
(* that comes late or the restart in between: a tab that renders events    *)
(* renders the events of one version the share had since its request, and  *)
(* the password that tab sent opens that very version.                     *)
THEOREM RendersOneVersion == Spec => []PagesShowOneVersion
<1>1. IInv => PagesShowOneVersion
  BY DEF IInv, TabsInv, TabInv, Rendered, PagesShowOneVersion
<1>. QED
  BY <1>1, Invariance, PTL

(* Whatever the header makes of what was typed: a tab asks for a password  *)
(* (again) only if a version of the share since its request needed another *)
(* one than the header carried, and says there is no such share only if    *)
(* there was none at some moment since.                                    *)
THEOREM RefusesForCause == Spec => []RefusalsAreJustified
<1>1. IInv => RefusalsAreJustified
  BY DEF IInv, TabsInv, TabInv, Refused, RefusalsAreJustified
<1>. QED
  BY <1>1, Invariance, PTL

-----------------------------------------------------------------------------
(* Type correctness.                                                       *)

Databases == [IDs -> Share \cup {NoShare}]

LEMMA LatestType ==
  ASSUME NEW item \in Item, NEW incoming \in Seq(Item)
  PROVE  API!Latest(item, incoming) \in Item
<1> DEFINE same == {j \in DOMAIN incoming : incoming[j].key = item.key}
           last == CHOOSE j \in same : \A k \in same : k <= j
<1>1. API!Latest(item, incoming) =
        IF item.key = NoKey \/ same = {} THEN item ELSE incoming[last]
  BY DEF API!Latest
<1>2. ASSUME same # {}
      PROVE  last \in same
  <2>1. Len(incoming) \in Nat /\ same \subseteq 1..Len(incoming)
    OBVIOUS
  <2> HIDE DEF same
  <2>2. PICK j \in same : \A k \in same : j >= k
    BY <1>2, <2>1, GreatestNatural
  <2>3. \A k \in same : k <= j
    BY <2>1, <2>2
  <2>. QED
    BY <2>3
<1>3. same # {} => incoming[last] \in Item
  <2>1. same \subseteq 1..Len(incoming)
    OBVIOUS
  <2> HIDE DEF last
  <2>. QED
    BY <1>2, <2>1
<1>. QED
  BY <1>1, <1>3

(* What the batch of a sync makes of a share's events are events: each     *)
(* place behind the stored ones is that of one event that brings a key.    *)
LEMMA MergedType ==
  ASSUME NEW old \in Seq(Item), NEW incoming \in Seq(Item)
  PROVE  API!Merged(old, incoming) \in Seq(Item)
<1> DEFINE new == {i \in DOMAIN incoming : API!Introduces(old, incoming, i)}
           c == API!Cardinality(new)
           place(i) == API!Cardinality({j \in new : j <= i})
           at(p) == CHOOSE i \in new : place(i) = p
           head == [i \in DOMAIN old |-> API!Latest(old[i], incoming)]
           rest == [p \in 1..c |-> API!Latest(incoming[at(p)], incoming)]
           before == {pair \in new \X new : pair[1] < pair[2]}
<1>0. \A T : API!Cardinality(T) = Cardinality(T)
  BY DEF API!Cardinality, Cardinality
<1>1. API!Merged(old, incoming) = head \o rest
  BY DEF API!Merged
<1>2. /\ Len(incoming) \in Nat /\ new \subseteq 1..Len(incoming)
      /\ \A i \in new : incoming[i] \in Item
  OBVIOUS
<1>3. IsFiniteSet(new)
  <2>1. IsFiniteSet(1..Len(incoming))
    BY <1>2, FS_Interval
  <2> HIDE DEF new
  <2>. QED
    BY <1>2, <2>1, FS_Subset
<1> HIDE DEF new
<1>4. StrictOrderOn(new, before)
  BY <1>2 DEF StrictOrderOn
<1>5. \A i \in new : place(i) = Rank(new, before, i) + 1
  <2> SUFFICES ASSUME NEW i \in new PROVE place(i) = Rank(new, before, i) + 1
    OBVIOUS
  <2> DEFINE below == {y \in new : <<y, i>> \in before}
  <2>4. \A y \in new : <<y, i>> \in before <=> y < i
    OBVIOUS
  <2>5. \A y \in new : y <= i <=> y < i \/ y = i
    BY <1>2
  <2>6. ~(i < i)
    BY <1>2
  <2> HIDE DEF before
  <2>1. {j \in new : j <= i} = below \cup {i} /\ i \notin below
    BY <2>4, <2>5, <2>6
  <2>2. IsFiniteSet(below)
    BY <1>3, FS_Subset
  <2> HIDE DEF below
  <2>3. Cardinality(below \cup {i}) = Cardinality(below) + 1
    BY <2>1, <2>2, FS_AddElement
  <2>7. place(i) = Cardinality(below) + 1
    BY <1>0, <2>1, <2>3
  <2>. QED
    BY <2>7 DEF Rank, below
<1>6. /\ c \in Nat
      /\ \A n \in 1..c : \E x \in new : Rank(new, before, x) = n - 1
  <2>1. c = Cardinality(new)
    BY <1>0
  <2> HIDE DEF before, c
  <2>2. /\ Cardinality(new) \in Nat
        /\ \A n \in 1..Cardinality(new) : \E x \in new : Rank(new, before, x) = n - 1
    BY <1>3, <1>4, RanksAreTaken
  <2>. QED
    BY <2>1, <2>2
<1> HIDE DEF before, c
<1>7. ASSUME NEW p \in 1..c
      PROVE  at(p) \in new
  <2>1. PICK x \in new : Rank(new, before, x) = p - 1
    BY <1>6
  <2>2. place(x) = (p - 1) + 1
    BY <1>5, <2>1
  <2>3. place(x) = p
    BY <1>6, <2>2
  <2> HIDE DEF place
  <2>. QED
    BY <2>3
<1> HIDE DEF at, place
<1>8. head \in Seq(Item)
  <2>1. Len(old) \in Nat /\ DOMAIN old = 1..Len(old) /\ \A i \in DOMAIN old : old[i] \in Item
    OBVIOUS
  <2>2. \A i \in DOMAIN old : API!Latest(old[i], incoming) \in Item
    BY <2>1, LatestType
  <2>. QED
    BY <2>1, <2>2
<1>9. rest \in Seq(Item)
  <2>1. \A p \in 1..c : incoming[at(p)] \in Item
    BY <1>2, <1>7
  <2>2. \A p \in 1..c : API!Latest(incoming[at(p)], incoming) \in Item
    BY <2>1, LatestType
  <2>. QED
    BY <1>6, <2>2
<1> HIDE DEF head, rest
<1>. QED
  BY <1>1, <1>8, <1>9

LEMMA EncodeType ==
  ASSUME NEW share \in Share, NEW data \in Seq(Item), NEW password \in Passwords, NEW t \in Nat,
         NEW changed, changed = [share EXCEPT !.data = data, !.password = password, !.updatedAt = t]
  PROVE  Encode(changed) \in Share
<1> DEFINE encoded == [i \in 1..Len(data) |-> EncodeItem(data[i])]
<1>1. Len(data) \in Nat /\ \A i \in 1..Len(data) : data[i] \in Item
  OBVIOUS
<1>2. \A i \in 1..Len(data) : EncodeItem(data[i]) \in Item
  BY <1>1 DEF EncodeItem, Item
<1>3. encoded \in Seq(Item)
  BY <1>1, <1>2
<1>4. changed.data = data
  BY DEF Share
<1>5. Encode(changed) = [changed EXCEPT !.data = encoded]
  BY <1>4 DEF Encode
<1> HIDE DEF encoded
<1>. QED
  BY <1>3, <1>5 DEF Share

(* Every call leaves a map from ids to shares.                             *)
LEMMA UpdatedAt ==
  ASSUME NEW d, NEW id, NEW share, NEW o \in API!Updated(d, id, share)
  PROVE  \E t \in d[id].updatedAt..clock :
           o.db = [d EXCEPT ![id] = Encode([share EXCEPT !.updatedAt = t])]
<1>1. PICK t \in d[id].updatedAt..clock :
        o = API!Outcome([d EXCEPT ![id] = API!Encode([share EXCEPT !.updatedAt = t])], API!Failure("ok"))
  BY DEF API!Updated
<1>2. o.db = [d EXCEPT ![id] = API!Encode([share EXCEPT !.updatedAt = t])]
  BY <1>1 DEF API!Outcome
<1>3. API!Encode([share EXCEPT !.updatedAt = t]) = Encode([share EXCEPT !.updatedAt = t])
  BY DEF API!Encode, Encode, API!EncodeItem, EncodeItem
<1>. QED
  BY <1>2, <1>3

NewShare(s, t) ==
  [secret |-> s, data |-> <<>>, password |-> NoPassword, createdAt |-> t, updatedAt |-> t]

Created(e, d, id) == \E s \in Secrets, t \in 0..clock : e = [d EXCEPT ![id] = NewShare(s, t)]

LEMMA CreatedAt ==
  ASSUME NEW d, NEW c, c.id \in ValidIDs, d[c.id] = NoShare, NEW o \in API!CreateOutcomes(d, c)
  PROVE  Created(o.db, d, c.id)
<1>1. \E s \in Secrets \ API!LiveSecrets(d), t \in 0..clock :
        o = API!Outcome([d EXCEPT ![c.id] = [secret |-> s, data |-> <<>>,
                                             password |-> NoPassword,
                                             createdAt |-> t, updatedAt |-> t]],
                        API!Answer("ok", s))
  BY SMT DEF API!CreateOutcomes
<1>2. PICK s \in Secrets, t \in 0..clock :
        o = API!Outcome([d EXCEPT ![c.id] = [secret |-> s, data |-> <<>>,
                                             password |-> NoPassword,
                                             createdAt |-> t, updatedAt |-> t]],
                        API!Answer("ok", s))
  BY <1>1
<1>3. o.db = [d EXCEPT ![c.id] = NewShare(s, t)]
  BY <1>2 DEF API!Outcome, NewShare
<1>. QED
  BY <1>3 DEF Created

LEMMA SameCalls == API!WriteCall = WriteCall
BY DEF API!WriteCall, WriteCall, API!CreateCall, CreateCall, API!SyncCall, SyncCall,
   API!SetPasswordCall, SetPasswordCall, API!RemoveCall, RemoveCall, API!Item, Item

LEMMA OutcomeType ==
  ASSUME NEW d \in Databases, clock \in Nat, NEW c \in Call, NEW o \in API!Outcomes(d, c)
  PROVE  o.db \in Databases
<1>1. \A e, answer : API!Outcome(e, answer).db = e
  BY DEF API!Outcome
<1>2. CASE c \notin WriteCall
  <2>1. o \in API!ReadOutcomes(d, c) /\ c.op \in {"Get", "Data", "CheckViewPassword", "DataWithPassword", "List"}
    BY <1>2, SameCalls DEF API!Outcomes, Call, ReadCall, LookupCall, PasswordCall, ListCall
  <2>2. o.db = d
    BY <1>1, <2>1 DEF API!ReadOutcomes, API!ViewOutcomes
  <2>. QED
    BY <2>2
<1>3. CASE c \in WriteCall
  <2>1. o \in API!WriteOutcomes(d, c) /\ c.op \in {"Create", "Sync", "SetPassword", "Remove"} /\ c.id \in IDs
    BY <1>3, SameCalls DEF API!Outcomes, WriteCall, CreateCall, SyncCall, SetPasswordCall, RemoveCall
  <2>2. d[c.id] # NoShare => d[c.id] \in Share
    BY <2>1 DEF Databases
  <2>3. \A share \in Share \cup {NoShare} : [d EXCEPT ![c.id] = share] \in Databases
    BY DEF Databases
  <2>4. ASSUME NEW s \in Secrets, NEW t \in 0..clock
        PROVE  NewShare(s, t) \in Share
    <3>1. t \in Nat /\ <<>> \in Seq(Item)
      OBVIOUS
    <3>. QED
      BY <3>1, PasswordAssumption DEF Share, NewShare
  <2>5. ASSUME NEW share, d[c.id] # NoShare, NEW data \in Seq(Item), NEW password \in Passwords,
               share = [d[c.id] EXCEPT !.data = data, !.password = password],
               NEW t \in d[c.id].updatedAt..clock
        PROVE  Encode([share EXCEPT !.updatedAt = t]) \in Share
    <3>1. d[c.id] \in Share /\ t \in Nat
      BY <2>2, <2>5 DEF Share
    <3>2. [share EXCEPT !.updatedAt = t] =
            [d[c.id] EXCEPT !.data = data, !.password = password, !.updatedAt = t]
      BY <2>5, <3>1 DEF Share
    <3>. QED
      BY <3>1, <3>2, EncodeType
  <2>6. CASE c.op = "Create"
    <3>1. o.db = d \/ o \in API!CreateOutcomes(d, c)
      BY <1>1, <2>1, <2>6 DEF API!WriteOutcomes
    <3>2. CASE o \in API!CreateOutcomes(d, c)
      <4>1. CASE c.id \notin ValidIDs \/ d[c.id] # NoShare
        BY <1>1, <3>2, <4>1 DEF API!CreateOutcomes
      <4>2. CASE c.id \in ValidIDs /\ d[c.id] = NoShare
        <5>0. Created(o.db, d, c.id)
          BY <3>2, <4>2, CreatedAt
        <5>1. PICK s \in Secrets, t \in 0..clock : o.db = [d EXCEPT ![c.id] = NewShare(s, t)]
          BY <5>0 DEF Created
        <5>. QED
          BY <2>3, <2>4, <5>1
      <4>. QED
        BY <4>1, <4>2
    <3>. QED
      BY <3>1, <3>2
  <2>7. CASE c.op = "Sync"
    <3>1. c.items \in Seq(Item)
      BY <1>3, <2>7 DEF WriteCall, CreateCall, SyncCall, SetPasswordCall, RemoveCall
    <3>2. o.db = d \/ o \in API!SyncOutcomes(d, c)
      BY <1>1, <2>1, <2>7 DEF API!WriteOutcomes
    <3>3. CASE o \in API!SyncOutcomes(d, c)
      <4> DEFINE share == [d[c.id] EXCEPT !.data = API!Merged(d[c.id].data, c.items)]
      <4>1. o.db = d \/ (d[c.id] # NoShare /\ o \in API!Updated(d, c.id, share))
        BY <1>1, <3>3 DEF API!SyncOutcomes
      <4>2. ASSUME d[c.id] # NoShare, NEW t \in d[c.id].updatedAt..clock
            PROVE  Encode([share EXCEPT !.updatedAt = t]) \in Share
        <5>1. d[c.id].data \in Seq(Item) /\ d[c.id].password \in Passwords
          BY <2>2, <4>2 DEF Share
        <5>2. API!Merged(d[c.id].data, c.items) \in Seq(Item)
          BY <3>1, <5>1, MergedType
        <5>3. share = [d[c.id] EXCEPT !.data = API!Merged(d[c.id].data, c.items),
                                      !.password = d[c.id].password]
          BY <2>2, <4>2 DEF Share
        <5> HIDE DEF share
        <5>. QED
          BY <2>5, <4>2, <5>1, <5>2, <5>3
      <4>. QED
        <5> HIDE DEF share
        <5>1. CASE d[c.id] # NoShare /\ o \in API!Updated(d, c.id, share)
          <6>1. PICK t \in d[c.id].updatedAt..clock :
                  o.db = [d EXCEPT ![c.id] = Encode([share EXCEPT !.updatedAt = t])]
            BY <5>1, UpdatedAt
          <6>. QED
            BY <2>3, <4>2, <5>1, <6>1
        <5>. QED
          BY <4>1, <5>1
    <3>. QED
      BY <3>2, <3>3
  <2>8. CASE c.op = "SetPassword"
    <3>1. c.password \in Passwords
      BY <1>3, <2>8 DEF WriteCall, CreateCall, SyncCall, SetPasswordCall, RemoveCall
    <3>2. o.db = d \/ o \in API!SetPasswordOutcomes(d, c)
      BY <1>1, <2>1, <2>8 DEF API!WriteOutcomes
    <3>3. CASE o \in API!SetPasswordOutcomes(d, c)
      <4> DEFINE share == [d[c.id] EXCEPT !.password = c.password]
      <4>1. o.db = d \/ (d[c.id] # NoShare /\ o \in API!Updated(d, c.id, share))
        BY <1>1, <3>3 DEF API!SetPasswordOutcomes
      <4>2. ASSUME d[c.id] # NoShare, NEW t \in d[c.id].updatedAt..clock
            PROVE  Encode([share EXCEPT !.updatedAt = t]) \in Share
        <5>1. d[c.id].data \in Seq(Item)
          BY <2>2, <4>2 DEF Share
        <5>2. share = [d[c.id] EXCEPT !.data = d[c.id].data, !.password = c.password]
          BY <2>2, <4>2 DEF Share
        <5> HIDE DEF share
        <5>. QED
          BY <2>5, <3>1, <4>2, <5>1, <5>2
      <4>. QED
        <5> HIDE DEF share
        <5>1. CASE d[c.id] # NoShare /\ o \in API!Updated(d, c.id, share)
          <6>1. PICK t \in d[c.id].updatedAt..clock :
                  o.db = [d EXCEPT ![c.id] = Encode([share EXCEPT !.updatedAt = t])]
            BY <5>1, UpdatedAt
          <6>. QED
            BY <2>3, <4>2, <5>1, <6>1
        <5>. QED
          BY <4>1, <5>1
    <3>. QED
      BY <3>2, <3>3
  <2>9. CASE c.op = "Remove"
    <3>1. o.db = d \/ o \in API!RemoveOutcomes(d, c)
      BY <1>1, <2>1, <2>9 DEF API!WriteOutcomes
    <3>2. CASE o \in API!RemoveOutcomes(d, c)
      BY <1>1, <2>3, <3>2 DEF API!RemoveOutcomes, API!Outcome
    <3>. QED
      BY <3>1, <3>2
  <2>. QED
    BY <2>1, <2>6, <2>7, <2>8, <2>9
<1>. QED
  BY <1>2, <1>3

-----------------------------------------------------------------------------
(* The types of a tab, and of the calls in flight.                         *)
Statuses == {"closed", "opening", "served", "absent", "loading",
             "password", "error", "empty", "ready"}

Codes == {0, 200, 400, 401, 404, 409, 500}

PageOK(p) == p.status \in Statuses /\ p.items \in Seq(Item)

CallsOK == \A r \in Slots : phase[r] = "called" => call[r] \in Call

(* Typed is inductive beside IInv: the events a tab takes from an answer   *)
(* are those of a version it noted, and a version is a share.              *)
Typed ==
  /\ db \in Databases /\ clock \in Nat /\ CallsOK
  /\ \A v \in Viewers : PageOK(page[v]) /\ offered[v] \subseteq Share \cup {NoShare}
  /\ entered \in [Viewers -> Passwords]
  /\ code \in [Viewers -> Codes]

LEMMA PlainPagesOK ==
  /\ PageOK(Closed) /\ PageOK(LoadFailed) /\ PageOK(Loading)
  /\ PageOK(Page("opening", "", <<>>))
  /\ PageOK(Page("served", "", <<>>)) /\ PageOK(Page("absent", "", <<>>))
  /\ \A detail : PageOK(Page("password", detail, <<>>)) /\ PageOK(Page("error", detail, <<>>))
<1>1. <<>> \in Seq(Item)
  OBVIOUS
<1>. QED
  BY <1>1 DEF PageOK, Statuses, Page, Closed, LoadFailed, Loading

LEMMA ResponseType ==
  ASSUME NEW answer
  PROVE  Response(answer).code \in Codes
BY DEF Response, ServiceError, Codes

LEMMA LoadedPageType ==
  ASSUME NEW answer, NEW share \in Share \cup {NoShare}, NEW password,
         Fits(answer, share, password), NEW attempted \in BOOLEAN
  PROVE  PageOK(LoadedPage(answer, attempted))
<1>1. CASE answer.status # "ok"
  <2>1. \E detail : \/ LoadedPage(answer, attempted) = Page("password", detail, <<>>)
                    \/ LoadedPage(answer, attempted) = Page("error", detail, <<>>)
    BY <1>1 DEF LoadedPage, Response, ServiceError, ResponseError, LoadFailed
  <2>. QED
    BY <2>1, PlainPagesOK
<1>2. CASE answer.status = "ok"
  <2>1. share \in Share /\ answer.body = share.data
    BY <1>2 DEF Fits
  <2>2. answer.body \in Seq(Item)
    BY <2>1 DEF Share
  <2>3. \/ LoadedPage(answer, attempted) \in {LoadFailed, Loading}
        \/ \E status \in Statuses : \E detail : LoadedPage(answer, attempted) = Page(status, detail, answer.body)
    <3>1. LoadedPage(answer, attempted) \in {LoadFailed, Loading} \/ LoadedPage(answer, attempted) = CreateShareViewModel(answer.body)
      BY <1>2 DEF LoadedPage, Response
    <3>. QED
      BY <3>1 DEF CreateShareViewModel, Statuses
  <2>. QED
    BY <2>2, <2>3, PlainPagesOK DEF PageOK, Page
<1>. QED
  BY <1>1, <1>2

(* The slot of one request: what is received is a call.                    *)
LEMMA SlotTyped ==
  ASSUME SlotShape, Typed, NEW r \in Slots,
         API!Respond(r) \/ (API!Receive(r) /\ call'[r] \in Call)
  PROVE  db' \in Databases /\ clock' \in Nat /\ CallsOK'
<1>1. db' = db /\ clock' = clock
  BY DEF API!Respond, API!Receive
<1>2. CASE API!Respond(r)
  BY <1>2 DEF API!Respond, SlotShape, Typed, CallsOK
<1>3. CASE API!Receive(r) /\ call'[r] \in Call
  BY <1>3 DEF API!Receive, SlotShape, Typed, CallsOK
<1>. QED
  BY <1>1, <1>2, <1>3 DEF Typed

LEMMA ViewerCallType ==
  /\ [op |-> "Get", id |-> ViewedID] \in Call
  /\ \A password \in Passwords :
       [op |-> "DataWithPassword", id |-> ViewedID, password |-> password] \in Call
BY ViewerAssumption DEF Call, ReadCall, LookupCall, PasswordCall

LEMMA LoadDataTyped ==
  ASSUME IInv, Typed, NEW v \in Viewers, NEW password \in Passwords, LoadData(v, password)
  PROVE  Typed'
<1>1. db' \in Databases /\ clock' \in Nat /\ CallsOK'
  <2>1. CASE UNCHANGED backend
    BY <2>1 DEF Typed, backend, CallsOK
  <2>2. CASE /\ HeaderValue[password] # Unsendable
             /\ Send(v, [op |-> "DataWithPassword", id |-> ViewedID,
                         password |-> HeaderValue[password]])
    <3>1. HeaderValue[password] \in Passwords
      BY <2>2, ViewerAssumption
    <3>2. v \in Slots /\ API!Receive(v) /\ call'[v] \in Call
      BY <2>2, <3>1, ViewerCallType DEF Send, Slots
    <3>. QED
      BY <3>2, SlotTyped DEF IInv
  <2>. QED
    BY <2>1, <2>2 DEF LoadData
<1>2. entered' \in [Viewers -> Passwords] /\ code' \in [Viewers -> Codes]
  BY DEF LoadData, Typed, Codes
<1>3. /\ page'[v] \in {LoadFailed, Loading} /\ offered'[v] = {db[ViewedID]}
      /\ \A w \in Viewers \ {v} : page'[w] = page[w] /\ offered'[w] = offered[w]
  BY DEF LoadData, Show, IInv, TabShape
<1>4. db[ViewedID] \in Share \cup {NoShare}
  BY ViewerAssumption DEF Typed, Databases
<1>5. ASSUME NEW w \in Viewers
      PROVE  PageOK(page'[w]) /\ offered'[w] \subseteq Share \cup {NoShare}
  BY <1>3, <1>4, PlainPagesOK DEF Typed
<1>. QED
  BY <1>1, <1>2, <1>5 DEF Typed, PageOK

(* A step that changes only what one tab shows.                            *)
LEMMA ShowTyped ==
  ASSUME TabShape, Typed, NEW v \in Viewers, NEW p, Show(v, p), PageOK(p),
         db' \in Databases, clock' \in Nat, CallsOK', offered' = offered,
         entered' \in [Viewers -> Passwords], code' \in [Viewers -> Codes]
  PROVE  Typed'
<1>1. \A w \in Viewers : PageOK(page'[w])
  BY DEF Show, TabShape, Typed
<1>. QED
  BY <1>1 DEF Typed, PageOK

LEMMA TabTyped ==
  ASSUME IInv, Typed, NEW v \in Viewers, TabStep(v)
  PROVE  Typed'
<1> USE DEF IInv
<1>0. v \in Slots /\ entered \in [Viewers -> Passwords] /\ code \in [Viewers -> Codes]
  BY DEF Slots, Typed
<1>1. CASE Mount(v)
  BY <1>1, LoadDataTyped, PasswordAssumption DEF Mount
<1>2. CASE SubmitPassword(v)
  BY <1>2, LoadDataTyped DEF SubmitPassword
<1>3. CASE Open(v)
  <2>1. API!Receive(v) /\ call'[v] \in Call
    BY <1>3, ViewerCallType DEF Open, Send
  <2>2. db' \in Databases /\ clock' \in Nat /\ CallsOK'
    BY <1>0, <2>1, SlotTyped
  <2>. QED
    BY <1>0, <1>3, <2>2, PlainPagesOK, ShowTyped DEF Open
<1>4. CASE ServePage(v)
  <2>2. db' \in Databases /\ clock' \in Nat /\ CallsOK'
    BY <1>0, <1>4, SlotTyped DEF ServePage
  <2>. QED
    BY <1>0, <1>4, <2>2, PlainPagesOK, ShowTyped DEF ServePage
<1>5. CASE ReceiveData(v)
  <2>1. db' \in Databases /\ clock' \in Nat /\ CallsOK'
    BY <1>0, <1>5, SlotTyped DEF ReceiveData
  <2>2. phase[v] = "answered" /\ Fetching(v)
    BY <1>5 DEF ReceiveData, API!Respond
  <2>3. PICK share \in offered[v] : Fits(reply[v], share, HeaderValue[entered[v]])
    BY <2>2 DEF TabsInv, TabInv, LoadingInv
  <2>4. share \in Share \cup {NoShare} /\ (entered[v] # NoPassword) \in BOOLEAN
    BY DEF Typed
  <2>5. PageOK(LoadedPage(reply[v], entered[v] # NoPassword))
    BY <2>3, <2>4, LoadedPageType
  <2>6. code' \in [Viewers -> Codes]
    BY <1>0, <1>5, ResponseType DEF ReceiveData
  <2>. QED
    BY <1>0, <1>5, <2>1, <2>5, <2>6, ShowTyped DEF ReceiveData
<1>6. CASE LoseConnection(v)
  <2>1. db' \in Databases /\ clock' \in Nat /\ CallsOK'
    BY <1>6 DEF LoseConnection, backend, Typed, CallsOK
  <2>. QED
    BY <1>0, <1>6, <2>1, PlainPagesOK, ShowTyped DEF LoseConnection
<1>7. CASE Close(v)
  <2>1. db' \in Databases /\ clock' \in Nat /\ CallsOK'
    BY <1>7 DEF Close, backend, Typed, CallsOK
  <2>2. entered' \in [Viewers -> Passwords] /\ code' \in [Viewers -> Codes]
    BY <1>0, <1>7, PasswordAssumption DEF Close, Codes
  <2>3. \A w \in Viewers : PageOK(page'[w]) /\ offered'[w] \subseteq Share \cup {NoShare}
    BY <1>7, PlainPagesOK DEF Close, Show, TabShape, Typed
  <2>. QED
    BY <2>1, <2>2, <2>3 DEF Typed, PageOK
<1>8. CASE DropAnswer(v)
  <2>1. db' \in Databases /\ clock' \in Nat /\ CallsOK'
    BY <1>0, <1>8, SlotTyped DEF DropAnswer
  <2>. QED
    BY <1>8, <2>1 DEF DropAnswer, Typed, PageOK
<1>. QED
  BY <1>1, <1>2, <1>3, <1>4, <1>5, <1>6, <1>7, <1>8 DEF TabStep

LEMMA TakeEffectTyped ==
  ASSUME IInv, Typed, NEW r \in Slots, TakeEffect(r)
  PROVE  Typed'
<1>1. phase[r] = "called" /\ call[r] \in Call
  BY DEF TakeEffect, API!TakeEffect, Typed, CallsOK
<1>2. db' \in Databases
  <2>1. PICK o \in API!Outcomes(db, call[r]) : db' = o.db
    BY DEF TakeEffect, API!TakeEffect
  <2>. QED
    BY <1>1, <2>1, OutcomeType DEF Typed
<1>3. CallsOK' /\ clock' \in Nat
  BY DEF TakeEffect, API!TakeEffect, Typed, CallsOK, IInv, SlotShape
<1>4. \A v \in Viewers : offered'[v] \subseteq Share \cup {NoShare}
  <2>1. db'[ViewedID] \in Share \cup {NoShare}
    BY <1>2, ViewerAssumption DEF Databases
  <2>2. \A v \in Viewers : offered'[v] \subseteq offered[v] \cup {db'[ViewedID]}
    BY DEF TakeEffect, NoteVersion
  <2>. QED
    BY <2>1, <2>2 DEF Typed
<1>. QED
  BY <1>2, <1>3, <1>4 DEF TakeEffect, Typed, PageOK

LEMMA StepTyped ==
  ASSUME IInv, Typed, [Next]_vars
  PROVE  Typed'
<1>1. CASE UNCHANGED vars
  BY <1>1 DEF vars, Typed, CallsOK, PageOK
<1>2. ASSUME NEW o \in Others, OtherStep(o)
      PROVE  Typed'
  <2>1. o \in Slots /\ (API!Respond(o) \/ (API!Receive(o) /\ call'[o] \in Call))
    BY <1>2, ViewerAssumption DEF OtherStep, Slots
  <2>2. db' \in Databases /\ clock' \in Nat /\ CallsOK'
    BY <2>1, SlotTyped DEF IInv
  <2>. QED
    BY <1>2, <2>2 DEF OtherStep, Typed, PageOK
<1>3. CASE Restart
  BY <1>3 DEF Restart, API!Crash, Typed, CallsOK, PageOK, Slots
<1>. QED
  BY <1>1, <1>2, <1>3, TabTyped, TakeEffectTyped DEF Next, Slots

(* Pages, passwords, codes and noted versions have their types: whatever   *)
(* the calls, the events a tab renders are events of a share.              *)
THEOREM TypeCorrect == Spec => []TypeOK
<1>1. ASSUME Init
      PROVE  Typed
  <2>1. db \in Databases /\ clock \in Nat /\ CallsOK
    BY <1>1 DEF Init, API!Init, Databases, CallsOK, Slots
  <2>2. entered \in [Viewers -> Passwords] /\ code \in [Viewers -> Codes]
    BY <1>1, PasswordAssumption DEF Init, Codes
  <2>3. \A v \in Viewers : page[v] = Closed /\ offered[v] = {}
    BY <1>1 DEF Init
  <2>. QED
    BY <2>1, <2>2, <2>3, PlainPagesOK DEF Typed
<1>2. Typed => TypeOK
  BY DEF Typed, TypeOK, PageOK, Statuses, Codes
<1>. QED
  BY <1>1, <1>2, InitInv, StepInv, StepTyped, PTL DEF Spec
=============================================================================
