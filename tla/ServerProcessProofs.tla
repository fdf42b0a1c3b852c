------------------------- MODULE ServerProcessProofs -------------------------
(***************************************************************************)
(* Proofs about ServerProcess for any processes, ports, shares and bound   *)
(* on failures: one process at a time works with the data file, and what   *)
(* clients were told survives whatever ends it.                            *)
(***************************************************************************)
EXTENDS ServerProcess, TLAPS

Owning == {"opened", "initialised", "ready", "serving"}

(* A process at work has the lock: no other process changes the file.      *)
OwnersHoldLock == \A p \in Processes : phase[p] \in Owning => lock = p

ReadyHaveBucket ==
  \A p \in Processes : phase[p] \in {"initialised", "ready", "serving"} => bucket

ServersListen == \A p \in Processes : phase[p] = "serving" => bound[PortOf[p]] = p

OnlyServersWork == \A p \in Processes : pending[p] # None => phase[p] = "serving"

(* While a request is worked on nobody relies on its share, and once it is *)
(* committed the share is what the answer will say.                        *)
OpenUntilAnswered ==
  \A p \in Processes, request \in Requests :
    /\ pending[p] = <<request, "received">> => promised[request[2]] = "open"
    /\ pending[p] = <<request, "committed">> =>
         /\ promised[request[2]] = "open"
         /\ request[2] \in shares <=> request[1] = "create"

(* The inductive invariant.                                                *)
IInv ==
  /\ TypeOK
  /\ OwnersHoldLock
  /\ ReadyHaveBucket
  /\ ServersListen
  /\ OnlyServersWork
  /\ OpenUntilAnswered
  /\ AnswersSurvive

-----------------------------------------------------------------------------
(* A request being worked on is one request in one stage.                  *)
LEMMA WorkFacts ==
  ASSUME NEW request \in Requests
  PROVE  /\ request[1] \in {"create", "remove"} /\ request[2] \in Shares
         /\ <<request, "received">> \in Work /\ <<request, "received">> # None
         /\ <<request, "committed">> \in Work /\ <<request, "committed">> # None
         /\ \A other : <<other, "received">> = <<request, "received">> => other = request
         /\ \A other : <<other, "committed">> = <<request, "committed">> => other = request
         /\ \A other : <<other, "received">> # <<request, "committed">>
BY ProcessAssumption DEF Work, Requests

(* Who works on nothing does not work on a request.                        *)
LEMMA IdleFacts ==
  ASSUME NEW work, work = None, NEW request \in Requests
  PROVE  work # <<request, "received">> /\ work # <<request, "committed">>
BY WorkFacts

(* What a process leaves behind, whatever ended it.                        *)
LEMMA ExitKeepsIInv ==
  ASSUME IInv, NEW p \in Processes, Exit(p), failures' \in 0..MaxFailures
  PROVE  IInv'
<1>. USE ProcessAssumption
<1>1. TypeOK'
  BY DEF IInv, TypeOK, Exit, Phases
<1>2. OwnersHoldLock' /\ ReadyHaveBucket'
  BY DEF IInv, TypeOK, OwnersHoldLock, ReadyHaveBucket, Owning, Exit
<1>3. ServersListen'
  BY DEF IInv, TypeOK, ServersListen, Exit
<1>4. OnlyServersWork'
  BY DEF IInv, TypeOK, OnlyServersWork, Exit
<1>6. OpenUntilAnswered'
  <2>1. SUFFICES ASSUME NEW q \in Processes, NEW request \in Requests
                 PROVE  /\ pending'[q] = <<request, "received">> => promised[request[2]] = "open"
                        /\ pending'[q] = <<request, "committed">> =>
                             /\ promised[request[2]] = "open"
                             /\ request[2] \in shares <=> request[1] = "create"
    BY DEF OpenUntilAnswered, Exit
  <2>2. CASE q = p
    <3>1. pending'[q] = None
      BY <2>2 DEF Exit, IInv, TypeOK
    <3>. QED
      BY <3>1, IdleFacts
  <2>3. CASE q # p
    BY <2>3 DEF Exit, IInv, TypeOK, OpenUntilAnswered
  <2>. QED
    BY <2>2, <2>3
<1>7. AnswersSurvive'
  BY DEF IInv, AnswersSurvive, Exit
<1>. QED
  BY <1>1, <1>2, <1>3, <1>4, <1>6, <1>7 DEF IInv

(* The steps of main while it starts change no share and no request.       *)
LEMMA StartKeepsIInv ==
  ASSUME IInv, NEW p \in Processes,
         Launch(p) \/ OpenStore(p) \/ InitStore(p) \/ NewServer(p) \/ Listen(p)
  PROVE  IInv'
<1>. USE ProcessAssumption
<1>1. pending[p] = None /\ pending' = pending /\ shares' = shares /\ promised' = promised
  BY DEF IInv, OnlyServersWork, Launch, OpenStore, InitStore, NewServer, Listen, Goes,
         CreateBucketIfNotExists
<1>2. TypeOK'
  BY <1>1 DEF IInv, TypeOK, Launch, OpenStore, InitStore, NewServer, Listen, Goes,
              CreateBucketIfNotExists, Phases, Starting
<1>3. OwnersHoldLock' /\ ReadyHaveBucket'
  BY DEF IInv, TypeOK, OwnersHoldLock, ReadyHaveBucket, Owning, Launch, OpenStore, InitStore,
         NewServer, Listen, Goes, CreateBucketIfNotExists
<1>4. ServersListen'
  BY DEF IInv, TypeOK, ServersListen, Launch, OpenStore, InitStore, NewServer, Listen, Goes,
         CreateBucketIfNotExists
<1>5. OnlyServersWork'
  BY <1>1 DEF IInv, TypeOK, OnlyServersWork, Launch, OpenStore, InitStore, NewServer, Listen, Goes
<1>6. OpenUntilAnswered' /\ AnswersSurvive'
  BY <1>1 DEF IInv, OpenUntilAnswered, AnswersSurvive
<1>. QED
  BY <1>2, <1>3, <1>4, <1>5, <1>6 DEF IInv

(* A request from its receipt to its answer.                               *)
LEMMA RequestKeepsIInv ==
  ASSUME IInv, NEW p \in Processes, Receive(p) \/ Commit(p) \/ Answer(p)
  PROVE  IInv'
<1>. USE ProcessAssumption
<1>1. phase[p] = "serving" /\ phase' = phase /\ lock' = lock /\ bound' = bound
      /\ bucket' = bucket /\ failures' = failures
  BY DEF Receive, Commit, Answer
<1>2. OwnersHoldLock' /\ ReadyHaveBucket' /\ ServersListen'
  BY <1>1 DEF IInv, OwnersHoldLock, ReadyHaveBucket, ServersListen
(* No other process works on anything.                                     *)
<1>3. \A q \in Processes \ {p} : pending[q] = None /\ pending'[q] = None
  <2>1. \A q \in Processes \ {p} : pending[q] = None
    BY <1>1 DEF IInv, OwnersHoldLock, OnlyServersWork, Owning
  <2>2. \A q \in Processes \ {p} : pending'[q] = pending[q]
    BY DEF IInv, TypeOK, Receive, Commit, Answer
  <2>. QED
    BY <2>1, <2>2
<1>4. OnlyServersWork'
  BY <1>1, <1>3 DEF OnlyServersWork
<1>6. CASE Receive(p)
  <2>1. PICK request \in Requests :
          /\ pending' = [pending EXCEPT ![p] = <<request, "received">>]
          /\ promised' = [promised EXCEPT ![request[2]] = "open"]
    BY <1>6 DEF Receive
  <2>2. shares' = shares
    BY <1>6 DEF Receive
  <2>3. TypeOK'
    BY <1>1, <2>1, <2>2, WorkFacts DEF IInv, TypeOK
  <2>4. AnswersSurvive'
    BY <2>1, <2>2, WorkFacts DEF IInv, TypeOK, AnswersSurvive
  <2>5. OpenUntilAnswered'
    <3>1. pending'[p] = <<request, "received">> /\ promised'[request[2]] = "open"
      BY <2>1, WorkFacts DEF IInv, TypeOK
    <3>2. \A other \in Requests :
            /\ pending'[p] = <<other, "received">> => other = request
            /\ pending'[p] # <<other, "committed">>
      BY <3>1, WorkFacts
    <3>3. \A q \in Processes \ {p}, other \in Requests :
            pending'[q] \notin {<<other, "received">>, <<other, "committed">>}
      BY <1>3, WorkFacts
    <3>. QED
      BY <3>1, <3>2, <3>3 DEF OpenUntilAnswered
  <2>. QED
    BY <1>2, <1>4, <2>3, <2>4, <2>5 DEF IInv
<1>7. CASE Commit(p)
  <2>1. PICK request \in Requests :
          /\ pending[p] = <<request, "received">>
          /\ shares' = IF request[1] = "create" THEN shares \cup {request[2]}
                       ELSE shares \ {request[2]}
          /\ pending' = [pending EXCEPT ![p] = <<request, "committed">>]
    BY <1>7 DEF Commit
  <2>2. promised' = promised /\ promised[request[2]] = "open"
    BY <1>7, <2>1 DEF Commit, IInv, OpenUntilAnswered
  <2>3. TypeOK'
    BY <1>1, <2>1, <2>2, WorkFacts DEF IInv, TypeOK
  <2>4. AnswersSurvive'
    BY <2>1, <2>2, WorkFacts DEF IInv, TypeOK, AnswersSurvive
  <2>5. OpenUntilAnswered'
    <3>1. pending'[p] = <<request, "committed">> /\ promised'[request[2]] = "open"
      BY <2>1, <2>2 DEF IInv, TypeOK
    <3>2. request[2] \in shares' <=> request[1] = "create"
      BY <2>1, WorkFacts
    <3>3. \A other \in Requests :
            /\ pending'[p] = <<other, "committed">> => other = request
            /\ pending'[p] # <<other, "received">>
      BY <3>1, WorkFacts
    <3>4. \A q \in Processes \ {p}, other \in Requests :
            pending'[q] \notin {<<other, "received">>, <<other, "committed">>}
      BY <1>3, WorkFacts
    <3>. QED
      BY <3>1, <3>2, <3>3, <3>4 DEF OpenUntilAnswered
  <2>. QED
    BY <1>2, <1>4, <2>3, <2>4, <2>5 DEF IInv
<1>8. CASE Answer(p)
  <2>1. PICK request \in Requests :
          /\ pending[p] = <<request, "committed">>
          /\ promised' = [promised EXCEPT ![request[2]] =
                            IF request[1] = "create" THEN "there" ELSE "gone"]
    BY <1>8 DEF Answer
  <2>2. shares' = shares /\ pending' = [pending EXCEPT ![p] = None]
    BY <1>8 DEF Answer
  <2>3. request[2] \in shares <=> request[1] = "create"
    BY <2>1 DEF IInv, OpenUntilAnswered
  <2>4. TypeOK'
    BY <1>1, <2>1, <2>2, WorkFacts DEF IInv, TypeOK
  <2>5. AnswersSurvive'
    BY <2>1, <2>2, <2>3, WorkFacts DEF IInv, TypeOK, AnswersSurvive
  <2>6. OpenUntilAnswered'
    <3>1. \A q \in Processes : pending'[q] = None
      BY <1>3, <2>2 DEF IInv, TypeOK
    <3>. QED
      BY <3>1, WorkFacts DEF OpenUntilAnswered
  <2>. QED
    BY <1>2, <1>4, <2>4, <2>5, <2>6 DEF IInv
<1>. QED
  BY <1>6, <1>7, <1>8

-----------------------------------------------------------------------------
(* At first every process is down and nobody was told anything.            *)
LEMMA InitIInv == Init => IInv
<1>. SUFFICES ASSUME Init PROVE IInv
  OBVIOUS
<1>1. TypeOK
  <2>1. failures \in 0..MaxFailures
    BY FailureAssumption DEF Init
  <2>2. phase \in [Processes -> Phases]
    BY DEF Init, Phases
  <2>3. pending \in [Processes -> {None} \cup Work] /\ bound \in [Ports -> Processes \cup {None}]
    BY DEF Init
  <2>. QED
    BY <2>1, <2>2, <2>3 DEF Init, TypeOK
<1>3. OwnersHoldLock /\ ReadyHaveBucket /\ ServersListen /\ OnlyServersWork /\ AnswersSurvive
  BY DEF Init, OwnersHoldLock, ReadyHaveBucket, ServersListen, OnlyServersWork, AnswersSurvive, Owning
<1>4. OpenUntilAnswered
  BY WorkFacts DEF Init, OpenUntilAnswered
<1>. QED
  BY <1>1, <1>3, <1>4 DEF IInv

(* Steps that end a process, steps of main and steps of a request.         *)
LEMMA NextKeepsIInv == IInv /\ [Next]_vars => IInv'
<1>. SUFFICES ASSUME IInv, [Next]_vars PROVE IInv'
  OBVIOUS
<1>1. ASSUME NEW p \in Processes, StartFails(p) \/ Crash(p) \/ OpenTimesOut(p) PROVE IInv'
  <2>1. Exit(p)
    BY <1>1 DEF StartFails, Crash, OpenTimesOut
  <2>2. failures' \in 0..MaxFailures
    BY <1>1, FailureAssumption DEF StartFails, Crash, OpenTimesOut, Fail, IInv, TypeOK
  <2>. QED
    BY <2>1, <2>2, ExitKeepsIInv
<1>2. CASE Next
  <2>1. PICK p \in Processes : \/ Launch(p) \/ Start(p) \/ StartFails(p) \/ Crash(p)
                               \/ Receive(p) \/ Commit(p) \/ Answer(p)
    BY <1>2 DEF Next
  <2>. QED
    BY <1>1, <2>1, StartKeepsIInv, RequestKeepsIInv DEF Start
<1>3. CASE UNCHANGED vars
  BY <1>3 DEF vars, IInv, TypeOK, OwnersHoldLock, ReadyHaveBucket, ServersListen, OnlyServersWork,
              OpenUntilAnswered, AnswersSurvive
<1>. QED
  BY <1>2, <1>3

(* The inductive invariant holds in every reachable state.                 *)
THEOREM Invariance == Spec => []IInv
BY InitIInv, NextKeepsIInv, PTL DEF Spec

(* Every variable keeps its type: a crash or a failed start leaves no      *)
(* half-owned lock, port or request.                                       *)
THEOREM TypeCorrect == Spec => []TypeOK
<1>1. IInv => TypeOK
  BY DEF IInv
<1>. QED
  BY <1>1, Invariance, PTL

(* However many processes are started over one data file, one works with   *)
(* it, and it listens and has its bucket when it serves.                   *)
THEOREM OneServer == Spec => []OneProcessServes
<1>1. IInv => OneProcessServes
  BY DEF IInv, OneProcessServes, OwnersHoldLock, ReadyHaveBucket, ServersListen, Owning
<1>. QED
  BY <1>1, Invariance, PTL

(* What a client was told of a share survives crashes, failed starts and   *)
(* changes of process.                                                     *)
THEOREM Durable == Spec => []AnswersSurvive
<1>1. IInv => AnswersSurvive
  BY DEF IInv
<1>. QED
  BY <1>1, Invariance, PTL
=============================================================================
