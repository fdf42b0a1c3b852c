---------------------------- MODULE ServerProcess ----------------------------
(***************************************************************************)
(* The life of server processes that are given one data file: main, the    *)
(* store's opening under a file lock, and the supervisor that starts a     *)
(* process again ("restart: unless-stopped").  What the handlers do with a *)
(* share is ShareService's matter; here a request creates or removes one.  *)
(***************************************************************************)
EXTENDS Naturals

CONSTANTS
  Processes,   \* server processes, each with its container and port
  Ports,       \* ports they may be told to listen on
  PortOf,      \* the port of each process
  Shares,      \* ids of shares
  None,        \* no process, no request
  MaxFailures  \* bound: crashes and failed starts

Requests == {"create", "remove"} \X Shares

(* A request a process works on, before and after its transaction.         *)
Work == Requests \X {"received", "committed"}

ASSUME ProcessAssumption == PortOf \in [Processes -> Ports] /\ None \notin Processes \cup Work
ASSUME FailureAssumption == MaxFailures \in Nat

VARIABLES
  phase,     \* where each process is in main
  lock,      \* the process that has the data file locked
  bound,     \* the process that listens on each port
  bucket,    \* whether the file has the bucket "shares"
  shares,    \* the ids committed to it
  pending,   \* the request each process works on
  promised,  \* what clients were told about each share
  failures   \* failures so far, for the bound only

vars == <<phase, lock, bound, bucket, shares, pending, promised, failures>>

Starting == {"opening", "opened", "initialised", "ready"}

Phases == Starting \cup {"down", "serving"}

Init ==
  /\ phase = [p \in Processes |-> "down"]
  /\ lock = None
  /\ bound = [port \in Ports |-> None]
  /\ bucket = FALSE
  /\ shares = {}
  /\ pending = [p \in Processes |-> None]
  /\ promised = [s \in Shares |-> "gone"]
  /\ failures = 0

Goes(p, from, to) == phase[p] = from /\ phase' = [phase EXCEPT ![p] = to]

(* The end of a process, however it comes: os.Exit runs no deferred Close, *)
(* but the system releases its file lock and its port.                     *)
Exit(p) ==
  /\ phase' = [phase EXCEPT ![p] = "down"]
  /\ lock' = IF lock = p THEN None ELSE lock
  /\ bound' = [port \in Ports |-> IF bound[port] = p THEN None ELSE bound[port]]
  /\ pending' = [pending EXCEPT ![p] = None]
  /\ UNCHANGED <<bucket, shares, promised>>

Fail == failures < MaxFailures /\ failures' = failures + 1

-----------------------------------------------------------------------------
(* The supervisor starts main.                                             *)
Launch(p) ==
  /\ Goes(p, "down", "opening")
  /\ UNCHANGED <<lock, bound, bucket, shares, pending, promised, failures>>

(* Broken variant: the file is opened without its lock.                    *)
OpenUnlocked(p) ==
  /\ Goes(p, "opening", "opened")
  /\ lock' = p
  /\ UNCHANGED <<bound, bucket, shares, pending, promised, failures>>

(* bbolt.Open takes the lock within a second ...                           *)
OpenStore(p) ==
  /\ lock = None
  /\ Goes(p, "opening", "opened")
  /\ lock' = p
  /\ UNCHANGED <<bound, bucket, shares, pending, promised, failures>>

(* Broken variant: it waits for the lock as long as it takes.              *)
OpenWaits(p) ==
  /\ phase[p] = "opening" /\ lock \notin {None, p}
  /\ UNCHANGED vars

(* ... or gives up: main exits.                                            *)
OpenTimesOut(p) ==
  /\ phase[p] = "opening" /\ lock \notin {None, p}
  /\ Exit(p)
  /\ UNCHANGED failures

(* Broken variant: the bucket is made anew.                                *)
RecreateBucket == bucket' = TRUE /\ shares' = {}

CreateBucketIfNotExists == bucket' = TRUE /\ shares' = shares

InitStore(p) ==
  /\ Goes(p, "opened", "initialised")
  /\ CreateBucketIfNotExists
  /\ UNCHANGED <<lock, bound, pending, promised, failures>>

(* The transaction fails and OpenStore closes the database, NewServer      *)
(* fails, or the port is taken by somebody else: main exits.               *)
StartFails(p) == phase[p] \in {"opened", "initialised", "ready"} /\ Fail /\ Exit(p)

NewServer(p) ==
  /\ Goes(p, "initialised", "ready")
  /\ UNCHANGED <<lock, bound, bucket, shares, pending, promised, failures>>

Listen(p) ==
  /\ bound[PortOf[p]] = None
  /\ Goes(p, "ready", "serving")
  /\ bound' = [bound EXCEPT ![PortOf[p]] = p]
  /\ UNCHANGED <<lock, bucket, shares, pending, promised, failures>>

(* The process is killed, or the machine stops.                            *)
Crash(p) == phase[p] # "down" /\ Fail /\ Exit(p)

-----------------------------------------------------------------------------
(* A request: what a client knows is open until the answer.                *)
Receive(p) ==
  /\ phase[p] = "serving" /\ pending[p] = None
  /\ \E request \in Requests :
       /\ pending' = [pending EXCEPT ![p] = <<request, "received">>]
       /\ promised' = [promised EXCEPT ![request[2]] = "open"]
  /\ UNCHANGED <<phase, lock, bound, bucket, shares, failures>>

(* Its transaction; without a bucket it would panic.                       *)
Commit(p) ==
  /\ phase[p] = "serving" /\ bucket
  /\ \E request \in Requests :
       /\ pending[p] = <<request, "received">>
       /\ shares' = IF request[1] = "create" THEN shares \cup {request[2]}
                    ELSE shares \ {request[2]}
       /\ pending' = [pending EXCEPT ![p] = <<request, "committed">>]
  /\ UNCHANGED <<phase, lock, bound, bucket, promised, failures>>

Answer(p) ==
  /\ phase[p] = "serving"
  /\ \E request \in Requests :
       /\ pending[p] = <<request, "committed">>
       /\ promised' = [promised EXCEPT ![request[2]] =
                         IF request[1] = "create" THEN "there" ELSE "gone"]
  /\ pending' = [pending EXCEPT ![p] = None]
  /\ UNCHANGED <<phase, lock, bound, bucket, shares, failures>>

-----------------------------------------------------------------------------
Start(p) ==
  OpenStore(p) \/ OpenTimesOut(p) \/ InitStore(p) \/ NewServer(p) \/ Listen(p)

Next ==
  \E p \in Processes :
    \/ Launch(p) \/ Start(p) \/ StartFails(p) \/ Crash(p)
    \/ Receive(p) \/ Commit(p) \/ Answer(p)

(* The supervisor restarts what has ended, and main runs.                  *)
Fairness == \A p \in Processes : WF_vars(Launch(p)) /\ WF_vars(Start(p))

Spec == Init /\ [][Next]_vars /\ Fairness

-----------------------------------------------------------------------------
(* Properties.                                                             *)

TypeOK ==
  /\ phase \in [Processes -> Phases]
  /\ lock \in Processes \cup {None}
  /\ bound \in [Ports -> Processes \cup {None}]
  /\ bucket \in BOOLEAN
  /\ shares \subseteq Shares
  /\ pending \in [Processes -> {None} \cup Work]
  /\ promised \in [Shares -> {"there", "gone", "open"}]
  /\ failures \in 0..MaxFailures

(* However processes are started, killed and started again over one data   *)
(* file, at most one works with it, which is the one that has it locked    *)
(* and listens on its port; a process that serves finds its bucket.        *)
OneProcessServes ==
  \A p \in Processes :
    /\ phase[p] \in {"opened", "initialised", "ready", "serving"} => lock = p
    /\ phase[p] = "serving" => bucket /\ bound[PortOf[p]] = p

(* What a client was told about a share stays true through every crash,    *)
(* failed start and change of process, until somebody asks for a change.   *)
AnswersSurvive ==
  \A s \in Shares :
    /\ promised[s] = "there" => s \in shares
    /\ promised[s] = "gone" => s \notin shares

(* Once the failures end, a process serves in the end and from then on,    *)
(* although the processes that lose the race for the file lock keep        *)
(* trying; and a process that loses it does not wait, it gives up.         *)
ServiceComesBack ==
  /\ <>[](\E p \in Processes : phase[p] = "serving")
  /\ \A p \in Processes : []<>(phase[p] # "opening")
=============================================================================
