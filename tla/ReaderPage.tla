----------------------------- MODULE ReaderPage -----------------------------
(***************************************************************************)
(* A reader at the share page once it is shown: what is unfolded, which    *)
(* drawer is open and what it shows, and the copy buttons of the code      *)
(* blocks.  A component keeps this state only while it is mounted: what    *)
(* closes destroys the components in it with their state and timers, but   *)
(* not the clipboard calls they wait for, whose answers start timers for   *)
(* blocks that are gone.  The elements of a page are those                 *)
(* ReaderPanels!ShareApp puts on it.                                       *)
(***************************************************************************)
EXTENDS UnifiedDiff

CONSTANTS
  Elements,   \* names of elements
  Pages,      \* pages: what is on them and where, see IsPage
  Nothing,    \* what a drawer shows before anything was chosen
  MaxClicks   \* bound: clicks of one reader

(* "holders" are the collapses and drawers an element is in, "openers" the *)
(* ones the buttons that open a drawer are in, "choices" what they choose; *)
(* "forgets" are the drawers whose choice is reset with them; "diff" is    *)
(* what became of the lines of each file of the diff on the page.          *)
IsPage(p) ==
  /\ p.elements \subseteq Elements
  /\ p.kind \in [p.elements -> {"collapse", "drawer", "block"}]
  /\ p.holders \in [p.elements -> SUBSET p.elements]
  /\ p.openers \in [p.elements -> SUBSET p.elements]
  /\ \A e \in p.elements : \A h \in p.holders[e] : p.holders[h] \subseteq p.holders[e]
  /\ p.unfolded \subseteq {e \in p.elements : p.kind[e] = "collapse" /\ p.holders[e] = {}}
  /\ p.forgets \subseteq p.elements
  /\ \A e \in p.elements : Nothing \notin p.choices[e]
  /\ p.clipboard \in BOOLEAN
  /\ p.diff \in Seq(Seq(Edits))

ASSUME PagesAssumption == \A p \in Pages : IsPage(p)
ASSUME ClicksAssumption == MaxClicks \in Nat

VARIABLES
  page,      \* the page: never changes
  open,      \* its open collapses and drawers
  shown,     \* what each drawer was last opened for
  label,     \* what each copy button says
  timers,    \* the blocks whose label a timer will reset
  copying,   \* how many clipboard calls each block waits for
  orphans,   \* how many calls each destroyed block still waits for
  late,      \* the destroyed blocks a timer is running for
  clicks     \* clicks so far; the one that destroys a block identifies it

vars == <<page, open, shown, label, timers, copying, orphans, late, clicks>>

Labels == {"idle", "copied", "unavailable"}

OfKind(kind) == {e \in page.elements : page.kind[e] = kind}

Mounted(e) == page.holders[e] \subseteq open

(* The code block of an element that a click destroyed.                    *)
Destroyed == OfKind("block") \X (1..MaxClicks)

Init ==
  /\ page \in Pages
  /\ open = page.unfolded
  /\ shown = [e \in page.elements |-> Nothing]
  /\ label = [e \in page.elements |-> "idle"]
  /\ timers = {}
  /\ copying = [e \in page.elements |-> 0]
  /\ orphans = [i \in Destroyed |-> 0]
  /\ late = {}
  /\ clicks = 0

Click == clicks < MaxClicks /\ clicks' = clicks + 1 /\ page' = page

-----------------------------------------------------------------------------
(* What is inside the elements that close.                                 *)
Inside(closing) == {e \in page.elements : page.holders[e] \cap closing # {}}

(* Broken variant: only what is open is closed, its components live on.    *)
CloseOnly(closing) ==
  /\ open' = open \ closing
  /\ shown' = [e \in page.elements |->
                 IF e \in closing \cap page.forgets THEN Nothing ELSE shown[e]]
  /\ UNCHANGED <<label, timers, copying, orphans, late>>

(* Close elements: the components in them are destroyed.  onDestroy clears *)
(* the timer of a block; the answers it waits for still come.              *)
Close(closing) ==
  LET gone == Inside(closing)
  IN  /\ open' = open \ (closing \cup gone)
      /\ shown' = [e \in page.elements |->
                     IF e \in gone \cup (closing \cap page.forgets) THEN Nothing ELSE shown[e]]
      /\ label' = [e \in page.elements |-> IF e \in gone THEN "idle" ELSE label[e]]
      /\ timers' = timers \ gone
      /\ copying' = [e \in page.elements |-> IF e \in gone THEN 0 ELSE copying[e]]
      /\ orphans' = [i \in Destroyed |->
                       IF i[1] \in gone /\ i[2] = clicks' THEN copying[i[1]] ELSE orphans[i]]
      /\ late' = late

Unfold(c) ==
  /\ Click
  /\ Mounted(c) /\ c \notin open
  /\ open' = open \cup {c}
  /\ UNCHANGED <<shown, label, timers, copying, orphans, late>>

Fold(c) == Click /\ c \in open /\ Close({c})

(* A button of the drawer's component; a drawer that is open does not keep *)
(* the keyboard from the buttons behind it.                                *)
OpenDrawer(d) ==
  /\ Click
  /\ Mounted(d) /\ page.openers[d] \subseteq open
  /\ \E choice \in page.choices[d] : shown' = [shown EXCEPT ![d] = choice]
  /\ open' = open \cup {d}
  /\ UNCHANGED <<label, timers, copying, orphans, late>>

(* The drawer's own button, or its backdrop.                               *)
CloseDrawer(d) == Click /\ d \in open /\ Close({d})

(* Every open drawer listens to the window's keys.                         *)
Escape == Click /\ open \cap OfKind("drawer") # {} /\ Close(open \cap OfKind("drawer"))

-----------------------------------------------------------------------------
(* Broken variant: no timer is set.                                        *)
LabelOnly(b, text) == label' = [label EXCEPT ![b] = text] /\ timers' = timers

(* CodeBlock's copy button says how it went, until a timer resets it; a    *)
(* second timer replaces the first.                                        *)
SetLabel(b, text) == label' = [label EXCEPT ![b] = text] /\ timers' = timers \cup {b}

CopyCode(b) ==
  /\ Click
  /\ Mounted(b)
  /\ IF page.clipboard THEN copying' = [copying EXCEPT ![b] = @ + 1] /\ UNCHANGED <<label, timers>>
     ELSE SetLabel(b, "unavailable") /\ UNCHANGED copying
  /\ UNCHANGED <<open, shown, orphans, late>>

CopyEnds(b) ==
  /\ copying[b] > 0
  /\ copying' = [copying EXCEPT ![b] = @ - 1]
  /\ SetLabel(b, "copied") \/ SetLabel(b, "unavailable")
  /\ UNCHANGED <<page, open, shown, orphans, late, clicks>>

(* The answer to a destroyed block does for it what it does for any: it    *)
(* sets its label, which no page shows, and starts its timer, after        *)
(* onDestroy, so that nothing will clear it.                               *)
OrphanEnds(i) ==
  /\ orphans[i] > 0
  /\ orphans' = [orphans EXCEPT ![i] = @ - 1]
  /\ late' = late \cup {i}
  /\ UNCHANGED <<page, open, shown, label, timers, copying, clicks>>

LateTimerFires(i) ==
  /\ i \in late
  /\ late' = late \ {i}
  /\ UNCHANGED <<page, open, shown, label, timers, copying, orphans, clicks>>

TimerFires(b) ==
  /\ b \in timers
  /\ label' = [label EXCEPT ![b] = "idle"]
  /\ timers' = timers \ {b}
  /\ UNCHANGED <<page, open, shown, copying, orphans, late, clicks>>

Next ==
  \/ \E c \in OfKind("collapse") : Unfold(c) \/ Fold(c)
  \/ \E d \in OfKind("drawer") : OpenDrawer(d) \/ CloseDrawer(d)
  \/ Escape
  \/ \E b \in OfKind("block") : CopyCode(b) \/ CopyEnds(b) \/ TimerFires(b)
  \/ \E i \in Destroyed : OrphanEnds(i) \/ LateTimerFires(i)

(* The browser fires timers; whether it answers a clipboard call may be up *)
(* to the reader, who is asked for permission.                             *)
Fairness == \A b \in Elements : WF_vars(b \in OfKind("block") /\ TimerFires(b))

Spec == Init /\ [][Next]_vars /\ Fairness

-----------------------------------------------------------------------------
(* Properties.                                                             *)

TypeOK ==
  /\ IsPage(page)
  /\ open \subseteq page.elements
  /\ shown \in [page.elements -> {Nothing} \cup UNION {page.choices[e] : e \in page.elements}]
  /\ label \in [page.elements -> Labels]
  /\ timers \subseteq page.elements
  /\ copying \in [page.elements -> Nat]
  /\ orphans \in [Destroyed -> Nat]
  /\ late \subseteq Destroyed
  /\ clicks \in 0..MaxClicks

(* What the page keeps for an element belongs to a component that is on    *)
(* the screen: what is open, whose label a timer will change, what waits   *)
(* for the clipboard.  A component that appears again starts afresh,       *)
(* though the answers to the one it replaces may still come and start      *)
(* timers: they never put a label on it.  Every label that is not the      *)
(* usual one has a timer that will reset it, and a drawer that is open     *)
(* shows one of the things its buttons choose.                             *)
StateIsOnScreen ==
  \A e \in page.elements :
    /\ (e \in open \cup timers \/ copying[e] > 0) => Mounted(e)
    /\ label[e] # "idle" => e \in timers
    /\ e \in open /\ page.kind[e] = "drawer" => shown[e] \in page.choices[e]

(* A copy button that says how it went will say "copy" again, however      *)
(* often it is clicked and whatever else is opened and closed.             *)
LabelsReturn ==
  \A b \in Elements :
    (b \in page.elements /\ label[b] # "idle") ~> (b \in page.elements /\ label[b] = "idle")

(* The diff viewer shows the lines of a change in order, each with its     *)
(* numbers in the old and the new file, also for the second file of a      *)
(* patch and after hunks that only add or only remove, and the badges      *)
(* count the rows shown as added and removed; what it gets wrong stays     *)
(* inside its hunk.  A removed line that begins with "--" or an added one  *)
(* that begins with "++" is taken for a file's header: it has no row, the  *)
(* badges miss it and the numbers after it in the hunk are one too small   *)
(* on its side; after git's note that a file does not end in a newline     *)
(* they are one too large.                                                 *)
DiffNumbersAreTrue ==
  LET patch == FlattenSeq([i \in DOMAIN page.diff |-> PatchOf(page.diff[i])])
      rows == FlattenSeq([i \in DOMAIN page.diff |-> RowsOf(page.diff[i])])
      parsed == ParseUnifiedDiff(patch)
  IN  /\ Numbered(parsed.lines) = rows
      /\ Len(parsed.lines) = Len(patch)
      /\ parsed.additions = CountOf(rows, "add") /\ parsed.deletions = CountOf(rows, "remove")
      /\ parsed.ok <=> \E i \in DOMAIN page.diff : \E n \in DOMAIN page.diff[i] : page.diff[i][n] # "skip"
=============================================================================
