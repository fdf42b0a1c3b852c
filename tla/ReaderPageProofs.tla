-------------------------- MODULE ReaderPageProofs --------------------------
(***************************************************************************)
(* Proofs about ReaderPage for any pages, however many elements and        *)
(* however deeply they are inside one another, and any number of clicks.   *)
(***************************************************************************)
EXTENDS ReaderPage, FoldFacts

Parsing == INSTANCE FoldFacts WITH Op <- ParseLine

IInv == TypeOK /\ StateIsOnScreen

(* What is in an element that is destroyed is destroyed.                   *)
LEMMA InsideFacts ==
  ASSUME IsPage(page), NEW closing, NEW e \in page.elements, e \notin Inside(closing),
         NEW h \in page.holders[e]
  PROVE  h \in page.elements /\ h \notin closing /\ h \notin Inside(closing)
<1>1. page.holders[e] \subseteq page.elements
  BY DEF IsPage
<1>2. page.holders[e] \cap closing = {}
  BY DEF Inside
<1>3. page.holders[h] \subseteq page.holders[e]
  BY DEF IsPage
<1>. QED
  BY <1>1, <1>2, <1>3 DEF Inside

(* Whatever closes, the rest of the page goes on as before.                *)
LEMMA CloseKeepsIInv ==
  ASSUME IInv, NEW closing \in SUBSET page.elements, Close(closing), page' = page,
         clicks' \in 0..MaxClicks
  PROVE  IInv'
<1> DEFINE gone == Inside(closing)
<1>1. gone \subseteq page.elements
  BY DEF Inside
<1>2. /\ open' = open \ (closing \cup gone)
      /\ shown' = [e \in page.elements |->
                     IF e \in gone \cup (closing \cap page.forgets) THEN Nothing ELSE shown[e]]
      /\ label' = [e \in page.elements |-> IF e \in gone THEN "idle" ELSE label[e]]
      /\ timers' = timers \ gone
      /\ copying' = [e \in page.elements |-> IF e \in gone THEN 0 ELSE copying[e]]
      /\ orphans' = [i \in Destroyed |->
                       IF i[1] \in gone /\ i[2] = clicks' THEN copying[i[1]] ELSE orphans[i]]
      /\ late' = late
  BY DEF Close
<1>. HIDE DEF gone
<1>3. TypeOK'
  <2>1. Destroyed' = Destroyed /\ \A i \in Destroyed : i[1] \in page.elements
    BY DEF Destroyed, OfKind
  <2>2. orphans' \in [Destroyed' -> Nat] /\ late' \subseteq Destroyed'
    BY <1>2, <2>1 DEF IInv, TypeOK
  <2>. QED
    BY <1>1, <1>2, <2>2 DEF IInv, TypeOK, Labels
<1>4. StateIsOnScreen'
  <2>. SUFFICES ASSUME NEW e \in page.elements
                PROVE  /\ (e \in open' \cup timers' \/ copying'[e] > 0) => page.holders[e] \subseteq open'
                       /\ label'[e] # "idle" => e \in timers'
                       /\ e \in open' /\ page.kind[e] = "drawer" => shown'[e] \in page.choices[e]
    BY DEF StateIsOnScreen, Mounted
  <2>1. CASE e \in gone
    <3>1. e \notin open' \cup timers' /\ copying'[e] = 0 /\ label'[e] = "idle"
      BY <1>2, <2>1
    <3>. QED
      BY <3>1
  <2>2. CASE e \notin gone
    <3>1. copying'[e] = copying[e] /\ label'[e] = label[e]
      BY <1>2, <2>2
    <3>2. ASSUME e \in open' \cup timers' \/ copying'[e] > 0 PROVE page.holders[e] \subseteq open'
      <4>1. page.holders[e] \subseteq open
        BY <1>2, <3>1, <3>2 DEF IInv, StateIsOnScreen, Mounted
      <4>2. \A h \in page.holders[e] : h \notin closing /\ h \notin gone
        BY <2>2, InsideFacts DEF gone, IInv, TypeOK
      <4>. QED
        BY <1>2, <4>1, <4>2
    <3>3. label'[e] # "idle" => e \in timers'
      BY <1>2, <2>2, <3>1 DEF IInv, StateIsOnScreen
    <3>4. ASSUME e \in open', page.kind[e] = "drawer" PROVE shown'[e] \in page.choices[e]
      <4>1. e \in open /\ e \notin closing /\ shown'[e] = shown[e]
        BY <1>2, <2>2, <3>4
      <4>. QED
        BY <3>4, <4>1 DEF IInv, StateIsOnScreen
    <3>. QED
      BY <3>2, <3>3, <3>4
  <2>. QED
    BY <2>1, <2>2
<1>. QED
  BY <1>3, <1>4 DEF IInv

(* What unfolds is on the screen, and shows what its button chose.         *)
LEMMA OpenKeepsIInv ==
  ASSUME IInv, NEW e \in page.elements, (Unfold(e) /\ page.kind[e] = "collapse") \/ OpenDrawer(e),
         clicks' \in 0..MaxClicks
  PROVE  IInv'
<1>1. /\ page' = page /\ label' = label /\ timers' = timers /\ copying' = copying
      /\ orphans' = orphans /\ late' = late /\ Destroyed' = Destroyed /\ page.holders[e] \subseteq open /\ open' = open \cup {e}
  BY DEF Unfold, OpenDrawer, Click, Mounted, Destroyed, OfKind
<1>2. \/ shown' = shown /\ page.kind[e] = "collapse"
      \/ \E choice \in page.choices[e] : shown' = [shown EXCEPT ![e] = choice]
  BY DEF Unfold, OpenDrawer
<1>3. TypeOK'
  BY <1>1, <1>2 DEF IInv, TypeOK
<1>4. \A d \in page.elements :
        d \in open' /\ page.kind[d] = "drawer" => shown'[d] \in page.choices[d]
  BY <1>1, <1>2 DEF IInv, TypeOK, StateIsOnScreen
<1>. QED
  BY <1>1, <1>3, <1>4 DEF IInv, StateIsOnScreen, Mounted

(* The life of a label: a timer comes with it and goes with it.            *)
LEMMA CopyKeepsIInv ==
  ASSUME IInv, NEW b \in page.elements, CopyCode(b) \/ CopyEnds(b) \/ TimerFires(b),
         clicks' \in 0..MaxClicks
  PROVE  IInv'
<1>1. /\ page' = page /\ open' = open /\ shown' = shown
      /\ orphans' = orphans /\ late' = late /\ Destroyed' = Destroyed
  BY DEF CopyCode, CopyEnds, TimerFires, Click, SetLabel, Destroyed, OfKind
<1>2. \/ label' = label /\ timers' = timers
      \/ Mounted(b) /\ timers' = timers \cup {b}
         /\ \E text \in {"copied", "unavailable"} : label' = [label EXCEPT ![b] = text]
      \/ timers' = timers \ {b} /\ label' = [label EXCEPT ![b] = "idle"]
  BY DEF CopyCode, CopyEnds, TimerFires, SetLabel, IInv, StateIsOnScreen
<1>3. \/ copying' = copying
      \/ Mounted(b) /\ copying' = [copying EXCEPT ![b] = @ + 1]
      \/ copying[b] > 0 /\ copying' = [copying EXCEPT ![b] = @ - 1]
  BY DEF CopyCode, CopyEnds, TimerFires, SetLabel
<1>4. copying' \in [page.elements -> Nat]
  BY <1>3 DEF IInv, TypeOK
<1>5. TypeOK'
  BY <1>1, <1>2, <1>4 DEF IInv, TypeOK, Labels
<1>6. \A e \in page.elements : e \in timers' \/ copying'[e] > 0 => Mounted(e)
  BY <1>2, <1>3 DEF IInv, TypeOK, StateIsOnScreen
<1>7. \A e \in page.elements : label'[e] # "idle" => e \in timers'
  BY <1>2 DEF IInv, TypeOK, StateIsOnScreen
<1>. QED
  BY <1>1, <1>5, <1>6, <1>7 DEF IInv, StateIsOnScreen, Mounted

(* Answers to a destroyed block and its timer change nothing on the page.  *)
LEMMA LateKeepsIInv ==
  ASSUME IInv, NEW i \in Destroyed, OrphanEnds(i) \/ LateTimerFires(i)
  PROVE  IInv'
<1>1. UNCHANGED <<page, open, shown, label, timers, copying, clicks>> /\ Destroyed' = Destroyed
  BY DEF OrphanEnds, LateTimerFires, Destroyed, OfKind
<1>2. orphans' \in [Destroyed -> Nat] /\ late' \subseteq Destroyed
  BY DEF OrphanEnds, LateTimerFires, IInv, TypeOK
<1>. QED
  BY <1>1, <1>2 DEF IInv, TypeOK, StateIsOnScreen, Mounted

-----------------------------------------------------------------------------
(* The page is shown with some collapses unfolded, none inside another.    *)
LEMMA InitIInv == Init => IInv
<1>. SUFFICES ASSUME Init PROVE IInv
  OBVIOUS
<1>1. IsPage(page)
  BY PagesAssumption DEF Init
<1>2. page.unfolded \subseteq {e \in page.elements : page.kind[e] = "collapse" /\ page.holders[e] = {}}
  BY <1>1 DEF IsPage
<1>3. TypeOK
  BY <1>1, <1>2, ClicksAssumption DEF Init, TypeOK, Labels
<1>4. StateIsOnScreen
  BY <1>2 DEF Init, StateIsOnScreen, Mounted
<1>. QED
  BY <1>3, <1>4 DEF IInv

(* One case per action of the reader, the clipboard and the timers.        *)
LEMMA NextKeepsIInv == IInv /\ [Next]_vars => IInv'
<1>. SUFFICES ASSUME IInv, [Next]_vars PROVE IInv'
  OBVIOUS
<1>1. CASE Next
  <2>1. clicks' \in 0..MaxClicks
    <3>1. Click \/ clicks' = clicks
      BY <1>1 DEF Next, Unfold, Fold, OpenDrawer, CloseDrawer, Escape, CopyCode, CopyEnds,
                  TimerFires, OrphanEnds, LateTimerFires
    <3>. QED
      BY <3>1, ClicksAssumption DEF Click, IInv, TypeOK
  <2>2. ASSUME NEW e \in page.elements, Fold(e) \/ CloseDrawer(e) PROVE IInv'
    <3>1. Close({e}) /\ page' = page
      BY <2>2 DEF Fold, CloseDrawer, Click
    <3>. QED
      BY <2>1, <3>1, CloseKeepsIInv
  <2>3. CASE Escape
    <3>1. Close(open \cap OfKind("drawer")) /\ page' = page
      BY <2>3 DEF Escape, Click
    <3>2. open \cap OfKind("drawer") \subseteq page.elements
      BY DEF OfKind
    <3>. QED
      BY <2>1, <3>1, <3>2, CloseKeepsIInv
  <2>4. ASSUME NEW e \in OfKind("collapse"), Unfold(e) PROVE IInv'
    BY <2>1, <2>4, OpenKeepsIInv DEF OfKind
  <2>5. ASSUME NEW e \in OfKind("drawer"), OpenDrawer(e) PROVE IInv'
    BY <2>1, <2>5, OpenKeepsIInv DEF OfKind
  <2>6. ASSUME NEW b \in OfKind("block"),
               CopyCode(b) \/ CopyEnds(b) \/ TimerFires(b)
        PROVE IInv'
    BY <2>1, <2>6, CopyKeepsIInv DEF OfKind
  <2>. QED
    BY <1>1, <2>2, <2>3, <2>4, <2>5, <2>6, LateKeepsIInv DEF Next, OfKind
<1>2. CASE UNCHANGED vars
  BY <1>2 DEF vars, IInv, TypeOK, StateIsOnScreen, Mounted, Destroyed, OfKind
<1>. QED
  BY <1>1, <1>2

(* The inductive invariant holds in every reachable state.                 *)
THEOREM Invariance == Spec => []IInv
BY InitIInv, NextKeepsIInv, PTL DEF Spec

(* On any page, and however a reader clicks and the clipboard answers:     *)
(* what is open, what a timer will change and what waits for the clipboard *)
(* belongs to a component on the screen, a label that is not the usual one *)
(* has its timer, and an open drawer shows a choice of its buttons.        *)
THEOREM StateAlwaysOnScreen == Spec => []StateIsOnScreen
<1>1. IInv => StateIsOnScreen
  BY DEF IInv
<1>. QED
  BY <1>1, Invariance, PTL
-----------------------------------------------------------------------------
(* The diff viewer's parser.                                               *)

(* What the parser's loop makes of lines, from what it made of the ones    *)
(* before.                                                                 *)
Run(parsed, lines) == Parsing!Folded(parsed, lines)

LEMMA ParseIsRun ==
  ASSUME NEW patch
  PROVE  ParseUnifiedDiff(patch) = Run(EmptyParse, patch)
BY DEF ParseUnifiedDiff, Run, FoldLeft, MapThenFoldSet, Max, Parsing!Folded, Parsing!MaxOf

LineRounds(P, p, lines, n) == P[0] = p /\ \A i \in 1..n : P[i] = ParseLine(P[i - 1], lines[i])

LEMMA RunIsLoop ==
  ASSUME NEW p, NEW lines, NEW n \in Nat, DOMAIN lines = 1..n
  PROVE  \E P : LineRounds(P, p, lines, n) /\ Run(p, lines) = P[n]
BY Parsing!FoldIsLoop DEF Run, LineRounds

LEMMA RunIs ==
  ASSUME NEW p, NEW lines, NEW n \in Nat, DOMAIN lines = 1..n,
         NEW Q, LineRounds(Q, p, lines, n)
  PROVE  Run(p, lines) = Q[n]
<1>1. PICK P : LineRounds(P, p, lines, n) /\ Run(p, lines) = P[n]
  BY RunIsLoop
<1> DEFINE T == {i \in 0..n : P[i] = Q[i]}
<1>2. 0 \in T
  <2>1. 0 \in 0..n
    OBVIOUS
  <2>. QED
    BY <1>1, <2>1 DEF LineRounds
<1>3. ASSUME NEW i \in 1..n, i - 1 \in T
      PROVE  i \in T
  <2>1. P[i] = ParseLine(P[i - 1], lines[i]) /\ Q[i] = ParseLine(Q[i - 1], lines[i])
    BY <1>1 DEF LineRounds
  <2>2. P[i - 1] = Q[i - 1]
    BY <1>3
  <2>3. i \in 0..n
    OBVIOUS
  <2>. QED
    BY <2>1, <2>2, <2>3
<1> HIDE DEF T
<1>4. \A i \in 0..n : i \in T
  BY <1>2, <1>3, LoopInduction
<1>5. n \in T
  <2>1. n \in 0..n
    OBVIOUS
  <2>. QED
    BY <1>4, <2>1
<1>. QED
  BY <1>1, <1>5 DEF T

LEMMA RunNothing ==
  ASSUME NEW p
  PROVE  Run(p, <<>>) = p
<1>1. DOMAIN <<>> = 1..0 /\ 0 \in Nat
  OBVIOUS
<1>2. PICK P : LineRounds(P, p, <<>>, 0) /\ Run(p, <<>>) = P[0]
  BY <1>1, RunIsLoop
<1>. QED
  BY <1>2 DEF LineRounds

LEMMA RunOne ==
  ASSUME NEW p, NEW line
  PROVE  Run(p, <<line>>) = ParseLine(p, line)
<1> DEFINE lines == <<line>>
<1>1. DOMAIN lines = 1..1 /\ 1 \in Nat /\ lines[1] = line
  OBVIOUS
<1> HIDE DEF lines
<1>2. PICK P : LineRounds(P, p, lines, 1) /\ Run(p, lines) = P[1]
  BY <1>1, RunIsLoop
<1>3. 1 \in 1..1 /\ 1 - 1 = 0
  OBVIOUS
<1>4. P[1] = ParseLine(P[0], lines[1])
  BY <1>2, <1>3 DEF LineRounds
<1>. QED
  BY <1>1, <1>2, <1>4 DEF lines, LineRounds

(* The loop takes joined lines one list after the other.                   *)
LEMMA RunJoined ==
  ASSUME NEW p, NEW X, NEW a \in Seq(X), NEW b \in Seq(X)
  PROVE  Run(p, a \o b) = Run(Run(p, a), b)
<1> DEFINE n == Len(a)
           m == Len(b)
           lines == a \o b
<1>1. /\ n \in Nat /\ m \in Nat /\ DOMAIN a = 1..n /\ DOMAIN b = 1..m
      /\ n + m \in Nat /\ DOMAIN lines = 1..n + m
      /\ \A i \in 1..n : lines[i] = a[i]
      /\ \A i \in 1..m : lines[n + i] = b[i]
  OBVIOUS
<1> HIDE DEF n, m, lines
<1>2. PICK P : LineRounds(P, p, lines, n + m) /\ Run(p, lines) = P[n + m]
  BY <1>1, RunIsLoop
<1>3. Run(p, a) = P[n]
  <2>1. \A i \in 1..n : i \in 1..n + m
    BY <1>1
  <2>2. LineRounds(P, p, a, n)
    BY <1>1, <1>2, <2>1 DEF LineRounds
  <2>. QED
    BY <1>1, <2>2, RunIs
<1> DEFINE Q == [i \in 0..m |-> P[n + i]]
<1>4. Q[0] = P[n] /\ Q[m] = P[n + m]
  BY <1>1
<1>5. ASSUME NEW i \in 1..m
      PROVE  Q[i] = ParseLine(Q[i - 1], b[i])
  <2>1. n + i \in 1..n + m /\ (n + i) - 1 = n + (i - 1) /\ i \in 0..m /\ i - 1 \in 0..m
    BY <1>1
  <2>2. P[n + i] = ParseLine(P[n + (i - 1)], lines[n + i])
    BY <1>2, <2>1 DEF LineRounds
  <2>3. Q[i] = P[n + i] /\ Q[i - 1] = P[n + (i - 1)]
    BY <2>1
  <2>4. lines[n + i] = b[i]
    BY <1>1
  <2>. QED
    BY <2>2, <2>3, <2>4
<1> HIDE DEF Q
<1>6. LineRounds(Q, P[n], b, m)
  BY <1>4, <1>5 DEF LineRounds
<1>7. Run(P[n], b) = Q[m]
  BY <1>1, <1>6, RunIs
<1>. QED
  BY <1>2, <1>3, <1>4, <1>7 DEF lines

LinePrefixes == MetaPrefixes \cup {"@@", "+", "-", " ", "", "\\"}

ShownLines ==
  [kind : {"hunk", "meta", "add", "remove", "context"}, prefix : LinePrefixes, old : Int, new : Int]

LEMMA NumberedStep ==
  ASSUME NEW lines \in Seq(ShownLines), NEW line \in ShownLines
  PROVE  /\ Numbered(lines) \in Seq(ShownLines)
         /\ Numbered(Append(lines, line)) =
              IF IsRow(line) THEN Append(Numbered(lines), line) ELSE Numbered(lines)
<1> DEFINE n == Len(lines)
           longer == Append(lines, line)
           I == {i \in DOMAIN lines : IsRow(lines[i])}
           J == {i \in DOMAIN longer : IsRow(longer[i])}
<1>1. /\ n \in Nat /\ DOMAIN lines = 1..n /\ DOMAIN longer = 1..n + 1 /\ longer[n + 1] = line
      /\ \A i \in 1..n : longer[i] = lines[i]
  OBVIOUS
<1> HIDE DEF n, longer
<1>2. J = IF IsRow(line) THEN I \cup {n + 1} ELSE I
  BY <1>1
<1>3. I \in SUBSET (1..n)
  BY <1>1
<1>4. Numbered(lines) = Kept(lines, I) /\ Numbered(longer) = Kept(longer, J)
  BY DEF Numbered
<1> HIDE DEF I, J
<1>5. /\ Kept(longer, I) = Kept(lines, I)
      /\ Kept(longer, I \cup {n + 1}) = Append(Kept(lines, I), line)
      /\ Kept(lines, I) \in Seq(ShownLines)
  BY <1>3, KeptAppend DEF n, longer
<1>. QED
  BY <1>2, <1>4, <1>5 DEF longer

LEMMA CountStep ==
  ASSUME NEW rows \in Seq(ShownLines), NEW row \in ShownLines, NEW kind
  PROVE  /\ CountOf(rows, kind) \in Nat
         /\ CountOf(Append(rows, row), kind) = CountOf(rows, kind) + (IF row.kind = kind THEN 1 ELSE 0)
<1> DEFINE n == Len(rows)
           longer == Append(rows, row)
           P == {i \in 1..n : rows[i].kind = kind}
           Q == {i \in 1..n + 1 : longer[i].kind = kind}
<1>1. /\ n \in Nat /\ DOMAIN rows = 1..n /\ DOMAIN longer = 1..n + 1 /\ longer[n + 1] = row
      /\ \A i \in 1..n : longer[i] = rows[i]
  OBVIOUS
<1> HIDE DEF n, longer
<1>2. Q \subseteq 1..n + 1 /\ P = Q \ {n + 1} /\ (n + 1 \in Q <=> row.kind = kind)
  BY <1>1
<1>3. CountOf(rows, kind) = Cardinality(P) /\ CountOf(longer, kind) = Cardinality(Q)
  BY <1>1 DEF CountOf
<1> HIDE DEF P, Q
<1>4. Cardinality(P) \in Nat /\ Cardinality(Q) = Cardinality(P) + (IF n + 1 \in Q THEN 1 ELSE 0)
  BY <1>1, <1>2, CountedStep
<1>. QED
  BY <1>2, <1>3, <1>4 DEF longer

(* A line of the script moves the numbers of the files it is in.           *)
LEMMA NumberStep ==
  ASSUME NEW script \in Seq(Edits), NEW n \in 1..Len(script)
  PROVE  /\ OldNumber(script, n) \in Int /\ NewNumber(script, n) \in Int
         /\ OldNumber(script, n + 1) = OldNumber(script, n) + (IF InOld(script[n]) THEN 1 ELSE 0)
         /\ NewNumber(script, n + 1) = NewNumber(script, n) + (IF InNew(script[n]) THEN 1 ELSE 0)
<1> DEFINE k == n - 1
           Old(j) == {i \in 1..j : InOld(script[i])}
           New(j) == {i \in 1..j : InNew(script[i])}
<1>1. k \in Nat /\ k + 1 = n /\ (n + 1) - 1 = n
  OBVIOUS
<1>2. /\ OldNumber(script, n) = 1 + Cardinality(Old(k))
      /\ OldNumber(script, n + 1) = 1 + Cardinality(Old(k + 1))
      /\ NewNumber(script, n) = 1 + Cardinality(New(k))
      /\ NewNumber(script, n + 1) = 1 + Cardinality(New(k + 1))
  BY <1>1 DEF OldNumber, NewNumber
<1> HIDE DEF k
<1>3. /\ Old(k + 1) \subseteq 1..k + 1 /\ Old(k) = Old(k + 1) \ {k + 1}
      /\ k + 1 \in Old(k + 1) <=> InOld(script[k + 1])
      /\ New(k + 1) \subseteq 1..k + 1 /\ New(k) = New(k + 1) \ {k + 1}
      /\ k + 1 \in New(k + 1) <=> InNew(script[k + 1])
  BY <1>1
<1> HIDE DEF Old, New
<1>4. /\ Cardinality(Old(k)) \in Nat
      /\ Cardinality(Old(k + 1)) = Cardinality(Old(k)) + (IF k + 1 \in Old(k + 1) THEN 1 ELSE 0)
  BY <1>1, <1>3, CountedStep
<1>5. /\ Cardinality(New(k)) \in Nat
      /\ Cardinality(New(k + 1)) = Cardinality(New(k)) + (IF k + 1 \in New(k + 1) THEN 1 ELSE 0)
  BY <1>1, <1>3, CountedStep
<1>. QED
  BY <1>1, <1>2, <1>3, <1>4, <1>5

(* The lines of a kind before a line of a hunk.                            *)
LEMMA BeforeStep ==
  ASSUME NEW script \in Seq(Edits), NEW n \in 1..Len(script), NEW edit
  PROVE  /\ Before(script, n, edit) \in Nat
         /\ script[n] # "skip" =>
              Before(script, n + 1, edit) = Before(script, n, edit) + (IF script[n] = edit THEN 1 ELSE 0)
         /\ n = 1 \/ script[n - 1] = "skip" => Before(script, n, edit) = 0
<1> DEFINE k == n - 1
           P == {i \in HunkBefore(script, n) : script[i] = edit}
           Q == {i \in HunkBefore(script, n + 1) : script[i] = edit}
           R == P \cup {n}
<1>1. k \in Nat /\ k + 1 = n /\ (n + 1) - 1 = n /\ n \in Nat
  OBVIOUS
<1>2. Before(script, n, edit) = Cardinality(P) /\ Before(script, n + 1, edit) = Cardinality(Q)
  BY DEF Before
<1>3. HunkBefore(script, n) = {i \in 1..k : \A j \in i..k : script[j] # "skip"}
  BY DEF HunkBefore
<1>4. HunkBefore(script, n + 1) = {i \in 1..n : \A j \in i..n : script[j] # "skip"}
  BY <1>1 DEF HunkBefore
<1>5. P \subseteq 1..k
  BY <1>3
<1>6. P = R \ {k + 1} /\ R \subseteq 1..k + 1
  BY <1>1, <1>5
<1>7. Cardinality(P) \in Nat
  BY <1>1, <1>6, CountedStep
<1>8. ASSUME script[n] # "skip"
      PROVE  Cardinality(Q) = Cardinality(P) + (IF script[n] = edit THEN 1 ELSE 0)
  <2>1. \A i \in 1..k : \A j \in i..n : j = n \/ j \in i..k
    BY <1>1
  <2>2. \A i \in 1..k : i..k \subseteq i..n
    BY <1>1
  <2>3. \A i : i \in 1..n <=> i \in 1..k \/ i = n
    BY <1>1
  <2>4. \A j \in n..n : j = n
    BY <1>1
  <2>5. HunkBefore(script, n + 1) = HunkBefore(script, n) \cup {n}
    BY <1>3, <1>4, <1>8, <2>1, <2>2, <2>3, <2>4
  <2>6. Q \subseteq 1..k + 1 /\ P = Q \ {k + 1} /\ (k + 1 \in Q <=> script[n] = edit)
    BY <1>1, <1>5, <2>5
  <2> HIDE DEF P, Q, R, k
  <2>7. Cardinality(Q) = Cardinality(P) + (IF k + 1 \in Q THEN 1 ELSE 0)
    BY <1>1, <2>6, CountedStep
  <2>. QED
    BY <2>6, <2>7
<1>9. ASSUME n = 1 \/ script[n - 1] = "skip" PROVE Cardinality(P) = 0
  <2>1. \A i \in 1..k : k \in i..k
    BY <1>1
  <2>2. P = {}
    BY <1>1, <1>3, <1>9, <2>1
  <2>. QED
    BY <2>2, FS_EmptySet
<1>. QED
  BY <1>2, <1>7, <1>8, <1>9

(* The numbers shown, from line to line of a hunk.                         *)
LEMMA ShownStep ==
  ASSUME NEW script \in Seq(Edits), NEW n \in 1..Len(script), script[n] # "skip"
  PROVE  /\ OldShown(script, n) \in Int /\ NewShown(script, n) \in Int
         /\ OldShown(script, n + 1) =
              OldShown(script, n) + (IF script[n] \in {"keep", "remove", "unended"} THEN 1 ELSE 0)
         /\ NewShown(script, n + 1) =
              NewShown(script, n) + (IF script[n] \in {"keep", "add", "unended"} THEN 1 ELSE 0)
<1> DEFINE edit == script[n]
           a == OldNumber(script, n)
           b == NewNumber(script, n)
           c == OldNumber(script, n + 1)
           d == NewNumber(script, n + 1)
           r == Before(script, n, "remove--")
           s == Before(script, n, "add++")
           u == Before(script, n, "unended")
           x == Before(script, n + 1, "remove--")
           y == Before(script, n + 1, "add++")
           z == Before(script, n + 1, "unended")
<1>1. /\ a \in Int /\ b \in Int
      /\ c = a + (IF InOld(edit) THEN 1 ELSE 0) /\ d = b + (IF InNew(edit) THEN 1 ELSE 0)
  BY NumberStep
<1>2. /\ r \in Nat /\ s \in Nat /\ u \in Nat
      /\ x = r + (IF edit = "remove--" THEN 1 ELSE 0)
      /\ y = s + (IF edit = "add++" THEN 1 ELSE 0)
      /\ z = u + (IF edit = "unended" THEN 1 ELSE 0)
  BY BeforeStep
<1>3. /\ OldShown(script, n) = (a - r) + u /\ NewShown(script, n) = (b - s) + u
      /\ OldShown(script, n + 1) = (c - x) + z /\ NewShown(script, n + 1) = (d - y) + z
  BY DEF OldShown, NewShown
<1>4. edit \in {"keep", "add", "remove", "add++", "remove--", "unended"}
  BY DEF Edits
<1>5. /\ InOld(edit) <=> edit \in {"keep", "remove", "remove--"}
      /\ InNew(edit) <=> edit \in {"keep", "add", "add++"}
  BY <1>4 DEF InOld, InNew
<1> HIDE DEF edit, a, b, c, d, r, s, u, x, y, z
<1>6. edit \in {"keep", "remove", "unended"} => (c - x) + z = ((a - r) + u) + 1
  BY <1>1, <1>2, <1>5
<1>7. edit \in {"add", "add++", "remove--"} => (c - x) + z = (a - r) + u
  BY <1>1, <1>2, <1>5
<1>8. edit \in {"keep", "add", "unended"} => (d - y) + z = ((b - s) + u) + 1
  BY <1>1, <1>2, <1>5
<1>9. edit \in {"remove", "add++", "remove--"} => (d - y) + z = (b - s) + u
  BY <1>1, <1>2, <1>5
<1>10. (a - r) + u \in Int /\ (b - s) + u \in Int
  BY <1>1, <1>2
<1>11. /\ (c - x) + z = ((a - r) + u) + (IF edit \in {"keep", "remove", "unended"} THEN 1 ELSE 0)
       /\ (d - y) + z = ((b - s) + u) + (IF edit \in {"keep", "add", "unended"} THEN 1 ELSE 0)
  BY <1>4, <1>6, <1>7, <1>8, <1>9, <1>10
<1>. QED
  BY <1>3, <1>10, <1>11 DEF edit

(* At the header of a hunk the numbers are the true ones.                  *)
LEMMA ShownAtHeader ==
  ASSUME NEW script \in Seq(Edits), NEW n \in 1..Len(script), n = 1 \/ script[n - 1] = "skip"
  PROVE  OldShown(script, n) = OldNumber(script, n) /\ NewShown(script, n) = NewNumber(script, n)
<1>1. \A edit : Before(script, n, edit) = 0
  BY BeforeStep
<1>2. OldNumber(script, n) \in Int /\ NewNumber(script, n) \in Int
  BY NumberStep
<1>. QED
  BY <1>1, <1>2 DEF OldShown, NewShown

-----------------------------------------------------------------------------
(* The parser against the script.  Its state and the lines it reads.       *)
TextLines == [prefix : LinePrefixes, old : Int, new : Int]

Parses ==
  [ok : BOOLEAN, lines : Seq(ShownLines), oldLine : Int, newLine : Int, additions : Int,
   deletions : Int]

(* It has shown these rows, among k lines, and counted them.               *)
Faithful(parsed, rows, k) ==
  /\ parsed \in Parses /\ rows \in Seq(ShownLines)
  /\ Numbered(parsed.lines) = rows
  /\ Len(parsed.lines) = k
  /\ parsed.additions = CountOf(rows, "add")
  /\ parsed.deletions = CountOf(rows, "remove")

(* It stands before the n-th line of the script, inside a hunk: it has the *)
(* number that the rest of the hunk will show.                             *)
Ready(parsed, script, n) ==
  /\ parsed.ok
  /\ (\E i \in HunkFrom(script, n) : InOld(script[i])) => parsed.oldLine = OldShown(script, n)
  /\ (\E i \in HunkFrom(script, n) : InNew(script[i])) => parsed.newLine = NewShown(script, n)

LEMMA NoneIsNumber == None \in Int
BY DEF None

LEMMA ParseNumbers ==
  ASSUME NEW p \in Parses
  PROVE  p.oldLine + 1 \in Int /\ p.newLine + 1 \in Int /\ p.additions \in Int /\ p.deletions \in Int
BY DEF Parses

LEMMA ParseTyped ==
  ASSUME NEW p \in Parses, NEW line \in ShownLines, NEW ok \in BOOLEAN,
         NEW a \in Int, NEW b \in Int, NEW c \in Int, NEW d \in Int
  PROVE  [ok |-> ok, lines |-> Append(p.lines, line), oldLine |-> a, newLine |-> b,
          additions |-> c, deletions |-> d] \in Parses
<1>1. p.lines \in Seq(ShownLines)
  BY DEF Parses
<1>2. Append(p.lines, line) \in Seq(ShownLines)
  BY <1>1
<1>. QED
  BY <1>2 DEF Parses

(* What each kind of line does to the parser.                              *)
LEMMA ParseLineIs ==
  ASSUME NEW p \in Parses, NEW text \in TextLines
  PROVE  /\ text.prefix = "@@" =>
              ParseLine(p, text) =
                [ok |-> TRUE, lines |-> Append(p.lines, DiffLine("hunk", "@@", None, None)),
                 oldLine |-> text.old, newLine |-> text.new,
                 additions |-> p.additions, deletions |-> p.deletions]
         /\ text.prefix # "@@" /\ (~p.ok \/ text.prefix \in MetaPrefixes) =>
              ParseLine(p, text) =
                [ok |-> p.ok, lines |-> Append(p.lines, DiffLine("meta", text.prefix, None, None)),
                 oldLine |-> p.oldLine, newLine |-> p.newLine,
                 additions |-> p.additions, deletions |-> p.deletions]
         /\ p.ok /\ text.prefix = "+" =>
              ParseLine(p, text) =
                [ok |-> TRUE, lines |-> Append(p.lines, DiffLine("add", "+", None, p.newLine)),
                 oldLine |-> p.oldLine, newLine |-> p.newLine + 1,
                 additions |-> p.additions + 1, deletions |-> p.deletions]
         /\ p.ok /\ text.prefix = "-" =>
              ParseLine(p, text) =
                [ok |-> TRUE, lines |-> Append(p.lines, DiffLine("remove", "-", p.oldLine, None)),
                 oldLine |-> p.oldLine + 1, newLine |-> p.newLine,
                 additions |-> p.additions, deletions |-> p.deletions + 1]
         /\ p.ok /\ text.prefix \notin MetaPrefixes \cup {"@@", "+", "-"} =>
              ParseLine(p, text) =
                [ok |-> TRUE,
                 lines |-> Append(p.lines, DiffLine("context", text.prefix, p.oldLine, p.newLine)),
                 oldLine |-> p.oldLine + 1, newLine |-> p.newLine + 1,
                 additions |-> p.additions, deletions |-> p.deletions]
<1>1. CASE text.prefix = "@@"
  BY <1>1 DEF ParseLine, StartHunk, Shown, Parses, TextLines, MetaPrefixes
<1>2. CASE text.prefix # "@@" /\ (~p.ok \/ text.prefix \in MetaPrefixes)
  BY <1>2 DEF ParseLine, StartHunk, Shown, Parses, TextLines, MetaPrefixes
<1>3. CASE p.ok /\ text.prefix = "+"
  BY <1>3 DEF ParseLine, StartHunk, Shown, Parses, TextLines, MetaPrefixes
<1>4. CASE p.ok /\ text.prefix = "-"
  BY <1>4 DEF ParseLine, StartHunk, Shown, Parses, TextLines, MetaPrefixes
<1>5. CASE p.ok /\ text.prefix \notin MetaPrefixes \cup {"@@", "+", "-"}
  BY <1>5 DEF ParseLine, StartHunk, Shown, Parses, TextLines, MetaPrefixes
<1>. QED
  BY <1>1, <1>2, <1>3, <1>4, <1>5 DEF MetaPrefixes

(* A line that is shown and is no row.                                     *)
LEMMA OtherKeepsFaithful ==
  ASSUME NEW p, NEW rows, NEW k \in Nat, Faithful(p, rows, k), NEW line \in ShownLines, ~IsRow(line),
         NEW q \in Parses, q.lines = Append(p.lines, line),
         q.additions = p.additions, q.deletions = p.deletions
  PROVE  Faithful(q, rows, k + 1)
<1>1. p.lines \in Seq(ShownLines)
  BY DEF Faithful, Parses
<1>2. Numbered(q.lines) = Numbered(p.lines)
  BY <1>1, NumberedStep
<1>3. Len(q.lines) = Len(p.lines) + 1
  BY <1>1
<1>. QED
  BY <1>2, <1>3 DEF Faithful

(* A row that is shown.                                                    *)
LEMMA RowKeepsFaithful ==
  ASSUME NEW p, NEW rows, NEW k \in Nat, Faithful(p, rows, k), NEW line \in ShownLines, IsRow(line),
         NEW q \in Parses, q.lines = Append(p.lines, line),
         q.additions = p.additions + (IF line.kind = "add" THEN 1 ELSE 0),
         q.deletions = p.deletions + (IF line.kind = "remove" THEN 1 ELSE 0)
  PROVE  Faithful(q, rows \o <<line>>, k + 1)
<1> DEFINE more == Append(rows, line)
<1>1. p.lines \in Seq(ShownLines) /\ rows \in Seq(ShownLines)
  BY DEF Faithful, Parses
<1>2. more \in Seq(ShownLines) /\ rows \o <<line>> = more
  BY <1>1
<1>3. Numbered(q.lines) = more
  BY <1>1, NumberedStep DEF Faithful
<1>4. Len(q.lines) = Len(p.lines) + 1
  BY <1>1
<1>5. /\ CountOf(more, "add") = CountOf(rows, "add") + (IF line.kind = "add" THEN 1 ELSE 0)
      /\ CountOf(more, "remove") = CountOf(rows, "remove") + (IF line.kind = "remove" THEN 1 ELSE 0)
  BY <1>1, CountStep
<1> HIDE DEF more
<1>6. Faithful(q, more, k + 1)
  BY <1>2, <1>3, <1>4, <1>5 DEF Faithful
<1>. QED
  BY <1>2, <1>6

LEMMA HunkGoesOn ==
  ASSUME NEW script \in Seq(Edits), NEW n \in 1..Len(script), script[n] # "skip"
  PROVE  n \in HunkFrom(script, n) /\ HunkFrom(script, n + 1) \subseteq HunkFrom(script, n)
<1>1. n \in Nat /\ Len(script) \in Nat
  OBVIOUS
<1>2. n \in HunkFrom(script, n)
  BY <1>1 DEF HunkFrom
<1>3. ASSUME NEW i \in HunkFrom(script, n + 1)
      PROVE  i \in HunkFrom(script, n)
  <2>1. i \in n + 1..Len(script) /\ \A j \in n + 1..i : script[j] # "skip"
    BY <1>3 DEF HunkFrom
  <2>2. i \in n..Len(script)
    BY <1>1, <2>1
  <2>3. \A j \in n..i : j = n \/ j \in n + 1..i
    BY <1>1, <2>1
  <2>. QED
    BY <2>1, <2>2, <2>3 DEF HunkFrom
<1>. QED
  BY <1>2, <1>3

(* A header makes the parser ready for the lines of its hunk.              *)
LEMMA HeaderMakesReady ==
  ASSUME NEW script \in Seq(Edits), NEW n \in 1..Len(script),
         n = 1 \/ script[n - 1] = "skip",
         NEW p, NEW rows, NEW k \in Nat, Faithful(p, rows, k)
  PROVE  /\ Hunk(script, n) \in TextLines
         /\ Faithful(ParseLine(p, Hunk(script, n)), rows, k + 1)
         /\ Ready(ParseLine(p, Hunk(script, n)), script, n)
<1> DEFINE text == Hunk(script, n)
           q == ParseLine(p, text)
           line == DiffLine("hunk", "@@", None, None)
<1>1. OldNumber(script, n) \in Int /\ NewNumber(script, n) \in Int
  BY NumberStep
<1>2. /\ text \in TextLines /\ text.prefix = "@@"
      /\ (\E i \in HunkFrom(script, n) : InOld(script[i])) => text.old = OldNumber(script, n)
      /\ (\E i \in HunkFrom(script, n) : InNew(script[i])) => text.new = NewNumber(script, n)
  <2> DEFINE a == OldNumber(script, n)
             b == NewNumber(script, n)
             old == \E i \in HunkFrom(script, n) : InOld(script[i])
             new == \E i \in HunkFrom(script, n) : InNew(script[i])
  <2>1. text = [prefix |-> "@@", old |-> a - (IF old THEN 0 ELSE 1), new |-> b - (IF new THEN 0 ELSE 1)]
    BY DEF Hunk
  <2>2. a \in Int /\ b \in Int
    BY <1>1
  <2> HIDE DEF text, a, b, old, new
  <2>3. (a - (IF old THEN 0 ELSE 1)) \in Int /\ (b - (IF new THEN 0 ELSE 1)) \in Int
    BY <2>2
  <2>4. text \in TextLines /\ text.prefix = "@@"
    BY <2>1, <2>3 DEF TextLines, LinePrefixes
  <2>5. (old => text.old = a) /\ (new => text.new = b)
    BY <2>1, <2>2
  <2>. QED
    BY <2>4, <2>5 DEF a, b, old, new
<1>3. p \in Parses
  BY DEF Faithful
<1> HIDE DEF text
<1>4. q = [ok |-> TRUE, lines |-> Append(p.lines, line), oldLine |-> text.old, newLine |-> text.new,
           additions |-> p.additions, deletions |-> p.deletions]
  BY <1>2, <1>3, ParseLineIs
<1>5. line \in ShownLines /\ ~IsRow(line)
  <2>1. line = [kind |-> "hunk", prefix |-> "@@", old |-> None, new |-> None] /\ None \in Int
    BY DEF DiffLine, None
  <2> HIDE DEF line
  <2>. QED
    BY <2>1 DEF ShownLines, IsRow, LinePrefixes
<1> HIDE DEF q, line
<1>6. q \in Parses
  BY <1>2, <1>3, <1>4, <1>5 DEF Parses, TextLines
<1>7. Faithful(q, rows, k + 1)
  BY <1>4, <1>5, <1>6, OtherKeepsFaithful
<1>8. Ready(q, script, n)
  BY <1>2, <1>4, ShownAtHeader DEF Ready
<1>. QED
  BY <1>2, <1>7, <1>8 DEF text, q

(* A line that is no row, in a hunk or between two files.                  *)
LEMMA OtherLineKeeps ==
  ASSUME NEW p, NEW rows, NEW k \in Nat, Faithful(p, rows, k), NEW prefix \in MetaPrefixes \cup {"", "\\"}
  PROVE  /\ Line(prefix) \in TextLines
         /\ Faithful(ParseLine(p, Line(prefix)), rows, k + 1)
         /\ ParseLine(p, Line(prefix)).ok = p.ok
         /\ p.ok /\ prefix \in MetaPrefixes =>
              /\ ParseLine(p, Line(prefix)).oldLine = p.oldLine
              /\ ParseLine(p, Line(prefix)).newLine = p.newLine
         /\ p.ok /\ prefix = "\\" =>
              /\ ParseLine(p, Line(prefix)).oldLine = p.oldLine + 1
              /\ ParseLine(p, Line(prefix)).newLine = p.newLine + 1
<1> DEFINE text == Line(prefix)
           q == ParseLine(p, text)
<1>1. text \in TextLines /\ text.prefix = prefix /\ prefix \in LinePrefixes /\ None \in Int
  <2>1. prefix \in LinePrefixes
    BY DEF LinePrefixes
  <2>2. None \in Int
    BY NoneIsNumber
  <2>3. text = [prefix |-> prefix, old |-> None, new |-> None]
    BY DEF Line
  <2> HIDE DEF text
  <2>. QED
    BY <2>1, <2>2, <2>3 DEF TextLines
<1> HIDE DEF text
<1>2. prefix \notin {"@@", "+", "-"}
  BY DEF MetaPrefixes
<1>3. p \in Parses /\ Faithful(p, rows, k)
  BY DEF Faithful
<1>5. "" \notin MetaPrefixes \cup {"@@", "+", "-"} /\ "\\" \notin MetaPrefixes \cup {"@@", "+", "-"}
  BY DEF MetaPrefixes
<1>4. CASE ~p.ok \/ prefix \in MetaPrefixes
  <2> DEFINE line == DiffLine("meta", prefix, None, None)
  <2>1. q = [ok |-> p.ok, lines |-> Append(p.lines, line),
             oldLine |-> p.oldLine, newLine |-> p.newLine,
             additions |-> p.additions, deletions |-> p.deletions]
    BY <1>1, <1>2, <1>3, <1>4, ParseLineIs
  <2>2. line \in ShownLines /\ ~IsRow(line)
    BY <1>1 DEF DiffLine, ShownLines, IsRow
  <2> HIDE DEF q, line
  <2>3. q \in Parses
    BY <1>3, <2>1, <2>2, ParseTyped DEF Parses
  <2>4. q \in Parses /\ q.lines = Append(p.lines, line) /\ q.ok = p.ok
        /\ q.additions = p.additions /\ q.deletions = p.deletions
        /\ q.oldLine = p.oldLine /\ q.newLine = p.newLine
    BY <2>1, <2>3
  <2>5. Faithful(q, rows, k + 1)
    BY <1>3, <2>2, <2>4, OtherKeepsFaithful
  <2>. QED
    BY <1>1, <1>4, <1>5, <2>4, <2>5 DEF q, text
<1>6. p.oldLine + 1 \in Int /\ p.newLine + 1 \in Int /\ p.additions \in Int /\ p.deletions \in Int
  BY <1>3, ParseNumbers
<1>7. CASE p.ok /\ prefix \in {"", "\\"}
  <2> DEFINE line == DiffLine("context", prefix, p.oldLine, p.newLine)
  <2>1. q = [ok |-> TRUE, lines |-> Append(p.lines, line),
             oldLine |-> p.oldLine + 1, newLine |-> p.newLine + 1,
             additions |-> p.additions, deletions |-> p.deletions]
    <3>1. text.prefix = prefix /\ text.prefix \notin MetaPrefixes \cup {"@@", "+", "-"}
      BY <1>1, <1>5, <1>7
    <3>. QED
      BY <1>1, <1>3, <1>7, <3>1, ParseLineIs
  <2>2. line \in ShownLines /\ ~IsRow(line)
    BY <1>1, <1>3, <1>7 DEF DiffLine, ShownLines, IsRow, Parses
  <2> HIDE DEF q, line
  <2>3. q \in Parses
    BY <1>3, <1>6, <2>1, <2>2, ParseTyped
  <2>4. q \in Parses /\ q.lines = Append(p.lines, line) /\ q.ok = p.ok
        /\ q.additions = p.additions /\ q.deletions = p.deletions
        /\ q.oldLine = p.oldLine + 1 /\ q.newLine = p.newLine + 1
    BY <1>3, <1>7, <2>1, <2>3 DEF Parses
  <2>5. Faithful(q, rows, k + 1)
    BY <1>3, <2>2, <2>4, OtherKeepsFaithful
  <2>. QED
    BY <1>1, <1>5, <1>7, <2>4, <2>5 DEF q, text
<1>. QED
  BY <1>4, <1>7

(* Before a line of a hunk the parser has the numbers its row shows, and   *)
(* after it the ones of the next.                                          *)
LEMMA RowMakesReady ==
  ASSUME NEW script \in Seq(Edits), NEW n \in 1..Len(script), script[n] # "skip",
         NEW p, NEW rows, NEW k \in Nat, Faithful(p, rows, k), Ready(p, script, n)
  PROVE  /\ Line(Prefix(script[n])) \in TextLines
         /\ RowOf(script, n) \in Seq(ShownLines)
         /\ Faithful(ParseLine(p, Line(Prefix(script[n]))), rows \o RowOf(script, n), k + 1)
         /\ Ready(ParseLine(p, Line(Prefix(script[n]))), script, n + 1)
<1> DEFINE edit == script[n]
           text == Line(Prefix(edit))
           q == ParseLine(p, text)
           a == OldShown(script, n)
           b == NewShown(script, n)
           c == OldShown(script, n + 1)
           d == NewShown(script, n + 1)
           rest == HunkFrom(script, n + 1)
           Done == /\ RowOf(script, n) \in Seq(ShownLines)
                   /\ Faithful(q, rows \o RowOf(script, n), k + 1)
                   /\ Ready(q, script, n + 1)
<1>1. /\ a \in Int /\ b \in Int
      /\ c = a + (IF edit \in {"keep", "remove", "unended"} THEN 1 ELSE 0)
      /\ d = b + (IF edit \in {"keep", "add", "unended"} THEN 1 ELSE 0)
  BY ShownStep
<1>2. edit \in {"keep", "add", "remove", "add++", "remove--", "unended"}
  BY DEF Edits
<1>3. p \in Parses /\ p.ok
  BY DEF Faithful, Ready
<1>4. /\ InOld(edit) \/ (\E i \in rest : InOld(script[i])) => p.oldLine = a
      /\ InNew(edit) \/ (\E i \in rest : InNew(script[i])) => p.newLine = b
  BY HunkGoesOn DEF Ready
<1>5. /\ InOld(edit) <=> edit \in {"keep", "remove", "remove--"}
      /\ InNew(edit) <=> edit \in {"keep", "add", "add++"}
  BY <1>2 DEF InOld, InNew
<1>6. text \in TextLines /\ None \in Int
  <2> DEFINE prefix == Prefix(edit)
  <2>1. prefix \in {" ", "+", "-", "+++", "---", "\\"}
    BY <1>2 DEF Prefix
  <2>2. None \in Int
    BY DEF None
  <2>3. text = [prefix |-> prefix, old |-> None, new |-> None]
    BY DEF Line
  <2> HIDE DEF prefix, text
  <2>. QED
    BY <2>1, <2>2, <2>3 DEF TextLines, LinePrefixes, MetaPrefixes
<1>7. /\ edit = "keep" => RowOf(script, n) = <<DiffLine("context", " ", a, b)>>
      /\ edit = "add" => RowOf(script, n) = <<DiffLine("add", "+", None, b)>>
      /\ edit = "remove" => RowOf(script, n) = <<DiffLine("remove", "-", a, None)>>
      /\ edit \in {"add++", "remove--", "unended"} => RowOf(script, n) = <<>>
  BY DEF RowOf
<1>8. /\ edit = "keep" => text.prefix = " "
      /\ edit = "add" => text.prefix = "+"
      /\ edit = "remove" => text.prefix = "-"
      /\ edit = "add++" => text = Line("+++")
      /\ edit = "remove--" => text = Line("---")
      /\ edit = "unended" => text = Line("\\")
  BY DEF Line, Prefix
<1> HIDE DEF edit, text, a, b, c, d
<1>9. ASSUME NEW r \in ShownLines, RowOf(script, n) = <<r>>, IsRow(r),
             q.ok = TRUE, q \in Parses, q.lines = Append(p.lines, r),
             q.additions = p.additions + (IF r.kind = "add" THEN 1 ELSE 0),
             q.deletions = p.deletions + (IF r.kind = "remove" THEN 1 ELSE 0),
             edit \in {"keep", "add", "remove"},
             InOld(edit) => q.oldLine = p.oldLine + 1, ~InOld(edit) => q.oldLine = p.oldLine,
             InNew(edit) => q.newLine = p.newLine + 1, ~InNew(edit) => q.newLine = p.newLine
      PROVE  Done
  <2> HIDE DEF q
  <2>1. Faithful(q, rows \o <<r>>, k + 1)
    BY <1>9, RowKeepsFaithful
  <2>2. Ready(q, script, n + 1)
    <3>1. (\E i \in rest : InOld(script[i])) => q.oldLine = c
      BY <1>1, <1>4, <1>5, <1>9
    <3>2. (\E i \in rest : InNew(script[i])) => q.newLine = d
      BY <1>1, <1>4, <1>5, <1>9
    <3>. QED
      BY <1>9, <3>1, <3>2 DEF Ready, c, d
  <2>3. RowOf(script, n) \in Seq(ShownLines)
    BY <1>9, OneElement
  <2>. QED
    BY <1>9, <2>1, <2>2, <2>3
<1>10. ASSUME edit = "keep" PROVE Done
  <2> DEFINE r == DiffLine("context", " ", a, b)
  <2>1. q = [ok |-> TRUE, lines |-> Append(p.lines, DiffLine("context", " ", p.oldLine, p.newLine)),
             oldLine |-> p.oldLine + 1, newLine |-> p.newLine + 1,
             additions |-> p.additions, deletions |-> p.deletions]
    BY <1>3, <1>6, <1>8, <1>10, ParseLineIs DEF MetaPrefixes
  <2>2. p.oldLine = a /\ p.newLine = b
    BY <1>4, <1>5, <1>10
  <2>3. r \in ShownLines /\ IsRow(r) /\ r.kind = "context"
    BY <1>1 DEF DiffLine, ShownLines, LinePrefixes, IsRow
  <2> HIDE DEF q
  <2>4. DiffLine("context", " ", p.oldLine, p.newLine) = r
    BY <2>2
  <2> HIDE DEF r
  <2>5. q.ok = TRUE /\ q.lines = Append(p.lines, r)
        /\ q.oldLine = p.oldLine + 1 /\ q.newLine = p.newLine + 1
        /\ q.additions = p.additions /\ q.deletions = p.deletions
    BY <2>1, <2>4
  <2>6. q \in Parses
    <3>1. p.oldLine + 1 \in Int /\ p.newLine + 1 \in Int /\ p.additions \in Int /\ p.deletions \in Int
      BY <1>3, ParseNumbers
    <3>. QED
      BY <1>3, <2>1, <2>3, <2>4, <3>1, ParseTyped
  <2>7. RowOf(script, n) = <<r>>
    BY <1>7, <1>10 DEF r
  <2>8. q.additions = p.additions + 0 /\ q.deletions = p.deletions + 0
    BY <1>3, <2>5 DEF Parses
  <2> HIDE DEF q
  <2>. QED
    BY <1>5, <1>9, <1>10, <2>3, <2>5, <2>6, <2>7, <2>8
<1>11. ASSUME edit = "add" PROVE Done
  <2> DEFINE r == DiffLine("add", "+", None, b)
  <2>1. q = [ok |-> TRUE, lines |-> Append(p.lines, DiffLine("add", "+", None, p.newLine)),
             oldLine |-> p.oldLine, newLine |-> p.newLine + 1,
             additions |-> p.additions + 1, deletions |-> p.deletions]
    BY <1>3, <1>6, <1>8, <1>11, ParseLineIs
  <2>2. p.newLine = b
    BY <1>4, <1>5, <1>11
  <2>3. r \in ShownLines /\ IsRow(r) /\ r.kind = "add"
    BY <1>1, <1>6 DEF DiffLine, ShownLines, LinePrefixes, IsRow
  <2>4. q.ok = TRUE /\ q.lines = Append(p.lines, r)
        /\ q.oldLine = p.oldLine /\ q.newLine = p.newLine + 1
        /\ q.additions = p.additions + 1 /\ q.deletions = p.deletions
    BY <2>1, <2>2
  <2> HIDE DEF r
  <2>5. q \in Parses
    BY <1>3, <2>1, <2>3, <2>4 DEF Parses
  <2>6. RowOf(script, n) = <<r>>
    BY <1>7, <1>11 DEF r
  <2>7. q.deletions = p.deletions + 0
    BY <1>3, <2>4 DEF Parses
  <2> HIDE DEF q
  <2>. QED
    BY <1>5, <1>9, <1>11, <2>3, <2>4, <2>5, <2>6, <2>7
<1>12. ASSUME edit = "remove" PROVE Done
  <2> DEFINE r == DiffLine("remove", "-", a, None)
  <2>1. q = [ok |-> TRUE, lines |-> Append(p.lines, DiffLine("remove", "-", p.oldLine, None)),
             oldLine |-> p.oldLine + 1, newLine |-> p.newLine,
             additions |-> p.additions, deletions |-> p.deletions + 1]
    BY <1>3, <1>6, <1>8, <1>12, ParseLineIs
  <2>2. p.oldLine = a
    BY <1>4, <1>5, <1>12
  <2>3. r \in ShownLines /\ IsRow(r) /\ r.kind = "remove"
    BY <1>1, <1>6 DEF DiffLine, ShownLines, LinePrefixes, IsRow
  <2>4. q.ok = TRUE /\ q.lines = Append(p.lines, r)
        /\ q.oldLine = p.oldLine + 1 /\ q.newLine = p.newLine
        /\ q.additions = p.additions /\ q.deletions = p.deletions + 1
    BY <2>1, <2>2
  <2> HIDE DEF r
  <2>5. q \in Parses
    BY <1>3, <2>1, <2>3, <2>4 DEF Parses
  <2>6. RowOf(script, n) = <<r>>
    BY <1>7, <1>12 DEF r
  <2>7. q.additions = p.additions + 0
    BY <1>3, <2>4 DEF Parses
  <2> HIDE DEF q
  <2>. QED
    BY <1>5, <1>9, <1>12, <2>3, <2>4, <2>5, <2>6, <2>7
<1>13. ASSUME edit \in {"add++", "remove--", "unended"} PROVE Done
  <2>1. PICK prefix \in {"+++", "---", "\\"} :
          /\ text = Line(prefix)
          /\ edit = "unended" <=> prefix = "\\"
    BY <1>8, <1>13
  <2>2. prefix \in MetaPrefixes \cup {"", "\\"} /\ (prefix # "\\" => prefix \in MetaPrefixes)
    BY DEF MetaPrefixes
  <2>3. /\ Faithful(q, rows, k + 1) /\ q.ok = p.ok
        /\ edit # "unended" => q.oldLine = p.oldLine /\ q.newLine = p.newLine
        /\ edit = "unended" => q.oldLine = p.oldLine + 1 /\ q.newLine = p.newLine + 1
    BY <1>3, <2>1, <2>2, OtherLineKeeps
  <2> HIDE DEF q
  <2>4. rows \in Seq(ShownLines) /\ RowOf(script, n) = <<>>
    BY <1>7, <1>13 DEF Faithful
  <2>5. rows \o RowOf(script, n) = rows /\ RowOf(script, n) \in Seq(ShownLines)
    BY <2>4
  <2>6. (\E i \in rest : InOld(script[i])) => q.oldLine = c
    BY <1>1, <1>4, <1>13, <2>3
  <2>7. (\E i \in rest : InNew(script[i])) => q.newLine = d
    BY <1>1, <1>4, <1>13, <2>3
  <2>8. Ready(q, script, n + 1)
    BY <1>3, <2>3, <2>6, <2>7 DEF Ready, c, d
  <2>. QED
    BY <2>3, <2>5, <2>8
<1>. QED
  BY <1>2, <1>6, <1>10, <1>11, <1>12, <1>13 DEF text, edit

(* A line of the script: what its part of the patch does.                  *)
LEMMA ScriptLineKeeps ==
  ASSUME NEW script \in Seq(Edits), NEW n \in 1..Len(script),
         NEW p, NEW rows, NEW k \in Nat, Faithful(p, rows, k),
         n = 1 \/ script[n - 1] = "skip" \/ Ready(p, script, n)
  PROVE  /\ LinesOf(script, n) \in Seq(TextLines) /\ RowOf(script, n) \in Seq(ShownLines)
         /\ Faithful(Run(p, LinesOf(script, n)), rows \o RowOf(script, n), k + Len(LinesOf(script, n)))
         /\ script[n] = "skip" \/ Ready(Run(p, LinesOf(script, n)), script, n + 1)
         /\ Run(p, LinesOf(script, n)).ok <=> p.ok \/ script[n] # "skip"
<1> DEFINE lines == LinesOf(script, n)
           more == rows \o RowOf(script, n)
           header == Hunk(script, n)
           line == Line(Prefix(script[n]))
           Done == /\ lines \in Seq(TextLines) /\ RowOf(script, n) \in Seq(ShownLines)
                   /\ Faithful(Run(p, lines), more, k + Len(lines))
                   /\ script[n] = "skip" \/ Ready(Run(p, lines), script, n + 1)
                   /\ Run(p, lines).ok <=> p.ok \/ script[n] # "skip"
<1>1. Faithful(p, rows, k) /\ rows \in Seq(ShownLines)
  BY DEF Faithful
<1>2. ASSUME script[n] = "skip" PROVE Done
  <2>1. lines = <<>> /\ RowOf(script, n) = <<>>
    BY <1>2 DEF LinesOf, RowOf
  <2>2. more = rows
    BY <1>1, <2>1
  <2>3. Run(p, lines) = p
    BY <2>1, RunNothing
  <2>4. lines \in Seq(TextLines) /\ RowOf(script, n) \in Seq(ShownLines) /\ k + Len(lines) = k
    BY <2>1
  <2>. QED
    BY <1>2, <2>2, <2>3, <2>4
<1>3. ASSUME script[n] # "skip", NEW q, NEW j \in Nat, Faithful(q, rows, j), Ready(q, script, n)
      PROVE  /\ line \in TextLines /\ RowOf(script, n) \in Seq(ShownLines)
             /\ Faithful(ParseLine(q, line), more, j + 1) /\ Ready(ParseLine(q, line), script, n + 1)
  BY <1>3, RowMakesReady
<1> HIDE DEF more, header, line
<1>4. ASSUME script[n] # "skip", n = 1 \/ script[n - 1] = "skip" PROVE Done
  <2>1. lines = <<header>> \o <<line>>
    BY <1>4 DEF LinesOf, header, line
  <2>2. /\ header \in TextLines
        /\ Faithful(ParseLine(p, header), rows, k + 1) /\ Ready(ParseLine(p, header), script, n)
    BY <1>1, <1>4, HeaderMakesReady DEF header
  <2> DEFINE q == ParseLine(p, header)
  <2> HIDE DEF q
  <2>3. k + 1 \in Nat /\ Faithful(q, rows, k + 1) /\ Ready(q, script, n)
    BY <2>2 DEF q
  <2>4. /\ line \in TextLines /\ RowOf(script, n) \in Seq(ShownLines)
        /\ Faithful(ParseLine(q, line), more, (k + 1) + 1) /\ Ready(ParseLine(q, line), script, n + 1)
    BY <1>3, <1>4, <2>3
  <2>5. <<header>> \in Seq(TextLines) /\ <<line>> \in Seq(TextLines)
    BY <2>2, <2>4
  <2>6. Run(p, lines) = ParseLine(q, line)
    <3> DEFINE a == <<header>>
               b == <<line>>
    <3>1. Run(p, a) = q /\ Run(q, b) = ParseLine(q, line)
      BY RunOne DEF q
    <3>2. a \in Seq(TextLines) /\ b \in Seq(TextLines) /\ lines = a \o b
      BY <2>1, <2>5
    <3> HIDE DEF a, b, lines
    <3>3. Run(p, a \o b) = Run(Run(p, a), b)
      BY <3>2, RunJoined
    <3>. QED
      BY <3>1, <3>2, <3>3
  <2>7. lines \in Seq(TextLines) /\ k + Len(lines) = (k + 1) + 1
    BY <2>1, <2>5
  <2>8. ParseLine(q, line).ok
    BY <2>4 DEF Ready
  <2>. QED
    BY <1>4, <2>4, <2>6, <2>7, <2>8
<1>5. ASSUME script[n] # "skip", ~(n = 1 \/ script[n - 1] = "skip") PROVE Done
  <2>1. lines = <<>> \o <<line>>
    BY <1>5 DEF LinesOf, line
  <2>2. /\ line \in TextLines /\ RowOf(script, n) \in Seq(ShownLines)
        /\ Faithful(ParseLine(p, line), more, k + 1) /\ Ready(ParseLine(p, line), script, n + 1)
    BY <1>1, <1>3, <1>5
  <2>3. lines = <<line>>
    BY <2>1, <2>2
  <2>4. Run(p, lines) = ParseLine(p, line)
    BY <2>3, RunOne
  <2>5. lines \in Seq(TextLines) /\ k + Len(lines) = k + 1
    BY <2>2, <2>3
  <2>6. ParseLine(p, line).ok
    BY <2>2 DEF Ready
  <2>. QED
    BY <1>5, <2>2, <2>4, <2>5, <2>6
<1>. QED
  BY <1>2, <1>4, <1>5 DEF more

(* The parser at the start.                                                *)
LEMMA EmptyIsFaithful == Faithful(EmptyParse, <<>>, 0)
<1> DEFINE none == {i \in DOMAIN <<>> : IsRow(<<>>[i])}
<1>1. none = {} /\ Cardinality({}) = 0
  BY FS_EmptySet
<1>2. Numbered(<<>>) = <<>>
  <2>1. Numbered(<<>>) = Kept(<<>>, none)
    BY DEF Numbered
  <2> HIDE DEF none
  <2>2. Kept(<<>>, {}) = [n \in 1..Cardinality({}) |-> <<>>[Ascending({})[n]]]
    BY DEF Kept
  <2>3. [n \in 1..0 |-> <<>>[Ascending({})[n]]] = <<>>
    OBVIOUS
  <2>. QED
    BY <1>1, <2>1, <2>2, <2>3
<1>3. \A kind : CountOf(<<>>, kind) = 0
  <2>1. \A kind : {i \in DOMAIN <<>> : <<>>[i].kind = kind} = {}
    OBVIOUS
  <2>. QED
    BY <1>1, <2>1 DEF CountOf
<1>4. EmptyParse \in Parses /\ <<>> \in Seq(ShownLines)
  BY DEF EmptyParse, Parses
<1>5. Faithful(EmptyParse, <<>>, 0)
  BY <1>2, <1>3, <1>4 DEF EmptyParse, Faithful
<1>. QED
  BY <1>5 DEF EmptyParse

LEMMA HeaderTyped ==
  ASSUME NEW script \in Seq(Edits), NEW n \in 1..Len(script)
  PROVE  Hunk(script, n) \in TextLines
<1> DEFINE a == OldNumber(script, n)
           b == NewNumber(script, n)
           old == \E i \in HunkFrom(script, n) : InOld(script[i])
           new == \E i \in HunkFrom(script, n) : InNew(script[i])
<1>1. a \in Int /\ b \in Int
  BY NumberStep
<1>2. Hunk(script, n) =
        [prefix |-> "@@", old |-> a - (IF old THEN 0 ELSE 1), new |-> b - (IF new THEN 0 ELSE 1)]
  BY DEF Hunk
<1> HIDE DEF a, b, old, new
<1>3. (a - (IF old THEN 0 ELSE 1)) \in Int /\ (b - (IF new THEN 0 ELSE 1)) \in Int
  BY <1>1
<1>. QED
  BY <1>2, <1>3 DEF TextLines, LinePrefixes

LEMMA LineTyped ==
  ASSUME NEW edit \in Edits, edit # "skip"
  PROVE  Line(Prefix(edit)) \in TextLines
<1> DEFINE prefix == Prefix(edit)
<1>1. prefix \in {" ", "+", "-", "+++", "---", "\\"}
  BY DEF Prefix, Edits
<1> DEFINE line == Line(prefix)
<1>2. line = [prefix |-> prefix, old |-> None, new |-> None]
  BY DEF Line
<1> HIDE DEF prefix, line
<1>3. prefix \in LinePrefixes
  BY <1>1 DEF LinePrefixes, MetaPrefixes
<1>4. line \in TextLines
  BY <1>2, <1>3, NoneIsNumber DEF TextLines
<1>. QED
  BY <1>4 DEF line, prefix

LEMMA RowTyped ==
  ASSUME NEW script \in Seq(Edits), NEW n \in 1..Len(script), script[n] # "skip"
  PROVE  RowOf(script, n) \in Seq(ShownLines)
<1> DEFINE a == OldShown(script, n)
           b == NewShown(script, n)
<1>1. a \in Int /\ b \in Int
  BY ShownStep
<1>2. \/ RowOf(script, n) = <<DiffLine("context", " ", a, b)>>
      \/ RowOf(script, n) = <<DiffLine("add", "+", None, b)>>
      \/ RowOf(script, n) = <<DiffLine("remove", "-", a, None)>>
      \/ RowOf(script, n) = <<>>
  <2>1. script[n] \in Edits
    OBVIOUS
  <2>2. \/ script[n] = "keep" \/ script[n] = "add" \/ script[n] = "remove"
        \/ script[n] \in {"skip", "add++", "remove--", "unended"}
    BY <2>1 DEF Edits
  <2>. QED
    BY <2>2 DEF RowOf
<1> HIDE DEF a, b
<1>3. /\ DiffLine("context", " ", a, b) \in ShownLines
      /\ DiffLine("add", "+", None, b) \in ShownLines
      /\ DiffLine("remove", "-", a, None) \in ShownLines
  BY <1>1, NoneIsNumber DEF DiffLine, ShownLines, LinePrefixes
<1>4. \A row \in ShownLines : <<row>> \in Seq(ShownLines)
  BY OneElement
<1>5. <<>> \in Seq(ShownLines)
  OBVIOUS
<1> HIDE DEF a, b
<1>. QED
  BY <1>2, <1>3, <1>4, <1>5

LEMMA LinesTyped ==
  ASSUME NEW script \in Seq(Edits), NEW n \in 1..Len(script)
  PROVE  LinesOf(script, n) \in Seq(TextLines) /\ RowOf(script, n) \in Seq(ShownLines)
<1> DEFINE header == Hunk(script, n)
           line == Line(Prefix(script[n]))
<1>1. CASE script[n] = "skip"
  <2>1. LinesOf(script, n) = <<>> /\ RowOf(script, n) = <<>>
    BY <1>1 DEF LinesOf, RowOf
  <2>. QED
    BY <2>1
<1>2. CASE script[n] # "skip"
  <2>1. header \in TextLines
    BY HeaderTyped
  <2>2. line \in TextLines
    BY <1>2, LineTyped
  <2>3. LinesOf(script, n) \in {<<header>> \o <<line>>, <<>> \o <<line>>}
    BY <1>2 DEF LinesOf
  <2> HIDE DEF header, line
  <2>4. <<header>> \o <<line>> \in Seq(TextLines) /\ <<>> \o <<line>> \in Seq(TextLines)
    BY <2>1, <2>2
  <2>5. RowOf(script, n) \in Seq(ShownLines)
    BY <1>2, RowTyped
  <2>. QED
    BY <2>3, <2>4, <2>5
<1>. QED
  BY <1>1, <1>2

(* Lines of a patch that show these rows, wherever they stand, and whether *)
(* they have a hunk.                                                       *)
Shows(lines, more, hunk) ==
  \A p, rows : \A k \in Nat :
    Faithful(p, rows, k) =>
      /\ Faithful(Run(p, lines), rows \o more, k + Len(lines))
      /\ Run(p, lines).ok <=> p.ok \/ hunk

LEMMA NothingShowsNothing == Shows(<<>>, <<>>, FALSE)
<1>. SUFFICES ASSUME NEW p, NEW rows, NEW k \in Nat, Faithful(p, rows, k)
              PROVE  Faithful(Run(p, <<>>), rows \o <<>>, k + Len(<<>>)) /\ (Run(p, <<>>).ok <=> p.ok)
  BY DEF Shows
<1>1. rows \in Seq(ShownLines)
  BY DEF Faithful
<1>2. rows \o <<>> = rows /\ k + Len(<<>>) = k
  BY <1>1
<1>3. Run(p, <<>>) = p
  BY RunNothing
<1>. QED
  BY <1>2, <1>3

LEMMA JoinedShows ==
  ASSUME NEW a \in Seq(TextLines), NEW b \in Seq(TextLines),
         NEW r \in Seq(ShownLines), NEW s \in Seq(ShownLines),
         NEW g \in BOOLEAN, NEW h \in BOOLEAN, Shows(a, r, g), Shows(b, s, h)
  PROVE  Shows(a \o b, r \o s, g \/ h)
<1>. SUFFICES ASSUME NEW p, NEW rows, NEW k \in Nat, Faithful(p, rows, k)
              PROVE  /\ Faithful(Run(p, a \o b), rows \o (r \o s), k + Len(a \o b))
                     /\ Run(p, a \o b).ok <=> p.ok \/ g \/ h
  BY DEF Shows
<1>1. /\ Faithful(Run(p, a), rows \o r, k + Len(a)) /\ k + Len(a) \in Nat
      /\ Run(p, a).ok <=> p.ok \/ g
  BY DEF Shows
<1>2. /\ Faithful(Run(Run(p, a), b), (rows \o r) \o s, (k + Len(a)) + Len(b))
      /\ Run(Run(p, a), b).ok <=> Run(p, a).ok \/ h
  BY <1>1 DEF Shows
<1>3. rows \in Seq(ShownLines)
  BY DEF Faithful
<1>4. (rows \o r) \o s = rows \o (r \o s)
  BY <1>3, JoinedTwice
<1>5. k + Len(a \o b) = (k + Len(a)) + Len(b)
  <2>1. Len(a \o b) = Len(a) + Len(b) /\ Len(a) \in Nat /\ Len(b) \in Nat
    OBVIOUS
  <2>. QED
    BY <2>1
<1>6. Run(p, a \o b) = Run(Run(p, a), b)
  BY RunJoined
<1>. QED
  BY <1>1, <1>2, <1>4, <1>5, <1>6

LEMMA OtherShows ==
  ASSUME NEW prefix \in MetaPrefixes \cup {""}
  PROVE  /\ Line(prefix) \in TextLines /\ <<Line(prefix)>> \in Seq(TextLines)
         /\ Shows(<<Line(prefix)>>, <<>>, FALSE)
<1> DEFINE line == Line(prefix)
<1>1. ASSUME NEW p, NEW rows, NEW k \in Nat, Faithful(p, rows, k)
      PROVE  /\ line \in TextLines /\ Faithful(Run(p, <<line>>), rows \o <<>>, k + Len(<<line>>))
             /\ Run(p, <<line>>).ok <=> p.ok
  <2>1. rows \in Seq(ShownLines)
    BY <1>1 DEF Faithful
  <2>2. line \in TextLines /\ Faithful(ParseLine(p, line), rows, k + 1)
        /\ ParseLine(p, line).ok = p.ok
    BY <1>1, OtherLineKeeps
  <2>3. Run(p, <<line>>) = ParseLine(p, line)
    BY RunOne
  <2> HIDE DEF line
  <2>4. rows \o <<>> = rows /\ Len(<<line>>) = 1
    BY <2>1, <2>2, JoinedTwice, OneElement
  <2>. QED
    BY <2>2, <2>3, <2>4
<1>2. line \in TextLines
  <2>1. prefix \in LinePrefixes
    BY DEF LinePrefixes
  <2>2. line = [prefix |-> prefix, old |-> None, new |-> None]
    BY DEF Line
  <2> HIDE DEF line
  <2>. QED
    BY <2>1, <2>2, NoneIsNumber DEF TextLines
<1> HIDE DEF line
<1>3. Shows(<<line>>, <<>>, FALSE)
  BY <1>1 DEF Shows
<1>4. <<line>> \in Seq(TextLines)
  BY <1>2, OneElement
<1>. QED
  BY <1>2, <1>3, <1>4 DEF line

(* The hunks of a file show its rows.                                      *)
HunksOf(script) == FlattenSeq([n \in DOMAIN script |-> LinesOf(script, n)])

HasHunk(script) == \E n \in DOMAIN script : script[n] # "skip"

LEMMA HunksShow ==
  ASSUME NEW script \in Seq(Edits)
  PROVE  /\ HunksOf(script) \in Seq(TextLines) /\ RowsOf(script) \in Seq(ShownLines)
         /\ Shows(HunksOf(script), RowsOf(script), HasHunk(script))
<1> DEFINE m == Len(script)
           parts == [n \in 1..m |-> LinesOf(script, n)]
           shows == [n \in 1..m |-> RowOf(script, n)]
<1>1. m \in Nat /\ DOMAIN script = 1..m
  OBVIOUS
<1>2. \A n \in 1..m : parts[n] = LinesOf(script, n) /\ shows[n] = RowOf(script, n)
  OBVIOUS
<1>3. HunksOf(script) = FlattenSeq(parts) /\ RowsOf(script) = FlattenSeq(shows)
  BY <1>1 DEF HunksOf, RowsOf
<1>4. \A n \in 1..m : LinesOf(script, n) \in Seq(TextLines) /\ RowOf(script, n) \in Seq(ShownLines)
  BY LinesTyped
<1>5. parts \in [1..m -> Seq(TextLines)] /\ shows \in [1..m -> Seq(ShownLines)]
  BY <1>4
<1> HIDE DEF parts, shows
<1>6. PICK F : Joins(F, TextLines, parts, m)
  BY <1>1, <1>5, FlattenIsLoop
<1>7. PICK G : Joins(G, ShownLines, shows, m)
  BY <1>1, <1>5, FlattenIsLoop
<1>8. /\ F[0] = <<>>
      /\ \A i \in 1..m : F[i] = F[i - 1] \o parts[i]
      /\ \A i \in 0..m : F[i] \in Seq(TextLines)
      /\ FlattenSeq(parts) = F[m]
  BY <1>6 DEF Joins
<1>9. /\ G[0] = <<>>
      /\ \A i \in 1..m : G[i] = G[i - 1] \o shows[i]
      /\ \A i \in 0..m : G[i] \in Seq(ShownLines)
      /\ FlattenSeq(shows) = G[m]
  BY <1>7 DEF Joins
<1> HIDE DEF m
<1>10. m \in 0..m
  BY <1>1
<1>11. ASSUME NEW p, NEW rows, NEW k \in Nat, Faithful(p, rows, k)
      PROVE  /\ Faithful(Run(p, F[m]), rows \o G[m], k + Len(F[m]))
             /\ Run(p, F[m]).ok <=> p.ok \/ \E n \in 1..m : script[n] # "skip"
  <2> DEFINE At(i) == /\ Faithful(Run(p, F[i]), rows \o G[i], k + Len(F[i]))
                      /\ i = 0 \/ script[i] = "skip" \/ Ready(Run(p, F[i]), script, i + 1)
                      /\ Run(p, F[i]).ok <=> p.ok \/ \E n \in 1..i : script[n] # "skip"
             T == {i \in 0..m : At(i)}
  <2>1. rows \in Seq(ShownLines)
    BY <1>11 DEF Faithful
  <2>2. 0 \in T
    <3>1. rows \o <<>> = rows /\ k + Len(<<>>) = k /\ Run(p, <<>>) = p /\ 0 \in 0..m
      BY <1>1, <2>1, RunNothing
    <3>2. Faithful(Run(p, <<>>), rows \o <<>>, k + Len(<<>>))
      BY <1>11, <3>1
    <3>3. At(0)
      BY <1>8, <1>9, <3>1, <3>2
    <3> HIDE DEF At
    <3>. QED
      BY <3>1, <3>3
  <2>3. ASSUME NEW i \in 1..m, i - 1 \in T
        PROVE  i \in T
    <3> DEFINE before == Run(p, F[i - 1])
               had == rows \o G[i - 1]
               j == k + Len(F[i - 1])
    <3>1. i - 1 \in 0..m /\ i \in 0..m /\ (i - 1) + 1 = i /\ (i - 1 = 0 => i = 1)
      BY <1>1
    <3>2. At(i - 1)
      BY <2>3
    <3>3. /\ Faithful(before, had, j) /\ j \in Nat
          /\ i = 1 \/ script[i - 1] = "skip" \/ Ready(before, script, i)
          /\ before.ok <=> p.ok \/ \E n \in 1..i - 1 : script[n] # "skip"
      BY <1>8, <3>1, <3>2
    <3> HIDE DEF before, had, j, At
    <3>4. /\ Faithful(Run(before, LinesOf(script, i)), had \o RowOf(script, i), j + Len(LinesOf(script, i)))
          /\ script[i] = "skip" \/ Ready(Run(before, LinesOf(script, i)), script, i + 1)
          /\ Run(before, LinesOf(script, i)).ok <=> before.ok \/ script[i] # "skip"
      BY <3>3, ScriptLineKeeps DEF m
    <3>5. /\ F[i - 1] \in Seq(TextLines) /\ parts[i] \in Seq(TextLines)
          /\ G[i - 1] \in Seq(ShownLines) /\ shows[i] \in Seq(ShownLines)
          /\ F[i] = F[i - 1] \o parts[i] /\ G[i] = G[i - 1] \o shows[i]
          /\ parts[i] = LinesOf(script, i) /\ shows[i] = RowOf(script, i)
      BY <1>2, <1>4, <1>8, <1>9, <3>1
    <3>6. Run(p, F[i]) = Run(before, LinesOf(script, i))
      BY <3>5, RunJoined DEF before
    <3>7. rows \o G[i] = had \o RowOf(script, i)
      <4> DEFINE g == G[i - 1]
                 x == shows[i]
      <4>1. g \in Seq(ShownLines) /\ x \in Seq(ShownLines)
        BY <3>5
      <4> HIDE DEF g, x
      <4>2. (rows \o g) \o x = rows \o (g \o x)
        BY <2>1, <4>1, JoinedTwice
      <4>. QED
        BY <3>5, <4>2 DEF had, g, x
    <3>8. k + Len(F[i]) = j + Len(LinesOf(script, i))
      <4>1. Len(F[i]) = Len(F[i - 1]) + Len(parts[i]) /\ Len(F[i - 1]) \in Nat /\ Len(parts[i]) \in Nat
        BY <3>5
      <4>. QED
        BY <3>5, <4>1 DEF j
    <3>9. (\E n \in 1..i : script[n] # "skip") <=>
            (\E n \in 1..i - 1 : script[n] # "skip") \/ script[i] # "skip"
      <4>1. \A n : n \in 1..i <=> n \in 1..i - 1 \/ n = i
        BY <1>1
      <4>. QED
        BY <4>1
    <3>10. At(i)
      BY <3>3, <3>4, <3>6, <3>7, <3>8, <3>9 DEF At
    <3>. QED
      BY <3>1, <3>10
  <2> HIDE DEF T
  <2>4. \A i \in 0..m : i \in T
    BY <1>1, <2>2, <2>3, LoopInduction
  <2>5. At(m)
    BY <1>10, <2>4 DEF T
  <2>. QED
    BY <2>5
<1>12. HasHunk(script) <=> \E n \in 1..m : script[n] # "skip"
  BY <1>1 DEF HasHunk
<1>. QED
  BY <1>3, <1>8, <1>9, <1>10, <1>11, <1>12 DEF Shows

LEMMA NoRows == <<>> \in Seq(ShownLines)
OBVIOUS

(* A line that is no row, after such lines.                                *)
LEMMA OtherAfter ==
  ASSUME NEW a \in Seq(TextLines), NEW r \in Seq(ShownLines), NEW h \in BOOLEAN, Shows(a, r, h),
         NEW prefix \in MetaPrefixes \cup {""}
  PROVE  a \o <<Line(prefix)>> \in Seq(TextLines) /\ Shows(a \o <<Line(prefix)>>, r, h)
<1> DEFINE b == <<Line(prefix)>>
<1>1. b \in Seq(TextLines) /\ Shows(b, <<>>, FALSE)
  BY OtherShows
<1> HIDE DEF b
<1>2. a \o b \in Seq(TextLines) /\ r \o <<>> = r
  BY <1>1, JoinedTwice
<1>3. Shows(a \o b, r \o <<>>, h \/ FALSE)
  BY <1>1, NoRows, JoinedShows
<1>4. (h \/ FALSE) = h
  OBVIOUS
<1>. QED
  BY <1>2, <1>3, <1>4 DEF b

LEMMA FourJoined ==
  ASSUME NEW X, NEW a \in X, NEW b \in X, NEW c \in X, NEW d \in X
  PROVE  <<a, b, c, d>> = ((<<a>> \o <<b>>) \o <<c>>) \o <<d>>
<1> DEFINE one == <<a>>
           two == one \o <<b>>
           three == two \o <<c>>
           four == three \o <<d>>
           all == <<a, b, c, d>>
<1>1. one \in Seq(X) /\ Len(one) = 1 /\ one[1] = a
  OBVIOUS
<1> HIDE DEF one
<1>2. /\ two \in Seq(X) /\ Len(two) = Len(one) + 1 /\ two[Len(one) + 1] = b
      /\ \A i \in 1..Len(one) : two[i] = one[i]
  BY <1>1, OneMore
<1> HIDE DEF two
<1>3. /\ three \in Seq(X) /\ Len(three) = Len(two) + 1 /\ three[Len(two) + 1] = c
      /\ \A i \in 1..Len(two) : three[i] = two[i]
  BY <1>2, OneMore
<1> HIDE DEF three
<1>4. /\ four \in Seq(X) /\ Len(four) = Len(three) + 1 /\ four[Len(three) + 1] = d
      /\ \A i \in 1..Len(three) : four[i] = three[i]
  BY <1>3, OneMore
<1> HIDE DEF four
<1>5. all \in Seq(X) /\ Len(all) = 4 /\ all[1] = a /\ all[2] = b /\ all[3] = c /\ all[4] = d
  OBVIOUS
<1> HIDE DEF all
<1>6. Len(four) = 4 /\ \A i \in 1..4 : four[i] = all[i]
  BY <1>1, <1>2, <1>3, <1>4, <1>5
<1>7. \A s, t \in Seq(X) : Len(s) = 4 /\ Len(t) = 4 /\ (\A i \in 1..4 : s[i] = t[i]) => s = t
  <2>1. \A s \in Seq(X) : s = [i \in 1..Len(s) |-> s[i]]
    OBVIOUS
  <2>. QED
    BY <2>1
<1>8. four = all
  BY <1>4, <1>5, <1>6, <1>7
<1>. QED
  BY <1>8 DEF one, two, three, four, all

(* The patch of a file shows the rows of the file.                         *)
LEMMA PatchShows ==
  ASSUME NEW script \in Seq(Edits)
  PROVE  /\ PatchOf(script) \in Seq(TextLines) /\ RowsOf(script) \in Seq(ShownLines)
         /\ Shows(PatchOf(script), RowsOf(script), HasHunk(script))
<1> DEFINE one == <<Line("diff ")>>
           two == one \o <<Line("index ")>>
           three == two \o <<Line("---")>>
           head == three \o <<Line("+++")>>
           file == head \o HunksOf(script)
<1>1. {"diff ", "index ", "---", "+++", ""} = MetaPrefixes \cup {""}
  BY DEF MetaPrefixes
<1>2. PatchOf(script) = file \o <<Line("")>>
  <2>1. <<Line("diff "), Line("index "), Line("---"), Line("+++")>> = head
    <3> DEFINE a == Line("diff ")
               b == Line("index ")
               c == Line("---")
               d == Line("+++")
    <3>1. a \in TextLines /\ b \in TextLines /\ c \in TextLines /\ d \in TextLines
      BY <1>1, OtherShows
    <3> HIDE DEF a, b, c, d
    <3>2. <<a, b, c, d>> = ((<<a>> \o <<b>>) \o <<c>>) \o <<d>>
      BY <3>1, FourJoined
    <3>. QED
      BY <3>2 DEF a, b, c, d
  <2> HIDE DEF head
  <2>. QED
    BY <2>1 DEF PatchOf, HunksOf
<1>3. <<>> \in Seq(ShownLines)
  BY NoRows
<1>4. one \in Seq(TextLines) /\ Shows(one, <<>>, FALSE)
  BY <1>1, OtherShows
<1> HIDE DEF one
<1>5. two \in Seq(TextLines) /\ Shows(two, <<>>, FALSE)
  BY <1>1, <1>3, <1>4, OtherAfter
<1> HIDE DEF two
<1>6. three \in Seq(TextLines) /\ Shows(three, <<>>, FALSE)
  BY <1>1, <1>3, <1>5, OtherAfter
<1> HIDE DEF three
<1>7. head \in Seq(TextLines) /\ Shows(head, <<>>, FALSE)
  BY <1>1, <1>3, <1>6, OtherAfter
<1> HIDE DEF head
<1>7a. HasHunk(script) \in BOOLEAN
  BY DEF HasHunk
<1>8. /\ HunksOf(script) \in Seq(TextLines) /\ RowsOf(script) \in Seq(ShownLines)
      /\ Shows(HunksOf(script), RowsOf(script), HasHunk(script))
  BY HunksShow
<1>9. file \in Seq(TextLines)
  BY <1>7, <1>8, JoinedTwice
<1>10. Shows(file, RowsOf(script), HasHunk(script))
  <2>1. Shows(file, <<>> \o RowsOf(script), FALSE \/ HasHunk(script))
    BY <1>3, <1>7, <1>8, <1>7a, JoinedShows
  <2>2. \A s \in Seq(ShownLines) : <<>> \o s = s
    OBVIOUS
  <2>3. <<>> \o RowsOf(script) = RowsOf(script)
    BY <1>8, <2>2
  <2>4. (FALSE \/ HasHunk(script)) = HasHunk(script)
    BY <1>7a
  <2>. QED
    BY <2>1, <2>3, <2>4
<1> HIDE DEF file
<1>11. file \o <<Line("")>> \in Seq(TextLines) /\ Shows(file \o <<Line("")>>, RowsOf(script), HasHunk(script))
  BY <1>1, <1>8, <1>9, <1>10, <1>7a, OtherAfter
<1>. QED
  BY <1>2, <1>8, <1>11

(* So does the patch of many files.                                        *)
LEMMA DiffShows ==
  ASSUME NEW diff \in Seq(Seq(Edits)), NEW patch, NEW rows,
         patch = FlattenSeq([i \in DOMAIN diff |-> PatchOf(diff[i])]),
         rows = FlattenSeq([i \in DOMAIN diff |-> RowsOf(diff[i])])
  PROVE  patch \in Seq(TextLines) /\ rows \in Seq(ShownLines) /\ Shows(patch, rows, \E i \in DOMAIN diff : HasHunk(diff[i]))
<1> DEFINE m == Len(diff)
           parts == [i \in 1..m |-> PatchOf(diff[i])]
           shows == [i \in 1..m |-> RowsOf(diff[i])]
<1>1. m \in Nat /\ DOMAIN diff = 1..m /\ \A i \in 1..m : diff[i] \in Seq(Edits)
  OBVIOUS
<1>2. \A i \in 1..m : parts[i] = PatchOf(diff[i]) /\ shows[i] = RowsOf(diff[i])
  OBVIOUS
<1>3. patch = FlattenSeq(parts) /\ rows = FlattenSeq(shows)
  BY <1>1
<1>4. \A i \in 1..m : /\ PatchOf(diff[i]) \in Seq(TextLines) /\ RowsOf(diff[i]) \in Seq(ShownLines)
                      /\ Shows(PatchOf(diff[i]), RowsOf(diff[i]), HasHunk(diff[i]))
  BY <1>1, PatchShows
<1>5. parts \in [1..m -> Seq(TextLines)] /\ shows \in [1..m -> Seq(ShownLines)]
  BY <1>4
<1> HIDE DEF parts, shows, m
<1>6. PICK F : Joins(F, TextLines, parts, m)
  BY <1>1, <1>5, FlattenIsLoop
<1>7. PICK G : Joins(G, ShownLines, shows, m)
  BY <1>1, <1>5, FlattenIsLoop
<1> DEFINE Some(i) == \E j \in 1..i : HasHunk(diff[j])
           T == {i \in 0..m : Shows(F[i], G[i], Some(i))}
<1>8. 0 \in T
  <2>1. 0 \in 0..m
    BY <1>1
  <2>2. F[0] = <<>> /\ G[0] = <<>>
    BY <1>6, <1>7 DEF Joins
  <2>3. Some(0) = FALSE
    OBVIOUS
  <2> HIDE DEF Some
  <2>. QED
    BY <2>1, <2>2, <2>3, NothingShowsNothing
<1>9. ASSUME NEW i \in 1..m, i - 1 \in T
      PROVE  i \in T
  <2>1. i - 1 \in 0..m /\ i \in 0..m
    BY <1>1
  <2>2. /\ F[i - 1] \in Seq(TextLines) /\ parts[i] \in Seq(TextLines)
        /\ G[i - 1] \in Seq(ShownLines) /\ shows[i] \in Seq(ShownLines)
        /\ F[i] = F[i - 1] \o parts[i] /\ G[i] = G[i - 1] \o shows[i]
    BY <1>2, <1>4, <1>6, <1>7, <2>1 DEF Joins
  <2>3. Shows(F[i - 1], G[i - 1], Some(i - 1)) /\ Shows(parts[i], shows[i], HasHunk(diff[i]))
    BY <1>2, <1>4, <1>9
  <2>4. \A j : j \in 1..i <=> j \in 1..i - 1 \/ j = i
    BY <1>1
  <2>5. Some(i) = (Some(i - 1) \/ HasHunk(diff[i]))
    BY <2>4
  <2>6. Some(i - 1) \in BOOLEAN /\ HasHunk(diff[i]) \in BOOLEAN
    BY DEF HasHunk
  <2> HIDE DEF Some
  <2>7. Shows(F[i - 1] \o parts[i], G[i - 1] \o shows[i], Some(i - 1) \/ HasHunk(diff[i]))
    BY <2>2, <2>3, <2>6, JoinedShows
  <2>. QED
    BY <2>1, <2>2, <2>5, <2>7
<1> HIDE DEF T
<1>10. \A i \in 0..m : i \in T
  BY <1>1, <1>8, <1>9, LoopInduction
<1>11. m \in 0..m
  BY <1>1
<1>12. Shows(F[m], G[m], Some(m))
  BY <1>10, <1>11 DEF T
<1>13. /\ F[m] \in Seq(TextLines) /\ patch = F[m]
       /\ G[m] \in Seq(ShownLines) /\ rows = G[m]
  BY <1>3, <1>6, <1>7, <1>11 DEF Joins
<1>14. Some(m) = (\E i \in DOMAIN diff : HasHunk(diff[i]))
  BY <1>1
<1> HIDE DEF Some
<1>. QED
  BY <1>12, <1>13, <1>14

LEMMA DiffFollows == IsPage(page) => DiffNumbersAreTrue
<1>. SUFFICES ASSUME IsPage(page) PROVE DiffNumbersAreTrue
  OBVIOUS
<1> DEFINE patch == FlattenSeq([i \in DOMAIN page.diff |-> PatchOf(page.diff[i])])
           rows == FlattenSeq([i \in DOMAIN page.diff |-> RowsOf(page.diff[i])])
           parsed == ParseUnifiedDiff(patch)
           hunk == \E i \in DOMAIN page.diff : HasHunk(page.diff[i])
<1>1. page.diff \in Seq(Seq(Edits))
  BY DEF IsPage
<1>2. patch \in Seq(TextLines) /\ rows \in Seq(ShownLines) /\ Shows(patch, rows, hunk)
  BY <1>1, DiffShows
<1>3. DiffNumbersAreTrue <=>
        /\ Numbered(parsed.lines) = rows
        /\ Len(parsed.lines) = Len(patch)
        /\ parsed.additions = CountOf(rows, "add") /\ parsed.deletions = CountOf(rows, "remove")
        /\ parsed.ok <=> hunk
  BY DEF DiffNumbersAreTrue, HasHunk
<1>4. parsed = Run(EmptyParse, patch)
  BY ParseIsRun
<1> HIDE DEF patch, rows, parsed, hunk
<1>5. /\ Faithful(Run(EmptyParse, patch), <<>> \o rows, 0 + Len(patch))
      /\ Run(EmptyParse, patch).ok <=> EmptyParse.ok \/ hunk
  BY <1>2, EmptyIsFaithful DEF Shows
<1>6. <<>> \o rows = rows /\ 0 + Len(patch) = Len(patch)
  BY <1>2
<1>7. Faithful(parsed, rows, Len(patch))
  BY <1>4, <1>5, <1>6
<1>8. parsed.ok <=> hunk
  BY <1>4, <1>5 DEF EmptyParse
<1>. QED
  BY <1>3, <1>7, <1>8 DEF Faithful

(* Whatever lines were kept, added and removed in however many files: the  *)
(* viewer shows, in order, each line it does not take for a file's header, *)
(* with its numbers less the lines of its hunk it misread, and counts      *)
(* them; what it misreads in a hunk does not reach the next.               *)
THEOREM DiffNumbersAlwaysTrue == Spec => []DiffNumbersAreTrue
<1>1. IInv => DiffNumbersAreTrue
  BY DiffFollows DEF IInv, TypeOK
<1>. QED
  BY <1>1, Invariance, PTL
=============================================================================
