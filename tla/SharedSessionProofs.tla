------------------------ MODULE SharedSessionProofs ------------------------
(***************************************************************************)
(* Proofs about SharedSession for any batches of events.                   *)
(***************************************************************************)
EXTENDS SharedSession, FiniteSetTheorems, TLAPS

Reading  == INSTANCE FoldFacts WITH Op <- ReadRecord
Merging  == INSTANCE FoldFacts WITH Op <- MergeData
Planning == INSTANCE FoldFacts WITH Op <- PlanMessage

(* The three folds of the model, as loops.                                 *)
LEMMA FoldsAreFolds ==
  /\ \A items : Document(items) =
       Reading!Folded(EmptyDocument, [i \in DOMAIN items |-> RecordOf(items[i], i - 1)])
  /\ \A items, batch : MergeBatch(items, batch) = Merging!Folded(items, batch)
  /\ \A latest : Plan(latest) = Planning!Folded(EmptyPlan, VisibleMessages(latest))
BY DEF Document, MergeBatch, Plan, FoldLeft, MapThenFoldSet, Max, Reading!Folded, Reading!MaxOf,
       Merging!Folded, Merging!MaxOf, Planning!Folded, Planning!MaxOf

(* Document reads the events one after the other.                          *)
LEMMA DocumentIsLoop ==
  ASSUME NEW items, NEW n \in Nat, DOMAIN items = 1..n
  PROVE  \E D : /\ D[0] = EmptyDocument
                /\ \A i \in 1..n : D[i] = ReadRecord(D[i - 1], RecordOf(items[i], i - 1))
                /\ Document(items) = D[n]
<1> DEFINE seq == [i \in DOMAIN items |-> RecordOf(items[i], i - 1)]
<1>1. DOMAIN seq = 1..n /\ \A i \in 1..n : seq[i] = RecordOf(items[i], i - 1)
  OBVIOUS
<1>2. Document(items) = Reading!Folded(EmptyDocument, seq)
  BY FoldsAreFolds
<1> HIDE DEF seq
<1>3. QED
  BY <1>1, <1>2, Reading!FoldIsLoop

LEMMA MergeBatchIsLoop ==
  ASSUME NEW items, NEW batch, NEW n \in Nat, DOMAIN batch = 1..n
  PROVE  \E P : /\ P[0] = items
                /\ \A i \in 1..n : P[i] = MergeData(P[i - 1], batch[i])
                /\ MergeBatch(items, batch) = P[n]
<1>1. MergeBatch(items, batch) = Merging!Folded(items, batch)
  BY FoldsAreFolds
<1>2. QED
  BY <1>1, Merging!FoldIsLoop

LEMMA PlanIsLoop ==
  ASSUME NEW latest, NEW n \in Nat, DOMAIN VisibleMessages(latest) = 1..n
  PROVE  \E P : /\ P[0] = EmptyPlan
                /\ \A i \in 1..n : P[i] = PlanMessage(P[i - 1], VisibleMessages(latest)[i])
                /\ Plan(latest) = P[n]
BY FoldsAreFolds, Planning!FoldIsLoop

-----------------------------------------------------------------------------
(* What an event is a version of does not depend on where it stands.       *)
LEMMA EventFacts ==
  ASSUME NEW event \in Events
  PROVE  /\ event.type \in Types /\ event.data # NotData
         /\ EntityKey(event) = <<event.type, OwnKey(event)>>
         /\ EntityKey(event) # NoKey
<1> DEFINE rec == [type |-> event.type, data |-> event.data, rawItemIndex |-> 0, arrayOffset |-> 0]
<1>1. event.type \in Types /\ event.data # NotData /\ OwnKey(event) # Absent /\ EntityKey(event) # NoKey
  BY EventAssumption
<1>2. OwnKey(rec) = OwnKey(event)
  BY DEF OwnKey
<1>3. EntityKey(event) = <<event.type, LatestKey(rec)>>
  BY DEF EntityKey
<1> HIDE DEF rec
<1>4. LatestKey(rec) = OwnKey(event)
  BY <1>1, <1>2 DEF LatestKey, Or
<1>5. QED
  BY <1>1, <1>3, <1>4

LEMMA RecordFacts ==
  ASSUME NEW item, item.event \in Events, NEW index
  PROVE  LET rec == RecordOf(item, index)
         IN  /\ rec.type = item.event.type /\ rec.data = item.event.data
             /\ Recorded(rec)
             /\ LatestKey(rec) = OwnKey(item.event)
             /\ Source(rec) = [rawItemIndex |-> index, arrayOffset |-> 0]
<1> DEFINE rec == RecordOf(item, index)
<1>1. rec.type = item.event.type /\ rec.data = item.event.data
  BY DEF RecordOf
<1>2. Source(rec) = [rawItemIndex |-> index, arrayOffset |-> 0]
  BY DEF Source, RecordOf
<1> HIDE DEF rec
<1>3. OwnKey(rec) = OwnKey(item.event)
  BY <1>1 DEF OwnKey
<1>4. OwnKey(item.event) # Absent /\ item.event.type \in Types /\ item.event.data # NotData
  BY EventAssumption
<1>5. LatestKey(rec) = OwnKey(item.event) /\ Recorded(rec)
  BY <1>1, <1>3, <1>4 DEF LatestKey, Or, Recorded
<1>6. QED
  BY <1>1, <1>2, <1>5 DEF rec

(* A recorded event changes the history of its entity and no other.        *)
LEMMA UpsertFacts ==
  ASSUME NEW entries, DOMAIN entries = Types, NEW rec, Recorded(rec)
  PROVE  LET after == Upsert(entries, rec)
             key == LatestKey(rec)
             version == [value |-> rec.data, sourceIndex |-> Source(rec)]
             before == entries[rec.type]
         IN  /\ DOMAIN after = Types
             /\ \A type \in Types \ {rec.type} : after[type] = entries[type]
             /\ DOMAIN after[rec.type] = DOMAIN before \cup {key}
             /\ \A k \in DOMAIN before \ {key} : after[rec.type][k] = before[k]
             /\ key \in DOMAIN before => after[rec.type][key] = before[key] \o <<version>>
             /\ key \notin DOMAIN before => after[rec.type][key] = <<>> \o <<version>>
<1> DEFINE key == LatestKey(rec)
           version == [value |-> rec.data, sourceIndex |-> Source(rec)]
           before == entries[rec.type]
           history == (IF key \in DOMAIN before THEN before[key] ELSE <<>>) \o <<version>>
           new == UpsertVersion(before, key, rec.data, Source(rec))
<1>1. rec.type \in Types
  BY DEF Recorded
<1>2. new = [k \in DOMAIN before \cup {key} |-> IF k = key THEN history ELSE before[k]]
  BY DEF UpsertVersion, Put
<1>3. Upsert(entries, rec) = [entries EXCEPT ![rec.type] = new]
  BY DEF Upsert
<1> HIDE DEF new
<1>4. DOMAIN Upsert(entries, rec) = Types /\ Upsert(entries, rec)[rec.type] = new
  BY <1>1, <1>3
<1>5. \A type \in Types \ {rec.type} : Upsert(entries, rec)[type] = entries[type]
  BY <1>3
<1> HIDE DEF history, key, before
<1>6. /\ DOMAIN new = DOMAIN before \cup {key} /\ new[key] = history
      /\ \A k \in DOMAIN before \ {key} : new[k] = before[k]
  BY <1>2
<1>7. /\ key \in DOMAIN before => history = before[key] \o <<version>>
      /\ key \notin DOMAIN before => history = <<>> \o <<version>>
  BY DEF history
<1>8. QED
  BY <1>4, <1>5, <1>6, <1>7 DEF key, before

-----------------------------------------------------------------------------
(* What the latest state says after k events, without a loop: it knows     *)
(* the entities of those events, the first version of each and the last.   *)

(* The share holds n events.                                               *)
Shares(items, n) ==
  /\ n \in Nat /\ DOMAIN items = 1..n
  /\ \A i \in 1..n : items[i].event \in Events

SameEntity(items, i, j) == EntityKey(items[i].event) = EntityKey(items[j].event)

Version(items, i) ==
  [value |-> items[i].event.data, sourceIndex |-> [rawItemIndex |-> i - 1, arrayOffset |-> 0]]

Knows(latest, items, n, k) ==
  /\ DOMAIN latest = Types
  /\ \A type \in Types :
       DOMAIN latest[type] = {OwnKey(items[i].event) : i \in {j \in 1..k : items[j].event.type = type}}
  /\ \A i \in 1..k :
       LET history == latest[items[i].event.type][OwnKey(items[i].event)]
       IN  /\ history \in Seq({Version(items, j) : j \in 1..n}) /\ Len(history) >= 1
           /\ (\A j \in 1..(i - 1) : ~SameEntity(items, i, j)) => history[1] = Version(items, i)
           /\ (\A j \in (i + 1)..k : ~SameEntity(items, i, j)) =>
                history[Len(history)] = Version(items, i)

LEMMA SameEntityFacts ==
  ASSUME NEW items, NEW n, Shares(items, n), NEW i \in 1..n, NEW j \in 1..n
  PROVE  SameEntity(items, i, j) <=>
           /\ items[i].event.type = items[j].event.type
           /\ OwnKey(items[i].event) = OwnKey(items[j].event)
<1>1. items[i].event \in Events /\ items[j].event \in Events
  BY DEF Shares
<1>2. /\ EntityKey(items[i].event) = <<items[i].event.type, OwnKey(items[i].event)>>
      /\ EntityKey(items[j].event) = <<items[j].event.type, OwnKey(items[j].event)>>
  BY <1>1, EventFacts
<1>3. QED
  BY <1>2 DEF SameEntity

LEMMA OneMoreVersion ==
  ASSUME NEW V, NEW h \in Seq(V), NEW v \in V
  PROVE  /\ h \o <<v>> \in Seq(V) /\ Len(h \o <<v>>) = Len(h) + 1
         /\ (h \o <<v>>)[Len(h) + 1] = v
         /\ Len(h) >= 1 => (h \o <<v>>)[1] = h[1]
  OBVIOUS

LEMMA KnowsOneMore ==
  ASSUME NEW items, NEW n, Shares(items, n), NEW k \in 1..n,
         NEW latest, Knows(latest, items, n, k - 1)
  PROVE  Knows(Upsert(latest, RecordOf(items[k], k - 1)), items, n, k)
<1> DEFINE rec == RecordOf(items[k], k - 1)
           after == Upsert(latest, rec)
           V == {Version(items, j) : j \in 1..n}
           E(i) == items[i].event
<1>1. n \in Nat /\ \A i \in 1..n : E(i) \in Events /\ E(i).type \in Types
  BY EventFacts DEF Shares
<1>2. /\ rec.type = E(k).type /\ rec.data = E(k).data /\ Recorded(rec)
      /\ LatestKey(rec) = OwnKey(E(k))
      /\ [value |-> rec.data, sourceIndex |-> Source(rec)] = Version(items, k)
  BY <1>1, RecordFacts DEF Version
<1> DEFINE type == E(k).type
           key == OwnKey(E(k))
           before == latest[type]
<1>3. DOMAIN latest = Types
  BY DEF Knows
<1>4. /\ DOMAIN after = Types
      /\ \A t \in Types \ {type} : after[t] = latest[t]
      /\ DOMAIN after[type] = DOMAIN before \cup {key}
      /\ \A x \in DOMAIN before \ {key} : after[type][x] = before[x]
      /\ key \in DOMAIN before => after[type][key] = before[key] \o <<Version(items, k)>>
      /\ key \notin DOMAIN before => after[type][key] = <<>> \o <<Version(items, k)>>
  <2> DEFINE v == [value |-> rec.data, sourceIndex |-> Source(rec)]
             was == latest[rec.type]
  <2> HIDE DEF rec
  <2>1. /\ DOMAIN after = Types
        /\ \A t \in Types \ {rec.type} : after[t] = latest[t]
        /\ DOMAIN after[rec.type] = DOMAIN was \cup {LatestKey(rec)}
        /\ \A x \in DOMAIN was \ {LatestKey(rec)} : after[rec.type][x] = was[x]
        /\ LatestKey(rec) \in DOMAIN was => after[rec.type][LatestKey(rec)] = was[LatestKey(rec)] \o <<v>>
        /\ LatestKey(rec) \notin DOMAIN was => after[rec.type][LatestKey(rec)] = <<>> \o <<v>>
    BY <1>2, <1>3, UpsertFacts
  <2>2. v = Version(items, k) /\ rec.type = type /\ LatestKey(rec) = key
    BY <1>2
  <2> HIDE DEF after, v
  <2>3. QED
    BY <2>1, <2>2
<1> HIDE DEF after, rec
<1>5. ASSUME NEW t \in Types
      PROVE  DOMAIN after[t] = {OwnKey(E(i)) : i \in {j \in 1..k : E(j).type = t}}
  <2>1. DOMAIN latest[t] = {OwnKey(E(i)) : i \in {j \in 1..(k - 1) : E(j).type = t}}
    BY DEF Knows
  <2>2. 1..k = 1..(k - 1) \cup {k} /\ k \in Nat
    BY <1>1
  <2>3. CASE t = type
    BY <1>4, <2>1, <2>2, <2>3
  <2>4. CASE t # type
    BY <1>4, <2>1, <2>2, <2>4
  <2>5. QED
    BY <2>3, <2>4
<1>6. \A i \in 1..n : SameEntity(items, i, k) <=> E(i).type = type /\ OwnKey(E(i)) = key
  BY SameEntityFacts
<1> DEFINE h(i) == after[E(i).type][OwnKey(E(i))]
           old(i) == latest[E(i).type][OwnKey(E(i))]
<1>7. ASSUME NEW i \in 1..(k - 1)
      PROVE  /\ old(i) \in Seq(V) /\ Len(old(i)) >= 1
             /\ (\A j \in 1..(i - 1) : ~SameEntity(items, i, j)) => old(i)[1] = Version(items, i)
             /\ (\A j \in (i + 1)..(k - 1) : ~SameEntity(items, i, j)) =>
                  old(i)[Len(old(i))] = Version(items, i)
             /\ OwnKey(E(i)) \in DOMAIN latest[E(i).type]
  <2>1. i \in 1..n
    BY <1>1
  <2>2. OwnKey(E(i)) \in DOMAIN latest[E(i).type]
    BY <1>1, <2>1 DEF Knows
  <2>3. QED
    BY <2>2 DEF Knows
<1>8. Version(items, k) \in V
  OBVIOUS
<1>9. ASSUME NEW i \in 1..k
      PROVE  /\ h(i) \in Seq(V) /\ Len(h(i)) >= 1
             /\ (\A j \in 1..(i - 1) : ~SameEntity(items, i, j)) => h(i)[1] = Version(items, i)
             /\ (\A j \in (i + 1)..k : ~SameEntity(items, i, j)) =>
                  h(i)[Len(h(i))] = Version(items, i)
  <2>1. i \in 1..n /\ k \in Nat
    BY <1>1
  <2>2. CASE i # k /\ ~SameEntity(items, i, k)
    <3>1. i \in 1..(k - 1)
      BY <2>1, <2>2
    <3>2. h(i) = old(i)
      <4>1. ~(E(i).type = type /\ OwnKey(E(i)) = key) /\ E(i).type \in Types
        BY <1>1, <1>6, <2>1, <2>2
      <4>2. QED
        BY <1>4, <1>7, <3>1, <4>1
    <3>3. (i + 1)..(k - 1) \subseteq (i + 1)..k
      BY <2>1
    <3>4. QED
      BY <1>7, <3>1, <3>2, <3>3
  <2>3. CASE i # k /\ SameEntity(items, i, k)
    <3>1. i \in 1..(k - 1) /\ k \in (i + 1)..k
      BY <2>1, <2>3
    <3>2. h(i) = old(i) \o <<Version(items, k)>>
      BY <1>4, <1>6, <1>7, <2>1, <2>3, <3>1
    <3>3. old(i) \in Seq(V) /\ Len(old(i)) >= 1
      BY <1>7, <3>1
    <3> HIDE DEF h, old, V
    <3>4. h(i) \in Seq(V) /\ Len(h(i)) >= 1 /\ h(i)[1] = old(i)[1]
      BY <1>8, <3>2, <3>3, OneMoreVersion
    <3>5. QED
      BY <1>7, <2>3, <3>1, <3>4 DEF old, V
  <2>4. CASE i = k
    <3>1. CASE key \in DOMAIN before
      <4>1. PICK p \in 1..(k - 1) : E(p).type = type /\ OwnKey(E(p)) = key
        BY <1>1, <3>1 DEF Knows
      <4>2. p \in 1..n /\ p \in 1..(k - 1)
        BY <1>1
      <4>3. SameEntity(items, p, k) /\ SameEntity(items, k, p)
        BY <1>6, <4>1, <4>2 DEF SameEntity
      <4>4. old(p) \in Seq(V) /\ Len(old(p)) >= 1 /\ h(k) = old(p) \o <<Version(items, k)>>
        BY <1>4, <1>7, <3>1, <4>1
      <4> HIDE DEF h, old, V
      <4>5. h(k) \in Seq(V) /\ Len(h(k)) >= 1 /\ h(k)[Len(h(k))] = Version(items, k)
        BY <1>8, <4>4, OneMoreVersion
      <4>6. QED
        BY <2>4, <4>2, <4>3, <4>5 DEF V
    <3>2. CASE key \notin DOMAIN before
      <4>1. h(k) = <<>> \o <<Version(items, k)>> /\ <<>> \in Seq(V) /\ Len(<<>>) = 0
        BY <1>4, <3>2
      <4> HIDE DEF h, old, V
      <4>2. /\ h(k) \in Seq(V) /\ Len(h(k)) = 1
            /\ h(k)[1] = Version(items, k)
        BY <1>8, <4>1
      <4>3. QED
        BY <2>4, <4>2 DEF V
    <3>3. QED
      BY <3>1, <3>2
  <2>5. QED
    BY <2>2, <2>3, <2>4
<1>10. Knows(after, items, n, k)
  BY <1>4, <1>5, <1>9 DEF Knows
<1>11. QED
  BY <1>10 DEF after, rec

LEMMA LatestKnows ==
  ASSUME NEW items, NEW n, Shares(items, n)
  PROVE  Knows(Latest(items), items, n, n)
<1>1. n \in Nat /\ DOMAIN items = 1..n
  BY DEF Shares
<1>2. PICK D : /\ D[0] = EmptyDocument
               /\ \A i \in 1..n : D[i] = ReadRecord(D[i - 1], RecordOf(items[i], i - 1))
               /\ Document(items) = D[n]
  BY <1>1, DocumentIsLoop
<1> DEFINE T == {k \in 0..n : Knows(D[k].latest, items, n, k)}
<1>3. 0 \in T
  <2>1. D[0].latest = [type \in Types |-> <<>>]
    BY <1>2 DEF EmptyDocument, NoEntries
  <2>2. \A type \in Types : DOMAIN D[0].latest[type] = {}
    BY <2>1
  <2>3. 1..0 = {}
    OBVIOUS
  <2>4. Knows(D[0].latest, items, n, 0)
    BY <2>1, <2>2, <2>3 DEF Knows
  <2>5. QED
    BY <1>1, <2>4
<1>4. ASSUME NEW k \in 1..n, k - 1 \in T
      PROVE  k \in T
  <2>1. D[k].latest = Upsert(D[k - 1].latest, RecordOf(items[k], k - 1))
    <3>1. D[k] = ReadRecord(D[k - 1], RecordOf(items[k], k - 1))
      BY <1>2
    <3>2. QED
      BY <3>1 DEF ReadRecord
  <2>2. Knows(D[k].latest, items, n, k)
    BY <1>4, <2>1, KnowsOneMore
  <2>3. QED
    BY <1>1, <2>2
<1> HIDE DEF T
<1>5. \A k \in 0..n : k \in T
  BY <1>1, <1>3, <1>4, Reading!LoopInduction
<1>6. n \in T
  BY <1>1, <1>5
<1>7. QED
  BY <1>2, <1>6 DEF T, Latest

-----------------------------------------------------------------------------
(* The first and the last event of an entity, and what they decide.        *)
IsFirst(items, i) == \A j \in 1..(i - 1) : ~SameEntity(items, i, j)

IsFinal(items, n, i) == \A j \in (i + 1)..n : ~SameEntity(items, i, j)

LEMMA EntityHasEnds ==
  ASSUME NEW items, NEW n, Shares(items, n), NEW i \in 1..n
  PROVE  /\ \E f \in 1..i : SameEntity(items, f, i) /\ IsFirst(items, f)
         /\ \E l \in i..n : SameEntity(items, l, i) /\ IsFinal(items, n, l)
<1>1. n \in Nat
  BY DEF Shares
<1> DEFINE S == {j \in 1..n : SameEntity(items, j, i)}
<1>2. i \in S /\ S \subseteq Nat /\ S \subseteq 1..n
  BY DEF SameEntity
<1>3. PICK f \in S : \A j \in S : f <= j
  <2> HIDE DEF S
  <2>1. QED
    BY <1>2, Reading!LeastNatural
<1>4. PICK l \in S : \A j \in S : l >= j
  <2> HIDE DEF S
  <2>1. QED
    BY <1>1, <1>2, Reading!GreatestNatural
<1>5. f \in 1..i /\ l \in i..n
  BY <1>1, <1>2, <1>3, <1>4
<1>6. SameEntity(items, f, i) /\ SameEntity(items, l, i)
  OBVIOUS
<1>7. IsFirst(items, f)
  <2>1. SUFFICES ASSUME NEW j \in 1..(f - 1), SameEntity(items, f, j) PROVE FALSE
    BY DEF IsFirst
  <2>2. j \in 1..n /\ SameEntity(items, j, i) /\ j < f
    BY <1>1, <1>5, <1>6, <2>1 DEF SameEntity
  <2>3. QED
    BY <1>3, <2>2
<1>8. IsFinal(items, n, l)
  <2>1. SUFFICES ASSUME NEW j \in (l + 1)..n, SameEntity(items, l, j) PROVE FALSE
    BY DEF IsFinal
  <2>2. j \in 1..n /\ SameEntity(items, j, i) /\ j > l
    BY <1>1, <1>5, <1>6, <2>1 DEF SameEntity
  <2>3. QED
    BY <1>4, <2>2
<1>9. QED
  BY <1>5, <1>6, <1>7, <1>8

LEMMA LatestEnds ==
  ASSUME NEW items, NEW n, Shares(items, n), NEW i \in 1..n
  PROVE  LET type == items[i].event.type
             key == OwnKey(items[i].event)
         IN  /\ type \in Types /\ key \in DOMAIN Latest(items)[type]
             /\ IsFirst(items, i) =>
                  /\ FirstIndex(Latest(items), type, key) = i - 1
                  /\ Latest(items)[type][key][1].sourceIndex = [rawItemIndex |-> i - 1, arrayOffset |-> 0]
             /\ IsFinal(items, n, i) => CurrentOf(Latest(items), type, key) = items[i].event.data
<1>1. Knows(Latest(items), items, n, n)
  BY LatestKnows
<1>2. items[i].event.type \in Types
  BY EventFacts DEF Shares
<1>3. n \in Nat
  BY DEF Shares
<1> DEFINE type == items[i].event.type
           key == OwnKey(items[i].event)
           history == Latest(items)[type][key]
<1>4. /\ IsFirst(items, i) => history[1] = Version(items, i)
      /\ IsFinal(items, n, i) => history[Len(history)] = Version(items, i)
  BY <1>1, <1>3 DEF Knows, IsFirst, IsFinal
<1>5. key \in DOMAIN Latest(items)[type]
  BY <1>1, <1>2, <1>3 DEF Knows
<1> HIDE DEF history
<1>6. /\ IsFirst(items, i) => /\ history[1].sourceIndex = [rawItemIndex |-> i - 1, arrayOffset |-> 0]
                              /\ history[1].sourceIndex.rawItemIndex = i - 1
      /\ IsFinal(items, n, i) => history[Len(history)].value = items[i].event.data
  BY <1>4 DEF Version
<1>7. QED
  BY <1>2, <1>5, <1>6 DEF history, FirstIndex, CurrentOf, Current

LEMMA LatestDomain ==
  ASSUME NEW items, NEW n, Shares(items, n), NEW type \in Types
  PROVE  /\ \A key : key \in DOMAIN Latest(items)[type] <=>
              \E i \in 1..n : items[i].event.type = type /\ OwnKey(items[i].event) = key
         /\ IsFiniteSet(DOMAIN Latest(items)[type])
<1>1. Knows(Latest(items), items, n, n)
  BY LatestKnows
<1> DEFINE S == {i \in 1..n : items[i].event.type = type}
           T == {OwnKey(items[i].event) : i \in S}
           f == [i \in S |-> OwnKey(items[i].event)]
<1>2. DOMAIN Latest(items)[type] = T
  BY <1>1 DEF Knows
<1>3. IsFiniteSet(S)
  <2>1. n \in Nat
    BY DEF Shares
  <2>2. IsFiniteSet(1..n) /\ S \in SUBSET (1..n)
    BY <2>1, FS_Interval
  <2> HIDE DEF S
  <2>3. QED
    BY <2>2, FS_Subset
<1>4. f \in Surjection(S, T)
  BY DEF Surjection
<1>5. IsFiniteSet(T)
  <2> HIDE DEF f, T, S
  <2>1. QED
    BY <1>3, <1>4, FS_Surjection
<1>6. QED
  BY <1>2, <1>5

(* Every entity the page knows has a first and a last event.               *)
Ends(items, n, type, key, f, l) ==
  /\ items[f].event.type = type /\ OwnKey(items[f].event) = key /\ IsFirst(items, f)
  /\ items[l].event.type = type /\ OwnKey(items[l].event) = key /\ IsFinal(items, n, l)
  /\ FirstIndex(Latest(items), type, key) = f - 1
  /\ Latest(items)[type][key][1].sourceIndex = [rawItemIndex |-> f - 1, arrayOffset |-> 0]
  /\ CurrentOf(Latest(items), type, key) = items[l].event.data

LEMMA LatestEntity ==
  ASSUME NEW items, NEW n, Shares(items, n), NEW type \in Types,
         NEW key \in DOMAIN Latest(items)[type]
  PROVE  \E f, l \in 1..n : Ends(items, n, type, key, f, l)
<1>1. PICK i \in 1..n : items[i].event.type = type /\ OwnKey(items[i].event) = key
  BY LatestDomain
<1>2. n \in Nat
  BY DEF Shares
<1>3. PICK f \in 1..i : SameEntity(items, f, i) /\ IsFirst(items, f)
  BY EntityHasEnds
<1>4. PICK l \in i..n : SameEntity(items, l, i) /\ IsFinal(items, n, l)
  BY EntityHasEnds
<1>5. f \in 1..n /\ l \in 1..n
  BY <1>2
<1>6. /\ items[f].event.type = type /\ OwnKey(items[f].event) = key
      /\ items[l].event.type = type /\ OwnKey(items[l].event) = key
  BY <1>1, <1>3, <1>4, <1>5, SameEntityFacts
<1>7. Ends(items, n, type, key, f, l)
  BY <1>3, <1>4, <1>5, <1>6, LatestEnds DEF Ends
<1>8. QED
  BY <1>5, <1>7

-----------------------------------------------------------------------------
(* Lists in order.                                                         *)
LEMMA ListedFacts ==
  ASSUME NEW S, IsFiniteSet(S), NEW R, Reading!StrictOrderOn(S, R)
  PROVE  /\ Cardinality(S) \in Nat /\ DOMAIN Listed(S, R) = 1..Cardinality(S)
         /\ \A n \in DOMAIN Listed(S, R) :
              Listed(S, R)[n] \in S /\ Rank(S, R, Listed(S, R)[n]) = n - 1
         /\ \A n, m \in DOMAIN Listed(S, R) : Listed(S, R)[n] = Listed(S, R)[m] => n = m
         /\ \A x \in S : \E n \in DOMAIN Listed(S, R) : Listed(S, R)[n] = x
<1>1. \A T : Reading!Cardinality(T) = Cardinality(T)
  BY DEF Reading!Cardinality, Cardinality
<1>2. Reading!IsFiniteSet(S)
  BY DEF Reading!IsFiniteSet, IsFiniteSet
<1>3. \A x : Reading!Rank(S, R, x) = Rank(S, R, x)
  BY <1>1 DEF Reading!Rank, Rank
<1>4. Reading!Listed(S, R) = Listed(S, R)
  BY <1>1, <1>3 DEF Reading!Listed, Listed
<1>5. QED
  BY <1>1, <1>2, <1>3, <1>4, Reading!ListedFacts

(* A list depends on the order of its own elements only.                   *)
LEMMA ListedDepends ==
  ASSUME NEW S, NEW R, NEW Q, \A x, y \in S : <<x, y>> \in R <=> <<x, y>> \in Q
  PROVE  Listed(S, R) = Listed(S, Q)
<1>1. \A x \in S : {y \in S : <<y, x>> \in R} = {y \in S : <<y, x>> \in Q}
  OBVIOUS
<1>2. \A x \in S : Rank(S, R, x) = Rank(S, Q, x)
  BY <1>1 DEF Rank
<1>3. \A n : (CHOOSE x \in S : Rank(S, R, x) = n - 1) = (CHOOSE x \in S : Rank(S, Q, x) = n - 1)
  BY <1>2
<1>4. QED
  BY <1>3 DEF Listed

(* Entities differ in the event that brought them first, ...               *)
LEMMA FirstIndexes ==
  ASSUME NEW items, NEW n, Shares(items, n), NEW type \in Types
  PROVE  /\ \A key \in DOMAIN Latest(items)[type] :
              FirstIndex(Latest(items), type, key) \in Nat /\ FirstIndex(Latest(items), type, key) < n
         /\ \A a, b \in DOMAIN Latest(items)[type] :
              FirstIndex(Latest(items), type, a) = FirstIndex(Latest(items), type, b) => a = b
         /\ \A a, b \in DOMAIN Latest(items)[type] :
              <<a, b>> \in AddedBefore(Latest(items), type) <=>
                FirstIndex(Latest(items), type, a) < FirstIndex(Latest(items), type, b)
<1> DEFINE L == Latest(items)
<1>1. n \in Nat
  BY DEF Shares
<1>2. ASSUME NEW key \in DOMAIN L[type]
      PROVE  \E f \in 1..n : /\ OwnKey(items[f].event) = key
                             /\ FirstIndex(L, type, key) = f - 1
                             /\ L[type][key][1].sourceIndex = [rawItemIndex |-> f - 1, arrayOffset |-> 0]
  <2>1. PICK f, l \in 1..n : Ends(items, n, type, key, f, l)
    BY LatestEntity
  <2>2. QED
    BY <2>1 DEF Ends
<1> DEFINE At(key) == FirstIndex(L, type, key)
<1> HIDE DEF L
<1>3. ASSUME NEW key \in DOMAIN L[type]
      PROVE  At(key) \in Nat /\ At(key) < n
  <2>1. PICK f \in 1..n : At(key) = f - 1
    BY <1>2
  <2> HIDE DEF At
  <2>2. QED
    BY <1>1, <2>1
<1>4. ASSUME NEW a \in DOMAIN L[type], NEW b \in DOMAIN L[type],
             FirstIndex(L, type, a) = FirstIndex(L, type, b)
      PROVE  a = b
  <2>1. PICK f \in 1..n : OwnKey(items[f].event) = a /\ FirstIndex(L, type, a) = f - 1
    BY <1>2
  <2>2. PICK g \in 1..n : OwnKey(items[g].event) = b /\ FirstIndex(L, type, b) = g - 1
    BY <1>2
  <2>3. f - 1 = g - 1
    BY <1>4, <2>1, <2>2
  <2>4. f = g
    BY <1>1, <2>3
  <2>5. QED
    BY <2>1, <2>2, <2>4
<1>5. ASSUME NEW a \in DOMAIN L[type], NEW b \in DOMAIN L[type]
      PROVE  <<a, b>> \in AddedBefore(L, type) <=> FirstIndex(L, type, a) < FirstIndex(L, type, b)
  <2>1. PICK f \in 1..n : L[type][a][1].sourceIndex = [rawItemIndex |-> f - 1, arrayOffset |-> 0]
    BY <1>2
  <2>2. PICK g \in 1..n : L[type][b][1].sourceIndex = [rawItemIndex |-> g - 1, arrayOffset |-> 0]
    BY <1>2
  <2>3. /\ L[type][a][1].sourceIndex.rawItemIndex = f - 1 /\ L[type][a][1].sourceIndex.arrayOffset = 0
        /\ L[type][b][1].sourceIndex.rawItemIndex = g - 1 /\ L[type][b][1].sourceIndex.arrayOffset = 0
    BY <2>1, <2>2
  <2>4. <<a, b>> \in (DOMAIN L[type]) \X (DOMAIN L[type])
    OBVIOUS
  <2>5. QED
    BY <2>3, <2>4 DEF AddedBefore, FirstIndex
<1>6. QED
  BY <1>3, <1>4, <1>5 DEF L

(* ... so the order of their arrival is strict, ...                        *)
LEMMA ArrivalIsStrict ==
  ASSUME NEW items, NEW n, Shares(items, n), NEW type \in Types,
         NEW S \in SUBSET DOMAIN Latest(items)[type]
  PROVE  IsFiniteSet(S) /\ Reading!StrictOrderOn(S, AddedBefore(Latest(items), type))
<1> DEFINE L == Latest(items)
           R == AddedBefore(L, type)
           At(key) == FirstIndex(L, type, key)
<1>1. IsFiniteSet(S)
  BY LatestDomain, FS_Subset
<1>2. /\ \A x \in S : At(x) \in Nat
      /\ \A x, y \in S : At(x) = At(y) => x = y
      /\ \A x, y \in S : <<x, y>> \in R <=> At(x) < At(y)
  BY FirstIndexes
<1> HIDE DEF R, At, L
<1>3. Reading!StrictOrderOn(S, R)
  BY <1>2 DEF Reading!StrictOrderOn
<1>4. QED
  BY <1>1, <1>3 DEF R, L

(* What is current of an entity is the data of one of its events.          *)
LEMMA CurrentIsAnEvent ==
  ASSUME NEW items, NEW n, Shares(items, n), NEW type \in Types,
         NEW key \in DOMAIN Latest(items)[type]
  PROVE  \E l \in 1..n : /\ items[l].event.type = type /\ OwnKey(items[l].event) = key
                         /\ CurrentOf(Latest(items), type, key) = items[l].event.data
<1>1. PICK f, l \in 1..n : Ends(items, n, type, key, f, l)
  BY LatestEntity
<1>2. QED
  BY <1>1 DEF Ends

(* ... and the order of messages, by creation time or else by arrival, is. *)
LEMMA MessageOrders ==
  ASSUME NEW items, NEW n, Shares(items, n), n <= MaxEvents,
         NEW key \in DOMAIN Latest(items)["message"]
  PROVE  LET created == Get(CurrentOf(Latest(items), "message", key), "created")
         IN  /\ created = Absent =>
                  /\ MessageOrder(Latest(items), key) = FirstIndex(Latest(items), "message", key)
                  /\ MessageOrder(Latest(items), key) \in Nat
                  /\ MessageOrder(Latest(items), key) < MaxEvents
             /\ created # Absent =>
                  /\ MessageOrder(Latest(items), key) = created
                  /\ MessageOrder(Latest(items), key) \in Nat
                  /\ MessageOrder(Latest(items), key) >= MaxEvents
<1> DEFINE L == Latest(items)
           created == Get(CurrentOf(L, "message", key), "created")
<1>1. n \in Nat /\ MaxEvents \in Nat /\ "message" \in Types
  BY TimeAssumption DEF Shares, Types, ObjectTypes
<1>2. PICK l \in 1..n : items[l].event.type = "message" /\ CurrentOf(L, "message", key) = items[l].event.data
  BY <1>1, CurrentIsAnEvent
<1>3. items[l].event \in Events
  BY DEF Shares
<1>4. created # Absent => created \in Nat /\ created >= MaxEvents
  BY <1>2, <1>3, TimeAssumption
<1>5. FirstIndex(L, "message", key) \in Nat /\ FirstIndex(L, "message", key) < n
  BY <1>1, FirstIndexes
<1> HIDE DEF created, L
<1>6. /\ created = Absent => MessageOrder(L, key) = FirstIndex(L, "message", key)
      /\ created # Absent => MessageOrder(L, key) = created
  BY DEF MessageOrder, created
<1>7. QED
  BY <1>1, <1>4, <1>5, <1>6 DEF L, created

LEMMA MessagesAreStrict ==
  ASSUME NEW items, NEW n, Shares(items, n), n <= MaxEvents
  PROVE  /\ IsFiniteSet(DOMAIN Latest(items)["message"])
         /\ Reading!StrictOrderOn(DOMAIN Latest(items)["message"], MessageBefore(Latest(items)))
<1> DEFINE L == Latest(items)
           S == DOMAIN L["message"]
           R == MessageBefore(L)
           O(key) == MessageOrder(L, key)
           At(key) == FirstIndex(L, "message", key)
<1>1. "message" \in Types
  BY DEF Types, ObjectTypes
<1>2. /\ \A x \in S : At(x) \in Nat
      /\ \A x, y \in S : At(x) = At(y) => x = y
  BY <1>1, FirstIndexes
<1>3. \A x \in S : O(x) \in Nat
  BY MessageOrders
<1>4. \A x, y \in S : <<x, y>> \in R <=> O(x) < O(y) \/ (O(x) = O(y) /\ At(x) < At(y))
  <2>1. \A x, y \in S : <<x, y>> \in S \X S
    OBVIOUS
  <2>2. QED
    BY <2>1 DEF MessageBefore
<1>5. IsFiniteSet(S)
  BY <1>1, LatestDomain
<1> HIDE DEF R, At, O, S
<1>6. Reading!StrictOrderOn(S, R)
  <2>1. \A x \in S : <<x, x>> \notin R
    BY <1>2, <1>3, <1>4
  <2>2. \A x, y, z \in S : <<x, y>> \in R /\ <<y, z>> \in R => <<x, z>> \in R
    BY <1>2, <1>3, <1>4
  <2>3. \A x, y \in S : x # y => <<x, y>> \in R \/ <<y, x>> \in R
    BY <1>2, <1>3, <1>4
  <2>4. QED
    BY <2>1, <2>2, <2>3 DEF Reading!StrictOrderOn
<1>7. QED
  BY <1>5, <1>6 DEF S, R

-----------------------------------------------------------------------------
(* What of the latest state the page shows.                                *)

(* A part's key begins with its message.                                   *)
LEMMA PartKeyFacts ==
  ASSUME NEW event \in Events, event.type = "part"
  PROVE  /\ OwnKey(event)[1] = Get(event.data, "messageID")
         /\ "messageID" \in DOMAIN event.data /\ OwnKey(event)[1] = event.data.messageID
<1>1. OwnKey(event) # Absent /\ OwnKey(event) = PartKey(event.data)
  BY EventAssumption DEF OwnKey
<1>2. /\ StringField(event.data, "messageID") # Absent
      /\ OwnKey(event) = <<StringField(event.data, "messageID"), StringField(event.data, "id")>>
  BY <1>1 DEF PartKey
<1>3. OwnKey(event)[1] = StringField(event.data, "messageID")
  BY <1>2
<1>4. StringField(event.data, "messageID") = Get(event.data, "messageID")
  BY <1>2 DEF StringField
<1>5. "messageID" \in DOMAIN event.data
  BY <1>2, <1>4 DEF Get
<1>6. QED
  BY <1>3, <1>4, <1>5 DEF Get

LEMMA MessageKeyFacts ==
  ASSUME NEW event \in Events, event.type = "message"
  PROVE  /\ Get(event.data, "id") # Absent
         /\ OwnKey(event) = <<Get(event.data, "id")>>
<1>1. OwnKey(event) # Absent /\ OwnKey(event) = IDKey(event.data)
  BY EventAssumption DEF OwnKey
<1>2. StringField(event.data, "id") # Absent /\ OwnKey(event) = <<StringField(event.data, "id")>>
  BY <1>1 DEF IDKey
<1>3. StringField(event.data, "id") = Get(event.data, "id")
  BY <1>2 DEF StringField
<1>4. QED
  BY <1>2, <1>3

(* The messages of a page in order, each with its parts in order.          *)
PartValues(latest, id) ==
  [j \in DOMAIN PartsOf(latest, id) |-> CurrentOf(latest, "part", PartsOf(latest, id)[j])]

LEMMA ShownIs ==
  ASSUME NEW items
  PROVE  LET latest == Latest(items)
             keys == MessageKeys(latest)
             info(i) == CurrentOf(latest, "message", keys[i])
         IN  Shown(items) = [i \in DOMAIN keys |-> <<info(i), PartValues(latest, Or(Get(info(i), "id"), Empty))>>]
<1> DEFINE latest == Latest(items)
           keys == MessageKeys(latest)
           visible == VisibleMessages(latest)
           info(i) == CurrentOf(latest, "message", keys[i])
<1> HIDE DEF latest
<1>1. visible = [i \in DOMAIN keys |-> Envelope(latest, keys[i], i - 1)]
  BY DEF VisibleMessages
<1> HIDE DEF keys
<1>2. ASSUME NEW i \in DOMAIN keys
      PROVE  /\ visible[i].info = info(i)
             /\ visible[i].parts = PartValues(latest, Or(Get(info(i), "id"), Empty))
  <2>1. visible[i] = Envelope(latest, keys[i], i - 1)
    BY <1>1
  <2>2. QED
    BY <2>1 DEF Envelope, PartValues
<1>3. Shown(items) = [i \in DOMAIN visible |-> <<visible[i].info, visible[i].parts>>]
  BY DEF Shown, latest
<1>4. DOMAIN visible = DOMAIN keys
  BY <1>1
<1> HIDE DEF visible, info
<1>5. Shown(items) = [i \in DOMAIN keys |-> <<info(i), PartValues(latest, Or(Get(info(i), "id"), Empty))>>]
  BY <1>2, <1>3, <1>4
<1>6. QED
  BY <1>5 DEF info, keys, latest

(* Two versions of a share show the same if they know the same messages    *)
(* and parts with the same current versions, and agree on the order of     *)
(* arrival where it counts: between parts of one message, and between      *)
(* messages with the same creation time or none.                           *)
Counts(latest, type, x, y) ==
  \/ type = "part" /\ x[1] = y[1]
  \/ type = "message" /\ Get(CurrentOf(latest, type, x), "created") = Get(CurrentOf(latest, type, y), "created")

SameEntities(one, two, type) ==
  /\ DOMAIN one[type] = DOMAIN two[type]
  /\ \A x \in DOMAIN one[type] : CurrentOf(one, type, x) = CurrentOf(two, type, x)
  /\ \A x, y \in DOMAIN one[type] :
       Counts(one, type, x, y) =>
         (FirstIndex(one, type, x) < FirstIndex(one, type, y)
            <=> FirstIndex(two, type, x) < FirstIndex(two, type, y))

LEMMA SamePartsShown ==
  ASSUME NEW one, NEW n, Shares(one, n), NEW two, NEW m, Shares(two, m),
         SameEntities(Latest(one), Latest(two), "part"), NEW id
  PROVE  PartValues(Latest(one), id) = PartValues(Latest(two), id)
<1> DEFINE A == Latest(one)
           B == Latest(two)
           S == {key \in DOMAIN A["part"] : Get(CurrentOf(A, "part", key), "messageID") = id}
<1>1. "part" \in Types
  BY DEF Types, ObjectTypes
<1>2. S = {key \in DOMAIN B["part"] : Get(CurrentOf(B, "part", key), "messageID") = id}
  BY DEF SameEntities
<1>3. S \in SUBSET DOMAIN A["part"] /\ S \in SUBSET DOMAIN B["part"]
  BY <1>2
<1>4. PartsOf(A, id) = Listed(S, AddedBefore(A, "part")) /\ PartsOf(B, id) = Listed(S, AddedBefore(B, "part"))
  BY <1>2 DEF PartsOf
<1>5. ASSUME NEW x \in S
      PROVE  x[1] = id
  <2>1. PICK l \in 1..n : /\ one[l].event.type = "part" /\ OwnKey(one[l].event) = x
                          /\ CurrentOf(A, "part", x) = one[l].event.data
    BY <1>1, <1>3, CurrentIsAnEvent
  <2>2. one[l].event \in Events
    BY DEF Shares
  <2>3. x[1] = Get(CurrentOf(A, "part", x), "messageID")
    BY <2>1, <2>2, PartKeyFacts
  <2>4. QED
    BY <2>3
<1>6. ASSUME NEW x \in S, NEW y \in S
      PROVE  <<x, y>> \in AddedBefore(A, "part") <=> <<x, y>> \in AddedBefore(B, "part")
  <2>1. Counts(A, "part", x, y)
    BY <1>5 DEF Counts
  <2>2. x \in DOMAIN A["part"] /\ y \in DOMAIN A["part"] /\ x \in DOMAIN B["part"] /\ y \in DOMAIN B["part"]
    BY <1>3
  <2>3. FirstIndex(A, "part", x) < FirstIndex(A, "part", y) <=> FirstIndex(B, "part", x) < FirstIndex(B, "part", y)
    BY <2>1, <2>2 DEF SameEntities
  <2>4. /\ <<x, y>> \in AddedBefore(A, "part") <=> FirstIndex(A, "part", x) < FirstIndex(A, "part", y)
        /\ <<x, y>> \in AddedBefore(B, "part") <=> FirstIndex(B, "part", x) < FirstIndex(B, "part", y)
    BY <1>1, <2>2, FirstIndexes
  <2>5. QED
    BY <2>3, <2>4
<1> HIDE DEF S
<1>7. PartsOf(A, id) = PartsOf(B, id)
  BY <1>4, <1>6, ListedDepends
<1>8. \A j \in DOMAIN PartsOf(A, id) : PartsOf(A, id)[j] \in S
  BY <1>1, <1>3, <1>4, ArrivalIsStrict, ListedFacts
<1>9. \A j \in DOMAIN PartsOf(A, id) :
        CurrentOf(A, "part", PartsOf(A, id)[j]) = CurrentOf(B, "part", PartsOf(B, id)[j])
  BY <1>3, <1>7, <1>8 DEF SameEntities
<1> HIDE DEF A, B
<1>10. PartValues(A, id) = PartValues(B, id)
  BY <1>7, <1>9 DEF PartValues
<1>11. QED
  BY <1>10 DEF A, B

LEMMA SameMessagesListed ==
  ASSUME NEW one, NEW n, Shares(one, n), n <= MaxEvents,
         NEW two, NEW m, Shares(two, m), m <= MaxEvents,
         SameEntities(Latest(one), Latest(two), "message")
  PROVE  MessageKeys(Latest(one)) = MessageKeys(Latest(two))
<1> DEFINE A == Latest(one)
           B == Latest(two)
           S == DOMAIN A["message"]
           a(x) == FirstIndex(A, "message", x)
           b(x) == FirstIndex(B, "message", x)
           oa(x) == MessageOrder(A, x)
           ob(x) == MessageOrder(B, x)
           created(x) == Get(CurrentOf(A, "message", x), "created")
<1>1. S = DOMAIN B["message"] /\ \A x \in S : Get(CurrentOf(B, "message", x), "created") = created(x)
  BY DEF SameEntities
<1>2. "message" \in Types /\ MaxEvents \in Nat
  BY TimeAssumption DEF Types, ObjectTypes
<1>3. \A x, y \in S : created(x) = created(y) => (a(x) < a(y) <=> b(x) < b(y))
  BY DEF SameEntities, Counts
<1>4. \A x \in S : a(x) \in Nat /\ b(x) \in Nat
  BY <1>1, <1>2, FirstIndexes
<1>5. ASSUME NEW x \in S
      PROVE  /\ created(x) = Absent => /\ oa(x) = a(x) /\ oa(x) \in Nat /\ oa(x) < MaxEvents
                                       /\ ob(x) = b(x) /\ ob(x) \in Nat /\ ob(x) < MaxEvents
             /\ created(x) # Absent => /\ oa(x) = created(x) /\ oa(x) \in Nat /\ oa(x) >= MaxEvents
                                       /\ ob(x) = created(x)
  <2>1. Get(CurrentOf(B, "message", x), "created") = created(x)
    BY <1>1
  <2>2. x \in DOMAIN B["message"]
    BY <1>1
  <2>3. QED
    BY <2>1, <2>2, MessageOrders
<1>6. ASSUME NEW x \in S, NEW y \in S
      PROVE  /\ <<x, y>> \in MessageBefore(A) <=> oa(x) < oa(y) \/ (oa(x) = oa(y) /\ a(x) < a(y))
             /\ <<x, y>> \in MessageBefore(B) <=> ob(x) < ob(y) \/ (ob(x) = ob(y) /\ b(x) < b(y))
  <2>1. <<x, y>> \in S \X S /\ <<x, y>> \in (DOMAIN B["message"]) \X (DOMAIN B["message"])
    BY <1>1
  <2>2. QED
    BY <2>1 DEF MessageBefore
<1> HIDE DEF a, b, oa, ob, created, S, A, B
<1>7. ASSUME NEW x \in S, NEW y \in S
      PROVE  <<x, y>> \in MessageBefore(A) <=> <<x, y>> \in MessageBefore(B)
  <2>1. CASE created(x) = created(y)
    BY <1>2, <1>3, <1>4, <1>5, <1>6, <2>1
  <2>2. CASE created(x) # created(y)
    BY <1>2, <1>4, <1>5, <1>6, <2>2
  <2>3. QED
    BY <2>1, <2>2
<1>8. Listed(S, MessageBefore(A)) = Listed(S, MessageBefore(B))
  BY <1>7, ListedDepends
<1>9. MessageKeys(A) = MessageKeys(B)
  BY <1>1, <1>8 DEF MessageKeys, S
<1>10. QED
  BY <1>9 DEF A, B

LEMMA SameShown ==
  ASSUME NEW one, NEW n, Shares(one, n), n <= MaxEvents,
         NEW two, NEW m, Shares(two, m), m <= MaxEvents,
         SameEntities(Latest(one), Latest(two), "message"),
         SameEntities(Latest(one), Latest(two), "part")
  PROVE  Shown(one) = Shown(two)
<1> DEFINE A == Latest(one)
           B == Latest(two)
           keys == MessageKeys(A)
           infoA(i) == CurrentOf(A, "message", keys[i])
           infoB(i) == CurrentOf(B, "message", keys[i])
<1>1. MessageKeys(B) = keys
  BY SameMessagesListed
<1>2. \A id : PartValues(A, id) = PartValues(B, id)
  BY SamePartsShown
<1>3. \A i \in DOMAIN keys : keys[i] \in DOMAIN A["message"]
  BY MessagesAreStrict, ListedFacts DEF MessageKeys
<1>4. \A i \in DOMAIN keys : infoA(i) = infoB(i)
  BY <1>3 DEF SameEntities
<1>5. Shown(one) = [i \in DOMAIN keys |-> <<infoA(i), PartValues(A, Or(Get(infoA(i), "id"), Empty))>>]
  BY ShownIs
<1>6. Shown(two) = [i \in DOMAIN keys |-> <<infoB(i), PartValues(B, Or(Get(infoB(i), "id"), Empty))>>]
  BY <1>1, ShownIs
<1> HIDE DEF A, B, keys, infoA, infoB
<1>7. QED
  BY <1>2, <1>4, <1>5, <1>6

(* The same said of the events: the same entities, each with the same last *)
(* event, and first events in the same order where it counts.              *)
SameEvents(one, n, two, m) ==
  /\ \A i \in 1..n : \E j \in 1..m : EntityKey(one[i].event) = EntityKey(two[j].event)
  /\ \A j \in 1..m : \E i \in 1..n : EntityKey(one[i].event) = EntityKey(two[j].event)
  /\ \A i \in 1..n, j \in 1..m :
       IsFinal(one, n, i) /\ IsFinal(two, m, j) /\ EntityKey(one[i].event) = EntityKey(two[j].event) =>
         one[i].event = two[j].event
  /\ \A i, k \in 1..n, j, l \in 1..m :
       /\ IsFirst(one, i) /\ IsFirst(one, k) /\ IsFirst(two, j) /\ IsFirst(two, l)
       /\ EntityKey(one[i].event) = EntityKey(two[j].event)
       /\ EntityKey(one[k].event) = EntityKey(two[l].event)
       /\ one[i].event.type = one[k].event.type
       /\ Counts(Latest(one), one[i].event.type, OwnKey(one[i].event), OwnKey(one[k].event))
       => (i < k <=> j < l)

LEMMA SameEventsShown ==
  ASSUME NEW one, NEW n, Shares(one, n), n <= MaxEvents,
         NEW two, NEW m, Shares(two, m), m <= MaxEvents,
         SameEvents(one, n, two, m)
  PROVE  Shown(one) = Shown(two)
<1> DEFINE A == Latest(one)
           B == Latest(two)
<1>1. ASSUME NEW i \in 1..n, NEW j \in 1..m
      PROVE  EntityKey(one[i].event) = EntityKey(two[j].event) <=>
               one[i].event.type = two[j].event.type /\ OwnKey(one[i].event) = OwnKey(two[j].event)
  <2>1. one[i].event \in Events /\ two[j].event \in Events
    BY DEF Shares
  <2>2. /\ EntityKey(one[i].event) = <<one[i].event.type, OwnKey(one[i].event)>>
        /\ EntityKey(two[j].event) = <<two[j].event.type, OwnKey(two[j].event)>>
    BY <2>1, EventFacts
  <2>3. QED
    BY <2>2
<1>2. n \in Nat /\ m \in Nat
  BY DEF Shares
<1>3. ASSUME NEW type \in Types
      PROVE  SameEntities(A, B, type)
  <2>1. ASSUME NEW x
        PROVE  x \in DOMAIN A[type] <=> x \in DOMAIN B[type]
    <3>1. x \in DOMAIN A[type] <=> \E i \in 1..n : one[i].event.type = type /\ OwnKey(one[i].event) = x
      BY LatestDomain
    <3>2. x \in DOMAIN B[type] <=> \E j \in 1..m : two[j].event.type = type /\ OwnKey(two[j].event) = x
      BY LatestDomain
    <3>3. ASSUME NEW i \in 1..n, one[i].event.type = type, OwnKey(one[i].event) = x
          PROVE  \E j \in 1..m : two[j].event.type = type /\ OwnKey(two[j].event) = x
      <4>1. PICK j \in 1..m : EntityKey(one[i].event) = EntityKey(two[j].event)
        BY DEF SameEvents
      <4>2. QED
        BY <1>1, <3>3, <4>1
    <3>4. ASSUME NEW j \in 1..m, two[j].event.type = type, OwnKey(two[j].event) = x
          PROVE  \E i \in 1..n : one[i].event.type = type /\ OwnKey(one[i].event) = x
      <4>1. PICK i \in 1..n : EntityKey(one[i].event) = EntityKey(two[j].event)
        BY DEF SameEvents
      <4>2. QED
        BY <1>1, <3>4, <4>1
    <3>5. QED
      BY <3>1, <3>2, <3>3, <3>4
  <2>2. DOMAIN A[type] = DOMAIN B[type]
    BY <2>1
  <2>3. ASSUME NEW x \in DOMAIN A[type]
        PROVE  CurrentOf(A, type, x) = CurrentOf(B, type, x)
    <3>1. PICK f, i \in 1..n : Ends(one, n, type, x, f, i)
      BY LatestEntity
    <3>2. PICK g, j \in 1..m : Ends(two, m, type, x, g, j)
      BY <2>2, LatestEntity
    <3>3. /\ IsFinal(one, n, i) /\ IsFinal(two, m, j)
          /\ EntityKey(one[i].event) = EntityKey(two[j].event)
      BY <1>1, <3>1, <3>2 DEF Ends
    <3>4. one[i].event = two[j].event
      BY <3>3 DEF SameEvents
    <3>5. CurrentOf(A, type, x) = one[i].event.data
      BY <3>1 DEF Ends
    <3>6. CurrentOf(B, type, x) = two[j].event.data
      BY <3>2 DEF Ends
    <3>7. QED
      BY <3>4, <3>5, <3>6
  <2>4. ASSUME NEW x \in DOMAIN A[type], NEW y \in DOMAIN A[type], Counts(A, type, x, y)
        PROVE  FirstIndex(A, type, x) < FirstIndex(A, type, y)
                 <=> FirstIndex(B, type, x) < FirstIndex(B, type, y)
    <3>1. PICK i, f \in 1..n : Ends(one, n, type, x, i, f)
      BY LatestEntity
    <3>2. PICK k, g \in 1..n : Ends(one, n, type, y, k, g)
      BY LatestEntity
    <3>3. PICK j, p \in 1..m : Ends(two, m, type, x, j, p)
      BY <2>2, LatestEntity
    <3>4. PICK l, q \in 1..m : Ends(two, m, type, y, l, q)
      BY <2>2, LatestEntity
    <3>5. /\ IsFirst(one, i) /\ one[i].event.type = type /\ OwnKey(one[i].event) = x
          /\ IsFirst(one, k) /\ one[k].event.type = type /\ OwnKey(one[k].event) = y
          /\ IsFirst(two, j) /\ two[j].event.type = type /\ OwnKey(two[j].event) = x
          /\ IsFirst(two, l) /\ two[l].event.type = type /\ OwnKey(two[l].event) = y
      BY <3>1, <3>2, <3>3, <3>4 DEF Ends
    <3>6. /\ FirstIndex(A, type, x) = i - 1 /\ FirstIndex(A, type, y) = k - 1
          /\ FirstIndex(B, type, x) = j - 1 /\ FirstIndex(B, type, y) = l - 1
      BY <3>1, <3>2, <3>3, <3>4 DEF Ends
    <3>7. /\ EntityKey(one[i].event) = EntityKey(two[j].event)
          /\ EntityKey(one[k].event) = EntityKey(two[l].event)
      BY <1>1, <3>5
    <3> HIDE DEF A, B
    <3>8. i < k <=> j < l
      <4>1. Counts(Latest(one), one[i].event.type, OwnKey(one[i].event), OwnKey(one[k].event))
        BY <2>4, <3>5 DEF A
      <4>2. one[i].event.type = one[k].event.type
        BY <3>5
      <4>3. QED
        BY <3>5, <3>7, <4>1, <4>2 DEF SameEvents
    <3>9. i \in Int /\ k \in Int /\ j \in Int /\ l \in Int
      BY <1>2
    <3>10. QED
      BY <3>6, <3>8, <3>9
  <2>5. QED
    BY <2>2, <2>3, <2>4 DEF SameEntities
<1>4. "message" \in Types /\ "part" \in Types
  BY DEF Types, ObjectTypes
<1> HIDE DEF A, B
<1>5. SameEntities(A, B, "message") /\ SameEntities(A, B, "part")
  BY <1>3, <1>4
<1>6. QED
  BY <1>5, SameShown DEF A, B

-----------------------------------------------------------------------------
(* The two ways the backend keeps the same events: all of them, or the     *)
(* last of each entity in the place of the first.                          *)
Parallel(one, two) ==
  /\ one \in Seq({Unkeyed(event) : event \in Events})
  /\ two \in Seq({Keyed(event) : event \in Events})
  /\ Len(two) <= Len(one)
  /\ \A j, l \in 1..Len(two) : EntityKey(two[j].event) = EntityKey(two[l].event) => j = l
  /\ \A i \in 1..Len(one) : \E j \in 1..Len(two) : EntityKey(one[i].event) = EntityKey(two[j].event)
  /\ \A j \in 1..Len(two) : \E i \in 1..Len(one) : EntityKey(one[i].event) = EntityKey(two[j].event)
  /\ \A i \in 1..Len(one), j \in 1..Len(two) :
       IsFinal(one, Len(one), i) /\ EntityKey(one[i].event) = EntityKey(two[j].event) =>
         one[i].event = two[j].event
  /\ \A i, k \in 1..Len(one), j, l \in 1..Len(two) :
       /\ IsFirst(one, i) /\ IsFirst(one, k)
       /\ EntityKey(one[i].event) = EntityKey(two[j].event)
       /\ EntityKey(one[k].event) = EntityKey(two[l].event)
       => (i < k <=> j < l)

LEMMA UnkeyedShares ==
  ASSUME NEW items \in Seq({Unkeyed(event) : event \in Events})
  PROVE  Shares(items, Len(items)) /\ \A i \in 1..Len(items) : items[i].key = NoKey
<1>1. \A i \in 1..Len(items) : \E event \in Events : items[i] = Unkeyed(event)
  OBVIOUS
<1>2. \A event : Unkeyed(event).event = event /\ Unkeyed(event).key = NoKey
  BY DEF Unkeyed
<1>3. \A i \in 1..Len(items) : items[i].event \in Events /\ items[i].key = NoKey
  BY <1>1, <1>2
<1>4. QED
  BY <1>3 DEF Shares

LEMMA KeyedShares ==
  ASSUME NEW items \in Seq({Keyed(event) : event \in Events})
  PROVE  /\ Shares(items, Len(items))
         /\ \A i \in 1..Len(items) : items[i].key = EntityKey(items[i].event)
<1>1. \A i \in 1..Len(items) : \E event \in Events : items[i] = Keyed(event)
  OBVIOUS
<1>2. \A event : Keyed(event).event = event /\ Keyed(event).key = EntityKey(event)
  BY DEF Keyed
<1>3. \A i \in 1..Len(items) : items[i].event \in Events /\ items[i].key = EntityKey(items[i].event)
  BY <1>1, <1>2
<1>4. QED
  BY <1>3 DEF Shares

LEMMA ParallelShown ==
  ASSUME NEW one, NEW two, Parallel(one, two), Len(one) <= MaxEvents
  PROVE  Shown(one) = Shown(two)
<1>1. Shares(one, Len(one)) /\ Shares(two, Len(two))
  BY UnkeyedShares, KeyedShares DEF Parallel
<1>2. Len(two) <= MaxEvents
  <2>1. Len(one) \in Nat /\ Len(two) \in Nat /\ MaxEvents \in Nat /\ Len(two) <= Len(one)
    BY TimeAssumption DEF Parallel
  <2>2. QED
    BY <2>1
<1>3. SameEvents(one, Len(one), two, Len(two))
  BY DEF Parallel, SameEvents
<1>4. QED
  BY <1>1, <1>2, <1>3, SameEventsShown

(* One event more.                                                         *)
LEMMA UnkeyedStep ==
  ASSUME NEW items \in Seq({Unkeyed(e) : e \in Events}), NEW event \in Events
  PROVE  LET after == MergeData(items, Unkeyed(event))
         IN  /\ after \in Seq({Unkeyed(e) : e \in Events})
             /\ Len(after) = Len(items) + 1
             /\ \A i \in 1..Len(items) : after[i] = items[i]
             /\ after[Len(items) + 1].event = event
<1>1. Unkeyed(event).key = NoKey /\ Unkeyed(event).event = event
  BY DEF Unkeyed
<1>2. MergeData(items, Unkeyed(event)) = Append(items, Unkeyed(event))
  BY <1>1 DEF MergeData
<1>3. Unkeyed(event) \in {Unkeyed(e) : e \in Events}
  OBVIOUS
<1> DEFINE S == {Unkeyed(e) : e \in Events}
<1> HIDE DEF S
<1>4. /\ Append(items, Unkeyed(event)) \in Seq(S)
      /\ Len(Append(items, Unkeyed(event))) = Len(items) + 1
      /\ \A i \in 1..Len(items) : Append(items, Unkeyed(event))[i] = items[i]
      /\ Append(items, Unkeyed(event))[Len(items) + 1] = Unkeyed(event)
  <2>1. items \in Seq(S) /\ Unkeyed(event) \in S
    BY <1>3 DEF S
  <2>2. QED
    BY <2>1
<1>5. QED
  BY <1>1, <1>2, <1>4 DEF S

LEMMA KeyedStep ==
  ASSUME NEW items \in Seq({Keyed(e) : e \in Events}), NEW event \in Events,
         \A j, l \in 1..Len(items) : EntityKey(items[j].event) = EntityKey(items[l].event) => j = l
  PROVE  LET after == MergeData(items, Keyed(event))
         IN  /\ after \in Seq({Keyed(e) : e \in Events})
             /\ \A p \in 1..Len(items) : EntityKey(items[p].event) = EntityKey(event) =>
                  /\ Len(after) = Len(items)
                  /\ \A j \in (1..Len(items)) \ {p} : after[j] = items[j]
                  /\ after[p].event = event
             /\ (\A p \in 1..Len(items) : EntityKey(items[p].event) # EntityKey(event)) =>
                  /\ Len(after) = Len(items) + 1
                  /\ \A j \in 1..Len(items) : after[j] = items[j]
                  /\ after[Len(items) + 1].event = event
<1> DEFINE item == Keyed(event)
           S == {Keyed(e) : e \in Events}
           after == MergeData(items, item)
<1>1. item \in S /\ item.key = EntityKey(event) /\ item.event = event /\ item.key # NoKey
  BY EventFacts DEF Keyed
<1>2. \A j \in 1..Len(items) : items[j].key = EntityKey(items[j].event)
  BY KeyedShares
<1>3. items \in Seq(S) /\ DOMAIN items = 1..Len(items)
  OBVIOUS
<1> HIDE DEF item, S
<1>4. ASSUME NEW p \in 1..Len(items), EntityKey(items[p].event) = EntityKey(event)
      PROVE  /\ after \in Seq(S) /\ Len(after) = Len(items)
             /\ \A j \in (1..Len(items)) \ {p} : after[j] = items[j]
             /\ after[p].event = event
  <2>1. items[p].key = item.key /\ \A j \in 1..Len(items) : items[j].key = item.key => j = p
    BY <1>1, <1>2, <1>4
  <2>2. HasKey(items, item.key)
    BY <1>3, <2>1 DEF HasKey
  <2>3. FirstWithKey(items, item.key) = p
    <3> DEFINE First(i) == items[i].key = item.key /\ \A j \in DOMAIN items : items[j].key = item.key => i <= j
    <3>1. p \in DOMAIN items /\ First(p)
      BY <1>3, <2>1
    <3>2. \A i \in DOMAIN items : First(i) => i = p
      BY <1>3, <2>1
    <3>3. FirstWithKey(items, item.key) = CHOOSE i \in DOMAIN items : First(i)
      BY DEF FirstWithKey
    <3> HIDE DEF First
    <3>4. QED
      BY <3>1, <3>2, <3>3
  <2>4. after = [items EXCEPT ![p] = item]
    BY <1>1, <2>2, <2>3 DEF MergeData
  <2>5. QED
    BY <1>1, <1>3, <2>4
<1>5. ASSUME \A p \in 1..Len(items) : EntityKey(items[p].event) # EntityKey(event)
      PROVE  /\ after \in Seq(S) /\ Len(after) = Len(items) + 1
             /\ \A j \in 1..Len(items) : after[j] = items[j]
             /\ after[Len(items) + 1].event = event
  <2>1. ~HasKey(items, item.key)
    BY <1>1, <1>2, <1>3, <1>5 DEF HasKey
  <2>2. after = Append(items, item)
    BY <2>1 DEF MergeData
  <2>3. QED
    BY <1>1, <1>3, <2>2
<1> HIDE DEF after
<1>6. QED
  BY <1>4, <1>5 DEF after, item, S

LEMMA ParallelStep ==
  ASSUME NEW one, NEW two, Parallel(one, two), NEW event \in Events
  PROVE  Parallel(MergeData(one, Unkeyed(event)), MergeData(two, Keyed(event)))
<1> DEFINE one2 == MergeData(one, Unkeyed(event))
           two2 == MergeData(two, Keyed(event))
           N == Len(one)
           M == Len(two)
           N2 == Len(one2)
           M2 == Len(two2)
           K(items, i) == EntityKey(items[i].event)
           e == EntityKey(event)
<1>1. /\ one2 \in Seq({Unkeyed(x) : x \in Events}) /\ N2 = N + 1
      /\ \A i \in 1..N : one2[i] = one[i]
      /\ one2[N + 1].event = event
  BY UnkeyedStep DEF Parallel
<1>2. /\ two2 \in Seq({Keyed(x) : x \in Events})
      /\ \A p \in 1..M : K(two, p) = e =>
           M2 = M /\ (\A j \in (1..M) \ {p} : two2[j] = two[j]) /\ two2[p].event = event
      /\ (\A p \in 1..M : K(two, p) # e) =>
           M2 = M + 1 /\ (\A j \in 1..M : two2[j] = two[j]) /\ two2[M + 1].event = event
  <2>1. /\ two \in Seq({Keyed(x) : x \in Events})
        /\ \A j, l \in 1..Len(two) : EntityKey(two[j].event) = EntityKey(two[l].event) => j = l
    BY DEF Parallel
  <2> HIDE DEF M, M2, two2, K, e
  <2>2. /\ MergeData(two, Keyed(event)) \in Seq({Keyed(x) : x \in Events})
        /\ \A p \in 1..Len(two) : EntityKey(two[p].event) = EntityKey(event) =>
             /\ Len(MergeData(two, Keyed(event))) = Len(two)
             /\ \A j \in (1..Len(two)) \ {p} : MergeData(two, Keyed(event))[j] = two[j]
             /\ MergeData(two, Keyed(event))[p].event = event
        /\ (\A p \in 1..Len(two) : EntityKey(two[p].event) # EntityKey(event)) =>
             /\ Len(MergeData(two, Keyed(event))) = Len(two) + 1
             /\ \A j \in 1..Len(two) : MergeData(two, Keyed(event))[j] = two[j]
             /\ MergeData(two, Keyed(event))[Len(two) + 1].event = event
    BY <2>1, KeyedStep
  <2>3. QED
    BY <2>2 DEF M, M2, two2, K, e
<1>3. N \in Nat /\ M \in Nat /\ M <= N
  BY DEF Parallel
<1>4. /\ \A j, l \in 1..M : K(two, j) = K(two, l) => j = l
      /\ \A i \in 1..N : \E j \in 1..M : K(one, i) = K(two, j)
      /\ \A j \in 1..M : \E i \in 1..N : K(one, i) = K(two, j)
      /\ \A i \in 1..N, j \in 1..M :
           IsFinal(one, N, i) /\ K(one, i) = K(two, j) => one[i].event = two[j].event
      /\ \A i, k \in 1..N, j, l \in 1..M :
           IsFirst(one, i) /\ IsFirst(one, k) /\ K(one, i) = K(two, j) /\ K(one, k) = K(two, l) =>
             (i < k <=> j < l)
  BY DEF Parallel
<1> HIDE DEF one2, two2, N, M, N2, M2
<1>5. /\ \A i \in 1..N : K(one2, i) = K(one, i)
      /\ K(one2, N2) = e /\ 1..N2 = 1..N \cup {N2}
  BY <1>1, <1>3
<1>6. \A i \in 1..N : IsFirst(one2, i) <=> IsFirst(one, i)
  <2>1. SUFFICES ASSUME NEW i \in 1..N PROVE IsFirst(one2, i) <=> IsFirst(one, i)
    OBVIOUS
  <2>2. \A j \in 1..(i - 1) : j \in 1..N
    BY <1>3
  <2>3. QED
    BY <1>5, <2>2 DEF IsFirst, SameEntity
<1>7. ASSUME NEW i \in 1..N, IsFinal(one2, N2, i)
      PROVE  IsFinal(one, N, i) /\ K(one, i) # e
  <2>1. \A j \in (i + 1)..N : j \in (i + 1)..N2 /\ j \in 1..N
    BY <1>1, <1>3
  <2>2. N2 \in (i + 1)..N2
    BY <1>1, <1>3
  <2>3. K(one2, i) # K(one2, N2)
    BY <1>7, <2>2 DEF IsFinal, SameEntity
  <2>4. IsFinal(one, N, i)
    BY <1>5, <1>7, <2>1 DEF IsFinal, SameEntity
  <2>5. QED
    BY <1>5, <2>3, <2>4
<1>8. CASE \E p \in 1..M : K(two, p) = e
  <2>1. PICK p \in 1..M : K(two, p) = e
    BY <1>8
  <2>2. /\ M2 = M
        /\ \A j \in (1..M) \ {p} : two2[j] = two[j]
        /\ two2[p].event = event
    BY <1>2, <2>1
  <2>3. \A j \in 1..M : K(two2, j) = K(two, j)
    BY <2>1, <2>2
  <2>4. \A j \in 1..M : K(two, j) = e => j = p
    BY <1>4, <2>1
  <2>5. PICK q \in 1..N : K(one, q) = e
    BY <1>4, <2>1
  <2>6. ~IsFirst(one2, N2)
    <3>1. q \in 1..(N2 - 1)
      BY <1>1, <1>3
    <3>2. K(one2, N2) = K(one2, q)
      BY <1>5, <2>5
    <3>3. QED
      BY <3>1, <3>2 DEF IsFirst, SameEntity
  <2>7. M2 <= N2
    BY <1>1, <1>3, <2>2
  <2>8. \A j, l \in 1..M2 : K(two2, j) = K(two2, l) => j = l
    BY <1>4, <2>2, <2>3
  <2>9. \A i \in 1..N2 : \E j \in 1..M2 : K(one2, i) = K(two2, j)
    BY <1>4, <1>5, <2>1, <2>2, <2>3
  <2>10. \A j \in 1..M2 : \E i \in 1..N2 : K(one2, i) = K(two2, j)
    BY <1>4, <1>5, <2>1, <2>2, <2>3
  <2>11. ASSUME NEW i \in 1..N2, NEW j \in 1..M2, IsFinal(one2, N2, i), K(one2, i) = K(two2, j)
         PROVE  one2[i].event = two2[j].event
    <3>1. CASE i = N2
      BY <1>1, <1>5, <2>2, <2>3, <2>4, <2>11, <3>1
    <3>2. CASE i \in 1..N
      <4>1. j # p
        BY <1>5, <1>7, <2>1, <2>2, <2>3, <2>11, <3>2
      <4>2. two2[j] = two[j] /\ one2[i] = one[i]
        BY <1>1, <2>2, <3>2, <4>1
      <4>3. QED
        BY <1>4, <1>5, <1>7, <2>2, <2>3, <2>11, <3>2, <4>2
    <3>3. QED
      BY <1>5, <3>1, <3>2
  <2>12. ASSUME NEW i \in 1..N2, NEW k \in 1..N2, NEW j \in 1..M2, NEW l \in 1..M2,
                IsFirst(one2, i), IsFirst(one2, k), K(one2, i) = K(two2, j), K(one2, k) = K(two2, l)
         PROVE  i < k <=> j < l
    <3>1. i \in 1..N /\ k \in 1..N
      BY <1>5, <2>6, <2>12
    <3>2. IsFirst(one, i) /\ IsFirst(one, k) /\ K(one, i) = K(two, j) /\ K(one, k) = K(two, l)
      BY <1>5, <1>6, <2>2, <2>3, <2>12, <3>1
    <3>3. QED
      BY <1>4, <2>2, <3>1, <3>2
  <2>13. QED
    BY <1>1, <1>2, <2>7, <2>8, <2>9, <2>10, <2>11, <2>12 DEF Parallel, N2, M2, one2, two2
<1>9. CASE \A p \in 1..M : K(two, p) # e
  <2>1. /\ M2 = M + 1
        /\ \A j \in 1..M : two2[j] = two[j]
        /\ two2[M + 1].event = event
    BY <1>2, <1>9
  <2>2. /\ \A j \in 1..M : K(two2, j) = K(two, j)
        /\ K(two2, M2) = e /\ 1..M2 = 1..M \cup {M2} /\ M2 \notin 1..M
    BY <1>3, <2>1
  <2>3. \A i \in 1..N : K(one, i) # e
    BY <1>4, <1>9
  <2>4. M2 <= N2
    BY <1>1, <1>3, <2>1
  <2>5. \A j, l \in 1..M2 : K(two2, j) = K(two2, l) => j = l
    BY <1>4, <1>9, <2>2
  <2>6. \A i \in 1..N2 : \E j \in 1..M2 : K(one2, i) = K(two2, j)
    <3>1. ASSUME NEW i \in 1..N
          PROVE  \E j \in 1..M2 : K(one2, i) = K(two2, j)
      <4>1. PICK j \in 1..M : K(one, i) = K(two, j)
        BY <1>4
      <4>2. QED
        BY <1>5, <2>2, <4>1
    <3>2. K(one2, N2) = K(two2, M2) /\ M2 \in 1..M2
      BY <1>5, <2>2
    <3>3. QED
      BY <1>5, <3>1, <3>2
  <2>7. \A j \in 1..M2 : \E i \in 1..N2 : K(one2, i) = K(two2, j)
    BY <1>4, <1>5, <2>2
  <2>8. ASSUME NEW i \in 1..N2, NEW j \in 1..M2, K(one2, i) = K(two2, j)
        PROVE  \/ i = N2 /\ j = M2
               \/ i \in 1..N /\ j \in 1..M /\ K(one, i) = K(two, j)
    BY <1>5, <1>9, <2>2, <2>3, <2>8
  <2>9. ASSUME NEW i \in 1..N2, NEW j \in 1..M2, IsFinal(one2, N2, i), K(one2, i) = K(two2, j)
        PROVE  one2[i].event = two2[j].event
    <3>1. CASE i = N2 /\ j = M2
      BY <1>1, <2>1, <3>1
    <3>2. CASE i \in 1..N /\ j \in 1..M /\ K(one, i) = K(two, j)
      <4>1. two2[j] = two[j] /\ one2[i] = one[i]
        BY <1>1, <2>1, <3>2
      <4>2. IsFinal(one, N, i)
        BY <1>7, <2>9, <3>2
      <4>3. QED
        BY <1>4, <3>2, <4>1, <4>2
    <3>3. QED
      BY <2>8, <2>9, <3>1, <3>2
  <2>10. ASSUME NEW i \in 1..N2, NEW k \in 1..N2, NEW j \in 1..M2, NEW l \in 1..M2,
                IsFirst(one2, i), IsFirst(one2, k), K(one2, i) = K(two2, j), K(one2, k) = K(two2, l)
         PROVE  i < k <=> j < l
    <3>1. \/ i = N2 /\ j = M2
          \/ i \in 1..N /\ j \in 1..M /\ K(one, i) = K(two, j) /\ IsFirst(one, i)
      BY <1>6, <2>8, <2>10
    <3>2. \/ k = N2 /\ l = M2
          \/ k \in 1..N /\ l \in 1..M /\ K(one, k) = K(two, l) /\ IsFirst(one, k)
      BY <1>6, <2>8, <2>10
    <3>3. CASE i \in 1..N /\ k \in 1..N /\ j \in 1..M /\ l \in 1..M
      <4>1. /\ IsFirst(one, i) /\ IsFirst(one, k) /\ K(one, i) = K(two, j) /\ K(one, k) = K(two, l)
        BY <1>1, <1>3, <2>2, <3>1, <3>2, <3>3
      <4>2. QED
        BY <1>4, <3>3, <4>1
    <3>4. CASE ~(i \in 1..N /\ k \in 1..N /\ j \in 1..M /\ l \in 1..M)
      <4> HIDE DEF K
      <4>1. QED
        BY <1>1, <1>3, <2>1, <3>1, <3>2, <3>4
    <3>5. QED
      BY <3>3, <3>4
  <2>11. QED
    BY <1>1, <1>2, <2>4, <2>5, <2>6, <2>7, <2>9, <2>10 DEF Parallel, N2, M2, one2, two2
<1>10. QED
  BY <1>8, <1>9 DEF one2, two2

(* One batch more.                                                         *)
LEMMA BatchStep ==
  ASSUME NEW one, NEW two, Parallel(one, two), NEW batch \in Seq(Events)
  PROVE  LET one2 == MergeBatch(one, [i \in DOMAIN batch |-> Unkeyed(batch[i])])
             two2 == MergeBatch(two, [i \in DOMAIN batch |-> Keyed(batch[i])])
         IN  /\ Parallel(one2, two2)
             /\ Len(one2) = Len(one) + Len(batch)
             /\ \A i \in 1..Len(one) : one2[i] = one[i]
             /\ \A i \in 1..Len(batch) : one2[Len(one) + i].event = batch[i]
<1> DEFINE b == Len(batch)
           us == [i \in DOMAIN batch |-> Unkeyed(batch[i])]
           ks == [i \in DOMAIN batch |-> Keyed(batch[i])]
           N == Len(one)
<1>1. b \in Nat /\ DOMAIN batch = 1..b /\ \A i \in 1..b : batch[i] \in Events
  OBVIOUS
<1>2. N \in Nat
  BY DEF Parallel
<1>3. PICK P : /\ P[0] = one
               /\ \A i \in 1..b : P[i] = MergeData(P[i - 1], us[i])
               /\ MergeBatch(one, us) = P[b]
  <2>1. DOMAIN us = 1..b
    BY <1>1
  <2> HIDE DEF us, b
  <2>2. QED
    BY <1>1, <2>1, MergeBatchIsLoop
<1>4. PICK Q : /\ Q[0] = two
               /\ \A i \in 1..b : Q[i] = MergeData(Q[i - 1], ks[i])
               /\ MergeBatch(two, ks) = Q[b]
  <2>1. DOMAIN ks = 1..b
    BY <1>1
  <2> HIDE DEF ks, b
  <2>2. QED
    BY <1>1, <2>1, MergeBatchIsLoop
<1>5. \A i \in 1..b : us[i] = Unkeyed(batch[i]) /\ ks[i] = Keyed(batch[i])
  BY <1>1
<1> HIDE DEF us, ks, b, N
<1> DEFINE Good(k) == /\ Parallel(P[k], Q[k])
                      /\ Len(P[k]) = N + k
                      /\ \A i \in 1..N : P[k][i] = one[i]
                      /\ \A i \in 1..k : P[k][N + i].event = batch[i]
           T == {k \in 0..b : Good(k)}
<1>6. 0 \in T
  <2>1. Len(P[0]) = N + 0
    BY <1>2, <1>3 DEF N
  <2>2. \A i \in 1..0 : P[0][N + i].event = batch[i]
    OBVIOUS
  <2>3. 0 \in 0..b
    BY <1>1
  <2>4. QED
    BY <1>3, <1>4, <2>1, <2>2, <2>3
<1>7. ASSUME NEW k \in 1..b, k - 1 \in T
      PROVE  k \in T
  <2>1. Good(k - 1)
    BY <1>7
  <2> HIDE DEF T
  <2>2. P[k] = MergeData(P[k - 1], Unkeyed(batch[k])) /\ Q[k] = MergeData(Q[k - 1], Keyed(batch[k]))
    BY <1>3, <1>4, <1>5
  <2>3. batch[k] \in Events /\ k \in Nat
    BY <1>1
  <2>4. Parallel(P[k], Q[k])
    BY <2>1, <2>2, <2>3, ParallelStep
  <2>5. /\ Len(P[k]) = Len(P[k - 1]) + 1
        /\ \A i \in 1..Len(P[k - 1]) : P[k][i] = P[k - 1][i]
        /\ P[k][Len(P[k - 1]) + 1].event = batch[k]
    <3>1. P[k - 1] \in Seq({Unkeyed(x) : x \in Events})
      BY <2>1 DEF Parallel
    <3>2. QED
      BY <2>2, <2>3, <3>1, UnkeyedStep
  <2>6. Len(P[k - 1]) = N + (k - 1)
    BY <2>1
  <2>7. Len(P[k]) = N + k /\ Len(P[k - 1]) + 1 = N + k
    BY <1>2, <2>3, <2>5, <2>6
  <2>8. \A i \in 1..N : P[k][i] = one[i]
    BY <1>2, <2>1, <2>3, <2>5, <2>6
  <2>9. ASSUME NEW i \in 1..k
        PROVE  P[k][N + i].event = batch[i]
    <3>1. CASE i = k
      BY <2>5, <2>7, <3>1
    <3>2. CASE i # k
      <4>1. i \in 1..(k - 1) /\ N + i \in 1..Len(P[k - 1])
        BY <1>2, <2>3, <2>6, <3>2
      <4>2. QED
        BY <2>1, <2>5, <4>1
    <3>3. QED
      BY <3>1, <3>2
  <2>10. k \in 0..b
    BY <1>1
  <2>11. QED
    BY <2>4, <2>7, <2>8, <2>9, <2>10 DEF T
<1> HIDE DEF T, Good
<1>8. \A k \in 0..b : k \in T
  BY <1>1, <1>6, <1>7, Reading!LoopInduction
<1>9. Good(b)
  BY <1>1, <1>8 DEF T
<1>10. QED
  BY <1>3, <1>4, <1>9 DEF Good, N, b, us, ks

-----------------------------------------------------------------------------
(* Invariant of every state: the two ways agree, and the last sync is the  *)
(* end of the log.                                                         *)
LastAtEnd ==
  /\ last \in Seq(Events) /\ Len(last) <= Len(log)
  /\ \A i \in 1..Len(last) : log[Len(log) - Len(last) + i].event = last[i]

SessionInv == Parallel(log, keyed) /\ Len(log) <= MaxEvents /\ LastAtEnd

LEMMA AcceptStep ==
  ASSUME SessionInv, NEW batch \in Seq(Events), Accept(batch)
  PROVE  /\ SessionInv' /\ last' = batch
         /\ Len(log') = Len(log) + Len(batch)
         /\ \A i \in 1..Len(log) : log'[i] = log[i]
         /\ \A i \in 1..Len(batch) : log'[Len(log) + i].event = batch[i]
<1>1. /\ Parallel(log, keyed)
      /\ Len(log) + Len(batch) <= MaxEvents
      /\ log' = MergeBatch(log, [i \in DOMAIN batch |-> Unkeyed(batch[i])])
      /\ keyed' = MergeBatch(keyed, [i \in DOMAIN batch |-> Keyed(batch[i])])
      /\ last' = batch
  BY DEF Accept, SessionInv
<1>2. /\ Parallel(log', keyed')
      /\ Len(log') = Len(log) + Len(batch)
      /\ \A i \in 1..Len(log) : log'[i] = log[i]
      /\ \A i \in 1..Len(batch) : log'[Len(log) + i].event = batch[i]
  <2>1. /\ Parallel(MergeBatch(log, [i \in DOMAIN batch |-> Unkeyed(batch[i])]),
                    MergeBatch(keyed, [i \in DOMAIN batch |-> Keyed(batch[i])]))
        /\ Len(MergeBatch(log, [i \in DOMAIN batch |-> Unkeyed(batch[i])])) = Len(log) + Len(batch)
        /\ \A i \in 1..Len(log) : MergeBatch(log, [j \in DOMAIN batch |-> Unkeyed(batch[j])])[i] = log[i]
        /\ \A i \in 1..Len(batch) :
             MergeBatch(log, [j \in DOMAIN batch |-> Unkeyed(batch[j])])[Len(log) + i].event = batch[i]
    BY <1>1, BatchStep
  <2>2. QED
    BY <1>1, <2>1
<1>3. Len(log) \in Nat /\ Len(batch) \in Nat
  BY <1>1 DEF Parallel
<1>4. LastAtEnd'
  <2>1. Len(log') - Len(last') = Len(log) /\ Len(last') <= Len(log')
    BY <1>1, <1>2, <1>3
  <2>2. QED
    BY <1>1, <1>2, <2>1 DEF LastAtEnd
<1>5. QED
  BY <1>1, <1>2, <1>4 DEF SessionInv

LEMMA BatchFacts ==
  /\ \A batch \in Batches : batch \in Seq(Events)
  /\ SessionInv => last \in Seq(Events)
  /\ [Next]_vars => UNCHANGED vars \/ \E batch \in Batches \cup {last} : Accept(batch)
<1>1. \A batch \in Batches : batch \in Seq(Events)
  BY EventAssumption
<1>2. SessionInv => last \in Seq(Events)
  BY DEF SessionInv, LastAtEnd
<1>3. [Next]_vars => UNCHANGED vars \/ \E batch \in Batches \cup {last} : Accept(batch)
  <2>1. Next => \E batch \in Batches \cup {last} : Accept(batch)
    <3>1. Sync => \E batch \in Batches \cup {last} : Accept(batch)
      BY DEF Sync
    <3>2. RetrySync => \E batch \in Batches \cup {last} : Accept(batch)
      BY DEF RetrySync
    <3>3. QED
      BY <3>1, <3>2 DEF Next
  <2>2. QED
    BY <2>1
<1>4. QED
  BY <1>1, <1>2, <1>3

LEMMA SessionInvInit == Init => SessionInv
<1>1. SUFFICES ASSUME log = <<>>, keyed = <<>>, last = <<>> PROVE SessionInv
  BY DEF Init
<1>2. /\ <<>> \in Seq({Unkeyed(event) : event \in Events})
      /\ <<>> \in Seq({Keyed(event) : event \in Events}) /\ <<>> \in Seq(Events)
      /\ Len(<<>>) = 0 /\ 1..0 = {}
  OBVIOUS
<1>3. MaxEvents \in Nat
  BY TimeAssumption
<1>4. Parallel(log, keyed)
  BY <1>1, <1>2 DEF Parallel
<1>5. LastAtEnd
  BY <1>1, <1>2 DEF LastAtEnd
<1>6. Len(log) <= MaxEvents
  BY <1>1, <1>2, <1>3
<1>7. QED
  BY <1>4, <1>5, <1>6 DEF SessionInv

LEMMA SessionInvNext == SessionInv /\ [Next]_vars => SessionInv'
<1>1. SUFFICES ASSUME SessionInv, [Next]_vars PROVE SessionInv'
  OBVIOUS
<1>2. CASE UNCHANGED vars
  <2>1. log' = log /\ keyed' = keyed /\ last' = last
    BY <1>2 DEF vars
  <2>2. QED
    BY <1>1, <2>1 DEF SessionInv, LastAtEnd
<1>3. ASSUME NEW batch \in Batches \cup {last}, Accept(batch)
      PROVE  SessionInv'
  <2>1. batch \in Seq(Events)
    BY <1>1, BatchFacts
  <2>2. QED
    BY <1>1, <1>3, <2>1, AcceptStep
<1>4. QED
  BY <1>1, <1>2, <1>3, BatchFacts

LEMMA SessionInvHolds == Spec => []SessionInv
<1>1. QED
  BY SessionInvInit, SessionInvNext, PTL DEF Spec

LEMMA KeysDoNotShowFollows == SessionInv => KeysDoNotShow
BY ParallelShown DEF SessionInv, KeysDoNotShow

(* Whether a client marks its events with keys, so that mergeData replaces *)
(* them in place, or not, so that it keeps them all, the page shows the same *)
(* messages with the same parts in the same order.                         *)
THEOREM KeysDoNotShowHolds == Spec => []KeysDoNotShow
BY SessionInvHolds, KeysDoNotShowFollows, PTL

(* A log that repeats its end shows the same.                              *)
LEMMA RepeatedEndShown ==
  ASSUME NEW one, NEW n, Shares(one, n), NEW two, NEW b \in 0..n, Shares(two, n + b), n + b <= MaxEvents,
         \A i \in 1..n : two[i].event = one[i].event,
         \A i \in 1..b : two[n + i].event = one[n - b + i].event
  PROVE  Shown(one) = Shown(two)
<1> DEFINE m == n + b
           K(items, i) == EntityKey(items[i].event)
           At(j) == IF j <= n THEN j ELSE j - b
<1>1. n \in Nat /\ b \in Nat /\ MaxEvents \in Nat
  BY TimeAssumption DEF Shares
<1>2. ASSUME NEW j \in 1..m
      PROVE  At(j) \in 1..n /\ two[j].event = one[At(j)].event
  <2>1. CASE j <= n
    BY <1>1, <2>1
  <2>2. CASE j > n
    <3>1. j - n \in 1..b /\ n + (j - n) = j /\ n - b + (j - n) = j - b /\ j - b \in 1..n /\ At(j) = j - b
      BY <1>1, <2>2
    <3>2. two[n + (j - n)].event = one[n - b + (j - n)].event
      BY <3>1
    <3>3. QED
      BY <3>1, <3>2
  <2>3. QED
    BY <1>1, <2>1, <2>2
<1>3. \A i \in 1..n : i \in 1..m /\ K(one, i) = K(two, i)
  BY <1>1
<1>4. \A j \in 1..m : \E i \in 1..n : K(one, i) = K(two, j)
  BY <1>2
<1>5. ASSUME NEW i \in 1..n, NEW j \in 1..m,
             IsFinal(one, n, i), IsFinal(two, m, j), K(one, i) = K(two, j)
      PROVE  one[i].event = two[j].event
  <2> DEFINE k == At(j)
  <2>1. k \in 1..n /\ two[j].event = one[k].event
    BY <1>2
  <2>2. ASSUME NEW l \in (k + 1)..n, K(one, l) = K(one, k)
        PROVE  FALSE
    <3>1. CASE j <= n
      <4>1. k = j /\ l \in (j + 1)..m /\ l \in 1..n
        BY <1>1, <3>1
      <4>2. K(two, l) = K(two, j)
        BY <1>3, <2>1, <2>2, <4>1
      <4>3. QED
        BY <1>5, <4>1, <4>2 DEF IsFinal, SameEntity
    <3>2. CASE j > n
      <4>1. k = j - b /\ l + b \in (j + 1)..m /\ l + b > n /\ l + b \in 1..m
        BY <1>1, <3>2
      <4>2. At(l + b) = l
        BY <1>1, <4>1
      <4>3. K(two, l + b) = K(one, l)
        BY <1>2, <4>1, <4>2
      <4>4. K(two, l + b) = K(two, j)
        BY <2>1, <2>2, <4>3
      <4>5. QED
        BY <1>5, <4>1, <4>4 DEF IsFinal, SameEntity
    <3>3. QED
      BY <1>1, <3>1, <3>2
  <2> HIDE DEF k
  <2>3. K(one, k) = K(one, i)
    BY <1>5, <2>1
  <2>4. ~(k < i)
    <3>1. k < i => i \in (k + 1)..n
      BY <1>1, <2>1
    <3>2. QED
      BY <2>2, <2>3, <3>1
  <2>5. ~(i < k)
    <3>1. i < k => k \in (i + 1)..n
      BY <1>1, <2>1
    <3>2. QED
      BY <1>5, <2>3, <3>1 DEF IsFinal, SameEntity
  <2>6. k = i
    BY <1>1, <2>1, <2>4, <2>5
  <2>7. QED
    BY <2>1, <2>6
<1>6. ASSUME NEW j \in 1..m, IsFirst(two, j)
      PROVE  j \in 1..n
  <2>1. SUFFICES ASSUME j > n PROVE FALSE
    BY <1>1
  <2>2. At(j) = j - b /\ b >= 1 /\ j - b \in 1..(j - 1)
    BY <1>1, <2>1
  <2>3. At(j) \in 1..(j - 1) /\ At(j) \in 1..n /\ K(two, At(j)) = K(two, j)
    BY <1>2, <1>3, <2>2
  <2>4. QED
    BY <1>6, <2>3 DEF IsFirst, SameEntity
<1>7. ASSUME NEW i \in 1..n, NEW j \in 1..m, IsFirst(one, i), IsFirst(two, j), K(one, i) = K(two, j)
      PROVE  i = j
  <2>1. j \in 1..n /\ K(one, j) = K(two, j)
    BY <1>3, <1>6, <1>7
  <2>2. ~(j < i)
    <3>1. j < i => j \in 1..(i - 1)
      BY <1>1, <2>1
    <3>2. QED
      BY <1>7, <2>1, <3>1 DEF IsFirst, SameEntity
  <2>3. ~(i < j)
    <3>1. i < j => i \in 1..(j - 1)
      BY <1>1, <2>1
    <3>2. K(two, i) = K(two, j)
      BY <1>3, <1>7
    <3>3. QED
      BY <1>7, <3>1, <3>2 DEF IsFirst, SameEntity
  <2>4. QED
    BY <1>1, <2>1, <2>2, <2>3
<1> HIDE DEF m, K, At
<1>8. /\ \A i \in 1..n : \E j \in 1..m : K(one, i) = K(two, j)
      /\ \A j \in 1..m : \E i \in 1..n : K(one, i) = K(two, j)
      /\ \A i \in 1..n, j \in 1..m :
           IsFinal(one, n, i) /\ IsFinal(two, m, j) /\ K(one, i) = K(two, j) => one[i].event = two[j].event
      /\ \A i, k \in 1..n, j, l \in 1..m :
           /\ IsFirst(one, i) /\ IsFirst(one, k) /\ IsFirst(two, j) /\ IsFirst(two, l)
           /\ K(one, i) = K(two, j) /\ K(one, k) = K(two, l)
           => i = j /\ k = l
  BY <1>3, <1>4, <1>5, <1>7
<1>9. SameEvents(one, n, two, m)
  BY <1>8 DEF SameEvents, K
<1>10. n <= MaxEvents
  BY <1>1
<1>11. QED
  BY <1>9, <1>10, SameEventsShown DEF m

(* RetryIsInvisible: a sync the client repeats because its answer was lost *)
(* changes nothing the page shows, with keys or without.                   *)
LEMMA RetryStep ==
  ASSUME SessionInv, [Next]_vars, log' # log, last' = last
  PROVE  Shown(log') = Shown(log) /\ Shown(keyed') = Shown(keyed)
<1>1. PICK batch \in Batches \cup {last} : Accept(batch)
  BY BatchFacts DEF vars
<1>2. batch \in Seq(Events)
  BY BatchFacts
<1>3. /\ SessionInv' /\ batch = last
      /\ Len(log') = Len(log) + Len(last)
      /\ \A i \in 1..Len(log) : log'[i] = log[i]
      /\ \A i \in 1..Len(last) : log'[Len(log) + i].event = last[i]
  BY <1>1, <1>2, AcceptStep
<1>4. /\ Parallel(log, keyed) /\ Parallel(log', keyed')
      /\ Len(log) <= MaxEvents /\ Len(log') <= MaxEvents /\ LastAtEnd
  BY <1>3 DEF SessionInv
<1>5. Shares(log, Len(log)) /\ Shares(log', Len(log'))
  BY <1>4, UnkeyedShares DEF Parallel
<1>6. /\ Len(log) \in Nat /\ Len(last) \in 0..Len(log)
      /\ \A i \in 1..Len(last) : log[Len(log) - Len(last) + i].event = last[i]
  BY <1>4 DEF LastAtEnd, Parallel
<1>7. Shares(log', Len(log) + Len(last)) /\ Len(log) + Len(last) <= MaxEvents
  BY <1>3, <1>4, <1>5
<1>8. \A i \in 1..Len(log) : log'[i].event = log[i].event
  BY <1>3
<1>9. \A i \in 1..Len(last) : log'[Len(log) + i].event = log[Len(log) - Len(last) + i].event
  BY <1>3, <1>6
<1> DEFINE n == Len(log)
           b == Len(last)
<1>10. Shown(log) = Shown(log')
  <2>1. /\ Shares(log, n) /\ b \in 0..n /\ Shares(log', n + b) /\ n + b <= MaxEvents
        /\ \A i \in 1..n : log'[i].event = log[i].event
        /\ \A i \in 1..b : log'[n + i].event = log[n - b + i].event
    BY <1>5, <1>6, <1>7, <1>8, <1>9
  <2> HIDE DEF n, b
  <2>2. QED
    BY <2>1, RepeatedEndShown
<1>11. Shown(log) = Shown(keyed) /\ Shown(log') = Shown(keyed')
  BY <1>4, ParallelShown
<1>12. QED
  BY <1>10, <1>11

(* A client that repeats the sync whose answer was lost changes nothing on *)
(* the page, although Service.Sync appends its unkeyed events again.       *)
THEOREM RetryIsInvisibleHolds == Spec => RetryIsInvisible
<1>1. SessionInv /\ [Next]_vars =>
        [log' # log /\ last' = last =>
           Shown(log') = Shown(log) /\ Shown(keyed') = Shown(keyed)]_vars
  BY RetryStep
<1>2. QED
  BY <1>1, SessionInvHolds, PTL DEF Spec, RetryIsInvisible

(* Swapping such events leaves the first and the last version of every     *)
(* entity, and the order of what the page lists.                           *)
LEMMA SwapShown ==
  ASSUME SessionInv, NEW p \in 1..Len(log) - 1,
         ~OrderMatters(log[p].event, log[p + 1].event)
  PROVE  Shown(Swapped(log, p)) = Shown(log)
<1> DEFINE n == Len(log)
           two == Swapped(log, p)
           At(i) == IF i = p THEN p + 1 ELSE IF i = p + 1 THEN p ELSE i
           K(items, i) == EntityKey(items[i].event)
           type(i) == log[i].event.type
           own(i) == OwnKey(log[i].event)
<1>1. Parallel(log, keyed) /\ n <= MaxEvents
  BY DEF SessionInv
<1>2. n \in Nat /\ p \in 1..n /\ p + 1 \in 1..n /\ p \in Nat
  BY <1>1 DEF Parallel
<1>3. Shares(log, n)
  BY <1>1, UnkeyedShares DEF Parallel
<1>4. /\ DOMAIN two = 1..n
      /\ \A i \in 1..n : At(i) \in 1..n /\ two[i] = log[At(i)]
  <2>1. DOMAIN log = 1..n
    BY <1>3 DEF Shares
  <2>2. QED
    BY <1>2, <2>1 DEF Swapped
<1>5. Shares(two, n)
  BY <1>3, <1>4 DEF Shares
<1>6. \A i \in 1..n : K(two, i) = K(log, At(i))
  BY <1>4
<1>7. \A i \in 1..n : At(At(i)) = i
  BY <1>2
<1>8. K(log, p) # K(log, p + 1)
  BY DEF OrderMatters
<1>9. ASSUME NEW i \in 1..n, NEW k \in 1..n, i < k, ~(At(i) < At(k))
      PROVE  i = p /\ k = p + 1
  BY <1>2, <1>9
<1>10. ASSUME NEW i \in 1..n, NEW k \in 1..n, i < k, K(two, i) = K(two, k)
       PROVE  At(i) < At(k)
  <2>1. ~(i = p /\ k = p + 1)
    <3>1. K(two, p) = K(log, p + 1) /\ K(two, p + 1) = K(log, p)
      BY <1>2, <1>6
    <3>2. QED
      BY <1>8, <1>10, <3>1
  <2>2. QED
    BY <1>9, <1>10, <2>1
<1>11. ASSUME NEW i \in 1..n, NEW k \in 1..n, i < k, K(log, i) = K(log, k)
       PROVE  At(i) < At(k)
  <2>1. ~(i = p /\ k = p + 1)
    BY <1>8, <1>11
  <2>2. QED
    BY <1>9, <1>11, <2>1
<1> HIDE DEF two, At, K, n
<1>12. ASSUME NEW j \in 1..n, IsFinal(two, n, j)
       PROVE  IsFinal(log, n, At(j))
  <2>1. SUFFICES ASSUME NEW k \in (At(j) + 1)..n, K(log, At(j)) = K(log, k) PROVE FALSE
    BY DEF IsFinal, SameEntity, K
  <2>2. k \in 1..n /\ At(j) \in 1..n /\ At(j) < k
    <3>1. At(j) \in 1..n
      BY <1>4
    <3>2. QED
      BY <1>2, <2>1, <3>1
  <2>3. At(At(j)) < At(k) /\ At(At(j)) = j /\ At(k) \in 1..n /\ K(two, At(k)) = K(log, k)
    BY <1>4, <1>6, <1>7, <1>11, <2>1, <2>2
  <2>4. At(k) \in (j + 1)..n /\ K(two, j) = K(two, At(k))
    BY <1>2, <1>6, <2>1, <2>3
  <2>5. QED
    BY <1>12, <2>4 DEF IsFinal, SameEntity, K
<1>13. ASSUME NEW j \in 1..n, IsFirst(two, j)
       PROVE  IsFirst(log, At(j))
  <2>1. SUFFICES ASSUME NEW k \in 1..(At(j) - 1), K(log, At(j)) = K(log, k) PROVE FALSE
    BY DEF IsFirst, SameEntity, K
  <2>2. k \in 1..n /\ At(j) \in 1..n /\ k < At(j)
    <3>1. At(j) \in 1..n
      BY <1>4
    <3>2. QED
      BY <1>2, <2>1, <3>1
  <2>3. At(k) < At(At(j)) /\ At(At(j)) = j /\ At(k) \in 1..n /\ K(two, At(k)) = K(log, k)
    BY <1>4, <1>6, <1>7, <1>11, <2>1, <2>2
  <2>4. At(k) \in 1..(j - 1) /\ K(two, j) = K(two, At(k))
    BY <1>2, <1>6, <2>1, <2>3
  <2>5. QED
    BY <1>13, <2>4 DEF IsFirst, SameEntity, K
<1>14. ASSUME NEW i \in 1..n, NEW k \in 1..n, IsFinal(log, n, i), IsFinal(log, n, k), K(log, i) = K(log, k)
       PROVE  i = k
  <2>1. i < k => k \in (i + 1)..n
    BY <1>2
  <2>2. k < i => i \in (k + 1)..n
    BY <1>2
  <2>3. ~(i < k) /\ ~(k < i)
    BY <1>14, <2>1, <2>2 DEF IsFinal, SameEntity, K
  <2>4. QED
    BY <1>2, <2>3
<1>15. ASSUME NEW i \in 1..n, NEW k \in 1..n, IsFirst(log, i), IsFirst(log, k), K(log, i) = K(log, k)
       PROVE  i = k
  <2>1. i < k => i \in 1..(k - 1)
    BY <1>2
  <2>2. k < i => k \in 1..(i - 1)
    BY <1>2
  <2>3. ~(i < k) /\ ~(k < i)
    BY <1>15, <2>1, <2>2 DEF IsFirst, SameEntity, K
  <2>4. QED
    BY <1>2, <2>3
<1>16. ~ /\ type(p) = type(p + 1)
         /\ Counts(Latest(log), type(p), own(p), own(p + 1)) \/ Counts(Latest(log), type(p), own(p + 1), own(p))
  <2>1. log[p].event \in Events /\ log[p + 1].event \in Events
    BY <1>2, <1>3 DEF Shares
  <2>2. ASSUME type(p) = "part", type(p + 1) = "part" PROVE own(p)[1] # own(p + 1)[1]
    <3>1. log[p].event.data.messageID # log[p + 1].event.data.messageID
      BY <2>2 DEF OrderMatters
    <3>2. QED
      BY <2>1, <2>2, <3>1, PartKeyFacts
  <2>3. ASSUME type(p) = "message", type(p + 1) = "message"
        PROVE  Get(CurrentOf(Latest(log), "message", own(p)), "created")
                 # Get(CurrentOf(Latest(log), "message", own(p + 1)), "created")
    <3>1. CreatedNow(log[p].event) # CreatedNow(log[p + 1].event)
      BY <2>3 DEF OrderMatters
    <3>2. /\ EntityKey(log[p].event) = <<type(p), own(p)>>
          /\ EntityKey(log[p + 1].event) = <<type(p + 1), own(p + 1)>>
      BY <2>1, EventFacts
    <3>3. EntityKey(log[p].event)[2] = own(p) /\ EntityKey(log[p + 1].event)[2] = own(p + 1)
      BY <3>2
    <3>4. QED
      BY <3>1, <3>3 DEF CreatedNow
  <2>4. QED
    BY <2>2, <2>3 DEF Counts
<1>17. ASSUME NEW j \in 1..n, NEW l \in 1..n,
              type(At(j)) = type(At(l)), Counts(Latest(log), type(At(j)), own(At(j)), own(At(l)))
       PROVE  At(j) < At(l) <=> j < l
  <2> HIDE DEF type, own
  <2>1. At(p) = p + 1 /\ At(p + 1) = p
    BY <1>2 DEF At
  <2>2. ~(j = p /\ l = p + 1) /\ ~(l = p /\ j = p + 1)
    BY <1>16, <1>17, <2>1
  <2>3. j < l => At(j) < At(l)
    BY <1>9, <2>2
  <2>4. l < j => At(l) < At(j)
    BY <1>9, <2>2
  <2>5. At(j) \in Int /\ At(l) \in Int
    <3>1. At(j) \in 1..n /\ At(l) \in 1..n
      BY <1>4
    <3>2. QED
      BY <3>1
  <2>6. j = l => At(j) = At(l)
    OBVIOUS
  <2>7. QED
    BY <1>2, <2>3, <2>4, <2>5, <2>6
<1>18. /\ \A i \in 1..n : \E j \in 1..n : K(log, i) = K(two, j)
       /\ \A j \in 1..n : \E i \in 1..n : K(log, i) = K(two, j)
  BY <1>4, <1>6, <1>7
<1>19. ASSUME NEW i \in 1..n, NEW j \in 1..n, IsFinal(log, n, i), IsFinal(two, n, j), K(log, i) = K(two, j)
       PROVE  log[i].event = two[j].event
  <2>1. i = At(j)
    BY <1>4, <1>6, <1>12, <1>14, <1>19
  <2>2. QED
    BY <1>4, <2>1
<1>20. ASSUME NEW i \in 1..n, NEW k \in 1..n, NEW j \in 1..n, NEW l \in 1..n,
              IsFirst(log, i), IsFirst(log, k), IsFirst(two, j), IsFirst(two, l),
              K(log, i) = K(two, j), K(log, k) = K(two, l),
              type(i) = type(k), Counts(Latest(log), type(i), own(i), own(k))
       PROVE  i < k <=> j < l
  <2>1. i = At(j) /\ k = At(l)
    BY <1>4, <1>6, <1>13, <1>15, <1>20
  <2>2. QED
    BY <1>17, <1>20, <2>1
<1>21. SameEvents(log, n, two, n)
  BY <1>18, <1>19, <1>20 DEF SameEvents, K
<1>22. QED
  BY <1>1, <1>3, <1>5, <1>21, SameEventsShown DEF two

LEMMA OvertakingFollows == SessionInv => OvertakingIsInvisible
BY SwapShown DEF OvertakingIsInvisible

(* Two neighbouring events whose order does not matter may reach the backend *)
(* in either order: buildMessageEnvelopes shows the same.                  *)
THEOREM OvertakingIsInvisibleHolds == Spec => []OvertakingIsInvisible
BY SessionInvHolds, OvertakingFollows, PTL

-----------------------------------------------------------------------------
(* The messages of a page and where the plan puts them.                    *)

IsData(items, n, type, data) == \E l \in 1..n : items[l].event.type = type /\ items[l].event.data = data

LEMMA MessageDataFacts ==
  ASSUME NEW items, NEW n, Shares(items, n), NEW data, IsData(items, n, "message", data)
  PROVE  Get(data, "id") # Absent
<1>1. PICK l \in 1..n : items[l].event.type = "message" /\ items[l].event.data = data
  BY DEF IsData
<1>2. items[l].event \in Events
  BY DEF Shares
<1>3. QED
  BY <1>1, <1>2, MessageKeyFacts

LEMMA PartDataFacts ==
  ASSUME NEW items, NEW n, Shares(items, n), NEW data, IsData(items, n, "part", data)
  PROVE  Get(data, "id") # Absent
<1>1. PICK l \in 1..n : items[l].event.type = "part" /\ items[l].event.data = data
  BY DEF IsData
<1>2. items[l].event \in Events
  BY DEF Shares
<1>3. OwnKey(items[l].event) # Absent /\ OwnKey(items[l].event) = PartKey(data)
  BY <1>1, <1>2, EventAssumption DEF OwnKey
<1>4. QED
  BY <1>3 DEF PartKey, StringField

(* A side event of a part is not named like a message.                     *)
LEMMA NamesDiffer ==
  ASSUME NEW items, NEW n, Shares(items, n),
         NEW one, IsData(items, n, "message", one), NEW two, IsData(items, n, "message", two),
         NEW part, IsData(items, n, "part", part)
  PROVE  Get(one, "id") # <<Get(two, "id"), Get(part, "id")>>
<1>1. PICK i \in 1..n : items[i].event.type = "message" /\ items[i].event.data = one
  BY DEF IsData
<1>2. PICK j \in 1..n : items[j].event.type = "message" /\ items[j].event.data = two
  BY DEF IsData
<1>3. PICK k \in 1..n : items[k].event.type = "part" /\ items[k].event.data = part
  BY DEF IsData
<1>4. items[i].event \in Events /\ items[j].event \in Events /\ items[k].event \in Events
  BY DEF Shares
<1>5. QED
  BY <1>1, <1>2, <1>3, <1>4, NameAssumption

LEMMA PartValuesFacts ==
  ASSUME NEW items, NEW n, Shares(items, n), NEW id
  PROVE  LET parts == PartsOf(Latest(items), id)
         IN  /\ \E d \in Nat : DOMAIN parts = 1..d
             /\ \A j \in DOMAIN parts : IsData(items, n, "part", CurrentOf(Latest(items), "part", parts[j]))
<1> DEFINE A == Latest(items)
           S == {key \in DOMAIN A["part"] : Get(CurrentOf(A, "part", key), "messageID") = id}
           R == AddedBefore(A, "part")
<1>1. "part" \in Types
  BY DEF Types, ObjectTypes
<1>2. S \in SUBSET DOMAIN A["part"]
  OBVIOUS
<1>3. PartsOf(A, id) = Listed(S, R)
  BY DEF PartsOf
<1>4. IsFiniteSet(S) /\ Reading!StrictOrderOn(S, R)
  BY <1>1, <1>2, ArrivalIsStrict
<1> HIDE DEF S, R
<1>5. /\ Cardinality(S) \in Nat /\ DOMAIN Listed(S, R) = 1..Cardinality(S)
      /\ \A j \in DOMAIN Listed(S, R) : Listed(S, R)[j] \in S
  BY <1>4, ListedFacts
<1>6. ASSUME NEW key \in S
      PROVE  IsData(items, n, "part", CurrentOf(A, "part", key))
  <2>1. key \in DOMAIN A["part"]
    BY <1>2
  <2>2. PICK l \in 1..n : /\ items[l].event.type = "part" /\ OwnKey(items[l].event) = key
                          /\ CurrentOf(A, "part", key) = items[l].event.data
    BY <1>1, <2>1, CurrentIsAnEvent
  <2>3. QED
    BY <2>2 DEF IsData
<1>7. QED
  BY <1>3, <1>5, <1>6

(* The visible messages: their data are events of the share, no two have   *)
(* the same id.                                                            *)
Visible(items, n, V, c) ==
  /\ c \in Nat /\ DOMAIN V = 1..c
  /\ \A i \in 1..c : /\ IsData(items, n, "message", V[i].info)
                     /\ MessageID(V[i]) = Get(V[i].info, "id") /\ MessageID(V[i]) # Absent
                     /\ \E d \in Nat : DOMAIN V[i].parts = 1..d
                     /\ \A j \in DOMAIN V[i].parts : IsData(items, n, "part", V[i].parts[j])
  /\ \A i, j \in 1..c : MessageID(V[i]) = MessageID(V[j]) => i = j

LEMMA VisibleFacts ==
  ASSUME NEW items, NEW n, Shares(items, n), n <= MaxEvents
  PROVE  \E c \in Nat : Visible(items, n, VisibleMessages(Latest(items)), c)
<1> DEFINE A == Latest(items)
           S == DOMAIN A["message"]
           R == MessageBefore(A)
           K == MessageKeys(A)
           V == VisibleMessages(A)
           c == Cardinality(S)
           info(i) == CurrentOf(A, "message", K[i])
           partKeys(i) == PartsOf(A, Or(Get(info(i), "id"), Empty))
<1>1. "message" \in Types
  BY DEF Types, ObjectTypes
<1>2. K = Listed(S, R)
  BY DEF MessageKeys
<1>3. IsFiniteSet(S) /\ Reading!StrictOrderOn(S, R)
  BY MessagesAreStrict
<1>4. /\ c \in Nat /\ DOMAIN K = 1..c
      /\ \A i \in 1..c : K[i] \in S
      /\ \A i, j \in 1..c : K[i] = K[j] => i = j
  <2> HIDE DEF S, R
  <2>1. QED
    BY <1>2, <1>3, ListedFacts
<1>5. V = [i \in DOMAIN K |-> Envelope(A, K[i], i - 1)]
  BY DEF VisibleMessages
<1>6. ASSUME NEW i \in 1..c
      PROVE  /\ V[i].info = info(i)
             /\ V[i].parts = [j \in DOMAIN partKeys(i) |-> CurrentOf(A, "part", partKeys(i)[j])]
  <2>1. V[i] = Envelope(A, K[i], i - 1)
    BY <1>4, <1>5
  <2> HIDE DEF V, A, K
  <2>2. QED
    BY <2>1 DEF Envelope
<1>7. ASSUME NEW i \in 1..c
      PROVE  \E l \in 1..n : /\ items[l].event.type = "message" /\ OwnKey(items[l].event) = K[i]
                             /\ info(i) = items[l].event.data
  <2>1. K[i] \in S
    BY <1>4
  <2> HIDE DEF K
  <2>2. QED
    BY <1>1, <2>1, CurrentIsAnEvent
<1> HIDE DEF A, S, R, K, V, c, info
<1>8. ASSUME NEW i \in 1..c
      PROVE  /\ IsData(items, n, "message", V[i].info)
             /\ MessageID(V[i]) = Get(V[i].info, "id") /\ MessageID(V[i]) # Absent
             /\ K[i] = <<MessageID(V[i])>>
  <2>1. PICK l \in 1..n : /\ items[l].event.type = "message" /\ OwnKey(items[l].event) = K[i]
                          /\ info(i) = items[l].event.data
    BY <1>7
  <2>2. V[i].info = items[l].event.data
    BY <1>6, <2>1
  <2>3. items[l].event \in Events
    BY DEF Shares
  <2>4. Get(V[i].info, "id") # Absent /\ K[i] = <<Get(V[i].info, "id")>>
    BY <2>1, <2>2, <2>3, MessageKeyFacts
  <2>5. MessageID(V[i]) = Get(V[i].info, "id")
    BY <2>4 DEF MessageID, Or
  <2>6. QED
    BY <2>1, <2>2, <2>4, <2>5 DEF IsData
<1>9. ASSUME NEW i \in 1..c
      PROVE  /\ \E d \in Nat : DOMAIN V[i].parts = 1..d
             /\ \A j \in DOMAIN V[i].parts : IsData(items, n, "part", V[i].parts[j])
  <2> DEFINE id == Or(Get(info(i), "id"), Empty)
             P == PartsOf(A, id)
  <2>1. V[i].parts = [j \in DOMAIN P |-> CurrentOf(A, "part", P[j])]
    BY <1>6
  <2> HIDE DEF id
  <2>2. /\ \E d \in Nat : DOMAIN P = 1..d
        /\ \A j \in DOMAIN P : IsData(items, n, "part", CurrentOf(A, "part", P[j]))
    BY PartValuesFacts DEF A
  <2> HIDE DEF P
  <2>3. QED
    BY <2>1, <2>2
<1>10. \A i, j \in 1..c : MessageID(V[i]) = MessageID(V[j]) => i = j
  BY <1>4, <1>8
<1>11. DOMAIN V = 1..c
  BY <1>4, <1>5
<1>12. Visible(items, n, V, c)
  BY <1>4, <1>8, <1>9, <1>10, <1>11 DEF Visible
<1>13. QED
  BY <1>4, <1>12 DEF V, A

LEMMA AscendingFacts ==
  ASSUME NEW d \in Nat, NEW S \in SUBSET (1..d)
  PROVE  /\ \E q \in Nat : DOMAIN Ascending(S) = 1..q
         /\ \A m \in DOMAIN Ascending(S) : Ascending(S)[m] \in S
<1> DEFINE R == {pair \in S \X S : pair[1] < pair[2]}
<1>1. \A x, y \in S : <<x, y>> \in R <=> x < y
  OBVIOUS
<1>2. \A x \in S : x \in Nat
  OBVIOUS
<1>3. Ascending(S) = Listed(S, R)
  BY DEF Ascending
<1>4. IsFiniteSet(S)
  <2>1. IsFiniteSet(1..d)
    BY FS_Interval
  <2>2. QED
    BY <2>1, FS_Subset
<1> HIDE DEF R
<1>5. Reading!StrictOrderOn(S, R)
  BY <1>1, <1>2 DEF Reading!StrictOrderOn
<1>6. /\ Cardinality(S) \in Nat /\ DOMAIN Listed(S, R) = 1..Cardinality(S)
      /\ \A m \in DOMAIN Listed(S, R) : Listed(S, R)[m] \in S
  BY <1>4, <1>5, ListedFacts
<1>7. QED
  BY <1>3, <1>6

(* The side events of a message's parts are no message events and bear no  *)
(* message's name.                                                         *)
LEMMA PartSideEventsFacts ==
  ASSUME NEW items, NEW n, Shares(items, n), NEW V, NEW c, Visible(items, n, V, c), NEW i \in 1..c
  PROVE  LET side == PartSideEvents(V[i])
         IN  /\ \E q \in Nat : DOMAIN side = 1..q
             /\ \A m \in DOMAIN side : /\ ~IsMessageEvent(side[m])
                                       /\ \A j \in 1..c : side[m].id # MessageID(V[j])
<1> DEFINE entry == V[i]
           S == {j \in DOMAIN entry.parts : SidePartKind(entry.parts[j]) # "none"}
           at == Ascending(S)
           side == PartSideEvents(entry)
           part(m) == entry.parts[at[m]]
<1>1. PICK d \in Nat : DOMAIN entry.parts = 1..d
  BY DEF Visible
<1>2. (\E q \in Nat : DOMAIN at = 1..q) /\ \A m \in DOMAIN at : at[m] \in S
  <2>1. S \in SUBSET (1..d)
    BY <1>1
  <2> HIDE DEF S
  <2>2. QED
    BY <2>1, AscendingFacts
<1>3. side = [m \in DOMAIN at |->
         [id |-> <<MessageID(entry), Or(Get(part(m), "id"), part(m).type)>>,
          kind |-> SidePartKind(part(m)), entry |-> entry,
          part |-> part(m), sourceIndexes |-> PartSourcesAt(entry, at[m])]]
  BY DEF PartSideEvents
<1>4. DOMAIN side = DOMAIN at
  BY <1>3
<1>5. ASSUME NEW m \in DOMAIN side
      PROVE  ~IsMessageEvent(side[m]) /\ \A j \in 1..c : side[m].id # MessageID(V[j])
  <2>1. at[m] \in DOMAIN entry.parts /\ SidePartKind(part(m)) # "none"
    BY <1>2, <1>4
  <2>2. IsData(items, n, "part", part(m))
    BY <2>1 DEF Visible
  <2>3. side[m].id = <<MessageID(entry), Or(Get(part(m), "id"), part(m).type)>>
        /\ side[m].kind = SidePartKind(part(m))
    <3> HIDE DEF part, at, side, entry
    <3>1. side[m] = [id |-> <<MessageID(entry), Or(Get(part(m), "id"), part(m).type)>>,
                     kind |-> SidePartKind(part(m)), entry |-> entry,
                     part |-> part(m), sourceIndexes |-> PartSourcesAt(entry, at[m])]
      BY <1>3, <1>4
    <3>2. QED
      BY <3>1
  <2> HIDE DEF part, at, side, S, entry
  <2>4. Or(Get(part(m), "id"), part(m).type) = Get(part(m), "id")
    BY <2>2, PartDataFacts DEF Or
  <2>5. ~IsMessageEvent(side[m])
    <3>1. SidePartKind(part(m)) \in {"reasoning_part", "step_start", "step_finish", "compaction_part"}
      BY <2>1 DEF SidePartKind
    <3>2. QED
      BY <2>3, <3>1 DEF IsMessageEvent
  <2>6. ASSUME NEW j \in 1..c
        PROVE  side[m].id # MessageID(V[j])
    <3>1. /\ IsData(items, n, "message", V[j].info) /\ MessageID(V[j]) = Get(V[j].info, "id")
          /\ IsData(items, n, "message", V[i].info) /\ MessageID(V[i]) = Get(V[i].info, "id")
      BY DEF Visible
    <3>2. Get(V[j].info, "id") # <<Get(V[i].info, "id"), Get(part(m), "id")>>
      BY <2>2, <3>1, NamesDiffer
    <3>3. side[m].id = <<MessageID(V[i]), Get(part(m), "id")>>
      BY <2>3, <2>4 DEF entry
    <3>4. QED
      BY <3>1, <3>2, <3>3
  <2>7. QED
    BY <2>5, <2>6
<1> HIDE DEF side, at, entry
<1>6. QED
  BY <1>2, <1>4, <1>5 DEF side, entry

-----------------------------------------------------------------------------
(* What the plan holds after k messages.                                   *)
IsPlan(plan) == DOMAIN plan = {"injected", "aside", "narrative", "sideEvents"}

Told(plan) == {plan.narrative[m].id : m \in DOMAIN plan.narrative}

AsideAt(plan) == {m \in DOMAIN plan.sideEvents : IsMessageEvent(plan.sideEvents[m])}

AsideIDs(plan) == {plan.sideEvents[m].id : m \in AsideAt(plan)}

ItemKinds == {"injected_message", "assistant_after_injection", "non_dialog_message",
              "real_user_input", "assistant_response"}

(* What can stand in the narrative or aside.                               *)
Listable(V, c) ==
  {Item(V[i], kind) : i \in 1..c, kind \in ItemKinds} \cup
  UNION {{PartSideEvents(V[i])[m] : m \in DOMAIN PartSideEvents(V[i])} : i \in 1..c}

(* The injected messages among the first k.                                *)
InjectedUpTo(V, k) == {MessageID(V[i]) : i \in {j \in 1..k : DetectInjectedMessage(V[j])}}

MayBeTold(V, i) == ~DetectInjectedMessage(V[i]) /\ ParentID(V[i]) \notin InjectedUpTo(V, i - 1)

Placed(plan, V, c, k) ==
  /\ IsPlan(plan)
  /\ plan.narrative \in Seq(Listable(V, c)) /\ plan.sideEvents \in Seq(Listable(V, c))
  /\ plan.aside = AsideIDs(plan)
  /\ IsFiniteSet(AsideAt(plan)) /\ Len(plan.narrative) + Cardinality(AsideAt(plan)) = k
  /\ Told(plan) \cup AsideIDs(plan) = {MessageID(V[i]) : i \in 1..k}
  /\ Told(plan) \cap AsideIDs(plan) = {}
  /\ \A m \in DOMAIN plan.narrative : \E i \in 1..k :
       /\ plan.narrative[m].id = MessageID(V[i]) /\ plan.narrative[m].entry = V[i]
       /\ MayBeTold(V, i)
  /\ \A m \in DOMAIN plan.sideEvents :
       m \in AsideAt(plan) \/ \A i \in 1..c : plan.sideEvents[m].id # MessageID(V[i])

LEMMA SetAsideFacts ==
  ASSUME NEW plan, IsPlan(plan), NEW X, plan.sideEvents \in Seq(X),
         NEW entry, NEW kind \in {"injected_message", "assistant_after_injection", "non_dialog_message"},
         Item(entry, kind) \in X
  PROVE  LET after == SetAside(plan, entry, kind)
             at == Len(plan.sideEvents) + 1
         IN  /\ IsPlan(after) /\ after.narrative = plan.narrative /\ after.injected = plan.injected
             /\ after.aside = plan.aside \cup {MessageID(entry)}
             /\ after.sideEvents \in Seq(X) /\ DOMAIN after.sideEvents = DOMAIN plan.sideEvents \cup {at}
             /\ \A m \in DOMAIN plan.sideEvents : after.sideEvents[m] = plan.sideEvents[m]
             /\ AsideAt(after) = AsideAt(plan) \cup {at} /\ at \notin AsideAt(plan)
             /\ AsideIDs(after) = AsideIDs(plan) \cup {MessageID(entry)}
<1> DEFINE after == SetAside(plan, entry, kind)
           at == Len(plan.sideEvents) + 1
           item == Item(entry, kind)
           s == plan.sideEvents
           s2 == after.sideEvents
<1>1. /\ IsPlan(after) /\ after.narrative = plan.narrative /\ after.injected = plan.injected
      /\ after.aside = plan.aside \cup {MessageID(entry)}
      /\ s2 = Append(s, item)
  BY DEF SetAside, IsPlan
<1>2. item.id = MessageID(entry) /\ IsMessageEvent(item)
  BY DEF Item, IsMessageEvent
<1> HIDE DEF after, item
<1>3. /\ s2 \in Seq(X) /\ DOMAIN s2 = DOMAIN s \cup {at} /\ at \notin DOMAIN s
      /\ \A m \in DOMAIN s : s2[m] = s[m]
      /\ s2[at] = item
  <2>1. s \in Seq(X) /\ item \in X
    BY DEF item
  <2> HIDE DEF s
  <2>2. QED
    BY <1>1, <2>1 DEF s
<1> HIDE DEF at, s, s2
<1>4. AsideAt(after) = AsideAt(plan) \cup {at} /\ at \notin AsideAt(plan)
  BY <1>2, <1>3 DEF AsideAt, s, s2
<1>5. AsideAt(plan) \subseteq DOMAIN s
  BY DEF AsideAt, s
<1>6. AsideIDs(after) = AsideIDs(plan) \cup {MessageID(entry)}
  BY <1>2, <1>3, <1>4, <1>5 DEF AsideIDs, s, s2
<1>7. QED
  BY <1>1, <1>3, <1>4, <1>6 DEF after, at, s, s2

LEMMA NarrateFacts ==
  ASSUME NEW plan, IsPlan(plan), NEW X, plan.narrative \in Seq(X), plan.sideEvents \in Seq(X),
         NEW entry, NEW kind, Item(entry, kind) \in X, PartSideEvents(entry) \in Seq(X),
         \A m \in DOMAIN PartSideEvents(entry) : ~IsMessageEvent(PartSideEvents(entry)[m])
  PROVE  LET after == Narrate(plan, entry, kind)
             at == Len(plan.narrative) + 1
         IN  /\ IsPlan(after) /\ after.aside = plan.aside /\ after.injected = plan.injected
             /\ after.narrative \in Seq(X) /\ Len(after.narrative) = at
             /\ DOMAIN after.narrative = DOMAIN plan.narrative \cup {at}
             /\ \A m \in DOMAIN plan.narrative : after.narrative[m] = plan.narrative[m]
             /\ after.narrative[at].id = MessageID(entry) /\ after.narrative[at].entry = entry
             /\ Told(after) = Told(plan) \cup {MessageID(entry)}
             /\ after.sideEvents \in Seq(X)
             /\ \A m \in DOMAIN after.sideEvents :
                  \/ m \in DOMAIN plan.sideEvents /\ after.sideEvents[m] = plan.sideEvents[m]
                  \/ \E e \in DOMAIN PartSideEvents(entry) : after.sideEvents[m] = PartSideEvents(entry)[e]
             /\ AsideAt(after) = AsideAt(plan) /\ AsideIDs(after) = AsideIDs(plan)
<1> DEFINE after == Narrate(plan, entry, kind)
           at == Len(plan.narrative) + 1
           item == Item(entry, kind)
           t == plan.narrative
           t2 == after.narrative
           s == plan.sideEvents
           s2 == after.sideEvents
           side == PartSideEvents(entry)
<1>1. /\ IsPlan(after) /\ after.aside = plan.aside /\ after.injected = plan.injected
      /\ t2 = Append(t, item) /\ s2 = s \o side
  BY DEF Narrate, IsPlan
<1>2. item.id = MessageID(entry) /\ item.entry = entry
  BY DEF Item
<1> HIDE DEF after, item, side
<1>3. /\ t2 \in Seq(X) /\ Len(t2) = at /\ DOMAIN t2 = DOMAIN t \cup {at} /\ at \notin DOMAIN t
      /\ \A m \in DOMAIN t : t2[m] = t[m]
      /\ t2[at] = item
  <2>1. t \in Seq(X) /\ item \in X
    BY DEF item
  <2> HIDE DEF t
  <2>2. QED
    BY <1>1, <2>1 DEF t
<1>4. /\ s2 \in Seq(X) /\ DOMAIN s \subseteq DOMAIN s2
      /\ \A m \in DOMAIN s : s2[m] = s[m]
      /\ \A m \in (DOMAIN s2) \ DOMAIN s : \E e \in DOMAIN side : s2[m] = side[e]
  <2>1. s \in Seq(X) /\ side \in Seq(X)
    BY DEF side
  <2> HIDE DEF s, s2
  <2>2. s2 \in Seq(X) /\ Len(s2) = Len(s) + Len(side)
    BY <1>1, <2>1 DEF s2
  <2>3. \A m \in 1..Len(s) : s2[m] = s[m]
    BY <1>1, <2>1 DEF s2
  <2>4. \A m \in 1..Len(s2) : m > Len(s) => m - Len(s) \in 1..Len(side) /\ s2[m] = side[m - Len(s)]
    BY <1>1, <2>1, <2>2 DEF s2
  <2>5. DOMAIN s = 1..Len(s) /\ DOMAIN s2 = 1..Len(s2) /\ DOMAIN side = 1..Len(side)
    BY <2>1, <2>2
  <2>6. Len(s) \in Nat /\ Len(side) \in Nat
    BY <2>1
  <2>7. ASSUME NEW m \in (DOMAIN s2) \ DOMAIN s
        PROVE  \E e \in DOMAIN side : s2[m] = side[e]
    <3>1. m \in 1..Len(s2) /\ m > Len(s)
      BY <2>2, <2>5, <2>6
    <3>2. QED
      BY <2>4, <2>5, <3>1
  <2>8. QED
    BY <2>2, <2>3, <2>5, <2>6, <2>7
<1>5. \A e \in DOMAIN side : ~IsMessageEvent(side[e])
  BY DEF side
<1> HIDE DEF at, t, t2, s, s2
<1>6. Told(after) = Told(plan) \cup {MessageID(entry)}
  BY <1>2, <1>3 DEF Told, t, t2
<1>7. AsideAt(after) = AsideAt(plan)
  BY <1>4, <1>5 DEF AsideAt, s, s2
<1>8. AsideAt(plan) \subseteq DOMAIN s
  BY DEF AsideAt, s
<1>9. AsideIDs(after) = AsideIDs(plan)
  BY <1>4, <1>7, <1>8 DEF AsideIDs, s, s2
<1>10. \A m \in DOMAIN s2 : \/ m \in DOMAIN s /\ s2[m] = s[m]
                            \/ \E e \in DOMAIN side : s2[m] = side[e]
  BY <1>4
<1>11. QED
  BY <1>1, <1>2, <1>3, <1>4, <1>6, <1>7, <1>9, <1>10 DEF after, at, t, t2, s, s2, side

LEMMA ListableFacts ==
  ASSUME NEW items, NEW n, Shares(items, n), NEW V, NEW c, Visible(items, n, V, c), NEW k \in 1..c
  PROVE  /\ \A kind \in ItemKinds : Item(V[k], kind) \in Listable(V, c)
         /\ PartSideEvents(V[k]) \in Seq(Listable(V, c))
<1> DEFINE side == PartSideEvents(V[k])
<1>1. \A kind \in ItemKinds : Item(V[k], kind) \in Listable(V, c)
  BY DEF Listable
<1>2. \A m \in DOMAIN side : side[m] \in Listable(V, c)
  BY DEF Listable
<1>3. PICK q \in Nat : DOMAIN side = 1..q
  BY PartSideEventsFacts
<1>4. side = [m \in 1..q |-> side[m]]
  <2>1. side = [m \in DOMAIN side |-> side[m]]
    BY DEF PartSideEvents
  <2>2. QED
    BY <1>3, <2>1
<1> HIDE DEF side
<1>5. side \in Seq(Listable(V, c))
  BY <1>2, <1>3, <1>4
<1>6. QED
  BY <1>1, <1>5 DEF side

LEMMA PlacedIDs ==
  ASSUME NEW items, NEW n, NEW V, NEW c, Visible(items, n, V, c), NEW k \in 1..c
  PROVE  /\ {MessageID(V[i]) : i \in 1..k} = {MessageID(V[i]) : i \in 1..(k - 1)} \cup {MessageID(V[k])}
         /\ MessageID(V[k]) \notin {MessageID(V[i]) : i \in 1..(k - 1)}
         /\ InjectedUpTo(V, k) = InjectedUpTo(V, k - 1) \cup
              (IF DetectInjectedMessage(V[k]) THEN {MessageID(V[k])} ELSE {})
<1>1. c \in Nat /\ k \in Nat
  BY DEF Visible
<1>2. 1..k = 1..(k - 1) \cup {k} /\ 1..(k - 1) \subseteq 1..c /\ k \notin 1..(k - 1)
  BY <1>1
<1>3. \A i \in 1..c : MessageID(V[i]) = MessageID(V[k]) => i = k
  BY DEF Visible
<1>4. InjectedUpTo(V, k) = InjectedUpTo(V, k - 1) \cup
        (IF DetectInjectedMessage(V[k]) THEN {MessageID(V[k])} ELSE {})
  BY <1>2 DEF InjectedUpTo
<1>5. QED
  BY <1>2, <1>3, <1>4

LEMMA PlacedAside ==
  ASSUME NEW items, NEW n, Shares(items, n), NEW V, NEW c, Visible(items, n, V, c), NEW k \in 1..c,
         NEW plan, Placed(plan, V, c, k - 1),
         NEW kind \in {"injected_message", "assistant_after_injection", "non_dialog_message"}
  PROVE  /\ Placed(SetAside(plan, V[k], kind), V, c, k)
         /\ SetAside(plan, V[k], kind).injected = plan.injected
<1> DEFINE after == SetAside(plan, V[k], kind)
           at == Len(plan.sideEvents) + 1
           id == MessageID(V[k])
           X == Listable(V, c)
<1>1. Item(V[k], kind) \in X
  BY ListableFacts DEF ItemKinds
<1>2. IsPlan(plan) /\ plan.sideEvents \in Seq(X)
  BY DEF Placed
<1>3. /\ IsPlan(after) /\ after.narrative = plan.narrative /\ after.injected = plan.injected
      /\ after.aside = plan.aside \cup {id}
      /\ after.sideEvents \in Seq(X) /\ DOMAIN after.sideEvents = DOMAIN plan.sideEvents \cup {at}
      /\ \A m \in DOMAIN plan.sideEvents : after.sideEvents[m] = plan.sideEvents[m]
      /\ AsideAt(after) = AsideAt(plan) \cup {at} /\ at \notin AsideAt(plan)
      /\ AsideIDs(after) = AsideIDs(plan) \cup {id}
  BY <1>1, <1>2, SetAsideFacts
<1> HIDE DEF after, at, id, X
<1>4. c \in Nat /\ k \in Nat
  BY DEF Visible
<1>5. /\ IsFiniteSet(AsideAt(plan)) /\ Len(plan.narrative) + Cardinality(AsideAt(plan)) = k - 1
      /\ Told(plan) \cup AsideIDs(plan) = {MessageID(V[i]) : i \in 1..(k - 1)}
      /\ Told(plan) \cap AsideIDs(plan) = {} /\ plan.aside = AsideIDs(plan)
      /\ plan.narrative \in Seq(X)
  BY DEF Placed, X
<1>6. IsFiniteSet(AsideAt(after)) /\ Cardinality(AsideAt(after)) = Cardinality(AsideAt(plan)) + 1
  BY <1>3, <1>5, FS_AddElement
<1>7. Len(after.narrative) + Cardinality(AsideAt(after)) = k
  <2>1. Cardinality(AsideAt(plan)) \in Nat /\ Len(plan.narrative) \in Nat
    BY <1>5, FS_CardinalityType
  <2>2. QED
    BY <1>3, <1>4, <1>5, <1>6, <2>1
<1>8. Told(after) = Told(plan)
  BY <1>3 DEF Told
<1>9. /\ {MessageID(V[i]) : i \in 1..k} = {MessageID(V[i]) : i \in 1..(k - 1)} \cup {id}
      /\ id \notin {MessageID(V[i]) : i \in 1..(k - 1)}
  BY PlacedIDs DEF id
<1>10. /\ Told(after) \cup AsideIDs(after) = {MessageID(V[i]) : i \in 1..k}
       /\ Told(after) \cap AsideIDs(after) = {} /\ after.aside = AsideIDs(after)
  BY <1>3, <1>5, <1>8, <1>9
<1>11. \A m \in DOMAIN after.narrative : \E i \in 1..k :
         /\ after.narrative[m].id = MessageID(V[i]) /\ after.narrative[m].entry = V[i]
         /\ MayBeTold(V, i)
  <2>1. \A m \in DOMAIN plan.narrative : \E i \in 1..(k - 1) :
          /\ plan.narrative[m].id = MessageID(V[i]) /\ plan.narrative[m].entry = V[i]
          /\ MayBeTold(V, i)
    BY DEF Placed
  <2>2. \A i \in 1..(k - 1) : i \in 1..k
    BY <1>4
  <2>3. QED
    BY <1>3, <2>1, <2>2
<1>12. \A m \in DOMAIN after.sideEvents :
         m \in AsideAt(after) \/ \A i \in 1..c : after.sideEvents[m].id # MessageID(V[i])
  <2>1. \A m \in DOMAIN plan.sideEvents :
          m \in AsideAt(plan) \/ \A i \in 1..c : plan.sideEvents[m].id # MessageID(V[i])
    BY DEF Placed
  <2>2. QED
    BY <1>3, <2>1
<1>13. Placed(after, V, c, k)
  BY <1>3, <1>5, <1>6, <1>7, <1>10, <1>11, <1>12 DEF Placed, X
<1>14. QED
  BY <1>3, <1>13 DEF after

LEMMA PlacedNarrated ==
  ASSUME NEW items, NEW n, Shares(items, n), NEW V, NEW c, Visible(items, n, V, c), NEW k \in 1..c,
         NEW plan, Placed(plan, V, c, k - 1), MayBeTold(V, k),
         NEW kind \in {"real_user_input", "assistant_response"}
  PROVE  /\ Placed(Narrate(plan, V[k], kind), V, c, k)
         /\ Narrate(plan, V[k], kind).injected = plan.injected
<1> DEFINE after == Narrate(plan, V[k], kind)
           at == Len(plan.narrative) + 1
           id == MessageID(V[k])
           X == Listable(V, c)
           side == PartSideEvents(V[k])
<1>1. Item(V[k], kind) \in X /\ side \in Seq(X)
  BY ListableFacts DEF ItemKinds
<1>2. IsPlan(plan) /\ plan.sideEvents \in Seq(X) /\ plan.narrative \in Seq(X)
  BY DEF Placed
<1>3. \A m \in DOMAIN side : ~IsMessageEvent(side[m]) /\ \A j \in 1..c : side[m].id # MessageID(V[j])
  BY PartSideEventsFacts
<1>4. /\ IsPlan(after) /\ after.aside = plan.aside /\ after.injected = plan.injected
      /\ after.narrative \in Seq(X) /\ Len(after.narrative) = at
      /\ DOMAIN after.narrative = DOMAIN plan.narrative \cup {at}
      /\ \A m \in DOMAIN plan.narrative : after.narrative[m] = plan.narrative[m]
      /\ after.narrative[at].id = id /\ after.narrative[at].entry = V[k]
      /\ Told(after) = Told(plan) \cup {id}
      /\ after.sideEvents \in Seq(X)
      /\ \A m \in DOMAIN after.sideEvents :
           \/ m \in DOMAIN plan.sideEvents /\ after.sideEvents[m] = plan.sideEvents[m]
           \/ \E e \in DOMAIN side : after.sideEvents[m] = side[e]
      /\ AsideAt(after) = AsideAt(plan) /\ AsideIDs(after) = AsideIDs(plan)
  BY <1>1, <1>2, <1>3, NarrateFacts
<1> HIDE DEF after, at, id, X, side
<1>5. c \in Nat /\ k \in Nat
  BY DEF Visible
<1>6. /\ IsFiniteSet(AsideAt(plan)) /\ Len(plan.narrative) + Cardinality(AsideAt(plan)) = k - 1
      /\ Told(plan) \cup AsideIDs(plan) = {MessageID(V[i]) : i \in 1..(k - 1)}
      /\ Told(plan) \cap AsideIDs(plan) = {} /\ plan.aside = AsideIDs(plan)
  BY DEF Placed
<1>7. Len(after.narrative) + Cardinality(AsideAt(after)) = k
  <2>1. Cardinality(AsideAt(plan)) \in Nat /\ Len(plan.narrative) \in Nat
    BY <1>2, <1>6, FS_CardinalityType
  <2>2. Len(after.narrative) = Len(plan.narrative) + 1
    BY <1>4 DEF at
  <2>3. Cardinality(AsideAt(after)) = Cardinality(AsideAt(plan))
    BY <1>4
  <2>4. Len(plan.narrative) + Cardinality(AsideAt(plan)) = k - 1
    BY <1>6
  <2>5. QED
    BY <1>5, <2>1, <2>2, <2>3, <2>4
<1>8. /\ {MessageID(V[i]) : i \in 1..k} = {MessageID(V[i]) : i \in 1..(k - 1)} \cup {id}
      /\ id \notin {MessageID(V[i]) : i \in 1..(k - 1)}
  BY PlacedIDs DEF id
<1>9. /\ Told(after) \cup AsideIDs(after) = {MessageID(V[i]) : i \in 1..k}
      /\ Told(after) \cap AsideIDs(after) = {} /\ after.aside = AsideIDs(after)
  <2> DEFINE W == {MessageID(V[i]) : i \in 1..(k - 1)}
             W2 == {MessageID(V[i]) : i \in 1..k}
  <2>1. W2 = W \cup {id} /\ id \notin W
    BY <1>8
  <2>2. Told(plan) \cup AsideIDs(plan) = W /\ Told(plan) \cap AsideIDs(plan) = {}
    BY <1>6
  <2>3. after.aside = AsideIDs(after)
    BY <1>4, <1>6
  <2>4. Told(after) = Told(plan) \cup {id} /\ AsideIDs(after) = AsideIDs(plan)
    BY <1>4
  <2> HIDE DEF W, W2
  <2>5. Told(after) \cup AsideIDs(after) = W2 /\ Told(after) \cap AsideIDs(after) = {}
    BY <2>1, <2>2, <2>4
  <2>6. QED
    BY <2>3, <2>5 DEF W2
<1>10. \A m \in DOMAIN after.narrative : \E i \in 1..k :
         /\ after.narrative[m].id = MessageID(V[i]) /\ after.narrative[m].entry = V[i]
         /\ MayBeTold(V, i)
  <2>1. \A m \in DOMAIN plan.narrative : \E i \in 1..(k - 1) :
          /\ plan.narrative[m].id = MessageID(V[i]) /\ plan.narrative[m].entry = V[i]
          /\ MayBeTold(V, i)
    BY DEF Placed
  <2>2. (\A i \in 1..(k - 1) : i \in 1..k) /\ k \in 1..k
    BY <1>5
  <2>3. QED
    BY <1>4, <2>1, <2>2 DEF id
<1>11. \A m \in DOMAIN after.sideEvents :
         m \in AsideAt(after) \/ \A i \in 1..c : after.sideEvents[m].id # MessageID(V[i])
  <2>1. \A m \in DOMAIN plan.sideEvents :
          m \in AsideAt(plan) \/ \A i \in 1..c : plan.sideEvents[m].id # MessageID(V[i])
    BY DEF Placed
  <2>2. QED
    BY <1>3, <1>4, <2>1
<1>12. Placed(after, V, c, k)
  BY <1>4, <1>6, <1>7, <1>9, <1>10, <1>11 DEF Placed, X
<1>13. QED
  BY <1>4, <1>12 DEF after

LEMMA PlanStep ==
  ASSUME NEW items, NEW n, Shares(items, n), NEW V, NEW c, Visible(items, n, V, c), NEW k \in 1..c,
         NEW plan, Placed(plan, V, c, k - 1), plan.injected = InjectedUpTo(V, k - 1)
  PROVE  LET after == PlanMessage(plan, V[k])
         IN  Placed(after, V, c, k) /\ after.injected = InjectedUpTo(V, k)
<1> DEFINE entry == V[k]
           marked == [plan EXCEPT !.injected = @ \cup {MessageID(entry)}]
           role == Get(entry.info, "role")
<1>1. InjectedUpTo(V, k) = InjectedUpTo(V, k - 1) \cup
        (IF DetectInjectedMessage(entry) THEN {MessageID(entry)} ELSE {})
  BY PlacedIDs
<1>2. CASE DetectInjectedMessage(entry)
  <2>1. IsPlan(plan)
    BY DEF Placed
  <2>2. /\ IsPlan(marked) /\ marked.injected = plan.injected \cup {MessageID(entry)}
        /\ marked.aside = plan.aside /\ marked.narrative = plan.narrative
        /\ marked.sideEvents = plan.sideEvents
    BY <2>1 DEF IsPlan
  <2>3. PlanMessage(plan, entry) = SetAside(marked, entry, "injected_message")
    BY <1>2 DEF PlanMessage
  <2> HIDE DEF marked
  <2>4. Told(marked) = Told(plan) /\ AsideAt(marked) = AsideAt(plan)
    BY <2>2 DEF Told, AsideAt
  <2>5. AsideIDs(marked) = AsideIDs(plan)
    BY <2>2, <2>4 DEF AsideIDs
  <2>6. Placed(marked, V, c, k - 1)
    BY <2>2, <2>4, <2>5 DEF Placed
  <2> HIDE DEF entry
  <2>7. /\ Placed(SetAside(marked, entry, "injected_message"), V, c, k)
        /\ SetAside(marked, entry, "injected_message").injected = marked.injected
    BY <2>6, PlacedAside DEF entry
  <2>8. QED
    BY <1>1, <1>2, <2>2, <2>3, <2>7 DEF entry
<1>3. CASE ~DetectInjectedMessage(entry) /\ ParentID(entry) \in plan.injected
  <2>1. PlanMessage(plan, entry) = SetAside(plan, entry, "assistant_after_injection")
    BY <1>3 DEF PlanMessage
  <2>2. /\ Placed(SetAside(plan, entry, "assistant_after_injection"), V, c, k)
        /\ SetAside(plan, entry, "assistant_after_injection").injected = plan.injected
    BY PlacedAside
  <2>3. QED
    BY <1>1, <1>3, <2>1, <2>2
<1>4. CASE ~DetectInjectedMessage(entry) /\ ParentID(entry) \notin plan.injected
  <2>1. MayBeTold(V, k)
    BY <1>4 DEF MayBeTold
  <2>2. \A kind \in {"real_user_input", "assistant_response"} :
          /\ Placed(Narrate(plan, entry, kind), V, c, k)
          /\ Narrate(plan, entry, kind).injected = plan.injected
    BY <2>1, PlacedNarrated
  <2>3. /\ Placed(SetAside(plan, entry, "non_dialog_message"), V, c, k)
        /\ SetAside(plan, entry, "non_dialog_message").injected = plan.injected
    BY PlacedAside
  <2>4. PlanMessage(plan, entry) \in {Narrate(plan, entry, "real_user_input"),
          Narrate(plan, entry, "assistant_response"), SetAside(plan, entry, "non_dialog_message")}
    BY <1>4 DEF PlanMessage
  <2> HIDE DEF entry
  <2>5. QED
    BY <1>1, <1>4, <2>2, <2>3, <2>4 DEF entry
<1>5. QED
  BY <1>2, <1>3, <1>4

LEMMA PlanHolds ==
  ASSUME NEW items, NEW n, Shares(items, n), n <= MaxEvents
  PROVE  \E c \in Nat : LET V == VisibleMessages(Latest(items))
                            plan == Plan(Latest(items))
                        IN  /\ Visible(items, n, V, c)
                            /\ Placed(plan, V, c, c) /\ plan.injected = InjectedUpTo(V, c)
<1> DEFINE V == VisibleMessages(Latest(items))
<1>1. PICK c \in Nat : Visible(items, n, V, c)
  BY VisibleFacts
<1>2. DOMAIN V = 1..c
  BY <1>1 DEF Visible
<1>3. PICK P : /\ P[0] = EmptyPlan
               /\ \A i \in 1..c : P[i] = PlanMessage(P[i - 1], V[i])
               /\ Plan(Latest(items)) = P[c]
  BY <1>2, PlanIsLoop
<1> HIDE DEF V
<1> DEFINE T == {k \in 0..c : Placed(P[k], V, c, k) /\ P[k].injected = InjectedUpTo(V, k)}
<1>4. 0 \in T
  <2>1. /\ DOMAIN P[0] = {"injected", "aside", "narrative", "sideEvents"}
        /\ P[0].injected = {} /\ P[0].aside = {} /\ P[0].narrative = <<>> /\ P[0].sideEvents = <<>>
    BY <1>3 DEF EmptyPlan
  <2>2. 1..0 = {} /\ Len(<<>>) = 0 /\ DOMAIN <<>> = {}
    OBVIOUS
  <2>3. AsideAt(P[0]) = {} /\ Told(P[0]) = {}
    BY <2>1, <2>2 DEF AsideAt, Told
  <2>4. AsideIDs(P[0]) = {}
    BY <2>3 DEF AsideIDs
  <2>5. IsFiniteSet({}) /\ Cardinality({}) = 0
    BY FS_EmptySet
  <2>6. {MessageID(V[i]) : i \in 1..0} = {} /\ InjectedUpTo(V, 0) = {}
    BY <2>2 DEF InjectedUpTo
  <2>7. <<>> \in Seq(Listable(V, c))
    OBVIOUS
  <2>8. Len(P[0].narrative) + Cardinality(AsideAt(P[0])) = 0
    BY <2>1, <2>2, <2>3, <2>5
  <2>9. DOMAIN P[0].narrative = {} /\ DOMAIN P[0].sideEvents = {}
    BY <2>1, <2>2
  <2>10. Placed(P[0], V, c, 0)
    BY <2>1, <2>3, <2>4, <2>5, <2>6, <2>7, <2>8, <2>9 DEF Placed, IsPlan
  <2>11. 0 \in 0..c
    OBVIOUS
  <2>12. P[0].injected = InjectedUpTo(V, 0)
    BY <2>1, <2>6
  <2>13. QED
    BY <2>10, <2>11, <2>12
<1>5. ASSUME NEW k \in 1..c, k - 1 \in T
      PROVE  k \in T
  <2>1. Placed(P[k - 1], V, c, k - 1) /\ P[k - 1].injected = InjectedUpTo(V, k - 1)
    BY <1>5
  <2>2. P[k] = PlanMessage(P[k - 1], V[k])
    BY <1>3
  <2>3. /\ Placed(PlanMessage(P[k - 1], V[k]), V, c, k)
        /\ PlanMessage(P[k - 1], V[k]).injected = InjectedUpTo(V, k)
    BY <1>1, <2>1, PlanStep
  <2>4. QED
    BY <2>2, <2>3
<1> HIDE DEF T
<1>6. \A k \in 0..c : k \in T
  BY <1>4, <1>5, Reading!LoopInduction
<1>7. Placed(P[c], V, c, c) /\ P[c].injected = InjectedUpTo(V, c)
  BY <1>6 DEF T
<1>8. QED
  BY <1>1, <1>3, <1>7 DEF V

-----------------------------------------------------------------------------
(* What the plan of the share as it is now holds: every message once, in   *)
(* the narrative or aside.                                                 *)
LEMMA PlanNowHolds ==
  ASSUME SessionInv
  PROVE  \E c \in Nat : LET V == VisibleMessages(Latest(log))
                        IN  /\ Visible(log, Len(log), V, c)
                            /\ Placed(PlanNow, V, c, c) /\ PlanNow.injected = InjectedUpTo(V, c)
<1>1. Shares(log, Len(log)) /\ Len(log) <= MaxEvents
  BY UnkeyedShares DEF SessionInv, Parallel
<1>2. QED
  BY <1>1, PlanHolds DEF PlanNow

LEMMA MessagesPlacedFollows == SessionInv => MessagesPlacedOnce
<1>1. SUFFICES ASSUME SessionInv PROVE MessagesPlacedOnce
  OBVIOUS
<1> DEFINE V == VisibleMessages(Latest(log))
<1>2. PICK c \in Nat : Visible(log, Len(log), V, c) /\ Placed(PlanNow, V, c, c)
  BY <1>1, PlanNowHolds
<1>3. V = [i \in DOMAIN V |-> V[i]]
  BY DEF VisibleMessages
<1> HIDE DEF V
<1>4. DOMAIN V = 1..c
  BY <1>2 DEF Visible
<1>5. Len(V) = c
  BY <1>3, <1>4
<1>6. /\ Len(PlanNow.narrative) + Cardinality(AsideAt(PlanNow)) = c
      /\ Told(PlanNow) \cup AsideIDs(PlanNow) = {MessageID(V[i]) : i \in DOMAIN V}
  BY <1>2, <1>4 DEF Placed
<1>7. QED
  BY <1>5, <1>6 DEF MessagesPlacedOnce, Narrated, Told, AsideAt, AsideIDs, V

(* Whatever the loop of buildOpenCodeReaderPlan meets, it shows each message *)
(* exactly once, in the narrative or aside.                                *)
THEOREM MessagesPlacedOnceHolds == Spec => []MessagesPlacedOnce
BY SessionInvHolds, MessagesPlacedFollows, PTL

LEMMA OrderedAnswersFollows == SessionInv => OrderedAnswersStayAside
<1>1. SUFFICES ASSUME SessionInv, QuestionsComeFirst PROVE AnswersToInjectedStayAside
  BY DEF OrderedAnswersStayAside
<1> DEFINE V == VisibleMessages(Latest(log))
<1>2. PICK c \in Nat : Visible(log, Len(log), V, c) /\ Placed(PlanNow, V, c, c)
  BY <1>1, PlanNowHolds
<1>3. DOMAIN V = 1..c
  BY <1>2 DEF Visible
<1>4. InjectedMessages = {MessageID(V[i]) : i \in {j \in 1..c : DetectInjectedMessage(V[j])}}
  BY <1>3 DEF InjectedMessages, DetectInjectedMessage
<1>5. \A i, j \in 1..c : ParentID(V[i]) = MessageID(V[j]) => j < i
  BY <1>1, <1>3 DEF QuestionsComeFirst
<1> HIDE DEF V
<1>6. ASSUME NEW m \in DOMAIN PlanNow.narrative
      PROVE  /\ PlanNow.narrative[m].id \notin InjectedMessages
             /\ ParentID(PlanNow.narrative[m].entry) \notin InjectedMessages
  <2>1. PICK i \in 1..c : /\ PlanNow.narrative[m].id = MessageID(V[i]) /\ PlanNow.narrative[m].entry = V[i]
                          /\ MayBeTold(V, i)
    BY <1>2 DEF Placed
  <2>2. MessageID(V[i]) \notin InjectedMessages
    <3>1. SUFFICES ASSUME NEW j \in 1..c, DetectInjectedMessage(V[j]), MessageID(V[i]) = MessageID(V[j])
                   PROVE  FALSE
      BY <1>4
    <3>2. i = j
      BY <1>2, <3>1 DEF Visible
    <3>3. QED
      BY <2>1, <3>1, <3>2 DEF MayBeTold
  <2>3. ParentID(V[i]) \notin InjectedMessages
    <3>1. SUFFICES ASSUME NEW j \in 1..c, DetectInjectedMessage(V[j]), ParentID(V[i]) = MessageID(V[j])
                   PROVE  FALSE
      BY <1>4
    <3>2. j \in 1..(i - 1)
      <4>1. j < i
        BY <1>5, <3>1
      <4>2. QED
        BY <4>1
    <3>3. ParentID(V[i]) \in InjectedUpTo(V, i - 1)
      BY <3>1, <3>2 DEF InjectedUpTo
    <3>4. QED
      BY <2>1, <3>3 DEF MayBeTold
  <2>4. QED
    BY <2>1, <2>2, <2>3
<1>7. QED
  BY <1>6 DEF AnswersToInjectedStayAside

(* In a page that shows questions before their answers,                    *)
(* buildOpenCodeReaderPlan narrates neither an injected message nor an answer *)
(* to one.                                                                 *)
THEOREM OrderedAnswersStayAsideHolds == Spec => []OrderedAnswersStayAside
BY SessionInvHolds, OrderedAnswersFollows, PTL

LEMMA ToolRunsFollow == SessionInv => ToolRunsFollowMessages
<1>1. SUFFICES ASSUME SessionInv PROVE ToolRunsFollowMessages
  OBVIOUS
<1> DEFINE A == Latest(log)
           V == VisibleMessages(A)
           runs == ToolRuns(A)
           side == PlanNow.sideEvents
<1>2. PICK c \in Nat : Visible(log, Len(log), V, c) /\ Placed(PlanNow, V, c, c)
  BY <1>1, PlanNowHolds
<1>3. DOMAIN V = 1..c
  BY <1>2 DEF Visible
<1>4. ASSUME NEW i \in DOMAIN runs
      PROVE  LET id == Get(runs[i].part, "messageID")
             IN  /\ runs[i].narrativeMessageID = (IF id \in PlanNow.aside THEN Absent ELSE id)
                 /\ runs[i].sideEventID = (IF id \in PlanNow.aside THEN id ELSE Absent)
  <2> DEFINE keys == Listed({key \in DOMAIN A["part"] : IsToolPart(CurrentOf(A, "part", key))},
                            AddedBefore(A, "part"))
  <2>1. runs = [k \in DOMAIN keys |-> ToolRun(A, PlanNow, keys[k])]
    BY DEF ToolRuns, ToolRunsOf, PlanNow
  <2> HIDE DEF keys, runs, A
  <2>2. runs[i] = ToolRun(A, PlanNow, keys[i])
    BY <2>1
  <2>3. QED
    BY <2>2 DEF ToolRun
<1>5. ASSUME NEW j \in 1..c
      PROVE  /\ MessageID(V[j]) # Absent
             /\ MessageID(V[j]) \notin PlanNow.aside <=> MessageID(V[j]) \in Narrated
             /\ MessageID(V[j]) \in PlanNow.aside <=> \E m \in DOMAIN side : side[m].id = MessageID(V[j])
  <2>1. MessageID(V[j]) # Absent
    BY <1>2 DEF Visible
  <2>2. /\ PlanNow.aside = AsideIDs(PlanNow)
        /\ Told(PlanNow) \cup AsideIDs(PlanNow) = {MessageID(V[i]) : i \in 1..c}
        /\ Told(PlanNow) \cap AsideIDs(PlanNow) = {}
        /\ \A m \in DOMAIN side : m \in AsideAt(PlanNow) \/ \A i \in 1..c : side[m].id # MessageID(V[i])
    BY <1>2 DEF Placed
  <2>3. Told(PlanNow) = Narrated
    BY DEF Told, Narrated
  <2> HIDE DEF V
  <2>4. MessageID(V[j]) \notin PlanNow.aside <=> MessageID(V[j]) \in Narrated
    BY <2>2, <2>3
  <2>5. AsideIDs(PlanNow) = {side[m].id : m \in AsideAt(PlanNow)} /\ AsideAt(PlanNow) \subseteq DOMAIN side
    BY DEF AsideIDs, AsideAt
  <2> HIDE DEF side
  <2>6. MessageID(V[j]) \in PlanNow.aside <=> \E m \in DOMAIN side : side[m].id = MessageID(V[j])
    BY <2>2, <2>5
  <2>7. QED
    BY <2>1, <2>4, <2>6
<1> HIDE DEF runs
<1>6. ASSUME NEW i \in DOMAIN runs, NEW j \in DOMAIN V, Get(runs[i].part, "messageID") = MessageID(V[j])
      PROVE  /\ runs[i].narrativeMessageID # Absent <=> MessageID(V[j]) \in Narrated
             /\ runs[i].sideEventID # Absent <=> \E m \in DOMAIN side : side[m].id = MessageID(V[j])
  <2> HIDE DEF V, side
  <2>1. QED
    BY <1>3, <1>4, <1>5, <1>6
<1>7. QED
  BY <1>6 DEF ToolRunsFollowMessages, runs

(* A tool run of the plan points where its message is shown, whatever order *)
(* parts, messages and the marks of an injection arrive in.                *)
THEOREM ToolRunsFollowMessagesHolds == Spec => []ToolRunsFollowMessages
BY SessionInvHolds, ToolRunsFollow, PTL
=============================================================================
