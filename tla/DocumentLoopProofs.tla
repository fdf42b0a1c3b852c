------------------------- MODULE DocumentLoopProofs -------------------------
(***************************************************************************)
(* Proofs about the loops that read a share's events and about everything  *)
(* the page derives from them.  In this order: merging never makes an      *)
(* entity poorer, the two passes agree, where versions come from; the      *)
(* graph and the changed files; the messages and their parts, the turns;   *)
(* the reader plan, the lists and sections and their numbers; the cards    *)
(* and what is rendered; the sources and where they lead.                  *)
(***************************************************************************)
EXTENDS DocumentViews, FoldFacts

-----------------------------------------------------------------------------
(* m is at least as rich as w in every one of compareRichness's checks.    *)
Dominates(m, w) ==
  /\ HasCompletedTime(w) => HasCompletedTime(m)
  /\ HasOutput(w) => HasOutput(m)
  /\ Number(w, "updated") <= Number(m, "updated")
  /\ Number(w, "end") <= Number(m, "end")
  /\ Cardinality(MeaningfulKeys(w)) <= Cardinality(MeaningfulKeys(m))

(* deepMerge of two JSON objects is a JSON object.                         *)
LEMMA MergeIsObject ==
  ASSUME NEW base, NEW override, IsObject(base), IsObject(override)
  PROVE  IsObject(DeepMerge(base, override))
<1> DEFINE m == DeepMerge(base, override)
<1>1. DOMAIN m = DOMAIN base \cup DOMAIN override
  BY DEF DeepMerge
<1>2. m = [field \in DOMAIN m |-> m[field]]
  BY <1>1 DEF DeepMerge
<1>3. IsFiniteSet(DOMAIN m)
  <2>1. IsFiniteSet(DOMAIN base) /\ IsFiniteSet(DOMAIN override)
    BY DEF IsObject
  <2>2. IsFiniteSet(DOMAIN base \cup DOMAIN override)
    BY <2>1, FS_Union
  <2>. QED
    BY <1>1, <2>2
<1>4. \A field \in DOMAIN m \cap {"created", "updated", "end"} : m[field] \in Nat
  BY <1>1 DEF DeepMerge, IsObject
<1>. QED
  BY <1>2, <1>3, <1>4 DEF IsObject

(* The measures of an object are natural numbers.                          *)
LEMMA Measures ==
  ASSUME NEW data, IsObject(data)
  PROVE  /\ Number(data, "updated") \in Nat
         /\ Number(data, "end") \in Nat
         /\ IsFiniteSet(MeaningfulKeys(data))
         /\ Cardinality(MeaningfulKeys(data)) \in Nat
<1>1. Number(data, "updated") \in Nat /\ Number(data, "end") \in Nat
  BY DEF IsObject, Number, Get
<1>2. IsFiniteSet(MeaningfulKeys(data))
  BY FS_Subset DEF IsObject, MeaningfulKeys
<1>. QED
  BY <1>1, <1>2, FS_CardinalityType

(* deepMerge keeps everything its second argument says.                    *)
LEMMA MergeDominates ==
  ASSUME NEW base, NEW override, IsObject(base), IsObject(override)
  PROVE  Dominates(DeepMerge(base, override), override)
<1> DEFINE m == DeepMerge(base, override)
<1>1. /\ DOMAIN m = DOMAIN base \cup DOMAIN override
      /\ \A field \in DOMAIN override : m[field] = override[field]
  BY DEF DeepMerge
<1>2. IsObject(m)
  BY MergeIsObject
<1>3. HasCompletedTime(override) => HasCompletedTime(m)
  BY <1>1 DEF HasCompletedTime, Get
<1>4. HasOutput(override) => HasOutput(m)
  BY <1>1 DEF HasOutput, Get
<1>5. ASSUME NEW field \in {"updated", "end"}
      PROVE  Number(override, field) <= Number(m, field)
  <2>1. /\ Number(m, field) \in Nat
        /\ Number(override, field) \in Nat
    BY <1>2, Measures
  <2>2. CASE Get(override, field) = Absent
    BY <2>1, <2>2 DEF Number
  <2>3. CASE Get(override, field) # Absent
    <3>1. field \in DOMAIN override
      BY <2>3 DEF Get
    <3>2. Number(m, field) = Number(override, field)
      BY <1>1, <3>1 DEF Number, Get
    <3>. QED
      BY <2>1, <3>2
  <2>. QED
    BY <2>2, <2>3
<1>6. Cardinality(MeaningfulKeys(override)) <= Cardinality(MeaningfulKeys(m))
  <2>1. MeaningfulKeys(override) \subseteq MeaningfulKeys(m)
    BY <1>1 DEF MeaningfulKeys
  <2>2. IsFiniteSet(MeaningfulKeys(m))
    BY <1>2, Measures
  <2>. QED
    BY <2>1, <2>2, FS_Subset
<1>. QED
  BY <1>3, <1>4, <1>5, <1>6 DEF Dominates

(* compareRichness is lexicographic, so what dominates the richer one is   *)
(* not poorer than the other.                                              *)
LEMMA DominatesIsNotPoorer ==
  ASSUME NEW left, NEW right, NEW m,
         IsObject(left), IsObject(right), IsObject(m),
         Dominates(m, right), ~Richer(left, right)
  PROVE  ~Richer(left, m)
<1>1. /\ Number(left, "updated") \in Nat /\ Number(left, "end") \in Nat
      /\ Number(right, "updated") \in Nat /\ Number(right, "end") \in Nat
      /\ Number(m, "updated") \in Nat /\ Number(m, "end") \in Nat
      /\ Cardinality(MeaningfulKeys(left)) \in Nat
      /\ Cardinality(MeaningfulKeys(right)) \in Nat
      /\ Cardinality(MeaningfulKeys(m)) \in Nat
  BY Measures
<1>2. HasCompletedTime(left) \in BOOLEAN /\ HasOutput(left) \in BOOLEAN
  BY DEF HasCompletedTime, HasOutput
<1>3. HasCompletedTime(right) \in BOOLEAN /\ HasOutput(right) \in BOOLEAN
  BY DEF HasCompletedTime, HasOutput
<1>4. HasCompletedTime(m) \in BOOLEAN /\ HasOutput(m) \in BOOLEAN
  BY DEF HasCompletedTime, HasOutput
<1>. QED
  BY <1>1, <1>2, <1>3, <1>4, SMTT(30) DEF Dominates, Richer

(* Nothing is richer than itself.                                          *)
LEMMA RicherIsIrreflexive ==
  ASSUME NEW data, IsObject(data)
  PROVE  ~Richer(data, data)
BY Measures DEF Richer

(* mergeRicher never returns less than what was known before.              *)
LEMMA MergeIsNotPoorer ==
  ASSUME NEW left, NEW right, IsObject(left), IsObject(right)
  PROVE  /\ IsObject(MergeRicher(left, right))
         /\ ~Richer(left, MergeRicher(left, right))
<1>1. CASE Richer(left, right)
  <2>1. MergeRicher(left, right) = DeepMerge(right, left)
    BY <1>1 DEF MergeRicher
  <2>2. IsObject(DeepMerge(right, left)) /\ Dominates(DeepMerge(right, left), left)
    BY MergeIsObject, MergeDominates
  <2>3. ~Richer(left, left)
    BY RicherIsIrreflexive
  <2>. QED
    BY <2>1, <2>2, <2>3, DominatesIsNotPoorer
<1>2. CASE ~Richer(left, right)
  <2>1. MergeRicher(left, right) = DeepMerge(left, right)
    BY <1>2 DEF MergeRicher
  <2>2. IsObject(DeepMerge(left, right)) /\ Dominates(DeepMerge(left, right), right)
    BY MergeIsObject, MergeDominates
  <2>. QED
    BY <1>2, <2>1, <2>2, DominatesIsNotPoorer
<1>. QED
  BY <1>1, <1>2
-----------------------------------------------------------------------------
(* The inductive invariant, in parts.                                      *)

Payloads == {input.data : input \in Inputs}

Positions == [rawItemIndex : Nat, arrayOffset : Nat]

Records == [type : Types \cup {"malformed", "unknown"}, data : Payloads,
            rawItemIndex : Nat, arrayOffset : Nat]

Versions == [value : Payloads, sourceIndex : Positions]

LogInv == log \in Seq(Records)

ShapeInv ==
  /\ doc = [normalized |-> doc.normalized, latest |-> doc.latest, warnings |-> doc.warnings]
  /\ doc.normalized = [type \in Types |-> doc.normalized[type]]
  /\ doc.latest = [type \in Types |-> doc.latest[type]]

(* The normalised maps hold objects, the histories at least one version.   *)
IsEntry(entry) ==
  /\ entry = [value |-> entry.value, firstIndex |-> entry.firstIndex]
  /\ IsObject(entry.value)

EntriesInv ==
  \A type \in Types :
    /\ \A key \in DOMAIN doc.normalized[type] : IsEntry(doc.normalized[type][key])
    /\ \A key \in DOMAIN doc.latest[type] : doc.latest[type][key] \in Seq(Versions) \ {<<>>}

IInv == LogInv /\ ShapeInv /\ EntriesInv /\ ViewsAgree

-----------------------------------------------------------------------------
(* What a record is, wherever it stands.                                   *)
LEMMA RecordFacts ==
  ASSUME NEW input \in Inputs, NEW i \in Nat, NEW o \in Nat
  PROVE  LET rec == Record(input, i, o)
         IN  /\ rec \in Records
             /\ Source(rec) \in Positions
             /\ rec.data = NotData \/ IsObject(rec.data)
BY InputAssumption DEF Record, Records, Payloads, Source, Positions

(* A record that is not malformed and of a known type is an object, and    *)
(* both views find the same key for it, models aside.                      *)
LEMMA KeysAgree ==
  ASSUME NEW rec \in Records, rec.type \in Types, ~Malformed(rec)
  PROVE  /\ rec.data # NotData
         /\ NormalizedKey(rec) # Absent
         /\ rec.type # "model" => NormalizedKey(rec) = LatestKey(rec)
<1>1. rec.data # NotData
  <2>1. SUFFICES ASSUME rec.data = NotData PROVE FALSE
    OBVIOUS
  <2>2. RecordWarnings(rec) = {Warning("malformed_data", rec)}
    BY <2>1 DEF RecordWarnings, Types, ObjectTypes, ArrayTypes
  <2>. QED
    BY <2>2 DEF Malformed, Warning
<1>2. RecordWarnings(rec) = DataWarnings(rec)
  BY <1>1 DEF RecordWarnings, Types, ObjectTypes, ArrayTypes
<1>3. NormalizedKey(rec) # Absent
  <2>1. SUFFICES ASSUME NormalizedKey(rec) = Absent PROVE FALSE
    OBVIOUS
  <2>2. Warning("malformed_data", rec) \in DataWarnings(rec)
    BY <2>1 DEF DataWarnings, WarnIf
  <2>. QED
    BY <1>2, <2>2 DEF Malformed, Warning
<1>4. rec.type # "model" => NormalizedKey(rec) = LatestKey(rec)
  BY <1>3 DEF NormalizedKey, LatestKey, OwnKey, Or, Types, ObjectTypes, ArrayTypes
<1>. QED
  BY <1>1, <1>3, <1>4

-----------------------------------------------------------------------------
(* What one record does to the two views.                                  *)
LEMMA NormalizeStep ==
  ASSUME IInv, NEW rec \in Records, rec.data = NotData \/ IsObject(rec.data)
  PROVE  LET n == Normalize(doc.normalized, rec)
         IN  /\ n = [type \in Types |-> n[type]]
             /\ \A type \in Types : \A key \in DOMAIN n[type] : IsEntry(n[type][key])
             /\ \A type \in Types : \A key \in DOMAIN doc.normalized[type] :
                  /\ key \in DOMAIN n[type]
                  /\ n[type][key].firstIndex = doc.normalized[type][key].firstIndex
                  /\ ~Richer(doc.normalized[type][key].value, n[type][key].value)
             /\ rec.type \in Types /\ ~Malformed(rec) =>
                  /\ DOMAIN n[rec.type] = DOMAIN doc.normalized[rec.type] \cup {NormalizedKey(rec)}
                  /\ NormalizedKey(rec) \notin DOMAIN doc.normalized[rec.type] =>
                       n[rec.type][NormalizedKey(rec)].firstIndex = Source(rec)
                  /\ \A type \in Types \ {rec.type} : n[type] = doc.normalized[type]
             /\ rec.type \notin Types => n = doc.normalized
<1> DEFINE n == Normalize(doc.normalized, rec)
<1>1. CASE rec.type \notin Types \/ Malformed(rec)
  <2>1. n = doc.normalized
    BY <1>1 DEF Normalize
  <2>2. \A type \in Types : \A key \in DOMAIN doc.normalized[type] :
          /\ IsEntry(doc.normalized[type][key])
          /\ ~Richer(doc.normalized[type][key].value, doc.normalized[type][key].value)
    BY RicherIsIrreflexive DEF IInv, EntriesInv, IsEntry
  <2>. QED
    BY <1>1, <2>1, <2>2 DEF IInv, ShapeInv
<1>2. CASE rec.type \in Types /\ ~Malformed(rec)
  <2> DEFINE t == rec.type
             k == NormalizedKey(rec)
             map == doc.normalized[t]
             old == map[k]
             entry == IF k \in DOMAIN map
                      THEN [old EXCEPT !.value = MergeRicher(old.value, rec.data)]
                      ELSE [value |-> rec.data, firstIndex |-> Source(rec)]
  <2>1. IsObject(rec.data)
    BY <1>2, KeysAgree
  <2>2. n = [type \in Types |-> IF type = t THEN Put(map, k, entry) ELSE doc.normalized[type]]
    BY <1>2 DEF Normalize, MergeEntry, IInv, ShapeInv
  <2>3. /\ IsEntry(entry)
        /\ k \in DOMAIN map => /\ entry.firstIndex = old.firstIndex
                               /\ ~Richer(old.value, entry.value)
    <3>1. CASE k \notin DOMAIN map
      BY <2>1, <3>1 DEF IsEntry
    <3>2. CASE k \in DOMAIN map
      <4>1. IsEntry(old)
        BY <1>2, <3>2 DEF IInv, EntriesInv
      <4>2. entry = [value |-> MergeRicher(old.value, rec.data), firstIndex |-> old.firstIndex]
        BY <3>2, <4>1 DEF IsEntry
      <4>3. /\ IsObject(MergeRicher(old.value, rec.data))
            /\ ~Richer(old.value, MergeRicher(old.value, rec.data))
        BY <2>1, <4>1, MergeIsNotPoorer DEF IsEntry
      <4>. QED
        BY <4>2, <4>3 DEF IsEntry
    <3>. QED
      BY <3>1, <3>2
  <2>4. /\ DOMAIN n[t] = DOMAIN map \cup {k}
        /\ n[t][k] = entry
        /\ \A key \in DOMAIN map \ {k} : n[t][key] = map[key]
    <3>1. n[t] = Put(map, k, entry)
      BY <1>2, <2>2
    <3> HIDE DEF map, k, entry
    <3>2. /\ DOMAIN Put(map, k, entry) = DOMAIN map \cup {k}
          /\ Put(map, k, entry)[k] = entry
          /\ \A key \in DOMAIN map \ {k} : Put(map, k, entry)[key] = map[key]
      BY DEF Put
    <3>. QED
      BY <3>1, <3>2
  <2>5. \A type \in Types \ {t} : n[type] = doc.normalized[type]
    BY <2>2
  <2>6. \A type \in Types : \A key \in DOMAIN doc.normalized[type] :
          /\ IsEntry(doc.normalized[type][key])
          /\ ~Richer(doc.normalized[type][key].value, doc.normalized[type][key].value)
    BY RicherIsIrreflexive DEF IInv, EntriesInv, IsEntry
  <2>7. \A type \in Types : \A key \in DOMAIN n[type] : IsEntry(n[type][key])
    <3>1. SUFFICES ASSUME NEW type \in Types, NEW key \in DOMAIN n[type]
                   PROVE  IsEntry(n[type][key])
      OBVIOUS
    <3>2. CASE type # t
      BY <2>5, <2>6, <3>2
    <3>3. CASE type = t /\ key # k
      BY <2>4, <2>6, <3>3
    <3>4. CASE type = t /\ key = k
      BY <2>3, <2>4, <3>4
    <3>. QED
      BY <3>2, <3>3, <3>4
  <2>8. \A type \in Types : \A key \in DOMAIN doc.normalized[type] :
          /\ key \in DOMAIN n[type]
          /\ n[type][key].firstIndex = doc.normalized[type][key].firstIndex
          /\ ~Richer(doc.normalized[type][key].value, n[type][key].value)
    <3>1. SUFFICES ASSUME NEW type \in Types, NEW key \in DOMAIN doc.normalized[type]
                   PROVE  /\ key \in DOMAIN n[type]
                          /\ n[type][key].firstIndex = doc.normalized[type][key].firstIndex
                          /\ ~Richer(doc.normalized[type][key].value, n[type][key].value)
      OBVIOUS
    <3>2. CASE type # t
      BY <2>5, <2>6, <3>2
    <3>3. CASE type = t /\ key # k
      BY <2>4, <2>6, <3>3
    <3>4. CASE type = t /\ key = k
      BY <2>3, <2>4, <3>4
    <3>. QED
      BY <3>2, <3>3, <3>4
  <2>9. n = [type \in Types |-> n[type]]
    BY <2>2
  <2>10. k \notin DOMAIN map => n[t][k].firstIndex = Source(rec)
    BY <2>4
  <2>11. /\ DOMAIN n[t] = DOMAIN map \cup {k}
         /\ \A type \in Types \ {t} : n[type] = doc.normalized[type]
    BY <2>4, <2>5
  <2>. QED
    BY <1>2, <2>7, <2>8, <2>9, <2>10, <2>11
<1>. QED
  BY <1>1, <1>2

LEMMA UpsertStep ==
  ASSUME IInv, NEW rec \in Records, Source(rec) \in Positions
  PROVE  LET l == Upsert(doc.latest, rec)
         IN  /\ l = [type \in Types |-> l[type]]
             /\ \A type \in Types : \A key \in DOMAIN l[type] :
                  l[type][key] \in Seq(Versions) \ {<<>>}
             /\ \A type \in Types : \A key \in DOMAIN doc.latest[type] :
                  key \in DOMAIN l[type] /\ l[type][key][1] = doc.latest[type][key][1]
             /\ Recorded(rec) =>
                  /\ DOMAIN l[rec.type] = DOMAIN doc.latest[rec.type] \cup {LatestKey(rec)}
                  /\ LatestKey(rec) \notin DOMAIN doc.latest[rec.type] =>
                       l[rec.type][LatestKey(rec)][1].sourceIndex = Source(rec)
                  /\ \A type \in Types \ {rec.type} : l[type] = doc.latest[type]
             /\ ~Recorded(rec) => l = doc.latest
<1> DEFINE l == Upsert(doc.latest, rec)
<1>1. CASE ~Recorded(rec)
  <2>1. l = doc.latest
    BY <1>1 DEF Upsert
  <2>. QED
    BY <1>1, <2>1 DEF IInv, ShapeInv, EntriesInv
<1>2. CASE Recorded(rec)
  <2> DEFINE t == rec.type
             k == LatestKey(rec)
             map == doc.latest[t]
             new == [value |-> rec.data, sourceIndex |-> Source(rec)]
             history == (IF k \in DOMAIN map THEN map[k] ELSE <<>>) \o <<new>>
  <2>1. t \in Types /\ new \in Versions
    BY <1>2 DEF Recorded, Versions, Records
  <2>2. l = [type \in Types |-> IF type = t THEN Put(map, k, history) ELSE doc.latest[type]]
    BY <1>2, <2>1 DEF Upsert, UpsertVersion, IInv, ShapeInv
  <2>3. /\ history \in Seq(Versions) \ {<<>>}
        /\ k \in DOMAIN map => history[1] = map[k][1]
        /\ k \notin DOMAIN map => history[1] = new
    <3>1. CASE k \in DOMAIN map
      <4>1. map[k] \in Seq(Versions) \ {<<>>}
        BY <2>1, <3>1 DEF IInv, EntriesInv
      <4>2. history = map[k] \o <<new>>
        BY <3>1
      <4>. QED
        BY <2>1, <3>1, <4>1, <4>2
    <3>2. CASE k \notin DOMAIN map
      <4>1. history = <<new>>
        BY <3>2
      <4>. QED
        BY <2>1, <3>2, <4>1
    <3>. QED
      BY <3>1, <3>2
  <2>4. /\ DOMAIN l[t] = DOMAIN map \cup {k}
        /\ l[t][k] = history
        /\ \A key \in DOMAIN map \ {k} : l[t][key] = map[key]
    <3>1. l[t] = Put(map, k, history)
      BY <2>1, <2>2
    <3> HIDE DEF map, k, history
    <3>2. /\ DOMAIN Put(map, k, history) = DOMAIN map \cup {k}
          /\ Put(map, k, history)[k] = history
          /\ \A key \in DOMAIN map \ {k} : Put(map, k, history)[key] = map[key]
      BY DEF Put
    <3>. QED
      BY <3>1, <3>2
  <2>5. \A type \in Types \ {t} : l[type] = doc.latest[type]
    BY <2>2
  <2>6. l = [type \in Types |-> l[type]]
    BY <2>2
  <2>7. \A type \in Types : \A key \in DOMAIN doc.latest[type] :
          doc.latest[type][key] \in Seq(Versions) \ {<<>>}
    BY DEF IInv, EntriesInv
  <2> HIDE DEF l, history
  <2>8. \A type \in Types : \A key \in DOMAIN l[type] :
          l[type][key] \in Seq(Versions) \ {<<>>}
    <3>1. SUFFICES ASSUME NEW type \in Types, NEW key \in DOMAIN l[type]
                   PROVE  l[type][key] \in Seq(Versions) \ {<<>>}
      OBVIOUS
    <3>2. CASE type # t
      BY <2>5, <2>7, <3>2
    <3>3. CASE type = t /\ key # k
      BY <2>4, <2>7, <3>3
    <3>4. CASE type = t /\ key = k
      BY <2>3, <2>4, <3>4
    <3>. QED
      BY <3>2, <3>3, <3>4
  <2>9. \A type \in Types : \A key \in DOMAIN doc.latest[type] :
          key \in DOMAIN l[type] /\ l[type][key][1] = doc.latest[type][key][1]
    <3>1. SUFFICES ASSUME NEW type \in Types, NEW key \in DOMAIN doc.latest[type]
                   PROVE  key \in DOMAIN l[type] /\ l[type][key][1] = doc.latest[type][key][1]
      OBVIOUS
    <3>2. CASE type # t
      BY <2>5, <3>2
    <3>3. CASE type = t /\ key # k
      BY <2>4, <3>3
    <3>4. CASE type = t /\ key = k
      BY <2>3, <2>4, <3>4
    <3>. QED
      BY <3>2, <3>3, <3>4
  <2>10. k \notin DOMAIN map => l[t][k][1].sourceIndex = Source(rec)
    BY <2>3, <2>4
  <2>11. DOMAIN l[t] = DOMAIN map \cup {k}
    BY <2>4
  <2> USE DEF l
  <2>. QED
    BY <1>2, <2>5, <2>6, <2>8, <2>9, <2>10, <2>11
<1>. QED
  BY <1>1, <1>2

-----------------------------------------------------------------------------
(* Reading a record keeps the two views in agreement: where the page would *)
(* still be shown, the record has the same key in both.                    *)
LEMMA ViewsStep ==
  ASSUME IInv, NEW rec \in Records, rec.data = NotData \/ IsObject(rec.data),
         Source(rec) \in Positions, doc' = ReadRecord(doc, rec)
  PROVE  ViewsAgree'
<1> DEFINE n == doc'.normalized
           l == doc'.latest
<1>1. /\ n = Normalize(doc.normalized, rec)
      /\ l = Upsert(doc.latest, rec)
      /\ doc'.warnings = doc.warnings \cup RecordWarnings(rec)
  BY DEF ReadRecord
<1>2. SUFFICES ASSUME ~Corrupt(doc'), NEW type \in Types \ {"model"}
               PROVE  /\ DOMAIN n[type] = DOMAIN l[type]
                      /\ \A key \in DOMAIN l[type] :
                           n[type][key].firstIndex = l[type][key][1].sourceIndex
  BY DEF ViewsAgree
<1>3. ~Corrupt(doc) /\ ~Malformed(rec)
  BY <1>1, <1>2 DEF Corrupt, Malformed
<1>4. /\ DOMAIN doc.normalized[type] = DOMAIN doc.latest[type]
      /\ \A key \in DOMAIN doc.latest[type] :
           doc.normalized[type][key].firstIndex = doc.latest[type][key][1].sourceIndex
  BY <1>3 DEF IInv, ViewsAgree
<1>5. CASE rec.type \notin Types
  <2>1. n = doc.normalized /\ l = doc.latest
    BY <1>1, <1>5 DEF Normalize, Upsert, Recorded
  <2>. QED
    BY <1>4, <2>1
<1>6. CASE rec.type \in Types
  <2>1. /\ Recorded(rec)
        /\ rec.type # "model" => NormalizedKey(rec) = LatestKey(rec)
    BY <1>3, <1>6, KeysAgree DEF Recorded
  <2>2. /\ \A key \in DOMAIN doc.normalized[type] :
             /\ key \in DOMAIN n[type]
             /\ n[type][key].firstIndex = doc.normalized[type][key].firstIndex
        /\ DOMAIN n[rec.type] = DOMAIN doc.normalized[rec.type] \cup {NormalizedKey(rec)}
        /\ NormalizedKey(rec) \notin DOMAIN doc.normalized[rec.type] =>
             n[rec.type][NormalizedKey(rec)].firstIndex = Source(rec)
        /\ type # rec.type => n[type] = doc.normalized[type]
    <3> DEFINE new == Normalize(doc.normalized, rec)
    <3>1. /\ \A key \in DOMAIN doc.normalized[type] :
               /\ key \in DOMAIN new[type]
               /\ new[type][key].firstIndex = doc.normalized[type][key].firstIndex
          /\ DOMAIN new[rec.type] = DOMAIN doc.normalized[rec.type] \cup {NormalizedKey(rec)}
          /\ NormalizedKey(rec) \notin DOMAIN doc.normalized[rec.type] =>
               new[rec.type][NormalizedKey(rec)].firstIndex = Source(rec)
          /\ type # rec.type => new[type] = doc.normalized[type]
      BY <1>3, <1>6, NormalizeStep
    <3>2. n = new
      BY <1>1
    <3> HIDE DEF n, new
    <3>. QED
      BY <3>1, <3>2
  <2>3. /\ \A key \in DOMAIN doc.latest[type] :
             key \in DOMAIN l[type] /\ l[type][key][1] = doc.latest[type][key][1]
        /\ DOMAIN l[rec.type] = DOMAIN doc.latest[rec.type] \cup {LatestKey(rec)}
        /\ LatestKey(rec) \notin DOMAIN doc.latest[rec.type] =>
             l[rec.type][LatestKey(rec)][1].sourceIndex = Source(rec)
        /\ type # rec.type => l[type] = doc.latest[type]
    <3> DEFINE new == Upsert(doc.latest, rec)
    <3>1. /\ \A key \in DOMAIN doc.latest[type] :
               key \in DOMAIN new[type] /\ new[type][key][1] = doc.latest[type][key][1]
          /\ DOMAIN new[rec.type] = DOMAIN doc.latest[rec.type] \cup {LatestKey(rec)}
          /\ LatestKey(rec) \notin DOMAIN doc.latest[rec.type] =>
               new[rec.type][LatestKey(rec)][1].sourceIndex = Source(rec)
          /\ type # rec.type => new[type] = doc.latest[type]
      BY <2>1, UpsertStep
    <3>2. l = new
      BY <1>1
    <3> HIDE DEF l, new
    <3>. QED
      BY <3>1, <3>2
  <2> HIDE DEF n, l
  <2>4. CASE type # rec.type
    BY <1>4, <2>2, <2>3, <2>4
  <2>5. CASE type = rec.type
    <3>1. DOMAIN n[type] = DOMAIN l[type]
      BY <1>4, <2>1, <2>2, <2>3, <2>5
    <3>2. ASSUME NEW key \in DOMAIN l[type]
          PROVE  n[type][key].firstIndex = l[type][key][1].sourceIndex
      <4>1. CASE key \in DOMAIN doc.latest[type]
        BY <1>4, <2>2, <2>3, <4>1
      <4>2. CASE key \notin DOMAIN doc.latest[type]
        <5>1. key = LatestKey(rec) /\ key = NormalizedKey(rec)
          BY <2>1, <2>3, <2>5, <3>2, <4>2
        <5>2. key \notin DOMAIN doc.normalized[type]
          BY <1>4, <4>2
        <5>. QED
          BY <2>2, <2>3, <2>5, <4>2, <5>1, <5>2
      <4>. QED
        BY <4>1, <4>2
    <3>. QED
      BY <3>1, <3>2
  <2>. QED
    BY <2>4, <2>5
<1>. QED
  BY <1>5, <1>6

(* Every step of the loops reads one record: an object or no object at     *)
(* all, at a position of its own.                                          *)
Before(one, two) ==
  \/ one.rawItemIndex < two.rawItemIndex
  \/ one.rawItemIndex = two.rawItemIndex /\ one.arrayOffset < two.arrayOffset

Follows(rec) ==
  /\ log # <<>> => Before(Source(LastRecord), Source(rec))
  /\ rec.type \notin ArrayTypes => rec.arrayOffset = 0

LEMMA NextReads ==
  ASSUME IInv, Next
  PROVE  \E rec \in Records :
           /\ log' = Append(log, rec)
           /\ doc' = ReadRecord(doc, rec)
           /\ rec.data = NotData \/ IsObject(rec.data)
           /\ Source(rec) \in Positions
           /\ Follows(rec)
<1>1. log # <<>> => LastRecord.rawItemIndex \in Nat /\ LastRecord.arrayOffset \in Nat
  <2>1. log # <<>> => LastRecord \in Records
    BY DEF IInv, LogInv, LastRecord
  <2>. QED
    BY <2>1 DEF Records
<1>2. CASE ReadEvent
  <2>1. PICK input \in Inputs : Read(Record(input, NextEvent, 0))
    BY <1>2 DEF ReadEvent
  <2>2. NextEvent \in Nat
    BY <1>1 DEF NextEvent
  <2>3. Follows(Record(input, NextEvent, 0))
    BY <1>1 DEF Follows, Before, Source, Record, NextEvent
  <2>. QED
    BY <2>1, <2>2, <2>3, RecordFacts DEF Read
<1>3. CASE ReadArrayEntry
  <2>1. PICK input \in Inputs :
          /\ InArray(input.type)
          /\ Read(Record(input, LastRecord.rawItemIndex, LastRecord.arrayOffset + 1))
    BY <1>3 DEF ReadArrayEntry
  <2>2. LastRecord.rawItemIndex \in Nat /\ LastRecord.arrayOffset + 1 \in Nat
    BY <1>1, <2>1 DEF InArray
  <2>3. Follows(Record(input, LastRecord.rawItemIndex, LastRecord.arrayOffset + 1))
    BY <1>1, <2>1, <2>2 DEF Follows, Before, Source, Record, InArray
  <2>. QED
    BY <2>1, <2>2, <2>3, RecordFacts DEF Read
<1>. QED
  BY <1>2, <1>3 DEF Next

-----------------------------------------------------------------------------
(* Where the versions of an entity come from.                              *)

(* The history is the records of the log l at the places e, in order.      *)
Traces(history, e, l) ==
  \E at \in [DOMAIN history -> e] :
    /\ \A i, j \in DOMAIN history : i < j => at[i] < at[j]
    /\ {at[i] : i \in DOMAIN history} = e
    /\ \A i \in DOMAIN history :
         history[i] = [value |-> l[at[i]].data, sourceIndex |-> Source(l[at[i]])]

(* One more record in the log does not move the others.                    *)
LEMMA TracesKept ==
  ASSUME NEW history, NEW l \in Seq(Records), NEW e \in SUBSET DOMAIN l, NEW rec \in Records,
         Traces(history, e, l)
  PROVE  Traces(history, e, Append(l, rec))
<1>1. \A n \in e : Append(l, rec)[n] = l[n]
  OBVIOUS
<1>2. PICK at \in [DOMAIN history -> e] :
        /\ \A i, j \in DOMAIN history : i < j => at[i] < at[j]
        /\ {at[i] : i \in DOMAIN history} = e
        /\ \A i \in DOMAIN history :
             history[i] = [value |-> l[at[i]].data, sourceIndex |-> Source(l[at[i]])]
  BY DEF Traces
<1>3. \A i \in DOMAIN history :
        history[i] = [value |-> Append(l, rec)[at[i]].data,
                      sourceIndex |-> Source(Append(l, rec)[at[i]])]
  BY <1>1, <1>2
<1>. QED
  BY <1>2, <1>3 DEF Traces

(* A version that is added to the history is the new record.               *)
LEMMA TracesExtended ==
  ASSUME NEW history \in Seq(Versions), NEW l \in Seq(Records), NEW e \in SUBSET DOMAIN l,
         NEW rec \in Records, Traces(history, e, l)
  PROVE  Traces(history \o <<[value |-> rec.data, sourceIndex |-> Source(rec)]>>,
                e \cup {Len(l) + 1}, Append(l, rec))
<1> DEFINE version == [value |-> rec.data, sourceIndex |-> Source(rec)]
           longer == history \o <<version>>
           last == Len(history) + 1
           n == Len(l) + 1
           m == Append(l, rec)
<1>1. /\ DOMAIN longer = DOMAIN history \cup {last}
      /\ \A i \in DOMAIN history : longer[i] = history[i] /\ i < last /\ i \in Nat
      /\ longer[last] = version /\ last \in Nat /\ last \notin DOMAIN history
  OBVIOUS
<1>2. /\ m[n] = rec /\ n \in Nat
      /\ \A i \in e : m[i] = l[i] /\ i < n /\ i \in Nat
  OBVIOUS
<1>3. PICK at \in [DOMAIN history -> e] :
        /\ \A i, j \in DOMAIN history : i < j => at[i] < at[j]
        /\ {at[i] : i \in DOMAIN history} = e
        /\ \A i \in DOMAIN history :
             history[i] = [value |-> l[at[i]].data, sourceIndex |-> Source(l[at[i]])]
  BY DEF Traces
<1> HIDE DEF longer, last, n, m, version
<1> DEFINE at2 == [i \in DOMAIN longer |-> IF i = last THEN n ELSE at[i]]
<1>4. /\ at2 \in [DOMAIN longer -> e \cup {n}]
      /\ at2[last] = n
      /\ \A i \in DOMAIN history : at2[i] = at[i]
  BY <1>1, <1>3
<1> HIDE DEF at2
<1>5. \A i, j \in DOMAIN longer : i < j => at2[i] < at2[j]
  <2>1. SUFFICES ASSUME NEW i \in DOMAIN longer, NEW j \in DOMAIN longer, i < j
                 PROVE  at2[i] < at2[j]
    OBVIOUS
  <2>2. i \in DOMAIN history
    BY <1>1, <2>1
  <2>3. CASE j = last
    BY <1>2, <1>3, <1>4, <2>2, <2>3
  <2>4. CASE j \in DOMAIN history
    BY <1>3, <1>4, <2>1, <2>2, <2>4
  <2>. QED
    BY <1>1, <2>3, <2>4
<1>6. {at2[i] : i \in DOMAIN longer} = e \cup {n}
  BY <1>1, <1>3, <1>4
<1>7. ASSUME NEW i \in DOMAIN longer
      PROVE  longer[i] = [value |-> m[at2[i]].data, sourceIndex |-> Source(m[at2[i]])]
  <2>1. CASE i = last
    BY <1>1, <1>2, <1>4, <2>1 DEF version
  <2>2. CASE i \in DOMAIN history
    <3>1. longer[i] = history[i] /\ at2[i] = at[i] /\ at[i] \in e
      BY <1>1, <1>3, <1>4, <2>2
    <3>2. m[at2[i]] = l[at[i]]
      BY <1>2, <3>1
    <3>. QED
      BY <1>3, <2>2, <3>1, <3>2
  <2>. QED
    BY <1>1, <2>1, <2>2
<1>8. Traces(longer, e \cup {n}, m)
  BY <1>4, <1>5, <1>6, <1>7 DEF Traces
<1>. QED
  BY <1>8 DEF longer, version, n, m

(* The records of an entity after one more record.                         *)
LEMMA EntriesStep ==
  ASSUME LogInv, NEW rec \in Records, log' = Append(log, rec), NEW type, NEW key
  PROVE  /\ Entries(type, key) \subseteq DOMAIN log
         /\ Entries(type, key)' =
              Entries(type, key) \cup
              (IF rec.type = type /\ Recorded(rec) /\ LatestKey(rec) = key
               THEN {Len(log) + 1} ELSE {})
<1>1. /\ DOMAIN log' = DOMAIN log \cup {Len(log) + 1}
      /\ log'[Len(log) + 1] = rec
      /\ \A n \in DOMAIN log : log'[n] = log[n]
  BY DEF LogInv
<1>. QED
  BY <1>1 DEF Entries

(* upsertVersion changes one history, by one version at its end.           *)
LEMMA UpsertExact ==
  ASSUME IInv, NEW rec \in Records, Recorded(rec)
  PROVE  LET map == doc.latest[rec.type]
             k   == LatestKey(rec)
             l   == Upsert(doc.latest, rec)
         IN  /\ DOMAIN l[rec.type] = DOMAIN map \cup {k}
             /\ l[rec.type][k] = (IF k \in DOMAIN map THEN map[k] ELSE <<>>)
                                  \o <<[value |-> rec.data, sourceIndex |-> Source(rec)]>>
             /\ \A key \in DOMAIN map \ {k} : l[rec.type][key] = map[key]
             /\ \A type \in Types \ {rec.type} : l[type] = doc.latest[type]
<1> DEFINE map == doc.latest[rec.type]
           k == LatestKey(rec)
           l == Upsert(doc.latest, rec)
           history == (IF k \in DOMAIN map THEN map[k] ELSE <<>>)
                      \o <<[value |-> rec.data, sourceIndex |-> Source(rec)]>>
<1>1. rec.type \in Types
  BY DEF Recorded
<1>2. l = [type \in Types |-> IF type = rec.type THEN Put(map, k, history) ELSE doc.latest[type]]
  BY <1>1 DEF Upsert, UpsertVersion, IInv, ShapeInv
<1>3. l[rec.type] = Put(map, k, history) /\ \A type \in Types \ {rec.type} : l[type] = doc.latest[type]
  BY <1>1, <1>2
<1> HIDE DEF map, k, history, l
<1>4. /\ DOMAIN Put(map, k, history) = DOMAIN map \cup {k}
      /\ Put(map, k, history)[k] = history
      /\ \A key \in DOMAIN map \ {k} : Put(map, k, history)[key] = map[key]
  BY DEF Put
<1>5. /\ DOMAIN l[rec.type] = DOMAIN map \cup {k}
      /\ l[rec.type][k] = history
      /\ \A key \in DOMAIN map \ {k} : l[rec.type][key] = map[key]
      /\ \A type \in Types \ {rec.type} : l[type] = doc.latest[type]
  BY <1>3, <1>4
<1>. QED
  BY <1>5 DEF map, k, history, l

(* The keys of a type are those of its records; an entity without a record *)
(* has no history, and that too is traced.                                 *)
LEMMA ProvenanceFacts ==
  ASSUME ProvenanceIsExact, NEW type \in Types, NEW key
  PROVE  /\ key \in DOMAIN doc.latest[type] <=> Entries(type, key) # {}
         /\ Traces(IF key \in DOMAIN doc.latest[type] THEN doc.latest[type][key] ELSE <<>>,
                   Entries(type, key), log)
<1>1. key \in DOMAIN doc.latest[type] <=> Entries(type, key) # {}
  BY DEF ProvenanceIsExact, Entries
<1>2. CASE key \in DOMAIN doc.latest[type]
  BY <1>1, <1>2 DEF ProvenanceIsExact, HistoryOf, Traces
<1>3. CASE key \notin DOMAIN doc.latest[type]
  <2>1. Entries(type, key) = {}
    BY <1>1, <1>3
  <2> DEFINE at == [i \in DOMAIN <<>> |-> 0]
  <2>2. at \in [DOMAIN <<>> -> {}] /\ DOMAIN <<>> = {}
    OBVIOUS
  <2>3. Traces(<<>>, {}, log)
    BY <2>2 DEF Traces
  <2>. QED
    BY <1>1, <1>3, <2>1, <2>3
<1>. QED
  BY <1>2, <1>3

(* Reading a record keeps every history exact: the one it belongs to gets  *)
(* one version more, as its records do, and the others are left alone.     *)
LEMMA ProvenanceStep ==
  ASSUME IInv, ProvenanceIsExact, NEW rec \in Records,
         log' = Append(log, rec), doc'.latest = Upsert(doc.latest, rec)
  PROVE  ProvenanceIsExact'
<1> DEFINE Old(type, key) ==
             IF key \in DOMAIN doc.latest[type] THEN doc.latest[type][key] ELSE <<>>
           Concerns(type, key) == rec.type = type /\ Recorded(rec) /\ LatestKey(rec) = key
<1>1. log \in Seq(Records)
  BY DEF IInv, LogInv
<1>2. ASSUME NEW type \in Types, NEW key, ~Concerns(type, key)
      PROVE  /\ key \in DOMAIN doc'.latest[type] <=> Entries(type, key)' # {}
             /\ key \in DOMAIN doc'.latest[type] =>
                  Traces(doc'.latest[type][key], Entries(type, key)', log')
  <2>1. Entries(type, key)' = Entries(type, key) /\ Entries(type, key) \subseteq DOMAIN log
    BY <1>2, EntriesStep DEF IInv
  <2>2. /\ key \in DOMAIN doc'.latest[type] <=> key \in DOMAIN doc.latest[type]
        /\ key \in DOMAIN doc.latest[type] => doc'.latest[type][key] = doc.latest[type][key]
    <3>1. CASE ~Recorded(rec)
      BY <3>1 DEF Upsert
    <3>2. CASE Recorded(rec) /\ rec.type # type
      BY <3>2, UpsertExact
    <3>3. CASE Recorded(rec) /\ rec.type = type /\ LatestKey(rec) # key
      BY <3>3, UpsertExact
    <3>. QED
      BY <1>2, <3>1, <3>2, <3>3
  <2>3. key \in DOMAIN doc.latest[type] =>
          Traces(doc.latest[type][key], Entries(type, key), Append(log, rec))
    <3>1. SUFFICES ASSUME key \in DOMAIN doc.latest[type]
                   PROVE  Traces(doc.latest[type][key], Entries(type, key), Append(log, rec))
      OBVIOUS
    <3>2. Traces(doc.latest[type][key], Entries(type, key), log)
      BY <3>1, ProvenanceFacts
    <3>. QED
      BY <1>1, <2>1, <3>2, TracesKept
  <2>. QED
    BY <2>1, <2>2, <2>3, ProvenanceFacts
<1>3. ASSUME NEW type \in Types, NEW key, Concerns(type, key)
      PROVE  /\ key \in DOMAIN doc'.latest[type] /\ Entries(type, key)' # {}
             /\ Traces(doc'.latest[type][key], Entries(type, key)', log')
  <2>1. /\ Entries(type, key)' = Entries(type, key) \cup {Len(log) + 1}
        /\ Entries(type, key) \subseteq DOMAIN log
    BY <1>3, EntriesStep DEF IInv
  <2>2. /\ key \in DOMAIN doc'.latest[type]
        /\ doc'.latest[type][key] =
             Old(type, key) \o <<[value |-> rec.data, sourceIndex |-> Source(rec)]>>
    BY <1>3, UpsertExact
  <2>3. Old(type, key) \in Seq(Versions)
    BY DEF IInv, EntriesInv
  <2>4. Traces(Old(type, key), Entries(type, key), log)
    BY ProvenanceFacts
  <2> HIDE DEF Old
  <2>5. Traces(Old(type, key) \o <<[value |-> rec.data, sourceIndex |-> Source(rec)]>>,
               Entries(type, key) \cup {Len(log) + 1}, Append(log, rec))
    BY <1>1, <2>1, <2>3, <2>4, TracesExtended
  <2>. QED
    BY <2>1, <2>2, <2>5
<1>4. ASSUME NEW type \in Types
      PROVE  /\ \A key : key \in DOMAIN doc'.latest[type] <=> Entries(type, key)' # {}
             /\ \A key \in DOMAIN doc'.latest[type] :
                  Traces(doc'.latest[type][key], Entries(type, key)', log')
  BY <1>2, <1>3
<1> HIDE DEF Old, Concerns
<1>5. ASSUME NEW type \in Types
      PROVE  DOMAIN doc'.latest[type] =
               {LatestKey(log'[n]) :
                  n \in {m \in DOMAIN log' : log'[m].type = type /\ Recorded(log'[m])}}
  BY <1>4 DEF Entries
<1>6. ASSUME NEW type \in Types, NEW key \in DOMAIN doc'.latest[type]
      PROVE  HistoryOf(type, key)'
  BY <1>4 DEF HistoryOf, Traces
<1>. QED
  BY <1>5, <1>6 DEF ProvenanceIsExact

-----------------------------------------------------------------------------
(* Before any event the page knows nothing, and the invariant holds.       *)
LEMMA InitInv == Init => IInv
BY DEF Init, IInv, LogInv, ShapeInv, EntriesInv, ViewsAgree, EmptyDocument, NoEntries

(* Reading one more record keeps the invariant.                            *)
LEMMA StepInv == IInv /\ [Next]_vars => IInv'
<1>1. SUFFICES ASSUME IInv, [Next]_vars PROVE IInv'
  OBVIOUS
<1>2. CASE Next
  <2>1. PICK rec \in Records :
          /\ log' = Append(log, rec)
          /\ doc' = ReadRecord(doc, rec)
          /\ rec.data = NotData \/ IsObject(rec.data)
          /\ Source(rec) \in Positions
    BY <1>1, <1>2, NextReads
  <2>2. LogInv'
    BY <1>1, <2>1 DEF IInv, LogInv
  <2>3. /\ doc'.normalized = Normalize(doc.normalized, rec)
        /\ doc'.latest = Upsert(doc.latest, rec)
        /\ doc' = [normalized |-> doc'.normalized, latest |-> doc'.latest,
                   warnings |-> doc'.warnings]
    BY <2>1 DEF ReadRecord
  <2>4. /\ doc'.normalized = [type \in Types |-> doc'.normalized[type]]
        /\ \A type \in Types : \A key \in DOMAIN doc'.normalized[type] :
             IsEntry(doc'.normalized[type][key])
    BY <1>1, <2>1, <2>3, NormalizeStep
  <2>5. /\ doc'.latest = [type \in Types |-> doc'.latest[type]]
        /\ \A type \in Types : \A key \in DOMAIN doc'.latest[type] :
             doc'.latest[type][key] \in Seq(Versions) \ {<<>>}
    BY <1>1, <2>1, <2>3, UpsertStep
  <2>6. ShapeInv'
    BY <2>3, <2>4, <2>5 DEF ShapeInv
  <2>7. EntriesInv'
    BY <2>4, <2>5 DEF EntriesInv
  <2>8. ViewsAgree'
    BY <1>1, <2>1, ViewsStep
  <2>. QED
    BY <2>2, <2>6, <2>7, <2>8 DEF IInv
<1>3. CASE UNCHANGED vars
  BY <1>1, <1>3 DEF vars, IInv, LogInv, ShapeInv, EntriesInv, ViewsAgree
<1>. QED
  BY <1>1, <1>2, <1>3

(* The invariant holds whatever events a share carries, however many.      *)
LEMMA Invariance == Spec => []IInv
<1>. QED
  BY InitInv, StepInv, PTL DEF Spec

(* The header's counts and the messages shown come from two passes over    *)
(* the same events; in every share the page shows, both know the same      *)
(* sessions, messages, parts and files.                                    *)
THEOREM ViewsAlwaysAgree == Spec => []ViewsAgree
<1>1. IInv => ViewsAgree
  BY DEF IInv
<1>. QED
  BY <1>1, Invariance, PTL

(* Whatever events a share carries: the history the debug drawer and the   *)
(* provenance inspector show of an entity is exactly its records, once     *)
(* each, in their order, with the events they came from.                   *)
THEOREM ProvenanceAlwaysExact == Spec => []ProvenanceIsExact
<1>1. Init => ProvenanceIsExact
  BY DEF Init, ProvenanceIsExact, EmptyDocument, NoEntries
<1>2. IInv /\ ProvenanceIsExact /\ [Next]_vars => ProvenanceIsExact'
  <2>1. ASSUME IInv, ProvenanceIsExact, Next
        PROVE  ProvenanceIsExact'
    <3>1. PICK rec \in Records : log' = Append(log, rec) /\ doc' = ReadRecord(doc, rec)
      BY <2>1, NextReads
    <3>2. doc'.latest = Upsert(doc.latest, rec)
      BY <3>1 DEF ReadRecord
    <3>. QED
      BY <2>1, <3>1, <3>2, ProvenanceStep
  <2>2. ASSUME ProvenanceIsExact, UNCHANGED vars
        PROVE  ProvenanceIsExact'
    <3>1. log' = log /\ doc' = doc
      BY <2>2 DEF vars
    <3>2. \A type, key : Entries(type, key)' = Entries(type, key)
      BY <3>1 DEF Entries
    <3>3. \A type, key : HistoryOf(type, key)' <=> HistoryOf(type, key)
      BY <3>1, <3>2 DEF HistoryOf
    <3>. QED
      BY <2>2, <3>1, <3>3 DEF ProvenanceIsExact
  <2>. QED
    BY <2>1, <2>2
<1>. QED
  BY <1>1, <1>2, Invariance, PTL DEF Spec

(* No event ever makes what the page knows of an entity poorer.            *)
THEOREM NothingGetsPoorer == Spec => NeverPoorer
<1> DEFINE Keeps == \A type \in Types : \A key \in DOMAIN doc.normalized[type] :
                      ~Richer(doc.normalized[type][key].value,
                              doc'.normalized[type][key].value)
<1>1. ASSUME IInv, [Next]_vars PROVE [Keeps]_vars
  <2>1. CASE Next
    <3>1. PICK rec \in Records :
            /\ doc' = ReadRecord(doc, rec)
            /\ rec.data = NotData \/ IsObject(rec.data)
      BY <1>1, <2>1, NextReads
    <3>2. doc'.normalized = Normalize(doc.normalized, rec)
      BY <3>1 DEF ReadRecord
    <3>. QED
      BY <1>1, <3>1, <3>2, NormalizeStep
  <2>2. CASE UNCHANGED vars
    BY <2>2
  <2>. QED
    BY <1>1, <2>1, <2>2
<1>. QED
  BY <1>1, Invariance, PTL DEF Spec, NeverPoorer

-----------------------------------------------------------------------------
(* What else the loops keep: where records stand, what was warned of, and  *)
(* what a merged value is made of.                                         *)

PlacesInv ==
  /\ \A i, j \in DOMAIN log : i < j => Before(Source(log[i]), Source(log[j]))
  /\ \A n \in DOMAIN log : log[n].type \notin ArrayTypes => log[n].arrayOffset = 0

WarnedInv == \A n \in DOMAIN log : RecordWarnings(log[n]) \subseteq doc.warnings

(* The records a normalised value is merged from: it has the fields of all *)
(* of them, and nothing that none of them says.                            *)
Given(type, key) ==
  {n \in DOMAIN log : log[n].type = type /\ ~Malformed(log[n]) /\ NormalizedKey(log[n]) = key}

MadeOf(value, records, l) ==
  /\ records # {}
  /\ \A n \in records : DOMAIN l[n].data \subseteq DOMAIN value
  /\ \A field \in DOMAIN value :
       \E n \in records : field \in DOMAIN l[n].data /\ l[n].data[field] = value[field]

MergedInv ==
  \A type \in Types :
    /\ \A key \in DOMAIN doc.normalized[type] :
         MadeOf(doc.normalized[type][key].value, Given(type, key), log)
    /\ \A n \in DOMAIN log : log[n].type = type /\ ~Malformed(log[n]) =>
         NormalizedKey(log[n]) \in DOMAIN doc.normalized[type]

OriginInv == PlacesInv /\ WarnedInv /\ MergedInv

LEMMA LogStep ==
  ASSUME IInv, NEW rec \in Records, log' = Append(log, rec)
  PROVE  /\ Len(log) \in Nat /\ DOMAIN log = 1..Len(log)
         /\ DOMAIN log' = 1..(Len(log) + 1)
         /\ log'[Len(log) + 1] = rec
         /\ \A n \in DOMAIN log : log[n] \in Records /\ log'[n] = log[n]
BY DEF IInv, LogInv

LEMMA PlacesStep ==
  ASSUME IInv, PlacesInv, NEW rec \in Records, log' = Append(log, rec), Follows(rec)
  PROVE  PlacesInv'
<1> DEFINE N == Len(log)
<1>1. /\ N \in Nat /\ DOMAIN log = 1..N /\ DOMAIN log' = 1..(N + 1) /\ log'[N + 1] = rec
      /\ \A n \in DOMAIN log : log[n] \in Records /\ log'[n] = log[n]
  BY LogStep
<1>2. log # <<>> <=> N # 0
  BY DEF IInv, LogInv
<1>3. LastRecord = log[N]
  BY DEF LastRecord
<1> HIDE DEF N
<1>4. \A n \in DOMAIN log : Source(log[n]) \in Positions
  BY <1>1 DEF Records, Positions, Source
<1>5. Source(rec) \in Positions
  BY DEF Records, Positions, Source
<1>6. ASSUME NEW i \in DOMAIN log
      PROVE  Before(Source(log[i]), Source(rec))
  <2>1. N \in DOMAIN log /\ Before(Source(log[N]), Source(rec))
    BY <1>1, <1>2, <1>3, <1>6 DEF Follows
  <2>2. CASE i = N
    BY <2>1, <2>2
  <2>3. CASE i < N
    <3>1. Before(Source(log[i]), Source(log[N]))
      BY <2>1, <2>3 DEF PlacesInv
    <3>. QED
      BY <1>4, <1>5, <2>1, <3>1 DEF Before, Positions
  <2>. QED
    BY <1>1, <2>2, <2>3
<1>7. ASSUME NEW i \in DOMAIN log', NEW j \in DOMAIN log', i < j
      PROVE  Before(Source(log'[i]), Source(log'[j]))
  <2>1. i \in DOMAIN log /\ log'[i] = log[i]
    BY <1>1, <1>7
  <2>2. CASE j = N + 1
    BY <1>1, <1>6, <2>1, <2>2
  <2>3. CASE j \in DOMAIN log
    BY <1>1, <1>7, <2>1, <2>3 DEF PlacesInv
  <2>. QED
    BY <1>1, <2>2, <2>3
<1>8. ASSUME NEW n \in DOMAIN log', log'[n].type \notin ArrayTypes
      PROVE  log'[n].arrayOffset = 0
  <2>1. CASE n = N + 1
    BY <1>1, <1>8, <2>1 DEF Follows
  <2>2. CASE n \in DOMAIN log
    BY <1>1, <1>8, <2>2 DEF PlacesInv
  <2>. QED
    BY <1>1, <2>1, <2>2
<1>. QED
  BY <1>7, <1>8 DEF PlacesInv

LEMMA WarnedStep ==
  ASSUME IInv, WarnedInv, NEW rec \in Records, log' = Append(log, rec), doc' = ReadRecord(doc, rec)
  PROVE  WarnedInv'
<1>1. doc'.warnings = doc.warnings \cup RecordWarnings(rec)
  BY DEF ReadRecord
<1>2. SUFFICES ASSUME NEW n \in DOMAIN log' PROVE RecordWarnings(log'[n]) \subseteq doc'.warnings
  BY DEF WarnedInv
<1>3. CASE n \in DOMAIN log
  BY <1>1, <1>3, LogStep DEF WarnedInv
<1>4. CASE n = Len(log) + 1
  BY <1>1, <1>4, LogStep
<1>. QED
  BY <1>3, <1>4, LogStep

(* A merge has the fields of both sides, each from one of them.            *)
Mixes(m, left, right) ==
  /\ DOMAIN m = DOMAIN left \cup DOMAIN right
  /\ \A field \in DOMAIN m : \/ field \in DOMAIN left /\ m[field] = left[field]
                             \/ field \in DOMAIN right /\ m[field] = right[field]

LEMMA MergeFields ==
  ASSUME NEW left, NEW right
  PROVE  Mixes(MergeRicher(left, right), left, right)
<1>1. ASSUME NEW base, NEW override
      PROVE  Mixes(DeepMerge(base, override), base, override)
  BY DEF DeepMerge, Mixes
<1>2. CASE Richer(left, right)
  <2>1. MergeRicher(left, right) = DeepMerge(right, left)
    BY <1>2 DEF MergeRicher
  <2>2. Mixes(DeepMerge(right, left), right, left)
    BY <1>1
  <2>. QED
    BY <2>1, <2>2 DEF Mixes
<1>3. CASE ~Richer(left, right)
  <2>1. MergeRicher(left, right) = DeepMerge(left, right)
    BY <1>3 DEF MergeRicher
  <2>. QED
    BY <1>1, <2>1
<1>. QED
  BY <1>2, <1>3

(* mergeEntry changes one entry.                                           *)
LEMMA NormalizeExact ==
  ASSUME IInv, NEW rec \in Records, rec.type \in Types, ~Malformed(rec)
  PROVE  LET map == doc.normalized[rec.type]
             k   == NormalizedKey(rec)
             n   == Normalize(doc.normalized, rec)
         IN  /\ DOMAIN n[rec.type] = DOMAIN map \cup {k}
             /\ k \in DOMAIN map => n[rec.type][k].value = MergeRicher(map[k].value, rec.data)
             /\ k \notin DOMAIN map => n[rec.type][k].value = rec.data
             /\ \A key \in DOMAIN map \ {k} : n[rec.type][key] = map[key]
             /\ \A type \in Types \ {rec.type} : n[type] = doc.normalized[type]
<1> DEFINE map == doc.normalized[rec.type]
           k == NormalizedKey(rec)
           n == Normalize(doc.normalized, rec)
           old == map[k]
           entry == IF k \in DOMAIN map
                    THEN [old EXCEPT !.value = MergeRicher(old.value, rec.data)]
                    ELSE [value |-> rec.data, firstIndex |-> Source(rec)]
<1>1. n = [type \in Types |-> IF type = rec.type THEN Put(map, k, entry) ELSE doc.normalized[type]]
  BY DEF Normalize, MergeEntry, IInv, ShapeInv
<1>2. n[rec.type] = Put(map, k, entry) /\ \A type \in Types \ {rec.type} : n[type] = doc.normalized[type]
  BY <1>1
<1>3. k \in DOMAIN map => entry.value = MergeRicher(map[k].value, rec.data)
  BY DEF IInv, EntriesInv, IsEntry
<1>4. k \notin DOMAIN map => entry.value = rec.data
  OBVIOUS
<1> HIDE DEF map, k, entry, n
<1>5. /\ DOMAIN Put(map, k, entry) = DOMAIN map \cup {k}
      /\ Put(map, k, entry)[k] = entry
      /\ \A key \in DOMAIN map \ {k} : Put(map, k, entry)[key] = map[key]
  BY DEF Put
<1>6. /\ DOMAIN n[rec.type] = DOMAIN map \cup {k}
      /\ k \in DOMAIN map => n[rec.type][k].value = MergeRicher(map[k].value, rec.data)
      /\ k \notin DOMAIN map => n[rec.type][k].value = rec.data
      /\ \A key \in DOMAIN map \ {k} : n[rec.type][key] = map[key]
      /\ \A type \in Types \ {rec.type} : n[type] = doc.normalized[type]
  BY <1>2, <1>3, <1>4, <1>5
<1>. QED
  BY <1>6 DEF map, k, n

LEMMA GivenStep ==
  ASSUME IInv, NEW rec \in Records, log' = Append(log, rec), NEW type, NEW key
  PROVE  /\ Given(type, key) \subseteq DOMAIN log
         /\ rec.type = type /\ ~Malformed(rec) /\ NormalizedKey(rec) = key =>
              Given(type, key)' = Given(type, key) \cup {Len(log) + 1}
         /\ ~(rec.type = type /\ ~Malformed(rec) /\ NormalizedKey(rec) = key) =>
              Given(type, key)' = Given(type, key)
<1>1. /\ DOMAIN log' = DOMAIN log \cup {Len(log) + 1}
      /\ log'[Len(log) + 1] = rec
      /\ \A n \in DOMAIN log : log'[n] = log[n]
  BY LogStep
<1>. QED
  BY <1>1 DEF Given

LEMMA MergedStep ==
  ASSUME IInv, MergedInv, NEW rec \in Records, log' = Append(log, rec), doc' = ReadRecord(doc, rec)
  PROVE  MergedInv'
<1> DEFINE N == Len(log) + 1
           Concerns(type, key) == rec.type = type /\ ~Malformed(rec) /\ NormalizedKey(rec) = key
<1>1. doc'.normalized = Normalize(doc.normalized, rec)
  BY DEF ReadRecord
<1>2. log'[N] = rec /\ \A n \in DOMAIN log : log'[n] = log[n]
  BY LogStep
<1>3. ASSUME NEW type \in Types, NEW key \in DOMAIN doc'.normalized[type], ~Concerns(type, key)
      PROVE  MadeOf(doc'.normalized[type][key].value, Given(type, key)', log')
  <2>1. key \in DOMAIN doc.normalized[type] /\ doc'.normalized[type][key] = doc.normalized[type][key]
    <3>1. CASE rec.type \notin Types \/ Malformed(rec)
      BY <1>1, <1>3, <3>1 DEF Normalize
    <3>2. CASE rec.type \in Types /\ ~Malformed(rec)
      BY <1>1, <1>3, <3>2, NormalizeExact
    <3>. QED
      BY <3>1, <3>2
  <2>2. Given(type, key)' = Given(type, key) /\ Given(type, key) \subseteq DOMAIN log
    BY <1>3, GivenStep
  <2>3. MadeOf(doc.normalized[type][key].value, Given(type, key), log)
    BY <2>1 DEF MergedInv
  <2>. QED
    BY <1>2, <2>1, <2>2, <2>3 DEF MadeOf
<1>4. ASSUME NEW type \in Types, NEW key \in DOMAIN doc'.normalized[type], Concerns(type, key)
      PROVE  MadeOf(doc'.normalized[type][key].value, Given(type, key)', log')
  <2> DEFINE old == doc.normalized[type][key].value
             new == doc'.normalized[type][key].value
             G == Given(type, key)
  <2>1. Given(type, key)' = G \cup {N} /\ G \subseteq DOMAIN log
    BY <1>4, GivenStep
  <2>2. /\ key \in DOMAIN doc.normalized[type] => new = MergeRicher(old, rec.data)
        /\ key \notin DOMAIN doc.normalized[type] => new = rec.data
    BY <1>1, <1>4, NormalizeExact
  <2>3. key \in DOMAIN doc.normalized[type] => MadeOf(old, G, log)
    BY DEF MergedInv
  <2>4. key \notin DOMAIN doc.normalized[type] => G = {}
    BY DEF MergedInv, Given
  <2> HIDE DEF old, new, G
  <2>5. N \in G \cup {N} /\ log'[N].data = rec.data /\ \A n \in G : log'[n].data = log[n].data
    BY <1>2, <2>1
  <2>6. MadeOf(new, G \cup {N}, log')
    <3>1. CASE key \in DOMAIN doc.normalized[type]
      <4>1. /\ DOMAIN new = DOMAIN old \cup DOMAIN rec.data
            /\ \A field \in DOMAIN new :
                 \/ field \in DOMAIN old /\ new[field] = old[field]
                 \/ field \in DOMAIN rec.data /\ new[field] = rec.data[field]
        <5>1. Mixes(MergeRicher(old, rec.data), old, rec.data)
          BY MergeFields
        <5>2. Mixes(new, old, rec.data)
          BY <2>2, <3>1, <5>1
        <5>. QED
          BY <5>2 DEF Mixes
      <4>2. \A n \in G \cup {N} : DOMAIN log'[n].data \subseteq DOMAIN new
        BY <2>3, <2>5, <3>1, <4>1 DEF MadeOf
      <4>3. ASSUME NEW field \in DOMAIN new
            PROVE  \E n \in G \cup {N} : field \in DOMAIN log'[n].data /\ log'[n].data[field] = new[field]
        <5>1. CASE field \in DOMAIN old /\ new[field] = old[field]
          <6>1. PICK n \in G : field \in DOMAIN log[n].data /\ log[n].data[field] = old[field]
            BY <2>3, <3>1, <5>1 DEF MadeOf
          <6>. QED
            BY <2>5, <5>1, <6>1
        <5>2. CASE field \in DOMAIN rec.data /\ new[field] = rec.data[field]
          BY <2>5, <5>2
        <5>. QED
          BY <4>1, <5>1, <5>2
      <4>. QED
        BY <2>5, <4>2, <4>3 DEF MadeOf
    <3>2. CASE key \notin DOMAIN doc.normalized[type]
      <4>1. G \cup {N} = {N} /\ new = rec.data
        BY <2>2, <2>4, <3>2
      <4>. QED
        BY <2>5, <4>1 DEF MadeOf
    <3>. QED
      BY <3>1, <3>2
  <2>. QED
    BY <2>1, <2>6 DEF new
<1>5. ASSUME NEW type \in Types, NEW n \in DOMAIN log', log'[n].type = type, ~Malformed(log'[n])
      PROVE  NormalizedKey(log'[n]) \in DOMAIN doc'.normalized[type]
  <2>1. CASE n = N
    <3>1. rec.type = type /\ ~Malformed(rec)
      BY <1>2, <1>5, <2>1
    <3>. QED
      BY <1>1, <1>2, <2>1, <3>1, NormalizeExact
  <2>2. CASE n \in DOMAIN log
    <3>1. NormalizedKey(log[n]) \in DOMAIN doc.normalized[type]
      BY <1>2, <1>5, <2>2 DEF MergedInv
    <3>2. DOMAIN doc.normalized[type] \subseteq DOMAIN doc'.normalized[type]
      <4>1. CASE rec.type \notin Types \/ Malformed(rec)
        BY <1>1, <4>1 DEF Normalize
      <4>2. CASE rec.type \in Types /\ ~Malformed(rec)
        BY <1>1, <4>2, NormalizeExact
      <4>. QED
        BY <4>1, <4>2
    <3>. QED
      BY <1>2, <2>2, <3>1, <3>2
  <2>. QED
    BY <2>1, <2>2, LogStep
<1> HIDE DEF Concerns
<1>. QED
  BY <1>3, <1>4, <1>5 DEF MergedInv

LEMMA OriginInvariance == Spec => []OriginInv
<1>1. Init => OriginInv
  BY DEF Init, OriginInv, PlacesInv, WarnedInv, MergedInv, EmptyDocument, NoEntries
<1>2. IInv /\ OriginInv /\ [Next]_vars => OriginInv'
  <2>1. ASSUME IInv, OriginInv, Next
        PROVE  OriginInv'
    <3>1. PICK rec \in Records :
            /\ log' = Append(log, rec)
            /\ doc' = ReadRecord(doc, rec)
            /\ Follows(rec)
      BY <2>1, NextReads
    <3>. QED
      BY <2>1, <3>1, PlacesStep, WarnedStep, MergedStep DEF OriginInv
  <2>2. ASSUME OriginInv, UNCHANGED vars
        PROVE  OriginInv'
    <3>1. log' = log /\ doc' = doc
      BY <2>2 DEF vars
    <3>2. \A type, key : Given(type, key)' = Given(type, key)
      BY <3>1 DEF Given
    <3>. QED
      BY <2>2, <3>1, <3>2 DEF OriginInv, PlacesInv, WarnedInv, MergedInv
  <2>. QED
    BY <2>1, <2>2
<1>. QED
  BY <1>1, <1>2, Invariance, PTL DEF Spec

-----------------------------------------------------------------------------
(* What both passes know in a share that the page shows.                   *)

AllInv == IInv /\ ProvenanceIsExact /\ OriginInv

LEMMA AllInvariance == Spec => []AllInv
BY Invariance, ProvenanceAlwaysExact, OriginInvariance, PTL DEF AllInv

(* Every record of such a share has one key in both passes, models aside.  *)
LEMMA CleanRecord ==
  ASSUME AllInv, ~Corrupt(doc), NEW n \in DOMAIN log
  PROVE  /\ log[n] \in Records /\ Source(log[n]) \in Positions /\ ~Malformed(log[n])
         /\ log[n].type \in Types =>
              /\ Recorded(log[n]) /\ NormalizedKey(log[n]) # Absent
              /\ log[n].type # "model" => NormalizedKey(log[n]) = LatestKey(log[n])
<1>1. log[n] \in Records
  BY DEF AllInv, IInv, LogInv
<1>2. ~Malformed(log[n])
  BY DEF AllInv, OriginInv, WarnedInv, Malformed, Corrupt
<1>3. Source(log[n]) \in Positions
  BY <1>1 DEF Records, Positions, Source
<1>. QED
  BY <1>1, <1>2, <1>3, KeysAgree DEF Recorded

LEMMA FirstRecord ==
  ASSUME AllInv, NEW type \in Types, NEW key \in DOMAIN doc.latest[type]
  PROVE  \E n \in Entries(type, key) : doc.latest[type][key][1].sourceIndex = Source(log[n])
<1> DEFINE history == doc.latest[type][key]
<1>1. history \in Seq(Versions) \ {<<>>}
  BY DEF AllInv, IInv, EntriesInv
<1>2. 1 \in DOMAIN history
  BY <1>1
<1>3. HistoryOf(type, key)
  BY DEF AllInv, ProvenanceIsExact
<1>4. PICK at \in [DOMAIN history -> Entries(type, key)] :
        history[1] = [value |-> log[at[1]].data, sourceIndex |-> Source(log[at[1]])]
  BY <1>2, <1>3 DEF HistoryOf
<1>. QED
  BY <1>2, <1>4

LEMMA FiniteKeys ==
  ASSUME AllInv, NEW type \in Types
  PROVE  IsFiniteSet(DOMAIN doc.latest[type])
<1> DEFINE places == {n \in DOMAIN log : log[n].type = type /\ Recorded(log[n])}
           keys == DOMAIN doc.latest[type]
           f == [n \in places |-> LatestKey(log[n])]
<1>1. keys = {LatestKey(log[n]) : n \in places}
  BY DEF AllInv, ProvenanceIsExact
<1>2. IsFiniteSet(places)
  <2>1. Len(log) \in Nat /\ places \subseteq 1..Len(log)
    BY DEF AllInv, IInv, LogInv
  <2>2. IsFiniteSet(1..Len(log))
    BY <2>1, FS_Interval
  <2> HIDE DEF places
  <2>. QED
    BY <2>1, <2>2, FS_Subset
<1> HIDE DEF places, keys
<1>3. f \in Surjection(places, keys)
  BY <1>1 DEF Surjection
<1> HIDE DEF f
<1>4. IsFiniteSet(keys)
  BY <1>2, <1>3, FS_Surjection
<1>. QED
  BY <1>4 DEF keys

(* The order in which entities were added is one: two of them come from    *)
(* two records, and no two records stand at one place.                     *)
LEMMA AddedOrder ==
  ASSUME AllInv, NEW type \in Types
  PROVE  StrictOrderOn(DOMAIN doc.latest[type], AddedBefore(doc.latest, type))
<1> DEFINE keys == DOMAIN doc.latest[type]
           first(key) == doc.latest[type][key][1].sourceIndex
           A == AddedBefore(doc.latest, type)
<1>1. \A a, b \in keys : <<a, b>> \in A <=> Before(first(a), first(b))
  BY DEF AddedBefore, Before
<1>2. ASSUME NEW a \in keys
      PROVE  /\ first(a) \in Positions
             /\ \E n \in DOMAIN log : LatestKey(log[n]) = a /\ first(a) = Source(log[n])
  <2>1. PICK n \in Entries(type, a) : first(a) = Source(log[n])
    BY FirstRecord
  <2>2. n \in DOMAIN log /\ LatestKey(log[n]) = a
    BY <2>1 DEF Entries
  <2>3. log[n] \in Records
    BY <2>2 DEF AllInv, IInv, LogInv
  <2>. QED
    BY <2>1, <2>2, <2>3 DEF Records, Positions, Source
<1> HIDE DEF keys, first, A
<1>3. ASSUME NEW a \in keys, NEW b \in keys, a # b
      PROVE  Before(first(a), first(b)) \/ Before(first(b), first(a))
  <2>1. PICK n \in DOMAIN log : LatestKey(log[n]) = a /\ first(a) = Source(log[n])
    BY <1>2
  <2>2. PICK m \in DOMAIN log : LatestKey(log[m]) = b /\ first(b) = Source(log[m])
    BY <1>2
  <2>3. n # m /\ n \in Nat /\ m \in Nat
    BY <1>3, <2>1, <2>2 DEF AllInv, IInv, LogInv
  <2>4. n < m \/ m < n
    BY <2>3
  <2>. QED
    BY <2>1, <2>2, <2>4 DEF AllInv, OriginInv, PlacesInv
<1>4. \A p \in Positions : ~Before(p, p)
  BY DEF Positions, Before
<1>5. \A p, q, s \in Positions : Before(p, q) /\ Before(q, s) => Before(p, s)
  BY DEF Positions, Before
<1>6. StrictOrderOn(keys, A)
  BY <1>1, <1>2, <1>3, <1>4, <1>5 DEF StrictOrderOn
<1>. QED
  BY <1>6 DEF keys, A

(* Objects stand alone in their events, so they are in the order of those. *)
LEMMA FirstSeenFacts ==
  ASSUME AllInv, ~Corrupt(doc), NEW type \in ObjectTypes
  PROVE  /\ DOMAIN doc.normalized[type] = DOMAIN doc.latest[type]
         /\ \A key \in DOMAIN doc.latest[type] :
              FirstSeen(doc.normalized, type, key) = FirstIndex(doc.latest, type, key)
         /\ \A a, b \in DOMAIN doc.latest[type] :
              <<a, b>> \in AddedBefore(doc.latest, type) <=>
                FirstIndex(doc.latest, type, a) < FirstIndex(doc.latest, type, b)
<1>1. type \in Types \ {"model"} /\ type \notin ArrayTypes
  BY DEF Types, ObjectTypes, ArrayTypes
<1>2. /\ DOMAIN doc.normalized[type] = DOMAIN doc.latest[type]
      /\ \A key \in DOMAIN doc.latest[type] :
           doc.normalized[type][key].firstIndex = doc.latest[type][key][1].sourceIndex
  BY <1>1 DEF AllInv, IInv, ViewsAgree
<1>3. ASSUME NEW key \in DOMAIN doc.latest[type]
      PROVE  /\ doc.latest[type][key][1].sourceIndex.arrayOffset = 0
             /\ doc.latest[type][key][1].sourceIndex.rawItemIndex \in Nat
  <2>1. PICK n \in Entries(type, key) : doc.latest[type][key][1].sourceIndex = Source(log[n])
    BY <1>1, FirstRecord
  <2>2. n \in DOMAIN log /\ log[n].type = type /\ log[n] \in Records
    BY <2>1 DEF Entries, AllInv, IInv, LogInv
  <2>3. log[n].arrayOffset = 0
    BY <1>1, <2>2 DEF AllInv, OriginInv, PlacesInv
  <2>. QED
    BY <2>1, <2>2, <2>3 DEF Source, Records
<1>4. ASSUME NEW a \in DOMAIN doc.latest[type], NEW b \in DOMAIN doc.latest[type]
      PROVE  <<a, b>> \in AddedBefore(doc.latest, type) <=>
               FirstIndex(doc.latest, type, a) < FirstIndex(doc.latest, type, b)
  <2> DEFINE one == doc.latest[type][a][1].sourceIndex
             two == doc.latest[type][b][1].sourceIndex
  <2>1. <<a, b>> \in AddedBefore(doc.latest, type) <=>
          \/ one.rawItemIndex < two.rawItemIndex
          \/ one.rawItemIndex = two.rawItemIndex /\ one.arrayOffset < two.arrayOffset
    BY DEF AddedBefore
  <2>2. one.arrayOffset = 0 /\ two.arrayOffset = 0
    BY <1>3
  <2> HIDE DEF one, two
  <2>3. ~(one.arrayOffset < two.arrayOffset)
    BY <2>2
  <2>. QED
    BY <2>1, <2>3 DEF FirstIndex, one, two
<1>. QED
  BY <1>2, <1>4 DEF FirstSeen, FirstIndex

(* The field a key is made of is that of every version and of the merge.   *)
LEMMA PartFacts ==
  ASSUME AllInv, ~Corrupt(doc), NEW key \in DOMAIN doc.latest["part"]
  PROVE  /\ Get(CurrentOf(doc.latest, "part", key), "messageID") = key[1]
         /\ Get(ValueOf(doc.normalized, "part", key), "messageID") = key[1]
         /\ key[1] # Absent
<1>0. "part" \in Types /\ "part" \in ObjectTypes
  BY DEF Types, ObjectTypes
<1>1. ASSUME NEW n \in DOMAIN log, log[n].type = "part", LatestKey(log[n]) = key
      PROVE  /\ "messageID" \in DOMAIN log[n].data
             /\ log[n].data["messageID"] = key[1]
             /\ key[1] # Absent
  <2>1. NormalizedKey(log[n]) = key /\ NormalizedKey(log[n]) # Absent
    BY <1>0, <1>1, CleanRecord
  <2>2. PartKey(log[n].data) = key /\ key # Absent
    BY <1>1, <2>1 DEF NormalizedKey
  <2>3. /\ StringField(log[n].data, "messageID") # Absent
        /\ key = <<StringField(log[n].data, "messageID"), StringField(log[n].data, "id")>>
    BY <2>2 DEF PartKey
  <2>. QED
    BY <2>3 DEF StringField, Get
<1>2. Get(CurrentOf(doc.latest, "part", key), "messageID") = key[1] /\ key[1] # Absent
  <2> DEFINE history == doc.latest["part"][key]
             last == Len(history)
  <2>1. history \in Seq(Versions) \ {<<>>}
    BY <1>0 DEF AllInv, IInv, EntriesInv
  <2>2. last \in DOMAIN history
    BY <2>1
  <2>3. HistoryOf("part", key)
    BY <1>0 DEF AllInv, ProvenanceIsExact
  <2>4. PICK at \in [DOMAIN history -> Entries("part", key)] :
          history[last] = [value |-> log[at[last]].data, sourceIndex |-> Source(log[at[last]])]
    BY <2>2, <2>3 DEF HistoryOf
  <2>5. at[last] \in DOMAIN log /\ log[at[last]].type = "part" /\ LatestKey(log[at[last]]) = key
    BY <2>2, <2>4 DEF Entries
  <2>6. CurrentOf(doc.latest, "part", key) = log[at[last]].data
    BY <2>4 DEF CurrentOf, Current
  <2>. QED
    BY <1>1, <2>5, <2>6 DEF Get
<1>3. Get(ValueOf(doc.normalized, "part", key), "messageID") = key[1]
  <2> DEFINE value == doc.normalized["part"][key].value
  <2>1. MadeOf(value, Given("part", key), log)
    BY <1>0, FirstSeenFacts DEF AllInv, OriginInv, MergedInv
  <2>2. ASSUME NEW n \in Given("part", key)
        PROVE  "messageID" \in DOMAIN log[n].data /\ log[n].data["messageID"] = key[1]
    <3>1. n \in DOMAIN log /\ log[n].type = "part" /\ NormalizedKey(log[n]) = key
      BY DEF Given
    <3>2. LatestKey(log[n]) = key
      BY <1>0, <3>1, CleanRecord
    <3>. QED
      BY <1>1, <3>1, <3>2
  <2>3. "messageID" \in DOMAIN value
    BY <2>1, <2>2 DEF MadeOf
  <2>4. value["messageID"] = key[1]
    BY <2>1, <2>2, <2>3 DEF MadeOf
  <2>. QED
    BY <2>3, <2>4 DEF Get, ValueOf
<1>. QED
  BY <1>2, <1>3

LEMMA PartsGrouped ==
  ASSUME AllInv, ~Corrupt(doc), NEW messageID \in DOMAIN Data.partsByMessageID
  PROVE  Data.partsByMessageID[messageID] = PartsOf(doc.latest, messageID)
<1> DEFINE D == DOMAIN doc.latest["part"]
           A == AddedBefore(doc.latest, "part")
           L == Listed(D, A)
           T == {key \in D : Get(CurrentOf(doc.latest, "part", key), "messageID") = messageID}
           group(i) == Or(Get(ValueOf(doc.normalized, "part", L[i]), "messageID"), Empty)
<1>0. "part" \in Types /\ "part" \in ObjectTypes
  BY DEF Types, ObjectTypes
<1>1. SortParts(doc.normalized) = L
  <2>1. DOMAIN doc.normalized["part"] = D
    BY <1>0, FirstSeenFacts
  <2>2. \A a, b \in D : <<a, b>> \in SeenBefore(doc.normalized) <=> <<a, b>> \in A
    <3>1. \A a, b \in D : <<a, b>> \in SeenBefore(doc.normalized) <=>
                            FirstSeen(doc.normalized, "part", a) < FirstSeen(doc.normalized, "part", b)
      BY <2>1 DEF SeenBefore
    <3>. QED
      BY <1>0, <3>1, FirstSeenFacts
  <2> HIDE DEF D, A
  <2>3. Listed(D, SeenBefore(doc.normalized)) = Listed(D, A)
    BY <2>2, ListedDepends
  <2>. QED
    BY <2>1, <2>3 DEF SortParts
<1>2. Data.partsByMessageID = GroupBy(doc.normalized, "part", L, "messageID")
  BY <1>1 DEF Data, NormalizedShareData
<1>3. IsFiniteSet(D) /\ StrictOrderOn(D, A)
  BY <1>0, FiniteKeys, AddedOrder
<1>4. \A key \in D : /\ Or(Get(ValueOf(doc.normalized, "part", key), "messageID"), Empty) = key[1]
                     /\ Get(CurrentOf(doc.latest, "part", key), "messageID") = key[1]
  BY PartFacts DEF Or
<1>5. T \in SUBSET D
  OBVIOUS
<1>6. /\ messageID \in {group(i) : i \in DOMAIN L}
      /\ Data.partsByMessageID[messageID] = Kept(L, {i \in DOMAIN L : group(i) = messageID})
  BY <1>2 DEF GroupBy
<1>7. PartsOf(doc.latest, messageID) = Listed(T, A)
  BY DEF PartsOf
<1> HIDE DEF D, A, T
<1>8. \A i \in DOMAIN L : L[i] \in D
  BY <1>3, ListedFacts
<1>9. \A i \in DOMAIN L : group(i) = messageID <=> L[i] \in T
  BY <1>4, <1>8 DEF T
<1>10. Kept(L, {i \in DOMAIN L : L[i] \in T}) = Listed(T, A)
  BY <1>3, <1>5, KeptListed
<1> HIDE DEF L, group
<1>11. {i \in DOMAIN L : group(i) = messageID} = {i \in DOMAIN L : L[i] \in T}
  BY <1>9
<1>. QED
  BY <1>6, <1>7, <1>10, <1>11

(* Once its versions agree on a creation time, that is the time of the     *)
(* version shown and of the merge.                                         *)
LEMMA TimeFacts ==
  ASSUME AllInv, ~Corrupt(doc), TimesAreSettled, NEW key \in DOMAIN doc.latest["message"]
  PROVE  \E t \in Nat : /\ t # Absent
                        /\ Get(CurrentOf(doc.latest, "message", key), "created") = t
                        /\ Get(ValueOf(doc.normalized, "message", key), "created") = t
<1> DEFINE history == doc.latest["message"][key]
           times == {Get(history[i].value, "created") : i \in DOMAIN history}
           value == doc.normalized["message"][key].value
<1>0. "message" \in Types /\ "message" \in ObjectTypes
  BY DEF Types, ObjectTypes
<1>1. history \in Seq(Versions) \ {<<>>}
  BY <1>0 DEF AllInv, IInv, EntriesInv
<1>2. PICK t : times = {t}
  <2> DEFINE f == [i \in DOMAIN history |-> Get(history[i].value, "created")]
  <2>1. IsFiniteSet(DOMAIN history)
    <3>1. DOMAIN history = 1..Len(history) /\ Len(history) \in Nat
      BY <1>1
    <3>. QED
      BY <3>1, FS_Interval
  <2>2. f \in Surjection(DOMAIN history, times)
    BY DEF Surjection
  <2>3. Cardinality(times) = 1
    BY DEF TimesAreSettled
  <2> HIDE DEF f, times, history
  <2>4. IsFiniteSet(times)
    BY <2>1, <2>2, FS_Surjection
  <2>. QED
    BY <2>3, <2>4, FS_Singleton
<1>3. t # Absent
  BY <1>2 DEF TimesAreSettled
<1>4. \A i \in DOMAIN history : Get(history[i].value, "created") = t
  BY <1>2
<1>5. HistoryOf("message", key)
  BY <1>0 DEF AllInv, ProvenanceIsExact
<1>6. PICK at \in [DOMAIN history -> Entries("message", key)] :
        /\ {at[i] : i \in DOMAIN history} = Entries("message", key)
        /\ \A i \in DOMAIN history :
             history[i] = [value |-> log[at[i]].data, sourceIndex |-> Source(log[at[i]])]
  BY <1>5 DEF HistoryOf
<1>7. Len(history) \in DOMAIN history
  BY <1>1
<1> HIDE DEF history, times
<1>8. \A n \in Entries("message", key) : Get(log[n].data, "created") = t
  BY <1>4, <1>6
<1>9. CurrentOf(doc.latest, "message", key) = history[Len(history)].value
  BY DEF CurrentOf, Current, history
<1>10. t \in Nat
  <2>1. PICK n \in Entries("message", key) : TRUE
    BY <1>6, <1>7
  <2>2. log[n] \in Records /\ log[n].data # NotData
    BY <2>1 DEF Entries, Recorded, AllInv, IInv, LogInv
  <2>3. IsObject(log[n].data)
    BY <2>2, InputAssumption DEF Records, Payloads
  <2>4. "created" \in DOMAIN log[n].data /\ log[n].data["created"] = t
    BY <1>3, <1>8, <2>1 DEF Get
  <2>. QED
    BY <2>3, <2>4 DEF IsObject
<1>11. Get(value, "created") = t
  <2>1. MadeOf(value, Given("message", key), log)
    BY <1>0, FirstSeenFacts DEF AllInv, OriginInv, MergedInv
  <2>2. ASSUME NEW n \in Given("message", key)
        PROVE  "created" \in DOMAIN log[n].data /\ log[n].data["created"] = t
    <3>1. n \in DOMAIN log /\ log[n].type = "message" /\ NormalizedKey(log[n]) = key
      BY DEF Given
    <3>2. n \in Entries("message", key)
      BY <1>0, <3>1, CleanRecord DEF Entries
    <3>. QED
      BY <1>3, <1>8, <3>2 DEF Get
  <2>3. "created" \in DOMAIN value
    BY <2>1, <2>2 DEF MadeOf
  <2>4. value["created"] = t
    BY <2>1, <2>2, <2>3 DEF MadeOf
  <2>. QED
    BY <2>3, <2>4 DEF Get
<1>. QED
  BY <1>3, <1>4, <1>7, <1>9, <1>10, <1>11 DEF ValueOf

LEMMA MessagesSorted ==
  ASSUME AllInv, ~Corrupt(doc), TimesAreSettled
  PROVE  Data.messages = MessageKeys(doc.latest)
<1> DEFINE D == DOMAIN doc.latest["message"]
           left(key) == Get(CurrentOf(doc.latest, "message", key), "created")
           right(key) == Get(ValueOf(doc.normalized, "message", key), "created")
           seen(key) == FirstIndex(doc.latest, "message", key)
<1>0. "message" \in ObjectTypes
  BY DEF ObjectTypes
<1>1. /\ DOMAIN doc.normalized["message"] = D
      /\ \A key \in D : FirstSeen(doc.normalized, "message", key) = seen(key)
  BY <1>0, FirstSeenFacts
<1>2. \A key \in D : left(key) = right(key) /\ left(key) \in Nat /\ left(key) # Absent
  BY TimeFacts
<1>3. \A key \in D : MessageOrder(doc.latest, key) = left(key)
  BY <1>2 DEF MessageOrder
<1>4. \A a, b \in D : <<a, b>> \in SortedBefore(doc.normalized) <=>
         IF right(a) = right(b)
         THEN FirstSeen(doc.normalized, "message", a) < FirstSeen(doc.normalized, "message", b)
         ELSE right(a) # Absent /\ (right(b) = Absent \/ right(a) < right(b))
  BY <1>1 DEF SortedBefore
<1>5. \A a, b \in D : <<a, b>> \in MessageBefore(doc.latest) <=>
         \/ MessageOrder(doc.latest, a) < MessageOrder(doc.latest, b)
         \/ MessageOrder(doc.latest, a) = MessageOrder(doc.latest, b) /\ seen(a) < seen(b)
  BY DEF MessageBefore
<1>6. Data.messages = Listed(D, SortedBefore(doc.normalized))
  BY <1>1 DEF Data, NormalizedShareData, SortMessages
<1>7. MessageKeys(doc.latest) = Listed(D, MessageBefore(doc.latest))
  BY DEF MessageKeys
<1> HIDE DEF D, left, right, seen
<1>8. ASSUME NEW a \in D, NEW b \in D
      PROVE  <<a, b>> \in SortedBefore(doc.normalized) <=> <<a, b>> \in MessageBefore(doc.latest)
  <2>1. /\ left(a) = right(a) /\ left(b) = right(b) /\ left(a) \in Nat /\ left(b) \in Nat
        /\ left(a) # Absent /\ left(b) # Absent
    BY <1>2
  <2>2. <<a, b>> \in SortedBefore(doc.normalized) <=>
          IF left(a) = left(b) THEN seen(a) < seen(b) ELSE left(a) < left(b)
    BY <1>1, <1>4, <2>1
  <2>3. <<a, b>> \in MessageBefore(doc.latest) <=>
          \/ left(a) < left(b)
          \/ left(a) = left(b) /\ seen(a) < seen(b)
    BY <1>3, <1>5
  <2>4. left(a) = left(b) => ~(left(a) < left(b))
    BY <2>1
  <2>. QED
    BY <2>2, <2>3, <2>4
<1>9. Listed(D, SortedBefore(doc.normalized)) = Listed(D, MessageBefore(doc.latest))
  BY <1>8, ListedDepends
<1>. QED
  BY <1>6, <1>7, <1>9

(* normalizeShareItems and buildLatestState put parts, and messages whose  *)
(* versions carry one creation time, in the same order, however the events *)
(* were merged, repeated or reordered.                                     *)
THEOREM PassesAlwaysAgreeOnOrder == Spec => []PassesAgreeOnOrder
<1>1. AllInv => PassesAgreeOnOrder
  BY PartsGrouped, MessagesSorted DEF PassesAgreeOnOrder
<1>. QED
  BY <1>1, AllInvariance, PTL
-----------------------------------------------------------------------------
(* The graph: raw entries name the entities that buildLatestState keeps.   *)

NodeOf(n) == NodeID(RawEntry(log[n]))

(* The raw log has an entry for the first record of each event.            *)
Named == {n \in DOMAIN log : log[n].arrayOffset = 0}

LEMMA KeysAreDefined ==
  ASSUME AllInv, NEW n \in DOMAIN log, log[n].data # NotData,
         NEW field, Get(log[n].data, field) # Absent
  PROVE  <<Get(log[n].data, field)>> # Absent
<1>1. log[n] \in Records
  BY DEF AllInv, IInv, LogInv
<1>2. PICK input \in Inputs : log[n].data = input.data
  BY <1>1 DEF Records, Payloads
<1>3. field \in DOMAIN input.data /\ Get(log[n].data, field) = input.data[field]
  BY <1>2 DEF Get
<1>4. \A f \in DOMAIN input.data : <<input.data[f]>> # Absent
  BY <1>2, NameAssumption
<1>. QED
  BY <1>3, <1>4

LEMMA NamesAreNames ==
  ASSUME AllInv, NEW n \in DOMAIN log, log[n].data # NotData,
         NEW field \in {"id", "sessionID", "parentID"}, Get(log[n].data, field) # Absent
  PROVE  /\ <<Get(log[n].data, field)>> # Absent
         /\ \A i \in Nat : Get(log[n].data, field) # <<"raw", i>>
         /\ \A i \in Nat : Get(log[n].data, field) # <<"session", i>>
<1>1. log[n] \in Records
  BY DEF AllInv, IInv, LogInv
<1>2. PICK input \in Inputs : log[n].data = input.data
  BY <1>1 DEF Records, Payloads
<1>3. field \in DOMAIN input.data /\ Get(log[n].data, field) = input.data[field]
  BY <1>2 DEF Get
<1>4. input.data[field] \notin (Types \cup {"raw"}) \X Nat
  <2>1. \A f \in DOMAIN input.data \cap {"id", "sessionID", "parentID"} :
          input.data[f] \notin (Types \cup {"raw"}) \X Nat
    BY <1>2, NameAssumption
  <2>. QED
    BY <1>3, <2>1
<1>5. \A i \in Nat : <<"raw", i>> \in (Types \cup {"raw"}) \X Nat
  OBVIOUS
<1>6. \A i \in Nat : <<"session", i>> \in (Types \cup {"raw"}) \X Nat
  BY DEF Types, ObjectTypes
<1>7. <<Get(log[n].data, field)>> # Absent
  BY KeysAreDefined
<1>. QED
  BY <1>3, <1>4, <1>5, <1>6, <1>7

LEMMA CleanData ==
  ASSUME AllInv, ~Corrupt(doc), NEW n \in DOMAIN log
  PROVE  LET rec == log[n]
         IN  /\ rec.type \in Types \cup {"unknown"}
             /\ rec.type \in Types => rec.data # NotData
             /\ rec.type = "message" =>
                  /\ StringField(rec.data, "id") # Absent
                  /\ LatestKey(rec) = <<StringField(rec.data, "id")>>
             /\ rec.type = "part" =>
                  /\ Get(rec.data, "type") # Absent
                  /\ StringField(rec.data, "id") # Absent /\ StringField(rec.data, "messageID") # Absent
                  /\ PartKey(rec.data) = LatestKey(rec)
                  /\ LatestKey(rec) = <<StringField(rec.data, "messageID"), StringField(rec.data, "id")>>
             /\ rec.type = "session" =>
                  LatestKey(rec) = IF StringField(rec.data, "id") = Absent
                                   THEN <<"session", rec.rawItemIndex>>
                                   ELSE <<StringField(rec.data, "id")>>
<1> DEFINE rec == log[n]
<1>1. rec \in Records /\ ~Malformed(rec)
  BY CleanRecord
<1>2. rec.type \in Types =>
        /\ Recorded(rec) /\ NormalizedKey(rec) # Absent
        /\ rec.type # "model" => NormalizedKey(rec) = LatestKey(rec)
  BY CleanRecord
<1> HIDE DEF rec
<1>3. rec.type \in Types \cup {"unknown"}
  <2>1. rec.type \in Types \cup {"malformed", "unknown"}
    BY <1>1 DEF Records
  <2>2. rec.type # "malformed"
    <3>1. SUFFICES ASSUME rec.type = "malformed" PROVE FALSE
      OBVIOUS
    <3>2. Warning("malformed_item", rec) \in RecordWarnings(rec)
      BY <3>1 DEF RecordWarnings, Types, ObjectTypes, ArrayTypes
    <3>. QED
      BY <1>1, <3>2 DEF Malformed, Warning
  <2>. QED
    BY <2>1, <2>2
<1>4. rec.type \in Types => rec.data # NotData
  BY <1>2 DEF Recorded
<1>5. ASSUME rec.type = "message"
      PROVE  /\ StringField(rec.data, "id") # Absent
             /\ LatestKey(rec) = <<StringField(rec.data, "id")>>
  <2>1. NormalizedKey(rec) # Absent /\ NormalizedKey(rec) = LatestKey(rec)
    BY <1>2, <1>5 DEF Types, ObjectTypes
  <2>2. NormalizedKey(rec) = IDKey(rec.data)
    BY <1>5 DEF NormalizedKey
  <2>. QED
    BY <2>1, <2>2 DEF IDKey
<1>6. ASSUME rec.type = "part"
      PROVE  /\ Get(rec.data, "type") # Absent
             /\ StringField(rec.data, "id") # Absent /\ StringField(rec.data, "messageID") # Absent
             /\ PartKey(rec.data) = LatestKey(rec)
             /\ LatestKey(rec) = <<StringField(rec.data, "messageID"), StringField(rec.data, "id")>>
  <2>0. "part" \in Types
    BY DEF Types, ObjectTypes
  <2>1. NormalizedKey(rec) # Absent /\ NormalizedKey(rec) = LatestKey(rec)
    BY <1>2, <1>6, <2>0
  <2>2. NormalizedKey(rec) = PartKey(rec.data)
    BY <1>6 DEF NormalizedKey
  <2>3. Get(rec.data, "type") # Absent
    <3>1. SUFFICES ASSUME Get(rec.data, "type") = Absent PROVE FALSE
      OBVIOUS
    <3>2. StringField(rec.data, "type") = Absent
      BY <3>1 DEF StringField
    <3>3. DataWarnings(rec) = {Warning("malformed_data", rec)}
      BY <1>6, <3>2 DEF DataWarnings
    <3>4. RecordWarnings(rec) = DataWarnings(rec)
      BY <1>4, <1>6, <2>0 DEF RecordWarnings
    <3>5. Warning("malformed_data", rec).code = "malformed_data"
      BY DEF Warning
    <3>. QED
      BY <1>1, <3>3, <3>4, <3>5 DEF Malformed
  <2>. QED
    BY <2>1, <2>2, <2>3 DEF PartKey
<1>7. ASSUME rec.type = "session"
      PROVE  LatestKey(rec) = IF StringField(rec.data, "id") = Absent
                              THEN <<"session", rec.rawItemIndex>>
                              ELSE <<StringField(rec.data, "id")>>
  <2>1. NormalizedKey(rec) = LatestKey(rec)
    BY <1>2, <1>7 DEF Types, ObjectTypes
  <2>2. NormalizedKey(rec) = Or(IDKey(rec.data), FallbackKey(rec))
    BY <1>7 DEF NormalizedKey
  <2>3. FallbackKey(rec) = <<"session", rec.rawItemIndex>>
    BY <1>7 DEF FallbackKey, ArrayTypes
  <2>4. CASE StringField(rec.data, "id") = Absent
    BY <2>1, <2>2, <2>3, <2>4 DEF IDKey, Or
  <2>5. CASE StringField(rec.data, "id") # Absent
    <3>1. IDKey(rec.data) = <<StringField(rec.data, "id")>>
      BY <2>5 DEF IDKey
    <3>2. StringField(rec.data, "id") = Get(rec.data, "id")
      BY <2>5 DEF StringField
    <3>3. rec.data # NotData
      BY <1>4, <1>7 DEF Types, ObjectTypes
    <3>4. <<StringField(rec.data, "id")>> # Absent
      BY <2>5, <3>2, <3>3, NamesAreNames DEF rec
    <3>. QED
      BY <2>1, <2>2, <2>5, <3>1, <3>4 DEF Or
  <2>. QED
    BY <2>4, <2>5
<1>. QED
  BY <1>3, <1>4, <1>5, <1>6, <1>7 DEF rec

LEMMA NodeFacts ==
  ASSUME AllInv, ~Corrupt(doc), NEW n \in DOMAIN log
  PROVE  LET rec == log[n]
         IN  /\ RawEntry(rec).rawIndex = rec.rawItemIndex
             /\ rec.type = "message" => NodeOf(n) = <<"message", StringField(rec.data, "id")>>
             /\ rec.type = "part" => NodeOf(n) = <<"part", LatestKey(rec)>>
             /\ rec.type = "session" =>
                  NodeOf(n) = <<"session", Or(StringField(rec.data, "id"), <<"raw", rec.rawItemIndex>>)>>
             /\ rec.type \notin ObjectTypes => NodeOf(n)[1] \notin ObjectTypes
<1> DEFINE rec == log[n]
<1>1. /\ rec.type \in Types \cup {"unknown"}
      /\ rec.type \in Types => rec.data # NotData
  BY CleanData
<1>2. rec.type = "message" => StringField(rec.data, "id") # Absent
  BY CleanData
<1>3. rec.type = "part" =>
        /\ Get(rec.data, "type") # Absent
        /\ StringField(rec.data, "id") # Absent /\ StringField(rec.data, "messageID") # Absent
        /\ LatestKey(rec) = <<StringField(rec.data, "messageID"), StringField(rec.data, "id")>>
  BY CleanData
<1>4. NodeOf(n) = NodeID(RawEntry(rec))
  BY DEF NodeOf
<1> HIDE DEF rec
<1> DEFINE entry == RawEntry(rec)
<1>5. CASE rec.type = "message"
  <2>1. entry = BaseEntry(rec, "message", StringField(rec.data, "sessionID"),
                          StringField(rec.data, "id"), StringField(rec.data, "id"))
    BY <1>1, <1>5 DEF RawEntry, Types, ObjectTypes, ArrayTypes
  <2>2. /\ entry.rawIndex = rec.rawItemIndex /\ entry.kind = "message"
        /\ entry.messageID = StringField(rec.data, "id")
    BY <2>1 DEF BaseEntry
  <2> HIDE DEF entry
  <2>3. NodeID(entry) = <<"message", StringField(rec.data, "id")>>
    BY <1>2, <1>5, <2>2 DEF NodeID
  <2>. QED
    BY <1>4, <1>5, <2>2, <2>3 DEF entry, ObjectTypes, rec
<1>6. CASE rec.type = "part"
  <2>1. \E kind \in KnownEntryParts \cup {"unknown_part"} :
          entry = BaseEntry(rec, kind, StringField(rec.data, "sessionID"),
                            StringField(rec.data, "messageID"), StringField(rec.data, "id"))
    BY <1>1, <1>3, <1>6 DEF RawEntry, Types, ObjectTypes, ArrayTypes
  <2>2. /\ entry.rawIndex = rec.rawItemIndex /\ entry.kind \in KnownEntryParts \cup {"unknown_part"}
        /\ entry.messageID = StringField(rec.data, "messageID")
        /\ entry.itemID = StringField(rec.data, "id")
    BY <2>1 DEF BaseEntry
  <2>3. entry.kind \notin {"session", "message"}
    BY <2>2 DEF KnownEntryParts
  <2> HIDE DEF entry
  <2>4. NodeID(entry) = <<"part", <<entry.messageID, entry.itemID>>>>
    BY <1>3, <1>6, <2>2, <2>3 DEF NodeID
  <2>. QED
    BY <1>3, <1>4, <1>6, <2>2, <2>4 DEF entry, ObjectTypes, rec
<1>7. CASE rec.type = "session"
  <2>1. entry = BaseEntry(rec, "session", StringField(rec.data, "id"), Absent, StringField(rec.data, "id"))
    BY <1>1, <1>7 DEF RawEntry, Types, ObjectTypes, ArrayTypes
  <2>2. /\ entry.rawIndex = rec.rawItemIndex /\ entry.kind = "session"
        /\ entry.sessionID = StringField(rec.data, "id") /\ entry.itemID = StringField(rec.data, "id")
        /\ entry.messageID = Absent
    BY <2>1 DEF BaseEntry
  <2> HIDE DEF entry
  <2>3. NodeID(entry) = <<"session", Or(StringField(rec.data, "id"), <<"raw", rec.rawItemIndex>>)>>
    BY <2>2 DEF NodeID, AnyID, Or
  <2>. QED
    BY <1>4, <1>7, <2>2, <2>3 DEF entry, ObjectTypes, rec
<1>8. CASE rec.type \notin ObjectTypes
  <2>1. \E kind \in {"unknown_top_level", "session_diff", "model"} :
          entry = BaseEntry(rec, kind, Absent, Absent, Absent)
    BY <1>1, <1>8 DEF RawEntry, Types, ObjectTypes, ArrayTypes
  <2>2. /\ entry.rawIndex = rec.rawItemIndex /\ entry.kind \in {"unknown_top_level", "session_diff", "model"}
        /\ entry.messageID = Absent
    BY <2>1 DEF BaseEntry
  <2> HIDE DEF entry
  <2>3. NodeID(entry) = <<entry.kind, AnyID(entry)>>
    BY <2>2 DEF NodeID
  <2>4. NodeID(entry)[1] \notin ObjectTypes
    BY <2>2, <2>3 DEF ObjectTypes
  <2>. QED
    BY <1>4, <1>8, <2>2, <2>4 DEF entry, ObjectTypes, rec
<1>. QED
  BY <1>5, <1>6, <1>7, <1>8 DEF rec, ObjectTypes

(* Nodes of objects are named by what they are.                            *)
LEMMA NodeKinds ==
  ASSUME AllInv, ~Corrupt(doc), NEW n \in DOMAIN log, NEW type \in ObjectTypes
  PROVE  NodeOf(n)[1] = type <=> log[n].type = type
<1>1. log[n].type = "message" => NodeOf(n) = <<"message", StringField(log[n].data, "id")>>
  BY NodeFacts
<1>2. log[n].type = "part" => NodeOf(n) = <<"part", LatestKey(log[n])>>
  BY NodeFacts
<1>3. log[n].type = "session" =>
        NodeOf(n) = <<"session", Or(StringField(log[n].data, "id"), <<"raw", log[n].rawItemIndex>>)>>
  BY NodeFacts
<1>4. log[n].type \notin ObjectTypes => NodeOf(n)[1] \notin ObjectTypes
  BY NodeFacts
<1> DEFINE node == NodeOf(n)
<1>5. /\ log[n].type = "message" => node[1] = "message"
      /\ log[n].type = "part" => node[1] = "part"
      /\ log[n].type = "session" => node[1] = "session"
  BY <1>1, <1>2, <1>3
<1> HIDE DEF node
<1>6. log[n].type \in ObjectTypes => node[1] = log[n].type
  BY <1>5 DEF ObjectTypes
<1>. QED
  BY <1>4, <1>6 DEF node

LEMMA NamedEntries ==
  ASSUME AllInv, ~Corrupt(doc)
  PROVE  LET entries == RawLog(log)
         IN  /\ \A i \in DOMAIN entries : \E n \in Named :
                  NodeID(entries[i]) = NodeOf(n) /\ entries[i].rawIndex = log[n].rawItemIndex
             /\ \A n \in Named : \E i \in DOMAIN entries :
                  NodeID(entries[i]) = NodeOf(n) /\ entries[i].rawIndex = log[n].rawItemIndex
<1> DEFINE events == EventsOf(log)
           entries == RawLog(log)
<1>1. Len(log) \in Nat /\ DOMAIN log = 1..Len(log)
  BY DEF AllInv, IInv, LogInv
<1>2. Named \in SUBSET (1..Len(log)) /\ events = Kept(log, Named)
  BY <1>1 DEF Named, EventsOf
<1>3. /\ \A i \in DOMAIN events : \E n \in Named : events[i] = log[n]
      /\ \A n \in Named : \E i \in DOMAIN events : events[i] = log[n]
  <2> HIDE DEF events
  <2>1. /\ \A i \in DOMAIN Kept(log, Named) : \E n \in Named : Kept(log, Named)[i] = log[n]
        /\ \A n \in Named : \E i \in DOMAIN Kept(log, Named) : Kept(log, Named)[i] = log[n]
    BY <1>1, <1>2, KeptFacts
  <2>. QED
    BY <1>2, <2>1
<1>4. DOMAIN entries = DOMAIN events /\ \A i \in DOMAIN events : entries[i] = RawEntry(events[i])
  BY DEF RawLog
<1>5. \A n \in Named : RawEntry(log[n]).rawIndex = log[n].rawItemIndex
  BY NodeFacts DEF Named
<1> HIDE DEF events, entries
<1>6. ASSUME NEW i \in DOMAIN entries, NEW n \in Named, events[i] = log[n]
      PROVE  NodeID(entries[i]) = NodeOf(n) /\ entries[i].rawIndex = log[n].rawItemIndex
  <2>1. entries[i] = RawEntry(log[n])
    BY <1>4, <1>6
  <2>. QED
    BY <1>5, <2>1 DEF NodeOf
<1>. QED
  BY <1>3, <1>4, <1>6 DEF entries

LEMMA SourcedIs ==
  ASSUME AllInv, ~Corrupt(doc), NEW node
  PROVE  /\ Sourced(RawLog(log), node) = {log[n].rawItemIndex : n \in {m \in Named : NodeOf(m) = node}}
         /\ node \in Graph(doc.latest, RawLog(log)).nodes <=> \E n \in Named : NodeOf(n) = node
<1> DEFINE entries == RawLog(log)
<1>1. /\ \A i \in DOMAIN entries : \E n \in Named :
           NodeID(entries[i]) = NodeOf(n) /\ entries[i].rawIndex = log[n].rawItemIndex
      /\ \A n \in Named : \E i \in DOMAIN entries :
           NodeID(entries[i]) = NodeOf(n) /\ entries[i].rawIndex = log[n].rawItemIndex
  BY NamedEntries
<1>2. Graph(doc.latest, entries).nodes = {NodeID(entries[i]) : i \in DOMAIN entries}
  BY DEF Graph
<1> HIDE DEF entries
<1>3. Sourced(entries, node) = {entries[i].rawIndex : i \in {j \in DOMAIN entries : NodeID(entries[j]) = node}}
  BY DEF Sourced
<1>4. Sourced(entries, node) = {log[n].rawItemIndex : n \in {m \in Named : NodeOf(m) = node}}
  BY <1>1, <1>3
<1>. QED
  BY <1>1, <1>2, <1>4 DEF entries

LEMMA VersionsTraced ==
  ASSUME AllInv, NEW type \in Types, NEW key \in DOMAIN doc.latest[type]
  PROVE  /\ RawIndexes(Sources(doc.latest, type, key)) = {log[n].rawItemIndex : n \in Entries(type, key)}
         /\ \E n \in Entries(type, key) : CurrentOf(doc.latest, type, key) = log[n].data
<1> DEFINE history == doc.latest[type][key]
           last == Len(history)
<1>1. last \in DOMAIN history
  BY DEF AllInv, IInv, EntriesInv
<1>2. HistoryOf(type, key)
  BY DEF AllInv, ProvenanceIsExact
<1>3. PICK at \in [DOMAIN history -> Entries(type, key)] :
        /\ {at[i] : i \in DOMAIN history} = Entries(type, key)
        /\ \A i \in DOMAIN history :
             history[i] = [value |-> log[at[i]].data, sourceIndex |-> Source(log[at[i]])]
  BY <1>2 DEF HistoryOf
<1>4. \A i \in DOMAIN history : history[i].sourceIndex.rawItemIndex = log[at[i]].rawItemIndex
  <2>1. \A rec : Source(rec).rawItemIndex = rec.rawItemIndex
    BY DEF Source
  <2>2. ASSUME NEW i \in DOMAIN history
        PROVE  history[i].sourceIndex = Source(log[at[i]])
    <3>1. history[i] = [value |-> log[at[i]].data, sourceIndex |-> Source(log[at[i]])]
      BY <1>3
    <3> HIDE DEF history
    <3>. QED
      BY <3>1
  <2>. QED
    BY <2>1, <2>2
<1>5. RawIndexes(Sources(doc.latest, type, key)) = {history[i].sourceIndex.rawItemIndex : i \in DOMAIN history}
  BY DEF RawIndexes, Sources
<1>6. CurrentOf(doc.latest, type, key) = history[last].value
  BY DEF CurrentOf, Current
<1> HIDE DEF history, last
<1>7. CurrentOf(doc.latest, type, key) = log[at[last]].data /\ at[last] \in Entries(type, key)
  BY <1>1, <1>3, <1>6
<1>. QED
  BY <1>3, <1>4, <1>5, <1>7

(* An object is the first record of its event.                             *)
LEMMA ObjectsAreNamed ==
  ASSUME AllInv, NEW n \in DOMAIN log, log[n].type \in ObjectTypes
  PROVE  n \in Named
BY DEF AllInv, OriginInv, PlacesInv, Named, ObjectTypes, ArrayTypes

(* Where an edge leads, and where it starts.                               *)
LEMMA MessageIsNamed ==
  ASSUME AllInv, ~Corrupt(doc), NEW key \in DOMAIN doc.latest["message"]
  PROVE  LET node == EntityNode(doc.latest, "message", key)
         IN  \A n : n \in Named /\ NodeOf(n) = node <=> n \in Entries("message", key)
<1> DEFINE node == EntityNode(doc.latest, "message", key)
<1>0. "message" \in Types /\ "message" \in ObjectTypes
  BY DEF Types, ObjectTypes
<1>1. PICK m \in Entries("message", key) : CurrentOf(doc.latest, "message", key) = log[m].data
  BY <1>0, VersionsTraced
<1>2. m \in DOMAIN log /\ log[m].type = "message" /\ LatestKey(log[m]) = key
  BY <1>1 DEF Entries
<1>3. StringField(log[m].data, "id") # Absent /\ key = <<StringField(log[m].data, "id")>>
  BY <1>2, CleanData
<1>4. StringField(log[m].data, "id") = Get(log[m].data, "id")
  BY <1>3 DEF StringField
<1>5. node = <<"message", key[1]>> /\ key = <<key[1]>>
  BY <1>1, <1>3, <1>4 DEF EntityNode, Or
<1> HIDE DEF node
<1>6. ASSUME NEW n, n \in Entries("message", key)
      PROVE  n \in Named /\ NodeOf(n) = node
  <2>1. n \in DOMAIN log /\ log[n].type = "message" /\ LatestKey(log[n]) = key
    BY <1>6 DEF Entries
  <2>2. key = <<StringField(log[n].data, "id")>>
    BY <2>1, CleanData
  <2>3. NodeOf(n) = <<"message", StringField(log[n].data, "id")>>
    BY <2>1, NodeFacts
  <2>. QED
    BY <1>0, <1>5, <2>1, <2>2, <2>3, ObjectsAreNamed
<1>7. ASSUME NEW n, n \in Named, NodeOf(n) = node
      PROVE  n \in Entries("message", key)
  <2>1. n \in DOMAIN log
    BY <1>7 DEF Named
  <2>2. NodeOf(n)[1] = "message"
    BY <1>5, <1>7
  <2>3. log[n].type = "message"
    BY <1>0, <2>1, <2>2, NodeKinds
  <2>4. NodeOf(n) = <<"message", StringField(log[n].data, "id")>>
    BY <2>1, <2>3, NodeFacts
  <2>5. LatestKey(log[n]) = <<StringField(log[n].data, "id")>> /\ log[n].data # NotData
    BY <1>0, <2>1, <2>3, CleanData
  <2>6. LatestKey(log[n]) = key
    BY <1>5, <1>7, <2>4, <2>5
  <2>. QED
    BY <1>0, <2>1, <2>3, <2>5, <2>6 DEF Entries, Recorded
<1>. QED
  BY <1>6, <1>7 DEF node

LEMMA PartIsNamed ==
  ASSUME AllInv, ~Corrupt(doc), NEW key \in DOMAIN doc.latest["part"]
  PROVE  LET node == PartNode(doc.latest, key)
         IN  \A n : n \in Named /\ NodeOf(n) = node <=> n \in Entries("part", key)
<1> DEFINE node == PartNode(doc.latest, key)
<1>0. "part" \in Types /\ "part" \in ObjectTypes
  BY DEF Types, ObjectTypes
<1>1. PICK m \in Entries("part", key) : CurrentOf(doc.latest, "part", key) = log[m].data
  BY <1>0, VersionsTraced
<1>2. m \in DOMAIN log /\ log[m].type = "part" /\ LatestKey(log[m]) = key
  BY <1>1 DEF Entries
<1>3. PartKey(log[m].data) = key
  BY <1>2, CleanData
<1>4. node = <<"part", key>>
  BY <1>1, <1>3 DEF PartNode, Or
<1> HIDE DEF node
<1>5. ASSUME NEW n, n \in Entries("part", key)
      PROVE  n \in Named /\ NodeOf(n) = node
  <2>1. n \in DOMAIN log /\ log[n].type = "part" /\ LatestKey(log[n]) = key
    BY <1>5 DEF Entries
  <2>2. NodeOf(n) = <<"part", LatestKey(log[n])>>
    BY <2>1, NodeFacts
  <2>. QED
    BY <1>0, <1>4, <2>1, <2>2, ObjectsAreNamed
<1>6. ASSUME NEW n, n \in Named, NodeOf(n) = node
      PROVE  n \in Entries("part", key)
  <2>1. n \in DOMAIN log
    BY <1>6 DEF Named
  <2>2. NodeOf(n)[1] = "part"
    BY <1>4, <1>6
  <2>3. log[n].type = "part"
    BY <1>0, <2>1, <2>2, NodeKinds
  <2>4. NodeOf(n) = <<"part", LatestKey(log[n])>> /\ log[n].data # NotData
    BY <1>0, <2>1, <2>3, NodeFacts, CleanData
  <2>5. LatestKey(log[n]) = key
    BY <1>4, <1>6, <2>4
  <2>. QED
    BY <1>0, <2>1, <2>3, <2>4, <2>5 DEF Entries, Recorded
<1>. QED
  BY <1>5, <1>6 DEF node

LEMMA SessionIsNamed ==
  ASSUME AllInv, ~Corrupt(doc), NEW v, \A i \in Nat : v # <<"raw", i>>
  PROVE  \A n : n \in Named /\ NodeOf(n) = <<"session", v>> <=>
                   /\ n \in DOMAIN log /\ log[n].type = "session"
                   /\ StringField(log[n].data, "id") # Absent /\ StringField(log[n].data, "id") = v
<1>0. "session" \in Types /\ "session" \in ObjectTypes
  BY DEF Types, ObjectTypes
<1>1. ASSUME NEW n, n \in Named, NodeOf(n) = <<"session", v>>
      PROVE  /\ n \in DOMAIN log /\ log[n].type = "session"
             /\ StringField(log[n].data, "id") # Absent /\ StringField(log[n].data, "id") = v
  <2>1. n \in DOMAIN log
    BY <1>1 DEF Named
  <2>2. NodeOf(n)[1] = "session"
    BY <1>1
  <2>3. log[n].type = "session"
    BY <1>0, <2>1, <2>2, NodeKinds
  <2>4. NodeOf(n) = <<"session", Or(StringField(log[n].data, "id"), <<"raw", log[n].rawItemIndex>>)>>
    BY <2>1, <2>3, NodeFacts
  <2>5. v = Or(StringField(log[n].data, "id"), <<"raw", log[n].rawItemIndex>>)
    BY <1>1, <2>4
  <2>6. log[n].rawItemIndex \in Nat
    <3>1. log[n] \in Records
      BY <2>1 DEF AllInv, IInv, LogInv
    <3>. QED
      BY <3>1 DEF Records
  <2>. QED
    BY <2>1, <2>3, <2>5, <2>6 DEF Or
<1>2. ASSUME NEW n \in DOMAIN log, log[n].type = "session",
             StringField(log[n].data, "id") # Absent, StringField(log[n].data, "id") = v
      PROVE  n \in Named /\ NodeOf(n) = <<"session", v>>
  <2>1. NodeOf(n) = <<"session", Or(StringField(log[n].data, "id"), <<"raw", log[n].rawItemIndex>>)>>
    BY <1>2, NodeFacts
  <2>. QED
    BY <1>0, <1>2, <2>1, ObjectsAreNamed DEF Or
<1>. QED
  BY <1>1, <1>2

(* A reference starts at a node if the entity it names was received.       *)
LEMMA FromIsKnown ==
  ASSUME AllInv, ~Corrupt(doc), NEW type \in {"session", "message"}, NEW v, v # Absent,
         type = "session" => \A i \in Nat : v # <<"raw", i>>
  PROVE  <<type, v>> \in Graph(doc.latest, RawLog(log)).nodes <=> <<v>> \in DOMAIN doc.latest[type]
<1>0. "message" \in Types /\ "message" \in ObjectTypes /\ "session" \in Types /\ "session" \in ObjectTypes
  BY DEF Types, ObjectTypes
<1>1. <<type, v>> \in Graph(doc.latest, RawLog(log)).nodes <=> \E n \in Named : NodeOf(n) = <<type, v>>
  BY SourcedIs
<1>2. <<v>> \in DOMAIN doc.latest[type] <=>
        \E n \in DOMAIN log : log[n].type = type /\ Recorded(log[n]) /\ LatestKey(log[n]) = <<v>>
  BY <1>0 DEF AllInv, ProvenanceIsExact
<1>3. CASE type = "message"
  <2>1. ASSUME NEW n \in Named, NodeOf(n) = <<"message", v>>
        PROVE  \E m \in DOMAIN log : /\ log[m].type = "message" /\ Recorded(log[m])
                                     /\ LatestKey(log[m]) = <<v>>
    <3>1. n \in DOMAIN log
      BY DEF Named
    <3>2. NodeOf(n)[1] = "message"
      BY <2>1
    <3>6. log[n].type = "message"
      BY <1>0, <3>1, <3>2, NodeKinds
    <3>7. NodeOf(n) = <<"message", StringField(log[n].data, "id")>>
      BY <3>1, <3>6, NodeFacts
    <3>8. LatestKey(log[n]) = <<StringField(log[n].data, "id")>> /\ log[n].data # NotData
      BY <1>0, <3>1, <3>6, CleanData
    <3>9. LatestKey(log[n]) = <<v>>
      BY <2>1, <3>7, <3>8
    <3>. QED
      BY <1>0, <3>1, <3>6, <3>8, <3>9 DEF Recorded
  <2>2. ASSUME NEW n \in DOMAIN log, log[n].type = "message", LatestKey(log[n]) = <<v>>
        PROVE  n \in Named /\ NodeOf(n) = <<"message", v>>
    <3>1. LatestKey(log[n]) = <<StringField(log[n].data, "id")>>
      BY <2>2, CleanData
    <3>2. NodeOf(n) = <<"message", StringField(log[n].data, "id")>>
      BY <2>2, NodeFacts
    <3>. QED
      BY <1>0, <2>2, <3>1, <3>2, ObjectsAreNamed
  <2>. QED
    BY <1>1, <1>2, <1>3, <2>1, <2>2
<1>4. CASE type = "session"
  <2>1. \A n : n \in Named /\ NodeOf(n) = <<"session", v>> <=>
                  /\ n \in DOMAIN log /\ log[n].type = "session"
                  /\ StringField(log[n].data, "id") # Absent /\ StringField(log[n].data, "id") = v
    BY <1>4, SessionIsNamed
  <2>2. ASSUME NEW n \in DOMAIN log, log[n].type = "session"
        PROVE  /\ Recorded(log[n])
               /\ LatestKey(log[n]) = <<v>> <=> StringField(log[n].data, "id") = v
    <3>1. log[n].data # NotData /\
          LatestKey(log[n]) = IF StringField(log[n].data, "id") = Absent
                              THEN <<"session", log[n].rawItemIndex>>
                              ELSE <<StringField(log[n].data, "id")>>
      BY <1>0, <2>2, CleanData
    <3>2. <<"session", log[n].rawItemIndex>> # <<v>>
      OBVIOUS
    <3>. QED
      BY <1>0, <2>2, <3>1, <3>2 DEF Recorded
  <2>3. (\E n \in Named : NodeOf(n) = <<"session", v>>) <=>
          \E n \in DOMAIN log : log[n].type = "session" /\ StringField(log[n].data, "id") = v
    BY <2>1
  <2>. QED
    BY <1>1, <1>2, <1>4, <2>2, <2>3
<1>. QED
  BY <1>3, <1>4

(* What an edge that a reference makes says.                               *)
LEMMA CurrentNames ==
  ASSUME AllInv, ~Corrupt(doc), NEW type \in Types, NEW key \in DOMAIN doc.latest[type],
         NEW field \in {"id", "sessionID", "parentID"},
         Get(CurrentOf(doc.latest, type, key), field) # Absent
  PROVE  /\ \A i \in Nat : Get(CurrentOf(doc.latest, type, key), field) # <<"raw", i>>
         /\ \A i \in Nat : Get(CurrentOf(doc.latest, type, key), field) # <<"session", i>>
<1>1. PICK m \in Entries(type, key) : CurrentOf(doc.latest, type, key) = log[m].data
  BY VersionsTraced
<1>2. m \in DOMAIN log /\ log[m].data # NotData
  BY DEF Entries, Recorded
<1>. QED
  BY <1>1, <1>2, NamesAreNames

-----------------------------------------------------------------------------
(* The edges of the graph, one kind after the other.                       *)

EdgeLeads(edge) ==
  \/ Sourced(RawLog(log), edge.to) = RawIndexes(edge.sourceIndexes)
  \/ edge.type = "session_parent" /\ <<edge.to[2]>> \notin DOMAIN doc.latest["session"]

EdgeStarts(edge) ==
  edge.from[2] # Empty =>
    (edge.from \in Graph(doc.latest, RawLog(log)).nodes
       <=> <<edge.from[2]>> \in DOMAIN doc.latest[edge.from[1]])

(* An edge that leads to the node of the events its sources name.          *)
LEMMA LeadsTo ==
  ASSUME AllInv, ~Corrupt(doc), NEW type \in Types, NEW key \in DOMAIN doc.latest[type], NEW node,
         \A n : n \in Named /\ NodeOf(n) = node <=> n \in Entries(type, key)
  PROVE  Sourced(RawLog(log), node) = RawIndexes(Sources(doc.latest, type, key))
<1>1. {m \in Named : NodeOf(m) = node} = Entries(type, key)
  <2> DEFINE here == {m \in Named : NodeOf(m) = node}
  <2>1. \A n : n \in here <=> n \in Entries(type, key)
    OBVIOUS
  <2> HIDE DEF here
  <2>2. here = Entries(type, key)
    BY <2>1
  <2>. QED
    BY <2>2 DEF here
<1>2. Sourced(RawLog(log), node) = {log[n].rawItemIndex : n \in {m \in Named : NodeOf(m) = node}}
  BY SourcedIs
<1>3. RawIndexes(Sources(doc.latest, type, key)) = {log[n].rawItemIndex : n \in Entries(type, key)}
  BY VersionsTraced
<1>. QED
  BY <1>1, <1>2, <1>3

LEMMA SessionLeads ==
  ASSUME AllInv, ~Corrupt(doc), NEW key \in DOMAIN doc.latest["session"]
  PROVE  LET node == EntityNode(doc.latest, "session", key)
         IN  \/ Sourced(RawLog(log), node) = RawIndexes(Sources(doc.latest, "session", key))
             \/ <<node[2]>> \notin DOMAIN doc.latest["session"]
<1> DEFINE node == EntityNode(doc.latest, "session", key)
<1>0. "session" \in Types /\ "session" \in ObjectTypes
  BY DEF Types, ObjectTypes
<1>1. PICK m \in Entries("session", key) : CurrentOf(doc.latest, "session", key) = log[m].data
  BY <1>0, VersionsTraced
<1>2. m \in DOMAIN log /\ log[m].type = "session" /\ LatestKey(log[m]) = key /\ log[m].data # NotData
  BY <1>1 DEF Entries, Recorded
<1>3. key = IF StringField(log[m].data, "id") = Absent THEN <<"session", log[m].rawItemIndex>>
            ELSE <<StringField(log[m].data, "id")>>
  BY <1>2, CleanData
<1>4. node = <<"session", Or(Get(log[m].data, "id"), key)>>
  BY <1>1 DEF EntityNode
<1> HIDE DEF node
<1>5. \A v : <<v>> \in DOMAIN doc.latest["session"] =>
        \E n \in DOMAIN log : /\ log[n].type = "session" /\ log[n].data # NotData
                              /\ StringField(log[n].data, "id") # Absent
                              /\ StringField(log[n].data, "id") = v
  <2>1. SUFFICES ASSUME NEW v, <<v>> \in DOMAIN doc.latest["session"]
                 PROVE  \E n \in DOMAIN log : /\ log[n].type = "session" /\ log[n].data # NotData
                                              /\ StringField(log[n].data, "id") # Absent
                                              /\ StringField(log[n].data, "id") = v
    OBVIOUS
  <2>2. PICK n \in Entries("session", <<v>>) : TRUE
    BY <1>0, <2>1, VersionsTraced
  <2>3. n \in DOMAIN log /\ log[n].type = "session" /\ LatestKey(log[n]) = <<v>> /\ log[n].data # NotData
    BY <2>2 DEF Entries, Recorded
  <2>4. <<v>> = IF StringField(log[n].data, "id") = Absent THEN <<"session", log[n].rawItemIndex>>
                ELSE <<StringField(log[n].data, "id")>>
    BY <2>3, CleanData
  <2>5. <<v>> # <<"session", log[n].rawItemIndex>>
    OBVIOUS
  <2>6. StringField(log[n].data, "id") # Absent /\ StringField(log[n].data, "id") = v
    BY <2>4, <2>5
  <2>. QED
    BY <2>3, <2>6
<1>6. CASE StringField(log[m].data, "id") # Absent
  <2>1. /\ StringField(log[m].data, "id") = Get(log[m].data, "id")
        /\ Get(log[m].data, "id") # Absent
    BY <1>6 DEF StringField
  <2> DEFINE v == Get(log[m].data, "id")
  <2>2. node = <<"session", v>> /\ key = <<v>> /\ v # Absent
    BY <1>3, <1>4, <1>6, <2>1 DEF Or
  <2>3. /\ <<v>> # Absent /\ \A i \in Nat : v # <<"raw", i>>
    BY <1>2, <2>1, NamesAreNames
  <2> HIDE DEF v
  <2>4. \A n : n \in Named /\ NodeOf(n) = <<"session", v>> <=>
                  /\ n \in DOMAIN log /\ log[n].type = "session"
                  /\ StringField(log[n].data, "id") # Absent /\ StringField(log[n].data, "id") = v
    BY <2>3, SessionIsNamed
  <2>5. \A n : n \in Entries("session", key) <=>
                  /\ n \in DOMAIN log /\ log[n].type = "session"
                  /\ StringField(log[n].data, "id") # Absent /\ StringField(log[n].data, "id") = v
    <3>1. ASSUME NEW n \in DOMAIN log, log[n].type = "session"
          PROVE  /\ Recorded(log[n])
                 /\ LatestKey(log[n]) = <<v>> <=>
                      StringField(log[n].data, "id") # Absent /\ StringField(log[n].data, "id") = v
      <4>1. log[n].data # NotData /\
            LatestKey(log[n]) = IF StringField(log[n].data, "id") = Absent
                                THEN <<"session", log[n].rawItemIndex>>
                                ELSE <<StringField(log[n].data, "id")>>
        BY <1>0, <3>1, CleanData
      <4>2. <<"session", log[n].rawItemIndex>> # <<v>>
        OBVIOUS
      <4>. QED
        BY <1>0, <2>2, <3>1, <4>1, <4>2 DEF Recorded
    <3>. QED
      BY <2>2, <3>1 DEF Entries
  <2>6. \A n : n \in Named /\ NodeOf(n) = node <=> n \in Entries("session", key)
    BY <2>2, <2>4, <2>5
  <2>. QED
    BY <1>0, <2>6, LeadsTo DEF node
<1>7. CASE StringField(log[m].data, "id") = Absent
  <2>1. ASSUME <<node[2]>> \in DOMAIN doc.latest["session"]
        PROVE  FALSE
    <3>1. PICK n \in DOMAIN log : /\ log[n].type = "session" /\ log[n].data # NotData
                                  /\ StringField(log[n].data, "id") # Absent
                                  /\ StringField(log[n].data, "id") = node[2]
      BY <1>5, <2>1
    <3>2. /\ StringField(log[n].data, "id") = Get(log[n].data, "id")
          /\ Get(log[n].data, "id") \notin {Absent, Empty}
      BY <3>1 DEF StringField
    <3>3. \A i \in Nat : Get(log[n].data, "id") # <<"session", i>>
      BY <3>1, <3>2, NamesAreNames
    <3>4. Get(log[m].data, "id") \in {Absent, Empty}
      BY <1>7 DEF StringField
    <3>5. node[2] = Or(Get(log[m].data, "id"), key)
      BY <1>4
    <3>6. log[m].rawItemIndex \in Nat
      <4>1. log[m] \in Records
        BY <1>2 DEF AllInv, IInv, LogInv
      <4>. QED
        BY <4>1 DEF Records
    <3>7. key = <<"session", log[m].rawItemIndex>>
      BY <1>3, <1>7
    <3>. QED
      BY <3>1, <3>2, <3>3, <3>4, <3>5, <3>6, <3>7 DEF Or
  <2>. QED
    BY <2>1 DEF node
<1>. QED
  BY <1>6, <1>7

(* The edge that the current version of an entity makes by a field.        *)
Refers(edge, type, key, field, target, node, kind) ==
  /\ key \in DOMAIN doc.latest[type]
  /\ Get(CurrentOf(doc.latest, type, key), field) # Absent
  /\ edge = Edge(doc.latest, type, key, <<target, Get(CurrentOf(doc.latest, type, key), field)>>, node, kind)

LEMMA EdgeCases ==
  ASSUME NEW edge \in Graph(doc.latest, RawLog(log)).references
  PROVE  \/ \E key : Refers(edge, "message", key, "sessionID", "session",
                            EntityNode(doc.latest, "message", key), "session_message")
         \/ \E key : Refers(edge, "message", key, "parentID", "message",
                            EntityNode(doc.latest, "message", key), "assistant_parent")
         \/ \E key : Refers(edge, "part", key, "messageID", "message",
                            PartNode(doc.latest, key), "message_part")
         \/ \E key : Refers(edge, "session", key, "parentID", "session",
                            EntityNode(doc.latest, "session", key), "session_parent")
<1> DEFINE has(type, field) == {k \in DOMAIN doc.latest[type] : Get(CurrentOf(doc.latest, type, k), field) # Absent}
           name(type, key, field) == Get(CurrentOf(doc.latest, type, key), field)
           E1 == {Edge(doc.latest, "message", key, <<"session", name("message", key, "sessionID")>>,
                       EntityNode(doc.latest, "message", key), "session_message") :
                    key \in has("message", "sessionID")}
           E2 == {Edge(doc.latest, "message", key, <<"message", name("message", key, "parentID")>>,
                       EntityNode(doc.latest, "message", key), "assistant_parent") :
                    key \in has("message", "parentID")}
           E3 == {Edge(doc.latest, "part", key, <<"message", name("part", key, "messageID")>>,
                       PartNode(doc.latest, key), "message_part") :
                    key \in has("part", "messageID")}
           E4 == {Edge(doc.latest, "session", key, <<"session", name("session", key, "parentID")>>,
                       EntityNode(doc.latest, "session", key), "session_parent") :
                    key \in has("session", "parentID")}
<1>1. edge \in E1 \cup E2 \cup E3 \cup E4
  BY DEF Graph, ReferenceEdges
<1>2. edge \in E1 => \E key : Refers(edge, "message", key, "sessionID", "session",
                                     EntityNode(doc.latest, "message", key), "session_message")
  BY DEF Refers
<1>3. edge \in E2 => \E key : Refers(edge, "message", key, "parentID", "message",
                                     EntityNode(doc.latest, "message", key), "assistant_parent")
  BY DEF Refers
<1>4. edge \in E3 => \E key : Refers(edge, "part", key, "messageID", "message",
                                     PartNode(doc.latest, key), "message_part")
  BY DEF Refers
<1>5. edge \in E4 => \E key : Refers(edge, "session", key, "parentID", "session",
                                     EntityNode(doc.latest, "session", key), "session_parent")
  BY DEF Refers
<1> HIDE DEF E1, E2, E3, E4
<1>. QED
  BY <1>1, <1>2, <1>3, <1>4, <1>5

LEMMA EdgeIs ==
  ASSUME NEW edge, NEW type, NEW key, NEW field, NEW target, NEW node, NEW kind,
         Refers(edge, type, key, field, target, node, kind)
  PROVE  LET v == Get(CurrentOf(doc.latest, type, key), field)
         IN  /\ key \in DOMAIN doc.latest[type] /\ v # Absent
             /\ edge.from = <<target, v>> /\ edge.to = node /\ edge.type = kind
             /\ edge.sourceIndexes = Sources(doc.latest, type, key)
BY DEF Refers, Edge

LEMMA EdgeStartsAtNode ==
  ASSUME AllInv, ~Corrupt(doc), NEW edge, NEW v, v # Absent, NEW target \in {"session", "message"},
         edge.from = <<target, v>>, target = "session" => \A i \in Nat : v # <<"raw", i>>
  PROVE  EdgeStarts(edge)
<1>1. <<target, v>> \in Graph(doc.latest, RawLog(log)).nodes <=> <<v>> \in DOMAIN doc.latest[target]
  BY FromIsKnown
<1>2. edge.from[1] = target /\ edge.from[2] = v
  OBVIOUS
<1>. QED
  BY <1>1, <1>2 DEF EdgeStarts

LEMMA EdgesFollow == AllInv => EdgesLeadToNodes
<1>1. SUFFICES ASSUME AllInv, ~Corrupt(doc), NEW edge \in Graph(doc.latest, RawLog(log)).references
               PROVE  EdgeLeads(edge) /\ EdgeStarts(edge)
  BY DEF EdgesLeadToNodes, EdgeLeads, EdgeStarts
<1>0. {"session", "message", "part"} \subseteq Types
  BY DEF Types, ObjectTypes
<1>2. ASSUME NEW key, NEW field, NEW target \in {"session", "message"}, NEW kind,
             field = "sessionID" \/ field = "parentID",
             Refers(edge, "message", key, field, target, EntityNode(doc.latest, "message", key), kind)
      PROVE  EdgeLeads(edge) /\ EdgeStarts(edge)
  <2> DEFINE v == Get(CurrentOf(doc.latest, "message", key), field)
             node == EntityNode(doc.latest, "message", key)
  <2>1. /\ key \in DOMAIN doc.latest["message"] /\ v # Absent
        /\ edge.from = <<target, v>> /\ edge.to = node
        /\ edge.sourceIndexes = Sources(doc.latest, "message", key)
    BY <1>2, EdgeIs
  <2>2. \A i \in Nat : v # <<"raw", i>>
    BY <1>0, <1>1, <1>2, <2>1, CurrentNames
  <2>3. \A n : n \in Named /\ NodeOf(n) = node <=> n \in Entries("message", key)
    BY <1>1, <2>1, MessageIsNamed
  <2> HIDE DEF v, node
  <2>4. Sourced(RawLog(log), node) = RawIndexes(Sources(doc.latest, "message", key))
    BY <1>0, <1>1, <2>1, <2>3, LeadsTo
  <2>5. EdgeStarts(edge)
    BY <1>1, <2>1, <2>2, EdgeStartsAtNode
  <2>. QED
    BY <2>1, <2>4, <2>5 DEF EdgeLeads
<1>3. ASSUME NEW key,
             Refers(edge, "part", key, "messageID", "message", PartNode(doc.latest, key), "message_part")
      PROVE  EdgeLeads(edge) /\ EdgeStarts(edge)
  <2> DEFINE v == Get(CurrentOf(doc.latest, "part", key), "messageID")
             node == PartNode(doc.latest, key)
  <2>1. /\ key \in DOMAIN doc.latest["part"] /\ v # Absent
        /\ edge.from = <<"message", v>> /\ edge.to = node
        /\ edge.sourceIndexes = Sources(doc.latest, "part", key)
    BY <1>3, EdgeIs
  <2>3. \A n : n \in Named /\ NodeOf(n) = node <=> n \in Entries("part", key)
    BY <1>1, <2>1, PartIsNamed
  <2> HIDE DEF v, node
  <2>4. Sourced(RawLog(log), node) = RawIndexes(Sources(doc.latest, "part", key))
    BY <1>0, <1>1, <2>1, <2>3, LeadsTo
  <2>5. EdgeStarts(edge)
    BY <1>1, <2>1, EdgeStartsAtNode
  <2>. QED
    BY <2>1, <2>4, <2>5 DEF EdgeLeads
<1>4. ASSUME NEW key,
             Refers(edge, "session", key, "parentID", "session",
                    EntityNode(doc.latest, "session", key), "session_parent")
      PROVE  EdgeLeads(edge) /\ EdgeStarts(edge)
  <2> DEFINE v == Get(CurrentOf(doc.latest, "session", key), "parentID")
             node == EntityNode(doc.latest, "session", key)
  <2>1. /\ key \in DOMAIN doc.latest["session"] /\ v # Absent
        /\ edge.from = <<"session", v>> /\ edge.to = node /\ edge.type = "session_parent"
        /\ edge.sourceIndexes = Sources(doc.latest, "session", key)
    BY <1>4, EdgeIs
  <2>2. \A i \in Nat : v # <<"raw", i>>
    BY <1>0, <1>1, <2>1, CurrentNames
  <2>3. \/ Sourced(RawLog(log), node) = RawIndexes(Sources(doc.latest, "session", key))
        \/ <<node[2]>> \notin DOMAIN doc.latest["session"]
    BY <1>1, <2>1, SessionLeads
  <2> HIDE DEF v, node
  <2>5. EdgeStarts(edge)
    BY <1>1, <2>1, <2>2, EdgeStartsAtNode
  <2>. QED
    BY <2>1, <2>3, <2>5 DEF EdgeLeads
<1>. QED
  BY <1>2, <1>3, <1>4, EdgeCases

(* In a share the page shows, buildGraph's edges lead to the node whose    *)
(* events they are sourced from, and start at a node exactly if the entity *)
(* they name has been received: rawEntry and buildLatestState, which name  *)
(* entities on their own, name them alike, for any events.                 *)
THEOREM EdgesAlwaysLeadToNodes == Spec => []EdgesLeadToNodes
BY EdgesFollow, AllInvariance, PTL

-----------------------------------------------------------------------------
(* The changed files.                                                      *)

LEMMA FlattenOne ==
  ASSUME NEW h
  PROVE  FlattenSeq([i \in 1..1 |-> h]) = h
<1> DEFINE seqs == [i \in 1..1 |-> h]
           Solves(g) == g = [i \in 1..Len(seqs) |-> IF i = 1 THEN seqs[i] ELSE g[i - 1] \o seqs[i]]
           flatten == CHOOSE g : Solves(g)
<1>1. seqs = <<h>> /\ Len(seqs) = 1 /\ seqs[1] = h
  OBVIOUS
<1> HIDE DEF seqs
<1>2. Solves([i \in 1..1 |-> h])
  BY <1>1
<1>3. Solves(flatten)
  BY <1>2
<1>4. FlattenSeq(seqs) = flatten[1]
  BY <1>1 DEF FlattenSeq
<1>5. flatten[1] = h
  <2> HIDE DEF flatten
  <2>. QED
    BY <1>1, <1>3
<1>. QED
  BY <1>4, <1>5 DEF seqs

(* A file is the key of the entries that name it and of no other.          *)
LEMMA FileNamed ==
  ASSUME AllInv, NEW file \in FilesNamed
  PROVE  /\ file # Absent /\ <<file>> \in DOMAIN doc.latest["session_diff"]
         /\ Entries("session_diff", <<file>>) =
              {n \in DOMAIN log : /\ log[n].type = "session_diff" /\ Recorded(log[n])
                                  /\ Get(log[n].data, "file") = file}
         /\ {key \in NamedFiles(doc.latest) : Get(CurrentOf(doc.latest, "session_diff", key), "file") = file}
              = {<<file>>}
<1>0. "session_diff" \in Types
  BY DEF Types, ArrayTypes
<1>1. PICK m \in DOMAIN log : /\ log[m].type = "session_diff" /\ Recorded(log[m])
                              /\ StringField(log[m].data, "file") # Absent
                              /\ file = log[m].data.file
  BY DEF FilesNamed
<1>2. file = Get(log[m].data, "file") /\ file # Absent /\ file # Empty
  BY <1>1 DEF StringField, Get
<1>3. ASSUME NEW n \in DOMAIN log, log[n].type = "session_diff", Recorded(log[n])
      PROVE  LatestKey(log[n]) = <<file>> <=> Get(log[n].data, "file") = file
  <2>1. LatestKey(log[n]) = Or(FileKey(log[n].data), <<"session_diff", log[n].arrayOffset>>)
    BY <1>3 DEF LatestKey, OwnKey, FallbackKey, ArrayTypes
  <2>2. CASE StringField(log[n].data, "file") = Absent
    <3>1. LatestKey(log[n]) = <<"session_diff", log[n].arrayOffset>>
      BY <2>1, <2>2 DEF FileKey, Or
    <3>2. <<"session_diff", log[n].arrayOffset>> # <<file>>
      OBVIOUS
    <3>3. Get(log[n].data, "file") # file
      BY <1>2, <2>2 DEF StringField
    <3>. QED
      BY <3>1, <3>2, <3>3
  <2>3. CASE StringField(log[n].data, "file") # Absent
    <3>1. /\ StringField(log[n].data, "file") = Get(log[n].data, "file")
          /\ Get(log[n].data, "file") # Absent
      BY <2>3 DEF StringField
    <3>2. <<Get(log[n].data, "file")>> # Absent
      BY <1>3, <3>1, KeysAreDefined DEF Recorded
    <3>3. LatestKey(log[n]) = <<Get(log[n].data, "file")>>
      BY <2>1, <2>3, <3>1, <3>2 DEF FileKey, Or
    <3>. QED
      BY <3>3
  <2>. QED
    BY <2>2, <2>3
<1>4. <<file>> \in DOMAIN doc.latest["session_diff"]
  <2>1. LatestKey(log[m]) = <<file>>
    BY <1>1, <1>2, <1>3
  <2>. QED
    BY <1>0, <1>1, <2>1 DEF AllInv, ProvenanceIsExact
<1>5. Entries("session_diff", <<file>>) =
        {n \in DOMAIN log : /\ log[n].type = "session_diff" /\ Recorded(log[n])
                            /\ Get(log[n].data, "file") = file}
  BY <1>3 DEF Entries
<1>6. ASSUME NEW key \in DOMAIN doc.latest["session_diff"]
      PROVE  Get(CurrentOf(doc.latest, "session_diff", key), "file") = file <=> key = <<file>>
  <2>1. PICK n \in Entries("session_diff", key) : CurrentOf(doc.latest, "session_diff", key) = log[n].data
    BY <1>0, VersionsTraced
  <2>2. n \in DOMAIN log /\ log[n].type = "session_diff" /\ Recorded(log[n]) /\ LatestKey(log[n]) = key
    BY <2>1 DEF Entries
  <2>. QED
    BY <1>3, <2>1, <2>2
<1>7. {key \in NamedFiles(doc.latest) : Get(CurrentOf(doc.latest, "session_diff", key), "file") = file} = {<<file>>}
  BY <1>2, <1>4, <1>6 DEF NamedFiles
<1>. QED
  BY <1>2, <1>4, <1>5, <1>7

(* The sources of an entity are those of its records, in order.            *)
LEMMA SourcesAre ==
  ASSUME AllInv, NEW type \in Types, NEW key \in DOMAIN doc.latest[type]
  PROVE  LET records == Kept(log, Entries(type, key))
         IN  Sources(doc.latest, type, key) = [i \in DOMAIN records |-> Source(records[i])]
<1> DEFINE history == doc.latest[type][key]
           m == Len(history)
           E == Entries(type, key)
<1>1. m \in Nat /\ DOMAIN history = 1..m
  BY DEF AllInv, IInv, EntriesInv
<1>2. HistoryOf(type, key)
  BY DEF AllInv, ProvenanceIsExact
<1>3. PICK at \in [DOMAIN history -> E] :
        /\ \A i, j \in DOMAIN history : i < j => at[i] < at[j]
        /\ {at[i] : i \in DOMAIN history} = E
        /\ \A i \in DOMAIN history :
             history[i] = [value |-> log[at[i]].data, sourceIndex |-> Source(log[at[i]])]
  BY <1>2 DEF HistoryOf
<1>4. Sources(doc.latest, type, key) = [i \in DOMAIN history |-> history[i].sourceIndex]
  BY DEF Sources
<1>5. Len(log) \in Nat /\ E \in SUBSET (1..Len(log))
  BY DEF AllInv, IInv, LogInv, Entries
<1> HIDE DEF history, m, E
<1>6. /\ at \in [1..m -> E] /\ {at[i] : i \in 1..m} = E
      /\ \A i, j \in 1..m : i < j => at[i] < at[j]
  BY <1>1, <1>3
<1>7. Cardinality(E) = m /\ Ascending(E) = at
  BY <1>1, <1>5, <1>6, AscendingIs
<1>8. Kept(log, E) = [n \in 1..m |-> log[at[n]]]
  BY <1>7 DEF Kept
<1>9. \A i \in 1..m : history[i].sourceIndex = Source(log[at[i]])
  <2>1. SUFFICES ASSUME NEW i \in 1..m PROVE history[i].sourceIndex = Source(log[at[i]])
    OBVIOUS
  <2>2. history[i] = [value |-> log[at[i]].data, sourceIndex |-> Source(log[at[i]])]
    BY <1>1, <1>3
  <2>. QED
    BY <2>2
<1> DEFINE records == Kept(log, E)
<1>10. DOMAIN records = 1..m /\ \A i \in 1..m : records[i] = log[at[i]]
  BY <1>8
<1> HIDE DEF records
<1>11. [i \in DOMAIN records |-> Source(records[i])] = [i \in 1..m |-> history[i].sourceIndex]
  BY <1>9, <1>10
<1>. QED
  BY <1>1, <1>4, <1>11 DEF records, E

LEMMA ChangesOf ==
  ASSUME AllInv, NEW file \in FilesNamed
  PROVE  /\ file \in DOMAIN FileChanges(doc.latest)
         /\ FileChanges(doc.latest)[file] = Sources(doc.latest, "session_diff", <<file>>)
<1> DEFINE fileOf(key) == Get(CurrentOf(doc.latest, "session_diff", key), "file")
           A == AddedBefore(doc.latest, "session_diff")
           of(f) == Listed({key \in NamedFiles(doc.latest) : fileOf(key) = f}, A)
           listed(f) == FlattenSeq([i \in DOMAIN of(f) |-> Sources(doc.latest, "session_diff", of(f)[i])])
           files == {fileOf(key) : key \in NamedFiles(doc.latest)}
           k == <<file>>
<1>0. "session_diff" \in Types
  BY DEF Types, ArrayTypes
<1>1. k \in DOMAIN doc.latest["session_diff"] /\ {key \in NamedFiles(doc.latest) : fileOf(key) = file} = {k}
  BY FileNamed
<1>2. file \in files
  BY <1>1
<1>3. FileChanges(doc.latest) = [f \in files |-> listed(f)]
  BY DEF FileChanges
<1>4. StrictOrderOn({k}, A)
  <2>1. StrictOrderOn(DOMAIN doc.latest["session_diff"], A)
    BY <1>0, AddedOrder
  <2> HIDE DEF A, k
  <2>. QED
    BY <1>1, <2>1 DEF StrictOrderOn
<1>5. of(file) = Listed({k}, A)
  BY <1>1
<1> HIDE DEF A, k
<1>6. IsFiniteSet({k}) /\ Cardinality({k}) = 1
  BY FS_Singleton
<1>7. DOMAIN Listed({k}, A) = 1..1 /\ Listed({k}, A)[1] = k
  <2> DEFINE S == {k}
             L == Listed(S, A)
  <2>1. IsFiniteSet(S) /\ StrictOrderOn(S, A) /\ Cardinality(S) = 1
    BY <1>4, <1>6
  <2> HIDE DEF S
  <2>2. DOMAIN L = 1..Cardinality(S) /\ \A n \in DOMAIN L : L[n] \in S
    BY <2>1, ListedFacts
  <2> HIDE DEF L
  <2>3. DOMAIN L = 1..1 /\ L[1] \in S
    BY <2>1, <2>2
  <2>. QED
    BY <2>3 DEF L, S
<1> DEFINE h == Sources(doc.latest, "session_diff", k)
<1>8. [i \in DOMAIN of(file) |-> Sources(doc.latest, "session_diff", of(file)[i])] = [i \in 1..1 |-> h]
  <2> HIDE DEF of
  <2>1. \A i \in 1..1 : of(file)[i] = k
    BY <1>5, <1>7
  <2>. QED
    BY <1>5, <1>7, <2>1
<1> HIDE DEF h, of
<1>9. listed(file) = h
  BY <1>8, FlattenOne
<1> HIDE DEF files, listed
<1>. QED
  BY <1>2, <1>3, <1>9 DEF h, k

LEMMA FilesFollow == AllInv => FilesListedOnce
<1>1. SUFFICES ASSUME AllInv, NEW file \in FilesNamed
               PROVE  LET summaries == FileSummaries(doc.latest)
                          changes == FileChanges(doc.latest)
                          naming == Kept(log, {n \in DOMAIN log : /\ log[n].type = "session_diff"
                                                                 /\ Recorded(log[n])
                                                                 /\ Get(log[n].data, "file") = file})
                      IN  /\ Cardinality({summary \in summaries : summary.file = file}) = 1
                          /\ \A summary \in summaries : summary.file = file =>
                               /\ summary.sourceIndexes = [i \in DOMAIN naming |-> Source(naming[i])]
                               /\ file \in DOMAIN changes /\ changes[file] = summary.sourceIndexes
  BY DEF FilesListedOnce
<1> DEFINE summaries == FileSummaries(doc.latest)
           entry(key) == [file |-> Get(CurrentOf(doc.latest, "session_diff", key), "file"),
                          patch |-> Or(Get(CurrentOf(doc.latest, "session_diff", key), "patch"), Empty),
                          sourceIndexes |-> Sources(doc.latest, "session_diff", key)]
           k == <<file>>
           named == {n \in DOMAIN log : /\ log[n].type = "session_diff" /\ Recorded(log[n])
                                        /\ Get(log[n].data, "file") = file}
           naming == Kept(log, named)
<1>2. "session_diff" \in Types
  BY DEF Types, ArrayTypes
<1>3. /\ k \in DOMAIN doc.latest["session_diff"] /\ Entries("session_diff", k) = named
      /\ {key \in NamedFiles(doc.latest) : Get(CurrentOf(doc.latest, "session_diff", key), "file") = file} = {k}
  BY <1>1, FileNamed
<1>4. Sources(doc.latest, "session_diff", k) = [i \in DOMAIN naming |-> Source(naming[i])]
  <2> DEFINE records == Kept(log, Entries("session_diff", k))
  <2>1. Sources(doc.latest, "session_diff", k) = [i \in DOMAIN records |-> Source(records[i])]
    BY <1>1, <1>2, <1>3, SourcesAre
  <2>2. records = naming
    BY <1>3
  <2>. QED
    BY <2>1, <2>2
<1>5. /\ file \in DOMAIN FileChanges(doc.latest)
      /\ FileChanges(doc.latest)[file] = Sources(doc.latest, "session_diff", k)
  BY <1>1, ChangesOf
<1>6. summaries = {entry(key) : key \in NamedFiles(doc.latest)}
  BY DEF FileSummaries
<1>7. \A key : /\ entry(key).file = Get(CurrentOf(doc.latest, "session_diff", key), "file")
               /\ entry(key).sourceIndexes = Sources(doc.latest, "session_diff", key)
  OBVIOUS
<1> HIDE DEF summaries, entry, k, named, naming
<1>8. \A key \in NamedFiles(doc.latest) : entry(key).file = file <=> key = k
  BY <1>3, <1>7
<1>9. k \in NamedFiles(doc.latest)
  BY <1>3
<1>10. {summary \in summaries : summary.file = file} = {entry(k)}
  BY <1>6, <1>8, <1>9
<1>11. Cardinality({summary \in summaries : summary.file = file}) = 1
  BY <1>10, FS_Singleton
<1>12. \A summary \in summaries : summary.file = file => summary.sourceIndexes = Sources(doc.latest, "session_diff", k)
  BY <1>7, <1>10
<1>. QED
  BY <1>4, <1>5, <1>11, <1>12 DEF summaries, naming, named

(* buildFileSummaries and buildFileChanges list every file an event names  *)
(* once, with exactly the events that name it, in their order, for any     *)
(* number of events and of files without a name between them.              *)
THEOREM FilesAlwaysListedOnce == Spec => []FilesListedOnce
BY FilesFollow, AllInvariance, PTL

-----------------------------------------------------------------------------
(* The visible messages and their parts.                                   *)

(* The current version of a message bears the id its key is made of, and   *)
(* messages stand in one order, by creation or by arrival.                 *)
LEMMA MessageFacts ==
  ASSUME AllInv, ~Corrupt(doc), NEW key \in DOMAIN doc.latest["message"]
  PROVE  LET info == CurrentOf(doc.latest, "message", key)
         IN  /\ Get(info, "id") # Absent /\ key = <<Get(info, "id")>>
             /\ FirstIndex(doc.latest, "message", key) \in Nat
             /\ MessageOrder(doc.latest, key) \in Nat
<1> DEFINE info == CurrentOf(doc.latest, "message", key)
<1>1. "message" \in Types /\ "message" \notin ArrayTypes
  BY DEF Types, ObjectTypes, ArrayTypes
<1>2. PICK n \in Entries("message", key) : info = log[n].data
  BY <1>1, VersionsTraced
<1>3. /\ n \in DOMAIN log /\ log[n].type = "message" /\ log[n] \in Records
      /\ LatestKey(log[n]) = key /\ log[n].data # NotData
  BY <1>2 DEF Entries, Recorded, AllInv, IInv, LogInv
<1>4. StringField(info, "id") # Absent /\ key = <<StringField(info, "id")>>
  BY <1>2, <1>3, CleanData
<1>5. StringField(info, "id") = Get(info, "id")
  BY <1>4 DEF StringField
<1>6. FirstIndex(doc.latest, "message", key) \in Nat
  <2>1. PICK m \in Entries("message", key) :
          doc.latest["message"][key][1].sourceIndex = Source(log[m])
    BY <1>1, FirstRecord
  <2>2. log[m] \in Records
    BY <2>1 DEF Entries, AllInv, IInv, LogInv
  <2>. QED
    BY <2>1, <2>2 DEF FirstIndex, Source, Records
<1>7. IsObject(log[n].data)
  BY <1>3, InputAssumption DEF Records, Payloads
<1>8. Get(info, "created") # Absent => Get(info, "created") \in Nat
  BY <1>2, <1>7 DEF IsObject, Get
<1>9. MessageOrder(doc.latest, key) \in Nat
  BY <1>6, <1>8 DEF MessageOrder
<1>. QED
  BY <1>4, <1>5, <1>6, <1>9

(* Two messages that were added by one event are one message.              *)
LEMMA MessagesOrdered ==
  ASSUME AllInv, ~Corrupt(doc)
  PROVE  /\ IsFiniteSet(DOMAIN doc.latest["message"])
         /\ StrictOrderOn(DOMAIN doc.latest["message"], MessageBefore(doc.latest))
<1> DEFINE D == DOMAIN doc.latest["message"]
           order(key) == MessageOrder(doc.latest, key)
           seen(key) == FirstIndex(doc.latest, "message", key)
           B == MessageBefore(doc.latest)
<1>1. "message" \in Types /\ "message" \in ObjectTypes
  BY DEF Types, ObjectTypes
<1>2. IsFiniteSet(D) /\ StrictOrderOn(D, AddedBefore(doc.latest, "message"))
  BY <1>1, FiniteKeys, AddedOrder
<1>3. \A a, b \in D : <<a, b>> \in AddedBefore(doc.latest, "message") <=> seen(a) < seen(b)
  BY <1>1, FirstSeenFacts
<1>4. \A key \in D : order(key) \in Nat /\ seen(key) \in Nat
  BY MessageFacts
<1>5. \A a, b \in D : <<a, b>> \in B <=>
        order(a) < order(b) \/ (order(a) = order(b) /\ seen(a) < seen(b))
  BY DEF MessageBefore
<1> HIDE DEF D, order, seen, B
<1>6. \A a, b \in D : a # b => seen(a) < seen(b) \/ seen(b) < seen(a)
  BY <1>2, <1>3 DEF StrictOrderOn
<1>7. \A a \in D : <<a, a>> \notin B
  BY <1>4, <1>5
<1>8. \A a, b, c \in D : <<a, b>> \in B /\ <<b, c>> \in B => <<a, c>> \in B
  <2>1. SUFFICES ASSUME NEW a \in D, NEW b \in D, NEW c \in D, <<a, b>> \in B, <<b, c>> \in B
                 PROVE  <<a, c>> \in B
    OBVIOUS
  <2>2. /\ order(a) \in Nat /\ order(b) \in Nat /\ order(c) \in Nat
        /\ seen(a) \in Nat /\ seen(b) \in Nat /\ seen(c) \in Nat
    BY <1>4
  <2>3. /\ order(a) < order(b) \/ (order(a) = order(b) /\ seen(a) < seen(b))
        /\ order(b) < order(c) \/ (order(b) = order(c) /\ seen(b) < seen(c))
    BY <1>5, <2>1
  <2>4. order(a) < order(c) \/ (order(a) = order(c) /\ seen(a) < seen(c))
    BY <2>2, <2>3
  <2>. QED
    BY <1>5, <2>4
<1>9. \A a, b \in D : a # b => <<a, b>> \in B \/ <<b, a>> \in B
  <2>1. SUFFICES ASSUME NEW a \in D, NEW b \in D, a # b PROVE <<a, b>> \in B \/ <<b, a>> \in B
    OBVIOUS
  <2>2. order(a) \in Nat /\ order(b) \in Nat
    BY <1>4
  <2>3. order(a) < order(b) \/ order(b) < order(a) \/ order(a) = order(b)
    BY <2>2
  <2>4. seen(a) < seen(b) \/ seen(b) < seen(a)
    BY <1>6, <2>1
  <2>5. order(a) < order(b) \/ (order(a) = order(b) /\ seen(a) < seen(b)) => <<a, b>> \in B
    BY <1>5
  <2>6. order(b) < order(a) \/ (order(b) = order(a) /\ seen(b) < seen(a)) => <<b, a>> \in B
    BY <1>5
  <2>. QED
    BY <2>3, <2>4, <2>5, <2>6
<1>10. StrictOrderOn(D, B)
  BY <1>7, <1>8, <1>9 DEF StrictOrderOn
<1>. QED
  BY <1>2, <1>10 DEF D, B

(* The same of a part and its two ids.                                     *)
LEMMA PartValue ==
  ASSUME AllInv, ~Corrupt(doc), NEW key \in DOMAIN doc.latest["part"]
  PROVE  LET part == CurrentOf(doc.latest, "part", key)
         IN  /\ Get(part, "messageID") # Absent /\ Get(part, "id") # Absent
             /\ key = <<Get(part, "messageID"), Get(part, "id")>>
             /\ PartKey(part) = key /\ PartKey(part) # Absent
             /\ Get(part, "type") # Absent /\ part.type = Get(part, "type")
<1> DEFINE part == CurrentOf(doc.latest, "part", key)
<1>1. "part" \in Types
  BY DEF Types, ObjectTypes
<1>2. PICK n \in Entries("part", key) : part = log[n].data
  BY <1>1, VersionsTraced
<1>3. /\ n \in DOMAIN log /\ log[n].type = "part" /\ LatestKey(log[n]) = key
  BY <1>2 DEF Entries
<1>4. /\ Get(part, "type") # Absent
      /\ StringField(part, "id") # Absent /\ StringField(part, "messageID") # Absent
      /\ PartKey(part) = key /\ key = <<StringField(part, "messageID"), StringField(part, "id")>>
  BY <1>2, <1>3, CleanData
<1>5. StringField(part, "id") = Get(part, "id") /\ StringField(part, "messageID") = Get(part, "messageID")
  BY <1>4 DEF StringField
<1>6. PartKey(part) # Absent
  <2>1. NormalizedKey(log[n]) # Absent /\ NormalizedKey(log[n]) = LatestKey(log[n])
    BY <1>1, <1>3, CleanRecord
  <2>. QED
    BY <1>3, <1>4, <2>1
<1>7. part.type = Get(part, "type")
  BY <1>4 DEF Get
<1>. QED
  BY <1>4, <1>5, <1>6, <1>7

(* What the page shows of the events: every message once, with its parts.  *)
PartShown(entry, j) ==
  LET part == entry.parts[j]
      key == <<MessageID(entry), Get(part, "id")>>
  IN  /\ key \in DOMAIN doc.latest["part"] /\ part = CurrentOf(doc.latest, "part", key)
      /\ entry.partSources[j] = Sources(doc.latest, "part", key)
      /\ Get(part, "id") # Absent /\ Get(part, "messageID") = MessageID(entry)
      /\ PartKey(part) = key /\ key # Absent /\ part.type = Get(part, "type")
      /\ PartSourcesAt(entry, j) = Sources(doc.latest, "part", key)

PartsShown(entry) ==
  /\ \E d \in Nat : entry.parts = [j \in 1..d |-> entry.parts[j]]
  /\ \A j \in DOMAIN entry.parts : PartShown(entry, j)
  /\ \A j, l \in DOMAIN entry.parts : Get(entry.parts[j], "id") = Get(entry.parts[l], "id") => j = l
  /\ \A key \in DOMAIN doc.latest["part"] : key[1] = MessageID(entry) =>
       \E j \in DOMAIN entry.parts : key = <<MessageID(entry), Get(entry.parts[j], "id")>>

MessageShown(entry) ==
  LET key == <<MessageID(entry)>>
  IN  /\ key \in DOMAIN doc.latest["message"] /\ entry.info = CurrentOf(doc.latest, "message", key)
      /\ entry.sourceIndexes = Sources(doc.latest, "message", key)
      /\ Get(entry.info, "id") = MessageID(entry) /\ MessageID(entry) # Absent

Visible(V, c) ==
  /\ c \in Nat /\ V = [i \in 1..c |-> V[i]] /\ c = Cardinality(DOMAIN doc.latest["message"])
  /\ DOMAIN MessageKeys(doc.latest) = 1..c
  /\ \A i \in 1..c : MessageShown(V[i]) /\ PartsShown(V[i])
  /\ \A i \in 1..c : MessageKeys(doc.latest)[i] = <<MessageID(V[i])>>
  /\ \A i, j \in 1..c : MessageID(V[i]) = MessageID(V[j]) => i = j
  /\ \A key \in DOMAIN doc.latest["message"] : \E i \in 1..c : key = <<MessageID(V[i])>>

LEMMA EnvelopeFacts ==
  ASSUME AllInv, ~Corrupt(doc), NEW key \in DOMAIN doc.latest["message"], NEW at
  PROVE  LET entry == Envelope(doc.latest, key, at)
         IN  MessageShown(entry) /\ PartsShown(entry) /\ key = <<MessageID(entry)>>
<1> DEFINE entry == Envelope(doc.latest, key, at)
           info == CurrentOf(doc.latest, "message", key)
           id == Get(info, "id")
           D == DOMAIN doc.latest["part"]
           A == AddedBefore(doc.latest, "part")
           mine == {k \in D : Get(CurrentOf(doc.latest, "part", k), "messageID") = id}
           P == PartsOf(doc.latest, id)
<1>1. id # Absent /\ key = <<id>>
  BY MessageFacts
<1>2. Or(Get(info, "id"), Empty) = id
  BY <1>1 DEF Or
<1>3. entry = [info |-> info,
               parts |-> [i \in DOMAIN P |-> CurrentOf(doc.latest, "part", P[i])],
               partSources |-> [i \in DOMAIN P |-> Sources(doc.latest, "part", P[i])],
               sourceIndexes |-> Sources(doc.latest, "message", key),
               messageIndex |-> at]
  BY <1>2 DEF Envelope
<1>4. "part" \in Types
  BY DEF Types, ObjectTypes
<1>5. IsFiniteSet(mine) /\ StrictOrderOn(mine, A) /\ P = Listed(mine, A)
  <2>1. IsFiniteSet(D) /\ StrictOrderOn(D, A)
    BY <1>4, FiniteKeys, AddedOrder
  <2>2. mine \subseteq D
    OBVIOUS
  <2>3. P = Listed(mine, A)
    BY DEF PartsOf
  <2> HIDE DEF D, A, mine
  <2>4. IsFiniteSet(mine)
    BY <2>1, <2>2, FS_Subset
  <2>5. StrictOrderOn(mine, A)
    BY <2>1, <2>2 DEF StrictOrderOn
  <2>. QED
    BY <2>3, <2>4, <2>5
<1> DEFINE d == Cardinality(mine)
<1>6. /\ d \in Nat /\ DOMAIN P = 1..d
      /\ \A j \in 1..d : P[j] \in mine
      /\ \A j, l \in 1..d : P[j] = P[l] => j = l
      /\ \A k \in mine : \E j \in 1..d : P[j] = k
  <2> HIDE DEF mine, A, P
  <2>1. QED
    BY <1>5, ListedFacts
<1>7. MessageID(entry) = id
  <2>1. entry.info = info
    BY <1>3
  <2>. QED
    BY <1>1, <2>1 DEF MessageID, Or
<1>8. MessageShown(entry)
  <2>1. entry.info = info /\ entry.sourceIndexes = Sources(doc.latest, "message", key)
    BY <1>3
  <2> HIDE DEF entry, info, id
  <2>. QED
    BY <1>1, <1>7, <2>1 DEF MessageShown, id, info
<1>9. /\ entry.parts = [i \in 1..d |-> CurrentOf(doc.latest, "part", P[i])]
      /\ entry.partSources = [i \in 1..d |-> Sources(doc.latest, "part", P[i])]
  BY <1>3, <1>6
<1>10. ASSUME NEW k \in mine
       PROVE  LET part == CurrentOf(doc.latest, "part", k)
              IN  /\ k \in D /\ Get(part, "messageID") = id
                  /\ k = <<id, Get(part, "id")>> /\ Get(part, "id") # Absent
                  /\ PartKey(part) = k /\ k # Absent /\ part.type = Get(part, "type")
  BY PartValue
<1>11. \A k \in D : k[1] = id => k \in mine
  BY PartFacts
<1> HIDE DEF entry, info, id, mine, P, D, d
<1>12. ASSUME NEW j \in 1..d
       PROVE  PartShown(entry, j) /\ P[j] = <<id, Get(entry.parts[j], "id")>>
  <2> DEFINE part == entry.parts[j]
             k == P[j]
  <2>1. k \in mine /\ part = CurrentOf(doc.latest, "part", k)
        /\ entry.partSources[j] = Sources(doc.latest, "part", k)
    BY <1>6, <1>9
  <2>2. /\ k \in D /\ Get(part, "messageID") = id
        /\ k = <<id, Get(part, "id")>> /\ Get(part, "id") # Absent
        /\ PartKey(part) = k /\ k # Absent /\ part.type = Get(part, "type")
    BY <1>10, <2>1
  <2>3. PartSourcesAt(entry, j) = entry.partSources[j]
    BY <2>2 DEF PartSourcesAt
  <2> HIDE DEF part, k
  <2>4. k = <<MessageID(entry), Get(part, "id")>>
    BY <1>7, <2>2
  <2>5. /\ k \in DOMAIN doc.latest["part"] /\ part = CurrentOf(doc.latest, "part", k)
        /\ entry.partSources[j] = Sources(doc.latest, "part", k)
        /\ Get(part, "id") # Absent /\ Get(part, "messageID") = MessageID(entry)
        /\ PartKey(part) = k /\ k # Absent /\ part.type = Get(part, "type")
        /\ PartSourcesAt(entry, j) = Sources(doc.latest, "part", k)
    BY <1>7, <2>1, <2>2, <2>3 DEF D
  <2>6. PartShown(entry, j)
    BY <2>4, <2>5 DEF PartShown, part
  <2>. QED
    BY <2>2, <2>6 DEF part, k
<1>13. DOMAIN entry.parts = 1..d /\ entry.parts = [j \in 1..d |-> entry.parts[j]]
  BY <1>9
<1>14. \A j, l \in 1..d : Get(entry.parts[j], "id") = Get(entry.parts[l], "id") => j = l
  <2>1. SUFFICES ASSUME NEW j \in 1..d, NEW l \in 1..d,
                        Get(entry.parts[j], "id") = Get(entry.parts[l], "id")
                 PROVE  j = l
    OBVIOUS
  <2>2. P[j] = P[l]
    BY <1>12, <2>1
  <2>. QED
    BY <1>6, <2>2
<1>15. ASSUME NEW k \in DOMAIN doc.latest["part"], k[1] = MessageID(entry)
       PROVE  \E j \in 1..d : k = <<MessageID(entry), Get(entry.parts[j], "id")>>
  <2>1. k \in mine
    BY <1>7, <1>11, <1>15 DEF D
  <2>2. PICK j \in 1..d : P[j] = k
    BY <1>6, <2>1
  <2>. QED
    BY <1>7, <1>12, <2>2
<1>16. PartsShown(entry)
  BY <1>6, <1>12, <1>13, <1>14, <1>15 DEF PartsShown
<1>. QED
  BY <1>1, <1>7, <1>8, <1>16 DEF entry

LEMMA VisibleFacts ==
  ASSUME AllInv, ~Corrupt(doc)
  PROVE  \E c \in Nat : /\ Visible(VisibleMessages(doc.latest), c)
                        /\ \A i \in 1..c : VisibleMessages(doc.latest)[i].messageIndex = i - 1
<1> DEFINE D == DOMAIN doc.latest["message"]
           B == MessageBefore(doc.latest)
           K == MessageKeys(doc.latest)
           V == VisibleMessages(doc.latest)
           c == Cardinality(D)
<1>1. IsFiniteSet(D) /\ StrictOrderOn(D, B)
  BY MessagesOrdered
<1>2. K = Listed(D, B)
  BY DEF MessageKeys
<1>3. /\ c \in Nat /\ DOMAIN K = 1..c
      /\ \A i \in 1..c : K[i] \in D
      /\ \A i, j \in 1..c : K[i] = K[j] => i = j
      /\ \A key \in D : \E i \in 1..c : K[i] = key
  <2> HIDE DEF D, B, K
  <2>1. QED
    BY <1>1, <1>2, ListedFacts
<1>4. V = [i \in 1..c |-> Envelope(doc.latest, K[i], i - 1)]
  BY <1>3 DEF VisibleMessages
<1>5. ASSUME NEW i \in 1..c
      PROVE  /\ MessageShown(V[i]) /\ PartsShown(V[i]) /\ K[i] = <<MessageID(V[i])>>
             /\ V[i].messageIndex = i - 1
  <2>1. K[i] \in D /\ V[i] = Envelope(doc.latest, K[i], i - 1)
    BY <1>3, <1>4
  <2>2. V[i].messageIndex = i - 1
    BY <2>1 DEF Envelope
  <2> HIDE DEF K, V, c
  <2>. QED
    BY <2>1, <2>2, EnvelopeFacts
<1> HIDE DEF K, V
<1>6. \A i, j \in 1..c : MessageID(V[i]) = MessageID(V[j]) => i = j
  <2>1. SUFFICES ASSUME NEW i \in 1..c, NEW j \in 1..c, MessageID(V[i]) = MessageID(V[j])
                 PROVE  i = j
    OBVIOUS
  <2>2. K[i] = K[j]
    BY <1>5, <2>1
  <2>. QED
    BY <1>3, <2>2
<1>7. ASSUME NEW key \in D
      PROVE  \E i \in 1..c : key = <<MessageID(V[i])>>
  <2>1. PICK i \in 1..c : K[i] = key
    BY <1>3
  <2>2. key = <<MessageID(V[i])>>
    BY <1>5, <2>1
  <2>. QED
    BY <2>2
<1>8. V = [i \in 1..c |-> V[i]]
  BY <1>4
<1>9. Visible(V, c)
  BY <1>3, <1>5, <1>6, <1>7, <1>8 DEF Visible, K
<1>. QED
  BY <1>3, <1>5, <1>9 DEF V

Timelines == INSTANCE FoldFacts WITH Op <- JoinTimeline
Turning   == INSTANCE FoldFacts WITH Op <- JoinTurn

-----------------------------------------------------------------------------
(* The totals of the turns.                                                *)

(* The least and the greatest element of a finite set of numbers.          *)
LEMMA MinMaxFacts ==
  ASSUME NEW S \in SUBSET Nat, IsFiniteSet(S), S # {}
  PROVE  /\ Min(S) \in S /\ \A y \in S : Min(S) <= y
         /\ Max(S) \in S /\ \A y \in S : Max(S) >= y
<1>1. \E x \in S : \A y \in S : x <= y
  BY LeastNatural
<1>2. \E x \in S : \A y \in S : x >= y
  <2> DEFINE below(k) == \A T \in SUBSET S : Cardinality(T) = k /\ T # {} => \E x \in T : \A y \in T : x >= y
             Good == {k \in Nat : below(k)}
  <2>1. 0 \in Good
    <3>1. \A T \in SUBSET S : Cardinality(T) = 0 => T = {}
      BY FS_Subset, FS_EmptySet
    <3>. QED
      BY <3>1
  <2>2. ASSUME NEW k \in Nat, k \in Good
        PROVE  k + 1 \in Good
    <3>1. SUFFICES ASSUME NEW T \in SUBSET S, Cardinality(T) = k + 1, T # {}
                   PROVE  \E x \in T : \A y \in T : x >= y
      OBVIOUS
    <3>2. PICK z \in T : TRUE
      BY <3>1
    <3> DEFINE U == T \ {z}
    <3>3. IsFiniteSet(T) /\ Cardinality(U) = k /\ U \in SUBSET S
      <4>1. IsFiniteSet(T)
        BY FS_Subset
      <4>2. Cardinality(T \ {z}) = Cardinality(T) - 1
        BY <3>2, <4>1, FS_RemoveElement
      <4>. QED
        BY <3>1, <4>1, <4>2
    <3>4. CASE U = {}
      <4>1. \A y \in T : y = z
        BY <3>4
      <4>. QED
        BY <4>1
    <3>5. CASE U # {}
      <4>1. PICK x \in U : \A y \in U : x >= y
        BY <2>2, <3>3, <3>5
      <4>2. x \in Nat /\ z \in Nat /\ \A y \in T : y \in U \/ y = z
        BY <3>3
      <4>3. CASE x >= z
        BY <4>1, <4>2, <4>3
      <4>4. CASE z >= x
        <5>1. \A y \in T : y \in Nat
          OBVIOUS
        <5>2. \A y \in T : z >= y
          BY <4>1, <4>2, <4>4, <5>1
        <5>. QED
          BY <5>2
      <4>. QED
        BY <4>2, <4>3, <4>4
    <3>. QED
      BY <3>4, <3>5
  <2> HIDE DEF Good
  <2>3. Nat \subseteq Good
    BY <2>1, <2>2, NatInductionOnSet
  <2>4. Cardinality(S) \in Good
    BY <2>3, FS_CardinalityType
  <2>. QED
    BY <2>4 DEF Good
<1>. QED
  BY <1>1, <1>2 DEF Min, Max

(* The raw items of two lists of sources together.                         *)
LEMMA RangeJoined ==
  ASSUME NEW s \in Seq(Positions), NEW t \in Seq(Positions)
  PROVE  RawRange(s \o t) = MergeRange(RawRange(s), RawRange(t))
<1> DEFINE indexes(l) == {l[i].rawItemIndex : i \in DOMAIN l}
           S == indexes(s)
           T == indexes(t)
           U == indexes(s \o t)
<1>1. ASSUME NEW l \in Seq(Positions)
      PROVE  indexes(l) \in SUBSET Nat /\ IsFiniteSet(indexes(l))
  <2> DEFINE f == [i \in DOMAIN l |-> l[i].rawItemIndex]
  <2>1. IsFiniteSet(DOMAIN l)
    <3>1. DOMAIN l = 1..Len(l) /\ Len(l) \in Nat
      OBVIOUS
    <3>. QED
      BY <3>1, FS_Interval
  <2>2. f \in Surjection(DOMAIN l, indexes(l))
    BY DEF Surjection
  <2>3. indexes(l) \in SUBSET Nat
    <3>1. \A i \in DOMAIN l : l[i] \in Positions
      OBVIOUS
    <3>2. \A i \in DOMAIN l : l[i].rawItemIndex \in Nat
      BY <3>1 DEF Positions
    <3>. QED
      BY <3>2
  <2> HIDE DEF f, indexes
  <2>. QED
    BY <2>1, <2>2, <2>3, FS_Surjection
<1>2. U = S \cup T
  <2> DEFINE l == s \o t
             n == Len(s)
  <2>1. /\ n \in Nat /\ Len(t) \in Nat /\ DOMAIN s = 1..n /\ DOMAIN t = 1..Len(t)
        /\ DOMAIN l = 1..(n + Len(t))
        /\ \A i \in DOMAIN s : i \in DOMAIN l /\ l[i] = s[i]
        /\ \A i \in DOMAIN t : n + i \in DOMAIN l /\ l[n + i] = t[i]
    OBVIOUS
  <2>2. \A i \in DOMAIN l : i \in DOMAIN s \/ (i - n \in DOMAIN t /\ i = n + (i - n))
    BY <2>1
  <2> HIDE DEF l, n
  <2>3. U = {l[i].rawItemIndex : i \in DOMAIN l}
    BY DEF l
  <2>4. \A x \in U : x \in S \cup T
    <3>1. SUFFICES ASSUME NEW i \in DOMAIN l PROVE l[i].rawItemIndex \in S \cup T
      BY <2>3
    <3>2. CASE i \in DOMAIN s
      BY <2>1, <3>2
    <3>3. CASE i - n \in DOMAIN t /\ i = n + (i - n)
      BY <2>1, <3>3
    <3>. QED
      BY <2>2, <3>2, <3>3
  <2>5. \A i \in DOMAIN s : s[i].rawItemIndex \in U
    BY <2>1, <2>3
  <2>6. \A i \in DOMAIN t : t[i].rawItemIndex \in U
    <3>1. SUFFICES ASSUME NEW i \in DOMAIN t PROVE t[i].rawItemIndex \in U
      OBVIOUS
    <3>2. n + i \in DOMAIN l /\ l[n + i] = t[i]
      BY <2>1
    <3>. QED
      BY <2>3, <3>2
  <2>. QED
    BY <2>4, <2>5, <2>6
<1>3. /\ RawRange(s) = IF S = {} THEN NoRange ELSE [first |-> Min(S), last |-> Max(S)]
      /\ RawRange(t) = IF T = {} THEN NoRange ELSE [first |-> Min(T), last |-> Max(T)]
      /\ RawRange(s \o t) = IF U = {} THEN NoRange ELSE [first |-> Min(U), last |-> Max(U)]
  BY DEF RawRange
<1>4. S \in SUBSET Nat /\ IsFiniteSet(S) /\ T \in SUBSET Nat /\ IsFiniteSet(T)
  BY <1>1
<1> HIDE DEF S, T, U
<1>5. CASE S = {}
  BY <1>2, <1>3, <1>5 DEF MergeRange, NoRange
<1>6. CASE S # {} /\ T = {}
  <2>1. Min(S) \in Nat /\ U = S
    BY <1>2, <1>4, <1>6, MinMaxFacts
  <2>2. RawRange(s) = [first |-> Min(S), last |-> Max(S)] /\ RawRange(s).first = Min(S)
    BY <1>3, <1>6
  <2>3. ~(RawRange(s).first < 0) /\ RawRange(t).first < 0
    BY <1>3, <1>6, <2>1, <2>2 DEF NoRange
  <2>. QED
    BY <1>3, <1>6, <2>1, <2>3 DEF MergeRange
<1>7. CASE S # {} /\ T # {}
  <2> DEFINE lows == {Min(S), Min(T)}
             highs == {Max(S), Max(T)}
  <2>1. /\ Min(S) \in S /\ Max(S) \in S /\ Min(T) \in T /\ Max(T) \in T
        /\ \A y \in S : Min(S) <= y /\ Max(S) >= y
        /\ \A y \in T : Min(T) <= y /\ Max(T) >= y
    BY <1>4, <1>7, MinMaxFacts
  <2>2. Min(S) \in Nat /\ Max(S) \in Nat /\ Min(T) \in Nat /\ Max(T) \in Nat
    BY <1>4, <2>1
  <2>3. U \in SUBSET Nat /\ IsFiniteSet(U) /\ U # {}
    BY <1>2, <1>4, <1>7, FS_Union
  <2>4. Min(U) \in U /\ Max(U) \in U /\ \A y \in U : Min(U) <= y /\ Max(U) >= y
    BY <2>3, MinMaxFacts
  <2>5. /\ Min(lows) \in lows /\ \A y \in lows : Min(lows) <= y
        /\ Max(highs) \in highs /\ \A y \in highs : Max(highs) >= y
    <3>1. lows \in SUBSET Nat /\ highs \in SUBSET Nat /\ lows # {} /\ highs # {}
      BY <2>2
    <3>2. IsFiniteSet(lows) /\ IsFiniteSet(highs)
      <4>1. ASSUME NEW a, NEW b PROVE IsFiniteSet({a, b})
        <5>1. {a, b} = {a} \cup {b}
          OBVIOUS
        <5>2. IsFiniteSet({a} \cup {b})
          BY FS_Singleton, FS_AddElement
        <5>. QED
          BY <5>1, <5>2
      <4>2. IsFiniteSet({Min(S), Min(T)})
        BY <4>1
      <4>3. IsFiniteSet({Max(S), Max(T)})
        BY <4>1
      <4>. QED
        BY <4>2, <4>3
    <3> HIDE DEF lows, highs
    <3>. QED
      BY <3>1, <3>2, MinMaxFacts
  <2>11. /\ Min(lows) \in {Min(S), Min(T)} /\ Max(highs) \in {Max(S), Max(T)}
         /\ Min(lows) <= Min(S) /\ Min(lows) <= Min(T)
         /\ Max(highs) >= Max(S) /\ Max(highs) >= Max(T)
    BY <2>5
  <2> HIDE DEF lows, highs
  <2>6. Min(U) = Min(lows)
    <3>1. Min(lows) \in U
      BY <1>2, <2>1, <2>11
    <3>2. Min(lows) <= Min(S) /\ Min(lows) <= Min(T) /\ Min(lows) \in Nat
      BY <2>2, <2>11
    <3>3. \A y \in U : Min(lows) <= y
      <4>1. SUFFICES ASSUME NEW y \in U PROVE Min(lows) <= y
        OBVIOUS
      <4>2. (y \in S /\ Min(S) <= y) \/ (y \in T /\ Min(T) <= y)
        BY <1>2, <2>1
      <4>3. y \in Nat
        BY <1>4, <4>2
      <4>. QED
        BY <2>2, <3>2, <4>2, <4>3
    <3>4. Min(U) <= Min(lows) /\ Min(lows) <= Min(U) /\ Min(U) \in Nat
      BY <2>3, <2>4, <3>1, <3>3
    <3>. QED
      BY <3>2, <3>4
  <2>7. Max(U) = Max(highs)
    <3>1. Max(highs) \in U
      BY <1>2, <2>1, <2>11
    <3>2. Max(highs) >= Max(S) /\ Max(highs) >= Max(T) /\ Max(highs) \in Nat
      BY <2>2, <2>11
    <3>3. \A y \in U : Max(highs) >= y
      <4>1. SUFFICES ASSUME NEW y \in U PROVE Max(highs) >= y
        OBVIOUS
      <4>2. (y \in S /\ Max(S) >= y) \/ (y \in T /\ Max(T) >= y)
        BY <1>2, <2>1
      <4>3. y \in Nat
        BY <1>4, <4>2
      <4>. QED
        BY <2>2, <3>2, <4>2, <4>3
    <3>4. Max(U) >= Max(highs) /\ Max(highs) >= Max(U) /\ Max(U) \in Nat
      BY <2>3, <2>4, <3>1, <3>3
    <3>. QED
      BY <3>2, <3>4
  <2>8. /\ RawRange(s) = [first |-> Min(S), last |-> Max(S)]
        /\ RawRange(t) = [first |-> Min(T), last |-> Max(T)]
        /\ RawRange(s \o t) = [first |-> Min(U), last |-> Max(U)]
    BY <1>3, <1>7, <2>3
  <2>9. ~(Min(S) < 0) /\ ~(Min(T) < 0)
    BY <2>2
  <2>10. MergeRange(RawRange(s), RawRange(t)) = [first |-> Min(lows), last |-> Max(highs)]
    BY <2>8, <2>9 DEF MergeRange, lows, highs
  <2>. QED
    BY <2>6, <2>7, <2>8, <2>10
<1>. QED
  BY <1>5, <1>6, <1>7

JoinedSources(messages) == FlattenSeq([n \in DOMAIN messages |-> messages[n].sourceIndexes])

ToolsOf(message) == Filter(message.parts, IsToolPart)

JoinedTools(messages) == FlattenSeq([n \in DOMAIN messages |-> ToolsOf(messages[n])])

Displayed(M) ==
  \A m \in M : m.sourceIndexes \in Seq(Positions) /\ \E d \in Nat : DOMAIN m.parts = 1..d

LEMMA ToolsAre ==
  ASSUME NEW message, NEW d \in Nat, DOMAIN message.parts = 1..d
  PROVE  /\ CountTools(message.parts) \in Nat
         /\ ToolsOf(message) \in Seq({ToolsOf(message)[i] : i \in DOMAIN ToolsOf(message)})
         /\ Len(ToolsOf(message)) = CountTools(message.parts)
<1> DEFINE tools == ToolsOf(message)
           I == {i \in DOMAIN message.parts : IsToolPart(message.parts[i])}
           n == Cardinality(I)
<1>1. tools = Kept(message.parts, I)
  BY DEF ToolsOf, Filter
<1>2. I \in SUBSET (1..d)
  OBVIOUS
<1>3. n \in Nat /\ tools = [i \in 1..n |-> tools[i]]
  <2> HIDE DEF I
  <2>1. n \in Nat
    BY <1>2, KeptFacts
  <2>2. tools = [i \in 1..n |-> message.parts[Ascending(I)[i]]]
    BY <1>1 DEF Kept
  <2> HIDE DEF tools
  <2>. QED
    BY <2>1, <2>2
<1> HIDE DEF tools, I
<1>4. tools \in Seq({tools[i] : i \in 1..n}) /\ Len(tools) = n /\ DOMAIN tools = 1..n
  BY <1>3, ListOfValues
<1>5. CountTools(message.parts) = Len(tools)
  BY DEF CountTools, tools, ToolsOf
<1>. QED
  BY <1>3, <1>4, <1>5 DEF tools

LEMMA JoinedNothing == JoinedSources(<<>>) = <<>> /\ JoinedTools(<<>>) = <<>>
<1> DEFINE a == [n \in DOMAIN <<>> |-> <<>>[n].sourceIndexes]
           b == [n \in DOMAIN <<>> |-> ToolsOf(<<>>[n])]
<1>1. a = <<>> /\ b = <<>>
  OBVIOUS
<1>2. JoinedSources(<<>>) = FlattenSeq(a) /\ JoinedTools(<<>>) = FlattenSeq(b)
  BY DEF JoinedSources, JoinedTools
<1>. QED
  BY <1>1, <1>2, FlattenNothing

(* One message more adds its sources and its calls.                        *)
LEMMA JoinedGrow ==
  ASSUME NEW M, Displayed(M), NEW s \in Seq(M), NEW m \in M
  PROVE  /\ JoinedSources(Append(s, m)) = JoinedSources(s) \o m.sourceIndexes
         /\ JoinedSources(s) \in Seq(Positions)
         /\ Len(JoinedTools(Append(s, m))) = Len(JoinedTools(s)) + CountTools(m.parts)
         /\ Len(JoinedTools(s)) \in Nat /\ CountTools(m.parts) \in Nat
<1> DEFINE X == UNION {{ToolsOf(x)[i] : i \in DOMAIN ToolsOf(x)} : x \in M}
           f == [x \in M |-> x.sourceIndexes]
           g == [x \in M |-> ToolsOf(x)]
           more == Append(s, m)
           fs == [i \in DOMAIN s |-> f[s[i]]]
           gs == [i \in DOMAIN s |-> g[s[i]]]
<1>1. f \in [M -> Seq(Positions)] /\ f[m] = m.sourceIndexes
  BY DEF Displayed
<1>2. g \in [M -> Seq(X)] /\ g[m] = ToolsOf(m)
  <2>1. ASSUME NEW x \in M PROVE ToolsOf(x) \in Seq(X)
    <3> DEFINE Y == {ToolsOf(x)[i] : i \in DOMAIN ToolsOf(x)}
    <3>1. PICK d \in Nat : DOMAIN x.parts = 1..d
      BY DEF Displayed
    <3>2. ToolsOf(x) \in Seq(Y)
      BY <3>1, ToolsAre
    <3>3. Y \subseteq X
      OBVIOUS
    <3> HIDE DEF X, Y
    <3>. QED
      BY <3>2, <3>3
  <2> HIDE DEF X
  <2>. QED
    BY <2>1
<1>3. Len(ToolsOf(m)) = CountTools(m.parts) /\ CountTools(m.parts) \in Nat
  <2>1. PICK d \in Nat : DOMAIN m.parts = 1..d
    BY DEF Displayed
  <2>. QED
    BY <2>1, ToolsAre
<1>4. \A i \in DOMAIN s : s[i] \in M
  OBVIOUS
<1>5. \A i \in DOMAIN more : more[i] \in M
  <2>1. more \in Seq(M)
    OBVIOUS
  <2> HIDE DEF more
  <2>. QED
    BY <2>1
<1>6. /\ JoinedSources(s) = FlattenSeq(fs)
      /\ JoinedSources(more) = FlattenSeq([i \in DOMAIN more |-> f[more[i]]])
  <2> HIDE DEF more
  <2>1. /\ fs = [i \in DOMAIN s |-> s[i].sourceIndexes]
        /\ [i \in DOMAIN more |-> f[more[i]]] = [i \in DOMAIN more |-> more[i].sourceIndexes]
    BY <1>4, <1>5
  <2>. QED
    BY <2>1 DEF JoinedSources
<1>7. /\ JoinedTools(s) = FlattenSeq(gs)
      /\ JoinedTools(more) = FlattenSeq([i \in DOMAIN more |-> g[more[i]]])
  <2> HIDE DEF more
  <2>1. /\ gs = [i \in DOMAIN s |-> ToolsOf(s[i])]
        /\ [i \in DOMAIN more |-> g[more[i]]] = [i \in DOMAIN more |-> ToolsOf(more[i])]
    BY <1>4, <1>5
  <2>. QED
    BY <2>1 DEF JoinedTools
<1> HIDE DEF f, g, X
<1>8. fs \in Seq(Seq(Positions)) /\ [i \in DOMAIN more |-> f[more[i]]] = Append(fs, f[m])
  <2> DEFINE Y == Seq(Positions)
  <2>1. f \in [M -> Y]
    BY <1>1
  <2> HIDE DEF Y
  <2>2. /\ [i \in DOMAIN s |-> f[s[i]]] \in Seq(Y)
        /\ [i \in DOMAIN Append(s, m) |-> f[Append(s, m)[i]]] = Append([i \in DOMAIN s |-> f[s[i]]], f[m])
    BY <2>1, MappedAppend
  <2>. QED
    BY <2>2 DEF Y
<1>9. gs \in Seq(Seq(X)) /\ [i \in DOMAIN more |-> g[more[i]]] = Append(gs, g[m])
  <2> DEFINE Y == Seq(X)
  <2>1. g \in [M -> Y]
    BY <1>2
  <2> HIDE DEF Y
  <2>2. /\ [i \in DOMAIN s |-> g[s[i]]] \in Seq(Y)
        /\ [i \in DOMAIN Append(s, m) |-> g[Append(s, m)[i]]] = Append([i \in DOMAIN s |-> g[s[i]]], g[m])
    BY <2>1, MappedAppend
  <2>. QED
    BY <2>2 DEF Y
<1> HIDE DEF fs, gs
<1>10. /\ FlattenSeq(Append(fs, f[m])) = FlattenSeq(fs) \o f[m] /\ FlattenSeq(fs) \in Seq(Positions)
  BY <1>1, <1>8, FlattenAppend
<1>11. /\ FlattenSeq(Append(gs, g[m])) = FlattenSeq(gs) \o g[m] /\ FlattenSeq(gs) \in Seq(X)
       /\ g[m] \in Seq(X)
  BY <1>2, <1>9, FlattenAppend
<1>12. Len(FlattenSeq(gs) \o g[m]) = Len(FlattenSeq(gs)) + Len(g[m]) /\ Len(FlattenSeq(gs)) \in Nat
  BY <1>11, JoinedTwice
<1> HIDE DEF more
<1>13. Len(JoinedTools(more)) = Len(JoinedTools(s)) + CountTools(m.parts) /\ Len(JoinedTools(s)) \in Nat
  BY <1>2, <1>3, <1>7, <1>9, <1>11, <1>12
<1>. QED
  BY <1>1, <1>3, <1>6, <1>8, <1>10, <1>13 DEF more

TurnsOf(M) ==
  {turn \in [hasUser : BOOLEAN, messages : Seq(M), rawRange : {RawRange(s) : s \in Seq(Positions)},
             toolCount : Nat, fileCount : {CountFiles(s) : s \in Seq(M)}] :
     /\ turn.rawRange = RawRange(JoinedSources(turn.messages))
     /\ turn.toolCount = Len(JoinedTools(turn.messages))}

Extended(turn, message) ==
  [hasUser |-> turn.hasUser, messages |-> Append(turn.messages, message),
   rawRange |-> MergeRange(turn.rawRange, RawRange(message.sourceIndexes)),
   toolCount |-> turn.toolCount + CountTools(message.parts),
   fileCount |-> CountFiles(Append(turn.messages, message))]

(* A turn begins with its own totals.                                      *)
LEMMA DisplayTurnFacts ==
  ASSUME NEW M, Displayed(M), NEW m \in M
  PROVE  DisplayTurn(m) \in TurnsOf(M)
<1> DEFINE none == <<>>
           one == <<m>>
<1>1. none \in Seq(M) /\ Append(none, m) = one /\ one \in Seq(M)
  OBVIOUS
<1>2. /\ JoinedSources(Append(none, m)) = JoinedSources(none) \o m.sourceIndexes
      /\ Len(JoinedTools(Append(none, m))) = Len(JoinedTools(none)) + CountTools(m.parts)
      /\ CountTools(m.parts) \in Nat
  <2> HIDE DEF none
  <2>1. QED
    BY <1>1, JoinedGrow
<1>3. m.sourceIndexes \in Seq(Positions)
  BY DEF Displayed
<1>4. JoinedSources(one) = m.sourceIndexes
  <2>1. <<>> \o m.sourceIndexes = m.sourceIndexes
    BY <1>3
  <2>. QED
    BY <1>1, <1>2, <2>1, JoinedNothing
<1>5. Len(JoinedTools(one)) = CountTools(m.parts)
  <2>1. Len(JoinedTools(none)) = 0
    BY JoinedNothing
  <2>. QED
    BY <1>1, <1>2, <2>1
<1> HIDE DEF one, none
<1>6. DisplayTurn(m) = [hasUser |-> m.role = "user", messages |-> one,
                        rawRange |-> RawRange(m.sourceIndexes),
                        toolCount |-> CountTools(m.parts), fileCount |-> CountFiles(one)]
  BY DEF DisplayTurn, one
<1>7. (m.role = "user") \in BOOLEAN
  OBVIOUS
<1> DEFINE u == m.role = "user"
<1> HIDE DEF u
<1>. QED
  BY <1>1, <1>2, <1>3, <1>4, <1>5, <1>6, <1>7 DEF TurnsOf, u

LEMMA ExtendedFacts ==
  ASSUME NEW M, Displayed(M), NEW turn \in TurnsOf(M), NEW m \in M
  PROVE  Extended(turn, m) \in TurnsOf(M)
<1> DEFINE s == turn.messages
           more == Append(s, m)
<1>1. /\ s \in Seq(M) /\ turn.hasUser \in BOOLEAN /\ turn.toolCount \in Nat
      /\ turn.rawRange = RawRange(JoinedSources(s)) /\ turn.toolCount = Len(JoinedTools(s))
  BY DEF TurnsOf
<1> HIDE DEF s
<1>2. more \in Seq(M)
  BY <1>1
<1>3. m.sourceIndexes \in Seq(Positions)
  BY DEF Displayed
<1>4. /\ JoinedSources(more) = JoinedSources(s) \o m.sourceIndexes /\ JoinedSources(s) \in Seq(Positions)
      /\ Len(JoinedTools(more)) = Len(JoinedTools(s)) + CountTools(m.parts)
      /\ Len(JoinedTools(s)) \in Nat /\ CountTools(m.parts) \in Nat
  BY <1>1, JoinedGrow
<1>5. RawRange(JoinedSources(more)) = MergeRange(turn.rawRange, RawRange(m.sourceIndexes))
  BY <1>1, <1>3, <1>4, RangeJoined
<1>6. JoinedSources(more) \in Seq(Positions)
  BY <1>3, <1>4, JoinedTwice
<1> HIDE DEF more
<1>7. Extended(turn, m) = [hasUser |-> turn.hasUser, messages |-> more,
                           rawRange |-> RawRange(JoinedSources(more)),
                           toolCount |-> Len(JoinedTools(more)), fileCount |-> CountFiles(more)]
  BY <1>1, <1>4, <1>5 DEF Extended, more, s
<1>8. Len(JoinedTools(more)) \in Nat
  BY <1>4
<1>. QED
  BY <1>1, <1>2, <1>6, <1>7, <1>8 DEF TurnsOf

(* What a message does to the turns before it.                             *)
LEMMA JoinTimelineIs ==
  ASSUME NEW M, NEW turns \in Seq(TurnsOf(M)), NEW m
  PROVE  /\ m.role = "user" \/ turns = <<>> =>
              JoinTimeline(turns, m) = Append(turns, DisplayTurn(m))
         /\ m.role # "user" /\ turns # <<>> =>
              JoinTimeline(turns, m) = [turns EXCEPT ![Len(turns)] = Extended(turns[Len(turns)], m)]
<1> DEFINE n == Len(turns)
           last == turns[n]
<1>1. m.role = "user" \/ turns = <<>> => JoinTimeline(turns, m) = Append(turns, DisplayTurn(m))
  BY DEF JoinTimeline
<1>2. ASSUME m.role # "user", turns # <<>>
      PROVE  JoinTimeline(turns, m) = [turns EXCEPT ![n] = Extended(last, m)]
  <2>1. n \in DOMAIN turns /\ last \in TurnsOf(M) /\ Last(turns) = last
    BY <1>2 DEF Last
  <2>2. last = [hasUser |-> last.hasUser, messages |-> last.messages, rawRange |-> last.rawRange,
                toolCount |-> last.toolCount, fileCount |-> last.fileCount]
    BY <2>1 DEF TurnsOf
  <2> DEFINE messages == Append(last.messages, m)
             range == MergeRange(last.rawRange, RawRange(m.sourceIndexes))
             count == last.toolCount + CountTools(m.parts)
             files == CountFiles(messages)
  <2>3. JoinTimeline(turns, m) =
          [turns EXCEPT ![n].messages = messages,
                        ![n].rawRange = MergeRange(@, RawRange(m.sourceIndexes)),
                        ![n].toolCount = @ + CountTools(m.parts),
                        ![n].fileCount = files]
    BY <1>2, <2>1 DEF JoinTimeline
  <2>4. Extended(last, m) = [hasUser |-> last.hasUser, messages |-> messages, rawRange |-> range,
                             toolCount |-> count, fileCount |-> files]
    BY DEF Extended
  <2> HIDE DEF messages, files, n, last
  <2>5. JoinTimeline(turns, m) =
          [turns EXCEPT ![n] = [hasUser |-> last.hasUser, messages |-> messages, rawRange |-> range,
                                toolCount |-> count, fileCount |-> files]]
    BY <2>1, <2>2, <2>3 DEF last
  <2>. QED
    BY <2>4, <2>5
<1>. QED
  BY <1>1, <1>2

(* What every version of a message says of a field, its normalised value   *)
(* says too.                                                               *)
LEMMA SettledField ==
  ASSUME AllInv, ~Corrupt(doc), NEW key \in DOMAIN doc.latest["message"], NEW field, NEW r,
         \A n \in Entries("message", key) : Get(log[n].data, field) = r
  PROVE  Get(ValueOf(doc.normalized, "message", key), field) = r
<1> DEFINE value == doc.normalized["message"][key].value
           G == Given("message", key)
<1>0. "message" \in Types /\ "message" \in ObjectTypes
  BY DEF Types, ObjectTypes
<1>1. MadeOf(value, G, log)
  BY <1>0, FirstSeenFacts DEF AllInv, OriginInv, MergedInv
<1>2. ASSUME NEW n \in G
      PROVE  Get(log[n].data, field) = r
  <2>1. n \in DOMAIN log /\ log[n].type = "message" /\ NormalizedKey(log[n]) = key
    BY DEF Given
  <2>2. n \in Entries("message", key)
    BY <1>0, <2>1, CleanRecord DEF Entries
  <2>. QED
    BY <2>2
<1>3. ValueOf(doc.normalized, "message", key) = value
  BY DEF ValueOf
<1> HIDE DEF value, G
<1>4. CASE field \in DOMAIN value
  <2>1. PICK n \in G : field \in DOMAIN log[n].data /\ log[n].data[field] = value[field]
    BY <1>1, <1>4 DEF MadeOf
  <2>2. value[field] = r
    BY <1>2, <2>1 DEF Get
  <2>. QED
    BY <1>3, <1>4, <2>2 DEF Get
<1>5. CASE field \notin DOMAIN value
  <2>1. PICK n \in G : TRUE
    BY <1>1 DEF MadeOf
  <2>2. field \notin DOMAIN log[n].data
    BY <1>1, <1>5, <2>1 DEF MadeOf
  <2>3. r = Absent
    BY <1>2, <2>1, <2>2 DEF Get
  <2>. QED
    BY <1>3, <1>5, <2>3 DEF Get
<1>. QED
  BY <1>4, <1>5

(* A message's id, and its role if no version changes it, in both passes.  *)
LEMMA NormalizedMessage ==
  ASSUME AllInv, ~Corrupt(doc), NEW key \in DOMAIN doc.latest["message"]
  PROVE  LET left == CurrentOf(doc.latest, "message", key)
             right == ValueOf(doc.normalized, "message", key)
         IN  /\ Get(right, "id") = Get(left, "id")
             /\ RolesAreSettled => Get(right, "role") = Get(left, "role")
<1> DEFINE left == CurrentOf(doc.latest, "message", key)
           history == doc.latest["message"][key]
           roles == {Get(history[i].value, "role") : i \in DOMAIN history}
<1>0. "message" \in Types /\ "message" \notin ArrayTypes
  BY DEF Types, ObjectTypes, ArrayTypes
<1>1. Get(left, "id") # Absent /\ key = <<Get(left, "id")>>
  BY MessageFacts
<1>2. ASSUME NEW n \in Entries("message", key)
      PROVE  Get(log[n].data, "id") = Get(left, "id")
  <2>1. /\ n \in DOMAIN log /\ log[n].type = "message" /\ LatestKey(log[n]) = key
    BY DEF Entries
  <2>2. StringField(log[n].data, "id") # Absent /\ key = <<StringField(log[n].data, "id")>>
    BY <1>0, <2>1, CleanData
  <2>3. StringField(log[n].data, "id") = Get(log[n].data, "id")
    BY <2>2 DEF StringField
  <2> HIDE DEF left
  <2>. QED
    BY <1>1, <2>2, <2>3
<1>3. ASSUME RolesAreSettled
      PROVE  \A n \in Entries("message", key) : Get(log[n].data, "role") = Get(left, "role")
  <2>1. history \in Seq(Versions) \ {<<>>}
    BY <1>0 DEF AllInv, IInv, EntriesInv
  <2>2. Len(history) \in DOMAIN history /\ left = history[Len(history)].value
    BY <2>1 DEF CurrentOf, Current
  <2>3. PICK at \in [DOMAIN history -> Entries("message", key)] :
          /\ {at[i] : i \in DOMAIN history} = Entries("message", key)
          /\ \A i \in DOMAIN history :
               history[i] = [value |-> log[at[i]].data, sourceIndex |-> Source(log[at[i]])]
    <3>1. HistoryOf("message", key)
      BY <1>0 DEF AllInv, ProvenanceIsExact
    <3>. QED
      BY <3>1 DEF HistoryOf
  <2>4. PICK t : roles = {t}
    <3> DEFINE f == [i \in DOMAIN history |-> Get(history[i].value, "role")]
    <3>1. IsFiniteSet(DOMAIN history)
      <4>1. DOMAIN history = 1..Len(history) /\ Len(history) \in Nat
        BY <2>1
      <4>. QED
        BY <4>1, FS_Interval
    <3>2. f \in Surjection(DOMAIN history, roles)
      BY DEF Surjection
    <3>3. Cardinality(roles) = 1
      BY <1>3 DEF RolesAreSettled
    <3> HIDE DEF f, roles, history
    <3>4. IsFiniteSet(roles)
      BY <3>1, <3>2, FS_Surjection
    <3>. QED
      BY <3>3, <3>4, FS_Singleton
  <2>5. \A i \in DOMAIN history : Get(history[i].value, "role") = t
    BY <2>4
  <2> HIDE DEF history, roles, left
  <2>6. Get(left, "role") = t
    BY <2>2, <2>5
  <2>7. ASSUME NEW n \in Entries("message", key) PROVE Get(log[n].data, "role") = t
    <3>1. PICK i \in DOMAIN history : at[i] = n
      BY <2>3
    <3>2. history[i].value = log[n].data
      BY <2>3, <3>1
    <3>. QED
      BY <2>5, <3>1, <3>2
  <2>. QED
    BY <2>6, <2>7
<1> HIDE DEF left
<1>4. Get(ValueOf(doc.normalized, "message", key), "id") = Get(left, "id")
  BY <1>2, SettledField
<1>5. RolesAreSettled => Get(ValueOf(doc.normalized, "message", key), "role") = Get(left, "role")
  BY <1>3, SettledField
<1>. QED
  BY <1>4, <1>5 DEF left

(* What a message does to the turns of turns.ts.                           *)
AskedTurn(turn) ==
  turn = [messages |-> turn.messages, messageIDs |-> turn.messageIDs, tools |-> turn.tools,
          messageStartIndex |-> turn.messageStartIndex, messageEndIndex |-> turn.messageEndIndex]

Joined(turn, m) ==
  [messages |-> Append(turn.messages, m), messageIDs |-> Append(turn.messageIDs, m.id),
   tools |-> turn.tools \o m.tools,
   messageStartIndex |-> turn.messageStartIndex, messageEndIndex |-> m.messageIndex]

WithNew(turns, b, turn) == [i \in 1..(b + 1) |-> IF i = b + 1 THEN turn ELSE turns[i]]

WithLast(turns, b, turn) == [i \in 1..b |-> IF i = b THEN turn ELSE turns[i]]

LEMMA JoinTurnIs ==
  ASSUME NEW b \in Nat, NEW turns, turns = [i \in 1..b |-> turns[i]],
         \A i \in 1..b : AskedTurn(turns[i]), NEW m
  PROVE  /\ m.role = "user" => JoinTurn(turns, m) = WithNew(turns, b, NewTurn(m))
         /\ m.role # "user" /\ b = 0 => JoinTurn(turns, m) = turns
         /\ m.role # "user" /\ b # 0 => JoinTurn(turns, m) = WithLast(turns, b, Joined(turns[b], m))
<1> DEFINE X == {turns[i] : i \in 1..b}
           last == turns[b]
<1>1. turns \in Seq(X) /\ Len(turns) = b
  BY ListOfValues
<1> HIDE DEF X
<1>2. turns = <<>> <=> b = 0
  BY <1>1
<1>3. ASSUME m.role = "user"
      PROVE  JoinTurn(turns, m) = [i \in 1..(b + 1) |-> IF i = b + 1 THEN NewTurn(m) ELSE turns[i]]
  <2> DEFINE new == NewTurn(m)
             Y == X \cup {new}
  <2>1. JoinTurn(turns, m) = Append(turns, new)
    BY <1>3 DEF JoinTurn
  <2> HIDE DEF new
  <2>2. turns \in Seq(Y) /\ new \in Y
    BY <1>1
  <2> HIDE DEF Y
  <2>3. Append(turns, new) = [i \in 1..(b + 1) |-> IF i = b + 1 THEN new ELSE turns[i]]
    BY <1>1, <2>2
  <2>. QED
    BY <2>1, <2>3 DEF new
<1>4. m.role # "user" /\ b = 0 => JoinTurn(turns, m) = turns
  BY <1>2 DEF JoinTurn
<1>5. ASSUME m.role # "user", b # 0
      PROVE  JoinTurn(turns, m) = [i \in 1..b |-> IF i = b THEN Joined(last, m) ELSE turns[i]]
  <2>1. /\ last = [messages |-> last.messages, messageIDs |-> last.messageIDs, tools |-> last.tools,
                   messageStartIndex |-> last.messageStartIndex,
                   messageEndIndex |-> last.messageEndIndex]
        /\ b \in 1..b /\ DOMAIN turns = 1..b
    BY <1>5 DEF AskedTurn
  <2>2. JoinTurn(turns, m) =
          [turns EXCEPT ![b].messages = Append(@, m),
                        ![b].messageIDs = Append(@, m.id),
                        ![b].tools = @ \o m.tools,
                        ![b].messageEndIndex = m.messageIndex]
    BY <1>1, <1>2, <1>5 DEF JoinTurn
  <2> DEFINE ms == Append(last.messages, m)
             ids == Append(last.messageIDs, m.id)
             tools == last.tools \o m.tools
  <2>3. Joined(last, m) = [messages |-> ms, messageIDs |-> ids, tools |-> tools,
                           messageStartIndex |-> last.messageStartIndex,
                           messageEndIndex |-> m.messageIndex]
    BY DEF Joined
  <2>4. JoinTurn(turns, m) =
          [turns EXCEPT ![b] = [messages |-> ms, messageIDs |-> ids, tools |-> tools,
                                messageStartIndex |-> last.messageStartIndex,
                                messageEndIndex |-> m.messageIndex]]
    <3> HIDE DEF last
    <3>1. /\ last = turns[b] /\ b \in DOMAIN turns
      BY <2>1 DEF last
    <3>. QED
      BY <2>1, <2>2, <3>1
  <2> HIDE DEF last, ms, ids, tools
  <2>5. [turns EXCEPT ![b] = Joined(last, m)] = [i \in 1..b |-> IF i = b THEN Joined(last, m) ELSE turns[i]]
    BY <2>1
  <2>. QED
    BY <2>3, <2>4, <2>5
<1>. QED
  BY <1>3, <1>4, <1>5 DEF WithNew, WithLast

IDsOf(messages) == [i \in DOMAIN messages |-> messages[i].id]

(* A turn of the timeline and one of turns.ts that hold the same messages. *)
TwinTurns(t, turn, N) ==
  /\ t.hasUser /\ AskedTurn(turn) /\ turn.messageIDs = IDsOf(t.messages)
  /\ turn.messages \in Seq(N) /\ Len(turn.messages) = Len(t.messages)
  /\ turn.messageStartIndex \in Nat /\ turn.messageEndIndex \in Nat
  /\ turn.messageEndIndex - turn.messageStartIndex + 1 = Len(t.messages)

TwinMessages(m, n, k) ==
  m.id = n.id /\ (m.role = "user" <=> n.role = "user") /\ n.messageIndex = k

LEMMA IDsGrow ==
  ASSUME NEW M, NEW s \in Seq(M), NEW m \in M
  PROVE  IDsOf(Append(s, m)) = Append(IDsOf(s), m.id)
<1> DEFINE f == [x \in M |-> x.id]
           Y == {x.id : x \in M}
           more == Append(s, m)
<1>1. f \in [M -> Y]
  OBVIOUS
<1>2. \A i \in DOMAIN s : s[i] \in M
  OBVIOUS
<1>3. \A i \in DOMAIN more : more[i] \in M
  <2>1. more \in Seq(M)
    OBVIOUS
  <2> HIDE DEF more
  <2>. QED
    BY <2>1
<1>4. /\ IDsOf(s) = [i \in DOMAIN s |-> f[s[i]]] /\ f[m] = m.id
      /\ IDsOf(more) = [i \in DOMAIN more |-> f[more[i]]]
  <2> HIDE DEF more
  <2>. QED
    BY <1>2, <1>3 DEF IDsOf
<1> HIDE DEF f, Y
<1>5. [i \in DOMAIN Append(s, m) |-> f[Append(s, m)[i]]] = Append([i \in DOMAIN s |-> f[s[i]]], f[m])
  BY <1>1, MappedAppend
<1>. QED
  BY <1>4, <1>5

LEMMA TwinsBegin ==
  ASSUME NEW M, NEW m \in M, NEW N, NEW n \in N, NEW k \in Nat, TwinMessages(m, n, k), m.role = "user"
  PROVE  TwinTurns(DisplayTurn(m), NewTurn(n), N) /\ NewTurn(n).messageEndIndex = k
<1>1. /\ DisplayTurn(m).hasUser /\ DisplayTurn(m).messages = <<m>>
  BY DEF DisplayTurn
<1>2. NewTurn(n) = [messages |-> <<n>>, messageIDs |-> <<n.id>>, tools |-> n.tools,
                    messageStartIndex |-> k, messageEndIndex |-> k]
  BY DEF NewTurn, TwinMessages
<1>3. <<n>> \in Seq(N) /\ Len(<<n>>) = 1 /\ Len(<<m>>) = 1
  OBVIOUS
<1>4. IDsOf(<<m>>) = <<n.id>>
  <2>1. IDsOf(<<m>>) = <<m.id>>
    BY DEF IDsOf
  <2>. QED
    BY <2>1 DEF TwinMessages
<1>5. k - k + 1 = 1
  OBVIOUS
<1> DEFINE turn == NewTurn(n)
<1>6. /\ turn.messages = <<n>> /\ turn.messageIDs = <<n.id>> /\ turn.messageStartIndex = k
      /\ turn.messageEndIndex = k
  BY <1>2
<1>7. AskedTurn(turn)
  BY <1>2, <1>6 DEF AskedTurn
<1> HIDE DEF turn
<1>8. TwinTurns(DisplayTurn(m), turn, N)
  BY <1>1, <1>3, <1>4, <1>5, <1>6, <1>7 DEF TwinTurns
<1>. QED
  BY <1>6, <1>8 DEF turn

LEMMA TwinsGrow ==
  ASSUME NEW M, NEW m \in M, NEW N, NEW n \in N, NEW k \in Nat, TwinMessages(m, n, k + 1),
         NEW t \in TurnsOf(M), NEW turn, TwinTurns(t, turn, N), turn.messageEndIndex = k
  PROVE  TwinTurns(Extended(t, m), Joined(turn, n), N) /\ Joined(turn, n).messageEndIndex = k + 1
<1> DEFINE u == Extended(t, m)
           v == Joined(turn, n)
<1>1. t.messages \in Seq(M)
  BY DEF TurnsOf
<1>2. u.hasUser /\ u.messages = Append(t.messages, m)
  BY DEF Extended, TwinTurns
<1>3. /\ v.messages = Append(turn.messages, n) /\ v.messageIDs = Append(turn.messageIDs, n.id)
      /\ v.tools = turn.tools \o n.tools /\ v.messageStartIndex = turn.messageStartIndex
      /\ v.messageEndIndex = k + 1 /\ AskedTurn(v)
  BY DEF Joined, TwinMessages, AskedTurn
<1>4. /\ Len(u.messages) = Len(t.messages) + 1 /\ Len(t.messages) \in Nat
  BY <1>1, <1>2, AppendFacts
<1>5. /\ v.messages \in Seq(N) /\ Len(v.messages) = Len(turn.messages) + 1
  BY <1>3, AppendFacts DEF TwinTurns
<1>6. IDsOf(u.messages) = Append(IDsOf(t.messages), m.id)
  BY <1>1, <1>2, IDsGrow
<1>7. v.messageIDs = IDsOf(u.messages)
  BY <1>3, <1>6 DEF TwinTurns, TwinMessages
<1> HIDE DEF u, v
<1>8. /\ turn.messageStartIndex \in Nat /\ k - turn.messageStartIndex + 1 = Len(t.messages)
      /\ Len(turn.messages) = Len(t.messages)
  BY DEF TwinTurns
<1>9. /\ v.messageStartIndex \in Nat /\ v.messageEndIndex \in Nat
      /\ v.messageEndIndex - v.messageStartIndex + 1 = Len(u.messages)
      /\ Len(v.messages) = Len(u.messages)
  BY <1>3, <1>4, <1>5, <1>8
<1>. QED
  BY <1>2, <1>3, <1>5, <1>7, <1>9 DEF TwinTurns, u, v

(* Both groupings after the first k messages: the timeline has at most one *)
(* turn more, its first, which begins without a user.                      *)
TwinBy(T, B, M, N, k, b, d) ==
  /\ T \in Seq(TurnsOf(M)) /\ Len(T) = b + d
  /\ d = 1 => ~T[1].hasUser
  /\ B = [i \in 1..b |-> B[i]]
  /\ \A i \in 1..b : TwinTurns(T[i + d], B[i], N)
  /\ b # 0 => B[b].messageEndIndex + 1 = k

Twins(T, B, M, N, k) == \E b \in Nat, d \in {0, 1} : TwinBy(T, B, M, N, k, b, d)

LEMMA TwinsStep ==
  ASSUME NEW M, Displayed(M), NEW m \in M, NEW N, NEW n \in N, NEW k \in Nat, TwinMessages(m, n, k),
         NEW T, NEW B, Twins(T, B, M, N, k)
  PROVE  Twins(JoinTimeline(T, m), JoinTurn(B, n), M, N, k + 1)
<1>1. PICK b \in Nat, d \in {0, 1} : TwinBy(T, B, M, N, k, b, d)
  BY DEF Twins
<1> DEFINE T2 == JoinTimeline(T, m)
           B2 == JoinTurn(B, n)
<1>2. T \in Seq(TurnsOf(M)) /\ Len(T) = b + d /\ DOMAIN T = 1..(b + d) /\ (T = <<>> <=> b + d = 0)
      /\ (d = 0 \/ d = 1)
  BY <1>1 DEF TwinBy
<1>3. /\ B = [i \in 1..b |-> B[i]] /\ \A i \in 1..b : AskedTurn(B[i])
  BY <1>1 DEF TwinBy, TwinTurns
<1>4. /\ n.role = "user" => B2 = WithNew(B, b, NewTurn(n))
      /\ n.role # "user" /\ b = 0 => B2 = B
      /\ n.role # "user" /\ b # 0 => B2 = WithLast(B, b, Joined(B[b], n))
  BY <1>3, JoinTurnIs
<1>5. /\ m.role = "user" \/ T = <<>> => T2 = Append(T, DisplayTurn(m))
      /\ m.role # "user" /\ T # <<>> => T2 = [T EXCEPT ![Len(T)] = Extended(T[Len(T)], m)]
  BY <1>2, JoinTimelineIs
<1>6. DisplayTurn(m) \in TurnsOf(M) /\ \A t \in TurnsOf(M) : Extended(t, m) \in TurnsOf(M)
  BY DisplayTurnFacts, ExtendedFacts
<1>7. m.role = "user" <=> n.role = "user"
  BY DEF TwinMessages
<1> HIDE DEF T2, B2
<1>8. CASE m.role = "user"
  <2> DEFINE new == DisplayTurn(m)
             asked == NewTurn(n)
  <2>1. TwinTurns(new, asked, N) /\ asked.messageEndIndex = k
    BY <1>8, TwinsBegin
  <2>2. new \in TurnsOf(M) /\ T2 = Append(T, new)
        /\ B2 = WithNew(B, b, asked)
    BY <1>4, <1>5, <1>6, <1>7, <1>8
  <2> HIDE DEF new, asked
  <2>3. /\ T2 \in Seq(TurnsOf(M)) /\ Len(T2) = (b + 1) + d /\ T2[(b + 1) + d] = new
        /\ \A i \in 1..(b + d) : T2[i] = T[i]
    <3>1. (b + d) + 1 = (b + 1) + d
      BY <1>2
    <3>. QED
      BY <1>2, <2>2, <3>1, AppendFacts
  <2>4. /\ B2[b + 1] = asked /\ \A i \in 1..b : B2[i] = B[i]
        /\ B2 = [i \in 1..(b + 1) |-> B2[i]]
    BY <2>2 DEF WithNew
  <2>5. d = 1 => ~T2[1].hasUser
    <3>1. d = 1 => 1 \in 1..(b + d)
      OBVIOUS
    <3>. QED
      BY <1>1, <2>3, <3>1 DEF TwinBy
  <2>6. ASSUME NEW i \in 1..(b + 1)
        PROVE  TwinTurns(T2[i + d], B2[i], N)
    <3>1. CASE i = b + 1
      BY <2>1, <2>3, <2>4, <3>1
    <3>2. CASE i # b + 1
      <4>1. i \in 1..b /\ i + d \in 1..(b + d)
        BY <1>2, <3>2
      <4>2. TwinTurns(T[i + d], B[i], N)
        BY <1>1, <4>1 DEF TwinBy
      <4>. QED
        BY <2>3, <2>4, <4>1, <4>2
    <3>. QED
      BY <3>1, <3>2
  <2>7. B2[b + 1].messageEndIndex + 1 = k + 1
    BY <2>1, <2>4
  <2>8. TwinBy(T2, B2, M, N, k + 1, b + 1, d)
    BY <2>3, <2>4, <2>5, <2>6, <2>7 DEF TwinBy
  <2>9. b + 1 \in Nat
    OBVIOUS
  <2>. QED
    BY <2>8, <2>9 DEF Twins, T2, B2
<1>9. CASE m.role # "user" /\ T = <<>>
  <2> DEFINE new == DisplayTurn(m)
  <2>1. b = 0 /\ d = 0
    BY <1>2, <1>9
  <2>2. new \in TurnsOf(M) /\ T2 = Append(T, new) /\ B2 = B
    BY <1>4, <1>5, <1>6, <1>7, <1>9, <2>1
  <2>3. ~new.hasUser
    BY <1>9 DEF DisplayTurn
  <2> HIDE DEF new
  <2>4. /\ T2 \in Seq(TurnsOf(M)) /\ Len(T2) = 0 + 1 /\ T2[1] = new
    BY <1>2, <2>1, <2>2, AppendFacts
  <2>5. B2 = [i \in 1..0 |-> B2[i]]
    BY <1>3, <2>1, <2>2
  <2>6. \A i \in 1..0 : FALSE
    OBVIOUS
  <2>7. TwinBy(T2, B2, M, N, k + 1, 0, 1)
    BY <2>3, <2>4, <2>5, <2>6 DEF TwinBy
  <2>. QED
    BY <2>7 DEF Twins, T2, B2
<1>10. CASE m.role # "user" /\ T # <<>>
  <2> DEFINE l == b + d
             last == T[l]
             new == Extended(last, m)
  <2>1. /\ l \in 1..l /\ l \in Nat /\ last \in TurnsOf(M) /\ T2 = [T EXCEPT ![l] = Extended(T[l], m)]
    <3>1. l \in Nat /\ l \in DOMAIN T /\ Len(T) = l
      BY <1>2, <1>10
    <3>2. last \in TurnsOf(M)
      BY <1>2, <3>1
    <3>. QED
      BY <1>2, <1>5, <1>10, <3>1, <3>2
  <2>2. new \in TurnsOf(M)
    BY <1>6, <2>1
  <2>3. new.hasUser = last.hasUser
    BY DEF Extended
  <2>4. T2 = [T EXCEPT ![l] = new]
    BY <2>1
  <2> HIDE DEF new, last
  <2>5. /\ T2 \in Seq(TurnsOf(M)) /\ Len(T2) = l /\ T2[l] = new
        /\ \A i \in 1..l : i # l => T2[i] = T[i]
    <3>1. T \in Seq(TurnsOf(M)) /\ Len(T) = l /\ DOMAIN T = 1..l
      BY <1>2
    <3> HIDE DEF l
    <3>2. \A i \in 1..l : T[i] \in TurnsOf(M)
      BY <3>1
    <3> DEFINE X == TurnsOf(M)
    <3>3. T2 = [i \in 1..l |-> IF i = l THEN new ELSE T[i]]
      BY <2>1, <2>4, <3>1
    <3> HIDE DEF X
    <3>4. T2 \in [1..l -> X] /\ l \in Nat
      BY <2>1, <2>2, <3>2, <3>3 DEF X
    <3>5. T2 \in Seq(X) /\ Len(T2) = l
      BY <3>4
    <3>6. T2[l] = new /\ \A i \in 1..l : i # l => T2[i] = T[i]
      BY <2>1, <3>3
    <3>. QED
      BY <3>5, <3>6 DEF X
  <2>6. CASE b = 0
    <3>1. d = 1 /\ l = 1 /\ B2 = B
      BY <1>2, <1>4, <1>7, <1>10, <2>6
    <3>2. ~T2[1].hasUser
      BY <1>1, <2>3, <2>5, <3>1 DEF TwinBy, last
    <3>3. TwinBy(T2, B2, M, N, k + 1, 0, 1)
      <4>1. Len(T2) = 0 + 1 /\ B2 = [i \in 1..0 |-> B2[i]] /\ \A i \in 1..0 : FALSE
        BY <1>3, <2>5, <2>6, <3>1
      <4>. QED
        BY <2>5, <3>2, <4>1 DEF TwinBy
    <3>. QED
      BY <3>3 DEF Twins, T2, B2
  <2>7. CASE b # 0
    <3> DEFINE joined == Joined(B[b], n)
    <3>1. B2 = WithLast(B, b, joined) /\ b \in 1..b
      BY <1>4, <1>7, <1>10, <2>7
    <3>2. TwinTurns(last, B[b], N) /\ B[b].messageEndIndex + 1 = k
      BY <1>1, <2>7, <3>1 DEF TwinBy, last
    <3>3. B[b].messageEndIndex \in Nat /\ k - 1 \in Nat /\ B[b].messageEndIndex = k - 1 /\ (k - 1) + 1 = k
      BY <3>2 DEF TwinTurns
    <3>4. TwinTurns(new, joined, N) /\ joined.messageEndIndex = k
      <4>1. TwinMessages(m, n, (k - 1) + 1)
        BY <3>3
      <4>2. TwinTurns(Extended(last, m), Joined(B[b], n), N)
            /\ Joined(B[b], n).messageEndIndex = (k - 1) + 1
        BY <2>1, <3>2, <3>3, <4>1, TwinsGrow
      <4>. QED
        BY <3>3, <4>2 DEF new
    <3> HIDE DEF joined
    <3>5. /\ B2[b] = joined /\ \A i \in 1..b : i # b => B2[i] = B[i]
          /\ B2 = [i \in 1..b |-> B2[i]]
      BY <3>1 DEF WithLast
    <3>6. d = 1 => ~T2[1].hasUser
      <4>1. d = 1 => 1 \in 1..l /\ 1 # l
        BY <2>7
      <4>. QED
        BY <1>1, <2>5, <4>1 DEF TwinBy
    <3>7. ASSUME NEW i \in 1..b
          PROVE  TwinTurns(T2[i + d], B2[i], N)
      <4>1. CASE i = b
        BY <2>5, <3>4, <3>5, <4>1
      <4>2. CASE i # b
        <5>1. i + d \in 1..l /\ i + d # l
          BY <1>2, <4>2
        <5>2. TwinTurns(T[i + d], B[i], N)
          BY <1>1 DEF TwinBy
        <5>. QED
          BY <2>5, <3>5, <4>2, <5>1, <5>2
      <4>. QED
        BY <4>1, <4>2
    <3>8. B2[b].messageEndIndex + 1 = k + 1
      BY <3>4, <3>5
    <3>9. TwinBy(T2, B2, M, N, k + 1, b, d)
      BY <2>5, <3>5, <3>6, <3>7, <3>8 DEF TwinBy
    <3>. QED
      BY <3>9 DEF Twins, T2, B2
  <2>. QED
    BY <2>6, <2>7
<1>. QED
  BY <1>8, <1>9, <1>10

(* Both groupings are loops over their messages.                           *)
TimelineRounds(P, messages, n) ==
  P[0] = <<>> /\ \A i \in 1..n : P[i] = JoinTimeline(P[i - 1], messages[i])

TurnRounds(P, messages, n) ==
  P[0] = <<>> /\ \A i \in 1..n : P[i] = JoinTurn(P[i - 1], messages[i])

TimelineOf(messages) == Timelines!Folded(<<>>, messages)

TurnsOfMessages(messages) == Turning!Folded(<<>>, messages)

LEMMA TimelineIsLoop ==
  ASSUME NEW messages, NEW n \in Nat, DOMAIN messages = 1..n
  PROVE  \E P : TimelineRounds(P, messages, n) /\ Timeline(messages) = P[n]
<1>1. Timeline(messages) = TimelineOf(messages)
  BY DEF Timeline, TimelineOf, FoldLeft, MapThenFoldSet, Max, Timelines!Folded, Timelines!MaxOf
<1>2. \E P : TimelineRounds(P, messages, n) /\ TimelineOf(messages) = P[n]
  BY Timelines!FoldIsLoop DEF TimelineOf, TimelineRounds
<1>. QED
  BY <1>1, <1>2

AskedMessages == [i \in DOMAIN Data.messages |-> TurnMessage(doc.normalized, Data, i)]

LEMMA TurnsAreLoop ==
  ASSUME NEW n \in Nat, DOMAIN Data.messages = 1..n
  PROVE  \E P : TurnRounds(P, AskedMessages, n) /\ Turns(doc.normalized, Data) = P[n]
<1>1. Turns(doc.normalized, Data) = TurnsOfMessages(AskedMessages)
  BY DEF Turns, AskedMessages, TurnsOfMessages, FoldLeft, MapThenFoldSet, Max, Turning!Folded, Turning!MaxOf
<1>2. DOMAIN AskedMessages = 1..n
  BY DEF AskedMessages
<1>3. \E P : TurnRounds(P, AskedMessages, n) /\ TurnsOfMessages(AskedMessages) = P[n]
  BY <1>2, Turning!FoldIsLoop DEF TurnsOfMessages, TurnRounds
<1>. QED
  BY <1>1, <1>3

Shown == [i \in DOMAIN VisibleMessages(doc.latest) |-> DisplayMessage(VisibleMessages(doc.latest)[i])]

(* The messages that both groupings take, one by one.                      *)
LEMMA ShownFacts ==
  ASSUME AllInv, ~Corrupt(doc), NEW V, V = VisibleMessages(doc.latest), NEW c \in Nat, Visible(V, c),
         \A i \in 1..c : V[i].messageIndex = i - 1
  PROVE  /\ DOMAIN Shown = 1..c /\ Displayed({Shown[i] : i \in 1..c})
         /\ TimesAreSettled /\ RolesAreSettled =>
              /\ DOMAIN Data.messages = 1..c
              /\ \A i \in 1..c : TwinMessages(Shown[i], AskedMessages[i], i - 1)
<1>1. DOMAIN V = 1..c
  BY DEF Visible
<1>2. Shown = [i \in 1..c |-> DisplayMessage(V[i])]
  BY <1>1 DEF Shown
<1>3. ASSUME NEW i \in 1..c
      PROVE  /\ Shown[i].sourceIndexes = V[i].sourceIndexes /\ Shown[i].parts = V[i].parts
             /\ Shown[i].id = MessageID(V[i]) /\ Shown[i].role = Or(Get(V[i].info, "role"), "unknown")
  <2>1. Shown[i] = DisplayMessage(V[i])
    BY <1>2
  <2>. QED
    BY <2>1 DEF DisplayMessage
<1>4. ASSUME NEW i \in 1..c
      PROVE  Shown[i].sourceIndexes \in Seq(Positions) /\ \E d \in Nat : DOMAIN Shown[i].parts = 1..d
  <2> DEFINE key == <<MessageID(V[i])>>
             history == doc.latest["message"][key]
  <2>1. key \in DOMAIN doc.latest["message"] /\ V[i].sourceIndexes = Sources(doc.latest, "message", key)
    BY DEF Visible, MessageShown
  <2>2. history \in Seq(Versions) \ {<<>>}
    <3>1. "message" \in Types
      BY DEF Types, ObjectTypes
    <3>. QED
      BY <2>1, <3>1 DEF AllInv, IInv, EntriesInv
  <2>3. Sources(doc.latest, "message", key) \in Seq(Positions)
    <3>1. \A j \in DOMAIN history : history[j].sourceIndex \in Positions
      <4>1. \A j \in DOMAIN history : history[j] \in Versions
        BY <2>2
      <4>. QED
        BY <4>1 DEF Versions
    <3>2. DOMAIN history = 1..Len(history) /\ Len(history) \in Nat
      BY <2>2
    <3>3. Sources(doc.latest, "message", key) = [j \in DOMAIN history |-> history[j].sourceIndex]
      BY DEF Sources
    <3> HIDE DEF history, key
    <3>. QED
      BY <3>1, <3>2, <3>3
  <2>4. PICK d \in Nat : V[i].parts = [j \in 1..d |-> V[i].parts[j]]
    BY DEF Visible, PartsShown
  <2>5. DOMAIN V[i].parts = 1..d
    BY <2>4
  <2>. QED
    BY <1>3, <2>1, <2>3, <2>5
<1>5. Displayed({Shown[i] : i \in 1..c})
  BY <1>4 DEF Displayed
<1>6. ASSUME TimesAreSettled, RolesAreSettled
      PROVE  /\ DOMAIN Data.messages = 1..c
             /\ \A i \in 1..c : TwinMessages(Shown[i], AskedMessages[i], i - 1)
  <2>1. Data.messages = MessageKeys(doc.latest)
    BY <1>6, MessagesSorted
  <2>2. DOMAIN Data.messages = 1..c /\ \A i \in 1..c : Data.messages[i] = <<MessageID(V[i])>>
    BY <2>1 DEF Visible
  <2>3. ASSUME NEW i \in 1..c
        PROVE  TwinMessages(Shown[i], AskedMessages[i], i - 1)
    <3> DEFINE key == <<MessageID(V[i])>>
               message == ValueOf(doc.normalized, "message", key)
               n == AskedMessages[i]
    <3>1. /\ key \in DOMAIN doc.latest["message"] /\ V[i].info = CurrentOf(doc.latest, "message", key)
          /\ Get(V[i].info, "id") = MessageID(V[i]) /\ MessageID(V[i]) # Absent
      BY DEF Visible, MessageShown
    <3>2. Get(message, "id") = MessageID(V[i]) /\ Get(message, "role") = Get(V[i].info, "role")
      BY <1>6, <3>1, NormalizedMessage
    <3>3. Data.messages[i] = key
      BY <2>2
    <3>4. n = TurnMessage(doc.normalized, Data, i)
      BY <2>2 DEF AskedMessages
    <3> HIDE DEF key
    <3>5. n.id = Or(Get(message, "id"), Empty) /\ n.role = Get(message, "role") /\ n.messageIndex = i - 1
      BY <3>3, <3>4 DEF TurnMessage
    <3>6. n.id = MessageID(V[i])
      BY <3>1, <3>2, <3>5 DEF Or
    <3> HIDE DEF n, message
    <3>7. Shown[i].role = "user" <=> n.role = "user"
      BY <1>3, <3>2, <3>5, UndefinedAssumption DEF Or
    <3>. QED
      BY <1>3, <3>5, <3>6, <3>7 DEF TwinMessages, n
  <2>. QED
    BY <2>2, <2>3
<1>. QED
  BY <1>2, <1>5, <1>6

LEMMA TimelineTyped ==
  ASSUME AllInv, ~Corrupt(doc)
  PROVE  \E M : Timeline(Shown) \in Seq(TurnsOf(M))
<1>1. PICK c \in Nat : /\ Visible(VisibleMessages(doc.latest), c)
                       /\ \A i \in 1..c : VisibleMessages(doc.latest)[i].messageIndex = i - 1
  BY VisibleFacts
<1> DEFINE M == {Shown[i] : i \in 1..c}
<1>2. DOMAIN Shown = 1..c /\ Displayed(M)
  BY <1>1, ShownFacts
<1>3. \A i \in 1..c : Shown[i] \in M
  OBVIOUS
<1> HIDE DEF M
<1>4. PICK P : TimelineRounds(P, Shown, c) /\ Timeline(Shown) = P[c]
  BY <1>2, TimelineIsLoop
<1> DEFINE T == {k \in 0..c : P[k] \in Seq(TurnsOf(M))}
<1>5. 0 \in T
  <2>1. 0 \in 0..c /\ <<>> \in Seq(TurnsOf(M))
    OBVIOUS
  <2>. QED
    BY <1>4, <2>1 DEF TimelineRounds
<1>6. ASSUME NEW k \in 1..c, k - 1 \in T
      PROVE  k \in T
  <2> DEFINE old == P[k - 1]
             m == Shown[k]
  <2>1. old \in Seq(TurnsOf(M)) /\ m \in M /\ P[k] = JoinTimeline(old, m)
    BY <1>3, <1>4, <1>6 DEF TimelineRounds
  <2> HIDE DEF old, m
  <2>2. /\ m.role = "user" \/ old = <<>> => P[k] = Append(old, DisplayTurn(m))
        /\ m.role # "user" /\ old # <<>> => P[k] = [old EXCEPT ![Len(old)] = Extended(old[Len(old)], m)]
    BY <2>1, JoinTimelineIs
  <2>3. DisplayTurn(m) \in TurnsOf(M) /\ \A t \in TurnsOf(M) : Extended(t, m) \in TurnsOf(M)
    BY <1>2, <2>1, DisplayTurnFacts, ExtendedFacts
  <2>4. CASE m.role = "user" \/ old = <<>>
    BY <2>1, <2>2, <2>3, <2>4, AppendFacts
  <2>5. CASE m.role # "user" /\ old # <<>>
    <3> DEFINE X == TurnsOf(M)
               l == Len(old)
               new == Extended(old[l], m)
    <3>1. l \in 1..l /\ l \in Nat /\ old \in Seq(X) /\ old[l] \in X
      BY <2>1, <2>5
    <3>2. new \in X /\ P[k] = [old EXCEPT ![l] = new]
      BY <2>2, <2>3, <2>5, <3>1
    <3> HIDE DEF X, l, new
    <3>3. P[k] = [i \in 1..l |-> IF i = l THEN new ELSE old[i]]
      <4>1. DOMAIN old = 1..l
        BY <3>1 DEF l
      <4>. QED
        BY <3>1, <3>2, <4>1
    <3>4. \A i \in 1..l : old[i] \in X
      BY <3>1 DEF l
    <3>5. P[k] \in [1..l -> X]
      BY <3>2, <3>3, <3>4
    <3>6. P[k] \in Seq(X)
      BY <3>1, <3>5
    <3>. QED
      BY <3>6 DEF X
  <2>6. P[k] \in Seq(TurnsOf(M))
    BY <2>4, <2>5
  <2>. QED
    BY <2>6
<1> HIDE DEF T
<1>7. \A k \in 0..c : k \in T
  BY <1>5, <1>6, LoopInduction
<1>8. c \in T
  <2>1. c \in 0..c
    OBVIOUS
  <2>. QED
    BY <1>7, <2>1
<1>. QED
  BY <1>4, <1>8 DEF T

LEMMA TurnsAreTwins ==
  ASSUME AllInv, ~Corrupt(doc), TimesAreSettled, RolesAreSettled
  PROVE  \E M, N : \E k \in Nat : Twins(Timeline(Shown), Turns(doc.normalized, Data), M, N, k)
<1>1. PICK c \in Nat : /\ Visible(VisibleMessages(doc.latest), c)
                       /\ \A i \in 1..c : VisibleMessages(doc.latest)[i].messageIndex = i - 1
  BY VisibleFacts
<1> DEFINE M == {Shown[i] : i \in 1..c}
           N == {AskedMessages[i] : i \in 1..c}
<1>2. /\ DOMAIN Shown = 1..c /\ Displayed(M) /\ DOMAIN Data.messages = 1..c
      /\ \A i \in 1..c : TwinMessages(Shown[i], AskedMessages[i], i - 1)
  BY <1>1, ShownFacts
<1>3. \A i \in 1..c : Shown[i] \in M /\ AskedMessages[i] \in N
  OBVIOUS
<1> HIDE DEF M, N
<1>4. PICK P : TimelineRounds(P, Shown, c) /\ Timeline(Shown) = P[c]
  BY <1>2, TimelineIsLoop
<1>5. PICK Q : TurnRounds(Q, AskedMessages, c) /\ Turns(doc.normalized, Data) = Q[c]
  BY <1>2, TurnsAreLoop
<1> DEFINE T == {k \in 0..c : Twins(P[k], Q[k], M, N, k)}
<1>6. 0 \in T
  <2>1. /\ P[0] \in Seq(TurnsOf(M)) /\ Len(P[0]) = 0 + 0 /\ Q[0] = [i \in 1..0 |-> Q[0][i]]
        /\ \A i \in 1..0 : FALSE
    BY <1>4, <1>5 DEF TimelineRounds, TurnRounds
  <2>2. TwinBy(P[0], Q[0], M, N, 0, 0, 0)
    BY <2>1 DEF TwinBy
  <2>3. Twins(P[0], Q[0], M, N, 0)
    BY <2>2 DEF Twins
  <2>. QED
    BY <2>3
<1>7. ASSUME NEW i \in 1..c, i - 1 \in T
      PROVE  i \in T
  <2> DEFINE k == i - 1
             m == Shown[i]
             n == AskedMessages[i]
             old == P[i - 1]
             was == Q[i - 1]
  <2>1. /\ k \in Nat /\ k + 1 = i /\ m \in M /\ n \in N /\ TwinMessages(m, n, k)
        /\ Twins(old, was, M, N, k) /\ P[i] = JoinTimeline(old, m) /\ Q[i] = JoinTurn(was, n)
    BY <1>2, <1>3, <1>4, <1>5, <1>7 DEF TimelineRounds, TurnRounds
  <2> HIDE DEF k, m, n, old, was
  <2>2. Twins(JoinTimeline(old, m), JoinTurn(was, n), M, N, k + 1)
    BY <1>2, <2>1, TwinsStep
  <2>3. Twins(P[i], Q[i], M, N, i)
    BY <2>1, <2>2
  <2>. QED
    BY <2>3
<1> HIDE DEF T
<1>8. \A k \in 0..c : k \in T
  BY <1>6, <1>7, LoopInduction
<1>9. c \in T
  <2>1. c \in 0..c
    OBVIOUS
  <2>. QED
    BY <1>8, <2>1
<1>. QED
  BY <1>4, <1>5, <1>9 DEF T

(* The turns that a user opens, in order.                                  *)
LEMMA AskedAre ==
  ASSUME NEW M, NEW N, NEW T, NEW B, NEW k \in Nat, Twins(T, B, M, N, k)
  PROVE  LET asked == Filter(T, LAMBDA turn : turn.hasUser)
         IN  /\ [i \in DOMAIN B |-> B[i].messageIDs] = [i \in DOMAIN asked |-> IDsOf(asked[i].messages)]
             /\ \A i \in DOMAIN B :
                  B[i].messageEndIndex - B[i].messageStartIndex + 1 = Len(B[i].messages)
<1>1. PICK b \in Nat, d \in {0, 1} : TwinBy(T, B, M, N, k, b, d)
  BY DEF Twins
<1> DEFINE I == {i \in DOMAIN T : T[i].hasUser}
           asked == Kept(T, I)
           at == [i \in 1..b |-> i + d]
<1>2. (d = 0 \/ d = 1) /\ b + d \in Nat /\ DOMAIN T = 1..(b + d) /\ DOMAIN B = 1..b
  BY <1>1 DEF TwinBy
<1>3. ASSUME NEW i \in 1..b
      PROVE  /\ T[i + d].hasUser /\ B[i].messageIDs = IDsOf(T[i + d].messages)
             /\ B[i].messageEndIndex - B[i].messageStartIndex + 1 = Len(B[i].messages)
  <2>1. TwinTurns(T[i + d], B[i], N)
    BY <1>1 DEF TwinBy
  <2>. QED
    BY <2>1 DEF TwinTurns
<1>4. d = 1 => ~T[1].hasUser
  BY <1>1 DEF TwinBy
<1>5. I \in SUBSET (1..(b + d))
  BY <1>2
<1>6. ASSUME NEW i \in 1..b
      PROVE  i + d \in I
  <2>1. i + d \in 1..(b + d)
    BY <1>2
  <2>. QED
    BY <1>2, <1>3, <2>1
<1>7. \A y \in I : \E i \in 1..b : y = i + d
  <2>1. SUFFICES ASSUME NEW y \in I PROVE y - d \in 1..b /\ y = (y - d) + d
    OBVIOUS
  <2>2. y \in 1..(b + d) /\ T[y].hasUser
    BY <1>2
  <2>3. d = 1 => y # 1
    BY <1>4, <2>2
  <2>. QED
    BY <1>2, <2>2, <2>3
<1> HIDE DEF I
<1>8. at \in [1..b -> I] /\ {at[i] : i \in 1..b} = I
  BY <1>6, <1>7
<1>9. \A i, j \in 1..b : i < j => at[i] < at[j]
  BY <1>2
<1>10. Cardinality(I) = b /\ Ascending(I) = at
  <2> DEFINE K == b + d
  <2>1. K \in Nat /\ I \in SUBSET (1..K)
    BY <1>2, <1>5
  <2> HIDE DEF K, at
  <2>. QED
    BY <1>8, <1>9, <2>1, AscendingIs
<1>11. asked = [i \in 1..b |-> T[i + d]]
  BY <1>10 DEF Kept
<1> HIDE DEF asked
<1>12. DOMAIN asked = 1..b /\ \A i \in 1..b : asked[i] = T[i + d]
  BY <1>11
<1>13. [i \in DOMAIN B |-> B[i].messageIDs] = [i \in DOMAIN asked |-> IDsOf(asked[i].messages)]
  BY <1>2, <1>3, <1>12
<1>14. Filter(T, LAMBDA turn : turn.hasUser) = asked
  BY DEF Filter, asked, I
<1>. QED
  BY <1>2, <1>3, <1>13, <1>14

LEMMA TurnsFollow == AllInv => TurnsAgree
<1>1. SUFFICES ASSUME AllInv, ~Corrupt(doc) PROVE TurnsAgree
  BY DEF TurnsAgree
<1> DEFINE plan == OpenCodeDisplayPlan(doc.latest)
           timeline == plan.timeline
           turns == Turns(doc.normalized, Data)
           asked == Filter(timeline, LAMBDA turn : turn.hasUser)
<1>2. timeline = Timeline(Shown) /\ plan.outline = Outline(timeline)
  BY DEF OpenCodeDisplayPlan, Shown
<1>3. PICK M : timeline \in Seq(TurnsOf(M))
  BY <1>1, <1>2, TimelineTyped
<1> HIDE DEF plan
<1>4. ASSUME NEW i \in DOMAIN timeline
      PROVE  /\ timeline[i].rawRange = RawRange(plan.outline[i])
             /\ timeline[i].toolCount =
                  Len(FlattenSeq([n \in DOMAIN timeline[i].messages |->
                        Filter(timeline[i].messages[n].parts, IsToolPart)]))
  <2>1. timeline[i] \in TurnsOf(M)
    BY <1>3
  <2>2. plan.outline[i] = JoinedSources(timeline[i].messages)
    BY <1>2 DEF Outline, JoinedSources
  <2>3. JoinedTools(timeline[i].messages) =
          FlattenSeq([n \in DOMAIN timeline[i].messages |->
                        Filter(timeline[i].messages[n].parts, IsToolPart)])
    BY DEF JoinedTools, ToolsOf
  <2>. QED
    BY <2>1, <2>2, <2>3 DEF TurnsOf
<1>5. ASSUME TimesAreSettled, RolesAreSettled
      PROVE  /\ [i \in DOMAIN turns |-> turns[i].messageIDs] =
                  [i \in DOMAIN asked |-> IDsOf(asked[i].messages)]
             /\ \A i \in DOMAIN turns :
                  turns[i].messageEndIndex - turns[i].messageStartIndex + 1 = Len(turns[i].messages)
  <2>1. PICK L, N : \E k \in Nat : Twins(timeline, turns, L, N, k)
    BY <1>1, <1>2, <1>5, TurnsAreTwins
  <2> HIDE DEF turns, timeline
  <2>. QED
    BY <2>1, AskedAre
<1>. QED
  BY <1>4, <1>5 DEF TurnsAgree, IDsOf, plan

(* The totals that buildTimeline keeps while messages join a turn are      *)
(* those of its messages, however many there are; and buildTurns and       *)
(* buildTimeline group the messages alike from the first user on, if every *)
(* version of a message has its creation time and its role.                *)
THEOREM TurnsAlwaysAgree == Spec => []TurnsAgree
BY TurnsFollow, AllInvariance, PTL

-----------------------------------------------------------------------------
(* What the plan holds.                                                    *)

(* Ids that the events carry.                                              *)
LEMMA CurrentIsGiven ==
  ASSUME AllInv, ~Corrupt(doc), NEW type \in ObjectTypes, NEW key \in DOMAIN doc.latest[type]
  PROVE  LET data == CurrentOf(doc.latest, type, key)
         IN  /\ data # Absent
             /\ \A field \in DOMAIN data \cap IDFields : data[field] \in GivenIDs
<1>1. type \in Types
  BY DEF Types
<1>2. PICK n \in Entries(type, key) : CurrentOf(doc.latest, type, key) = log[n].data
  BY <1>1, VersionsTraced
<1>3. log[n] \in Records /\ log[n].data # NotData
  BY <1>2 DEF Entries, Recorded, AllInv, IInv, LogInv
<1>4. PICK input \in Inputs : input.data = log[n].data
  BY <1>3 DEF Records, Payloads
<1> DEFINE data == log[n].data
<1>5. data # Absent
  BY <1>3, <1>4, UndefinedAssumption
<1>6. \A field \in DOMAIN data \cap IDFields : data[field] \in GivenIDs
  BY <1>3, <1>4 DEF GivenIDs
<1>. QED
  BY <1>2, <1>5, <1>6

SideKinds == {"reasoning_part", "step_start", "step_finish", "compaction_part"}

AsideKinds == {"injected_message", "assistant_after_injection", "non_dialog_message"}

(* A side event of the part j of a message.                                *)
SideOfPart(entry, x, j) ==
  /\ x.part = entry.parts[j] /\ x.part # Absent
  /\ x.id = <<MessageID(entry), Get(entry.parts[j], "id")>>
  /\ x.sourceIndexes = PartSourcesAt(entry, j) /\ x.kind \in SideKinds

LEMMA NoMessageIsAPart ==
  ASSUME AllInv, ~Corrupt(doc), NEW a, MessageShown(a), NEW b, MessageShown(b), PartsShown(b),
         NEW j \in DOMAIN b.parts
  PROVE  MessageID(a) # <<MessageID(b), Get(b.parts[j], "id")>>
<1>0. "message" \in ObjectTypes /\ "part" \in ObjectTypes
  BY DEF ObjectTypes
<1>1. /\ <<MessageID(a)>> \in DOMAIN doc.latest["message"]
      /\ a.info = CurrentOf(doc.latest, "message", <<MessageID(a)>>)
      /\ Get(a.info, "id") = MessageID(a) /\ MessageID(a) # Absent
  BY DEF MessageShown
<1>2. /\ <<MessageID(b)>> \in DOMAIN doc.latest["message"]
      /\ b.info = CurrentOf(doc.latest, "message", <<MessageID(b)>>)
      /\ Get(b.info, "id") = MessageID(b) /\ MessageID(b) # Absent
  BY DEF MessageShown
<1> DEFINE part == b.parts[j]
           key == <<MessageID(b), Get(part, "id")>>
<1>3. /\ key \in DOMAIN doc.latest["part"] /\ part = CurrentOf(doc.latest, "part", key)
      /\ Get(part, "id") # Absent
  BY DEF PartsShown, PartShown
<1>4. MessageID(a) \notin Seq(GivenIDs)
  <2>1. \A field \in DOMAIN a.info \cap IDFields : a.info[field] \in GivenIDs
    BY <1>0, <1>1, CurrentIsGiven
  <2>2. "id" \in DOMAIN a.info \cap IDFields /\ a.info["id"] = MessageID(a)
    BY <1>1 DEF Get, IDFields
  <2>. QED
    BY <2>1, <2>2, ListAssumption
<1>5. MessageID(b) \in GivenIDs
  <2>1. \A field \in DOMAIN b.info \cap IDFields : b.info[field] \in GivenIDs
    BY <1>0, <1>2, CurrentIsGiven
  <2>2. "id" \in DOMAIN b.info \cap IDFields /\ b.info["id"] = MessageID(b)
    BY <1>2 DEF Get, IDFields
  <2>. QED
    BY <2>1, <2>2
<1> DEFINE id == Get(part, "id")
<1>6. id \in GivenIDs
  <2>1. \A field \in DOMAIN part \cap IDFields : part[field] \in GivenIDs
    <3> HIDE DEF part
    <3>. QED
      BY <1>0, <1>3, CurrentIsGiven
  <2>2. "id" \in DOMAIN part \cap IDFields /\ part["id"] = Get(part, "id")
    BY <1>3 DEF Get, IDFields
  <2>. QED
    BY <2>1, <2>2
<1> HIDE DEF id, part
<1>7. <<MessageID(b), id>> \in Seq(GivenIDs)
  BY <1>5, <1>6
<1>. QED
  BY <1>4, <1>7 DEF id, part

LEMMA PartSideFacts ==
  ASSUME AllInv, ~Corrupt(doc), NEW entry, MessageShown(entry), PartsShown(entry)
  PROVE  LET side == PartSideEvents(entry)
         IN  /\ \E q \in Nat : side = [m \in 1..q |-> side[m]]
             /\ \A m \in DOMAIN side : \E j \in DOMAIN entry.parts : SideOfPart(entry, side[m], j)
             /\ \A m, l \in DOMAIN side : side[m].id = side[l].id => m = l
<1>1. PICK d \in Nat : DOMAIN entry.parts = 1..d
  BY DEF PartsShown
<1> DEFINE I == {i \in DOMAIN entry.parts : SidePartKind(entry.parts[i]) # "none"}
           at == Ascending(I)
           q == Cardinality(I)
           side == PartSideEvents(entry)
           id(j) == Get(entry.parts[j], "id")
<1>2. I \in SUBSET (1..d)
  BY <1>1
<1>3. /\ q \in Nat /\ DOMAIN at = 1..q /\ \A m \in 1..q : at[m] \in I
      /\ \A m, l \in 1..q : at[m] = at[l] => m = l
  <2> HIDE DEF I
  <2>1. IsFiniteSet(I) /\ StrictOrderOn(I, IndexOrder(I)) /\ at = Listed(I, IndexOrder(I))
    BY <1>2, IndexesOrdered
  <2> HIDE DEF at
  <2>. QED
    BY <2>1, ListedFacts
<1>4. side = [m \in 1..q |->
                [id |-> <<MessageID(entry), Or(Get(entry.parts[at[m]], "id"), entry.parts[at[m]].type)>>,
                 kind |-> SidePartKind(entry.parts[at[m]]), entry |-> entry,
                 part |-> entry.parts[at[m]], sourceIndexes |-> PartSourcesAt(entry, at[m])]]
  <2>1. side = [m \in DOMAIN at |->
                [id |-> <<MessageID(entry), Or(Get(entry.parts[at[m]], "id"), entry.parts[at[m]].type)>>,
                 kind |-> SidePartKind(entry.parts[at[m]]), entry |-> entry,
                 part |-> entry.parts[at[m]], sourceIndexes |-> PartSourcesAt(entry, at[m])]]
    BY DEF PartSideEvents
  <2>. QED
    BY <1>3, <2>1
<1>5. ASSUME NEW j \in I
      PROVE  /\ j \in DOMAIN entry.parts /\ SidePartKind(entry.parts[j]) \in SideKinds
             /\ id(j) # Absent /\ entry.parts[j] # Absent
  <2>1. SidePartKind(entry.parts[j]) # "none" /\ j \in DOMAIN entry.parts
    OBVIOUS
  <2>2. SidePartKind(entry.parts[j]) \in SideKinds
    BY <2>1 DEF SidePartKind, SideKinds
  <2>3. PartShown(entry, j)
    BY <2>1 DEF PartsShown
  <2> DEFINE key == <<MessageID(entry), Get(entry.parts[j], "id")>>
  <2>4. /\ id(j) # Absent /\ key \in DOMAIN doc.latest["part"]
        /\ entry.parts[j] = CurrentOf(doc.latest, "part", key)
    BY <2>3 DEF PartShown
  <2>5. entry.parts[j] # Absent
    <3> HIDE DEF key
    <3>1. "part" \in ObjectTypes
      BY DEF ObjectTypes
    <3>. QED
      BY <2>4, <3>1, CurrentIsGiven
  <2>. QED
    BY <2>1, <2>2, <2>4, <2>5
<1>6. \A j, l \in DOMAIN entry.parts : id(j) = id(l) => j = l
  BY DEF PartsShown
<1> HIDE DEF I, at, q
<1>7. DOMAIN side = 1..q /\ side = [m \in 1..q |-> side[m]]
  BY <1>4
<1>8. ASSUME NEW m \in 1..q
      PROVE  SideOfPart(entry, side[m], at[m]) /\ side[m].id = <<MessageID(entry), id(at[m])>>
             /\ at[m] \in DOMAIN entry.parts
  <2> DEFINE x == side[m]
             j == at[m]
  <2>1. x = [id |-> <<MessageID(entry), Or(Get(entry.parts[j], "id"), entry.parts[j].type)>>,
             kind |-> SidePartKind(entry.parts[j]), entry |-> entry,
             part |-> entry.parts[j], sourceIndexes |-> PartSourcesAt(entry, j)]
    BY <1>4
  <2>2. j \in I
    BY <1>3
  <2> HIDE DEF x, j
  <2>3. /\ x.id = <<MessageID(entry), Or(Get(entry.parts[j], "id"), entry.parts[j].type)>>
        /\ x.kind = SidePartKind(entry.parts[j]) /\ x.part = entry.parts[j]
        /\ x.sourceIndexes = PartSourcesAt(entry, j)
    BY <2>1
  <2>4. Or(Get(entry.parts[j], "id"), entry.parts[j].type) = id(j)
    BY <1>5, <2>2 DEF Or
  <2>5. x.id = <<MessageID(entry), Get(entry.parts[j], "id")>>
    BY <2>3, <2>4
  <2>6. x.part # Absent /\ x.kind \in SideKinds /\ j \in DOMAIN entry.parts
    BY <1>5, <2>2, <2>3
  <2>7. SideOfPart(entry, x, j)
    BY <2>3, <2>5, <2>6 DEF SideOfPart
  <2>. QED
    BY <2>5, <2>6, <2>7 DEF x, j
<1> HIDE DEF side
<1>9. \A m, l \in 1..q : side[m].id = side[l].id => m = l
  <2>1. SUFFICES ASSUME NEW m \in 1..q, NEW l \in 1..q, side[m].id = side[l].id PROVE m = l
    OBVIOUS
  <2>2. id(at[m]) = id(at[l])
    BY <1>8, <2>1
  <2>3. at[m] = at[l]
    BY <1>6, <1>8, <2>2
  <2>. QED
    BY <1>3, <2>3
<1>10. \A m \in 1..q : \E j \in DOMAIN entry.parts : SideOfPart(entry, side[m], j)
  BY <1>8
<1>. QED
  BY <1>3, <1>7, <1>9, <1>10 DEF side

-----------------------------------------------------------------------------
(* What the loop over the messages keeps true: what is told and what is    *)
(* set aside are the messages read so far, each once.                      *)

NarrativeKinds == {"real_user_input", "assistant_response"}

Listable(V, c) ==
  {Item(V[i], kind) : i \in 1..c, kind \in NarrativeKinds \cup AsideKinds}
  \cup UNION {{PartSideEvents(V[i])[m] : m \in DOMAIN PartSideEvents(V[i])} : i \in 1..c}

OfMessage(V, c) == {x \in Listable(V, c) : x.part = Absent}

(* An element of the narrative, and a message among the side events.       *)
IsTold(x, entry) ==
  /\ x.id = MessageID(entry) /\ x.entry = entry /\ x.kind \in NarrativeKinds
  /\ x.sourceIndexes = entry.sourceIndexes

IsAside(x, entry, injected) ==
  /\ x.id = MessageID(entry) /\ x.part = Absent /\ x.kind \in AsideKinds
  /\ x.sourceIndexes = entry.sourceIndexes
  /\ x.kind = "injected_message" <=> x.id \in injected

ToldUpTo(told, aside, V, k) ==
  /\ \A m \in DOMAIN told : \E i \in 1..k : IsTold(told[m], V[i]) /\ told[m].id \notin aside
  /\ \A m, l \in DOMAIN told : told[m].id = told[l].id => m = l

AsideUpTo(side, aside, injected, V, k) ==
  /\ \A m \in DOMAIN side : \E i \in 1..k :
       \/ IsAside(side[m], V[i], injected) /\ side[m].id \in aside
       \/ \E j \in DOMAIN V[i].parts : SideOfPart(V[i], side[m], j)
  /\ \A m, l \in DOMAIN side : side[m].id = side[l].id => m = l

IsPlan(plan) == DOMAIN plan = {"injected", "aside", "narrative", "sideEvents"}

MarkedUpTo(aside, injected, V, k) ==
  injected \subseteq aside /\ aside \subseteq {MessageID(V[i]) : i \in 1..k}

Placed(plan, V, c, k) ==
  Len(plan.narrative) + Cardinality(Hits(plan.sideEvents, OfMessage(V, c))) = k

Planned(plan, V, c, k) ==
  /\ IsPlan(plan) /\ plan.narrative \in Seq(Listable(V, c)) /\ plan.sideEvents \in Seq(Listable(V, c))
  /\ ToldUpTo(plan.narrative, plan.aside, V, k)
  /\ AsideUpTo(plan.sideEvents, plan.aside, plan.injected, V, k)
  /\ MarkedUpTo(plan.aside, plan.injected, V, k)
  /\ Placed(plan, V, c, k)

LEMMA ItemFacts ==
  ASSUME NEW entry, NEW kind
  PROVE  LET x == Item(entry, kind)
         IN  /\ x.id = MessageID(entry) /\ x.entry = entry /\ x.kind = kind
             /\ x.part = Absent /\ x.sourceIndexes = entry.sourceIndexes
BY DEF Item

(* A message that comes next is none of those before.                      *)
LEMMA NextMessage ==
  ASSUME NEW V, NEW c, Visible(V, c), NEW k \in 1..c
  PROVE  /\ k \in Nat /\ k - 1 \in Nat /\ 1..(k - 1) \subseteq 1..k /\ k \in 1..k /\ 1..k \subseteq 1..c
         /\ \A i \in 1..k : i \in 1..(k - 1) \/ i = k
         /\ \A i \in 1..(k - 1) : i \in 1..c /\ MessageID(V[i]) # MessageID(V[k])
<1>1. c \in Nat /\ \A i, j \in 1..c : MessageID(V[i]) = MessageID(V[j]) => i = j
  BY DEF Visible
<1>2. k \in Nat /\ k - 1 \in Nat /\ 1..(k - 1) \subseteq 1..k /\ 1..k \subseteq 1..c /\ k \notin 1..(k - 1)
  BY <1>1
<1>3. \A i \in 1..k : i \in 1..(k - 1) \/ i = k
  BY <1>2
<1>. QED
  BY <1>1, <1>2, <1>3

(* A message is told: the narrative grows.                                 *)
LEMMA ToldGrows ==
  ASSUME NEW V, NEW c, Visible(V, c), NEW k \in 1..c, NEW X, NEW told \in Seq(X), NEW aside,
         ToldUpTo(told, aside, V, k - 1), aside \subseteq {MessageID(V[i]) : i \in 1..(k - 1)},
         NEW x \in X, IsTold(x, V[k])
  PROVE  ToldUpTo(Append(told, x), aside, V, k)
<1> DEFINE t == Append(told, x)
           l == Len(told)
<1>1. /\ DOMAIN t = 1..(l + 1) /\ DOMAIN told = 1..l /\ l \in Nat /\ t[l + 1] = x
      /\ \A m \in 1..l : t[m] = told[m]
  BY AppendFacts
<1>2. /\ k \in 1..k /\ 1..(k - 1) \subseteq 1..k
      /\ \A i \in 1..(k - 1) : MessageID(V[i]) # MessageID(V[k])
  BY NextMessage
<1>3. x.id = MessageID(V[k]) /\ x.id \notin aside
  BY <1>2 DEF IsTold
<1>4. \A m \in 1..l : \E i \in 1..(k - 1) : IsTold(told[m], V[i]) /\ told[m].id \notin aside
  BY <1>1 DEF ToldUpTo
<1>5. \A m \in 1..l : told[m].id # x.id
  BY <1>2, <1>3, <1>4 DEF IsTold
<1>6. \A m, n \in 1..l : told[m].id = told[n].id => m = n
  BY <1>1 DEF ToldUpTo
<1> HIDE DEF t, l
<1>7. \A m \in DOMAIN t : m \in 1..l \/ m = l + 1
  BY <1>1
<1>8. \A m \in DOMAIN t : \E i \in 1..k : IsTold(t[m], V[i]) /\ t[m].id \notin aside
  BY <1>1, <1>2, <1>3, <1>4, <1>7
<1>9. \A m, n \in DOMAIN t : t[m].id = t[n].id => m = n
  BY <1>1, <1>5, <1>6, <1>7
<1>. QED
  BY <1>8, <1>9 DEF ToldUpTo, t

(* A message is set aside: what is told stays so.                          *)
LEMMA ToldStays ==
  ASSUME NEW V, NEW c, Visible(V, c), NEW k \in 1..c, NEW told, NEW aside,
         ToldUpTo(told, aside, V, k - 1)
  PROVE  ToldUpTo(told, aside \cup {MessageID(V[k])}, V, k)
<1>1. /\ 1..(k - 1) \subseteq 1..k
      /\ \A i \in 1..(k - 1) : MessageID(V[i]) # MessageID(V[k])
  BY NextMessage
<1>2. ASSUME NEW m \in DOMAIN told
      PROVE  \E i \in 1..k : IsTold(told[m], V[i]) /\ told[m].id \notin aside \cup {MessageID(V[k])}
  <2>1. PICK i \in 1..(k - 1) : IsTold(told[m], V[i]) /\ told[m].id \notin aside
    BY DEF ToldUpTo
  <2>2. told[m].id # MessageID(V[k])
    BY <1>1, <2>1 DEF IsTold
  <2>. QED
    BY <1>1, <2>1, <2>2
<1>. QED
  BY <1>2 DEF ToldUpTo

(* Message ids, and the ids of side events that come from parts.           *)
LEMMA SideNames ==
  ASSUME AllInv, ~Corrupt(doc), NEW V, NEW c, Visible(V, c), NEW k \in 1..c,
         NEW side, NEW aside, NEW injected, AsideUpTo(side, aside, injected, V, k - 1),
         NEW m \in DOMAIN side
  PROVE  /\ side[m].id # MessageID(V[k])
         /\ \A j \in DOMAIN V[k].parts : side[m].id # <<MessageID(V[k]), Get(V[k].parts[j], "id")>>
<1>1. k \in 1..c /\ \A i \in 1..(k - 1) : i \in 1..c /\ MessageID(V[i]) # MessageID(V[k])
  BY NextMessage
<1>2. \A i \in 1..c : MessageShown(V[i]) /\ PartsShown(V[i])
  BY DEF Visible
<1>3. PICK i \in 1..(k - 1) :
        \/ IsAside(side[m], V[i], injected) /\ side[m].id \in aside
        \/ \E j \in DOMAIN V[i].parts : SideOfPart(V[i], side[m], j)
  BY DEF AsideUpTo
<1>4. ASSUME IsAside(side[m], V[i], injected)
      PROVE  /\ side[m].id # MessageID(V[k])
             /\ \A j \in DOMAIN V[k].parts : side[m].id # <<MessageID(V[k]), Get(V[k].parts[j], "id")>>
  <2>1. side[m].id = MessageID(V[i])
    BY <1>4 DEF IsAside
  <2>. QED
    BY <1>1, <1>2, <2>1, NoMessageIsAPart
<1>5. ASSUME NEW j \in DOMAIN V[i].parts, SideOfPart(V[i], side[m], j)
      PROVE  /\ side[m].id # MessageID(V[k])
             /\ \A n \in DOMAIN V[k].parts : side[m].id # <<MessageID(V[k]), Get(V[k].parts[n], "id")>>
  <2>1. side[m].id = <<MessageID(V[i]), Get(V[i].parts[j], "id")>>
    BY <1>5 DEF SideOfPart
  <2>2. MessageShown(V[k]) /\ MessageShown(V[i]) /\ PartsShown(V[i])
    BY <1>1, <1>2
  <2>3. MessageID(V[k]) # <<MessageID(V[i]), Get(V[i].parts[j], "id")>>
    BY <2>2, NoMessageIsAPart
  <2>. QED
    BY <1>1, <2>1, <2>3
<1>. QED
  BY <1>3, <1>4, <1>5

(* A message is set aside: the side events grow.                           *)
LEMMA AsideGrows ==
  ASSUME AllInv, ~Corrupt(doc), NEW V, NEW c, Visible(V, c), NEW k \in 1..c,
         NEW X, NEW side \in Seq(X), NEW aside, NEW injected,
         AsideUpTo(side, aside, injected, V, k - 1), MarkedUpTo(aside, injected, V, k - 1),
         NEW x \in X, NEW more, more \subseteq {MessageID(V[k])}, IsAside(x, V[k], injected \cup more)
  PROVE  AsideUpTo(Append(side, x), aside \cup {MessageID(V[k])}, injected \cup more, V, k)
<1> DEFINE t == Append(side, x)
           l == Len(side)
           id == MessageID(V[k])
<1>1. /\ DOMAIN t = 1..(l + 1) /\ DOMAIN side = 1..l /\ l \in Nat /\ t[l + 1] = x
      /\ \A m \in 1..l : t[m] = side[m]
  BY AppendFacts
<1>2. k \in 1..k /\ 1..(k - 1) \subseteq 1..k
  BY NextMessage
<1>3. x.id = id
  BY DEF IsAside
<1>4. \A m \in 1..l : side[m].id # id
  BY <1>1, SideNames
<1>5. ASSUME NEW m \in 1..l
      PROVE  \E i \in 1..k : \/ IsAside(side[m], V[i], injected \cup more) /\ side[m].id \in aside \cup {id}
                             \/ \E j \in DOMAIN V[i].parts : SideOfPart(V[i], side[m], j)
  <2>1. PICK i \in 1..(k - 1) : \/ IsAside(side[m], V[i], injected) /\ side[m].id \in aside
                                \/ \E j \in DOMAIN V[i].parts : SideOfPart(V[i], side[m], j)
    BY <1>1 DEF AsideUpTo
  <2>2. side[m].id \in injected \cup more <=> side[m].id \in injected
    BY <1>4
  <2>3. IsAside(side[m], V[i], injected) => IsAside(side[m], V[i], injected \cup more)
    BY <2>2 DEF IsAside
  <2>. QED
    BY <1>2, <2>1, <2>3
<1>6. \A m, n \in 1..l : side[m].id = side[n].id => m = n
  BY <1>1 DEF AsideUpTo
<1> HIDE DEF t, l, id
<1>7. \A m \in DOMAIN t : m \in 1..l \/ m = l + 1
  BY <1>1
<1>8. x.id \in aside \cup {id}
  BY <1>3
<1>9. ASSUME NEW m \in DOMAIN t
      PROVE  \E i \in 1..k : \/ IsAside(t[m], V[i], injected \cup more) /\ t[m].id \in aside \cup {id}
                             \/ \E j \in DOMAIN V[i].parts : SideOfPart(V[i], t[m], j)
  <2>1. CASE m \in 1..l
    BY <1>1, <1>5, <2>1
  <2>2. CASE m = l + 1
    BY <1>1, <1>2, <1>8, <2>2
  <2>. QED
    BY <1>7, <2>1, <2>2
<1>10. \A m, n \in DOMAIN t : t[m].id = t[n].id => m = n
  BY <1>1, <1>3, <1>4, <1>6, <1>7
<1>. QED
  BY <1>9, <1>10 DEF AsideUpTo, t, id

(* A message is told: its parts' side events are added.                    *)
LEMMA AsideExtends ==
  ASSUME AllInv, ~Corrupt(doc), NEW V, NEW c, Visible(V, c), NEW k \in 1..c,
         NEW X, NEW side \in Seq(X), NEW aside, NEW injected,
         AsideUpTo(side, aside, injected, V, k - 1), PartSideEvents(V[k]) \in Seq(X)
  PROVE  AsideUpTo(side \o PartSideEvents(V[k]), aside, injected, V, k)
<1> DEFINE more == PartSideEvents(V[k])
           t == side \o more
           l == Len(side)
           id == MessageID(V[k])
<1>1. k \in 1..k /\ 1..(k - 1) \subseteq 1..k /\ MessageShown(V[k]) /\ PartsShown(V[k])
  BY NextMessage DEF Visible
<1>2. /\ \A m \in DOMAIN more : \E j \in DOMAIN V[k].parts : SideOfPart(V[k], more[m], j)
      /\ \A m, n \in DOMAIN more : more[m].id = more[n].id => m = n
  BY <1>1, PartSideFacts
<1>3. \A m \in DOMAIN side, n \in DOMAIN more : side[m].id # more[n].id
  <2>1. SUFFICES ASSUME NEW m \in DOMAIN side, NEW n \in DOMAIN more PROVE side[m].id # more[n].id
    OBVIOUS
  <2>2. PICK j \in DOMAIN V[k].parts : SideOfPart(V[k], more[n], j)
    BY <1>2
  <2>3. more[n].id = <<id, Get(V[k].parts[j], "id")>>
    BY <2>2 DEF SideOfPart
  <2>. QED
    BY <2>3, SideNames
<1>4. /\ \A m \in DOMAIN side : \E i \in 1..(k - 1) :
           \/ IsAside(side[m], V[i], injected) /\ side[m].id \in aside
           \/ \E j \in DOMAIN V[i].parts : SideOfPart(V[i], side[m], j)
      /\ \A m, n \in DOMAIN side : side[m].id = side[n].id => m = n
  BY DEF AsideUpTo
<1> HIDE DEF more, id
<1>5. /\ DOMAIN t = 1..(l + Len(more)) /\ DOMAIN side = 1..l /\ l \in Nat
      /\ Len(more) \in Nat /\ DOMAIN more = 1..Len(more)
      /\ \A m \in DOMAIN t : IF m \in 1..l THEN t[m] = side[m]
                             ELSE m - l \in 1..Len(more) /\ t[m] = more[m - l]
  <2>1. more \in Seq(X)
    BY DEF more
  <2>2. /\ Len(t) = l + Len(more) /\ DOMAIN t = 1..Len(t) /\ DOMAIN side = 1..l /\ l \in Nat
        /\ Len(more) \in Nat /\ DOMAIN more = 1..Len(more)
    BY <2>1
  <2>3. ASSUME NEW m \in 1..(l + Len(more))
        PROVE  IF m \in 1..l THEN t[m] = side[m] ELSE m - l \in 1..Len(more) /\ t[m] = more[m - l]
    <3>1. t[m] = IF m <= l THEN side[m] ELSE more[m - l]
      BY <2>1, <2>2
    <3>. QED
      BY <2>2, <3>1
  <2>. QED
    BY <2>2, <2>3
<1> HIDE DEF t, l
<1>6. ASSUME NEW m \in DOMAIN t
      PROVE  \E i \in 1..k : \/ IsAside(t[m], V[i], injected) /\ t[m].id \in aside
                             \/ \E j \in DOMAIN V[i].parts : SideOfPart(V[i], t[m], j)
  <2>1. CASE m \in 1..l
    <3>1. m \in DOMAIN side /\ t[m] = side[m]
      BY <1>5, <2>1
    <3>. QED
      BY <1>1, <1>4, <3>1
  <2>2. CASE m \notin 1..l
    <3>1. m - l \in DOMAIN more /\ t[m] = more[m - l]
      BY <1>5, <2>2
    <3>. QED
      BY <1>1, <1>2, <3>1
  <2>. QED
    BY <2>1, <2>2
<1>7. ASSUME NEW m \in DOMAIN t, NEW n \in DOMAIN t, t[m].id = t[n].id
      PROVE  m = n
  <2>1. CASE m \in 1..l /\ n \in 1..l
    BY <1>4, <1>5, <1>7, <2>1
  <2>2. CASE m \in 1..l /\ n \notin 1..l
    <3>1. m \in DOMAIN side /\ t[m] = side[m] /\ n - l \in DOMAIN more /\ t[n] = more[n - l]
      BY <1>5, <2>2
    <3>. QED
      BY <1>3, <1>7, <3>1
  <2>3. CASE m \notin 1..l /\ n \in 1..l
    <3>1. n \in DOMAIN side /\ t[n] = side[n] /\ m - l \in DOMAIN more /\ t[m] = more[m - l]
      BY <1>5, <2>3
    <3>. QED
      BY <1>3, <1>7, <3>1
  <2>4. CASE m \notin 1..l /\ n \notin 1..l
    <3>1. n - l \in DOMAIN more /\ t[n] = more[n - l] /\ m - l \in DOMAIN more /\ t[m] = more[m - l]
      BY <1>5, <2>4
    <3>2. m - l = n - l
      BY <1>2, <1>7, <3>1
    <3>3. m \in Nat /\ n \in Nat
      BY <1>5
    <3>. QED
      BY <1>5, <3>2, <3>3
  <2>. QED
    BY <2>1, <2>2, <2>3, <2>4
<1>. QED
  BY <1>6, <1>7 DEF AsideUpTo, t, more

Planning == INSTANCE FoldFacts WITH Op <- PlanMessage

LEMMA ListableFacts ==
  ASSUME AllInv, ~Corrupt(doc), NEW V, NEW c, Visible(V, c), NEW k \in 1..c
  PROVE  /\ \A kind \in NarrativeKinds \cup AsideKinds :
              Item(V[k], kind) \in Listable(V, c) /\ Item(V[k], kind) \in OfMessage(V, c)
         /\ PartSideEvents(V[k]) \in Seq(Listable(V, c))
         /\ \A m \in DOMAIN PartSideEvents(V[k]) : PartSideEvents(V[k])[m] \notin OfMessage(V, c)
<1> DEFINE side == PartSideEvents(V[k])
<1>1. \A kind \in NarrativeKinds \cup AsideKinds : Item(V[k], kind) \in Listable(V, c)
  BY DEF Listable
<1>2. \A kind : Item(V[k], kind).part = Absent
  BY ItemFacts
<1>3. \A m \in DOMAIN side : side[m] \in Listable(V, c)
  BY DEF Listable
<1>4. MessageShown(V[k]) /\ PartsShown(V[k])
  BY DEF Visible
<1>5. /\ \E q \in Nat : side = [m \in 1..q |-> side[m]]
      /\ \A m \in DOMAIN side : \E j \in DOMAIN V[k].parts : SideOfPart(V[k], side[m], j)
  BY <1>4, PartSideFacts
<1> HIDE DEF side
<1>6. PICK q \in Nat : side = [m \in 1..q |-> side[m]]
  BY <1>5
<1>7. side \in Seq(Listable(V, c))
  BY <1>3, <1>6
<1>8. \A m \in DOMAIN side : side[m] \notin OfMessage(V, c)
  BY <1>5 DEF SideOfPart, OfMessage
<1>9. \A kind \in NarrativeKinds \cup AsideKinds : Item(V[k], kind) \in OfMessage(V, c)
  BY <1>1, <1>2 DEF OfMessage
<1>. QED
  BY <1>1, <1>7, <1>8, <1>9 DEF side

(* What is marked stays among the messages read.                           *)
LEMMA MarkedGrows ==
  ASSUME NEW V, NEW c, Visible(V, c), NEW k \in 1..c, NEW aside, NEW injected,
         MarkedUpTo(aside, injected, V, k - 1), NEW more, more \subseteq {MessageID(V[k])}
  PROVE  /\ MarkedUpTo(aside \cup {MessageID(V[k])}, injected \cup more, V, k)
         /\ MarkedUpTo(aside, injected, V, k)
<1>1. k \in 1..k /\ 1..(k - 1) \subseteq 1..k
  BY NextMessage
<1>2. {MessageID(V[i]) : i \in 1..(k - 1)} \cup {MessageID(V[k])} \subseteq {MessageID(V[i]) : i \in 1..k}
  BY <1>1
<1>. QED
  BY <1>2 DEF MarkedUpTo

LEMMA HitsAppended ==
  ASSUME NEW X, NEW s \in Seq(X), NEW x \in X, NEW A
  PROVE  Cardinality(Hits(Append(s, x), A)) = Cardinality(Hits(s, A)) + (IF x \in A THEN 1 ELSE 0)
<1> DEFINE one == <<x>>
<1>1. one \in Seq(X) /\ Len(one) = 1 /\ DOMAIN one = 1..1 /\ one[1] = x
  BY OneElement
<1>2. Append(s, x) = s \o one
  OBVIOUS
<1>3. Cardinality(Hits(one, A)) = IF x \in A THEN 1 ELSE 0
  <2> HIDE DEF one
  <2>1. \A i \in DOMAIN one : one[i] = x
    BY <1>1
  <2>2. x \in A => Cardinality(Hits(one, A)) = 1
    BY <1>1, <2>1, HitsOfAll
  <2>3. x \notin A => Cardinality(Hits(one, A)) = 0
    BY <1>1, <2>1, HitsOfAll
  <2>. QED
    BY <2>2, <2>3
<1> HIDE DEF one
<1>. QED
  BY <1>1, <1>2, <1>3, HitsJoined

LEMMA SetAsidePlanned ==
  ASSUME AllInv, ~Corrupt(doc), NEW V, NEW c, Visible(V, c), NEW k \in 1..c,
         NEW plan, Planned(plan, V, c, k - 1), NEW kind \in AsideKinds, NEW after, IsPlan(after),
         after.narrative = plan.narrative, after.sideEvents = Append(plan.sideEvents, Item(V[k], kind)),
         after.aside = plan.aside \cup {MessageID(V[k])},
         after.injected = plan.injected \cup
           (IF kind = "injected_message" THEN {MessageID(V[k])} ELSE {})
  PROVE  Planned(after, V, c, k)
<1> DEFINE X == Listable(V, c)
           x == Item(V[k], kind)
           more == IF kind = "injected_message" THEN {MessageID(V[k])} ELSE {}
           side == plan.sideEvents
           A == OfMessage(V, c)
<1>1. /\ plan.narrative \in Seq(X) /\ side \in Seq(X)
      /\ ToldUpTo(plan.narrative, plan.aside, V, k - 1)
      /\ AsideUpTo(side, plan.aside, plan.injected, V, k - 1)
      /\ MarkedUpTo(plan.aside, plan.injected, V, k - 1)
      /\ Len(plan.narrative) + Cardinality(Hits(side, A)) = k - 1
  BY DEF Planned, Placed
<1>2. x \in X /\ x \in A
  BY ListableFacts
<1>3. /\ x.id = MessageID(V[k]) /\ x.kind = kind /\ x.part = Absent
      /\ x.sourceIndexes = V[k].sourceIndexes
  BY ItemFacts
<1>4. MessageID(V[k]) \notin plan.injected
  <2>1. plan.injected \subseteq {MessageID(V[i]) : i \in 1..(k - 1)}
    BY <1>1 DEF MarkedUpTo
  <2>. QED
    BY <2>1, NextMessage
<1>5. more \subseteq {MessageID(V[k])} /\ IsAside(x, V[k], plan.injected \cup more)
  BY <1>3, <1>4 DEF IsAside
<1>6. after.sideEvents = Append(side, x) /\ after.injected = plan.injected \cup more
  OBVIOUS
<1>7. Cardinality(Hits(side, A)) \in Nat /\ Len(plan.narrative) \in Nat /\ k \in Nat
  <2> HIDE DEF X, A, side
  <2>. QED
    BY <1>1, HitsAreFinite, NextMessage
<1> HIDE DEF X, x, more, side, A
<1>8. Append(side, x) \in Seq(X)
  BY <1>1, <1>2, AppendFacts
<1>9. ToldUpTo(after.narrative, after.aside, V, k)
  BY <1>1, ToldStays
<1>10. AsideUpTo(after.sideEvents, after.aside, after.injected, V, k)
  <2>1. AsideUpTo(Append(side, x), plan.aside \cup {MessageID(V[k])}, plan.injected \cup more, V, k)
    BY <1>1, <1>2, <1>5, AsideGrows
  <2>. QED
    BY <1>6, <2>1
<1>11. MarkedUpTo(after.aside, after.injected, V, k)
  <2>1. MarkedUpTo(plan.aside \cup {MessageID(V[k])}, plan.injected \cup more, V, k)
    BY <1>1, <1>5, MarkedGrows
  <2>. QED
    BY <1>6, <2>1
<1>12. Cardinality(Hits(after.sideEvents, A)) = Cardinality(Hits(side, A)) + 1
  BY <1>1, <1>2, <1>6, HitsAppended
<1>13. Len(after.narrative) + Cardinality(Hits(after.sideEvents, A)) = k
  BY <1>1, <1>7, <1>12
<1>. QED
  BY <1>1, <1>6, <1>8, <1>9, <1>10, <1>11, <1>13 DEF Planned, Placed, X, A

LEMMA NarratedPlanned ==
  ASSUME AllInv, ~Corrupt(doc), NEW V, NEW c, Visible(V, c), NEW k \in 1..c,
         NEW plan, Planned(plan, V, c, k - 1), NEW kind \in NarrativeKinds
  PROVE  Planned(Narrate(plan, V[k], kind), V, c, k)
<1> DEFINE X == Listable(V, c)
           x == Item(V[k], kind)
           side == plan.sideEvents
           more == PartSideEvents(V[k])
           A == OfMessage(V, c)
           after == Narrate(plan, V[k], kind)
<1>1. /\ plan.narrative \in Seq(X) /\ side \in Seq(X)
      /\ ToldUpTo(plan.narrative, plan.aside, V, k - 1)
      /\ AsideUpTo(side, plan.aside, plan.injected, V, k - 1)
      /\ MarkedUpTo(plan.aside, plan.injected, V, k - 1)
      /\ Len(plan.narrative) + Cardinality(Hits(side, A)) = k - 1
  BY DEF Planned, Placed
<1>2. x \in X /\ more \in Seq(X) /\ \A m \in DOMAIN more : more[m] \notin A
  BY ListableFacts
<1>3. IsTold(x, V[k])
  BY ItemFacts DEF IsTold
<1>4. /\ after.narrative = Append(plan.narrative, x) /\ after.sideEvents = side \o more
      /\ after.aside = plan.aside /\ after.injected = plan.injected /\ IsPlan(after)
  <2>1. IsPlan(plan)
    BY DEF Planned
  <2>. QED
    BY <2>1 DEF Narrate, IsPlan
<1>5. AsideUpTo(after.sideEvents, after.aside, after.injected, V, k)
  BY <1>1, <1>2, <1>4, AsideExtends
<1> HIDE DEF X, x, more, side, A, after
<1>6. Cardinality(Hits(side, A)) \in Nat /\ Len(plan.narrative) \in Nat /\ k \in Nat
  BY <1>1, HitsAreFinite, NextMessage
<1>7. /\ after.narrative \in Seq(X) /\ Len(after.narrative) = Len(plan.narrative) + 1
      /\ after.sideEvents \in Seq(X)
  BY <1>1, <1>2, <1>4, AppendFacts, JoinedTwice
<1>8. ToldUpTo(after.narrative, after.aside, V, k)
  BY <1>1, <1>2, <1>3, <1>4, ToldGrows DEF MarkedUpTo
<1>9. MarkedUpTo(after.aside, after.injected, V, k)
  <2>1. {} \subseteq {MessageID(V[k])}
    OBVIOUS
  <2>. QED
    BY <1>1, <1>4, <2>1, MarkedGrows
<1>10. Cardinality(Hits(after.sideEvents, A)) = Cardinality(Hits(side, A)) 
  <2>1. Cardinality(Hits(more, A)) = 0
    BY <1>2, HitsOfAll
  <2>. QED
    BY <1>1, <1>2, <1>4, <1>6, <2>1, HitsJoined
<1>11. Len(after.narrative) + Cardinality(Hits(after.sideEvents, A)) = k
  <2>1. Len(plan.narrative) + Cardinality(Hits(side, A)) = k - 1
    BY <1>1
  <2>. QED
    BY <1>6, <1>7, <1>10, <2>1
<1>. QED
  BY <1>4, <1>5, <1>7, <1>8, <1>9, <1>11 DEF Planned, Placed, X, A, after

LEMMA PlanStep ==
  ASSUME AllInv, ~Corrupt(doc), NEW V, NEW c, Visible(V, c), NEW k \in 1..c,
         NEW plan, Planned(plan, V, c, k - 1)
  PROVE  Planned(PlanMessage(plan, V[k]), V, c, k)
<1> DEFINE entry == V[k]
           after == PlanMessage(plan, entry)
           marked == [plan EXCEPT !.injected = @ \cup {MessageID(entry)}]
<1>1. IsPlan(plan)
  BY DEF Planned
<1>2. CASE DetectInjectedMessage(entry)
  <2>1. after = SetAside(marked, entry, "injected_message")
    BY <1>2 DEF PlanMessage
  <2>2. /\ IsPlan(after) /\ after.narrative = plan.narrative
        /\ after.sideEvents = Append(plan.sideEvents, Item(entry, "injected_message"))
        /\ after.aside = plan.aside \cup {MessageID(entry)}
        /\ after.injected = plan.injected \cup {MessageID(entry)}
    BY <1>1, <2>1 DEF SetAside, IsPlan
  <2>3. "injected_message" \in AsideKinds
    BY DEF AsideKinds
  <2> HIDE DEF after
  <2>4. Planned(after, V, c, k)
    BY <2>2, <2>3, SetAsidePlanned
  <2>. QED
    BY <2>4 DEF after
<1>3. ASSUME NEW kind \in {"assistant_after_injection", "non_dialog_message"}
      PROVE  Planned(SetAside(plan, entry, kind), V, c, k)
  <2> DEFINE new == SetAside(plan, entry, kind)
  <2>1. /\ IsPlan(new) /\ new.narrative = plan.narrative
        /\ new.sideEvents = Append(plan.sideEvents, Item(entry, kind))
        /\ new.aside = plan.aside \cup {MessageID(entry)} /\ new.injected = plan.injected
    BY <1>1 DEF SetAside, IsPlan
  <2>2. kind \in AsideKinds /\ kind # "injected_message"
    BY DEF AsideKinds
  <2>3. new.injected = plan.injected \cup
          (IF kind = "injected_message" THEN {MessageID(entry)} ELSE {})
    BY <2>1, <2>2
  <2> HIDE DEF new
  <2>4. Planned(new, V, c, k)
    BY <2>1, <2>2, <2>3, SetAsidePlanned
  <2>. QED
    BY <2>4 DEF new
<1>4. \A kind \in NarrativeKinds : Planned(Narrate(plan, entry, kind), V, c, k)
  BY NarratedPlanned
<1>5. CASE ~DetectInjectedMessage(entry)
  <2>1. \/ after = SetAside(plan, entry, "assistant_after_injection")
        \/ after = SetAside(plan, entry, "non_dialog_message")
        \/ after = Narrate(plan, entry, "real_user_input")
        \/ after = Narrate(plan, entry, "assistant_response")
    BY <1>5 DEF PlanMessage
  <2>. QED
    BY <1>3, <1>4, <2>1 DEF NarrativeKinds
<1>. QED
  BY <1>2, <1>5

(* The plan is what the loop over the visible messages leaves.             *)
PlanRounds(P, V, c) == P[0] = EmptyPlan /\ \A i \in 1..c : P[i] = PlanMessage(P[i - 1], V[i])

PlanFrom(plan, V) == Planning!Folded(plan, V)

LEMMA PlanIsLoop ==
  ASSUME NEW V, V = VisibleMessages(doc.latest), NEW c \in Nat, DOMAIN V = 1..c
  PROVE  \E P : PlanRounds(P, V, c) /\ Plan(doc.latest) = P[c]
<1>1. Plan(doc.latest) = PlanFrom(EmptyPlan, V)
  BY DEF Plan, PlanFrom, FoldLeft, MapThenFoldSet, Max, Planning!Folded, Planning!MaxOf
<1>2. \E P : Planning!Rounds(P, EmptyPlan, V, c) /\ PlanFrom(EmptyPlan, V) = P[c]
  BY Planning!FoldIsRounds DEF PlanFrom
<1>. QED
  BY <1>1, <1>2 DEF PlanRounds, Planning!Rounds

LEMMA EmptyPlanned ==
  ASSUME NEW V, NEW c
  PROVE  Planned(EmptyPlan, V, c, 0)
<1> DEFINE X == Listable(V, c)
           A == OfMessage(V, c)
<1>1. /\ IsPlan(EmptyPlan) /\ EmptyPlan.narrative = <<>> /\ EmptyPlan.sideEvents = <<>>
      /\ EmptyPlan.aside = {} /\ EmptyPlan.injected = {}
  BY DEF EmptyPlan, IsPlan
<1> HIDE DEF X, A
<1>2. <<>> \in Seq(X) /\ Len(<<>>) = 0
  OBVIOUS
<1>3. Cardinality(Hits(<<>>, A)) = 0
  <2>1. Hits(<<>>, A) = {}
    BY DEF Hits
  <2>. QED
    BY <2>1, FS_EmptySet
<1>4. ToldUpTo(<<>>, {}, V, 0) /\ AsideUpTo(<<>>, {}, {}, V, 0) /\ MarkedUpTo({}, {}, V, 0)
  BY DEF ToldUpTo, AsideUpTo, MarkedUpTo
<1>5. Len(EmptyPlan.narrative) + Cardinality(Hits(EmptyPlan.sideEvents, A)) = 0
  BY <1>1, <1>2, <1>3
<1>. QED
  BY <1>1, <1>2, <1>4, <1>5 DEF Planned, Placed, X, A

(* Every message of the page is told or set aside, once.                   *)
LEMMA PlanFacts ==
  ASSUME AllInv, ~Corrupt(doc), NEW c, Visible(VisibleMessages(doc.latest), c)
  PROVE  Planned(Plan(doc.latest), VisibleMessages(doc.latest), c, c)
<1> DEFINE V == VisibleMessages(doc.latest)
<1>1. c \in Nat /\ DOMAIN V = 1..c
  BY DEF Visible
<1> HIDE DEF V
<1>2. PICK P : PlanRounds(P, V, c) /\ Plan(doc.latest) = P[c]
  BY <1>1, PlanIsLoop DEF V
<1>3. Visible(V, c)
  BY DEF V
<1> DEFINE T == {k \in 0..c : Planned(P[k], V, c, k)}
<1>4. 0 \in T
  BY <1>1, <1>2, EmptyPlanned DEF PlanRounds
<1>5. ASSUME NEW k \in 1..c, k - 1 \in T
      PROVE  k \in T
  <2>1. Planned(P[k - 1], V, c, k - 1) /\ P[k] = PlanMessage(P[k - 1], V[k])
    BY <1>2, <1>5 DEF PlanRounds
  <2>2. Planned(P[k], V, c, k)
    BY <1>3, <2>1, PlanStep
  <2>. QED
    BY <1>1, <2>2
<1> HIDE DEF T
<1>6. \A k \in 0..c : k \in T
  BY <1>1, <1>4, <1>5, LoopInduction
<1>7. c \in T
  BY <1>1, <1>6
<1>. QED
  BY <1>2, <1>7 DEF T, V

-----------------------------------------------------------------------------
(* The lists beside the narrative, and how long they are.                  *)

(* No two diffs are one entry of the list of files.                        *)
LEMMA FilesCounted ==
  ASSUME AllInv
  PROVE  /\ Cardinality(FileSummaries(doc.latest)) = Cardinality(NamedFiles(doc.latest))
         /\ Cardinality(NamedFiles(doc.latest)) \in Nat
<1> DEFINE D == DOMAIN doc.latest["session_diff"]
           S == NamedFiles(doc.latest)
           T == FileSummaries(doc.latest)
           summary(key) == [file |-> Get(CurrentOf(doc.latest, "session_diff", key), "file"),
                            patch |-> Or(Get(CurrentOf(doc.latest, "session_diff", key), "patch"), Empty),
                            sourceIndexes |-> Sources(doc.latest, "session_diff", key)]
           f == [key \in S |-> summary(key)]
<1>0. "session_diff" \in Types
  BY DEF Types, ArrayTypes
<1>1. IsFiniteSet(D) /\ StrictOrderOn(D, AddedBefore(doc.latest, "session_diff"))
  BY <1>0, FiniteKeys, AddedOrder
<1>2. S \in SUBSET D /\ IsFiniteSet(S)
  BY <1>1, FS_Subset DEF NamedFiles
<1>3. T = {summary(key) : key \in S}
  BY DEF FileSummaries
<1>4. ASSUME NEW a \in S, NEW b \in S, summary(a) = summary(b)
      PROVE  a = b
  <2>1. Sources(doc.latest, "session_diff", a) = Sources(doc.latest, "session_diff", b)
    BY <1>4
  <2>2. /\ DOMAIN doc.latest["session_diff"][a] = 1..Len(doc.latest["session_diff"][a])
        /\ DOMAIN doc.latest["session_diff"][b] = 1..Len(doc.latest["session_diff"][b])
        /\ 1 \in DOMAIN doc.latest["session_diff"][a] /\ 1 \in DOMAIN doc.latest["session_diff"][b]
    <3>1. ASSUME NEW key \in D
          PROVE  LET h == doc.latest["session_diff"][key]
                 IN  DOMAIN h = 1..Len(h) /\ 1 \in DOMAIN h
      <4>1. doc.latest["session_diff"][key] \in Seq(Versions) \ {<<>>}
        BY <1>0 DEF AllInv, IInv, EntriesInv
      <4>. QED
        BY <4>1
    <3>. QED
      BY <1>2, <3>1
  <2>3. doc.latest["session_diff"][a][1].sourceIndex = doc.latest["session_diff"][b][1].sourceIndex
    BY <2>1, <2>2 DEF Sources
  <2>4. <<a, b>> \in AddedBefore(doc.latest, "session_diff") <=>
          <<a, a>> \in AddedBefore(doc.latest, "session_diff")
    BY <1>2, <2>3 DEF AddedBefore
  <2>5. <<b, a>> \in AddedBefore(doc.latest, "session_diff") <=>
          <<a, a>> \in AddedBefore(doc.latest, "session_diff")
    BY <1>2, <2>3 DEF AddedBefore
  <2>. QED
    BY <1>1, <1>2, <2>4, <2>5 DEF StrictOrderOn
<1>5. f \in [S -> T] /\ \A key \in S : f[key] = summary(key)
  BY <1>3
<1>6. \A z \in T : \E key \in S : f[key] = z
  BY <1>3, <1>5
<1>7. \A a, b \in S : f[a] = f[b] => a = b
  BY <1>4, <1>5
<1> HIDE DEF S, T, f
<1>8. Cardinality(T) = Cardinality(S)
  BY <1>2, <1>5, <1>6, <1>7, SameSize
<1>. QED
  BY <1>2, <1>8, FS_CardinalityType DEF S, T

(* Side events are injected messages exactly if their id is marked.        *)
LEMMA InjectedAreMarked ==
  ASSUME AllInv, ~Corrupt(doc), NEW V, NEW c, Visible(V, c), NEW plan, Planned(plan, V, c, c),
         NEW m \in DOMAIN plan.sideEvents
  PROVE  plan.sideEvents[m].kind = "injected_message" <=> plan.sideEvents[m].id \in plan.injected
<1> DEFINE x == plan.sideEvents[m]
<1>1. \A i \in 1..c : MessageShown(V[i]) /\ PartsShown(V[i])
  BY DEF Visible
<1>2. AsideUpTo(plan.sideEvents, plan.aside, plan.injected, V, c) /\ MarkedUpTo(plan.aside, plan.injected, V, c)
  BY DEF Planned
<1>3. PICK i \in 1..c : \/ IsAside(x, V[i], plan.injected) /\ x.id \in plan.aside
                        \/ \E j \in DOMAIN V[i].parts : SideOfPart(V[i], x, j)
  BY <1>2 DEF AsideUpTo
<1>4. ASSUME NEW j \in DOMAIN V[i].parts, SideOfPart(V[i], x, j)
      PROVE  x.kind # "injected_message" /\ x.id \notin plan.injected
  <2>1. x.kind \in SideKinds /\ x.id = <<MessageID(V[i]), Get(V[i].parts[j], "id")>>
    BY <1>4 DEF SideOfPart
  <2>2. \A n \in 1..c : MessageID(V[n]) # x.id
    BY <1>1, <2>1, NoMessageIsAPart
  <2>. QED
    BY <1>2, <2>1, <2>2 DEF MarkedUpTo, SideKinds
<1>5. IsAside(x, V[i], plan.injected) => (x.kind = "injected_message" <=> x.id \in plan.injected)
  BY DEF IsAside
<1>. QED
  BY <1>3, <1>4, <1>5

(* A filter keeps as many as there are.                                    *)
LEMMA FilterCounts ==
  ASSUME NEW X, NEW s \in Seq(X), NEW A, NEW I, I = {i \in DOMAIN s : s[i] \in A}
  PROVE  Len(Kept(s, I)) = Cardinality(Hits(s, A)) /\ Cardinality(Hits(s, A)) \in Nat
<1>1. I = Hits(s, A)
  BY DEF Hits
<1>2. I \in SUBSET (1..Len(s)) /\ Cardinality(Hits(s, A)) \in Nat
  BY <1>1, HitsAreFinite
<1>3. Len(Kept(s, I)) = Cardinality(I)
  BY <1>2, HitsKept
<1>. QED
  BY <1>1, <1>2, <1>3

InjectedOnes(X) == {x \in X : x.kind = "injected_message"}

(* The list of side items holds every side event once.                     *)
LEMMA SideItemsFacts ==
  ASSUME AllInv, ~Corrupt(doc), NEW V, NEW c, Visible(V, c), NEW plan, Planned(plan, V, c, c)
  PROVE  LET X == Listable(V, c)
             E == plan.sideEvents
             S == SideItems(plan)
         IN  /\ S \in Seq(X) /\ Len(S) = Len(E) /\ Len(E) \in Nat
             /\ \A A : Cardinality(Hits(S, A)) = Cardinality(Hits(E, A))
             /\ InjectedOf(plan) \in Seq(X)
             /\ Len(InjectedOf(plan)) = Cardinality(Hits(E, InjectedOnes(X)))
<1> DEFINE X == Listable(V, c)
           E == plan.sideEvents
           I == {i \in DOMAIN E : E[i].kind = "injected_message"}
           R == {i \in DOMAIN E : E[i].id \notin plan.injected}
           D == 1..Len(E)
           S == SideItems(plan)
           A0 == InjectedOnes(X)
<1>1. E \in Seq(X) /\ Len(E) \in Nat /\ DOMAIN E = D
  <2>1. E \in Seq(X)
    BY DEF Planned
  <2> HIDE DEF X
  <2>. QED
    BY <2>1
<1>2. I \in SUBSET D /\ R = D \ I /\ R \in SUBSET D
  BY <1>1, InjectedAreMarked
<1>3. S = Kept(E, I) \o Kept(E, R) /\ InjectedOf(plan) = Kept(E, I)
  BY DEF SideItems, InjectedOf, Filter
<1>4. I = {i \in DOMAIN E : E[i] \in A0}
  <2>1. \A i \in DOMAIN E : E[i] \in X
    <3>1. E \in Seq(X)
      BY <1>1
    <3> HIDE DEF E, X
    <3>. QED
      BY <3>1
  <2> HIDE DEF X, E
  <2>. QED
    BY <2>1 DEF InjectedOnes
<1> HIDE DEF X, E, I, R, S
<1>5. /\ Kept(E, I) \in Seq(X) /\ Len(Kept(E, I)) = Cardinality(I) /\ Cardinality(I) \in Nat
      /\ Kept(E, R) \in Seq(X) /\ Len(Kept(E, R)) = Cardinality(R) /\ Cardinality(R) \in Nat
  BY <1>1, <1>2, HitsKept
<1>6. IsFiniteSet(D) /\ Cardinality(D) = Len(E)
  BY <1>1, FS_Interval, SMT
<1>7. ASSUME NEW A
      PROVE  Cardinality(Hits(S, A)) = Cardinality(Hits(E, A))
  <2> DEFINE H == Hits(E, A)
  <2>1. H \in SUBSET D
    BY <1>1, HitsAreFinite
  <2>2. /\ Cardinality(Hits(Kept(E, I), A)) = Cardinality(I \cap H)
        /\ Cardinality(Hits(Kept(E, R), A)) = Cardinality(R \cap H)
    <3> HIDE DEF H
    <3>1. \A J \in SUBSET D : Cardinality(Hits(Kept(E, J), A)) = Cardinality(J \cap H)
      BY <1>1, HitsKept DEF H
    <3>. QED
      BY <1>2, <3>1
  <2>3. Cardinality(I \cap H) + Cardinality(R \cap H) = Cardinality(H)
    <3> HIDE DEF H, D
    <3>1. Cardinality(I \cap H) + Cardinality((D \ I) \cap H) = Cardinality(H)
      BY <1>2, <1>6, <2>1, HitsSplit
    <3>. QED
      BY <1>2, <3>1
  <2>4. Cardinality(Hits(S, A)) = Cardinality(Hits(Kept(E, I), A)) + Cardinality(Hits(Kept(E, R), A))
    BY <1>3, <1>5, HitsJoined
  <2> HIDE DEF H
  <2>. QED
    BY <2>2, <2>3, <2>4 DEF H
<1>8. Cardinality(I) + Cardinality(R) = Len(E)
  <2> HIDE DEF D
  <2>1. Cardinality(I \cap D) + Cardinality((D \ I) \cap D) = Cardinality(D)
    BY <1>2, <1>6, HitsSplit
  <2>2. I \cap D = I /\ (D \ I) \cap D = R
    BY <1>2
  <2>. QED
    BY <1>6, <2>1, <2>2
<1>9. S \in Seq(X) /\ Len(S) = Len(E)
  BY <1>3, <1>5, <1>8, JoinedTwice
<1>10. Len(Kept(E, I)) = Cardinality(Hits(E, A0))
  BY <1>1, <1>4, FilterCounts
<1>. QED
  BY <1>1, <1>3, <1>5, <1>7, <1>9, <1>10 DEF X, E, S

-----------------------------------------------------------------------------
(* The sections of the page.                                               *)
Sectioning == INSTANCE FoldFacts WITH Op <- PlaceInSection

SectionsOf(N) == {[hasUser |-> b, items |-> s] : b \in BOOLEAN, s \in NonEmpty(N)}

ItemsIn(N) == [section \in SectionsOf(N) |-> section.items]

Grown(section, item) == [hasUser |-> section.hasUser, items |-> Append(section.items, item)]

LEMMA SectionFacts ==
  ASSUME NEW N, NEW section \in SectionsOf(N), NEW item \in N
  PROVE  /\ section.items \in NonEmpty(N) /\ section.items \in Seq(N) /\ section.hasUser \in BOOLEAN
         /\ ItemsIn(N)[section] = section.items
         /\ section = [hasUser |-> section.hasUser, items |-> section.items]
         /\ Grown(section, item) \in SectionsOf(N) /\ NewSection(item) \in SectionsOf(N)
         /\ ItemsIn(N)[NewSection(item)] = <<item>>
         /\ ItemsIn(N)[Grown(section, item)] = Append(section.items, item)
<1> DEFINE b == section.hasUser
           s == section.items
           more == Append(s, item)
           one == <<item>>
           asked == item.kind = "real_user_input"
<1>1. section = [hasUser |-> b, items |-> s] /\ b \in BOOLEAN /\ s \in NonEmpty(N)
  BY DEF SectionsOf
<1>2. s \in Seq(N)
  BY <1>1 DEF NonEmpty
<1> HIDE DEF b, s
<1>3. more \in Seq(N) /\ more # <<>>
  BY <1>2, AppendFacts
<1>4. one \in Seq(N) /\ Len(one) = 1
  BY OneElement
<1>5. one # <<>>
  BY <1>4
<1> HIDE DEF more, one
<1>6. more \in NonEmpty(N) /\ one \in NonEmpty(N)
  BY <1>3, <1>4, <1>5 DEF NonEmpty
<1>7. asked \in BOOLEAN
  OBVIOUS
<1> HIDE DEF asked
<1>8. [hasUser |-> b, items |-> more] \in SectionsOf(N) /\ [hasUser |-> asked, items |-> one] \in SectionsOf(N)
  BY <1>1, <1>6, <1>7 DEF SectionsOf
<1>9. Grown(section, item) = [hasUser |-> b, items |-> more]
  BY DEF Grown, b, s, more
<1>10. NewSection(item) = [hasUser |-> asked, items |-> one]
  BY DEF NewSection, asked, one
<1>11. ItemsIn(N)[section] = s
  BY DEF ItemsIn, s
<1>12. ItemsIn(N)[Grown(section, item)] = more /\ ItemsIn(N)[NewSection(item)] = one
  BY <1>8, <1>9, <1>10 DEF ItemsIn
<1>. QED
  BY <1>1, <1>2, <1>8, <1>9, <1>10, <1>11, <1>12 DEF b, s, more, one

LEMMA PlaceIs ==
  ASSUME NEW N, NEW sections \in Seq(SectionsOf(N)), NEW item \in N
  PROVE  /\ item.kind = "real_user_input" \/ sections = <<>> =>
              PlaceInSection(sections, item) = Append(sections, NewSection(item))
         /\ item.kind # "real_user_input" /\ sections # <<>> =>
              PlaceInSection(sections, item) = Replaced(sections, Grown(sections[Len(sections)], item))
<1> DEFINE n == Len(sections)
           last == sections[n]
<1>1. item.kind = "real_user_input" \/ sections = <<>> =>
        PlaceInSection(sections, item) = Append(sections, NewSection(item))
  BY DEF PlaceInSection
<1>2. ASSUME item.kind # "real_user_input", sections # <<>>
      PROVE  PlaceInSection(sections, item) = Replaced(sections, Grown(last, item))
  <2>1. n \in DOMAIN sections /\ last \in SectionsOf(N)
    BY <1>2
  <2>2. last = [hasUser |-> last.hasUser, items |-> last.items]
    BY <2>1, SectionFacts
  <2> DEFINE items == Append(last.items, item)
  <2>3. PlaceInSection(sections, item) = [sections EXCEPT ![n].items = items]
    BY <1>2, <2>1 DEF PlaceInSection
  <2> HIDE DEF items, n, last
  <2>4. PlaceInSection(sections, item) = [sections EXCEPT ![n] = [hasUser |-> last.hasUser, items |-> items]]
    BY <2>1, <2>2, <2>3 DEF last
  <2>. QED
    BY <2>4 DEF Replaced, Grown, items, n
<1>. QED
  BY <1>1, <1>2

(* What the loop over the narrative keeps true of the sections.            *)
UpTo(narrative, k) == [i \in 1..k |-> narrative[i]]

SectionHolds(section, i, narrative, k) ==
  /\ section.hasUser \/ i = 1
  /\ \A n \in DOMAIN section.items :
       /\ section.items[n].kind = "real_user_input" <=> n = 1 /\ section.hasUser
       /\ \E m \in 1..k : section.items[n] = narrative[m]

Sectioned(sections, N, narrative, k) ==
  /\ sections \in Seq(SectionsOf(N)) /\ Spread(ItemsIn(N), sections) = UpTo(narrative, k)
  /\ \A i \in DOMAIN sections : SectionHolds(sections[i], i, narrative, k)
  /\ \A i, j \in DOMAIN sections : sections[i].items[1].id = sections[j].items[1].id => i = j

(* A narrative of which no two messages have one id.                       *)
Narration(narrative, N, n) ==
  /\ n \in Nat /\ DOMAIN narrative = 1..n /\ narrative = [i \in 1..n |-> narrative[i]]
  /\ \A i \in 1..n : narrative[i] \in N
  /\ \A i, j \in 1..n : narrative[i].id = narrative[j].id => i = j

LEMMA OneFurther ==
  ASSUME NEW narrative, NEW N, NEW n, Narration(narrative, N, n), NEW k \in 1..n
  PROVE  /\ UpTo(narrative, k) = Append(UpTo(narrative, k - 1), narrative[k])
         /\ 1..(k - 1) \subseteq 1..k /\ k \in 1..k /\ 1..k \subseteq 1..n
         /\ \A m \in 1..(k - 1) : narrative[m].id # narrative[k].id
<1> DEFINE s == UpTo(narrative, k - 1)
           t == UpTo(narrative, k)
           x == narrative[k]
           u == Append(s, x)
<1>1. n \in Nat /\ k \in Nat /\ k - 1 \in Nat /\ 1..k \subseteq 1..n /\ 1..(k - 1) \subseteq 1..k /\ k \in 1..k
  BY DEF Narration
<1>2. \A i \in 1..n : narrative[i] \in N
  BY DEF Narration
<1>3. /\ s \in Seq(N) /\ Len(s) = k - 1 /\ DOMAIN t = 1..k /\ t = [i \in 1..k |-> t[i]]
      /\ \A i \in 1..k : t[i] = narrative[i]
      /\ \A i \in 1..(k - 1) : s[i] = narrative[i]
  <2>1. \A i \in 1..(k - 1) : narrative[i] \in N
    BY <1>1, <1>2
  <2>2. s = [i \in 1..(k - 1) |-> narrative[i]] /\ t = [i \in 1..k |-> narrative[i]]
    BY DEF UpTo
  <2>3. s \in [1..(k - 1) -> N]
    BY <2>1, <2>2
  <2>4. \A i \in 1..(k - 1) : s[i] = narrative[i]
    BY <2>2
  <2>5. DOMAIN t = 1..k /\ t = [i \in 1..k |-> t[i]] /\ \A i \in 1..k : t[i] = narrative[i]
    BY <2>2
  <2> HIDE DEF s, t
  <2>. QED
    BY <1>1, <2>3, <2>4, <2>5
<1>4. x \in N
  BY <1>1, <1>2
<1> HIDE DEF s, t, x
<1>5. /\ u \in Seq(N) /\ Len(u) = k /\ u[k] = x /\ \A i \in 1..(k - 1) : u[i] = s[i]
  BY <1>1, <1>3, <1>4, AppendFacts
<1> HIDE DEF u
<1>6. u = [i \in 1..k |-> u[i]]
  BY <1>5
<1>7. \A i \in 1..k : i = k \/ i \in 1..(k - 1)
  BY <1>1
<1>8. \A i \in 1..k : u[i] = t[i]
  BY <1>1, <1>3, <1>5, <1>7 DEF x
<1>9. u = t
  BY <1>3, <1>6, <1>8
<1>10. \A m \in 1..(k - 1) : narrative[m].id # narrative[k].id
  BY <1>1 DEF Narration
<1>. QED
  BY <1>1, <1>9, <1>10 DEF u, t, s, x

LEMMA SectionStep ==
  ASSUME NEW narrative, NEW N, NEW n, Narration(narrative, N, n), NEW k \in 1..n,
         NEW sections, Sectioned(sections, N, narrative, k - 1)
  PROVE  Sectioned(PlaceInSection(sections, narrative[k]), N, narrative, k)
<1> DEFINE X == SectionsOf(N)
           item == narrative[k]
           after == PlaceInSection(sections, item)
           l == Len(sections)
           f == ItemsIn(N)
<1>1. /\ sections \in Seq(X) /\ Spread(f, sections) = UpTo(narrative, k - 1)
      /\ \A i \in DOMAIN sections : SectionHolds(sections[i], i, narrative, k - 1)
      /\ \A i, j \in DOMAIN sections : sections[i].items[1].id = sections[j].items[1].id => i = j
  BY DEF Sectioned
<1>2. /\ UpTo(narrative, k) = Append(UpTo(narrative, k - 1), item)
      /\ 1..(k - 1) \subseteq 1..k /\ k \in 1..k
      /\ \A m \in 1..(k - 1) : narrative[m].id # item.id
  BY OneFurther
<1>3. item \in N
  BY DEF Narration
<1>4. ListsOver(f, X, N)
  <2>1. \A section \in SectionsOf(N) : section.items \in Seq(N)
    BY <1>3, SectionFacts
  <2>. QED
    BY <2>1 DEF ItemsIn, ListsOver
<1> HIDE DEF X, f, item
<1>5. DOMAIN sections = 1..l /\ l \in Nat
  BY <1>1
<1>6. ASSUME NEW i \in DOMAIN sections
      PROVE  /\ SectionHolds(sections[i], i, narrative, k) /\ sections[i].items[1].id # item.id
             /\ sections[i] \in X /\ 1 \in DOMAIN sections[i].items
  <2>1. SectionHolds(sections[i], i, narrative, k)
    BY <1>1, <1>2 DEF SectionHolds
  <2>2. sections[i] \in X
    BY <1>1
  <2>3. sections[i].items \in NonEmpty(N)
    BY <1>3, <2>2, SectionFacts DEF X
  <2>4. 1 \in DOMAIN sections[i].items
    BY <2>3 DEF NonEmpty
  <2>5. sections[i].items[1].id # item.id
    BY <1>1, <1>2, <2>4 DEF SectionHolds
  <2>. QED
    BY <2>1, <2>2, <2>4, <2>5
<1>7. CASE item.kind = "real_user_input" \/ sections = <<>>
  <2> DEFINE new == NewSection(item)
  <2>1. after = Append(sections, new)
    BY <1>1, <1>3, <1>7, PlaceIs DEF X
  <2>2. new \in X /\ f[new] = <<item>>
    <3>1. NewSection(item) \in SectionsOf(N) /\ ItemsIn(N)[NewSection(item)] = <<item>>
      <4> DEFINE s == <<item>>
                 b == item.kind = "real_user_input"
                 one == [hasUser |-> b, items |-> s]
      <4>1. s \in Seq(N) /\ Len(s) = 1
        BY <1>3, OneElement
      <4>0. b \in BOOLEAN
        OBVIOUS
      <4> HIDE DEF s, b
      <4>2. s \in NonEmpty(N)
        BY <4>1 DEF NonEmpty
      <4>3. one \in SectionsOf(N)
        BY <4>0, <4>2 DEF SectionsOf
      <4> HIDE DEF one
      <4>. QED
        BY <1>3, <4>3, SectionFacts
    <3>. QED
      BY <3>1 DEF X, f
  <2>3. new.hasUser = (item.kind = "real_user_input") /\ new.items = <<item>>
    BY DEF NewSection
  <2>4. SectionHolds(new, l + 1, narrative, k) /\ new.items[1].id = item.id
    <3>1. DOMAIN new.items = 1..1 /\ new.items[1] = item
      BY <2>3
    <3>2. item.kind # "real_user_input" => l + 1 = 1
      BY <1>7
    <3>3. \E m \in 1..k : item = narrative[m]
      BY <1>2 DEF item
    <3>4. \A i \in DOMAIN new.items : i = 1
      BY <3>1
    <3> HIDE DEF new
    <3>5. new.hasUser \/ l + 1 = 1
      BY <2>3, <3>2
    <3>6. \A i \in DOMAIN new.items :
            /\ new.items[i].kind = "real_user_input" <=> i = 1 /\ new.hasUser
            /\ \E m \in 1..k : new.items[i] = narrative[m]
      BY <2>3, <3>1, <3>3, <3>4
    <3>. QED
      BY <3>1, <3>5, <3>6 DEF SectionHolds
  <2> HIDE DEF new, after
  <2>5. /\ after \in Seq(X) /\ DOMAIN after = 1..(l + 1) /\ after[l + 1] = new
        /\ \A i \in 1..l : after[i] = sections[i]
    BY <1>1, <2>1, <2>2, AppendFacts
  <2>6. Spread(f, after) = UpTo(narrative, k)
    BY <1>1, <1>2, <1>3, <1>4, <2>1, <2>2, SpreadGrows
  <2>7. \A i \in 1..(l + 1) : i = l + 1 \/ i \in 1..l
    BY <1>5
  <2>8. \A i \in DOMAIN after : SectionHolds(after[i], i, narrative, k)
    BY <1>5, <1>6, <2>4, <2>5, <2>7
  <2>9. \A i, j \in DOMAIN after : after[i].items[1].id = after[j].items[1].id => i = j
    BY <1>1, <1>5, <1>6, <2>4, <2>5, <2>7
  <2>. QED
    BY <2>5, <2>6, <2>8, <2>9 DEF Sectioned, X, f, after, item
<1>8. CASE item.kind # "real_user_input" /\ sections # <<>>
  <2> DEFINE last == sections[l]
             new == Grown(last, item)
  <2>0. sections \in NonEmpty(X) /\ l \in DOMAIN sections
    BY <1>1, <1>8 DEF NonEmpty
  <2>1. after = Replaced(sections, new)
    BY <1>1, <1>3, <1>8, PlaceIs DEF X
  <2>2. /\ last \in X /\ new \in X /\ f[new] = Append(f[last], item) /\ f[last] = last.items
        /\ last.items \in Seq(N) /\ 1 \in DOMAIN last.items
    <3>1. last \in SectionsOf(N) /\ 1 \in DOMAIN last.items
      BY <1>6, <2>0 DEF X
    <3> HIDE DEF last
    <3>2. /\ last.items \in Seq(N) /\ ItemsIn(N)[last] = last.items
          /\ Grown(last, item) \in SectionsOf(N)
          /\ ItemsIn(N)[Grown(last, item)] = Append(last.items, item)
      BY <1>3, <3>1, SectionFacts
    <3>. QED
      BY <3>1, <3>2 DEF X, f
  <2>3. new.hasUser = last.hasUser /\ new.items = Append(last.items, item)
    BY DEF Grown
  <2>4. SectionHolds(last, l, narrative, k)
    BY <1>6, <2>0
  <2> HIDE DEF last, new, after
  <2>5. SectionHolds(new, l, narrative, k) /\ new.items[1] = last.items[1]
    <3> DEFINE s == last.items
               t == new.items
               b == Len(s)
    <3>1. /\ DOMAIN t = 1..(b + 1) /\ DOMAIN s = 1..b /\ b \in Nat /\ t[b + 1] = item
          /\ \A i \in 1..b : t[i] = s[i]
      <4>1. s \in Seq(N)
        BY <2>2
      <4> HIDE DEF s
      <4>. QED
        BY <1>3, <2>3, <4>1, AppendFacts DEF s
    <3>2. 1 \in 1..b /\ b + 1 # 1 /\ \A i \in 1..(b + 1) : i = b + 1 \/ i \in 1..b
      BY <2>2, <3>1
    <3>3. \A m \in DOMAIN s : /\ s[m].kind = "real_user_input" <=> m = 1 /\ last.hasUser
                              /\ \E q \in 1..k : s[m] = narrative[q]
      BY <2>4 DEF SectionHolds
    <3>4. last.hasUser \/ l = 1
      BY <2>4 DEF SectionHolds
    <3> HIDE DEF s, t, b
    <3>5. \A m \in DOMAIN t : /\ t[m].kind = "real_user_input" <=> m = 1 /\ last.hasUser
                              /\ \E q \in 1..k : t[m] = narrative[q]
      BY <1>2, <1>8, <3>1, <3>2, <3>3 DEF item
    <3>. QED
      BY <2>3, <3>1, <3>2, <3>4, <3>5 DEF SectionHolds, s, t
  <2>6. /\ after \in Seq(X) /\ DOMAIN after = 1..l /\ after[l] = new
        /\ \A i \in 1..l : i # l => after[i] = sections[i]
    <3>1. \A x \in X : /\ Replaced(sections, x) \in Seq(X) /\ Len(Replaced(sections, x)) = l
                       /\ Replaced(sections, x)[l] = x
                       /\ \A i \in 1..l : i # l => Replaced(sections, x)[i] = sections[i]
      BY <2>0, ReplacedFacts
    <3>2. after \in Seq(X) /\ Len(after) = l
      BY <2>1, <2>2, <3>1
    <3>. QED
      BY <2>1, <2>2, <3>1, <3>2
  <2>7. Spread(f, after) = UpTo(narrative, k)
    <3>1. f[new] = Append(f[sections[Len(sections)]], item)
      BY <2>2 DEF last
    <3>2. Spread(f, Replaced(sections, new)) = Append(Spread(f, sections), item)
      BY <1>1, <1>3, <1>4, <1>8, <2>2, <3>1, SpreadGrows
    <3>. QED
      BY <1>1, <1>2, <2>1, <3>2
  <2>8. \A i \in DOMAIN after : SectionHolds(after[i], i, narrative, k)
    BY <1>5, <1>6, <2>5, <2>6
  <2>9. \A i \in 1..l : after[i].items[1].id = sections[i].items[1].id
    BY <2>5, <2>6 DEF last
  <2>10. \A i, j \in DOMAIN after : after[i].items[1].id = after[j].items[1].id => i = j
    BY <1>1, <1>5, <2>6, <2>9
  <2>. QED
    BY <2>6, <2>7, <2>8, <2>10 DEF Sectioned, X, f, after, item
<1>. QED
  BY <1>7, <1>8

SectionsFrom(start, narrative) == Sectioning!Folded(start, narrative)

(* Sections hold the narrative in order.                                   *)
LEMMA SectionsFacts ==
  ASSUME NEW narrative, NEW N, NEW n, Narration(narrative, N, n)
  PROVE  Sectioned(TurnSections(narrative), N, narrative, n)
<1>1. n \in Nat /\ DOMAIN narrative = 1..n
  BY DEF Narration
<1>2. TurnSections(narrative) = SectionsFrom(<<>>, narrative)
  BY DEF TurnSections, SectionsFrom, FoldLeft, MapThenFoldSet, Max, Sectioning!Folded, Sectioning!MaxOf
<1>3. PICK P : Sectioning!Rounds(P, <<>>, narrative, n) /\ SectionsFrom(<<>>, narrative) = P[n]
  BY <1>1, Sectioning!FoldIsRounds DEF SectionsFrom
<1> DEFINE T == {k \in 0..n : Sectioned(P[k], N, narrative, k)}
<1>4. 0 \in T
  <2>1. P[0] = <<>>
    BY <1>3 DEF Sectioning!Rounds
  <2>2. UpTo(narrative, 0) = <<>>
    BY DEF UpTo
  <2>3. Spread(ItemsIn(N), <<>>) = <<>>
    <3>1. Mapped(ItemsIn(N), <<>>) = <<>>
      BY DEF Mapped
    <3>. QED
      BY <3>1, FlattenNothing DEF Spread
  <2>4. <<>> \in Seq(SectionsOf(N))
    OBVIOUS
  <2>5. Sectioned(<<>>, N, narrative, 0)
    BY <2>2, <2>3, <2>4 DEF Sectioned
  <2>. QED
    BY <1>1, <2>1, <2>5
<1>5. ASSUME NEW k \in 1..n, k - 1 \in T
      PROVE  k \in T
  <2>1. Sectioned(P[k - 1], N, narrative, k - 1) /\ P[k] = PlaceInSection(P[k - 1], narrative[k])
    BY <1>3, <1>5 DEF Sectioning!Rounds
  <2>2. Sectioned(P[k], N, narrative, k)
    BY <2>1, SectionStep
  <2>. QED
    BY <1>1, <2>2
<1> HIDE DEF T
<1>6. \A k \in 0..n : k \in T
  BY <1>1, <1>4, <1>5, LoopInduction
<1>7. n \in T
  BY <1>1, <1>6
<1>. QED
  BY <1>2, <1>3, <1>7 DEF T

-----------------------------------------------------------------------------
(* The view model, piece by piece.                                         *)
ThePlan == Plan(doc.latest)

TheRuns == ToolRunsOf(doc.latest, ThePlan)

TheNarrative == [i \in DOMAIN ThePlan.narrative |-> NarrativeViewItem(doc.latest, ThePlan.narrative[i])]

ViewLists(view) ==
  /\ view.mainNarrative = TheNarrative /\ view.sections = SectionViews(TheNarrative)
  /\ view.navSections = [i \in DOMAIN view.sections |-> NavSection(view.sections[i])]
  /\ view.sideItems = SideItems(ThePlan) /\ view.debugItems = DebugItems(ThePlan, TheRuns)
  /\ view.toolRuns = TheRuns /\ view.fileSummaries = FileSummaries(doc.latest)
  /\ view.provenance = Provenance(VisibleMessages(doc.latest), ThePlan, TheRuns)

ViewCounts(view) ==
  /\ view.meta.narrativeCount = Len(TheNarrative)
  /\ view.meta.sectionCount = Len(view.sections)
  /\ view.meta.fileCount = Cardinality(NamedFiles(doc.latest))
  /\ view.rawDebug.injectedUserMessageCount = Len(InjectedOf(ThePlan))
  /\ view.rawDebug.sideEventCount = Len(ThePlan.sideEvents)
  /\ view.rawDebug.totalRawItems = Len(RawLog(log))

LEMMA ViewIs ==
  ASSUME NEW view, view = View
  PROVE  ViewLists(view) /\ ViewCounts(view)
<1> DEFINE plan == ThePlan
           runs == TheRuns
           narrative == TheNarrative
           entries == RawLog(log)
           visible == VisibleMessages(doc.latest)
<1>1. view = ViewModelOf(doc.latest, entries, visible, plan, runs, narrative)
  BY DEF View, ReaderViewModel, ViewModelOfPlan, ThePlan, TheRuns, TheNarrative
<1> HIDE DEF plan, runs, narrative, entries, visible
<1>2. /\ view.mainNarrative = narrative /\ view.sections = SectionViews(narrative)
      /\ view.navSections = [i \in DOMAIN SectionViews(narrative) |-> NavSection(SectionViews(narrative)[i])]
      /\ view.sideItems = SideItems(plan) /\ view.debugItems = DebugItems(plan, runs)
      /\ view.toolRuns = runs /\ view.fileSummaries = FileSummaries(doc.latest)
      /\ view.provenance = Provenance(visible, plan, runs)
  BY <1>1 DEF ViewModelOf
<1>3. /\ view.meta.narrativeCount = Len(narrative)
      /\ view.meta.sectionCount = Len(SectionViews(narrative))
      /\ view.meta.fileCount = Cardinality(NamedFiles(doc.latest))
      /\ view.rawDebug.injectedUserMessageCount = Len(InjectedOf(plan))
      /\ view.rawDebug.sideEventCount = Len(plan.sideEvents)
      /\ view.rawDebug.totalRawItems = Len(entries)
  BY <1>1 DEF ViewModelOf
<1>. QED
  BY <1>2, <1>3 DEF ViewLists, ViewCounts, plan, runs, narrative, entries, visible

(* The narrative of the page is that of the plan.                          *)
LEMMA NarrativeFacts ==
  ASSUME AllInv, ~Corrupt(doc), NEW V, NEW c, Visible(V, c), Planned(ThePlan, V, c, c)
  PROVE  LET n == Len(ThePlan.narrative)
         IN  /\ n \in Nat /\ DOMAIN ThePlan.narrative = 1..n
             /\ Narration(TheNarrative, {TheNarrative[i] : i \in 1..n}, n)
             /\ \A i \in 1..n : TheNarrative[i] = NarrativeViewItem(doc.latest, ThePlan.narrative[i])
             /\ \A i \in 1..n : TheNarrative[i].id = ThePlan.narrative[i].id
<1> DEFINE t == ThePlan.narrative
           n == Len(t)
           N == {TheNarrative[i] : i \in 1..n}
           X == Listable(V, c)
<1>1. t \in Seq(X) /\ \A i, j \in DOMAIN t : t[i].id = t[j].id => i = j
  BY DEF Planned, ToldUpTo
<1>2. TheNarrative = [i \in DOMAIN t |-> NarrativeViewItem(doc.latest, t[i])]
  BY DEF TheNarrative
<1> HIDE DEF t, X
<1>3. n \in Nat /\ DOMAIN t = 1..n
  BY <1>1
<1>4. \A i \in 1..n : TheNarrative[i] = NarrativeViewItem(doc.latest, t[i])
  BY <1>2, <1>3
<1>5. \A item : NarrativeViewItem(doc.latest, item).id = item.id
  BY DEF NarrativeViewItem
<1>6. \A i \in 1..n : TheNarrative[i].id = t[i].id
  BY <1>4, <1>5
<1>7. \A i \in 1..n : TheNarrative[i] \in N
  OBVIOUS
<1>8. DOMAIN TheNarrative = 1..n /\ TheNarrative = [i \in 1..n |-> TheNarrative[i]]
  BY <1>2, <1>3
<1> HIDE DEF N
<1>9. \A i, j \in 1..n : TheNarrative[i].id = TheNarrative[j].id => i = j
  BY <1>1, <1>3, <1>6
<1>10. Narration(TheNarrative, N, n)
  BY <1>3, <1>7, <1>8, <1>9 DEF Narration
<1>. QED
  BY <1>3, <1>4, <1>6, <1>10 DEF N, t

(* A section of the view is a section of the narrative.                    *)
LEMMA SectionViewIs ==
  ASSUME NEW narrative, NEW N, NEW n, Narration(narrative, N, n)
  PROVE  LET turns == TurnSections(narrative)
             views == SectionViews(narrative)
         IN  /\ \E l \in Nat : DOMAIN turns = 1..l /\ DOMAIN views = 1..l /\ views = [i \in 1..l |-> views[i]]
             /\ \A i \in DOMAIN views : /\ views[i].items = turns[i].items
                                        /\ views[i].hasUser = turns[i].hasUser
                                        /\ views[i].id = <<"turn", Slug(turns[i].items[1].id)>>
             /\ FlattenSeq([i \in DOMAIN views |-> views[i].items]) = narrative
<1> DEFINE turns == TurnSections(narrative)
           views == SectionViews(narrative)
           l == Len(turns)
           items == [i \in DOMAIN views |-> views[i].items]
<1>1. Sectioned(turns, N, narrative, n)
  BY SectionsFacts
<1>2. views = [i \in DOMAIN turns |-> SectionView(turns[i])]
  BY DEF SectionViews
<1> HIDE DEF turns, views
<1>3. turns \in Seq(SectionsOf(N)) /\ Spread(ItemsIn(N), turns) = UpTo(narrative, n)
  BY <1>1 DEF Sectioned
<1>4. l \in Nat /\ DOMAIN turns = 1..l /\ \A i \in 1..l : turns[i] \in SectionsOf(N)
  BY <1>3
<1>5. \A section : /\ SectionView(section).items = section.items
                   /\ SectionView(section).hasUser = section.hasUser
                   /\ SectionView(section).id = <<"turn", Slug(section.items[1].id)>>
  BY DEF SectionView
<1> HIDE DEF l
<1>6. DOMAIN views = 1..l /\ views = [i \in 1..l |-> views[i]]
  BY <1>2, <1>4
<1>7. \A i \in DOMAIN views : /\ views[i].items = turns[i].items /\ views[i].hasUser = turns[i].hasUser
                              /\ views[i].id = <<"turn", Slug(turns[i].items[1].id)>>
  BY <1>2, <1>4, <1>5, <1>6
<1>8. UpTo(narrative, n) = narrative
  BY DEF UpTo, Narration
<1>9. items = Mapped(ItemsIn(N), turns)
  <2>1. \A i \in 1..l : ItemsIn(N)[turns[i]] = turns[i].items
    BY <1>4 DEF ItemsIn
  <2>2. items = [i \in 1..l |-> turns[i].items]
    BY <1>6, <1>7
  <2>3. Mapped(ItemsIn(N), turns) = [i \in 1..l |-> ItemsIn(N)[turns[i]]]
    BY <1>4 DEF Mapped
  <2>. QED
    BY <2>1, <2>2, <2>3
<1> HIDE DEF items
<1>10. FlattenSeq(items) = narrative
  BY <1>3, <1>8, <1>9 DEF Spread
<1>. QED
  BY <1>4, <1>6, <1>7, <1>10 DEF turns, views, items

LEMMA RunsFacts ==
  ASSUME AllInv
  PROVE  \E q \in Nat : TheRuns = [i \in 1..q |-> TheRuns[i]] /\ DOMAIN TheRuns = 1..q /\ Len(TheRuns) = q
<1> DEFINE D == {key \in DOMAIN doc.latest["part"] : IsToolPart(CurrentOf(doc.latest, "part", key))}
           keys == Listed(D, AddedBefore(doc.latest, "part"))
           q == Cardinality(D)
<1>1. "part" \in Types
  BY DEF Types, ObjectTypes
<1>2. IsFiniteSet(D)
  BY <1>1, FiniteKeys, FS_Subset
<1>3. q \in Nat
  BY <1>2, FS_CardinalityType
<1>4. DOMAIN keys = 1..q
  BY DEF Listed
<1>5. TheRuns = [i \in DOMAIN keys |-> ToolRun(doc.latest, ThePlan, keys[i])]
  BY DEF TheRuns, ToolRunsOf
<1> HIDE DEF keys, q
<1>6. TheRuns = [i \in 1..q |-> TheRuns[i]] /\ DOMAIN TheRuns = 1..q
  BY <1>4, <1>5
<1>7. Len(TheRuns) = q
  BY <1>3, <1>6
<1>. QED
  BY <1>3, <1>6, <1>7

-----------------------------------------------------------------------------
(* The numbers in the panels.                                              *)
LEMMA CountsAre ==
  ASSUME NEW view, NEW normalized
  PROVE  LET counts == ReaderCounts(view, normalized)
         IN  /\ counts.narrative = view.meta.narrativeCount /\ counts.sections = view.meta.sectionCount
             /\ counts.injected = view.rawDebug.injectedUserMessageCount
             /\ counts.sideEvents = IF view.sideItems # <<>> THEN Len(SideEvents(view))
                                    ELSE view.rawDebug.sideEventCount
             /\ counts.toolRuns = Len(view.toolRuns) /\ counts.files = Cardinality(view.fileSummaries)
             /\ counts.rawItems = view.rawDebug.totalRawItems
BY DEF ReaderCounts

LEMMA ListIn ==
  ASSUME NEW s, NEW n \in Nat, s = [i \in 1..n |-> s[i]], NEW Y, \A i \in 1..n : s[i] \in Y
  PROVE  s \in Seq(Y) /\ Len(s) = n /\ DOMAIN s = 1..n
OBVIOUS

(* Messages of the share, and raw items.                                   *)
LEMMA DataCounts ==
  ASSUME AllInv, ~Corrupt(doc)
  PROVE  /\ Len(Data.messages) = Cardinality(DOMAIN doc.latest["message"])
         /\ Len(Data.rawIndex.all) = Len(RawLog(log))
<1> DEFINE D == DOMAIN doc.latest["message"]
           m == SortMessages(doc.normalized)
           n == Cardinality(D)
           events == EventsOf(log)
           I == {i \in DOMAIN log : log[i].arrayOffset = 0}
           l == Cardinality(I)
           all == [i \in DOMAIN events |-> events[i].rawItemIndex]
           entries == RawLog(log)
<1>1. "message" \in Types /\ "message" \in ObjectTypes
  BY DEF Types, ObjectTypes
<1>2. DOMAIN doc.normalized["message"] = D /\ IsFiniteSet(D)
  BY <1>1, FirstSeenFacts, FiniteKeys
<1>3. n \in Nat
  BY <1>2, FS_CardinalityType
<1>4. m = [i \in 1..n |-> m[i]]
  BY <1>2 DEF SortMessages, Listed
<1> HIDE DEF m, n
<1>5. Len(m) = n
  BY <1>3, <1>4
<1>6. Len(log) \in Nat /\ DOMAIN log = 1..Len(log)
  BY DEF AllInv, IInv, LogInv
<1>7. I \in SUBSET (1..Len(log))
  BY <1>6
<1>8. events = Kept(log, I)
  BY DEF EventsOf
<1> HIDE DEF I, events
<1>9. l \in Nat /\ DOMAIN events = 1..l
  BY <1>6, <1>7, <1>8, KeptFacts
<1>10. all = [i \in 1..l |-> all[i]] /\ entries = [i \in 1..l |-> entries[i]]
  BY <1>9 DEF RawLog, events
<1> HIDE DEF l, all, entries
<1>11. Len(all) = l /\ Len(entries) = l
  BY <1>9, <1>10
<1>12. Data.messages = m /\ Data.rawIndex.all = all
  <2> HIDE DEF D
  <2>1. Data.messages = m /\ Data.rawIndex = RawIndex(events, doc.warnings)
    BY DEF Data, NormalizedShareData, m, events
  <2>2. RawIndex(events, doc.warnings).all = all
    BY DEF RawIndex, all
  <2>. QED
    BY <2>1, <2>2
<1>. QED
  BY <1>5, <1>11, <1>12 DEF n, D, entries

(* What the list of tools adds up to.                                      *)
LEMMA ToolsAddUp ==
  ASSUME NEW runs, NEW q \in Nat, DOMAIN runs = 1..q, Len(runs) = q
  PROVE  SumFunction(SummarizeTools(runs)) = Len(runs)
<1> DEFINE toolOf(i) == Or(StringField(runs[i].part, "tool"), "unknown")
           D == 1..q
           of == [i \in D |-> toolOf(i)]
           fun == SummarizeTools(runs)
           S == {of[i] : i \in D}
<1>1. IsFiniteSet(D) /\ Cardinality(D) = q
  BY FS_Interval, SMT
<1>2. fun = [tool \in {toolOf(i) : i \in D} |-> Cardinality({i \in D : toolOf(i) = tool})]
  BY DEF SummarizeTools
<1>3. \A i \in D : of[i] = toolOf(i)
  OBVIOUS
<1> HIDE DEF of, toolOf, fun, D
<1>4. {toolOf(i) : i \in D} = S /\ \A x : {i \in D : toolOf(i) = x} = {i \in D : of[i] = x}
  BY <1>3
<1>5. DOMAIN fun = S /\ \A x \in S : fun[x] = Cardinality({i \in D : of[i] = x})
  BY <1>2, <1>4
<1> HIDE DEF S
<1>6. Summed(fun, S) = Cardinality(D)
  <2>1. S = {of[i] : i \in D}
    BY DEF S
  <2>. QED
    BY <1>1, <1>5, <2>1, PartsAddUp
<1>7. SumFunction(fun) = Summed(fun, S)
  BY <1>5, SumFunctionIs
<1>. QED
  BY <1>1, <1>6, <1>7 DEF fun

(* The items of the raw view that stand for injected messages.             *)
LEMMA InjectedInDebug ==
  ASSUME NEW plan, NEW runs, NEW a \in Nat, NEW b \in Nat, NEW q \in Nat,
         DOMAIN InjectedOf(plan) = 1..a, DOMAIN plan.sideEvents = 1..b, DOMAIN runs = 1..q,
         NEW view, view.debugItems = DebugItems(plan, runs)
  PROVE  Len(InjectedMessages(view)) = a
<1> DEFINE inj == InjectedOf(plan)
           E == plan.sideEvents
           one == [i \in DOMAIN inj |-> DebugItem("injected", inj[i].id, inj[i])]
           two == [i \in DOMAIN E |-> DebugItem("side", E[i].id, E[i])]
           three == [i \in DOMAIN runs |-> DebugItem("tool", runs[i].callID, runs[i])]
           s == DebugItems(plan, runs)
           Y == {one[i] : i \in 1..a} \cup {two[i] : i \in 1..b} \cup {three[i] : i \in 1..q}
           A == {y \in Y : y.injected}
           I == {i \in DOMAIN s : s[i].injected}
<1>1. s = one \o two \o three
  BY DEF DebugItems
<1>2. /\ \A i \in 1..a : one[i].injected = TRUE
      /\ \A i \in 1..b : two[i].injected = FALSE
      /\ \A i \in 1..q : three[i].injected = FALSE
  BY DEF DebugItem
<1>3. one = [i \in 1..a |-> one[i]] /\ two = [i \in 1..b |-> two[i]] /\ three = [i \in 1..q |-> three[i]]
  OBVIOUS
<1>4. InjectedMessages(view) = Kept(s, I)
  BY DEF InjectedMessages, Filter
<1> HIDE DEF inj, E, one, two, three, s
<1>5. (\A i \in 1..a : one[i] \in Y) /\ (\A i \in 1..b : two[i] \in Y) /\ (\A i \in 1..q : three[i] \in Y)
  OBVIOUS
<1> HIDE DEF Y
<1>6. /\ one \in Seq(Y) /\ Len(one) = a /\ DOMAIN one = 1..a
      /\ two \in Seq(Y) /\ DOMAIN two = 1..b
      /\ three \in Seq(Y) /\ DOMAIN three = 1..q
  BY <1>3, <1>5, ListIn
<1>7. /\ \A i \in DOMAIN one : one[i] \in A
      /\ \A i \in DOMAIN two : two[i] \notin A
      /\ \A i \in DOMAIN three : three[i] \notin A
  BY <1>2, <1>5, <1>6
<1> HIDE DEF A
<1>8. /\ Cardinality(Hits(one, A)) = a /\ Cardinality(Hits(two, A)) = 0
      /\ Cardinality(Hits(three, A)) = 0
  BY <1>6, <1>7, HitsOfAll
<1>9. one \o two \in Seq(Y) /\ s \in Seq(Y)
  BY <1>1, <1>6, JoinedTwice
<1>10. Cardinality(Hits(one \o two, A)) = Cardinality(Hits(one, A)) + Cardinality(Hits(two, A))
  BY <1>6, HitsJoined
<1>11. Cardinality(Hits(s, A)) = Cardinality(Hits(one \o two, A)) + Cardinality(Hits(three, A))
  BY <1>1, <1>6, <1>9, HitsJoined
<1>12. Cardinality(Hits(s, A)) = a
  BY <1>8, <1>10, <1>11
<1>13. \A i \in DOMAIN s : s[i] \in Y
  BY <1>9
<1>14. I = {i \in DOMAIN s : s[i] \in A}
  BY <1>13 DEF A
<1> HIDE DEF I
<1>15. Len(Kept(s, I)) = Cardinality(Hits(s, A))
  BY <1>9, <1>14, FilterCounts
<1>. QED
  BY <1>4, <1>12, <1>15

AsideItems(view) == Kept(view.sideItems, {i \in DOMAIN view.sideItems : view.sideItems[i].part = Absent})

(* The side items split into the injected messages and the other events,   *)
(* and those that stand for a message of the share are the ones set aside. *)
LEMMA SideItemsCounted ==
  ASSUME AllInv, ~Corrupt(doc), NEW V, NEW c, Visible(V, c), NEW plan, Planned(plan, V, c, c),
         NEW view, view.sideItems = SideItems(plan)
  PROVE  /\ Len(InjectedItems(view)) = Len(InjectedOf(plan))
         /\ Len(SideEvents(view)) + Len(InjectedOf(plan)) = Len(view.sideItems)
         /\ Len(view.sideItems) = Len(plan.sideEvents) /\ Len(plan.sideEvents) \in Nat
         /\ Len(InjectedOf(plan)) \in Nat /\ Len(InjectedOf(plan)) <= Len(plan.sideEvents)
         /\ Len(AsideItems(view)) = Cardinality(Hits(plan.sideEvents, OfMessage(V, c)))
<1> DEFINE X == Listable(V, c)
           E == plan.sideEvents
           S == SideItems(plan)
           J == InjectedOf(plan)
           A == InjectedOnes(X)
           M == OfMessage(V, c)
           D == 1..Len(S)
           I == {i \in DOMAIN S : S[i].kind = "injected_message"}
           R == {i \in DOMAIN S : S[i].kind # "injected_message"}
           T == {i \in DOMAIN S : S[i].part = Absent}
<1>1. /\ S \in Seq(X) /\ Len(S) = Len(E) /\ Len(E) \in Nat
      /\ \A B : Cardinality(Hits(S, B)) = Cardinality(Hits(E, B))
      /\ J \in Seq(X) /\ Len(J) = Cardinality(Hits(E, A))
  BY SideItemsFacts
<1>2. /\ InjectedItems(view) = Kept(S, I) /\ SideEvents(view) = Kept(S, R)
      /\ AsideItems(view) = Kept(S, T)
  BY DEF InjectedItems, SideEvents, AsideItems, Filter
<1>3. A = {x \in X : x.kind = "injected_message"} /\ M = {x \in X : x.part = Absent}
  BY DEF InjectedOnes, OfMessage
<1> HIDE DEF X, E, S, J, A, M
<1>4. \A i \in DOMAIN S : S[i] \in X
  BY <1>1
<1>5. I = {i \in DOMAIN S : S[i] \in A} /\ T = {i \in DOMAIN S : S[i] \in M}
  BY <1>3, <1>4
<1>0. DOMAIN S = 1..Len(S) /\ Len(S) \in Nat
  BY <1>1
<1>15. I \in SUBSET D /\ R = D \ I /\ R \in SUBSET D
  BY <1>0
<1> HIDE DEF I, R, T
<1>6. Len(Kept(S, I)) = Cardinality(Hits(S, A)) /\ Len(Kept(S, T)) = Cardinality(Hits(S, M))
  BY <1>1, <1>5, FilterCounts
<1>7. Len(Kept(S, R)) = Cardinality(R) /\ Len(Kept(S, I)) = Cardinality(I) /\ Cardinality(I) \in Nat
      /\ Cardinality(R) \in Nat
  <2>1. S \in Seq(X)
    BY <1>1
  <2>. QED
    BY <1>15, <2>1, HitsKept
<1>8. IsFiniteSet(D) /\ Cardinality(D) = Len(S)
  <2> DEFINE l == Len(S)
  <2>1. l \in Nat
    BY <1>0
  <2> HIDE DEF l
  <2>2. IsFiniteSet(1..l) /\ Cardinality(1..l) = l
    BY <2>1, FS_Interval, SMT
  <2>. QED
    BY <2>2 DEF l
<1>9. Cardinality(I) + Cardinality(R) = Len(S)
  <2> HIDE DEF D
  <2>1. Cardinality(I \cap D) + Cardinality((D \ I) \cap D) = Cardinality(D)
    BY <1>8, <1>15, HitsSplit
  <2>2. I \cap D = I /\ (D \ I) \cap D = R
    BY <1>15
  <2>. QED
    BY <1>8, <2>1, <2>2
<1>10. Cardinality(Hits(S, A)) = Cardinality(Hits(E, A)) /\ Cardinality(Hits(S, M)) = Cardinality(Hits(E, M))
  BY <1>1
<1>11. view.sideItems = S
  BY DEF S
<1> HIDE DEF D
<1>12. Len(J) = Cardinality(I)
  BY <1>1, <1>6, <1>7, <1>10
<1>13. Len(J) <= Len(E) /\ Len(J) \in Nat
  BY <1>1, <1>7, <1>9, <1>12
<1>14. Len(InjectedItems(view)) = Len(J) /\ Len(SideEvents(view)) + Len(J) = Len(S)
  BY <1>2, <1>6, <1>7, <1>9, <1>12
<1>. QED
  BY <1>1, <1>2, <1>6, <1>10, <1>11, <1>13, <1>14 DEF E, J, M

LEMMA CountsFollow == AllInv => CountsMatchLists
<1> SUFFICES ASSUME AllInv, ~Corrupt(doc), NEW view \in {View}, NEW normalized \in {Data}
             PROVE  CountsMatch(view, ReaderCounts(view, normalized), normalized)
  BY DEF CountsMatchLists
<1> DEFINE V == VisibleMessages(doc.latest)
           plan == ThePlan
           counts == ReaderCounts(view, normalized)
           n == Len(plan.narrative)
           b == Len(plan.sideEvents)
           a == Len(InjectedOf(plan))
           shown == FlattenSeq([i \in DOMAIN view.sections |-> view.sections[i].items])
           set_aside == Filter(view.sideItems, LAMBDA item : item.part = Absent)
<1>0. set_aside = AsideItems(view)
  BY DEF AsideItems, Filter
<1>1. PICK c \in Nat : Visible(V, c)
  BY VisibleFacts
<1>2. Planned(plan, V, c, c)
  BY <1>1, PlanFacts DEF ThePlan
<1>3. ViewLists(view) /\ ViewCounts(view)
  BY ViewIs
<1>4. /\ counts.narrative = view.meta.narrativeCount /\ counts.sections = view.meta.sectionCount
      /\ counts.injected = view.rawDebug.injectedUserMessageCount
      /\ counts.sideEvents = IF view.sideItems # <<>> THEN Len(SideEvents(view))
                             ELSE view.rawDebug.sideEventCount
      /\ counts.toolRuns = Len(view.toolRuns) /\ counts.files = Cardinality(view.fileSummaries)
      /\ counts.rawItems = view.rawDebug.totalRawItems
  BY CountsAre
<1>5. /\ n \in Nat
      /\ Narration(TheNarrative, {TheNarrative[i] : i \in 1..n}, n)
  <2> HIDE DEF V
  <2>. QED
    BY <1>1, <1>2, NarrativeFacts
<1>6. shown = TheNarrative /\ Len(TheNarrative) = n
  <2>1. FlattenSeq([i \in DOMAIN SectionViews(TheNarrative) |-> SectionViews(TheNarrative)[i].items])
          = TheNarrative
    BY <1>5, SectionViewIs
  <2>2. view.sections = SectionViews(TheNarrative)
    BY <1>3 DEF ViewLists
  <2> HIDE DEF n
  <2>3. n \in Nat /\ TheNarrative = [i \in 1..n |-> TheNarrative[i]]
    BY <1>5 DEF Narration
  <2>4. Len(TheNarrative) = n
    BY <2>3
  <2>. QED
    BY <2>1, <2>2, <2>4
<1>7. counts.narrative = Len(shown) /\ counts.sections = Len(view.sections)
  BY <1>3, <1>4, <1>6 DEF ViewCounts
<1>8. counts.files = view.meta.fileCount
  BY <1>3, <1>4, FilesCounted DEF ViewCounts, ViewLists
<1>9. view.sideItems = SideItems(plan) /\ view.debugItems = DebugItems(plan, TheRuns) /\ view.toolRuns = TheRuns
  BY <1>3 DEF ViewLists
<1>10. counts.injected = a /\ view.rawDebug.sideEventCount = b
  BY <1>3, <1>4 DEF ViewCounts
<1>11. PICK q \in Nat : DOMAIN TheRuns = 1..q /\ Len(TheRuns) = q
  BY RunsFacts
<1> HIDE DEF V, plan, counts, shown, set_aside
<1>12. /\ Len(InjectedItems(view)) = a
       /\ Len(SideEvents(view)) + a = Len(view.sideItems)
       /\ Len(view.sideItems) = b /\ b \in Nat /\ a \in Nat /\ a <= b
       /\ Len(AsideItems(view)) = Cardinality(Hits(plan.sideEvents, OfMessage(V, c)))
  BY <1>1, <1>2, <1>9, SideItemsCounted
<1>13. DOMAIN InjectedOf(plan) = 1..a /\ DOMAIN plan.sideEvents = 1..b
  <2> DEFINE X == Listable(V, c)
  <2>1. InjectedOf(plan) \in Seq(X) /\ plan.sideEvents \in Seq(X)
    BY <1>1, <1>2, SideItemsFacts DEF Planned
  <2> HIDE DEF X
  <2>. QED
    BY <2>1
<1>14. Len(InjectedMessages(view)) = a
  <2> HIDE DEF a, b
  <2>. QED
    BY <1>9, <1>11, <1>12, <1>13, InjectedInDebug
<1> HIDE DEF a, b
<1>15. counts.sideEvents + counts.injected = Len(view.sideItems)
  <2>1. CASE view.sideItems # <<>>
    BY <1>4, <1>10, <1>12, <2>1 DEF counts
  <2>2. CASE view.sideItems = <<>>
    <3>1. b = 0 /\ a = 0
      BY <1>12, <2>2
    <3>2. counts.sideEvents = b
      BY <1>4, <1>10, <2>2 DEF counts
    <3>. QED
      BY <1>10, <1>12, <3>1, <3>2
  <2>. QED
    BY <2>1, <2>2
<1>16. counts.narrative + Len(set_aside) = Len(normalized.messages)
  <2>1. n + Cardinality(Hits(plan.sideEvents, OfMessage(V, c))) = c
    BY <1>2 DEF Planned, Placed
  <2>2. Len(normalized.messages) = Cardinality(DOMAIN doc.latest["message"])
    BY DataCounts
  <2>3. c = Cardinality(DOMAIN doc.latest["message"])
    BY <1>1 DEF Visible
  <2>4. counts.narrative = n
    BY <1>6, <1>7
  <2>. QED
    BY <1>0, <1>12, <2>1, <2>2, <2>3, <2>4
<1>17. SumFunction(SummarizeTools(view.toolRuns)) = counts.toolRuns
  BY <1>4, <1>9, <1>11, ToolsAddUp DEF counts
<1>18. counts.rawItems = Len(normalized.rawIndex.all)
  BY <1>3, <1>4, DataCounts DEF ViewCounts, counts
<1>. QED
  BY <1>7, <1>8, <1>10, <1>12, <1>14, <1>15, <1>16, <1>17, <1>18 DEF CountsMatch, counts, shown, set_aside

(* The panels count what the page lists, whatever the events: each message *)
(* of the share is narrated or set aside, once.                            *)
THEOREM CountsAlwaysMatch == Spec => []CountsMatchLists
BY CountsFollow, AllInvariance, PTL

-----------------------------------------------------------------------------
(* The render items of a message.                                          *)
Rendering == INSTANCE FoldFacts WITH Op <- AddRenderItem

RenderItemsOver(P, Q) ==
  {[type |-> t, parts |-> p, sourceIndexes |-> s] :
     t \in {"single", "tool-group"}, p \in NonEmpty(P), s \in Seq(Q)}

PartsIn(P, Q) == [item \in RenderItemsOver(P, Q) |-> item.parts]

Shows(at, P, Q) == at.part \in P /\ at.sources \in Seq(Q)

LEMMA RenderItemFacts ==
  ASSUME NEW P, NEW Q, NEW item \in RenderItemsOver(P, Q)
  PROVE  /\ item.parts \in NonEmpty(P) /\ item.parts \in Seq(P) /\ 1 \in DOMAIN item.parts
         /\ item.type \in {"single", "tool-group"} /\ item.sourceIndexes \in Seq(Q)
         /\ item = [type |-> item.type, parts |-> item.parts, sourceIndexes |-> item.sourceIndexes]
         /\ PartsIn(P, Q)[item] = item.parts
<1>1. /\ item.parts \in NonEmpty(P) /\ item.type \in {"single", "tool-group"}
      /\ item.sourceIndexes \in Seq(Q)
      /\ item = [type |-> item.type, parts |-> item.parts, sourceIndexes |-> item.sourceIndexes]
  BY DEF RenderItemsOver
<1>2. item.parts \in Seq(P) /\ 1 \in DOMAIN item.parts
  BY <1>1 DEF NonEmpty
<1>3. PartsIn(P, Q)[item] = item.parts
  BY DEF PartsIn
<1>. QED
  BY <1>1, <1>2, <1>3

LEMMA NewItemFacts ==
  ASSUME NEW P, NEW Q, NEW at, Shows(at, P, Q)
  PROVE  /\ Single(at) \in RenderItemsOver(P, Q) /\ PartsIn(P, Q)[Single(at)] = <<at.part>>
         /\ Group(at) \in RenderItemsOver(P, Q) /\ PartsIn(P, Q)[Group(at)] = <<at.part>>
         /\ Single(at).type = "single" /\ Single(at).parts = <<at.part>>
         /\ Group(at).type = "tool-group" /\ Group(at).parts = <<at.part>>
<1> DEFINE one == <<at.part>>
           s == at.sources
<1>1. one \in Seq(P) /\ Len(one) = 1 /\ s \in Seq(Q)
  BY OneElement DEF Shows
<1>2. one # <<>>
  BY <1>1
<1>3. /\ Single(at) = [type |-> "single", parts |-> one, sourceIndexes |-> s]
      /\ Group(at) = [type |-> "tool-group", parts |-> one, sourceIndexes |-> s]
  BY DEF Single, Group
<1> HIDE DEF one, s
<1>4. one \in NonEmpty(P)
  BY <1>1, <1>2 DEF NonEmpty
<1>5. Single(at) \in RenderItemsOver(P, Q) /\ Group(at) \in RenderItemsOver(P, Q)
  BY <1>1, <1>3, <1>4 DEF RenderItemsOver
<1>6. /\ Single(at).type = "single" /\ Single(at).parts = one
      /\ Group(at).type = "tool-group" /\ Group(at).parts = one
  BY <1>3
<1>. QED
  BY <1>5, <1>6, RenderItemFacts DEF one

LEMMA WithPartFacts ==
  ASSUME NEW P, NEW Q, NEW item \in RenderItemsOver(P, Q), NEW at, Shows(at, P, Q)
  PROVE  /\ WithPart(item, at) \in RenderItemsOver(P, Q) /\ WithPart(item, at).type = item.type
         /\ WithPart(item, at).parts = Append(item.parts, at.part)
         /\ PartsIn(P, Q)[WithPart(item, at)] = Append(item.parts, at.part)
<1> DEFINE p == Append(item.parts, at.part)
           s == item.sourceIndexes \o at.sources
           t == item.type
<1>1. /\ item.parts \in Seq(P) /\ t \in {"single", "tool-group"} /\ item.sourceIndexes \in Seq(Q)
      /\ at.part \in P /\ at.sources \in Seq(Q)
  BY RenderItemFacts DEF Shows
<1>2. p \in Seq(P) /\ p # <<>>
  BY <1>1, AppendFacts
<1>3. s \in Seq(Q)
  BY <1>1, JoinedTwice
<1>4. WithPart(item, at) = [type |-> t, parts |-> p, sourceIndexes |-> s]
  BY DEF WithPart
<1> HIDE DEF p, s, t
<1>5. p \in NonEmpty(P)
  BY <1>2 DEF NonEmpty
<1>6. WithPart(item, at) \in RenderItemsOver(P, Q)
  BY <1>1, <1>3, <1>4, <1>5 DEF RenderItemsOver
<1>7. WithPart(item, at).type = t /\ WithPart(item, at).parts = p
  BY <1>4
<1>. QED
  BY <1>6, <1>7, RenderItemFacts DEF p, t

(* The three ways a part joins the items.                                  *)
LEMMA AddIs ==
  ASSUME NEW P, NEW Q, NEW items \in Seq(RenderItemsOver(P, Q)), NEW at, Shows(at, P, Q)
  PROVE  /\ ~IsToolPart(at.part) => AddRenderItem(items, at) = Append(items, Single(at))
         /\ IsToolPart(at.part) /\ (items = <<>> \/ items[Len(items)].type # "tool-group") =>
              AddRenderItem(items, at) = Append(items, Group(at))
         /\ IsToolPart(at.part) /\ items # <<>> /\ items[Len(items)].type = "tool-group" =>
              AddRenderItem(items, at) = Replaced(items, WithPart(items[Len(items)], at))
<1> DEFINE n == Len(items)
           last == items[n]
<1>1. /\ ~IsToolPart(at.part) => AddRenderItem(items, at) = Append(items, Single(at))
      /\ IsToolPart(at.part) /\ (items = <<>> \/ items[n].type # "tool-group") =>
           AddRenderItem(items, at) = Append(items, Group(at))
  BY DEF AddRenderItem
<1>2. IsToolPart(at.part) /\ items # <<>> /\ last.type = "tool-group" =>
        AddRenderItem(items, at) = Replaced(items, WithPart(last, at))
  BY DEF AddRenderItem, Replaced
<1>. QED
  BY <1>1, <1>2

-----------------------------------------------------------------------------
(* What the loop over the parts keeps true of the items.                   *)
PartList(ats, P, Q, n) ==
  /\ n \in Nat /\ DOMAIN ats = 1..n /\ \A i \in 1..n : Shows(ats[i], P, Q)
  /\ \A i, j \in 1..n : Get(ats[i].part, "id") = Get(ats[j].part, "id") => i = j

FirstParts(ats, k) == [i \in 1..k |-> ats[i].part]

ItemHolds(item, ats, k) ==
  \A n \in DOMAIN item.parts :
    /\ IsToolPart(item.parts[n]) <=> item.type = "tool-group"
    /\ \E m \in 1..k : item.parts[n] = ats[m].part

Holding(items, part) == \E i \in DOMAIN items : \E n \in DOMAIN items[i].parts : items[i].parts[n] = part

Apart(items) == \A i \in DOMAIN items \ {1} : "single" \in {items[i - 1].type, items[i].type}

Rendered(items, P, Q, ats, k) ==
  /\ items \in Seq(RenderItemsOver(P, Q)) /\ Spread(PartsIn(P, Q), items) = FirstParts(ats, k)
  /\ \A i \in DOMAIN items : ItemHolds(items[i], ats, k)
  /\ Apart(items)
  /\ \A m \in 1..k : Holding(items, ats[m].part)
  /\ \A i, j \in DOMAIN items : Get(items[i].parts[1], "id") = Get(items[j].parts[1], "id") => i = j

LEMMA NextPart ==
  ASSUME NEW ats, NEW P, NEW Q, NEW n, PartList(ats, P, Q, n), NEW k \in 1..n
  PROVE  /\ FirstParts(ats, k) = Append(FirstParts(ats, k - 1), ats[k].part)
         /\ 1..(k - 1) \subseteq 1..k /\ k \in 1..k /\ k \in 1..n
         /\ \A i \in 1..k : i \in 1..(k - 1) \/ i = k
         /\ \A m \in 1..(k - 1) : Get(ats[m].part, "id") # Get(ats[k].part, "id")
<1> DEFINE s == FirstParts(ats, k - 1)
           t == FirstParts(ats, k)
           x == ats[k].part
           u == Append(s, x)
<1>1. n \in Nat /\ k \in Nat /\ k - 1 \in Nat /\ 1..k \subseteq 1..n /\ 1..(k - 1) \subseteq 1..k /\ k \in 1..k
  BY DEF PartList
<1>2. \A i \in 1..n : ats[i].part \in P
  BY DEF PartList, Shows
<1>3. /\ s \in Seq(P) /\ Len(s) = k - 1 /\ t = [i \in 1..k |-> t[i]]
      /\ \A i \in 1..k : t[i] = ats[i].part
      /\ \A i \in 1..(k - 1) : s[i] = ats[i].part
  <2>1. \A i \in 1..(k - 1) : ats[i].part \in P
    BY <1>1, <1>2
  <2>2. s = [i \in 1..(k - 1) |-> ats[i].part] /\ t = [i \in 1..k |-> ats[i].part]
    BY DEF FirstParts
  <2>3. s \in [1..(k - 1) -> P]
    BY <2>1, <2>2
  <2>4. \A i \in 1..(k - 1) : s[i] = ats[i].part
    BY <2>2
  <2>5. t = [i \in 1..k |-> t[i]] /\ \A i \in 1..k : t[i] = ats[i].part
    BY <2>2
  <2> HIDE DEF s, t
  <2>. QED
    BY <1>1, <2>3, <2>4, <2>5
<1>4. x \in P
  BY <1>1, <1>2
<1> HIDE DEF s, t, x
<1>5. u \in Seq(P) /\ Len(u) = k /\ u[k] = x /\ \A i \in 1..(k - 1) : u[i] = s[i]
  <2>1. /\ u \in Seq(P) /\ Len(u) = Len(s) + 1 /\ u[Len(s) + 1] = x
        /\ \A i \in 1..Len(s) : u[i] = s[i]
    BY <1>3, <1>4, AppendFacts
  <2>. QED
    BY <1>1, <1>3, <2>1
<1> HIDE DEF u
<1>6. u = [i \in 1..k |-> u[i]]
  BY <1>5
<1>7. \A i \in 1..k : i = k \/ i \in 1..(k - 1)
  BY <1>1
<1>8. \A i \in 1..k : u[i] = t[i]
  BY <1>1, <1>3, <1>5, <1>7 DEF x
<1>9. u = t
  BY <1>3, <1>6, <1>8
<1>10. \A m \in 1..(k - 1) : Get(ats[m].part, "id") # Get(ats[k].part, "id")
  BY <1>1 DEF PartList
<1>. QED
  BY <1>1, <1>7, <1>9, <1>10 DEF u, t, s, x

(* The first part of an item so far is none that comes next.               *)
LEMMA ItemsSoFar ==
  ASSUME NEW ats, NEW P, NEW Q, NEW n, PartList(ats, P, Q, n), NEW k \in 1..n,
         NEW items, Rendered(items, P, Q, ats, k - 1), NEW i \in DOMAIN items
  PROVE  /\ ItemHolds(items[i], ats, k) /\ items[i] \in RenderItemsOver(P, Q)
         /\ 1 \in DOMAIN items[i].parts
         /\ Get(items[i].parts[1], "id") # Get(ats[k].part, "id")
<1> DEFINE X == RenderItemsOver(P, Q)
<1>1. /\ 1..(k - 1) \subseteq 1..k
      /\ \A m \in 1..(k - 1) : Get(ats[m].part, "id") # Get(ats[k].part, "id")
  BY NextPart
<1>2. items \in Seq(X) /\ ItemHolds(items[i], ats, k - 1)
  BY DEF Rendered
<1>3. ItemHolds(items[i], ats, k)
  BY <1>1, <1>2 DEF ItemHolds
<1> HIDE DEF X
<1>4. items[i] \in X
  BY <1>2
<1>5. 1 \in DOMAIN items[i].parts
  BY <1>4, RenderItemFacts DEF X
<1>6. Get(items[i].parts[1], "id") # Get(ats[k].part, "id")
  BY <1>1, <1>2, <1>5 DEF ItemHolds
<1>. QED
  BY <1>3, <1>4, <1>5, <1>6 DEF X

(* An item that holds the next part alone is added.                        *)
LEMMA ItemAdded ==
  ASSUME NEW ats, NEW P, NEW Q, NEW n, PartList(ats, P, Q, n), NEW k \in 1..n,
         NEW items, Rendered(items, P, Q, ats, k - 1),
         NEW new \in RenderItemsOver(P, Q), new.parts = <<ats[k].part>>,
         IsToolPart(ats[k].part) <=> new.type = "tool-group",
         items = <<>> \/ "single" \in {items[Len(items)].type, new.type}
  PROVE  Rendered(Append(items, new), P, Q, ats, k)
<1> DEFINE X == RenderItemsOver(P, Q)
           f == PartsIn(P, Q)
           part == ats[k].part
           after == Append(items, new)
           l == Len(items)
<1>1. /\ items \in Seq(X) /\ Spread(f, items) = FirstParts(ats, k - 1)
      /\ Apart(items)
      /\ \A m \in 1..(k - 1) : Holding(items, ats[m].part)
      /\ \A i, j \in DOMAIN items : Get(items[i].parts[1], "id") = Get(items[j].parts[1], "id") => i = j
  BY DEF Rendered
<1>2. /\ FirstParts(ats, k) = Append(FirstParts(ats, k - 1), part) /\ k \in 1..k
      /\ \A i \in 1..k : i \in 1..(k - 1) \/ i = k
  BY NextPart
<1>3. part \in P /\ new \in X
  BY DEF PartList, Shows
<1>4. ListsOver(f, X, P)
  <2>1. \A item \in RenderItemsOver(P, Q) : item.parts \in Seq(P)
    BY RenderItemFacts
  <2>. QED
    BY <2>1 DEF PartsIn, ListsOver
<1>5. f[new] = <<part>>
  BY RenderItemFacts
<1>6. \A i \in DOMAIN items : /\ ItemHolds(items[i], ats, k)
                              /\ Get(items[i].parts[1], "id") # Get(part, "id")
  BY ItemsSoFar
<1>7. DOMAIN new.parts = 1..1 /\ new.parts[1] = part
  OBVIOUS
<1>8. ItemHolds(new, ats, k)
  <2>1. \A i \in DOMAIN new.parts : i = 1
    BY <1>7
  <2>. QED
    BY <1>2, <1>7, <2>1 DEF ItemHolds
<1> HIDE DEF X, f, part, after
<1>9. /\ after \in Seq(X) /\ DOMAIN after = 1..(l + 1) /\ DOMAIN items = 1..l /\ l \in Nat
      /\ after[l + 1] = new /\ \A i \in 1..l : after[i] = items[i]
  BY <1>1, <1>3, AppendFacts DEF after
<1>10. Spread(f, after) = FirstParts(ats, k)
  BY <1>1, <1>2, <1>3, <1>4, <1>5, SpreadGrows DEF after
<1>11. /\ \A i \in 1..(l + 1) : i = l + 1 \/ i \in 1..l
       /\ \A i \in 1..l : i \in 1..(l + 1)
       /\ l + 1 \in 1..(l + 1)
       /\ \A i \in 1..(l + 1) : i # 1 => i - 1 \in 1..l
       /\ l # 0 => l \in 1..l
  BY <1>9
<1>12. \A i \in DOMAIN after : ItemHolds(after[i], ats, k)
  BY <1>6, <1>8, <1>9, <1>11
<1>13. Apart(after)
  <2>1. SUFFICES ASSUME NEW i \in DOMAIN after \ {1}
                 PROVE  "single" \in {after[i - 1].type, after[i].type}
    BY DEF Apart
  <2>2. i - 1 \in 1..l /\ after[i - 1] = items[i - 1]
    BY <1>9, <1>11
  <2>3. CASE i = l + 1
    <3>1. i - 1 = l /\ items # <<>> /\ after[i] = new
      BY <1>9, <2>1, <2>2, <2>3
    <3>. QED
      BY <2>2, <3>1
  <2>4. CASE i \in 1..l
    <3>1. after[i] = items[i] /\ i \in DOMAIN items \ {1}
      BY <1>9, <2>1, <2>4
    <3>. QED
      BY <1>1, <2>2, <3>1 DEF Apart
  <2>. QED
    BY <1>9, <1>11, <2>3, <2>4
<1>14. \A m \in 1..k : Holding(after, ats[m].part)
  <2>1. ASSUME NEW m \in 1..(k - 1) PROVE Holding(after, ats[m].part)
    <3>1. PICK i \in DOMAIN items : \E q \in DOMAIN items[i].parts : items[i].parts[q] = ats[m].part
      BY <1>1 DEF Holding
    <3>2. i \in DOMAIN after /\ after[i] = items[i]
      BY <1>9, <1>11
    <3>. QED
      BY <3>1, <3>2 DEF Holding
  <2>2. Holding(after, ats[k].part)
    <3>1. l + 1 \in DOMAIN after /\ 1 \in DOMAIN after[l + 1].parts /\ after[l + 1].parts[1] = ats[k].part
      BY <1>7, <1>9, <1>11 DEF part
    <3>. QED
      BY <3>1 DEF Holding
  <2>. QED
    BY <1>2, <2>1, <2>2
<1>15. \A i, j \in DOMAIN after : Get(after[i].parts[1], "id") = Get(after[j].parts[1], "id") => i = j
  BY <1>1, <1>6, <1>7, <1>9, <1>11
<1>. QED
  BY <1>9, <1>10, <1>12, <1>13, <1>14, <1>15 DEF Rendered, X, f, after

(* The last item, a group of tools, takes the next part.                   *)
LEMMA ItemGrown ==
  ASSUME NEW ats, NEW P, NEW Q, NEW n, PartList(ats, P, Q, n), NEW k \in 1..n,
         NEW items, Rendered(items, P, Q, ats, k - 1), items # <<>>,
         items[Len(items)].type = "tool-group", IsToolPart(ats[k].part)
  PROVE  Rendered(Replaced(items, WithPart(items[Len(items)], ats[k])), P, Q, ats, k)
<1> DEFINE X == RenderItemsOver(P, Q)
           f == PartsIn(P, Q)
           part == ats[k].part
           l == Len(items)
           last == items[l]
           new == WithPart(last, ats[k])
           after == Replaced(items, new)
<1>1. /\ items \in Seq(X) /\ Spread(f, items) = FirstParts(ats, k - 1)
      /\ Apart(items)
      /\ \A m \in 1..(k - 1) : Holding(items, ats[m].part)
      /\ \A i, j \in DOMAIN items : Get(items[i].parts[1], "id") = Get(items[j].parts[1], "id") => i = j
  BY DEF Rendered
<1>2. /\ FirstParts(ats, k) = Append(FirstParts(ats, k - 1), part) /\ k \in 1..k
      /\ \A i \in 1..k : i \in 1..(k - 1) \/ i = k
  BY NextPart
<1>3. part \in P /\ Shows(ats[k], P, Q)
  BY DEF PartList, Shows
<1>4. ListsOver(f, X, P)
  <2>1. \A item \in RenderItemsOver(P, Q) : item.parts \in Seq(P)
    BY RenderItemFacts
  <2>. QED
    BY <2>1 DEF PartsIn, ListsOver
<1>5. \A i \in DOMAIN items : ItemHolds(items[i], ats, k)
  BY ItemsSoFar
<1> HIDE DEF X, last, new, after, f, part
<1>6. DOMAIN items = 1..l /\ l \in Nat /\ l \in DOMAIN items
  BY <1>1
<1>7. last \in X
  BY <1>1, <1>6 DEF last
<1>8. /\ new \in X /\ new.type = last.type /\ new.parts = Append(last.parts, part)
      /\ f[new] = Append(f[last], part) /\ last.parts \in Seq(P) /\ 1 \in DOMAIN last.parts
  <2>1. last \in RenderItemsOver(P, Q) /\ Shows(ats[k], P, Q)
    BY <1>3, <1>7 DEF X
  <2>2. /\ new \in RenderItemsOver(P, Q) /\ new.type = last.type
        /\ new.parts = Append(last.parts, ats[k].part)
        /\ PartsIn(P, Q)[new] = Append(last.parts, ats[k].part)
    BY <2>1, WithPartFacts DEF new
  <2>3. last.parts \in Seq(P) /\ 1 \in DOMAIN last.parts /\ PartsIn(P, Q)[last] = last.parts
    BY <2>1, RenderItemFacts
  <2>. QED
    BY <2>2, <2>3 DEF X, f, part
<1>9. items \in NonEmpty(X)
  BY <1>1 DEF NonEmpty
<1>10. /\ after \in Seq(X) /\ DOMAIN after = 1..l /\ after[l] = new
       /\ \A i \in 1..l : i # l => after[i] = items[i]
  <2>1. \A x \in X : /\ Replaced(items, x) \in Seq(X) /\ Len(Replaced(items, x)) = l
                     /\ Replaced(items, x)[l] = x
                     /\ \A i \in 1..l : i # l => Replaced(items, x)[i] = items[i]
    BY <1>9, ReplacedFacts
  <2>2. after \in Seq(X) /\ Len(after) = l
    BY <1>8, <2>1 DEF after
  <2>. QED
    BY <1>8, <2>1, <2>2 DEF after
<1>11. Spread(f, after) = FirstParts(ats, k)
  <2>1. f[new] = Append(f[items[Len(items)]], part)
    BY <1>8 DEF last
  <2>2. Spread(f, Replaced(items, new)) = Append(Spread(f, items), part)
    BY <1>1, <1>3, <1>4, <1>8, <2>1, SpreadGrows
  <2>. QED
    BY <1>1, <1>2, <2>2 DEF after
<1>12. /\ new.parts[1] = last.parts[1] /\ ItemHolds(new, ats, k)
       /\ \A q \in DOMAIN last.parts : q \in DOMAIN new.parts /\ new.parts[q] = last.parts[q]
       /\ \E q \in DOMAIN new.parts : new.parts[q] = part
  <2> DEFINE s == last.parts
             t == new.parts
             b == Len(s)
  <2>1. /\ DOMAIN t = 1..(b + 1) /\ DOMAIN s = 1..b /\ b \in Nat /\ t[b + 1] = part
        /\ \A i \in 1..b : t[i] = s[i]
    <3>1. s \in Seq(P)
      BY <1>8
    <3> HIDE DEF s
    <3>. QED
      BY <1>3, <1>8, <3>1, AppendFacts DEF s
  <2>2. 1 \in 1..b /\ (\A i \in 1..b : i \in 1..(b + 1)) /\ b + 1 \in 1..(b + 1)
        /\ \A i \in 1..(b + 1) : i = b + 1 \/ i \in 1..b
    BY <1>8, <2>1
  <2>3. \A m \in DOMAIN s : /\ IsToolPart(s[m]) <=> last.type = "tool-group"
                            /\ \E q \in 1..k : s[m] = ats[q].part
    BY <1>5, <1>6 DEF ItemHolds, last
  <2>4. IsToolPart(part) /\ last.type = "tool-group" /\ \E q \in 1..k : part = ats[q].part
    BY <1>2 DEF part, last
  <2> HIDE DEF s, t, b
  <2>5. \A m \in DOMAIN t : /\ IsToolPart(t[m]) <=> last.type = "tool-group"
                            /\ \E q \in 1..k : t[m] = ats[q].part
    BY <2>1, <2>2, <2>3, <2>4
  <2>. QED
    BY <1>8, <2>1, <2>2, <2>5 DEF ItemHolds, s, t
<1>13. \A i \in DOMAIN after : ItemHolds(after[i], ats, k)
  BY <1>5, <1>6, <1>10, <1>12
<1>14. \A i \in 1..l : after[i].type = items[i].type /\ after[i].parts[1] = items[i].parts[1]
  BY <1>8, <1>10, <1>12 DEF last
<1>15. Apart(after)
  <2>1. SUFFICES ASSUME NEW i \in 1..l \ {1} PROVE "single" \in {after[i - 1].type, after[i].type}
    BY <1>10 DEF Apart
  <2>2. i - 1 \in 1..l
    BY <1>6
  <2>3. "single" \in {items[i - 1].type, items[i].type}
    BY <1>1, <1>6 DEF Apart
  <2>. QED
    BY <1>14, <2>2, <2>3
<1>16. \A m \in 1..k : Holding(after, ats[m].part)
  <2>1. ASSUME NEW m \in 1..(k - 1) PROVE Holding(after, ats[m].part)
    <3>1. PICK i \in DOMAIN items : \E q \in DOMAIN items[i].parts : items[i].parts[q] = ats[m].part
      BY <1>1 DEF Holding
    <3>2. i \in DOMAIN after /\ (i # l => after[i] = items[i]) /\ (i = l => after[i] = new /\ items[i] = last)
      BY <1>6, <1>10 DEF last
    <3>3. \E q \in DOMAIN after[i].parts : after[i].parts[q] = ats[m].part
      BY <1>12, <3>1, <3>2
    <3>. QED
      BY <3>2, <3>3 DEF Holding
  <2>2. Holding(after, part)
    BY <1>6, <1>10, <1>12 DEF Holding
  <2>. QED
    BY <1>2, <2>1, <2>2 DEF part
<1>17. \A i, j \in DOMAIN after : Get(after[i].parts[1], "id") = Get(after[j].parts[1], "id") => i = j
  BY <1>1, <1>6, <1>10, <1>14
<1>. QED
  BY <1>10, <1>11, <1>13, <1>15, <1>16, <1>17 DEF Rendered, X, f, after, new, last

LEMMA RenderStep ==
  ASSUME NEW ats, NEW P, NEW Q, NEW n, PartList(ats, P, Q, n), NEW k \in 1..n,
         NEW items, Rendered(items, P, Q, ats, k - 1)
  PROVE  Rendered(AddRenderItem(items, ats[k]), P, Q, ats, k)
<1> DEFINE at == ats[k]
           last == items[Len(items)]
<1>1. Shows(at, P, Q) /\ items \in Seq(RenderItemsOver(P, Q))
  BY DEF PartList, Rendered
<1>2. /\ Single(at) \in RenderItemsOver(P, Q) /\ Group(at) \in RenderItemsOver(P, Q)
      /\ Single(at).type = "single" /\ Single(at).parts = <<at.part>>
      /\ Group(at).type = "tool-group" /\ Group(at).parts = <<at.part>>
  BY <1>1, NewItemFacts
<1>3. CASE ~IsToolPart(at.part)
  <2>1. AddRenderItem(items, at) = Append(items, Single(at))
    BY <1>1, <1>3, AddIs
  <2>. QED
    BY <1>2, <1>3, <2>1, ItemAdded
<1>4. CASE IsToolPart(at.part) /\ (items = <<>> \/ last.type # "tool-group")
  <2>1. AddRenderItem(items, at) = Append(items, Group(at))
    BY <1>1, <1>4, AddIs
  <2>2. items # <<>> => last.type = "single"
    <3>1. ASSUME items # <<>> PROVE last \in RenderItemsOver(P, Q)
      <4> DEFINE X == RenderItemsOver(P, Q)
      <4>1. items \in Seq(X)
        BY <1>1
      <4> HIDE DEF X
      <4>2. last \in X
        BY <3>1, <4>1
      <4>. QED
        BY <4>2 DEF X
    <3>. QED
      BY <1>4, <3>1, RenderItemFacts
  <2>. QED
    BY <1>2, <1>4, <2>1, <2>2, ItemAdded
<1>5. CASE IsToolPart(at.part) /\ items # <<>> /\ last.type = "tool-group"
  <2>1. AddRenderItem(items, at) = Replaced(items, WithPart(last, at))
    BY <1>1, <1>5, AddIs
  <2>. QED
    BY <1>5, <2>1, ItemGrown
<1>. QED
  BY <1>3, <1>4, <1>5

RenderFrom(start, ats) == Rendering!Folded(start, ats)

(* The parts of a message on the page.                                     *)
LEMMA PartsListed ==
  ASSUME AllInv, NEW entry, PartsShown(entry)
  PROVE  \E d \in Nat : /\ PartList(PartsOfEntry(entry), {entry.parts[j] : j \in 1..d}, Positions, d)
                        /\ FirstParts(PartsOfEntry(entry), d) = entry.parts
                        /\ DOMAIN entry.parts = 1..d
                        /\ \A j \in 1..d : PartsOfEntry(entry)[j].part = entry.parts[j]
<1> DEFINE ats == PartsOfEntry(entry)
<1>1. PICK d \in Nat : entry.parts = [j \in 1..d |-> entry.parts[j]]
  BY DEF PartsShown
<1> DEFINE P == {entry.parts[j] : j \in 1..d}
<1>2. DOMAIN entry.parts = 1..d
  BY <1>1
<1>3. DOMAIN ats = 1..d /\ \A j \in 1..d : ats[j] = PartAt(entry, j)
  BY <1>2 DEF PartsOfEntry
<1>4. \A j \in 1..d : ats[j].part = entry.parts[j] /\ ats[j].sources = PartSourcesAt(entry, j)
  BY <1>3 DEF PartAt
<1>5. ASSUME NEW j \in 1..d PROVE PartSourcesAt(entry, j) \in Seq(Positions)
  <2>1. "part" \in Types
    BY DEF Types, ObjectTypes
  <2> DEFINE key == <<MessageID(entry), Get(entry.parts[j], "id")>>
             history == doc.latest["part"][key]
             s == Sources(doc.latest, "part", key)
  <2>2. key \in DOMAIN doc.latest["part"] /\ PartSourcesAt(entry, j) = s
    BY <1>2 DEF PartsShown, PartShown
  <2>3. history \in Seq(Versions)
    <3> HIDE DEF key
    <3>. QED
      BY <2>1, <2>2 DEF AllInv, IInv, EntriesInv
  <2> HIDE DEF history
  <2>4. s = [i \in DOMAIN history |-> history[i].sourceIndex]
    BY DEF Sources, history
  <2>5. \A i \in DOMAIN history : history[i].sourceIndex \in Positions
    <3>1. \A i \in DOMAIN history : history[i] \in Versions
      BY <2>3
    <3>2. \A x \in Versions : x.sourceIndex \in Positions
      BY DEF Versions
    <3>. QED
      BY <3>1, <3>2
  <2>6. s \in Seq(Positions)
    <3> HIDE DEF s
    <3>1. DOMAIN history = 1..Len(history) /\ Len(history) \in Nat
      BY <2>3
    <3>2. s \in [1..Len(history) -> Positions]
      BY <2>4, <2>5, <3>1
    <3>. QED
      BY <3>1, <3>2
  <2>. QED
    BY <2>2, <2>6
<1>6. \A j \in 1..d : Shows(ats[j], P, Positions)
  BY <1>4, <1>5 DEF Shows
<1>7. \A i, j \in 1..d : Get(ats[i].part, "id") = Get(ats[j].part, "id") => i = j
  BY <1>2, <1>4 DEF PartsShown
<1>8. FirstParts(ats, d) = entry.parts
  BY <1>1, <1>4 DEF FirstParts
<1> HIDE DEF ats, P
<1>9. PartList(ats, P, Positions, d)
  BY <1>3, <1>6, <1>7 DEF PartList
<1>. QED
  BY <1>2, <1>4, <1>8, <1>9 DEF ats, P

LEMMA RenderFacts ==
  ASSUME NEW entry, NEW P, NEW Q, NEW d, PartList(PartsOfEntry(entry), P, Q, d)
  PROVE  Rendered(RenderItems(entry), P, Q, PartsOfEntry(entry), d)
<1> DEFINE ats == PartsOfEntry(entry)
<1>0. RenderItems(entry) = RenderFrom(<<>>, ats)
  BY DEF RenderItems, RenderFrom, FoldLeft, MapThenFoldSet, Max, Rendering!Folded, Rendering!MaxOf
<1>1. PartList(ats, P, Q, d)
  OBVIOUS
<1> HIDE DEF ats
<1>2. d \in Nat /\ DOMAIN ats = 1..d
  BY <1>1 DEF PartList
<1>3. PICK R : Rendering!Rounds(R, <<>>, ats, d) /\ RenderFrom(<<>>, ats) = R[d]
  BY <1>2, Rendering!FoldIsRounds DEF RenderFrom
<1> DEFINE T == {k \in 0..d : Rendered(R[k], P, Q, ats, k)}
<1>4. 0 \in T
  <2>1. R[0] = <<>>
    BY <1>3 DEF Rendering!Rounds
  <2>2. FirstParts(ats, 0) = <<>>
    BY DEF FirstParts
  <2>3. Spread(PartsIn(P, Q), <<>>) = <<>>
    <3>1. Mapped(PartsIn(P, Q), <<>>) = <<>>
      BY DEF Mapped
    <3>. QED
      BY <3>1, FlattenNothing DEF Spread
  <2>4. <<>> \in Seq(RenderItemsOver(P, Q)) /\ Apart(<<>>)
    BY DEF Apart
  <2>5. Rendered(<<>>, P, Q, ats, 0)
    BY <2>2, <2>3, <2>4 DEF Rendered
  <2>. QED
    BY <1>2, <2>1, <2>5
<1>5. ASSUME NEW k \in 1..d, k - 1 \in T
      PROVE  k \in T
  <2>1. Rendered(R[k - 1], P, Q, ats, k - 1) /\ R[k] = AddRenderItem(R[k - 1], ats[k])
    BY <1>3, <1>5 DEF Rendering!Rounds
  <2>2. Rendered(R[k], P, Q, ats, k)
    BY <1>1, <2>1, RenderStep
  <2>. QED
    BY <1>2, <2>2
<1> HIDE DEF T
<1>6. \A k \in 0..d : k \in T
  BY <1>2, <1>4, <1>5, LoopInduction
<1>7. d \in T
  BY <1>2, <1>6
<1>. QED
  BY <1>0, <1>3, <1>7 DEF T, ats

-----------------------------------------------------------------------------
(* Tool runs and the parts they stand for.                                 *)
NameOf(part) == Or(Get(part, "callID"), Or(Get(part, "id"), <<part.type>>))

RunOf(run, key) ==
  LET part == CurrentOf(doc.latest, "part", key)
  IN  /\ run.part = part /\ IsToolPart(part) /\ run.callID = NameOf(part)
      /\ run.sourceIndexes = Sources(doc.latest, "part", key)
      /\ run.narrativeMessageID = IF Get(part, "messageID") \in ThePlan.aside THEN Absent
                                  ELSE Get(part, "messageID")

LEMMA ToolRunIs ==
  ASSUME AllInv, ~Corrupt(doc), NEW key \in DOMAIN doc.latest["part"],
         IsToolPart(CurrentOf(doc.latest, "part", key))
  PROVE  RunOf(ToolRun(doc.latest, ThePlan, key), key)
<1> DEFINE part == CurrentOf(doc.latest, "part", key)
           run == ToolRun(doc.latest, ThePlan, key)
<1>1. Get(part, "id") # Absent
  BY PartValue
<1>2. /\ run.part = part /\ run.sourceIndexes = Sources(doc.latest, "part", key)
      /\ run.narrativeMessageID = IF Get(part, "messageID") \in ThePlan.aside THEN Absent
                                  ELSE Get(part, "messageID")
      /\ run.callID = IF Get(part, "callID") # Absent THEN part.callID
                      ELSE IF Get(part, "id") # Absent THEN Get(part, "id")
                      ELSE <<Get(part, "tool"), Sources(doc.latest, "part", key)>>
  BY DEF ToolRun
<1> HIDE DEF run, part
<1>3. run.callID = NameOf(part)
  BY <1>1, <1>2 DEF NameOf, Or, Get
<1>. QED
  BY <1>2, <1>3 DEF RunOf, run, part

LEMMA RunsAre ==
  ASSUME AllInv, ~Corrupt(doc)
  PROVE  /\ \A i \in DOMAIN TheRuns : \E key \in DOMAIN doc.latest["part"] : RunOf(TheRuns[i], key)
         /\ \A key \in DOMAIN doc.latest["part"] : IsToolPart(CurrentOf(doc.latest, "part", key)) =>
              \E i \in DOMAIN TheRuns : RunOf(TheRuns[i], key)
<1> DEFINE D == DOMAIN doc.latest["part"]
           S == {key \in D : IsToolPart(CurrentOf(doc.latest, "part", key))}
           B == AddedBefore(doc.latest, "part")
           keys == Listed(S, B)
<1>1. "part" \in Types
  BY DEF Types, ObjectTypes
<1>2. IsFiniteSet(D) /\ StrictOrderOn(D, B)
  BY <1>1, FiniteKeys, AddedOrder
<1>3. IsFiniteSet(S) /\ StrictOrderOn(S, B)
  <2>1. S \in SUBSET D
    OBVIOUS
  <2> HIDE DEF S, D, B
  <2>. QED
    BY <1>2, <2>1, FS_Subset DEF StrictOrderOn
<1>4. TheRuns = [i \in DOMAIN keys |-> ToolRun(doc.latest, ThePlan, keys[i])]
  BY DEF TheRuns, ToolRunsOf
<1>5. \A key \in S : key \in D /\ RunOf(ToolRun(doc.latest, ThePlan, key), key)
  BY ToolRunIs
<1>6. \A key \in D : IsToolPart(CurrentOf(doc.latest, "part", key)) => key \in S
  OBVIOUS
<1> HIDE DEF S, B
<1>7. /\ \A i \in DOMAIN keys : keys[i] \in S
      /\ \A key \in S : \E i \in DOMAIN keys : keys[i] = key
  BY <1>3, ListedFacts
<1> HIDE DEF keys, D
<1>8. DOMAIN TheRuns = DOMAIN keys /\ \A i \in DOMAIN keys : TheRuns[i] = ToolRun(doc.latest, ThePlan, keys[i])
  BY <1>4
<1>9. \A i \in DOMAIN TheRuns : \E key \in D : RunOf(TheRuns[i], key)
  BY <1>5, <1>7, <1>8
<1>10. \A key \in D : IsToolPart(CurrentOf(doc.latest, "part", key)) =>
         \E i \in DOMAIN TheRuns : RunOf(TheRuns[i], key)
  BY <1>5, <1>6, <1>7, <1>8
<1>. QED
  BY <1>9, <1>10 DEF D

-----------------------------------------------------------------------------
(* The items of a card.                                                    *)
LEMMA CardIs ==
  ASSUME NEW told, NEW P, NEW Q, NEW d, PartList(PartsOfEntry(told.entry), P, Q, d)
  PROVE  LET item == NarrativeViewItem(doc.latest, told)
             items == RenderItems(told.entry)
             shown == item.renderItems
         IN  /\ item.id = told.id /\ item.parts = told.entry.parts
             /\ \E l \in Nat : DOMAIN items = 1..l /\ DOMAIN shown = 1..l
             /\ \A i \in DOMAIN shown : /\ shown[i].type = items[i].type /\ shown[i].parts = items[i].parts
                                        /\ shown[i].sourceIndexes = items[i].sourceIndexes
                                        /\ items[i] \in RenderItemsOver(P, Q)
             /\ FlattenSeq([i \in DOMAIN shown |-> shown[i].parts]) = FirstParts(PartsOfEntry(told.entry), d)
<1> DEFINE item == NarrativeViewItem(doc.latest, told)
           items == RenderItems(told.entry)
           shown == item.renderItems
           X == RenderItemsOver(P, Q)
           patches(part) == IF Get(part, "type") = "patch"
                            THEN Patches(doc.latest, told.entry.info, part) ELSE <<>>
           lists == [i \in DOMAIN shown |-> shown[i].parts]
<1>1. /\ item.id = told.id /\ item.parts = told.entry.parts
      /\ shown = [i \in DOMAIN items |->
                    [type |-> items[i].type, parts |-> items[i].parts,
                     sourceIndexes |-> items[i].sourceIndexes, patch |-> patches(Head(items[i].parts))]]
  BY DEF NarrativeViewItem
<1>2. Rendered(items, P, Q, PartsOfEntry(told.entry), d)
  BY RenderFacts
<1>3. items \in Seq(X) /\ Spread(PartsIn(P, Q), items) = FirstParts(PartsOfEntry(told.entry), d)
  BY <1>2 DEF Rendered
<1> HIDE DEF item, items, patches, X
<1>4. PICK l \in Nat : DOMAIN items = 1..l
  BY <1>3
<1>5. \A i \in 1..l : items[i] \in X
  BY <1>3, <1>4
<1> DEFINE w == shown
<1> HIDE DEF w
<1>6. DOMAIN w = 1..l /\ \A i \in 1..l : /\ w[i].type = items[i].type /\ w[i].parts = items[i].parts
                                         /\ w[i].sourceIndexes = items[i].sourceIndexes
  BY <1>1, <1>4 DEF w
<1>7. lists = Mapped(PartsIn(P, Q), items)
  <2>1. \A i \in 1..l : PartsIn(P, Q)[items[i]] = items[i].parts
    BY <1>5, RenderItemFacts DEF X
  <2>2. lists = [i \in 1..l |-> items[i].parts]
    BY <1>6 DEF w
  <2>3. Mapped(PartsIn(P, Q), items) = [i \in 1..l |-> PartsIn(P, Q)[items[i]]]
    BY <1>4 DEF Mapped
  <2>. QED
    BY <2>1, <2>2, <2>3
<1> HIDE DEF lists
<1>8. FlattenSeq(lists) = FirstParts(PartsOfEntry(told.entry), d)
  BY <1>3, <1>7 DEF Spread
<1>. QED
  BY <1>1, <1>4, <1>5, <1>6, <1>8 DEF item, items, X, lists, w

(* The parts of a message: what the events say of them.                    *)
LEMMA EntryParts ==
  ASSUME AllInv, ~Corrupt(doc), NEW entry, PartsShown(entry), NEW j \in DOMAIN entry.parts
  PROVE  LET part == entry.parts[j]
             key == <<MessageID(entry), Get(part, "id")>>
         IN  /\ key \in DOMAIN doc.latest["part"] /\ part = CurrentOf(doc.latest, "part", key)
             /\ Get(part, "messageID") = MessageID(entry) /\ Get(part, "id") # Absent
             /\ Get(part, "id") \in GivenIDs /\ NameOf(part) \in GivenIDs
             /\ Get(part, "callID") = Absent => NameOf(part) = Get(part, "id")
             /\ Get(part, "callID") # Absent => NameOf(part) = Get(part, "callID")
<1> DEFINE part == entry.parts[j]
           key == <<MessageID(entry), Get(part, "id")>>
<1>1. /\ key \in DOMAIN doc.latest["part"] /\ part = CurrentOf(doc.latest, "part", key)
      /\ Get(part, "messageID") = MessageID(entry) /\ Get(part, "id") # Absent
  BY DEF PartsShown, PartShown
<1> HIDE DEF key
<1>2. \A field \in DOMAIN part \cap IDFields : part[field] \in GivenIDs
  <2>1. "part" \in ObjectTypes
    BY DEF ObjectTypes
  <2>. QED
    BY <1>1, <2>1, CurrentIsGiven
<1> HIDE DEF part
<1>3. Get(part, "id") \in GivenIDs
  <2>1. "id" \in DOMAIN part \cap IDFields /\ part["id"] = Get(part, "id")
    BY <1>1 DEF Get, IDFields
  <2>. QED
    BY <1>2, <2>1
<1>4. Get(part, "callID") # Absent => Get(part, "callID") \in GivenIDs
  <2>1. ASSUME Get(part, "callID") # Absent
        PROVE  "callID" \in DOMAIN part \cap IDFields /\ part["callID"] = Get(part, "callID")
    BY <2>1 DEF Get, IDFields
  <2>. QED
    BY <1>2, <2>1
<1>5. /\ Get(part, "callID") = Absent => NameOf(part) = Get(part, "id")
      /\ Get(part, "callID") # Absent => NameOf(part) = Get(part, "callID")
  BY <1>1 DEF NameOf, Or
<1>. QED
  BY <1>1, <1>3, <1>4, <1>5 DEF part, key

(* The tool run of a tool part of a message.                               *)
LEMMA RunOfPart ==
  ASSUME AllInv, ~Corrupt(doc), NEW entry, PartsShown(entry), NEW j \in DOMAIN entry.parts,
         IsToolPart(entry.parts[j])
  PROVE  \E r \in DOMAIN TheRuns :
           /\ TheRuns[r].part = entry.parts[j] /\ TheRuns[r].callID = NameOf(entry.parts[j])
           /\ MessageID(entry) \notin ThePlan.aside => TheRuns[r].narrativeMessageID = MessageID(entry)
<1> DEFINE part == entry.parts[j]
           key == <<MessageID(entry), Get(part, "id")>>
<1>1. /\ key \in DOMAIN doc.latest["part"] /\ part = CurrentOf(doc.latest, "part", key)
      /\ Get(part, "messageID") = MessageID(entry)
  BY EntryParts
<1>2. PICK r \in DOMAIN TheRuns : RunOf(TheRuns[r], key)
  <2> HIDE DEF key
  <2>. QED
    BY <1>1, RunsAre
<1> HIDE DEF key
<1>. QED
  BY <1>1, <1>2 DEF RunOf

-----------------------------------------------------------------------------
(* What a card shows of a message.                                         *)
PartsOver(entry) == {entry.parts[j] : j \in DOMAIN entry.parts}

CardItem(item, entry) ==
  /\ item.type \in {"single", "tool-group"} /\ 1 \in DOMAIN item.parts
  /\ item.parts \in Seq(PartsOver(entry))
  /\ \A n \in DOMAIN item.parts :
       /\ IsToolPart(item.parts[n]) <=> item.type = "tool-group"
       /\ \E j \in DOMAIN entry.parts : item.parts[n] = entry.parts[j]

Carded(items, entry) ==
  /\ \E l \in Nat : DOMAIN items = 1..l
  /\ \A i \in DOMAIN items : CardItem(items[i], entry)
  /\ \A j \in DOMAIN entry.parts : Holding(items, entry.parts[j])
  /\ Apart(items)
  /\ \A i, j \in DOMAIN items : Get(items[i].parts[1], "id") = Get(items[j].parts[1], "id") => i = j
  /\ FlattenSeq([i \in DOMAIN items |-> items[i].parts]) = entry.parts

LEMMA CardFacts ==
  ASSUME AllInv, NEW told, PartsShown(told.entry)
  PROVE  Carded(NarrativeViewItem(doc.latest, told).renderItems, told.entry)
<1> DEFINE entry == told.entry
           ats == PartsOfEntry(entry)
           items == RenderItems(entry)
           w == NarrativeViewItem(doc.latest, told).renderItems
           P == PartsOver(entry)
           X == RenderItemsOver(P, Positions)
<1>1. PICK d \in Nat : /\ PartList(ats, {entry.parts[j] : j \in 1..d}, Positions, d)
                       /\ FirstParts(ats, d) = entry.parts /\ DOMAIN entry.parts = 1..d
                       /\ \A j \in 1..d : ats[j].part = entry.parts[j]
  BY PartsListed
<1>2. PartList(ats, P, Positions, d)
  BY <1>1 DEF PartsOver
<1>3. Rendered(items, P, Positions, ats, d)
  <2> HIDE DEF P
  <2>. QED
    BY <1>2, RenderFacts
<1>4. /\ \E l \in Nat : DOMAIN items = 1..l /\ DOMAIN w = 1..l
      /\ \A i \in DOMAIN w : /\ w[i].type = items[i].type /\ w[i].parts = items[i].parts
                             /\ items[i] \in X
      /\ FlattenSeq([i \in DOMAIN w |-> w[i].parts]) = FirstParts(ats, d)
  <2> HIDE DEF P
  <2>. QED
    BY <1>2, CardIs
<1> HIDE DEF entry, ats, items, w, P
<1>5. PICK l \in Nat : DOMAIN items = 1..l /\ DOMAIN w = 1..l
  BY <1>4
<1>6. ASSUME NEW i \in 1..l
      PROVE  CardItem(w[i], entry)
  <2>1. items[i] \in X /\ ItemHolds(items[i], ats, d)
    BY <1>3, <1>4, <1>5, <1>6 DEF Rendered
  <2>2. /\ items[i].parts \in Seq(P) /\ 1 \in DOMAIN items[i].parts
        /\ items[i].type \in {"single", "tool-group"}
    BY <2>1, RenderItemFacts
  <2>3. w[i].type = items[i].type /\ w[i].parts = items[i].parts
    BY <1>4, <1>5
  <2>4. \A n \in DOMAIN items[i].parts :
          /\ IsToolPart(items[i].parts[n]) <=> items[i].type = "tool-group"
          /\ \E j \in DOMAIN entry.parts : items[i].parts[n] = entry.parts[j]
    BY <1>1, <2>1 DEF ItemHolds
  <2>. QED
    BY <2>2, <2>3, <2>4 DEF CardItem, P
<1>7. /\ Apart(items) /\ \A m \in 1..d : Holding(items, ats[m].part)
      /\ \A i, j \in DOMAIN items : Get(items[i].parts[1], "id") = Get(items[j].parts[1], "id") => i = j
  BY <1>3 DEF Rendered
<1>8. Apart(w)
  <2>1. SUFFICES ASSUME NEW i \in 1..l \ {1} PROVE "single" \in {w[i - 1].type, w[i].type}
    BY <1>5 DEF Apart
  <2>2. i - 1 \in 1..l
    BY <1>5
  <2>3. "single" \in {items[i - 1].type, items[i].type}
    BY <1>5, <1>7 DEF Apart
  <2>. QED
    BY <1>4, <1>5, <2>2, <2>3
<1>9. \A j \in DOMAIN entry.parts : Holding(w, entry.parts[j])
  BY <1>1, <1>4, <1>5, <1>7 DEF Holding
<1>10. \A i, j \in 1..l : Get(w[i].parts[1], "id") = Get(w[j].parts[1], "id") => i = j
  BY <1>4, <1>5, <1>7
<1>11. FlattenSeq([i \in DOMAIN w |-> w[i].parts]) = entry.parts
  BY <1>1, <1>4
<1>. QED
  BY <1>5, <1>6, <1>8, <1>9, <1>10, <1>11 DEF Carded, w, entry

(* The groups of a card hold the tool runs that point to its message.      *)
LEMMA GroupsHoldRuns ==
  ASSUME AllInv, ~Corrupt(doc), NEW entry, MessageShown(entry), PartsShown(entry),
         MessageID(entry) \notin ThePlan.aside, NEW items, Carded(items, entry)
  PROVE  UNION {Range(items[i].parts) : i \in {n \in DOMAIN items : items[n].type = "tool-group"}} =
           {TheRuns[i].part : i \in {n \in DOMAIN TheRuns : TheRuns[n].narrativeMessageID = MessageID(entry)}}
<1> DEFINE L == UNION {Range(items[i].parts) : i \in {n \in DOMAIN items : items[n].type = "tool-group"}}
           R == {TheRuns[i].part : i \in {n \in DOMAIN TheRuns : TheRuns[n].narrativeMessageID = MessageID(entry)}}
<1>1. ASSUME NEW x \in L PROVE x \in R
  <2>1. PICK i \in DOMAIN items : items[i].type = "tool-group" /\ x \in Range(items[i].parts)
    OBVIOUS
  <2>2. PICK n \in DOMAIN items[i].parts : x = items[i].parts[n]
    BY <2>1 DEF Range
  <2>3. PICK j \in DOMAIN entry.parts : x = entry.parts[j] /\ IsToolPart(x)
    BY <2>1, <2>2 DEF Carded, CardItem
  <2>4. PICK r \in DOMAIN TheRuns : TheRuns[r].part = x /\ TheRuns[r].narrativeMessageID = MessageID(entry)
    BY <2>3, RunOfPart
  <2>. QED
    BY <2>4
<1>2. ASSUME NEW x \in R PROVE x \in L
  <2>1. PICK r \in DOMAIN TheRuns : x = TheRuns[r].part /\ TheRuns[r].narrativeMessageID = MessageID(entry)
    OBVIOUS
  <2>2. PICK key \in DOMAIN doc.latest["part"] : RunOf(TheRuns[r], key)
    BY RunsAre
  <2>3. MessageID(entry) # Absent
    BY DEF MessageShown
  <2> DEFINE part == CurrentOf(doc.latest, "part", key)
  <2>4. x = part /\ IsToolPart(part) /\ Get(part, "messageID") = MessageID(entry)
    BY <2>1, <2>2, <2>3 DEF RunOf
  <2>5. key = <<Get(part, "messageID"), Get(part, "id")>>
    BY PartValue
  <2> HIDE DEF part
  <2>6. key[1] = MessageID(entry)
    BY <2>4, <2>5
  <2>7. PICK j \in DOMAIN entry.parts : key = <<MessageID(entry), Get(entry.parts[j], "id")>>
    BY <2>6 DEF PartsShown
  <2>8. entry.parts[j] = CurrentOf(doc.latest, "part", <<MessageID(entry), Get(entry.parts[j], "id")>>)
    BY EntryParts
  <2>9. entry.parts[j] = x
    BY <2>4, <2>7, <2>8 DEF part
  <2>10. PICK i \in DOMAIN items : \E n \in DOMAIN items[i].parts : items[i].parts[n] = x
    BY <2>9 DEF Carded, Holding
  <2>11. items[i].type = "tool-group"
    BY <2>4, <2>10 DEF Carded, CardItem
  <2>12. x \in Range(items[i].parts)
    BY <2>10 DEF Range
  <2>. QED
    BY <2>11, <2>12
<1>. QED
  BY <1>1, <1>2

-----------------------------------------------------------------------------
(* The keys of a card.                                                     *)
LeadName(item) == IF item.type = "single" THEN Get(item.parts[1], "id") ELSE NameOf(item.parts[1])

LEMMA KeyIs ==
  ASSUME AllInv, ~Corrupt(doc), NEW entry, PartsShown(entry), NEW item, CardItem(item, entry), NEW index
  PROVE  LET key == RenderItemKey(item, index)
         IN  /\ LeadName(item) \in GivenIDs
             /\ key = LeadName(item) \/ (key \in Seq(GivenIDs) /\ key[1] = LeadName(item))
<1> DEFINE key == RenderItemKey(item, index)
           parts == item.parts
           names == [i \in DOMAIN parts |-> NameOf(parts[i])]
           n == Len(parts)
<1>1. /\ parts \in Seq(PartsOver(entry)) /\ 1 \in DOMAIN parts
      /\ \A i \in DOMAIN parts : \E j \in DOMAIN entry.parts : parts[i] = entry.parts[j]
      /\ item.type \in {"single", "tool-group"}
  BY DEF CardItem
<1>2. \A j \in DOMAIN entry.parts :
        /\ Get(entry.parts[j], "id") # Absent /\ Get(entry.parts[j], "id") \in GivenIDs
        /\ NameOf(entry.parts[j]) \in GivenIDs
  BY EntryParts
<1>3. \A i \in DOMAIN parts : /\ Get(parts[i], "id") # Absent /\ Get(parts[i], "id") \in GivenIDs
                              /\ NameOf(parts[i]) \in GivenIDs
  BY <1>1, <1>2
<1>4. key = IF item.type = "single"
            THEN Or(Get(Head(parts), "id"), <<Head(parts).type, item.sourceIndexes, index>>)
            ELSE IF Len(names) = 1 THEN Head(names) ELSE names
  BY DEF RenderItemKey, NameOf
<1> HIDE DEF parts, key
<1>5. n \in Nat /\ DOMAIN parts = 1..n /\ Head(parts) = parts[1]
  BY <1>1
<1>6. names \in Seq(GivenIDs) /\ Len(names) = n /\ names[1] = NameOf(parts[1]) /\ 1 \in 1..n
  <2>1. names \in [1..n -> GivenIDs] /\ names[1] = NameOf(parts[1])
    BY <1>1, <1>3, <1>5
  <2> HIDE DEF names, n
  <2>. QED
    BY <1>1, <1>5, <2>1
<1> HIDE DEF names
<1>7. Head(names) = names[1]
  BY <1>6
<1>8. LeadName(item) = IF item.type = "single" THEN Get(parts[1], "id") ELSE NameOf(parts[1])
  BY DEF LeadName, parts
<1>9. CASE item.type = "single"
  <2>1. key = Get(parts[1], "id")
    BY <1>1, <1>3, <1>4, <1>5, <1>9 DEF Or
  <2>. QED
    BY <1>1, <1>3, <1>8, <1>9, <2>1 DEF key
<1>10. CASE item.type = "tool-group"
  <2>1. key = IF Len(names) = 1 THEN Head(names) ELSE names
    BY <1>4, <1>10
  <2>2. LeadName(item) = names[1] /\ LeadName(item) \in GivenIDs
    BY <1>1, <1>3, <1>6, <1>8, <1>10
  <2>. QED
    BY <1>6, <1>7, <2>1, <2>2 DEF key
<1>. QED
  BY <1>1, <1>9, <1>10

LEMMA LeadsDiffer ==
  ASSUME AllInv, ~Corrupt(doc), CallsAreDistinct(TheRuns), NEW entry, PartsShown(entry),
         NEW j \in DOMAIN entry.parts, NEW l \in DOMAIN entry.parts,
         IsToolPart(entry.parts[j])
  PROVE  /\ NameOf(entry.parts[j]) = Get(entry.parts[l], "id") =>
              Get(entry.parts[j], "id") = Get(entry.parts[l], "id")
         /\ IsToolPart(entry.parts[l]) /\ NameOf(entry.parts[j]) = NameOf(entry.parts[l]) =>
              Get(entry.parts[j], "id") = Get(entry.parts[l], "id")
<1> DEFINE one == entry.parts[j]
           two == entry.parts[l]
           key == <<MessageID(entry), Get(two, "id")>>
<1>1. /\ Get(one, "callID") = Absent => NameOf(one) = Get(one, "id")
      /\ Get(one, "callID") # Absent => NameOf(one) = Get(one, "callID")
  BY EntryParts
<1>2. /\ key \in DOMAIN doc.latest["part"] /\ two = CurrentOf(doc.latest, "part", key)
      /\ Get(two, "callID") = Absent => NameOf(two) = Get(two, "id")
      /\ Get(two, "callID") # Absent => NameOf(two) = Get(two, "callID")
  BY EntryParts
<1>3. PICK r \in DOMAIN TheRuns : TheRuns[r].part = one /\ TheRuns[r].callID = NameOf(one)
  BY RunOfPart
<1>4. /\ \A i \in DOMAIN TheRuns, m \in DOMAIN TheRuns :
           Get(TheRuns[i].part, "callID") # Absent /\ TheRuns[m].callID = TheRuns[i].callID => i = m
      /\ \A i \in DOMAIN TheRuns, k \in DOMAIN doc.latest["part"] :
           Get(TheRuns[i].part, "callID") # Absent =>
             Get(CurrentOf(doc.latest, "part", k), "id") # TheRuns[i].callID
  BY DEF CallsAreDistinct
<1>5. ASSUME NameOf(one) = Get(two, "id") PROVE Get(one, "id") = Get(two, "id")
  <2>1. CASE Get(one, "callID") = Absent
    BY <1>1, <1>5, <2>1
  <2>2. CASE Get(one, "callID") # Absent
    <3> HIDE DEF key
    <3>1. Get(CurrentOf(doc.latest, "part", key), "id") # TheRuns[r].callID
      BY <1>2, <1>3, <1>4, <2>2
    <3>. QED
      BY <1>2, <1>3, <1>5, <3>1
  <2>. QED
    BY <2>1, <2>2
<1>6. ASSUME IsToolPart(two), NameOf(one) = NameOf(two) PROVE Get(one, "id") = Get(two, "id")
  <2>1. PICK q \in DOMAIN TheRuns : TheRuns[q].part = two /\ TheRuns[q].callID = NameOf(two)
    BY <1>6, RunOfPart
  <2>2. CASE Get(one, "callID") # Absent \/ Get(two, "callID") # Absent
    <3>1. r = q
      BY <1>3, <1>4, <1>6, <2>1, <2>2
    <3>. QED
      BY <1>3, <2>1, <3>1
  <2>3. CASE Get(one, "callID") = Absent /\ Get(two, "callID") = Absent
    BY <1>1, <1>2, <1>6, <2>3
  <2>. QED
    BY <2>2, <2>3
<1>. QED
  BY <1>5, <1>6

LEMMA KeysDiffer ==
  ASSUME AllInv, ~Corrupt(doc), CallsAreDistinct(TheRuns), NEW entry, PartsShown(entry),
         NEW items, Carded(items, entry)
  PROVE  IsInjective([i \in DOMAIN items |-> RenderItemKey(items[i], i)])
<1> DEFINE key(i) == RenderItemKey(items[i], i)
<1>1. \A i \in DOMAIN items : CardItem(items[i], entry)
  BY DEF Carded
<1>2. \A i \in DOMAIN items :
        /\ LeadName(items[i]) \in GivenIDs
        /\ key(i) = LeadName(items[i]) \/ (key(i) \in Seq(GivenIDs) /\ key(i)[1] = LeadName(items[i]))
  BY <1>1, KeyIs
<1> HIDE DEF key
<1>3. ASSUME NEW i \in DOMAIN items, NEW j \in DOMAIN items, key(i) = key(j)
      PROVE  LeadName(items[i]) = LeadName(items[j])
  BY <1>2, <1>3, ListAssumption
<1>4. ASSUME NEW i \in DOMAIN items, NEW j \in DOMAIN items, LeadName(items[i]) = LeadName(items[j])
      PROVE  Get(items[i].parts[1], "id") = Get(items[j].parts[1], "id")
  <2> DEFINE one == items[i].parts[1]
             two == items[j].parts[1]
  <2>1. PICK a \in DOMAIN entry.parts : one = entry.parts[a] /\ (IsToolPart(one) <=> items[i].type = "tool-group")
    BY <1>1 DEF CardItem
  <2>2. PICK b \in DOMAIN entry.parts : two = entry.parts[b] /\ (IsToolPart(two) <=> items[j].type = "tool-group")
    BY <1>1 DEF CardItem
  <2>3. items[i].type \in {"single", "tool-group"} /\ items[j].type \in {"single", "tool-group"}
    BY <1>1 DEF CardItem
  <2>4. /\ LeadName(items[i]) = IF items[i].type = "single" THEN Get(one, "id") ELSE NameOf(one)
        /\ LeadName(items[j]) = IF items[j].type = "single" THEN Get(two, "id") ELSE NameOf(two)
    BY DEF LeadName
  <2> HIDE DEF one, two
  <2>5. CASE items[i].type = "single" /\ items[j].type = "single"
    BY <1>4, <2>4, <2>5 DEF one, two
  <2>6. CASE items[i].type = "tool-group"
    <3>1. IsToolPart(one) /\ LeadName(items[i]) = NameOf(one)
      BY <2>1, <2>4, <2>6
    <3>2. /\ NameOf(one) = Get(two, "id") => Get(one, "id") = Get(two, "id")
          /\ IsToolPart(two) /\ NameOf(one) = NameOf(two) => Get(one, "id") = Get(two, "id")
      BY <2>1, <2>2, <3>1, LeadsDiffer
    <3>. QED
      BY <1>4, <2>2, <2>3, <2>4, <3>1, <3>2 DEF one, two
  <2>7. CASE items[i].type = "single" /\ items[j].type = "tool-group"
    <3>1. IsToolPart(two) /\ LeadName(items[j]) = NameOf(two) /\ LeadName(items[i]) = Get(one, "id")
      BY <2>2, <2>4, <2>7
    <3>2. NameOf(two) = Get(one, "id") => Get(two, "id") = Get(one, "id")
      BY <2>1, <2>2, <3>1, LeadsDiffer
    <3>. QED
      BY <1>4, <3>1, <3>2 DEF one, two
  <2>. QED
    BY <2>3, <2>5, <2>6, <2>7
<1>5. ASSUME NEW i \in DOMAIN items, NEW j \in DOMAIN items, key(i) = key(j)
      PROVE  i = j
  <2>1. Get(items[i].parts[1], "id") = Get(items[j].parts[1], "id")
    BY <1>3, <1>4, <1>5
  <2>. QED
    BY <2>1 DEF Carded
<1>. QED
  BY <1>5 DEF IsInjective, key

-----------------------------------------------------------------------------
(* Everything is rendered once.                                            *)

(* The sections of the view.                                               *)
LEMMA SectionsRendered ==
  ASSUME NEW narrative, NEW N, NEW n, Narration(narrative, N, n),
         NEW views, views = SectionViews(narrative), NEW nav,
         nav = [i \in DOMAIN views |-> NavSection(views[i])]
  PROVE  LET firstOf(section) == section.items[1].id
         IN  /\ \A i \in DOMAIN views :
                  /\ views[i].hasUser \/ i = 1
                  /\ \A m \in DOMAIN views[i].items :
                       views[i].items[m].kind = "real_user_input" <=> m = 1 /\ views[i].hasUser
             /\ Distinct(views, firstOf)
             /\ \A i, j \in DOMAIN views :
                  views[i].id = views[j].id => Slug(views[i].items[1].id) = Slug(views[j].items[1].id)
             /\ DOMAIN nav = DOMAIN views
             /\ \A i \in DOMAIN views : nav[i].id = views[i].id
<1> DEFINE turns == TurnSections(narrative)
<1>1. Sectioned(turns, N, narrative, n)
  BY SectionsFacts
<1>2. /\ \E l \in Nat : DOMAIN turns = 1..l /\ DOMAIN views = 1..l /\ views = [i \in 1..l |-> views[i]]
      /\ \A i \in DOMAIN views : /\ views[i].items = turns[i].items
                                 /\ views[i].hasUser = turns[i].hasUser
                                 /\ views[i].id = <<"turn", Slug(turns[i].items[1].id)>>
  BY SectionViewIs
<1> HIDE DEF turns
<1>3. /\ \A i \in DOMAIN turns : SectionHolds(turns[i], i, narrative, n)
      /\ \A i, j \in DOMAIN turns : turns[i].items[1].id = turns[j].items[1].id => i = j
  BY <1>1 DEF Sectioned
<1>4. DOMAIN turns = DOMAIN views
  BY <1>2
<1>5. ASSUME NEW i \in DOMAIN views
      PROVE  /\ views[i].hasUser \/ i = 1
             /\ \A m \in DOMAIN views[i].items :
                  views[i].items[m].kind = "real_user_input" <=> m = 1 /\ views[i].hasUser
  <2>1. SectionHolds(turns[i], i, narrative, n) /\ views[i].items = turns[i].items
        /\ views[i].hasUser = turns[i].hasUser
    BY <1>2, <1>3, <1>4
  <2>. QED
    BY <2>1 DEF SectionHolds
<1>6. \A i, j \in DOMAIN views : views[i].items[1].id = views[j].items[1].id => i = j
  BY <1>2, <1>3, <1>4
<1>7. ASSUME NEW i \in DOMAIN views, NEW j \in DOMAIN views, views[i].id = views[j].id
      PROVE  Slug(views[i].items[1].id) = Slug(views[j].items[1].id)
  <2>1. <<"turn", Slug(turns[i].items[1].id)>> = <<"turn", Slug(turns[j].items[1].id)>>
    BY <1>2, <1>7
  <2>2. Slug(turns[i].items[1].id) = Slug(turns[j].items[1].id)
    BY <2>1
  <2>3. views[i].items = turns[i].items /\ views[j].items = turns[j].items
    BY <1>2
  <2>. QED
    BY <2>2, <2>3
<1>8. DOMAIN nav = DOMAIN views /\ \A i \in DOMAIN views : nav[i].id = views[i].id
  <2>1. \A section : NavSection(section).id = section.id
    BY DEF NavSection
  <2>. QED
    BY <2>1
<1>. QED
  BY <1>5, <1>6, <1>7, <1>8 DEF Distinct

(* A message of the narrative, in the plan and among the shown ones.       *)
LEMMA ToldIs ==
  ASSUME AllInv, ~Corrupt(doc), NEW V, NEW c, Visible(V, c), Planned(ThePlan, V, c, c),
         NEW m \in DOMAIN ThePlan.narrative
  PROVE  LET told == ThePlan.narrative[m]
         IN  /\ told.id = MessageID(told.entry) /\ told.id \notin ThePlan.aside
             /\ MessageShown(told.entry) /\ PartsShown(told.entry)
<1> DEFINE told == ThePlan.narrative[m]
<1>1. PICK i \in 1..c : IsTold(told, V[i]) /\ told.id \notin ThePlan.aside
  BY DEF Planned, ToldUpTo
<1>2. MessageShown(V[i]) /\ PartsShown(V[i])
  BY DEF Visible
<1> HIDE DEF told
<1>3. told.entry = V[i] /\ told.id = MessageID(V[i])
  BY <1>1 DEF IsTold
<1>. QED
  BY <1>1, <1>2, <1>3 DEF told

LEMMA CardRendered ==
  ASSUME AllInv, ~Corrupt(doc), CallsAreDistinct(TheRuns), NEW told,
         told.id = MessageID(told.entry), told.id \notin ThePlan.aside,
         MessageShown(told.entry), PartsShown(told.entry)
  PROVE  RenderedOnce(NarrativeViewItem(doc.latest, told), TheRuns)
<1> DEFINE item == NarrativeViewItem(doc.latest, told)
           items == item.renderItems
           keys == [i \in DOMAIN items |-> RenderItemKey(items[i], i)]
           grouped == {i \in DOMAIN items : items[i].type = "tool-group"}
<1>1. Carded(items, told.entry)
  BY CardFacts
<1>2. item.id = told.id /\ item.parts = told.entry.parts
  BY DEF NarrativeViewItem
<1> HIDE DEF item
<1>3. FlattenSeq([i \in DOMAIN items |-> items[i].parts]) = item.parts
  BY <1>1, <1>2 DEF Carded
<1>4. \A i \in DOMAIN items \ {1} : "single" \in {items[i - 1].type, items[i].type}
  BY <1>1 DEF Carded, Apart
<1>5. \A i \in DOMAIN items : \A n \in DOMAIN items[i].parts : IsToolPart(items[i].parts[n]) <=> i \in grouped
  BY <1>1 DEF Carded, CardItem
<1>6. IsInjective(keys)
  BY <1>1, KeysDiffer
<1>7. UNION {Range(items[i].parts) : i \in grouped} =
        {TheRuns[i].part : i \in {n \in DOMAIN TheRuns : TheRuns[n].narrativeMessageID = item.id}}
  BY <1>1, <1>2, GroupsHoldRuns
<1>. QED
  BY <1>3, <1>4, <1>5, <1>6, <1>7 DEF RenderedOnce, item

LEMMA RenderedFollow == AllInv => EverythingRenderedOnce
<1> SUFFICES ASSUME AllInv, ~Corrupt(doc), NEW view \in {View}, CallsAreDistinct(view.toolRuns)
             PROVE  AllRenderedOnce(view)
  BY DEF EverythingRenderedOnce
<1> DEFINE V == VisibleMessages(doc.latest)
           n == Len(ThePlan.narrative)
           idOf(thing) == thing.id
           firstOf(section) == section.items[1].id
<1>1. PICK c \in Nat : Visible(V, c)
  BY VisibleFacts
<1>2. Planned(ThePlan, V, c, c)
  BY <1>1, PlanFacts DEF ThePlan
<1> HIDE DEF V
<1>3. /\ n \in Nat /\ DOMAIN ThePlan.narrative = 1..n
      /\ Narration(TheNarrative, {TheNarrative[i] : i \in 1..n}, n)
      /\ \A i \in 1..n : TheNarrative[i] = NarrativeViewItem(doc.latest, ThePlan.narrative[i])
      /\ \A i \in 1..n : TheNarrative[i].id = ThePlan.narrative[i].id
  BY <1>1, <1>2, NarrativeFacts
<1>4. ASSUME NEW i \in 1..n
      PROVE  /\ ThePlan.narrative[i].id = MessageID(ThePlan.narrative[i].entry)
             /\ ThePlan.narrative[i].id \notin ThePlan.aside
             /\ MessageShown(ThePlan.narrative[i].entry) /\ PartsShown(ThePlan.narrative[i].entry)
  <2>1. i \in DOMAIN ThePlan.narrative
    BY <1>3
  <2>. QED
    BY <1>1, <1>2, <2>1, ToldIs
<1>5. /\ view.mainNarrative = TheNarrative /\ view.sections = SectionViews(TheNarrative)
      /\ view.navSections = [i \in DOMAIN view.sections |-> NavSection(view.sections[i])]
      /\ view.toolRuns = TheRuns
  <2>1. view = View
    OBVIOUS
  <2>. QED
    BY <2>1, ViewIs DEF ViewLists
<1>6. FlattenSeq([i \in DOMAIN view.sections |-> view.sections[i].items]) = view.mainNarrative
  BY <1>3, <1>5, SectionViewIs
<1>8. /\ \A i \in DOMAIN view.sections :
           /\ view.sections[i].hasUser \/ i = 1
           /\ \A m \in DOMAIN view.sections[i].items :
                view.sections[i].items[m].kind = "real_user_input" <=> m = 1 /\ view.sections[i].hasUser
      /\ Distinct(view.sections, firstOf)
      /\ \A i, j \in DOMAIN view.sections :
           view.sections[i].id = view.sections[j].id =>
             Slug(firstOf(view.sections[i])) = Slug(firstOf(view.sections[j]))
      /\ DOMAIN view.navSections = DOMAIN view.sections
      /\ \A i \in DOMAIN view.sections : view.navSections[i].id = view.sections[i].id
  BY <1>3, <1>5, SectionsRendered
<1>9. DOMAIN view.mainNarrative = 1..n
  BY <1>3, <1>5 DEF Narration
<1>10. Distinct(view.mainNarrative, idOf)
  <2>1. \A i, j \in 1..n : TheNarrative[i].id = TheNarrative[j].id => i = j
    BY <1>3 DEF Narration
  <2>. QED
    BY <1>5, <1>9, <2>1 DEF Distinct
<1>11. CallsAreDistinct(TheRuns)
  BY <1>5
<1>12. \A i \in DOMAIN view.mainNarrative : RenderedOnce(view.mainNarrative[i], view.toolRuns)
  <2>1. ASSUME NEW i \in 1..n PROVE RenderedOnce(TheNarrative[i], TheRuns)
    BY <1>3, <1>4, <1>11, CardRendered
  <2>. QED
    BY <1>5, <1>9, <2>1
<1>. QED
  BY <1>6, <1>8, <1>10, <1>12 DEF AllRenderedOnce

(* Nothing the page shows is lost or doubled, whatever the events and      *)
(* whatever slugify makes of the ids: two sections have one key only if    *)
(* the slugs of their first messages are one.                              *)
THEOREM EverythingAlwaysRenderedOnce == Spec => []EverythingRenderedOnce
BY RenderedFollow, AllInvariance, PTL

-----------------------------------------------------------------------------
(* From sources to raw entries.                                            *)
LEMMA EntryFacts ==
  ASSUME AllInv, ~Corrupt(doc), NEW n \in DOMAIN log
  PROVE  LET rec == log[n]
             entry == RawEntry(rec)
         IN  /\ rec.type = "message" => entry.kind = "message" /\ <<entry.messageID>> = LatestKey(rec)
             /\ rec.type = "part" => entry.kind # "message" /\ <<entry.messageID, entry.itemID>> = LatestKey(rec)
             /\ rec.type \in {"message", "part"} => entry \in RawEntries
<1> DEFINE rec == log[n]
           id(field) == StringField(rec.data, field)
           entry == RawEntry(rec)
<1>1. /\ rec.type \in Types => rec.data # NotData
      /\ rec.type = "message" => id("id") # Absent /\ LatestKey(rec) = <<id("id")>>
      /\ rec.type = "part" => Get(rec.data, "type") # Absent /\ LatestKey(rec) = <<id("messageID"), id("id")>>
  BY CleanData
<1>2. rec \in Records /\ rec.rawItemIndex \in Nat
  <2>1. rec \in Records
    BY DEF AllInv, IInv, LogInv
  <2>2. \A x \in Records : x.rawItemIndex \in Nat
    BY DEF Records
  <2> HIDE DEF rec
  <2>. QED
    BY <2>1, <2>2
<1>3. ASSUME rec.data # NotData
      PROVE  \A field \in IDFields : id(field) \in GivenIDs \cup {Absent}
  <2>1. PICK input \in Inputs : input.data = rec.data
    BY <1>2 DEF Records, Payloads
  <2> DEFINE data == rec.data
  <2>2. \A field \in DOMAIN data \cap IDFields : data[field] \in GivenIDs
    BY <1>3, <2>1 DEF GivenIDs
  <2> HIDE DEF data
  <2>3. \A field \in IDFields : StringField(data, field) \in GivenIDs \cup {Absent}
    BY <2>2 DEF StringField, Get
  <2>. QED
    BY <2>3 DEF data
<1>4. /\ "id" \in IDFields /\ "messageID" \in IDFields /\ "sessionID" \in IDFields
      /\ "message" \in Types /\ "part" \in Types
  BY DEF IDFields, Types, ObjectTypes
<1> DEFINE i == id("id")
           m == id("messageID")
           s == id("sessionID")
           r == rec.rawItemIndex
           K == KnownEntryParts \cup {"message", "unknown_part"}
           G == GivenIDs \cup {Absent}
<1>5. ASSUME rec.type = "message"
      PROVE  entry.kind = "message" /\ <<entry.messageID>> = LatestKey(rec) /\ entry \in RawEntries
  <2>1. entry = [rawIndex |-> r, kind |-> "message", sessionID |-> s, messageID |-> i, itemID |-> i]
    BY <1>1, <1>4, <1>5 DEF RawEntry, BaseEntry, Types, ObjectTypes, ArrayTypes
  <2>2. i \in G /\ s \in G
    BY <1>1, <1>3, <1>4, <1>5
  <2>3. "message" \in K /\ LatestKey(rec) = <<i>> /\ r \in Nat
    BY <1>1, <1>2, <1>5
  <2> HIDE DEF entry, i, s, r, G, K, rec
  <2>4. entry \in [rawIndex : Nat, kind : K, sessionID : G, messageID : G, itemID : G]
    BY <2>1, <2>2, <2>3
  <2>. QED
    BY <2>1, <2>3, <2>4 DEF RawEntries, G, K
<1>6. ASSUME rec.type = "part"
      PROVE  entry.kind # "message" /\ <<entry.messageID, entry.itemID>> = LatestKey(rec) /\ entry \in RawEntries
  <2>1. \E kind \in KnownEntryParts \cup {"unknown_part"} :
          entry = [rawIndex |-> r, kind |-> kind, sessionID |-> s, messageID |-> m, itemID |-> i]
    BY <1>1, <1>4, <1>6 DEF RawEntry, BaseEntry, Types, ObjectTypes, ArrayTypes
  <2>2. i \in G /\ s \in G /\ m \in G
    BY <1>1, <1>3, <1>4, <1>6
  <2>3. LatestKey(rec) = <<m, i>> /\ r \in Nat /\ \A kind \in KnownEntryParts \cup {"unknown_part"} : kind \in K
    BY <1>1, <1>2, <1>6
  <2>4. \A kind \in KnownEntryParts \cup {"unknown_part"} : kind # "message"
    BY DEF KnownEntryParts
  <2> HIDE DEF entry, i, s, m, r, G, K, rec
  <2>5. entry \in [rawIndex : Nat, kind : K, sessionID : G, messageID : G, itemID : G]
    BY <2>1, <2>2, <2>3
  <2>6. entry.kind # "message" /\ <<entry.messageID, entry.itemID>> = LatestKey(rec)
    BY <2>1, <2>3, <2>4
  <2>. QED
    BY <2>5, <2>6 DEF RawEntries, G, K
<1> HIDE DEF entry
<1>. QED
  BY <1>5, <1>6 DEF rec, entry

(* No two events have one index.                                           *)
LEMMA IndexesDiffer ==
  ASSUME AllInv, NEW n \in Named, NEW m \in Named, log[n].rawItemIndex = log[m].rawItemIndex
  PROVE  n = m
<1>1. DOMAIN log = 1..Len(log) /\ \A i \in DOMAIN log : log[i].rawItemIndex \in Nat
  <2>1. DOMAIN log = 1..Len(log) /\ \A i \in DOMAIN log : log[i] \in Records
    BY DEF AllInv, IInv, LogInv
  <2>2. \A x \in Records : x.rawItemIndex \in Nat
    BY DEF Records
  <2>. QED
    BY <2>1, <2>2
<1>2. /\ n \in DOMAIN log /\ m \in DOMAIN log
      /\ log[n].arrayOffset = 0 /\ log[m].arrayOffset = 0
  BY DEF Named
<1>3. \A i, j \in DOMAIN log : i < j => Before(Source(log[i]), Source(log[j]))
  BY DEF AllInv, OriginInv, PlacesInv
<1>4. Source(log[n]) = Source(log[m])
  BY <1>2 DEF Source
<1>5. ~Before(Source(log[n]), Source(log[n]))
  <2> DEFINE a == log[n].rawItemIndex
             b == log[n].arrayOffset
  <2>1. a \in Nat /\ b = 0
    BY <1>1, <1>2
  <2>2. Source(log[n]).rawItemIndex = a /\ Source(log[n]).arrayOffset = b
    BY DEF Source
  <2> HIDE DEF a, b
  <2>. QED
    BY <2>1, <2>2 DEF Before
<1>6. n \in Nat /\ m \in Nat
  <2>1. Len(log) \in Nat
    BY DEF AllInv, IInv, LogInv
  <2>. QED
    BY <1>1, <1>2, <2>1
<1>. QED
  BY <1>2, <1>3, <1>4, <1>5, <1>6

(* The entry that the page shows for an index.                             *)
EntryAt(entries, index) == CHOOSE entry \in Range(entries) : entry.rawIndex = index

LEMMA EntryIs ==
  ASSUME AllInv, ~Corrupt(doc), NEW n \in Named
  PROVE  /\ \E i \in DOMAIN RawLog(log) : RawLog(log)[i].rawIndex = log[n].rawItemIndex
         /\ EntryAt(RawLog(log), log[n].rawItemIndex) = RawEntry(log[n])
<1> DEFINE events == EventsOf(log)
           entries == RawLog(log)
           index == log[n].rawItemIndex
<1>1. Len(log) \in Nat /\ DOMAIN log = 1..Len(log)
  BY DEF AllInv, IInv, LogInv
<1>2. Named \in SUBSET (1..Len(log)) /\ events = Kept(log, Named)
  BY <1>1 DEF Named, EventsOf
<1>3. /\ \A i \in DOMAIN events : \E k \in Named : events[i] = log[k]
      /\ \A k \in Named : \E i \in DOMAIN events : events[i] = log[k]
  <2> HIDE DEF events
  <2>1. /\ \A i \in DOMAIN Kept(log, Named) : \E k \in Named : Kept(log, Named)[i] = log[k]
        /\ \A k \in Named : \E i \in DOMAIN Kept(log, Named) : Kept(log, Named)[i] = log[k]
    BY <1>1, <1>2, KeptFacts
  <2>. QED
    BY <1>2, <2>1
<1>4. DOMAIN entries = DOMAIN events /\ \A i \in DOMAIN events : entries[i] = RawEntry(events[i])
  BY DEF RawLog
<1>5. \A k \in Named : RawEntry(log[k]).rawIndex = log[k].rawItemIndex
  BY NodeFacts DEF Named
<1> HIDE DEF events, entries
<1>6. PICK i \in DOMAIN entries : entries[i] = RawEntry(log[n])
  BY <1>3, <1>4
<1>7. entries[i].rawIndex = index
  BY <1>5, <1>6
<1>8. RawEntry(log[n]) \in Range(entries) /\ RawEntry(log[n]).rawIndex = index
  BY <1>6, <1>7 DEF Range
<1>9. ASSUME NEW entry \in Range(entries), entry.rawIndex = index
      PROVE  entry = RawEntry(log[n])
  <2>1. PICK j \in DOMAIN entries : entry = entries[j]
    BY DEF Range
  <2>2. PICK k \in Named : entry = RawEntry(log[k])
    BY <1>3, <1>4, <2>1
  <2>3. k = n
    BY <1>5, <1>9, <2>2, IndexesDiffer
  <2>. QED
    BY <2>2, <2>3
<1>10. EntryAt(entries, index) = RawEntry(log[n])
  BY <1>8, <1>9 DEF EntryAt
<1>. QED
  BY <1>6, <1>7, <1>10 DEF entries

(* Where the sources of an entity lead.                                    *)
Leads(s, E) ==
  LET resolved == ResolveRawSources(RawLog(log), s)
  IN  /\ resolved # <<>> /\ DOMAIN resolved = DOMAIN s
      /\ \A i \in DOMAIN resolved :
           resolved[i].rawEntry # Absent /\ \E n \in E : resolved[i].rawEntry = RawEntry(log[n])

LEMMA SourcesLead ==
  ASSUME AllInv, ~Corrupt(doc), NEW type \in {"message", "part"}, NEW key \in DOMAIN doc.latest[type]
  PROVE  Leads(Sources(doc.latest, type, key), Entries(type, key))
<1> DEFINE s == Sources(doc.latest, type, key)
           E == Entries(type, key)
           entries == RawLog(log)
           resolved == ResolveRawSources(entries, s)
<1>1. type \in Types /\ type \in ObjectTypes
  BY DEF Types, ObjectTypes
<1>2. RawIndexes(s) = {log[n].rawItemIndex : n \in E}
  BY <1>1, VersionsTraced
<1>3. ASSUME NEW n \in E
      PROVE  n \in Named /\ RawEntry(log[n]) # Absent
  <2>1. n \in DOMAIN log /\ log[n].type = type
    BY DEF Entries
  <2>2. RawEntry(log[n]) \in RawEntries
    BY <2>1, EntryFacts
  <2>. QED
    BY <1>1, <2>1, <2>2, ObjectsAreNamed, EntryAssumption
<1>4. 1 \in DOMAIN s
  <2>1. doc.latest[type][key] \in Seq(Versions) \ {<<>>}
    BY <1>1 DEF AllInv, IInv, EntriesInv
  <2> DEFINE h == doc.latest[type][key]
  <2>2. 1 \in DOMAIN h
    BY <2>1
  <2>. QED
    BY <2>2 DEF Sources
<1> HIDE DEF s, E, entries
<1>5. \A i \in DOMAIN s : \E n \in E : s[i].rawItemIndex = log[n].rawItemIndex
  BY <1>2 DEF RawIndexes
<1>6. /\ DOMAIN resolved = DOMAIN s
      /\ \A i \in DOMAIN s :
           resolved[i].rawEntry = IF \E n \in DOMAIN entries : entries[n].rawIndex = s[i].rawItemIndex
                                  THEN EntryAt(entries, s[i].rawItemIndex) ELSE Absent
  BY DEF ResolveRawSources, EntryAt
<1> HIDE DEF resolved
<1>7. ASSUME NEW i \in DOMAIN resolved
      PROVE  resolved[i].rawEntry # Absent /\ \E n \in E : resolved[i].rawEntry = RawEntry(log[n])
  <2>1. PICK n \in E : s[i].rawItemIndex = log[n].rawItemIndex
    BY <1>5, <1>6
  <2>2. /\ \E k \in DOMAIN entries : entries[k].rawIndex = s[i].rawItemIndex
        /\ EntryAt(entries, s[i].rawItemIndex) = RawEntry(log[n])
    BY <1>3, <2>1, EntryIs DEF entries
  <2>3. resolved[i].rawEntry = RawEntry(log[n])
    BY <1>6, <2>2
  <2>. QED
    BY <1>3, <2>3
<1>8. resolved # <<>>
  BY <1>4, <1>6
<1>. QED
  BY <1>6, <1>7, <1>8 DEF Leads, resolved, s, E, entries

-----------------------------------------------------------------------------
(* The provenance maps.                                                    *)
Keying == INSTANCE FoldFacts WITH Op <- PutSources

KeyedFrom(start, pairs) == Keying!Folded(start, pairs)

(* What a map of keys and sources holds after the first k of them.         *)
KeyedBy(map, pairs, k) ==
  /\ DOMAIN map = {pairs[i].key : i \in 1..k}
  /\ \A key \in DOMAIN map : \E i \in 1..k : pairs[i].key = key /\ map[key] = pairs[i].sources

KeyRounds(P, pairs, n) == P[0] = <<>> /\ \A i \in 1..n : P[i] = PutSources(P[i - 1], pairs[i])

LEMMA KeyedIsLoop ==
  ASSUME NEW pairs, NEW n \in Nat, DOMAIN pairs = 1..n
  PROVE  \E P : KeyRounds(P, pairs, n) /\ KeyedFrom(<<>>, pairs) = P[n]
<1>1. \E P : Keying!Rounds(P, <<>>, pairs, n) /\ KeyedFrom(<<>>, pairs) = P[n]
  BY Keying!FoldIsRounds DEF KeyedFrom
<1>. QED
  BY <1>1 DEF KeyRounds, Keying!Rounds

LEMMA KeyPut ==
  ASSUME NEW pairs, NEW k \in Nat \ {0}, NEW map, KeyedBy(map, pairs, k - 1)
  PROVE  KeyedBy(PutSources(map, pairs[k]), pairs, k)
<1> DEFINE after == PutSources(map, pairs[k])
           name == pairs[k].key
           put == pairs[k].sources
<1>1. after = [x \in DOMAIN map \cup {name} |-> IF x = name THEN put ELSE map[x]]
  BY DEF PutSources, Put
<1>2. /\ k \in 1..k /\ 1..(k - 1) \subseteq 1..k
      /\ \A i \in 1..k : i \in 1..(k - 1) \/ i = k
  OBVIOUS
<1>3. /\ DOMAIN map = {pairs[i].key : i \in 1..(k - 1)}
      /\ \A key \in DOMAIN map : \E i \in 1..(k - 1) : pairs[i].key = key /\ map[key] = pairs[i].sources
  BY DEF KeyedBy
<1> HIDE DEF after
<1>4. DOMAIN after = {pairs[i].key : i \in 1..k}
  <2>1. DOMAIN after = DOMAIN map \cup {name}
    BY <1>1
  <2>2. {pairs[i].key : i \in 1..(k - 1)} \cup {name} = {pairs[i].key : i \in 1..k}
    BY <1>2
  <2>. QED
    BY <1>3, <2>1, <2>2
<1>5. ASSUME NEW key \in DOMAIN after
      PROVE  \E i \in 1..k : pairs[i].key = key /\ after[key] = pairs[i].sources
  <2>1. CASE key = name
    BY <1>1, <1>2, <2>1
  <2>2. CASE key # name
    <3>1. key \in DOMAIN map /\ after[key] = map[key]
      BY <1>1, <2>2
    <3>. QED
      BY <1>2, <1>3, <3>1
  <2>. QED
    BY <2>1, <2>2
<1>. QED
  BY <1>4, <1>5 DEF KeyedBy, after

(* Every key has the sources of an item of that key; if no two items share *)
(* one, each item its own.                                                 *)
LEMMA KeyedFacts ==
  ASSUME NEW pairs, NEW n \in Nat, DOMAIN pairs = 1..n
  PROVE  KeyedBy(KeyedFrom(<<>>, pairs), pairs, n)
<1>1. PICK P : KeyRounds(P, pairs, n) /\ KeyedFrom(<<>>, pairs) = P[n]
  BY KeyedIsLoop
<1> DEFINE T == {k \in 0..n : KeyedBy(P[k], pairs, k)}
<1>2. 0 \in T
  <2>1. P[0] = <<>>
    BY <1>1 DEF KeyRounds
  <2>2. DOMAIN <<>> = {} /\ {pairs[i].key : i \in 1..0} = {}
    OBVIOUS
  <2>. QED
    BY <2>1, <2>2 DEF KeyedBy
<1>3. ASSUME NEW k \in 1..n, k - 1 \in T
      PROVE  k \in T
  <2>1. KeyedBy(P[k - 1], pairs, k - 1) /\ P[k] = PutSources(P[k - 1], pairs[k])
    BY <1>1, <1>3 DEF KeyRounds
  <2>2. k \in Nat \ {0}
    OBVIOUS
  <2>3. KeyedBy(P[k], pairs, k)
    BY <2>1, <2>2, KeyPut
  <2>. QED
    BY <2>3
<1> HIDE DEF T
<1>4. \A k \in 0..n : k \in T
  BY <1>2, <1>3, LoopInduction
<1>5. n \in T
  BY <1>4
<1>. QED
  BY <1>1, <1>5 DEF T

(* The pairs of a list.                                                    *)
IDPairs(items) == [i \in DOMAIN items |-> [key |-> items[i].id, sources |-> items[i].sourceIndexes]]

CallPairs(runs) == [i \in DOMAIN runs |-> [key |-> runs[i].callID, sources |-> runs[i].sourceIndexes]]

MessagePairs(visible) ==
  [i \in DOMAIN visible |-> [key |-> MessageID(visible[i]), sources |-> visible[i].sourceIndexes]]

LEMMA ProvenanceIs ==
  ASSUME NEW visible, NEW plan, NEW runs
  PROVE  LET map == Provenance(visible, plan, runs)
         IN  /\ map.byMessageID = KeyedFrom(<<>>, MessagePairs(visible))
             /\ map.byNarrativeID = KeyedFrom(<<>>, IDPairs(plan.narrative))
             /\ map.bySideEventID = KeyedFrom(<<>>, IDPairs(plan.sideEvents))
             /\ map.byToolCallID = KeyedFrom(<<>>, CallPairs(runs))
<1>1. Provenance(visible, plan, runs).byMessageID = KeyedFrom(<<>>, MessagePairs(visible))
  BY DEF Provenance, KeyedSources, MessagePairs, KeyedFrom, FoldLeft, MapThenFoldSet, Max, Keying!Folded, Keying!MaxOf
<1>2. Provenance(visible, plan, runs).byNarrativeID = KeyedFrom(<<>>, IDPairs(plan.narrative))
  BY DEF Provenance, KeyedSources, IDPairs, KeyedFrom, FoldLeft, MapThenFoldSet, Max, Keying!Folded, Keying!MaxOf
<1>3. Provenance(visible, plan, runs).bySideEventID = KeyedFrom(<<>>, IDPairs(plan.sideEvents))
  BY DEF Provenance, KeyedSources, IDPairs, KeyedFrom, FoldLeft, MapThenFoldSet, Max, Keying!Folded, Keying!MaxOf
<1>4. Provenance(visible, plan, runs).byToolCallID = KeyedFrom(<<>>, CallPairs(runs))
  BY DEF Provenance, KeyedSources, CallPairs, KeyedFrom, FoldLeft, MapThenFoldSet, Max, Keying!Folded, Keying!MaxOf
<1>. QED
  BY <1>1, <1>2, <1>3, <1>4

(* A map by ids or calls that differ holds the sources of each item.       *)
LEMMA OwnSources ==
  ASSUME NEW pairs, NEW n \in Nat, DOMAIN pairs = 1..n, NEW map, map = KeyedFrom(<<>>, pairs),
         \A i, j \in 1..n : pairs[i].key = pairs[j].key => i = j, NEW i \in 1..n
  PROVE  pairs[i].key \in DOMAIN map /\ map[pairs[i].key] = pairs[i].sources
<1>1. KeyedBy(map, pairs, n)
  BY KeyedFacts
<1>2. pairs[i].key \in DOMAIN map
  BY <1>1 DEF KeyedBy
<1>3. PICK j \in 1..n : pairs[j].key = pairs[i].key /\ map[pairs[i].key] = pairs[j].sources
  BY <1>1, <1>2 DEF KeyedBy
<1>. QED
  BY <1>2, <1>3

-----------------------------------------------------------------------------
(* The sources of a message lead to what the events say of it, those of a  *)
(* part to what they say of the part.                                      *)
LeadsToMessage(s, id) == Lead(RawLog(log), s, LAMBDA entry : NamesMessage(entry, id))

LeadsToPart(s, part) == Lead(RawLog(log), s, LAMBDA entry : NamesPart(entry, part))

LEMMA MessageLeads ==
  ASSUME AllInv, ~Corrupt(doc), NEW id, <<id>> \in DOMAIN doc.latest["message"],
         NEW s, s = Sources(doc.latest, "message", <<id>>)
  PROVE  /\ LeadsToMessage(s, id)
         /\ \A i \in DOMAIN ResolveRawSources(RawLog(log), s) :
              ResolveRawSources(RawLog(log), s)[i].rawEntry # Absent
         /\ s # <<>>
<1> DEFINE E == Entries("message", <<id>>)
           resolved == ResolveRawSources(RawLog(log), s)
<1>1. Leads(s, E)
  BY SourcesLead
<1>2. ASSUME NEW n \in E
      PROVE  NamesMessage(RawEntry(log[n]), id)
  <2>1. n \in DOMAIN log /\ log[n].type = "message" /\ LatestKey(log[n]) = <<id>>
    BY DEF Entries
  <2>2. RawEntry(log[n]).kind = "message" /\ <<RawEntry(log[n]).messageID>> = <<id>>
    BY <2>1, EntryFacts
  <2>. QED
    BY <2>2 DEF NamesMessage
<1> HIDE DEF E, resolved
<1>3. /\ resolved # <<>> /\ DOMAIN resolved = DOMAIN s
      /\ \A i \in DOMAIN resolved :
           resolved[i].rawEntry # Absent /\ \E n \in E : resolved[i].rawEntry = RawEntry(log[n])
  BY <1>1 DEF Leads, resolved
<1>4. \A i \in DOMAIN resolved : resolved[i].rawEntry # Absent /\ NamesMessage(resolved[i].rawEntry, id)
  BY <1>2, <1>3
<1>5. s # <<>>
  <2>1. resolved = [i \in DOMAIN s |-> resolved[i]]
    BY DEF resolved, ResolveRawSources
  <2>2. DOMAIN s = {} => resolved = <<>>
    BY <2>1
  <2>. QED
    BY <1>3, <2>2
<1>. QED
  BY <1>3, <1>4, <1>5 DEF LeadsToMessage, Lead, resolved

LEMMA PartLeads ==
  ASSUME AllInv, ~Corrupt(doc), NEW key \in DOMAIN doc.latest["part"], NEW part,
         part = CurrentOf(doc.latest, "part", key), NEW s, s = Sources(doc.latest, "part", key)
  PROVE  /\ LeadsToPart(s, part)
         /\ \A i \in DOMAIN ResolveRawSources(RawLog(log), s) :
              ResolveRawSources(RawLog(log), s)[i].rawEntry # Absent
         /\ s # <<>>
<1> DEFINE E == Entries("part", key)
           resolved == ResolveRawSources(RawLog(log), s)
           m == Get(part, "messageID")
           i == Get(part, "id")
<1>1. Leads(s, E)
  BY SourcesLead
<1>2. key = <<m, i>> /\ m # Absent /\ i # Absent
  BY PartValue
<1>3. part.messageID = m /\ part.id = i
  BY <1>2 DEF Get
<1> HIDE DEF m, i
<1>4. ASSUME NEW n \in E
      PROVE  NamesPart(RawEntry(log[n]), part)
  <2>1. n \in DOMAIN log /\ log[n].type = "part" /\ LatestKey(log[n]) = key
    BY DEF Entries
  <2>2. RawEntry(log[n]).kind # "message" /\ <<RawEntry(log[n]).messageID, RawEntry(log[n]).itemID>> = <<m, i>>
    BY <1>2, <2>1, EntryFacts
  <2>. QED
    BY <1>3, <2>2 DEF NamesPart
<1> HIDE DEF E, resolved
<1>5. /\ resolved # <<>> /\ DOMAIN resolved = DOMAIN s
      /\ \A k \in DOMAIN resolved :
           resolved[k].rawEntry # Absent /\ \E n \in E : resolved[k].rawEntry = RawEntry(log[n])
  BY <1>1 DEF Leads, resolved
<1>6. \A k \in DOMAIN resolved : resolved[k].rawEntry # Absent /\ NamesPart(resolved[k].rawEntry, part)
  BY <1>4, <1>5
<1>7. s # <<>>
  <2>1. resolved = [k \in DOMAIN s |-> resolved[k]]
    BY DEF resolved, ResolveRawSources
  <2>2. DOMAIN s = {} => resolved = <<>>
    BY <2>1
  <2>. QED
    BY <1>5, <2>2
<1>. QED
  BY <1>5, <1>6, <1>7 DEF LeadsToPart, Lead, resolved

-----------------------------------------------------------------------------
(* Traced(s): the sources lead to entries, and are those of something.     *)
Traced(s) ==
  /\ s # <<>>
  /\ \A i \in DOMAIN ResolveRawSources(RawLog(log), s) : ResolveRawSources(RawLog(log), s)[i].rawEntry # Absent

(* The narrative and the messages of the page.                             *)
LEMMA NarrativeLeads ==
  ASSUME AllInv, ~Corrupt(doc), NEW V, NEW c, Visible(V, c), Planned(ThePlan, V, c, c),
         NEW map, map = KeyedFrom(<<>>, IDPairs(ThePlan.narrative))
  PROVE  /\ \A id \in DOMAIN map : LeadsToMessage(map[id], id)
         /\ \A m \in DOMAIN ThePlan.narrative :
              /\ ThePlan.narrative[m].id \in DOMAIN map
              /\ map[ThePlan.narrative[m].id] = ThePlan.narrative[m].sourceIndexes
              /\ Traced(ThePlan.narrative[m].sourceIndexes)
<1> DEFINE told == ThePlan.narrative
           n == Len(told)
           pairs == IDPairs(told)
<1>1. n \in Nat /\ DOMAIN told = 1..n
  BY NarrativeFacts
<1>2. DOMAIN pairs = 1..n /\ \A m \in 1..n : pairs[m].key = told[m].id /\ pairs[m].sources = told[m].sourceIndexes
  BY <1>1 DEF IDPairs
<1>3. \A m, l \in 1..n : told[m].id = told[l].id => m = l
  BY <1>1 DEF Planned, ToldUpTo
<1>4. ASSUME NEW m \in 1..n
      PROVE  /\ <<told[m].id>> \in DOMAIN doc.latest["message"]
             /\ told[m].sourceIndexes = Sources(doc.latest, "message", <<told[m].id>>)
  <2>1. PICK i \in 1..c : IsTold(told[m], V[i])
    BY <1>1 DEF Planned, ToldUpTo
  <2>2. MessageShown(V[i])
    BY DEF Visible
  <2>. QED
    BY <2>1, <2>2 DEF IsTold, MessageShown
<1> HIDE DEF told, n, pairs
<1>5. \A m, l \in 1..n : pairs[m].key = pairs[l].key => m = l
  BY <1>2, <1>3
<1>6. ASSUME NEW m \in 1..n
      PROVE  /\ told[m].id \in DOMAIN map /\ map[told[m].id] = told[m].sourceIndexes
             /\ LeadsToMessage(map[told[m].id], told[m].id)
             /\ Traced(told[m].sourceIndexes)
  <2>1. told[m].id \in DOMAIN map /\ map[told[m].id] = told[m].sourceIndexes
    <3>1. pairs[m].key \in DOMAIN map /\ map[pairs[m].key] = pairs[m].sources
      BY <1>1, <1>2, <1>5, OwnSources DEF pairs, told
    <3>. QED
      BY <1>2, <3>1
  <2> DEFINE id == told[m].id
             s == told[m].sourceIndexes
  <2>2. <<id>> \in DOMAIN doc.latest["message"] /\ s = Sources(doc.latest, "message", <<id>>)
    BY <1>4
  <2> HIDE DEF id, s
  <2>3. LeadsToMessage(s, id)
    BY <2>2, MessageLeads
  <2>4. Traced(s)
    BY <2>2, MessageLeads DEF Traced
  <2>5. map[id] = s /\ id \in DOMAIN map
    BY <2>1 DEF id, s
  <2>6. LeadsToMessage(map[id], id)
    BY <2>3, <2>5
  <2>. QED
    BY <2>4, <2>5, <2>6 DEF id, s
<1>7. ASSUME NEW id \in DOMAIN map
      PROVE  LeadsToMessage(map[id], id)
  <2>1. KeyedBy(map, pairs, n)
    BY <1>1, <1>2, KeyedFacts DEF pairs, told
  <2>2. PICK m \in 1..n : pairs[m].key = id
    BY <2>1 DEF KeyedBy
  <2>3. id = told[m].id
    BY <1>2, <2>2
  <2>. QED
    BY <1>6, <2>3
<1>. QED
  BY <1>1, <1>6, <1>7 DEF told

-----------------------------------------------------------------------------
(* The side events.                                                        *)
LeadsAside(s, event) ==
  Lead(RawLog(log), s, LAMBDA entry : IF event.part = Absent THEN NamesMessage(entry, event.id)
                                      ELSE NamesPart(entry, event.part))

LEMMA LeadsEither ==
  ASSUME NEW s, NEW event
  PROVE  /\ event.part = Absent /\ LeadsToMessage(s, event.id) => LeadsAside(s, event)
         /\ event.part # Absent /\ LeadsToPart(s, event.part) => LeadsAside(s, event)
<1> DEFINE resolved == ResolveRawSources(RawLog(log), s)
           p == event.part
           id == event.id
<1>1. /\ LeadsToMessage(s, id) => /\ resolved # <<>>
                                  /\ \A i \in DOMAIN resolved : /\ resolved[i].rawEntry # Absent
                                                                /\ NamesMessage(resolved[i].rawEntry, id)
      /\ LeadsToPart(s, p) => /\ resolved # <<>>
                              /\ \A i \in DOMAIN resolved : /\ resolved[i].rawEntry # Absent
                                                            /\ NamesPart(resolved[i].rawEntry, p)
  BY DEF LeadsToMessage, LeadsToPart, Lead
<1>2. /\ resolved # <<>>
      /\ \A i \in DOMAIN resolved :
           /\ resolved[i].rawEntry # Absent
           /\ IF p = Absent THEN NamesMessage(resolved[i].rawEntry, id)
              ELSE NamesPart(resolved[i].rawEntry, p)
      => LeadsAside(s, event)
  BY DEF LeadsAside, Lead
<1> HIDE DEF resolved, p, id
<1>3. p = Absent /\ LeadsToMessage(s, id) => LeadsAside(s, event)
  BY <1>1, <1>2
<1>4. p # Absent /\ LeadsToPart(s, p) => LeadsAside(s, event)
  BY <1>1, <1>2
<1>. QED
  BY <1>3, <1>4 DEF p, id

(* What a side event is: a message or a part, with its own sources.        *)
IsSide(x, entry, injected) ==
  IsAside(x, entry, injected) \/ \E j \in DOMAIN entry.parts : SideOfPart(entry, x, j)

LEMMA SideLeads ==
  ASSUME AllInv, ~Corrupt(doc), NEW V, NEW c, Visible(V, c), NEW injected, NEW x, NEW i \in 1..c,
         IsSide(x, V[i], injected)
  PROVE  /\ LeadsAside(x.sourceIndexes, x) /\ Traced(x.sourceIndexes)
         /\ x.kind = "injected_message" => x.id = MessageID(V[i]) /\ x.sourceIndexes = V[i].sourceIndexes
<1>1. MessageShown(V[i]) /\ PartsShown(V[i])
  BY DEF Visible
<1>2. ASSUME IsAside(x, V[i], injected)
      PROVE  /\ LeadsAside(x.sourceIndexes, x) /\ Traced(x.sourceIndexes)
             /\ x.id = MessageID(V[i]) /\ x.sourceIndexes = V[i].sourceIndexes
  <2> DEFINE s == x.sourceIndexes
             id == x.id
  <2>1. x.part = Absent /\ x.id = MessageID(V[i]) /\ x.sourceIndexes = V[i].sourceIndexes
    BY <1>2 DEF IsAside
  <2>2. <<id>> \in DOMAIN doc.latest["message"] /\ s = Sources(doc.latest, "message", <<id>>)
    BY <1>1, <2>1 DEF MessageShown
  <2> HIDE DEF s, id
  <2>3. LeadsToMessage(s, id) /\ Traced(s)
    BY <2>2, MessageLeads DEF Traced
  <2>4. LeadsToMessage(s, x.id)
    BY <2>3 DEF id
  <2>5. LeadsAside(s, x)
    BY <2>1, <2>4, LeadsEither
  <2>. QED
    BY <2>1, <2>3, <2>5 DEF s
<1>3. ASSUME NEW j \in DOMAIN V[i].parts, SideOfPart(V[i], x, j)
      PROVE  /\ LeadsAside(x.sourceIndexes, x) /\ Traced(x.sourceIndexes) /\ x.kind # "injected_message"
  <2> DEFINE key == <<MessageID(V[i]), Get(V[i].parts[j], "id")>>
             part == V[i].parts[j]
             s == x.sourceIndexes
  <2>1. /\ x.part = part /\ x.part # Absent /\ s = PartSourcesAt(V[i], j) /\ x.kind \in SideKinds
    BY <1>3 DEF SideOfPart
  <2>2. /\ key \in DOMAIN doc.latest["part"] /\ part = CurrentOf(doc.latest, "part", key)
        /\ PartSourcesAt(V[i], j) = Sources(doc.latest, "part", key)
    BY <1>1 DEF PartsShown, PartShown
  <2> HIDE DEF key, part, s
  <2>3. LeadsToPart(s, part) /\ Traced(s)
    BY <2>1, <2>2, PartLeads DEF Traced
  <2>4. LeadsToPart(s, x.part)
    BY <2>1, <2>3
  <2>5. LeadsAside(s, x)
    BY <2>1, <2>4, LeadsEither
  <2>. QED
    BY <2>1, <2>3, <2>5 DEF s, SideKinds
<1>. QED
  BY <1>2, <1>3 DEF IsSide

LEMMA AsideLeads ==
  ASSUME AllInv, ~Corrupt(doc), NEW V, NEW c, Visible(V, c), Planned(ThePlan, V, c, c),
         NEW map, map = KeyedFrom(<<>>, IDPairs(ThePlan.sideEvents)),
         NEW m \in DOMAIN ThePlan.sideEvents
  PROVE  LET x == ThePlan.sideEvents[m]
         IN  /\ x.id \in DOMAIN map /\ map[x.id] = x.sourceIndexes
             /\ LeadsAside(map[x.id], x) /\ Traced(x.sourceIndexes)
             /\ x.kind = "injected_message" =>
                  \E i \in 1..c : x.id = MessageID(V[i]) /\ x.sourceIndexes = V[i].sourceIndexes
<1> DEFINE E == ThePlan.sideEvents
           n == Len(E)
           pairs == IDPairs(E)
           x == E[m]
<1>1. n \in Nat /\ DOMAIN E = 1..n
  <2> DEFINE X == Listable(V, c)
  <2>1. E \in Seq(X)
    BY DEF Planned
  <2> HIDE DEF X, E
  <2>. QED
    BY <2>1
<1>2. DOMAIN pairs = 1..n /\ \A l \in 1..n : pairs[l].key = E[l].id /\ pairs[l].sources = E[l].sourceIndexes
  BY <1>1 DEF IDPairs
<1>3. \A k, l \in 1..n : E[k].id = E[l].id => k = l
  BY <1>1 DEF Planned, AsideUpTo
<1>4. PICK i \in 1..c : IsSide(x, V[i], ThePlan.injected)
  BY DEF Planned, AsideUpTo, IsSide
<1>5. m \in 1..n
  BY <1>1
<1> HIDE DEF pairs, E, n
<1>6. pairs[m].key \in DOMAIN map /\ map[pairs[m].key] = pairs[m].sources
  <2>1. \A k, l \in 1..n : pairs[k].key = pairs[l].key => k = l
    BY <1>2, <1>3
  <2>. QED
    BY <1>1, <1>2, <1>5, <2>1, OwnSources DEF pairs, E
<1>7. x.id \in DOMAIN map /\ map[x.id] = x.sourceIndexes
  BY <1>2, <1>5, <1>6
<1> HIDE DEF x
<1>8. /\ LeadsAside(x.sourceIndexes, x) /\ Traced(x.sourceIndexes)
      /\ x.kind = "injected_message" => x.id = MessageID(V[i]) /\ x.sourceIndexes = V[i].sourceIndexes
  BY <1>4, SideLeads
<1>. QED
  BY <1>7, <1>8 DEF x, E

(* The messages of the page, by their ids.                                 *)
LEMMA MessageMap ==
  ASSUME AllInv, NEW V, NEW c, Visible(V, c), NEW map, map = KeyedFrom(<<>>, MessagePairs(V)), NEW i \in 1..c
  PROVE  MessageID(V[i]) \in DOMAIN map /\ map[MessageID(V[i])] = V[i].sourceIndexes
<1> DEFINE pairs == MessagePairs(V)
<1>1. c \in Nat /\ DOMAIN V = 1..c /\ \A k, l \in 1..c : MessageID(V[k]) = MessageID(V[l]) => k = l
  BY DEF Visible
<1>2. DOMAIN pairs = 1..c /\ \A l \in 1..c : /\ pairs[l].key = MessageID(V[l])
                                             /\ pairs[l].sources = V[l].sourceIndexes
  BY <1>1 DEF MessagePairs
<1> HIDE DEF pairs
<1>3. \A k, l \in 1..c : pairs[k].key = pairs[l].key => k = l
  BY <1>1, <1>2
<1>4. pairs[i].key \in DOMAIN map /\ map[pairs[i].key] = pairs[i].sources
  BY <1>1, <1>2, <1>3, OwnSources DEF pairs
<1>. QED
  BY <1>2, <1>4

(* The tool runs: each has the sources of its part; the map those of a run *)
(* of that call, the run's own if no two calls are one.                    *)
LEMMA CallsLead ==
  ASSUME AllInv, ~Corrupt(doc), NEW map, map = KeyedFrom(<<>>, CallPairs(TheRuns)),
         NEW i \in DOMAIN TheRuns
  PROVE  /\ LeadsToPart(TheRuns[i].sourceIndexes, TheRuns[i].part) /\ Traced(TheRuns[i].sourceIndexes)
         /\ TheRuns[i].callID \in DOMAIN map /\ Traced(map[TheRuns[i].callID])
         /\ (\A k, l \in DOMAIN TheRuns : TheRuns[k].callID = TheRuns[l].callID => k = l) =>
              map[TheRuns[i].callID] = TheRuns[i].sourceIndexes
<1> DEFINE pairs == CallPairs(TheRuns)
<1>1. PICK q \in Nat : DOMAIN TheRuns = 1..q
  BY RunsFacts
<1>2. DOMAIN pairs = 1..q /\ \A l \in 1..q : /\ pairs[l].key = TheRuns[l].callID
                                             /\ pairs[l].sources = TheRuns[l].sourceIndexes
  BY <1>1 DEF CallPairs
<1>3. ASSUME NEW l \in 1..q
      PROVE  /\ LeadsToPart(TheRuns[l].sourceIndexes, TheRuns[l].part)
             /\ Traced(TheRuns[l].sourceIndexes)
  <2> DEFINE run == TheRuns[l]
             s == run.sourceIndexes
             part == run.part
  <2>1. PICK key \in DOMAIN doc.latest["part"] : RunOf(run, key)
    BY <1>1, RunsAre
  <2>2. part = CurrentOf(doc.latest, "part", key) /\ s = Sources(doc.latest, "part", key)
    BY <2>1 DEF RunOf
  <2> HIDE DEF run, s, part
  <2>3. LeadsToPart(s, part) /\ Traced(s)
    BY <2>2, PartLeads DEF Traced
  <2>. QED
    BY <2>3 DEF s, part, run
<1> HIDE DEF pairs
<1>4. KeyedBy(map, pairs, q)
  BY <1>2, KeyedFacts DEF pairs
<1>5. i \in 1..q
  BY <1>1
<1>6. TheRuns[i].callID \in DOMAIN map
  BY <1>2, <1>4, <1>5 DEF KeyedBy
<1>7. Traced(map[TheRuns[i].callID])
  <2>1. PICK l \in 1..q : map[TheRuns[i].callID] = pairs[l].sources
    BY <1>4, <1>6 DEF KeyedBy
  <2>. QED
    BY <1>2, <1>3, <2>1
<1>8. ASSUME \A k, l \in DOMAIN TheRuns : TheRuns[k].callID = TheRuns[l].callID => k = l
      PROVE  map[TheRuns[i].callID] = TheRuns[i].sourceIndexes
  <2>1. \A k, l \in 1..q : pairs[k].key = pairs[l].key => k = l
    BY <1>1, <1>2, <1>8
  <2>2. map[pairs[i].key] = pairs[i].sources
    BY <1>2, <1>5, <2>1, OwnSources DEF pairs
  <2>. QED
    BY <1>2, <1>5, <2>2
<1>. QED
  BY <1>3, <1>5, <1>6, <1>7, <1>8

-----------------------------------------------------------------------------
(* The rows of the inspector.                                              *)
LEMMA FirstKept ==
  ASSUME NEW seq, NEW n \in Nat, NEW I \in SUBSET (1..n), Kept(seq, I) # <<>>
  PROVE  \E i \in I : Head(Kept(seq, I)) = seq[i]
<1> DEFINE s == Kept(seq, I)
           q == Cardinality(I)
           Y == {s[k] : k \in 1..q}
<1>1. /\ q \in Nat /\ DOMAIN s = 1..q
      /\ \A k \in DOMAIN s : \E i \in I : s[k] = seq[i]
  BY KeptFacts
<1>2. s = [k \in 1..q |-> s[k]]
  BY <1>1 DEF Kept
<1> HIDE DEF s, q
<1>3. \A k \in 1..q : s[k] \in Y
  OBVIOUS
<1> HIDE DEF Y
<1>4. s \in Seq(Y) /\ DOMAIN s = 1..q
  BY <1>1, <1>2, <1>3, ListIn
<1>5. s # <<>>
  BY DEF s
<1>6. Head(s) = s[1] /\ 1 \in DOMAIN s
  <2>1. q = 0 => s = <<>>
    BY <1>2
  <2>2. 1 \in 1..q
    BY <1>1, <1>5, <2>1
  <2>3. 1 \in DOMAIN s
    BY <1>4, <2>2
  <2>. QED
    BY <1>4, <2>3
<1>. QED
  BY <1>1, <1>6 DEF s

Sourcing(items) == Kept(items, {i \in DOMAIN items : items[i].sourceIndexes # <<>>})

LEMMA FirstSourced ==
  ASSUME NEW items, NEW n \in Nat, DOMAIN items = 1..n, Sourcing(items) # <<>>
  PROVE  \E i \in 1..n : Head(Sourcing(items)) = items[i]
<1> DEFINE I == {i \in DOMAIN items : items[i].sourceIndexes # <<>>}
<1>1. I \in SUBSET (1..n) /\ Sourcing(items) = Kept(items, I)
  BY DEF Sourcing
<1> HIDE DEF I
<1>. QED
  BY <1>1, FirstKept

TargetOf(category, item, key, map) ==
  [category |-> category, item |-> item,
   sourceIndexes |-> IF key \in DOMAIN map THEN map[key] ELSE item.sourceIndexes]

OneTarget(category, item, key, map, sourced) ==
  IF sourced = <<>> THEN <<>> ELSE <<TargetOf(category, item, key, map)>>

LEMMA TargetsAre ==
  ASSUME NEW view, NEW map, map = view.provenance
  PROVE  LET told == Sourcing(view.mainNarrative)
             injected == Sourcing(InjectedMessages(view))
             aside == Sourcing(SideEvents(view))
             called == Sourcing(view.toolRuns)
         IN  RepresentativeTargets(view) =
               OneTarget("narrative", Head(told), Head(told).id, map.byNarrativeID, told)
               \o OneTarget("injected", Head(injected), Head(injected).value.id, map.byMessageID, injected)
               \o OneTarget("side-event", Head(aside), Head(aside).id, map.bySideEventID, aside)
               \o OneTarget("tool-run", Head(called), Head(called).callID, map.byToolCallID, called)
BY DEF RepresentativeTargets, Target, OneTarget, TargetOf, Sourcing, Filter

CallsApart == \A k, l \in DOMAIN TheRuns : TheRuns[k].callID = TheRuns[l].callID => k = l

TargetHolds(target) ==
  /\ Traced(target.sourceIndexes)
  /\ CallsApart \/ target.category # "tool-run" => target.sourceIndexes = target.item.sourceIndexes

LEMMA TargetKnown ==
  ASSUME NEW category, NEW item, NEW key, NEW map, key \in DOMAIN map, Traced(map[key]),
         CallsApart \/ category # "tool-run" => map[key] = item.sourceIndexes
  PROVE  TargetHolds(TargetOf(category, item, key, map))
<1>1. /\ TargetOf(category, item, key, map).sourceIndexes = map[key]
      /\ TargetOf(category, item, key, map).category = category
      /\ TargetOf(category, item, key, map).item = item
  BY DEF TargetOf
<1>. QED
  BY <1>1 DEF TargetHolds

LEMMA TargetListed ==
  ASSUME NEW category, NEW item, NEW key, NEW map, NEW sourced, NEW T,
         sourced # <<>> => TargetOf(category, item, key, map) \in T
  PROVE  OneTarget(category, item, key, map, sourced) \in Seq(T)
<1> DEFINE t == TargetOf(category, item, key, map)
<1>1. OneTarget(category, item, key, map, sourced) = IF sourced = <<>> THEN <<>> ELSE <<t>>
  BY DEF OneTarget
<1> HIDE DEF t
<1>2. sourced # <<>> => t \in T
  BY DEF t
<1>. QED
  BY <1>1, <1>2

LEMMA FourJoined ==
  ASSUME NEW T, NEW a \in Seq(T), NEW b \in Seq(T), NEW c \in Seq(T), NEW d \in Seq(T)
  PROVE  a \o b \o c \o d \in Seq(T)
OBVIOUS

-----------------------------------------------------------------------------
(* The lists the inspector takes its examples from.                        *)
LEMMA SideListed ==
  ASSUME NEW plan, NEW b \in Nat, plan.sideEvents = [i \in 1..b |-> plan.sideEvents[i]],
         NEW view, view.sideItems = SideItems(plan)
  PROVE  /\ \E n \in Nat : DOMAIN SideEvents(view) = 1..n
         /\ \A k \in DOMAIN SideEvents(view) : \E m \in DOMAIN plan.sideEvents :
              SideEvents(view)[k] = plan.sideEvents[m]
         /\ \E a \in Nat : DOMAIN InjectedOf(plan) = 1..a
         /\ \A k \in DOMAIN InjectedOf(plan) : \E m \in DOMAIN plan.sideEvents :
              /\ InjectedOf(plan)[k] = plan.sideEvents[m]
              /\ plan.sideEvents[m].kind = "injected_message"
<1> DEFINE E == plan.sideEvents
           I == {i \in DOMAIN E : E[i].kind = "injected_message"}
           R == {i \in DOMAIN E : E[i].id \notin plan.injected}
           S == SideItems(plan)
           K == {i \in DOMAIN S : S[i].kind # "injected_message"}
           Y == {E[m] : m \in 1..b}
<1>1. S = Kept(E, I) \o Kept(E, R) /\ InjectedOf(plan) = Kept(E, I) /\ SideEvents(view) = Kept(S, K)
  BY DEF SideItems, InjectedOf, SideEvents, Filter
<1>2. DOMAIN E = 1..b /\ I \in SUBSET (1..b) /\ R \in SUBSET (1..b)
  OBVIOUS
<1>3. E \in Seq(Y) /\ Len(E) = b
  <2>1. E = [i \in 1..b |-> E[i]]
    OBVIOUS
  <2> HIDE DEF E
  <2>2. \A i \in 1..b : E[i] \in Y
    OBVIOUS
  <2> HIDE DEF Y
  <2>. QED
    BY <2>1, <2>2, ListIn
<1>4. \A i \in I : E[i].kind = "injected_message"
  OBVIOUS
<1>5. K \in SUBSET (DOMAIN S)
  OBVIOUS
<1>6. \A y \in Y : \E m \in DOMAIN E : y = E[m]
  BY <1>2
<1> HIDE DEF E, I, R, S, K, Y
<1>7. Kept(E, I) \in Seq(Y) /\ Kept(E, R) \in Seq(Y)
  BY <1>2, <1>3, HitsKept
<1>8. S \in Seq(Y)
  BY <1>1, <1>7
<1>9. Len(S) \in Nat /\ DOMAIN S = 1..Len(S) /\ \A i \in DOMAIN S : S[i] \in Y
  BY <1>8
<1>10. /\ Cardinality(K) \in Nat /\ DOMAIN Kept(S, K) = 1..Cardinality(K)
       /\ \A k \in DOMAIN Kept(S, K) : \E i \in K : Kept(S, K)[k] = S[i]
  <2>1. Len(S) \in Nat /\ K \in SUBSET (1..Len(S))
    BY <1>5, <1>9
  <2>. QED
    BY <2>1, KeptFacts
<1>11. ASSUME NEW k \in DOMAIN Kept(S, K)
       PROVE  \E m \in DOMAIN E : Kept(S, K)[k] = E[m]
  <2>1. PICK i \in K : Kept(S, K)[k] = S[i]
    BY <1>10
  <2>2. S[i] \in Y
    BY <1>5, <1>9
  <2>. QED
    BY <1>6, <2>1, <2>2
<1>12. /\ Cardinality(I) \in Nat /\ DOMAIN Kept(E, I) = 1..Cardinality(I)
       /\ \A k \in DOMAIN Kept(E, I) : \E i \in I : Kept(E, I)[k] = E[i]
  BY <1>2, KeptFacts
<1>13. \A k \in DOMAIN Kept(E, I) : \E m \in DOMAIN E :
         Kept(E, I)[k] = E[m] /\ E[m].kind = "injected_message"
  BY <1>2, <1>4, <1>12
<1>14. /\ \E n \in Nat : DOMAIN SideEvents(view) = 1..n
       /\ \A k \in DOMAIN SideEvents(view) : \E m \in DOMAIN E : SideEvents(view)[k] = E[m]
  BY <1>1, <1>10, <1>11
<1>15. /\ \E a \in Nat : DOMAIN InjectedOf(plan) = 1..a
       /\ \A k \in DOMAIN InjectedOf(plan) : \E m \in DOMAIN E :
            InjectedOf(plan)[k] = E[m] /\ E[m].kind = "injected_message"
  BY <1>1, <1>12, <1>13
<1>. QED
  BY <1>14, <1>15 DEF E

LEMMA InjectedListed ==
  ASSUME NEW plan, NEW runs, NEW a \in Nat, NEW b \in Nat, NEW q \in Nat,
         DOMAIN InjectedOf(plan) = 1..a, DOMAIN plan.sideEvents = 1..b, DOMAIN runs = 1..q,
         NEW view, view.debugItems = DebugItems(plan, runs)
  PROVE  /\ \E n \in Nat : DOMAIN InjectedMessages(view) = 1..n
         /\ \A k \in DOMAIN InjectedMessages(view) : \E i \in 1..a :
              /\ InjectedMessages(view)[k].value = InjectedOf(plan)[i]
              /\ InjectedMessages(view)[k].sourceIndexes = InjectedOf(plan)[i].sourceIndexes
<1> DEFINE inj == InjectedOf(plan)
           E == plan.sideEvents
           one == [i \in DOMAIN inj |-> DebugItem("injected", inj[i].id, inj[i])]
           two == [i \in DOMAIN E |-> DebugItem("side", E[i].id, E[i])]
           three == [i \in DOMAIN runs |-> DebugItem("tool", runs[i].callID, runs[i])]
           s == DebugItems(plan, runs)
           Y == {one[i] : i \in 1..a} \cup {two[i] : i \in 1..b} \cup {three[i] : i \in 1..q}
           I == {i \in DOMAIN s : s[i].injected}
<1>1. s = one \o two \o three
  BY DEF DebugItems
<1>2. /\ \A i \in 1..a : /\ one[i].value = inj[i] /\ one[i].sourceIndexes = inj[i].sourceIndexes
      /\ \A i \in 1..b : two[i].injected = FALSE
      /\ \A i \in 1..q : three[i].injected = FALSE
  BY DEF DebugItem
<1>3. one = [i \in 1..a |-> one[i]] /\ two = [i \in 1..b |-> two[i]] /\ three = [i \in 1..q |-> three[i]]
  OBVIOUS
<1>4. InjectedMessages(view) = Kept(s, I) /\ I \in SUBSET (DOMAIN s) /\ \A i \in I : s[i].injected
  BY DEF InjectedMessages, Filter
<1> HIDE DEF one, two, three, s, I
<1>5. (\A i \in 1..a : one[i] \in Y) /\ (\A i \in 1..b : two[i] \in Y) /\ (\A i \in 1..q : three[i] \in Y)
  OBVIOUS
<1>6. ASSUME NEW y \in Y, y.injected
      PROVE  \E i \in 1..a : y.value = inj[i] /\ y.sourceIndexes = inj[i].sourceIndexes
  <2>1. ~ \E i \in 1..b : y = two[i]
    BY <1>2, <1>6
  <2>2. ~ \E i \in 1..q : y = three[i]
    BY <1>2, <1>6
  <2>3. \E i \in 1..a : y = one[i]
    BY <2>1, <2>2
  <2>. QED
    BY <1>2, <2>3
<1> HIDE DEF Y, inj
<1>7. one \in Seq(Y) /\ two \in Seq(Y) /\ three \in Seq(Y)
  BY <1>3, <1>5, ListIn
<1>8. s \in Seq(Y)
  BY <1>1, <1>7
<1>9. Len(s) \in Nat /\ DOMAIN s = 1..Len(s) /\ \A i \in DOMAIN s : s[i] \in Y
  BY <1>8
<1>10. /\ Cardinality(I) \in Nat /\ DOMAIN Kept(s, I) = 1..Cardinality(I)
       /\ \A k \in DOMAIN Kept(s, I) : \E i \in I : Kept(s, I)[k] = s[i]
  <2>1. I \in SUBSET (1..Len(s))
    BY <1>4, <1>9
  <2>. QED
    BY <1>9, <2>1, KeptFacts
<1>11. ASSUME NEW k \in DOMAIN Kept(s, I)
       PROVE  \E i \in 1..a : /\ Kept(s, I)[k].value = inj[i]
                              /\ Kept(s, I)[k].sourceIndexes = inj[i].sourceIndexes
  <2>1. PICK i \in I : Kept(s, I)[k] = s[i]
    BY <1>10
  <2>2. s[i] \in Y /\ s[i].injected
    BY <1>4, <1>9
  <2>. QED
    BY <1>6, <2>1, <2>2
<1>. QED
  BY <1>4, <1>10, <1>11 DEF inj

-----------------------------------------------------------------------------
(* Everything the inspector shows leads to entries of the raw log.         *)
LEMMA ToldTarget ==
  ASSUME AllInv, ~Corrupt(doc), NEW V, NEW c, Visible(V, c), Planned(ThePlan, V, c, c),
         NEW map, map = KeyedFrom(<<>>, IDPairs(ThePlan.narrative)),
         NEW list, list = Sourcing(TheNarrative), list # <<>>
  PROVE  TargetHolds(TargetOf("narrative", Head(list), Head(list).id, map))
<1> DEFINE item == Head(list)
           n == Len(ThePlan.narrative)
<1>1. n \in Nat /\ DOMAIN ThePlan.narrative = 1..n
  BY NarrativeFacts
<1>2. /\ DOMAIN TheNarrative = 1..n
      /\ \A i \in 1..n : TheNarrative[i] = NarrativeViewItem(doc.latest, ThePlan.narrative[i])
  BY <1>1 DEF TheNarrative
<1>3. PICK i \in 1..n : item = TheNarrative[i]
  BY <1>1, <1>2, FirstSourced
<1>4. item.id = ThePlan.narrative[i].id /\ item.sourceIndexes = ThePlan.narrative[i].sourceIndexes
  <2> HIDE DEF item
  <2>1. item = NarrativeViewItem(doc.latest, ThePlan.narrative[i])
    BY <1>2, <1>3
  <2>. QED
    BY <2>1 DEF NarrativeViewItem
<1> HIDE DEF item
<1>5. /\ item.id \in DOMAIN map /\ map[item.id] = item.sourceIndexes /\ Traced(item.sourceIndexes)
  <2>1. i \in DOMAIN ThePlan.narrative
    BY <1>1
  <2>. QED
    BY <1>4, <2>1, NarrativeLeads
<1>6. TargetHolds(TargetOf("narrative", item, item.id, map))
  BY <1>5, TargetKnown
<1>. QED
  BY <1>6 DEF item

LEMMA InjectedTarget ==
  ASSUME AllInv, ~Corrupt(doc), NEW V, NEW c, Visible(V, c), Planned(ThePlan, V, c, c),
         NEW map, map = KeyedFrom(<<>>, MessagePairs(V)), NEW view,
         view.sideItems = SideItems(ThePlan), view.debugItems = DebugItems(ThePlan, TheRuns),
         NEW list, list = Sourcing(InjectedMessages(view)), list # <<>>
  PROVE  TargetHolds(TargetOf("injected", Head(list), Head(list).value.id, map))
<1> DEFINE item == Head(list)
           E == ThePlan.sideEvents
           b == Len(E)
           inj == InjectedOf(ThePlan)
           messages == InjectedMessages(view)
<1>1. b \in Nat /\ DOMAIN E = 1..b /\ E = [i \in 1..b |-> E[i]]
  <2> DEFINE X == Listable(V, c)
  <2>1. E \in Seq(X)
    BY DEF Planned
  <2> HIDE DEF X, E
  <2>. QED
    BY <2>1
<1>2. PICK q \in Nat : DOMAIN TheRuns = 1..q
  BY RunsFacts
<1>3. /\ \E a \in Nat : DOMAIN inj = 1..a
      /\ \A k \in DOMAIN inj : \E m \in DOMAIN E : inj[k] = E[m] /\ E[m].kind = "injected_message"
  <2> HIDE DEF b
  <2>. QED
    BY <1>1, SideListed
<1>4. PICK a \in Nat : DOMAIN inj = 1..a
  BY <1>3
<1>5. /\ \E n \in Nat : DOMAIN messages = 1..n
      /\ \A k \in DOMAIN messages : \E i \in 1..a :
           messages[k].value = inj[i] /\ messages[k].sourceIndexes = inj[i].sourceIndexes
  <2> HIDE DEF b
  <2>. QED
    BY <1>1, <1>2, <1>4, InjectedListed
<1>6. PICK n \in Nat : DOMAIN messages = 1..n
  BY <1>5
<1>7. PICK k \in 1..n : item = messages[k]
  <2> HIDE DEF messages
  <2>1. list = Sourcing(messages)
    BY DEF messages
  <2>. QED
    BY <1>6, <2>1, FirstSourced
<1>8. PICK i \in 1..a : item.value = inj[i] /\ item.sourceIndexes = inj[i].sourceIndexes
  BY <1>5, <1>6, <1>7
<1>9. PICK m \in DOMAIN E : inj[i] = E[m] /\ E[m].kind = "injected_message"
  BY <1>3, <1>4
<1> HIDE DEF item, inj, messages, b
<1>10. /\ Traced(E[m].sourceIndexes)
       /\ \E l \in 1..c : E[m].id = MessageID(V[l]) /\ E[m].sourceIndexes = V[l].sourceIndexes
  BY <1>9, AsideLeads
<1>11. PICK l \in 1..c : E[m].id = MessageID(V[l]) /\ E[m].sourceIndexes = V[l].sourceIndexes
  BY <1>10
<1>12. MessageID(V[l]) \in DOMAIN map /\ map[MessageID(V[l])] = V[l].sourceIndexes
  BY MessageMap
<1> DEFINE id == item.value.id
<1>13. id = E[m].id /\ item.sourceIndexes = E[m].sourceIndexes
  BY <1>8, <1>9
<1> HIDE DEF id, E
<1>14. id \in DOMAIN map /\ map[id] = item.sourceIndexes /\ Traced(map[id])
  BY <1>10, <1>11, <1>12, <1>13
<1>15. TargetHolds(TargetOf("injected", item, id, map))
  BY <1>14, TargetKnown
<1>. QED
  BY <1>15 DEF item, id

LEMMA AsideTarget ==
  ASSUME AllInv, ~Corrupt(doc), NEW V, NEW c, Visible(V, c), Planned(ThePlan, V, c, c),
         NEW map, map = KeyedFrom(<<>>, IDPairs(ThePlan.sideEvents)), NEW view,
         view.sideItems = SideItems(ThePlan),
         NEW list, list = Sourcing(SideEvents(view)), list # <<>>
  PROVE  TargetHolds(TargetOf("side-event", Head(list), Head(list).id, map))
<1> DEFINE item == Head(list)
           E == ThePlan.sideEvents
           b == Len(E)
           events == SideEvents(view)
<1>1. b \in Nat /\ DOMAIN E = 1..b /\ E = [i \in 1..b |-> E[i]]
  <2> DEFINE X == Listable(V, c)
  <2>1. E \in Seq(X)
    BY DEF Planned
  <2> HIDE DEF X, E
  <2>. QED
    BY <2>1
<1>2. /\ \E n \in Nat : DOMAIN events = 1..n
      /\ \A k \in DOMAIN events : \E m \in DOMAIN E : events[k] = E[m]
  <2> HIDE DEF b
  <2>. QED
    BY <1>1, SideListed
<1>3. PICK n \in Nat : DOMAIN events = 1..n
  BY <1>2
<1>4. PICK k \in 1..n : item = events[k]
  <2> HIDE DEF events
  <2>1. list = Sourcing(events)
    BY DEF events
  <2>. QED
    BY <1>3, <2>1, FirstSourced
<1>5. PICK m \in DOMAIN E : item = E[m]
  BY <1>2, <1>3, <1>4
<1> HIDE DEF item, events, b
<1>6. E[m].id \in DOMAIN map /\ map[E[m].id] = E[m].sourceIndexes /\ Traced(E[m].sourceIndexes)
  BY AsideLeads
<1>7. item.id \in DOMAIN map /\ map[item.id] = item.sourceIndexes /\ Traced(item.sourceIndexes)
  BY <1>5, <1>6
<1>8. TargetHolds(TargetOf("side-event", item, item.id, map))
  BY <1>7, TargetKnown
<1>. QED
  BY <1>8 DEF item

LEMMA CalledTarget ==
  ASSUME AllInv, ~Corrupt(doc), NEW map, map = KeyedFrom(<<>>, CallPairs(TheRuns)),
         NEW list, list = Sourcing(TheRuns), list # <<>>
  PROVE  TargetHolds(TargetOf("tool-run", Head(list), Head(list).callID, map))
<1> DEFINE item == Head(list)
<1>1. PICK q \in Nat : DOMAIN TheRuns = 1..q
  BY RunsFacts
<1>2. PICK i \in 1..q : item = TheRuns[i]
  BY <1>1, FirstSourced
<1> HIDE DEF item
<1>3. /\ item.callID \in DOMAIN map /\ Traced(map[item.callID])
      /\ CallsApart => map[item.callID] = item.sourceIndexes
  BY <1>1, <1>2, CallsLead DEF CallsApart
<1>4. TargetHolds(TargetOf("tool-run", item, item.callID, map))
  BY <1>3, TargetKnown
<1>. QED
  BY <1>4 DEF item

LEMMA RowsLead ==
  ASSUME AllInv, ~Corrupt(doc), NEW view, view = View
  PROVE  LET targets == RepresentativeTargets(view)
             rows == InspectorRows(view, RawLog(log))
         IN  /\ \A i \in DOMAIN targets : TargetHolds(targets[i])
             /\ DOMAIN rows = DOMAIN targets
             /\ \A i \in DOMAIN rows :
                  /\ rows[i].target = targets[i]
                  /\ rows[i].sources = ResolveRawSources(RawLog(log), targets[i].sourceIndexes)
<1> DEFINE V == VisibleMessages(doc.latest)
           map == view.provenance
           told == Sourcing(view.mainNarrative)
           injected == Sourcing(InjectedMessages(view))
           aside == Sourcing(SideEvents(view))
           called == Sourcing(view.toolRuns)
           one == TargetOf("narrative", Head(told), Head(told).id, map.byNarrativeID)
           two == TargetOf("injected", Head(injected), Head(injected).value.id, map.byMessageID)
           three == TargetOf("side-event", Head(aside), Head(aside).id, map.bySideEventID)
           four == TargetOf("tool-run", Head(called), Head(called).callID, map.byToolCallID)
           T == {t \in {one, two, three, four} : TargetHolds(t)}
           targets == RepresentativeTargets(view)
           rows == InspectorRows(view, RawLog(log))
<1>1. PICK c \in Nat : Visible(V, c)
  BY VisibleFacts
<1>2. Planned(ThePlan, V, c, c)
  BY <1>1, PlanFacts DEF ThePlan
<1>3. /\ view.mainNarrative = TheNarrative /\ view.toolRuns = TheRuns
      /\ view.sideItems = SideItems(ThePlan) /\ view.debugItems = DebugItems(ThePlan, TheRuns)
      /\ map = Provenance(V, ThePlan, TheRuns)
  BY ViewIs DEF ViewLists
<1> HIDE DEF V, map
<1>4. /\ map.byMessageID = KeyedFrom(<<>>, MessagePairs(V))
      /\ map.byNarrativeID = KeyedFrom(<<>>, IDPairs(ThePlan.narrative))
      /\ map.bySideEventID = KeyedFrom(<<>>, IDPairs(ThePlan.sideEvents))
      /\ map.byToolCallID = KeyedFrom(<<>>, CallPairs(TheRuns))
  BY <1>3, ProvenanceIs
<1>5. told # <<>> => TargetHolds(one)
  BY <1>1, <1>2, <1>3, <1>4, ToldTarget
<1>6. injected # <<>> => TargetHolds(two)
  BY <1>1, <1>2, <1>3, <1>4, InjectedTarget
<1>7. aside # <<>> => TargetHolds(three)
  BY <1>1, <1>2, <1>3, <1>4, AsideTarget
<1>8. called # <<>> => TargetHolds(four)
  BY <1>3, <1>4, CalledTarget
<1>9. targets = OneTarget("narrative", Head(told), Head(told).id, map.byNarrativeID, told)
                \o OneTarget("injected", Head(injected), Head(injected).value.id, map.byMessageID, injected)
                \o OneTarget("side-event", Head(aside), Head(aside).id, map.bySideEventID, aside)
                \o OneTarget("tool-run", Head(called), Head(called).callID, map.byToolCallID, called)
  BY TargetsAre DEF map
<1> HIDE DEF told, injected, aside, called, targets
<1>10. /\ told # <<>> => one \in T
       /\ injected # <<>> => two \in T
       /\ aside # <<>> => three \in T
       /\ called # <<>> => four \in T
  <2> HIDE DEF one, two, three, four
  <2>. QED
    BY <1>5, <1>6, <1>7, <1>8
<1>11. \A t \in T : TargetHolds(t)
  <2> HIDE DEF one, two, three, four
  <2>. QED
    OBVIOUS
<1> HIDE DEF T
<1>12. /\ OneTarget("narrative", Head(told), Head(told).id, map.byNarrativeID, told) \in Seq(T)
       /\ OneTarget("injected", Head(injected), Head(injected).value.id, map.byMessageID, injected) \in Seq(T)
       /\ OneTarget("side-event", Head(aside), Head(aside).id, map.bySideEventID, aside) \in Seq(T)
       /\ OneTarget("tool-run", Head(called), Head(called).callID, map.byToolCallID, called) \in Seq(T)
  BY <1>10, TargetListed
<1>13. targets \in Seq(T)
  BY <1>9, <1>12, FourJoined
<1>14. \A i \in DOMAIN targets : TargetHolds(targets[i])
  <2>1. \A i \in DOMAIN targets : targets[i] \in T
    BY <1>13
  <2>. QED
    BY <1>11, <2>1
<1>15. rows = [i \in DOMAIN targets |->
                 [target |-> targets[i],
                  sources |-> ResolveRawSources(RawLog(log), targets[i].sourceIndexes)]]
  BY DEF InspectorRows, targets
<1>. QED
  BY <1>14, <1>15 DEF targets

(* The property, said with these operators.                                *)
LEMMA AllLead ==
  ASSUME NEW view, NEW side
  PROVE  LET map == view.provenance
             rows == InspectorRows(view, RawLog(log))
             callOf(run) == run.callID
         IN  /\ \A id \in DOMAIN map.byNarrativeID : LeadsToMessage(map.byNarrativeID[id], id)
             /\ \A i \in DOMAIN side : LeadsAside(map.bySideEventID[side[i].id], side[i])
             /\ Distinct(view.toolRuns, callOf) => \A i \in DOMAIN view.toolRuns :
                  LeadsToPart(map.byToolCallID[view.toolRuns[i].callID], view.toolRuns[i].part)
             /\ \A i \in DOMAIN rows :
                  /\ Distinct(view.toolRuns, callOf) \/ rows[i].target.category # "tool-run" =>
                       rows[i].target.sourceIndexes = rows[i].target.item.sourceIndexes
                  /\ \A n \in DOMAIN rows[i].sources : rows[i].sources[n].rawEntry # Absent
             => AllSourcesLead(view, RawLog(log), side)
BY DEF AllSourcesLead, LeadsToMessage, LeadsAside, LeadsToPart

LEMMA SourcesFollow == AllInv => SourcesLeadHome
<1> SUFFICES ASSUME AllInv, ~Corrupt(doc), NEW view, view = View
             PROVE  AllSourcesLead(view, RawLog(log), Plan(doc.latest).sideEvents)
  BY DEF SourcesLeadHome
<1> DEFINE V == VisibleMessages(doc.latest)
           map == view.provenance
           rows == InspectorRows(view, RawLog(log))
           targets == RepresentativeTargets(view)
           E == ThePlan.sideEvents
           callOf(run) == run.callID
           apart == Distinct(view.toolRuns, callOf)
<1>1. PICK c \in Nat : Visible(V, c)
  BY VisibleFacts
<1>2. Planned(ThePlan, V, c, c)
  BY <1>1, PlanFacts DEF ThePlan
<1>3. view.toolRuns = TheRuns /\ map = Provenance(V, ThePlan, TheRuns)
  BY ViewIs DEF ViewLists
<1> HIDE DEF V, map
<1>4. /\ map.byNarrativeID = KeyedFrom(<<>>, IDPairs(ThePlan.narrative))
      /\ map.bySideEventID = KeyedFrom(<<>>, IDPairs(E))
      /\ map.byToolCallID = KeyedFrom(<<>>, CallPairs(TheRuns))
  BY <1>3, ProvenanceIs
<1>5. apart <=> CallsApart
  BY <1>3 DEF Distinct, CallsApart
<1>6. \A id \in DOMAIN map.byNarrativeID : LeadsToMessage(map.byNarrativeID[id], id)
  BY <1>1, <1>2, <1>4, NarrativeLeads
<1>7. \A i \in DOMAIN E : LeadsAside(map.bySideEventID[E[i].id], E[i])
  BY <1>1, <1>2, <1>4, AsideLeads
<1>8. ASSUME CallsApart, NEW i \in DOMAIN TheRuns
      PROVE  LeadsToPart(map.byToolCallID[TheRuns[i].callID], TheRuns[i].part)
  <2>1. /\ LeadsToPart(TheRuns[i].sourceIndexes, TheRuns[i].part)
        /\ map.byToolCallID[TheRuns[i].callID] = TheRuns[i].sourceIndexes
    BY <1>4, <1>8, CallsLead DEF CallsApart
  <2>. QED
    BY <2>1
<1>9. /\ \A i \in DOMAIN targets : TargetHolds(targets[i])
      /\ DOMAIN rows = DOMAIN targets
      /\ \A i \in DOMAIN rows :
           /\ rows[i].target = targets[i]
           /\ rows[i].sources = ResolveRawSources(RawLog(log), targets[i].sourceIndexes)
  BY RowsLead
<1> HIDE DEF rows, targets, apart, E
<1>10. ASSUME NEW i \in DOMAIN rows
       PROVE  /\ apart \/ rows[i].target.category # "tool-run" =>
                   rows[i].target.sourceIndexes = rows[i].target.item.sourceIndexes
              /\ \A n \in DOMAIN rows[i].sources : rows[i].sources[n].rawEntry # Absent
  BY <1>5, <1>9 DEF TargetHolds, Traced
<1>11. apart => \A i \in DOMAIN view.toolRuns :
                  LeadsToPart(map.byToolCallID[view.toolRuns[i].callID], view.toolRuns[i].part)
  BY <1>3, <1>5, <1>8
<1>12. AllSourcesLead(view, RawLog(log), E)
  <2>1. Distinct(view.toolRuns, callOf) => \A i \in DOMAIN view.toolRuns :
          LeadsToPart(map.byToolCallID[view.toolRuns[i].callID], view.toolRuns[i].part)
    BY <1>11 DEF apart
  <2>2. ASSUME NEW i \in DOMAIN rows
        PROVE  /\ Distinct(view.toolRuns, callOf) \/ rows[i].target.category # "tool-run" =>
                    rows[i].target.sourceIndexes = rows[i].target.item.sourceIndexes
               /\ \A n \in DOMAIN rows[i].sources : rows[i].sources[n].rawEntry # Absent
    BY <1>10 DEF apart
  <2>. QED
    BY <1>6, <1>7, <2>1, <2>2, AllLead DEF map, rows
<1>. QED
  BY <1>12 DEF ThePlan, E

(* Whatever the events: the sources the page gives for a thing are entries *)
(* of the raw log that name it.                                            *)
THEOREM SourcesAlwaysLeadHome == Spec => []SourcesLeadHome
BY SourcesFollow, AllInvariance, PTL
=============================================================================
