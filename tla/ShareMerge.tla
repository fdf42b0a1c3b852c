----------------------------- MODULE ShareMerge -----------------------------
(***************************************************************************)
(* service.go's mergeData: how one incoming event changes the events of a  *)
(* share.  An event is a record with a key, its "_key" or NoKey.           *)
(***************************************************************************)
EXTENDS Naturals, Sequences

CONSTANT NoKey   \* dataKey's "not keyed" answer

HasKey(items, key) == \E i \in DOMAIN items : items[i].key = key

FirstWithKey(items, key) ==
  CHOOSE i \in DOMAIN items :
    /\ items[i].key = key
    /\ \A j \in DOMAIN items : items[j].key = key => i <= j

(* Broken variant: an event is added even if its key is stored.            *)
AppendData(items, item) == Append(items, item)

MergeData(items, item) ==
  IF item.key # NoKey /\ HasKey(items, item.key)
  THEN [items EXCEPT ![FirstWithKey(items, item.key)] = item]
  ELSE Append(items, item)
=============================================================================
