--------------------------- MODULE MCShareService ---------------------------
(***************************************************************************)
(* Small instances of ShareService for TLC.                                *)
(***************************************************************************)
EXTENDS ShareService, TLC

CONSTANTS r1, r2, s1, s2, bad, x1, x2, none, p1, long, k1, k2, unkeyed, b1, b2

Symmetry == Permutations({r1, r2}) \cup Permutations({x1, x2})

Event(key, body, raw, enc) ==
  [key |-> key, body |-> body, valid |-> TRUE, raw |-> raw, enc |-> enc]

(* Two versions of one keyed event, another key, an unkeyed event, one     *)
(* that grows when it is encoded, an invalid one and one over the limit.   *)
first   == Event(k1, b1, 1, 1)
second  == Event(k1, b2, 2, 1)
other   == Event(k2, b1, 1, 1)
plain   == Event(unkeyed, b1, 1, 1)
growing == Event(k1, b1, 1, 6)
broken  == [first EXCEPT !.valid = FALSE]
big     == Event(k2, b2, 9, 9)

(* An update, an event repeated in one batch, a batch that fails half-way, *)
(* one that is too large and one with too many events.                     *)
Batches == {<<first>>, <<second, plain, first>>, <<other, broken>>, <<big>>,
            <<plain, plain, plain, plain>>}

Creates == [op : {"Create"}, id : {s1}]
Removes == [op : {"Remove"}, id : {s1}, secret : Secrets]
Syncs(batches) == [op : {"Sync"}, id : {s1}, secret : Secrets, items : batches]

(* Owners, strangers, administrators and viewers together; two shares to   *)
(* be listed.                                                              *)
AllCalls ==
  CreateCall \cup Removes \cup Syncs(Batches)
  \cup [op : {"SetPassword"}, id : {s1}, password : Passwords]
  \cup [op : {"Get", "Data"}, id : {s1}]
  \cup [op : {"CheckViewPassword", "DataWithPassword"}, id : {s1}, password : {none, p1}]
  \cup ListCall

(* Updates of every kind, one batch that fails half-way, a running clock.  *)
TimeCalls ==
  Creates \cup Removes \cup Syncs({<<first>>, <<other, broken>>})
  \cup [op : {"SetPassword"}, id : {s1}, password : {none, p1}]

(* Valid batches only, one event of which grows when encoded.              *)
GrowingCalls == Creates \cup Syncs({<<>>, <<first>>, <<growing>>})
=============================================================================
