--------------------------- MODULE MCShareViewer ---------------------------
(***************************************************************************)
(* Small instances of ShareViewer for TLC: one share, an owner who creates *)
(* it, syncs and removes it, an administrator who sets its password.       *)
(***************************************************************************)
EXTENDS ShareViewer

CONSTANTS v1, o1, s1, x1, none, p1, padded, wide, unkeyed, k1, text, session, null, ill

Event(key, body, size) ==
  [key |-> key, body |-> body, valid |-> TRUE, raw |-> size, enc |-> size]

(* A session, the value null, a message and one whose tokens are null; of  *)
(* these a share has room for the first two together or for one alone.     *)
Batches ==
  {<<Event(k1, session, 1)>>, <<Event(unkeyed, null, 1)>>,
   <<Event(k1, text, 2)>>, <<Event(k1, ill, 2)>>}

SharePasswords == {none, p1, padded}

MCOtherCalls ==
  [op : {"Create"}, id : {s1}]
  \cup [op : {"Sync"}, id : {s1}, secret : Secrets, items : Batches]
  \cup [op : {"SetPassword"}, id : {s1}, password : SharePasswords]
  \cup [op : {"Remove"}, id : {s1}, secret : Secrets]

(* What the X-Share-Password header carries: p1 as it is typed, p1 again   *)
(* for p1 with a space behind it, and nothing for what it cannot hold.     *)
CarriedHeader ==
  [p \in Passwords |-> IF p = wide THEN Unsendable ELSE IF p = padded THEN p1 ELSE p]
=============================================================================
