--------------------------- MODULE MCAdminConsole ---------------------------
(***************************************************************************)
(* Small instances of AdminConsole for TLC: two rows, overlapping saves,   *)
(* and an owner who shares, removes and shares again.                      *)
(***************************************************************************)
EXTENDS AdminConsole, TLC

CONSTANTS t1, t2, o1, s1, s2, x1, x2, none, p1, unkeyed, k1, text

Symmetry == Permutations(Tasks)

Stored0(secret) == [secret |-> secret, data |-> <<>>, password |-> none,
                    createdAt |-> 0, updatedAt |-> 0]

(* Two shares nobody else touches: the page's own saves overlap.           *)
TwoShares == {[id \in IDs |-> Stored0(IF id = s1 THEN x1 ELSE x2)]}
NoCalls == {}

(* One share that its owner removes and shares again while another         *)
(* administrator sets its password.                                        *)
OneShare == {[id \in IDs |-> Stored0(x1)]}
RivalCalls ==
  [op : {"Create"}, id : IDs] \cup [op : {"Remove"}, id : IDs, secret : Secrets]
  \cup [op : {"SetPassword"}, id : IDs, password : {p1}]
=============================================================================
