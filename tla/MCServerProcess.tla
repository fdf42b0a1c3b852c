-------------------------- MODULE MCServerProcess --------------------------
(***************************************************************************)
(* Three processes over one data file, two of them told to listen on the   *)
(* same port, and two shares.                                              *)
(***************************************************************************)
EXTENDS ServerProcess

CONSTANTS p1, p2, p3, a, b, s1, s2

MCProcesses == {p1, p2, p3}

MCPorts == {a, b}

MCPortOf == [p \in MCProcesses |-> IF p = p3 THEN b ELSE a]

MCShares == {s1, s2}
=============================================================================
