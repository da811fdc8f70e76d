--------------------------- MODULE MCNVMainMemory ---------------------------
(***************************************************************************)
(* Packets of each kind, at two instances.                                 *)
(***************************************************************************)
EXTENDS NVMainMemory, TLC

CONSTANTS p1, p2, p3, p4

TwoPorts == [p \in Packets |-> IF p \in {p1, p3} THEN 1 ELSE 2]

TwoReadsOneWrite == p1 :> "read" @@ p2 :> "write" @@ p3 :> "read"

EveryKind == p1 :> "read" @@ p2 :> "write" @@ p3 :> "writeback" @@ p4 :> "other"
=============================================================================
