------------------------- MODULE MCMemoryController -------------------------
(***************************************************************************)
(* Small instances of MemoryController.                                    *)
(***************************************************************************)
EXTENDS MemoryController, TLC

Access(op, b, s, r) == [op |-> op, bank |-> b, sub |-> s, row |-> r]

\* Two rows of one bank and one row of the other, with a write between reads.
TwoBanks == {Access("READ", 0, 0, 1), Access("READ", 0, 0, 2), Access("WRITE", 1, 0, 1)}

\* Two rows that share a subarray.
TwoRows == {Access("READ", 0, 0, 1), Access("READ", 0, 0, 2)}

Configuration(queueModel, closePage) == [queueModel |-> queueModel, closePage |-> closePage]

RefreshConfigurations == {Configuration("PerBank", 1), Configuration("PerRank", 0)}
RowConfigurations == {Configuration("PerBank", p) : p \in 0..2}
=============================================================================
