---------------------------- MODULE MCTradeLoop -----------------------------
(* Six orders towards a target of two lots each way, over prices that      *)
(* cross a three-snapshot average both ways, crash through the drawdown    *)
(* limit, and offer less than the order asks for.                          *)
EXTENDS TradeLoop

MC_Cloids == 1..6
MC_FillIds == Nat
MC_Quantities == 1..4

Level(p, q) == [px |-> p, qty |-> q]

High == [bids |-> <<Level(14, 1), Level(15, 0), Level(13, 2)>>, asks |-> <<Level(16, 1)>>]
Mid  == [bids |-> <<Level(8, 1), Level(9, 1)>>, asks |-> <<Level(11, 1), Level(12, 4)>>]
Low  == [bids |-> <<Level(4, 4)>>, asks |-> <<Level(6, 3), Level(5, 1)>>]
Gone == [bids |-> <<>>, asks |-> <<Level(12, 2)>>]

MC_Snapshots == {High, Mid, Low, Gone}
=============================================================================
