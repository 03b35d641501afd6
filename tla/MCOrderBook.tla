---------------------------- MODULE MCOrderBook -----------------------------
(* Four prices on each side of a market that may be crossed, and snapshots *)
(* that arrive in order, unsorted, with empty levels, and with one price   *)
(* twice.                                                                  *)
EXTENDS OrderBook

Level(p, q) == [px |-> p, qty |-> q]

MC_Snapshots ==
    {[bids |-> <<Level(3, 1), Level(2, 2)>>, asks |-> <<Level(4, 1)>>],
     [bids |-> <<Level(2, 1), Level(4, 0), Level(3, 2)>>, asks |-> <<Level(4, 1), Level(5, 1)>>],
     [bids |-> <<Level(4, 0), Level(4, 1)>>, asks |-> <<Level(5, 2), Level(4, 1), Level(3, -1)>>],
     [bids |-> <<Level(3, 1), Level(3, 2)>>, asks |-> <<>>]}

MC_Times == {1, 2}

MC_Updates == [side : {"Buy", "Sell"}, px : 2..5, qty : {0, 1, 2}]
=============================================================================
