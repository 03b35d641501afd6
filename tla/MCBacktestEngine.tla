-------------------------- MODULE MCBacktestEngine --------------------------
(* A stream of a few events: two two-sided books, one with thin bids, and  *)
(* a one-sided one; trades that clear part of a queue, all of it, and run  *)
(* through it; timestamps that stay within a funding interval, jump over   *)
(* two of them, and step back.                                             *)
EXTENDS BacktestEngine

Level(p, q) == [px |-> p, qty |-> q]

Wide == [bids |-> <<Level(8, 2)>>, asks |-> <<Level(10, 1), Level(11, 1)>>]
Tight == [bids |-> <<Level(9, 1), Level(8, 1)>>, asks |-> <<Level(10, 1)>>]
OneSide == [bids |-> <<Level(8, 1)>>, asks |-> <<>>]

MC_Snapshots == {Wide, Tight, OneSide}
MC_Trades == {[side |-> "Sell", px |-> 8, qty |-> 1],
              [side |-> "Sell", px |-> 8, qty |-> 3],
              [side |-> "Buy", px |-> 10, qty |-> 2]}
MC_Ticks == {-1, 1, 5}
MC_Intents == {[side |-> "Buy", qty |-> 3, kind |-> "Market", px |-> 0],
               [side |-> "Buy", qty |-> 2, kind |-> "Limit", px |-> 8],
               [side |-> "Sell", qty |-> 1, kind |-> "Limit", px |-> 10]}

\* Seven events let the maker go once round; two orders need no more than five.
MC_MaxEvents == [PassiveMaker |-> 7, Other |-> 5]
=============================================================================
