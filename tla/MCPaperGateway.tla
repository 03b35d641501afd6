--------------------------- MODULE MCPaperGateway ---------------------------
(* Three orders of two or four lots against a cap of two (four lots        *)
(* reverse a full position), in a market that crashes, thins out to one    *)
(* lot, loses a side, and arrives unsorted with an empty level.  Fees are  *)
(* the largest the configuration accepts.  Client order ids are only       *)
(* compared for equality, so they may be permuted.                         *)
EXTENDS PaperGateway

CONSTANTS c1, c2, c3

MC_Cloids == {c1, c2, c3}
MC_FillIds == Nat
MC_Quantities == {2, 4}
CloidSymmetry == Permutations(MC_Cloids)

Level(p, q) == [px |-> p, qty |-> q]

Calm    == [bids |-> <<Level(8, 2), Level(9, 1), Level(7, 4)>>,
            asks |-> <<Level(11, 0), Level(12, 3), Level(12, 1)>>]
Crash   == [bids |-> <<Level(3, 4)>>, asks |-> <<Level(5, 1)>>]
OneSide == [bids |-> <<Level(9, 1)>>, asks |-> <<>>]

MC_Snapshots == {Calm, Crash, OneSide}
=============================================================================
