---------------------------- MODULE MCOrderFeed -----------------------------
(* Two orders of up to two lots, three fills at two prices whose averages  *)
(* and halves do not divide evenly at SCALE = 2.                           *)
EXTENDS OrderFeed

CONSTANTS c1, c2

MC_Cloids == {c1, c2}
MC_FillIds == 1..3
MC_Prices == {3, 12}
MC_Fees == {1}
=============================================================================
