--------------------------- MODULE MCResearchDesk ---------------------------
(* A small research partition: with a volatility window longer than the first*)
(* half of it, warm-ups differ between the configurations of a grid.         *)
EXTENDS ResearchDesk
LOCAL Cfg(name, vol_window) == [name |-> name, vol_window |-> vol_window]
MCRegimeGrid == <<Cfg("hmm_vol1", 1), Cfg("hmm_vol4", 4)>>
MCShortGrid == <<Cfg("ls_vol1", 1), Cfg("ls_vol4", 4)>>
MCOverlayGrid == <<"ovl_m3">>
MCSizingGrid == <<"vt", "kelly">>

OneAtATime == jobs = 0 \/ frozen = NoModel
=============================================================================
