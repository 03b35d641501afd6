SPECIFICATION Spec
CONSTANTS
    SCALE = 2
    c1 = c1
    c2 = c2
    c3 = c3
    Cloids <- MC_Cloids
    FillIds <- MC_FillIds
    max_position_qty = 2
    max_notional = 20
    dd_num = 1
    dd_den = 4
    initial_cash = 20
    taker_fee_ppm = 100000
    Snapshots <- MC_Snapshots
    Quantities <- MC_Quantities
SYMMETRY CloidSymmetry
INVARIANT
    KilledNeverReverses
