-------------------------- MODULE TradeLoopProofs ---------------------------
(***************************************************************************)
(* Proofs about the paper gateway and the trading loop, for any strategy   *)
(* windows, limits, fees, quantities and snapshots.  GatewayInv is the     *)
(* inductive invariant of the gateway: its exposure stays bounded, each    *)
(* fill of a walk is booked, and the reports tell the position.  LoopInv   *)
(* adds what the loop knows between two of its events.                     *)
(***************************************************************************)
EXTENDS TradeLoop, BasicLemmas

-----------------------------------------------------------------------------
(* The gateway.                                                            *)

LEMMA EquityType ==
    ASSUME NEW m, ManagerOK(m), NEW b \in Books
    PROVE  equity(m, b) \in Int
  <1>1. m.position \in Int /\ m.realized_pnl \in Int /\ m.avg_entry \in Int
    BY DEF ManagerOK
  <1>2. unrealized(m, b) \in Int
    <2>1. CASE ~has_mid(b) \/ m.position = 0
      BY <2>1 DEF unrealized
    <2>2. CASE has_mid(b) /\ m.position # 0
      <3> DEFINE per == IF m.position > 0 THEN mid(b) - m.avg_entry
                                          ELSE m.avg_entry - mid(b)
      <3>1. b.bids \in Seq(Levels) /\ b.asks \in Seq(Levels)
        BY DEF Books
      <3>2. b.bids[1] \in Levels /\ b.asks[1] \in Levels
        BY <2>2, <3>1, EmptySeq, ElementOfSeq DEF has_mid
      <3>3. b.bids[1].px + b.asks[1].px \in Int
        BY <3>2 DEF Levels
      <3>4. mid(b) \in Int
        BY <3>3, TruncDivType DEF mid, midpoint
      <3>5. per \in Int /\ Abs(m.position) \in Int
        BY <1>1, <3>4 DEF Abs
      <3> HIDE DEF per
      <3>6. notional(per, Abs(m.position)) \in Int
        BY <3>5, NotionalType
      <3>7. QED
        BY <2>2, <3>6 DEF unrealized, per
    <2>3. QED
      BY <2>1, <2>2
  <1>3. initial_cash \in Int
    BY GatewayAssumption
  <1>4. QED
    BY <1>1, <1>2, <1>3 DEF equity

LEMMA FillAtType ==
    ASSUME TypeOK, walk.active, walk.remaining > 0, NEW level \in Levels
    PROVE  /\ FillAt(level) \in FillReports
           /\ FillAt(level).cloid = walk.request.cloid
           /\ FillAt(level).fill_id = next_fill_id
           /\ FillAt(level).qty \in 1..walk.remaining
  <1> DEFINE take == Lesser(level.qty, walk.remaining)
             cash == notional(level.px, take)
             fee == fee_ppm(cash, taker_fee_ppm)
  <1>1. walk \in Walks
    BY DEF TypeOK, NoWalk
  <1>2. walk.request.cloid \in Cloids /\ walk.remaining \in Nat
    BY <1>1 DEF Walks, Requests
  <1>3. level.px \in Nat /\ level.qty \in Nat \ {0}
    BY DEF Levels
  <1>4. take \in 1..walk.remaining
    BY <1>2, <1>3 DEF Lesser
  <1>5. cash \in Int
    <2> HIDE DEF take
    <2>1. take \in Int /\ level.px \in Int
      BY <1>3, <1>4
    <2>2. QED
      BY <2>1, NotionalType
  <1>6. fee \in Nat
    <2> HIDE DEF cash
    <2>1. Abs(cash) \in Nat /\ taker_fee_ppm \in Nat
      BY <1>5, GatewayAssumption DEF Abs
    <2> DEFINE scaled == Abs(cash) * taker_fee_ppm
    <2>2. scaled \in Nat
      BY <2>1, ProductNat
    <2> HIDE DEF scaled
    <2>3. TruncDiv(scaled, PPM) \in Nat
      BY <2>2, TruncDivType DEF PPM
    <2>4. QED
      BY <2>3 DEF fee_ppm, scaled
  <1> HIDE DEF take, cash, fee
  <1>7. FillAt(level) = [type |-> "Fill", cloid |-> walk.request.cloid,
                         fill_id |-> next_fill_id, qty |-> take,
                         px |-> level.px, fee |-> fee]
    BY DEF FillAt, take, cash, fee
  <1>8. next_fill_id \in FillIds
    BY FillIdAssumption DEF TypeOK
  <1>9. QED
    BY <1>2, <1>3, <1>4, <1>6, <1>7, <1>8 DEF FillReports

(* Part of the way to an admitted target stays within the bound that both  *)
(* ends respect.                                                           *)
LEMMA PartialFillBounded ==
    ASSUME NEW pos \in Int, NEW s \in {1, -1}, NEW rem \in Nat, NEW bound \in Int,
           Abs(pos) <= bound, Abs(pos + s * rem) <= bound, NEW take \in 1..rem,
           NEW after \in {pos, pos + s * take}
    PROVE  Abs(after) <= bound /\ Abs(after + s * (rem - take)) <= bound
  BY DEF Abs
-----------------------------------------------------------------------------
LEMMA GatewayInit == Init => GatewayInv
  <1> SUFFICES ASSUME Init PROVE GatewayInv
    OBVIOUS
  <1>1. ManagerOK(mgr) /\ DOMAIN mgr.orders = {} /\ mgr.position = 0
    BY DEF Init, NewManager, ManagerOK
  <1>2. book \in Books /\ pending_reports \in Seq(ExecReports)
    BY EmptySeq DEF Init, EmptyBook, Books
  <1>3. gate \in Gates /\ gate.kill_switched = FALSE
    <2>1. initial_cash \in Int
      BY GatewayAssumption
    <2>2. gate = NewGate(initial_cash)
      BY DEF Init
    <2>3. QED
      BY <2>1, <2>2 DEF NewGate, Gates
  <1>4. TypeOK /\ ~walk.active
    BY <1>1, <1>2, <1>3 DEF Init, TypeOK, NoWalk
  <1>5. ExposureInv
    BY <1>1, <1>3, <1>4, RiskLimitsAssumption DEF ExposureInv, WalkTarget, Abs
  <1>6. WalkInv
    BY <1>1, <1>4 DEF WalkInv, WalkFillsBooked
  <1>7. QED
    BY <1>4, <1>5, <1>6 DEF GatewayInv

LEMMA GatewaySnapshot ==
    ASSUME GatewayInv, NEW snap \in Snapshots, OnSnapshot(snap)
    PROVE  GatewayInv'
  <1>1. book' \in Books
    <2>1. snap \in [bids : Seq(RawLevels), asks : Seq(RawLevels)]
      BY SnapshotAssumption
    <2>2. book' = apply_snapshot(snap)
      BY DEF OnSnapshot
    <2>3. QED
      BY <2>1, <2>2, SnapshotNormalised
  <1>2. equity(mgr, book') \in Int
    BY <1>1, EquityType DEF GatewayInv, TypeOK
  <1>3. gate' \in Gates /\ (gate.kill_switched => gate'.kill_switched)
    BY <1>2 DEF GatewayInv, TypeOK, OnSnapshot, on_equity, Gates, Greater, DrawdownReached
  <1>4. mgr.position \in Int
    BY DEF GatewayInv, TypeOK, ManagerOK
  <1>5. TypeOK' /\ WalkInv'
    BY <1>1, <1>3, <1>4 DEF GatewayInv, TypeOK, WalkInv, WalkFillsBooked, OnSnapshot,
                            ManagerOK, is_tracked
  <1>6. WalkTarget = mgr.position /\ WalkTarget' = mgr.position
    BY <1>4 DEF OnSnapshot, Idle, WalkTarget
  <1>7. ExposureInv'
    <2>1. mgr' = mgr /\ Abs(mgr.position) \in Nat
      BY <1>4 DEF OnSnapshot, Abs
    <2>2. CASE gate'.kill_switched /\ ~gate.kill_switched
      <3>1. killed_at' = mgr.position
        BY <2>2 DEF OnSnapshot
      <3>2. QED
        BY <1>6, <2>1, <3>1 DEF GatewayInv, ExposureInv
    <2>3. CASE ~(gate'.kill_switched /\ ~gate.kill_switched)
      <3>1. killed_at' = killed_at
        BY <2>3 DEF OnSnapshot
      <3>2. QED
        BY <1>6, <2>1, <2>3, <3>1 DEF GatewayInv, ExposureInv
    <2>4. QED
      BY <2>2, <2>3
  <1>8. QED
    BY <1>5, <1>7 DEF GatewayInv

(* Steps that leave the position where it is and no walk under way.        *)
LEMMA GatewaySubmitRejected ==
    ASSUME GatewayInv, NEW request \in Requests, SubmitRejected(request)
    PROVE  GatewayInv'
  <1> DEFINE m == register(mgr, request)
             r == Rejection(request.cloid)
  <1>1. request \in OrderRequests /\ request.cloid \in Cloids
    BY GatewayAssumption DEF Requests, OrderRequests
  <1>2. ManagerOK(mgr) /\ pending_reports \in Seq(ExecReports)
    BY DEF GatewayInv, TypeOK
  <1>3. r \in StatusReports /\ r \in ExecReports
    BY <1>1 DEF Rejection, StatusReports, StatusAfter, ExecReports
  <1>4. /\ ManagerOK(m)
        /\ m.position = mgr.position
        /\ DOMAIN m.orders = DOMAIN mgr.orders \cup {request.cloid}
        /\ \A c \in DOMAIN mgr.orders : m.orders[c] = mgr.orders[c]
        /\ m.orders[request.cloid] = NewOrder(request)
    BY <1>1, <1>2, RegisterEffect DEF SubmitRejected
  <1>5. mgr' = apply(m, r) /\ pending_reports' = Append(pending_reports, r)
    BY DEF SubmitRejected, Emit
  <1> HIDE DEF m, r
  <1>6. /\ ManagerOK(mgr')
        /\ mgr'.position = mgr.position
        /\ DOMAIN mgr'.orders = DOMAIN m.orders
        /\ \A c \in DOMAIN m.orders : mgr'.orders[c].seen_fills = m.orders[c].seen_fills
    BY <1>3, <1>4, <1>5, StatusReportEffect
  <1>7. ~walk.active /\ walk' = walk /\ gate' = gate /\ killed_at' = killed_at
        /\ book' = book /\ next_fill_id' = next_fill_id
        /\ polled_position' = polled_position
    BY DEF SubmitRejected, Idle
  <1>8. pending_reports' \in Seq(ExecReports)
    BY <1>2, <1>3, <1>5, AppendProperties
  <1>9. TypeOK'
    BY <1>6, <1>7, <1>8 DEF GatewayInv, TypeOK
  <1>10. ExposureInv'
    BY <1>6, <1>7 DEF GatewayInv, ExposureInv, WalkTarget
  <1>11. \A c \in DOMAIN mgr'.orders :
            \A id \in mgr'.orders[c].seen_fills : id < next_fill_id'
    BY <1>4, <1>6, <1>7 DEF GatewayInv, WalkInv, NewOrder
  <1>12. WalkInv'
    BY <1>7, <1>11 DEF WalkInv, WalkFillsBooked
  <1>13. QED
    BY <1>9, <1>10, <1>12 DEF GatewayInv

LEMMA GatewayCancel ==
    ASSUME GatewayInv, NEW cloid \in Cloids, Cancel(cloid)
    PROVE  GatewayInv'
  <1> DEFINE r == Cancellation(cloid)
  <1>1. ManagerOK(mgr) /\ pending_reports \in Seq(ExecReports)
    BY DEF GatewayInv, TypeOK
  <1>2. r \in StatusReports /\ r \in ExecReports
    BY DEF Cancellation, StatusReports, StatusAfter, ExecReports
  <1>3. mgr' = apply(mgr, r) /\ pending_reports' = Append(pending_reports, r)
    BY DEF Cancel, Emit
  <1> HIDE DEF r
  <1>4. /\ ManagerOK(mgr')
        /\ mgr'.position = mgr.position
        /\ DOMAIN mgr'.orders = DOMAIN mgr.orders
        /\ \A c \in DOMAIN mgr.orders :
              mgr'.orders[c].seen_fills = mgr.orders[c].seen_fills
    BY <1>1, <1>2, <1>3, StatusReportEffect
  <1>5. ~walk.active /\ walk' = walk /\ gate' = gate /\ killed_at' = killed_at
        /\ book' = book /\ next_fill_id' = next_fill_id
        /\ polled_position' = polled_position
    BY DEF Cancel, Idle
  <1>6. pending_reports' \in Seq(ExecReports)
    BY <1>1, <1>2, <1>3, AppendProperties
  <1>7. TypeOK'
    BY <1>4, <1>5, <1>6 DEF GatewayInv, TypeOK
  <1>8. ExposureInv'
    BY <1>4, <1>5 DEF GatewayInv, ExposureInv, WalkTarget
  <1>9. WalkInv'
    BY <1>4, <1>5 DEF GatewayInv, WalkInv, WalkFillsBooked
  <1>10. QED
    BY <1>7, <1>8, <1>9 DEF GatewayInv

(* An admitted order starts a walk towards a position within the cap and,  *)
(* when the switch has tripped, no further from flat than the present one. *)
LEMMA AdmittedTarget ==
    ASSUME NEW g \in Gates, NEW pos \in Int, NEW side \in Side, NEW qty \in Nat,
           NEW price, check_order(g, pos, side, qty, price),
           Abs(pos) <= max_position_qty
    PROVE  /\ Abs(pos + sign(side) * qty) <= max_position_qty
           /\ g.kill_switched => Abs(pos + sign(side) * qty) <= Abs(pos)
  <1>1. pos + sign(side) * qty \in Int /\ max_position_qty \in Int
    BY RiskLimitsAssumption DEF sign, Side
  <1>2. CASE increasing(pos, side, qty)
    BY <1>1, <1>2 DEF check_order, Resulting
  <1>3. CASE ~increasing(pos, side, qty)
    <2>1. Abs(pos + sign(side) * qty) <= Abs(pos)
      BY <1>1, <1>3 DEF increasing, Resulting, Abs
    <2>2. QED
      BY <1>1, <2>1 DEF Abs
  <1>4. QED
    BY <1>2, <1>3

LEMMA GatewaySubmitAccepted ==
    ASSUME GatewayInv, NEW request \in Requests, SubmitAccepted(request)
    PROVE  GatewayInv'
  <1> DEFINE m == register(mgr, request)
             r == Acknowledgement(request.cloid)
  <1>1. request \in OrderRequests /\ request.cloid \in Cloids
        /\ request.side \in Side /\ request.qty \in Nat
    BY GatewayAssumption DEF Requests, OrderRequests
  <1>2. ManagerOK(mgr) /\ pending_reports \in Seq(ExecReports)
    BY DEF GatewayInv, TypeOK
  <1>3. r \in StatusReports /\ r \in ExecReports /\ r.cloid = request.cloid
        /\ StatusAfter[r.type] = "Acked"
    BY <1>1 DEF Acknowledgement, StatusReports, StatusAfter, ExecReports
  <1>4. /\ ManagerOK(m)
        /\ m.position = mgr.position
        /\ DOMAIN m.orders = DOMAIN mgr.orders \cup {request.cloid}
        /\ \A c \in DOMAIN mgr.orders : m.orders[c] = mgr.orders[c]
        /\ m.orders[request.cloid] = NewOrder(request)
    BY <1>1, <1>2, RegisterEffect DEF SubmitAccepted
  <1>5. mgr' = apply(m, r) /\ pending_reports' = Append(pending_reports, r)
    BY DEF SubmitAccepted, Emit
  <1> HIDE DEF m, r
  <1>6. /\ ManagerOK(mgr')
        /\ mgr'.position = mgr.position
        /\ DOMAIN mgr'.orders = DOMAIN m.orders
        /\ \A c \in DOMAIN m.orders :
              /\ mgr'.orders[c].request = m.orders[c].request
              /\ mgr'.orders[c].filled_qty = m.orders[c].filled_qty
              /\ mgr'.orders[c].seen_fills = m.orders[c].seen_fills
              /\ mgr'.orders[c].status \in {m.orders[c].status, "Acked"}
    BY <1>3, <1>4, <1>5, StatusReportEffect
  <1>7. /\ is_tracked(mgr', request.cloid)
        /\ mgr'.orders[request.cloid].request = request
        /\ mgr'.orders[request.cloid].filled_qty = 0
        /\ ~is_terminal(mgr'.orders[request.cloid].status)
    BY <1>4, <1>6 DEF is_tracked, is_terminal, NewOrder
  <1>8. /\ ~walk.active /\ gate' = gate /\ killed_at' = killed_at
        /\ book' = book /\ next_fill_id' = next_fill_id
        /\ polled_position' = polled_position
        /\ check_order(gate, mgr.position, request.side, request.qty, mid(book))
    BY DEF SubmitAccepted, Idle, passes_gate
  <1>9. \/ walk' = NoWalk
        \/ walk' = [active |-> TRUE, request |-> request,
                    remaining |-> request.qty, level |-> 1]
    BY DEF SubmitAccepted
  <1>10. walk' \in {NoWalk} \cup Walks
    <2>1. CASE walk' = NoWalk
      BY <2>1
    <2>2. CASE walk' = [active |-> TRUE, request |-> request,
                        remaining |-> request.qty, level |-> 1]
      <3>1. request.qty \in Nat /\ 1 \in Nat \ {0} /\ TRUE \in {TRUE}
        BY <1>1
      <3>2. walk' \in Walks
        BY <2>2, <3>1, Zenon DEF Walks
      <3>3. QED
        BY <3>2
    <2>3. QED
      BY <1>9, <2>1, <2>2
  <1>11. pending_reports' \in Seq(ExecReports)
    BY <1>2, <1>3, <1>5, AppendProperties
  <1>12. TypeOK'
    BY <1>6, <1>8, <1>10, <1>11 DEF GatewayInv, TypeOK
  <1>13. mgr.position \in Int /\ gate \in Gates /\ killed_at \in Int
    BY DEF GatewayInv, TypeOK, ManagerOK
  <1>14. ExposureInv'
    <2> DEFINE target == mgr.position + sign(request.side) * request.qty
    <2>1. target \in Int
      BY <1>1, <1>13 DEF sign
    <2>2. /\ Abs(target) <= max_position_qty
          /\ gate.kill_switched => Abs(target) <= Abs(mgr.position)
      BY <1>1, <1>8, <1>13, AdmittedTarget DEF GatewayInv, ExposureInv
    <2>3. WalkTarget' \in {mgr.position, target}
      BY <1>6, <1>9, <1>13 DEF WalkTarget, NoWalk
    <2>4. /\ Abs(mgr.position) <= max_position_qty
          /\ gate.kill_switched => Abs(mgr.position) <= Abs(killed_at)
      BY DEF GatewayInv, ExposureInv
    <2> HIDE DEF target
    <2>5. Abs(WalkTarget') <= max_position_qty
      BY <2>2, <2>3, <2>4
    <2>6. gate.kill_switched => Abs(WalkTarget') <= Abs(killed_at)
      BY <1>13, <2>1, <2>2, <2>3, <2>4 DEF Abs
    <2>7. QED
      BY <1>6, <1>8, <2>4, <2>5, <2>6 DEF ExposureInv
  <1>15. \A c \in DOMAIN mgr'.orders :
            \A id \in mgr'.orders[c].seen_fills : id < next_fill_id'
    BY <1>4, <1>6, <1>8 DEF GatewayInv, WalkInv, NewOrder
  <1>16. WalkInv'
    <2>1. CASE walk' = NoWalk
      BY <1>15, <2>1 DEF WalkInv, WalkFillsBooked, NoWalk
    <2>2. CASE walk' = [active |-> TRUE, request |-> request,
                        remaining |-> request.qty, level |-> 1]
      BY <1>1, <1>7, <1>15, <2>2 DEF WalkInv, WalkFillsBooked
    <2>3. QED
      BY <1>9, <2>1, <2>2
  <1>17. QED
    BY <1>12, <1>14, <1>16 DEF GatewayInv

(* The fill of one level: it is the next fill of the walked order, takes   *)
(* at most what remains of it, and is accepted and booked.                 *)
LEMMA WalkedFill ==
    ASSUME GatewayInv, FillLevel
    PROVE  \E r \in FillReports :
              /\ r.type = "Fill" /\ r \in ExecReports
              /\ r.cloid = walk.request.cloid /\ r.fill_id = next_fill_id
              /\ r.qty \in 1..walk.remaining
              /\ r.qty = Lesser(WalkedLadder[walk.level].qty, walk.remaining)
              /\ WalkedLadder[walk.level] \in Levels
              /\ is_tracked(mgr, r.cloid) /\ accepts(mgr.orders[r.cloid], r)
              /\ mgr' = apply(mgr, r) /\ pending_reports' = Append(pending_reports, r)
              /\ walk' = [walk EXCEPT !.remaining = walk.remaining - r.qty,
                                      !.level = walk.level + 1]
              /\ ManagerOK(mgr') /\ DOMAIN mgr'.orders = DOMAIN mgr.orders
              /\ mgr'.position = mgr.position + SignedQty(mgr, r)
              /\ SignedQty(mgr, r) = sign(walk.request.side) * r.qty
              /\ \A c \in DOMAIN mgr.orders :
                    c # r.cloid => mgr'.orders[c] = mgr.orders[c]
              /\ mgr'.orders[r.cloid] = record_fill(mgr.orders[r.cloid], r)
  <1> DEFINE level == WalkedLadder[walk.level]
             o == mgr.orders[walk.request.cloid]
             r == FillAt(level)
  <1>1. /\ TypeOK /\ ExposureInv /\ WalkInv
        /\ walk.active /\ walk.remaining > 0 /\ walk.level <= Len(WalkedLadder)
    BY DEF GatewayInv, FillLevel
  <1>2. walk \in Walks /\ ManagerOK(mgr)
    BY <1>1 DEF TypeOK, NoWalk
  <1>3. walk.level \in Nat \ {0}
    BY <1>2 DEF Walks
  <1>4. level \in Levels
    <2>1. WalkedLadder \in Seq(Levels)
      BY <1>1 DEF TypeOK, Books, WalkedLadder, Opposite
    <2>2. walk.level \in 1..Len(WalkedLadder)
      BY <1>1, <1>3, <2>1, LenProperties
    <2>3. QED
      BY <2>1, <2>2, ElementOfSeq
  <1>5. r.qty = Lesser(level.qty, walk.remaining) /\ r.type = "Fill"
    BY DEF FillAt
  <1> HIDE DEF level
  <1>6. r \in FillReports /\ r.cloid = walk.request.cloid /\ r.fill_id = next_fill_id
        /\ r.qty \in 1..walk.remaining
    BY <1>1, <1>4, FillAtType
  <1> HIDE DEF r
  <1>7. mgr' = apply(mgr, r) /\ pending_reports' = Append(pending_reports, r)
        /\ walk' = [walk EXCEPT !.remaining = walk.remaining - r.qty,
                                !.level = walk.level + 1]
    BY DEF FillLevel, Emit, r, level
  <1>8. /\ is_tracked(mgr, r.cloid) /\ ~is_terminal(o.status)
        /\ o.request = walk.request /\ next_fill_id \notin o.seen_fills
    BY <1>1, <1>6 DEF WalkInv, WalkFillsBooked, TypeOK, is_tracked
  <1>9. accepts(o, r)
    BY <1>5, <1>6, <1>8 DEF accepts
  <1>10. /\ ManagerOK(mgr')
         /\ DOMAIN mgr'.orders = DOMAIN mgr.orders
         /\ \A c \in DOMAIN mgr.orders : c # r.cloid => mgr'.orders[c] = mgr.orders[c]
         /\ mgr'.orders[r.cloid] = record_fill(mgr.orders[r.cloid], r)
    BY <1>2, <1>6, <1>7, <1>8, <1>9, FillReportEffect
  <1>11. mgr'.position = mgr.position + SignedQty(mgr, r)
    <2>1. mgr' = book_fill(mgr, r)
      BY <1>5, <1>6, <1>7, <1>8, <1>9 DEF apply
    <2>2. QED
      BY <1>2, <1>6, <1>8, <2>1, BookFillEffect
  <1>12. SignedQty(mgr, r) = sign(walk.request.side) * r.qty
    BY <1>6, <1>8 DEF SignedQty
  <1>13. r \in ExecReports
    BY <1>6 DEF ExecReports
  <1>14. QED
    BY <1>4, <1>5, <1>6, <1>7, <1>8, <1>9, <1>10, <1>11, <1>12, <1>13 DEF level

LEMMA GatewayFillLevel ==
    ASSUME GatewayInv, FillLevel
    PROVE  GatewayInv'
  <1> DEFINE c0 == walk.request.cloid
             o == mgr.orders[c0]
             s == sign(walk.request.side)
  <1>1. /\ TypeOK /\ ExposureInv /\ WalkInv
        /\ walk.active /\ walk.remaining > 0
    BY DEF GatewayInv, FillLevel
  <1>2. walk \in Walks /\ ManagerOK(mgr) /\ pending_reports \in Seq(ExecReports)
    BY <1>1 DEF TypeOK, NoWalk
  <1>3. /\ walk.request \in Requests /\ walk.request.side \in Side
        /\ walk.request.qty \in Nat
        /\ walk.remaining \in Nat /\ walk.level \in Nat \ {0}
    BY <1>2, GatewayAssumption DEF Walks, Requests
  <1>4. PICK r \in FillReports :
            /\ r \in ExecReports /\ r.cloid = c0 /\ r.fill_id = next_fill_id
            /\ r.qty \in 1..walk.remaining
            /\ pending_reports' = Append(pending_reports, r)
            /\ walk' = [walk EXCEPT !.remaining = walk.remaining - r.qty,
                                    !.level = walk.level + 1]
            /\ ManagerOK(mgr') /\ DOMAIN mgr'.orders = DOMAIN mgr.orders
            /\ mgr'.position = mgr.position + s * r.qty
            /\ \A c \in DOMAIN mgr.orders : c # c0 => mgr'.orders[c] = mgr.orders[c]
            /\ mgr'.orders[c0] = record_fill(o, r)
    <2> HIDE DEF s
    <2>1. QED
      BY WalkedFill DEF s
  <1>5. next_fill_id' = next_fill_id + 1
        /\ book' = book /\ gate' = gate /\ killed_at' = killed_at
        /\ polled_position' = polled_position
    BY DEF FillLevel
  <1>6. /\ is_tracked(mgr, c0)
        /\ o.request = walk.request
        /\ o.filled_qty + walk.remaining = walk.request.qty
        /\ next_fill_id \in Nat
        /\ o \in Orders
    BY <1>1 DEF WalkInv, WalkFillsBooked, TypeOK, ManagerOK, is_tracked
  <1>10. /\ walk'.active /\ walk'.request = walk.request
         /\ walk'.remaining = walk.remaining - r.qty
         /\ walk' \in Walks
    <2> DEFINE rem == walk.remaining - r.qty
               lev == walk.level + 1
    <2>1. rem \in Nat /\ lev \in Nat \ {0}
      BY <1>3, <1>4
    <2>2. walk' = [walk EXCEPT !.remaining = rem, !.level = lev]
      BY <1>4
    <2> HIDE DEF rem, lev
    <2>3. walk'.active /\ walk'.request = walk.request /\ walk'.remaining = rem
      BY <1>2, <2>2 DEF Walks
    <2>4. walk' \in Walks
      BY <1>2, <2>1, <2>2 DEF Walks
    <2>5. QED
      BY <2>3, <2>4 DEF rem
  <1>11. TypeOK'
    <2>1. pending_reports' \in Seq(ExecReports)
      BY <1>2, <1>4, AppendProperties
    <2>2. QED
      BY <1>1, <1>4, <1>5, <1>6, <1>10, <2>1 DEF TypeOK
  <1>12. ExposureInv'
    <2>1. mgr.position \in Int /\ s \in {1, -1} /\ max_position_qty \in Int
          /\ Abs(killed_at) \in Int
      BY <1>1, <1>3, RiskLimitsAssumption DEF TypeOK, ManagerOK, sign, Abs
    <2> HIDE DEF s
    <2>2. WalkTarget = mgr.position + s * walk.remaining
      BY <1>1 DEF WalkTarget, s
    <2>3. WalkTarget' = mgr'.position + s * (walk.remaining - r.qty)
      BY <1>10 DEF WalkTarget, s
    <2>4. mgr'.position \in {mgr.position, mgr.position + s * r.qty}
      BY <1>4
    <2>5. ASSUME NEW bound \in Int, Abs(mgr.position) <= bound, Abs(WalkTarget) <= bound
          PROVE  Abs(mgr'.position) <= bound /\ Abs(WalkTarget') <= bound
      <3> DEFINE pos == mgr.position
                 rem == walk.remaining
                 take == r.qty
                 after == mgr'.position
      <3>1. /\ pos \in Int /\ s \in {1, -1} /\ rem \in Nat /\ take \in 1..rem
            /\ after \in {pos, pos + s * take}
        BY <1>3, <1>4, <2>1, <2>4
      <3>2. Abs(pos) <= bound /\ Abs(pos + s * rem) <= bound
        BY <2>2, <2>5
      <3>3. WalkTarget' = after + s * (rem - take)
        BY <2>3
      <3> HIDE DEF pos, rem, take, after
      <3>4. Abs(after) <= bound /\ Abs(after + s * (rem - take)) <= bound
        BY <2>5, <3>1, <3>2, PartialFillBounded
      <3>5. QED
        BY <3>3, <3>4 DEF after
    <2>6. /\ Abs(mgr.position) <= max_position_qty /\ Abs(WalkTarget) <= max_position_qty
          /\ gate.kill_switched => /\ Abs(mgr.position) <= Abs(killed_at)
                                   /\ Abs(WalkTarget) <= Abs(killed_at)
      BY <1>1 DEF ExposureInv
    <2>7. /\ Abs(mgr'.position) <= max_position_qty
          /\ Abs(WalkTarget') <= max_position_qty
      BY <2>1, <2>5, <2>6
    <2>8. gate.kill_switched => /\ Abs(mgr'.position) <= Abs(killed_at)
                                /\ Abs(WalkTarget') <= Abs(killed_at)
      BY <2>1, <2>5, <2>6
    <2>9. QED
      BY <1>5, <2>7, <2>8 DEF ExposureInv
  <1>13. WalkInv'
    <2> DEFINE after == mgr'.orders[c0]
    <2>1. o.filled_qty \in Nat /\ o.seen_fills \subseteq FillIds
      BY <1>6 DEF Orders
    <2>2. /\ after.request = walk.request
          /\ after.filled_qty = o.filled_qty + r.qty
          /\ after.seen_fills = o.seen_fills \cup {next_fill_id}
          /\ after.status = IF o.filled_qty + r.qty >= walk.request.qty
                            THEN "Filled" ELSE "PartiallyFilled"
      BY <1>4, <1>6 DEF record_fill
    <2> DEFINE filled == o.filled_qty
               took == r.qty
               left == walk.remaining
               q == walk.request.qty
    <2>3. /\ filled \in Nat /\ took \in 1..left /\ left \in Nat /\ q \in Nat
          /\ filled + left = q
          /\ walk'.remaining = left - took /\ after.filled_qty = filled + took
          /\ after.status = IF filled + took >= q THEN "Filled" ELSE "PartiallyFilled"
      BY <1>3, <1>4, <1>6, <1>10, <2>1, <2>2
    <2>4. after.filled_qty + walk'.remaining = walk.request.qty
      <3> HIDE DEF filled, took, left, q, after
      <3>1. after.filled_qty + walk'.remaining = q
        BY <2>3
      <3>2. QED
        BY <3>1 DEF q
    <2>5. walk'.remaining > 0 => ~is_terminal(after.status)
      <3> HIDE DEF filled, took, left, q, after
      <3>1. QED
        BY <2>3 DEF is_terminal
    <2>6. \A c \in DOMAIN mgr'.orders :
             \A id \in mgr'.orders[c].seen_fills : id < next_fill_id'
      <3>1. SUFFICES ASSUME NEW c \in DOMAIN mgr'.orders,
                            NEW id \in mgr'.orders[c].seen_fills
                     PROVE  id < next_fill_id + 1
        BY <1>5
      <3>2. CASE c = c0
        <4>1. id \in o.seen_fills \/ id = next_fill_id
          <5>1. id \in after.seen_fills
            BY <3>2
          <5> HIDE DEF after, o
          <5>2. QED
            BY <2>2, <5>1
        <4>2. id \in o.seen_fills => id < next_fill_id /\ id \in Nat
          BY <1>1, <1>6, <2>1, FillIdAssumption DEF WalkInv, is_tracked
        <4>3. QED
          BY <1>6, <4>1, <4>2
      <3>3. CASE c # c0
        <4>1. c \in DOMAIN mgr.orders /\ id \in mgr.orders[c].seen_fills
          BY <1>4, <3>3
        <4>2. id < next_fill_id /\ id \in Nat
          BY <1>1, <4>1, FillIdAssumption DEF WalkInv, TypeOK, ManagerOK, Orders
        <4>3. QED
          BY <1>6, <4>2
      <3>4. QED
        BY <3>2, <3>3
    <2>7. is_tracked(mgr', c0)
      BY <1>4, <1>6 DEF is_tracked
    <2> HIDE DEF after
    <2>8. QED
      BY <1>10, <2>2, <2>4, <2>5, <2>6, <2>7 DEF WalkInv, WalkFillsBooked, after
  <1>14. QED
    BY <1>11, <1>12, <1>13 DEF GatewayInv

(* What submitting an order under a new id does: the order is tracked, is  *)
(* Rejected or Acked as the report queued for it says, has no fill yet,    *)
(* and nothing happens to the position or to any other order.              *)
LEMMA SubmitEffect ==
    ASSUME GatewayInv, NEW request \in Requests,
           SubmitRejected(request) \/ SubmitAccepted(request)
    PROVE  /\ request.cloid \notin DOMAIN mgr.orders
           /\ DOMAIN mgr'.orders = DOMAIN mgr.orders \cup {request.cloid}
           /\ \A c \in DOMAIN mgr.orders : mgr'.orders[c] = mgr.orders[c]
           /\ mgr'.orders[request.cloid].seen_fills = {}
           /\ mgr'.position = mgr.position
           /\ \E r \in StatusReports :
                 /\ pending_reports' = Append(pending_reports, r)
                 /\ r.type \in {"Ack", "Rejected"}
                 /\ mgr'.orders[request.cloid].status = StatusAfter[r.type]
  <1> DEFINE m == register(mgr, request)
  <1>1. request \in OrderRequests /\ request.cloid \in Cloids
    BY GatewayAssumption DEF Requests, OrderRequests
  <1>2. PICK r \in StatusReports : /\ Emit(m, r) /\ r.cloid = request.cloid
                                   /\ r.type \in {"Ack", "Rejected"}
    <2>1. /\ Rejection(request.cloid) \in StatusReports
          /\ Acknowledgement(request.cloid) \in StatusReports
          /\ Rejection(request.cloid).cloid = request.cloid
          /\ Acknowledgement(request.cloid).cloid = request.cloid
          /\ Rejection(request.cloid).type = "Rejected"
          /\ Acknowledgement(request.cloid).type = "Ack"
      BY <1>1 DEF Rejection, Acknowledgement, StatusReports, StatusAfter
    <2>2. QED
      BY <2>1 DEF SubmitRejected, SubmitAccepted
  <1>3. request.cloid \notin DOMAIN mgr.orders
    BY DEF SubmitRejected, SubmitAccepted, is_tracked
  <1>4. /\ ManagerOK(m)
        /\ m.position = mgr.position
        /\ DOMAIN m.orders = DOMAIN mgr.orders \cup {request.cloid}
        /\ \A c \in DOMAIN mgr.orders : m.orders[c] = mgr.orders[c]
        /\ m.orders[request.cloid] = NewOrder(request)
    BY <1>1, <1>3, RegisterEffect DEF GatewayInv, TypeOK, is_tracked
  <1>5. mgr' = apply(m, r) /\ pending_reports' = Append(pending_reports, r)
    BY <1>2 DEF Emit
  <1> HIDE DEF m
  <1>6. is_tracked(m, r.cloid) /\ accepts(m.orders[r.cloid], r)
    BY <1>2, <1>4 DEF is_tracked, accepts, is_terminal, NewOrder
  <1>7. /\ \A c \in DOMAIN m.orders : c # r.cloid => mgr'.orders[c] = m.orders[c]
        /\ mgr'.orders[r.cloid].status = StatusAfter[r.type]
    BY <1>4, <1>5, <1>6, StatusApplied
  <1>8. /\ mgr'.position = m.position
        /\ DOMAIN mgr'.orders = DOMAIN m.orders
        /\ \A c \in DOMAIN m.orders : mgr'.orders[c].seen_fills = m.orders[c].seen_fills
    BY <1>4, <1>5, StatusReportEffect
  <1>9. mgr'.orders[request.cloid].seen_fills = {}
    BY <1>4, <1>8 DEF NewOrder
  <1>10. \A c \in DOMAIN mgr.orders : mgr'.orders[c] = mgr.orders[c]
    BY <1>2, <1>3, <1>4, <1>7
  <1>11. QED
    BY <1>2, <1>3, <1>4, <1>5, <1>7, <1>8, <1>9, <1>10

LEMMA GatewayEndWalk ==
    ASSUME GatewayInv, EndWalk
    PROVE  GatewayInv'
  <1>1. TypeOK'
    BY DEF GatewayInv, TypeOK, EndWalk, ManagerOK
  <1>2. mgr.position \in Int /\ mgr' = mgr /\ walk' = NoWalk /\ gate' = gate
        /\ killed_at' = killed_at /\ next_fill_id' = next_fill_id
    BY DEF GatewayInv, TypeOK, ManagerOK, EndWalk
  <1>3. WalkTarget' = mgr.position
    BY <1>2 DEF WalkTarget, NoWalk
  <1>4. ExposureInv'
    BY <1>2, <1>3 DEF GatewayInv, ExposureInv
  <1>5. WalkInv'
    BY <1>2 DEF GatewayInv, WalkInv, WalkFillsBooked, NoWalk
  <1>6. QED
    BY <1>1, <1>4, <1>5 DEF GatewayInv

LEMMA GatewayPoll ==
    ASSUME GatewayInv, PollReports
    PROVE  GatewayInv'
  <1>1. /\ mgr' = mgr /\ walk' = walk /\ gate' = gate /\ book' = book
        /\ killed_at' = killed_at /\ next_fill_id' = next_fill_id
        /\ pending_reports' = <<>>
    BY DEF PollReports
  <1>2. TypeOK'
    BY <1>1, EmptySeq DEF GatewayInv, TypeOK
  <1>3. ExposureInv'
    BY <1>1 DEF GatewayInv, ExposureInv, WalkTarget
  <1>4. WalkInv'
    BY <1>1 DEF GatewayInv, WalkInv, WalkFillsBooked
  <1>5. QED
    BY <1>2, <1>3, <1>4 DEF GatewayInv
-----------------------------------------------------------------------------
(* Every step keeps the invariant: one case per action.                    *)
LEMMA GatewayNext ==
    ASSUME GatewayInv, [Next]_vars
    PROVE  GatewayInv'
  <1>1. CASE \E snap \in Snapshots : OnSnapshot(snap)
    BY <1>1, GatewaySnapshot
  <1>2. CASE \E request \in Requests : Submit(request)
    <2>1. PICK request \in Requests : Submit(request)
      BY <1>2
    <2>2. CASE SubmitRejected(request)
      BY <2>2, GatewaySubmitRejected
    <2>3. CASE SubmitAccepted(request)
      BY <2>3, GatewaySubmitAccepted
    <2>4. CASE UNCHANGED vars
      BY <2>4 DEF vars, GatewayInv, TypeOK, ExposureInv, WalkInv, WalkFillsBooked,
                  WalkTarget
    <2>5. QED
      BY <2>1, <2>2, <2>3, <2>4 DEF Submit, DuplicateSubmit
  <1>3. CASE FillLevel
    BY <1>3, GatewayFillLevel
  <1>4. CASE EndWalk
    BY <1>4, GatewayEndWalk
  <1>5. CASE \E cloid \in Cloids : Cancel(cloid)
    BY <1>5, GatewayCancel
  <1>6. CASE PollReports
    BY <1>6, GatewayPoll
  <1>7. CASE UNCHANGED vars
    BY <1>7 DEF vars, GatewayInv, TypeOK, ExposureInv, WalkInv, WalkFillsBooked,
                WalkTarget
  <1>8. QED
    BY <1>1, <1>2, <1>3, <1>4, <1>5, <1>6, <1>7 DEF Next, CancelIgnored

(* The invariant holds in every reachable state.                           *)
THEOREM GatewayInvariant == Spec => []GatewayInv
  <1>1. GatewayInv /\ [Next]_vars => GatewayInv'
    BY GatewayNext
  <1>2. QED
    BY <1>1, GatewayInit, PTL DEF Spec

(* The gateway's state always has its type.                                *)
THEOREM GatewayTypeCorrect == Spec => []TypeOK
  <1>1. GatewayInv => TypeOK
    BY DEF GatewayInv
  <1>2. QED
    BY <1>1, GatewayInvariant, PTL

(* Whatever is submitted against whatever market, the position stays       *)
(* within the cap, also between the fills of one order.                    *)
THEOREM PositionStaysCapped == Spec => []PositionCap
  <1>1. GatewayInv => PositionCap
    BY DEF GatewayInv, ExposureInv, PositionCap
  <1>2. QED
    BY <1>1, GatewayInvariant, PTL

(* After the kill switch trips, the exposure never exceeds what it was.    *)
THEOREM KilledExposureStaysBounded == Spec => []KilledExposureBounded
  <1>1. GatewayInv => KilledExposureBounded
    BY DEF GatewayInv, ExposureInv, KilledExposureBounded
  <1>2. QED
    BY <1>1, GatewayInvariant, PTL

(* Every fill that a walk takes from an order's remainder is booked.       *)
THEOREM NoWalkFillIsDropped == Spec => []WalkFillsBooked
  <1>1. GatewayInv => WalkFillsBooked
    BY DEF GatewayInv, WalkInv
  <1>2. QED
    BY <1>1, GatewayInvariant, PTL
-----------------------------------------------------------------------------
(* The reports.  Those still to be polled are about tracked orders, so the *)
(* quantity each tells of does not change while it waits.                  *)
ReportsInv ==
    /\ ReportsMatchPosition
    /\ polled_position \in Int
    /\ \A i \in DOMAIN pending_reports :
          pending_reports[i].type = "Fill" => is_tracked(mgr, pending_reports[i].cloid)

(* What a report tells of is an integer, and the same for any two managers *)
(* that know its order under the same request.                             *)
LEMMA ReportedType ==
    ASSUME NEW m, ManagerOK(m), NEW r \in ExecReports,
           r.type = "Fill" => is_tracked(m, r.cloid)
    PROVE  r.type = "Fill" => SignedQty(m, r) \in Int
  <1>1. SUFFICES ASSUME r.type = "Fill" PROVE SignedQty(m, r) \in Int
    OBVIOUS
  <1>2. r \in FillReports
    BY <1>1 DEF ExecReports, StatusReports, StatusAfter
  <1>3. r.qty \in Nat
    BY <1>2 DEF FillReports
  <1>4. m.orders[r.cloid] \in Orders
    BY <1>1 DEF ManagerOK, is_tracked
  <1>5. QED
    BY <1>3, <1>4 DEF SignedQty, sign, Orders, OrderRequests

(* A step that appends one report, and moves the position by what that     *)
(* report tells of, keeps what was polled and what waits in agreement with *)
(* the position.                                                           *)
LEMMA EmittedReport ==
    ASSUME TypeOK, ReportsInv, TypeOK',
           NEW r \in ExecReports, pending_reports' = Append(pending_reports, r),
           polled_position' = polled_position,
           DOMAIN mgr.orders \subseteq DOMAIN mgr'.orders,
           \A c \in DOMAIN mgr.orders : mgr'.orders[c].request = mgr.orders[c].request,
           r.type = "Fill" => is_tracked(mgr', r.cloid),
           mgr'.position = mgr.position + (IF r.type = "Fill" THEN SignedQty(mgr', r) ELSE 0)
    PROVE  ReportsInv'
  <1> DEFINE n == Len(pending_reports)
             f == [i \in DOMAIN pending_reports |-> Reported(pending_reports[i])]
             g == [i \in DOMAIN pending_reports' |-> Reported(pending_reports[i])']
  <1>1. /\ pending_reports \in Seq(ExecReports) /\ n \in Nat /\ DOMAIN pending_reports = 1..n
        /\ DOMAIN pending_reports' = 1..(n + 1) /\ pending_reports'[n + 1] = r
        /\ \A i \in 1..n : pending_reports'[i] = pending_reports[i]
    BY AppendProperties, LenProperties DEF TypeOK
  <1>2. ManagerOK(mgr) /\ ManagerOK(mgr') /\ mgr.position \in Int
    BY DEF TypeOK, ManagerOK
  <1>3. \A i \in 1..n : pending_reports[i] \in ExecReports
    BY <1>1, ElementOfSeq
  <1>4. \A i \in 1..(n + 1) :
           pending_reports'[i].type = "Fill" => is_tracked(mgr', pending_reports'[i].cloid)
    BY <1>1 DEF ReportsInv, is_tracked
  <1>5. ASSUME NEW i \in 1..n
        PROVE  f[i] \in Int /\ g[i] = f[i]
    <2> DEFINE p == pending_reports[i]
    <2>1. p \in ExecReports /\ (p.type = "Fill" => is_tracked(mgr, p.cloid))
          /\ pending_reports'[i] = p
      BY <1>1, <1>3 DEF ReportsInv
    <2>2. f[i] = IF p.type = "Fill" THEN SignedQty(mgr, p) ELSE 0
      BY <1>1 DEF Reported
    <2>3. g[i] = IF p.type = "Fill" THEN SignedQty(mgr', p) ELSE 0
      BY <1>1, <2>1 DEF Reported
    <2>4. p.type = "Fill" => SignedQty(mgr, p) \in Int
      BY <1>2, <2>1, ReportedType
    <2>5. p.type = "Fill" => SignedQty(mgr', p) = SignedQty(mgr, p)
      BY <2>1 DEF SignedQty, is_tracked
    <2> HIDE DEF p, f, g
    <2>6. QED
      BY <2>2, <2>3, <2>4, <2>5
  <1>6. g[n + 1] = (IF r.type = "Fill" THEN SignedQty(mgr', r) ELSE 0) /\ g[n + 1] \in Int
    <2>1. g[n + 1] = IF r.type = "Fill" THEN SignedQty(mgr', r) ELSE 0
      BY <1>1 DEF Reported
    <2>2. r.type = "Fill" => SignedQty(mgr', r) \in Int
      BY <1>2, ReportedType
    <2>3. QED
      BY <2>1, <2>2
  <1>7. DOMAIN f = 1..n /\ DOMAIN g = 1..(n + 1) /\ IsFiniteSet(DOMAIN f)
    <2>1. DOMAIN f = 1..n /\ DOMAIN g = 1..(n + 1)
      BY <1>1
    <2> HIDE DEF f, g, n
    <2>2. QED
      BY <1>1, <2>1, FS_Interval
  <1>8. ReportedBy(pending_reports) = SumFunction(f) /\ ReportedBy(pending_reports)' = SumFunction(g)
    BY DEF ReportedBy
  <1> HIDE DEF f, g, n
  <1>9. SumFunction(g) = SumFunction(f) + g[n + 1]
    BY <1>1, <1>5, <1>6, <1>7, SumAppended
  <1>10. SumFunction(f) \in Int
    BY <1>5, <1>7, SumInt DEF SumFunction
  <1>11. ReportsMatchPosition'
    BY <1>2, <1>6, <1>8, <1>9, <1>10 DEF ReportsInv, ReportsMatchPosition
  <1>12. QED
    BY <1>1, <1>4, <1>11 DEF ReportsInv

LEMMA ReportsInit == Init => ReportsInv
  <1> SUFFICES ASSUME Init PROVE ReportsInv
    OBVIOUS
  <1>1. ReportedBy(pending_reports) = 0
    BY SumOfNothing DEF Init, ReportedBy
  <1>2. QED
    BY <1>1 DEF Init, ReportsInv, ReportsMatchPosition, NewManager

(* Steps that emit nothing, and the poll.                                  *)
LEMMA ReportsKept ==
    ASSUME ReportsInv, mgr' = mgr, pending_reports' = pending_reports,
           polled_position' = polled_position
    PROVE  ReportsInv'
  <1>1. \A r : Reported(r)' = Reported(r)
    BY DEF Reported
  <1>2. ReportedBy(pending_reports)' = ReportedBy(pending_reports)
    BY DEF ReportedBy, Reported
  <1>3. QED
    BY <1>2 DEF ReportsInv, ReportsMatchPosition

LEMMA ReportsPolled ==
    ASSUME TypeOK, ReportsInv, PollReports
    PROVE  ReportsInv'
  <1>1. pending_reports' = <<>> /\ mgr' = mgr
        /\ polled_position' = polled_position + ReportedBy(pending_reports)
    BY DEF PollReports
  <1>2. ReportedBy(pending_reports)' = 0
    BY <1>1, SumOfNothing DEF ReportedBy
  <1>3. mgr.position \in Int
    BY DEF TypeOK, ManagerOK
  <1>4. QED
    BY <1>1, <1>2, <1>3 DEF ReportsInv, ReportsMatchPosition

(* A status report tells of no quantity and leaves the position alone.     *)
LEMMA ReportsStatus ==
    ASSUME TypeOK, ReportsInv, TypeOK', NEW m, ManagerOK(m), m.position = mgr.position,
           DOMAIN mgr.orders \subseteq DOMAIN m.orders,
           \A c \in DOMAIN mgr.orders : m.orders[c] = mgr.orders[c],
           NEW r \in StatusReports, Emit(m, r), polled_position' = polled_position
    PROVE  ReportsInv'
  <1>1. mgr' = apply(m, r) /\ pending_reports' = Append(pending_reports, r)
    BY DEF Emit
  <1>2. /\ mgr'.position = m.position
        /\ DOMAIN mgr'.orders = DOMAIN m.orders
        /\ \A c \in DOMAIN m.orders : mgr'.orders[c].request = m.orders[c].request
    BY <1>1, StatusReportEffect
  <1>3. r \in ExecReports /\ r.type # "Fill"
    BY DEF ExecReports, StatusReports, StatusAfter
  <1>4. mgr.position \in Int
    BY DEF TypeOK, ManagerOK
  <1>5. mgr'.position = mgr.position + (IF r.type = "Fill" THEN SignedQty(mgr', r) ELSE 0)
    BY <1>2, <1>3, <1>4
  <1>6. \A c \in DOMAIN mgr.orders : mgr'.orders[c].request = mgr.orders[c].request
    BY <1>2
  <1>7. QED
    BY <1>1, <1>2, <1>3, <1>5, <1>6, EmittedReport

LEMMA ReportsSubmit ==
    ASSUME GatewayInv, GatewayInv', ReportsInv, NEW request \in Requests, Submit(request)
    PROVE  ReportsInv'
  <1>1. CASE UNCHANGED vars
    BY <1>1, ReportsKept DEF vars
  <1>2. CASE SubmitRejected(request) \/ SubmitAccepted(request)
    <2> DEFINE m == register(mgr, request)
    <2>1. PICK r \in StatusReports : Emit(m, r)
      <3>1. request.cloid \in Cloids
        BY DEF Requests
      <3>2. Rejection(request.cloid) \in StatusReports /\ Acknowledgement(request.cloid) \in StatusReports
        BY <3>1 DEF Rejection, Acknowledgement, StatusReports, StatusAfter
      <3>3. QED
        BY <1>2, <3>2 DEF SubmitRejected, SubmitAccepted
    <2>2. request \in OrderRequests
      BY GatewayAssumption DEF Requests, OrderRequests
    <2>3. /\ ManagerOK(m)
          /\ m.position = mgr.position
          /\ DOMAIN m.orders = DOMAIN mgr.orders \cup {request.cloid}
          /\ \A c \in DOMAIN mgr.orders : m.orders[c] = mgr.orders[c]
      BY <2>2, RegisterEffect DEF GatewayInv, TypeOK
    <2>4. polled_position' = polled_position
      BY <1>2 DEF SubmitRejected, SubmitAccepted
    <2> HIDE DEF m
    <2>5. QED
      BY <2>1, <2>3, <2>4, ReportsStatus DEF GatewayInv
  <1>3. QED
    BY <1>1, <1>2 DEF Submit, DuplicateSubmit

LEMMA ReportsCancel ==
    ASSUME GatewayInv, GatewayInv', ReportsInv, NEW cloid \in Cloids, Cancel(cloid)
    PROVE  ReportsInv'
  <1>1. Cancellation(cloid) \in StatusReports
    BY DEF Cancellation, StatusReports, StatusAfter
  <1>2. ManagerOK(mgr) /\ Emit(mgr, Cancellation(cloid)) /\ polled_position' = polled_position
    BY DEF GatewayInv, TypeOK, Cancel
  <1>3. QED
    BY <1>1, <1>2, ReportsStatus DEF GatewayInv

LEMMA ReportsFillLevel ==
    ASSUME GatewayInv, GatewayInv', ReportsInv, FillLevel
    PROVE  ReportsInv'
  <1>1. PICK r \in FillReports :
            /\ r.type = "Fill" /\ r \in ExecReports
            /\ is_tracked(mgr, r.cloid)
            /\ pending_reports' = Append(pending_reports, r)
            /\ DOMAIN mgr'.orders = DOMAIN mgr.orders
            /\ mgr'.position = mgr.position + SignedQty(mgr, r)
            /\ \A c \in DOMAIN mgr.orders : c # r.cloid => mgr'.orders[c] = mgr.orders[c]
            /\ mgr'.orders[r.cloid] = record_fill(mgr.orders[r.cloid], r)
    BY WalkedFill
  <1>2. \A c \in DOMAIN mgr.orders : mgr'.orders[c].request = mgr.orders[c].request
    BY <1>1 DEF record_fill
  <1>3. SignedQty(mgr', r) = SignedQty(mgr, r) /\ is_tracked(mgr', r.cloid)
    BY <1>1, <1>2 DEF SignedQty, is_tracked
  <1>4. polled_position' = polled_position
    BY DEF FillLevel
  <1>5. mgr'.position = mgr.position + (IF r.type = "Fill" THEN SignedQty(mgr', r) ELSE 0)
    BY <1>1, <1>3
  <1>6. QED
    BY <1>1, <1>2, <1>3, <1>4, <1>5, EmittedReport DEF GatewayInv

LEMMA ReportsNext ==
    ASSUME GatewayInv, GatewayInv', ReportsInv, [Next]_vars
    PROVE  ReportsInv'
  <1>1. CASE \E snap \in Snapshots : OnSnapshot(snap)
    BY <1>1, ReportsKept DEF OnSnapshot
  <1>2. CASE \E request \in Requests : Submit(request)
    BY <1>2, ReportsSubmit
  <1>3. CASE FillLevel
    BY <1>3, ReportsFillLevel
  <1>4. CASE EndWalk
    BY <1>4, ReportsKept DEF EndWalk
  <1>5. CASE \E cloid \in Cloids : Cancel(cloid)
    BY <1>5, ReportsCancel
  <1>6. CASE PollReports
    BY <1>6, ReportsPolled DEF GatewayInv
  <1>7. CASE UNCHANGED vars
    BY <1>7, ReportsKept DEF vars
  <1>8. QED
    BY <1>1, <1>2, <1>3, <1>4, <1>5, <1>6, <1>7 DEF Next, CancelIgnored

(* What a reader has polled and what waits for it always add up to the     *)
(* gateway's position.                                                     *)
THEOREM ReportsAlwaysMatch == Spec => []ReportsMatchPosition
  <1>1. GatewayInv /\ GatewayInv' /\ ReportsInv /\ [Next]_vars => ReportsInv'
    BY ReportsNext
  <1>2. ReportsInv => ReportsMatchPosition
    BY DEF ReportsInv
  <1>3. QED
    BY <1>1, <1>2, ReportsInit, GatewayInvariant, PTL DEF Spec
-----------------------------------------------------------------------------
(* The walk of the ladder.  What it has filled so far is the depth of the  *)
(* levels it has passed, or the whole order if that is less.               *)
LevelSizes(ladder) == [i \in DOMAIN ladder |-> ladder[i].qty]
DepthTo(ladder, k) == SumFunctionOnSet(LevelSizes(ladder), 1..k)

DepthInv ==
    walk.active =>
        LET o == mgr.orders[walk.request.cloid]
        IN  /\ walk.level <= Len(WalkedLadder) + 1
            /\ o.filled_qty = Lesser(walk.request.qty, DepthTo(WalkedLadder, walk.level - 1))
            /\ (o.status = "Filled") <=> (o.filled_qty = walk.request.qty)

(* Depths are natural numbers that grow level by level.                    *)
LEMMA DepthSteps ==
    ASSUME NEW ladder \in Seq(Levels)
    PROVE  /\ DepthTo(ladder, 0) = 0
           /\ \A k \in 0..Len(ladder) :
                 DepthTo(ladder, k) \in Nat /\ DepthTo(ladder, k) <= Depth(ladder)
           /\ \A k \in 1..Len(ladder) :
                 DepthTo(ladder, k) = DepthTo(ladder, k - 1) + ladder[k].qty
           /\ Depth(ladder) = DepthTo(ladder, Len(ladder)) /\ Depth(ladder) \in Nat
  <1> DEFINE n == Len(ladder)
             f == LevelSizes(ladder)
  <1>1. n \in Nat /\ DOMAIN ladder = 1..n
    BY LenProperties
  <1>2. \A i \in 1..n : f[i] = ladder[i].qty /\ f[i] \in Nat /\ f[i] \in Int
    <2>1. \A i \in 1..n : ladder[i] \in Levels
      BY ElementOfSeq
    <2>2. QED
      BY <1>1, <2>1 DEF LevelSizes, Levels
  <1>3. DOMAIN f = 1..n
    BY <1>1 DEF LevelSizes
  <1>4. Depth(ladder) = SumFunctionOnSet(f, 1..n)
    BY <1>3 DEF Depth, SumFunction, LevelSizes
  <1>5. \A k \in Int : DepthTo(ladder, k) = SumFunctionOnSet(f, 1..k)
    BY DEF DepthTo
  <1> HIDE DEF f, n
  <1>6. DepthTo(ladder, 0) = 0
    <2>1. 1..0 = {}
      OBVIOUS
    <2>2. QED
      BY <1>5, <2>1, SumEmpty
  <1>7. ASSUME NEW k \in 0..n
        PROVE  DepthTo(ladder, k) \in Nat /\ DepthTo(ladder, k) <= Depth(ladder)
               /\ Depth(ladder) \in Nat
    BY <1>1, <1>2, <1>4, <1>5, SumPrefix
  <1>8. ASSUME NEW k \in 1..n
        PROVE  DepthTo(ladder, k) = DepthTo(ladder, k - 1) + ladder[k].qty
    <2>1. 1 \in Int /\ k \in Int /\ 1 <= k /\ k - 1 \in Int /\ \A i \in 1..k : f[i] \in Int
      BY <1>1, <1>2
    <2>2. SumFunctionOnSet(f, 1..k) = SumFunctionOnSet(f, 1..(k - 1)) + f[k]
      BY <2>1, SumLastTerm
    <2>3. QED
      BY <1>2, <1>5, <2>1, <2>2
  <1>9. n \in 0..n /\ n \in Int
    BY <1>1
  <1>10. QED
    BY <1>4, <1>5, <1>6, <1>7, <1>8, <1>9 DEF n

LEMMA DepthSubmit ==
    ASSUME GatewayInv, NEW request \in Requests, SubmitAccepted(request)
    PROVE  DepthInv'
  <1> DEFINE m == register(mgr, request)
             r == Acknowledgement(request.cloid)
  <1>1. request \in OrderRequests /\ request.cloid \in Cloids /\ request.qty \in Nat \ {0}
        /\ request.side \in Side
    BY GatewayAssumption DEF Requests, OrderRequests
  <1>2. r \in StatusReports /\ StatusAfter[r.type] = "Acked"
    BY <1>1 DEF Acknowledgement, StatusReports, StatusAfter
  <1>3. /\ ManagerOK(m) /\ request.cloid \in DOMAIN m.orders
        /\ m.orders[request.cloid] = NewOrder(request)
    BY <1>1, RegisterEffect DEF SubmitAccepted, GatewayInv, TypeOK
  <1>4. mgr' = apply(m, r) /\ book' = book
    BY DEF SubmitAccepted, Emit
  <1> HIDE DEF m, r
  <1>5. /\ mgr'.orders[request.cloid].filled_qty = 0
        /\ mgr'.orders[request.cloid].status \in {"Pending", "Acked"}
    BY <1>2, <1>3, <1>4, StatusReportEffect DEF NewOrder
  <1>6. CASE walk' = NoWalk
    BY <1>6 DEF DepthInv, NoWalk
  <1>7. CASE walk' = [active |-> TRUE, request |-> request,
                      remaining |-> request.qty, level |-> 1]
    <2> DEFINE ladder == Opposite(book', request.side)
    <2>1. ladder \in Seq(Levels)
      BY <1>4 DEF GatewayInv, TypeOK, Books, Opposite
    <2>2. DepthTo(ladder, 0) = 0 /\ Len(ladder) \in Nat
      BY <2>1, DepthSteps, LenProperties
    <2>3. WalkedLadder' = ladder /\ walk'.level = 1 /\ walk'.request = request
      BY <1>7 DEF WalkedLadder
    <2> HIDE DEF ladder
    <2>4. walk'.level <= Len(ladder) + 1 /\ walk'.level - 1 = 0
      BY <2>2, <2>3
    <2>5. Lesser(request.qty, DepthTo(ladder, walk'.level - 1)) = 0
      BY <1>1, <2>2, <2>4 DEF Lesser
    <2>6. QED
      BY <1>1, <1>5, <2>3, <2>4, <2>5 DEF DepthInv
  <1>8. QED
    BY <1>6, <1>7 DEF SubmitAccepted

LEMMA DepthFillLevel ==
    ASSUME GatewayInv, DepthInv, FillLevel
    PROVE  DepthInv'
  <1> DEFINE c0 == walk.request.cloid
             o == mgr.orders[c0]
             after == mgr'.orders[c0]
             q == walk.request.qty
             ladder == WalkedLadder
             k == walk.level
  <1>1. walk \in Walks /\ walk.active /\ walk.remaining > 0 /\ k <= Len(ladder)
    BY DEF GatewayInv, FillLevel, TypeOK, NoWalk
  <1>2. q \in Nat /\ walk.remaining \in Nat /\ k \in Nat \ {0}
    BY <1>1, GatewayAssumption DEF Walks, Requests
  <1>3. PICK r \in FillReports :
            /\ r.cloid = c0
            /\ r.qty \in 1..walk.remaining
            /\ r.qty = Lesser(ladder[k].qty, walk.remaining)
            /\ ladder[k] \in Levels
            /\ is_tracked(mgr, r.cloid)
            /\ walk' = [walk EXCEPT !.remaining = walk.remaining - r.qty,
                                    !.level = walk.level + 1]
            /\ after = record_fill(o, r)
    BY WalkedFill
  <1>4. ladder \in Seq(Levels)
    BY DEF GatewayInv, TypeOK, Books, WalkedLadder, Opposite
  <1>5. /\ o.request = walk.request /\ o.filled_qty + walk.remaining = q
        /\ o.filled_qty = Lesser(q, DepthTo(ladder, k - 1))
        /\ o \in Orders
    BY <1>1, <1>3 DEF GatewayInv, WalkInv, WalkFillsBooked, DepthInv, TypeOK, ManagerOK,
                      is_tracked
  <1>6. o.filled_qty \in Nat /\ ladder[k].qty \in Nat
    BY <1>3, <1>5 DEF Orders, Levels
  <1>7. Len(ladder) \in Nat
    BY <1>4, LenProperties
  <1>8. walk'.active /\ walk'.request = walk.request /\ walk'.level = k + 1
    BY <1>1, <1>3 DEF Walks
  <1>9. WalkedLadder' = ladder
    BY <1>8 DEF FillLevel, WalkedLadder
  <1>10. /\ after.filled_qty = o.filled_qty + r.qty
         /\ after.status = IF o.filled_qty + r.qty >= q THEN "Filled" ELSE "PartiallyFilled"
    BY <1>3, <1>5 DEF record_fill
  <1>11. r.qty \in 1..walk.remaining /\ r.qty = Lesser(ladder[k].qty, walk.remaining)
    BY <1>3
  <1> DEFINE before == DepthTo(ladder, k - 1)
             beyond == DepthTo(ladder, k)
  <1>12. before \in Nat /\ beyond = before + ladder[k].qty
    <2>1. k - 1 \in 0..Len(ladder) /\ k \in 1..Len(ladder)
      BY <1>1, <1>2, <1>7
    <2> HIDE DEF k, ladder
    <2>2. QED
      BY <1>4, <2>1, DepthSteps
  <1> HIDE DEF c0, o, after, q, ladder, k, before, beyond
  <1>13. after.filled_qty = Lesser(q, beyond)
    <2>1. o.filled_qty = Lesser(q, before)
      BY <1>5 DEF before
    <2> DEFINE filled == o.filled_qty
               level == ladder[k].qty
               left == walk.remaining
               took == r.qty
    <2>2. /\ filled \in Nat /\ level \in Nat /\ left \in Nat /\ left > 0 /\ q \in Nat
          /\ before \in Nat /\ beyond = before + level
          /\ filled + left = q /\ took = Lesser(level, left)
      BY <1>1, <1>2, <1>5, <1>6, <1>11, <1>12
    <2>3. after.filled_qty = filled + took
      BY <1>10
    <2> HIDE DEF filled, level, left, took
    <2>4. filled = before /\ before <= q /\ left = q - before
      BY <2>1, <2>2 DEF filled, Lesser
    <2>5. QED
      BY <2>2, <2>3, <2>4 DEF Lesser
  <1>14. (after.status = "Filled") <=> (after.filled_qty = q)
    BY <1>2, <1>5, <1>6, <1>10, <1>11
  <1>15. k + 1 <= Len(ladder) + 1 /\ (k + 1) - 1 = k
    BY <1>1, <1>2, <1>7
  <1>16. walk'.level <= Len(WalkedLadder') + 1 /\ walk'.level - 1 = k
    BY <1>8, <1>9, <1>15
  <1>17. mgr'.orders[walk'.request.cloid] = after /\ walk'.request.qty = q
    BY <1>8 DEF after, c0, q
  <1>18. DepthTo(WalkedLadder', walk'.level - 1) = beyond
    BY <1>9, <1>16 DEF beyond
  <1>19. QED
    BY <1>13, <1>14, <1>16, <1>17, <1>18 DEF DepthInv

LEMMA DepthNext ==
    ASSUME GatewayInv, DepthInv, [Next]_vars
    PROVE  DepthInv'
  <1>1. CASE ~walk'.active
    BY <1>1 DEF DepthInv
  <1>2. CASE FillLevel
    BY <1>2, DepthFillLevel
  <1>3. CASE \E request \in Requests : SubmitAccepted(request)
    BY <1>3, DepthSubmit
  <1>4. CASE /\ walk'.active
             /\ walk' = walk /\ book' = book /\ mgr' = mgr
    BY <1>4 DEF DepthInv, WalkedLadder, DepthTo, LevelSizes
  <1>5. ASSUME walk'.active, ~FillLevel, ~\E request \in Requests : SubmitAccepted(request)
        PROVE  walk' = walk /\ book' = book /\ mgr' = mgr
    BY <1>5 DEF Next, vars, OnSnapshot, Submit, DuplicateSubmit, SubmitRejected, EndWalk,
                Cancel, CancelIgnored, PollReports, Idle, NoWalk
  <1>6. QED
    BY <1>1, <1>2, <1>3, <1>4, <1>5

(* When a walk ends, it has filled exactly the depth there was for it.     *)
LEMMA WalkEndsExact ==
    ASSUME GatewayInv, DepthInv, EndWalk
    PROVE  LET o == mgr'.orders[walk.request.cloid]
           IN  /\ o.filled_qty = Lesser(walk.request.qty, Depth(WalkedLadder))
               /\ (o.status = "Filled") <=> (o.filled_qty = walk.request.qty)
  <1> DEFINE o == mgr.orders[walk.request.cloid]
             q == walk.request.qty
             ladder == WalkedLadder
             k == walk.level
             reached == DepthTo(ladder, k - 1)
  <1>1. walk \in Walks /\ walk.active /\ mgr' = mgr
        /\ (walk.remaining <= 0 \/ k > Len(ladder))
    BY DEF GatewayInv, EndWalk, TypeOK, NoWalk
  <1>2. q \in Nat /\ walk.remaining \in Nat /\ k \in Nat \ {0}
    BY <1>1, GatewayAssumption DEF Walks, Requests
  <1>3. ladder \in Seq(Levels)
    BY DEF GatewayInv, TypeOK, Books, WalkedLadder, Opposite
  <1>4. /\ o.filled_qty + walk.remaining = q
        /\ o.filled_qty = Lesser(q, reached)
        /\ k <= Len(ladder) + 1
        /\ (o.status = "Filled") <=> (o.filled_qty = q)
        /\ o.filled_qty \in Nat
    BY <1>1 DEF GatewayInv, WalkInv, WalkFillsBooked, DepthInv, TypeOK, ManagerOK,
                is_tracked, Orders
  <1>5. Len(ladder) \in Nat
    BY <1>3, LenProperties
  <1>6. /\ reached \in Nat /\ reached <= Depth(ladder) /\ Depth(ladder) \in Nat
        /\ k > Len(ladder) => reached = Depth(ladder)
    <2>1. k - 1 \in 0..Len(ladder) /\ (k > Len(ladder) => k - 1 = Len(ladder))
      BY <1>2, <1>4, <1>5
    <2> HIDE DEF k, ladder
    <2>2. QED
      BY <1>3, <2>1, DepthSteps
  <1> HIDE DEF o, q, ladder, k, reached
  <1>7. o.filled_qty = Lesser(q, Depth(ladder))
    BY <1>1, <1>2, <1>4, <1>6 DEF Lesser
  <1>8. QED
    BY <1>1, <1>4, <1>7 DEF o, q, ladder

(* When submit returns from walking a market order, the order has filled   *)
(* exactly the depth that was visible to it, and says Filled only if that  *)
(* was all of it.                                                          *)
THEOREM FillsMatchVisibleDepth == Spec => FillsAreVisibleDepth
  <1>1. Init => DepthInv
    BY DEF Init, DepthInv, NoWalk
  <1>2. GatewayInv /\ DepthInv /\ [Next]_vars => DepthInv'
    BY DepthNext
  <1>3. GatewayInv /\ DepthInv /\ [Next]_vars =>
           [(walk.active /\ ~walk'.active) =>
               LET o == mgr'.orders[walk.request.cloid]
               IN  /\ o.filled_qty = Lesser(walk.request.qty, Depth(WalkedLadder))
                   /\ (o.status = "Filled") <=> (o.filled_qty = walk.request.qty)]_vars
    <2> SUFFICES ASSUME GatewayInv, DepthInv, [Next]_vars, walk.active, ~walk'.active
                 PROVE  LET o == mgr'.orders[walk.request.cloid]
                        IN  /\ o.filled_qty = Lesser(walk.request.qty, Depth(WalkedLadder))
                            /\ (o.status = "Filled") <=> (o.filled_qty = walk.request.qty)
      OBVIOUS
    <2>1. CASE EndWalk
      BY <2>1, WalkEndsExact
    <2>2. CASE FillLevel
      <3>1. walk \in Walks
        BY DEF GatewayInv, TypeOK, NoWalk
      <3>2. walk'.active
        BY <2>2, <3>1 DEF FillLevel, Walks
      <3>3. QED
        BY <3>2
    <2>3. CASE walk' = walk
      BY <2>3
    <2>4. QED
      BY <2>1, <2>2, <2>3 DEF Next, vars, OnSnapshot, Submit, DuplicateSubmit, SubmitRejected,
                SubmitAccepted, Cancel, CancelIgnored, PollReports, Idle
  <1>4. QED
    BY <1>1, <1>2, <1>3, GatewayInvariant, PTL DEF Spec, FillsAreVisibleDepth
-----------------------------------------------------------------------------
(* The strategy's running sums.                                            *)
SmaStates == [window : Seq(Nat), fast_sum : Int, slow_sum : Int, last_above : Signals]
SumsExact(s) ==
    /\ Len(s.window) <= slow_n
    /\ s.fast_sum = SumLast(fast_n, s.window)
    /\ s.slow_sum = SumLast(slow_n, s.window)

(* What the sum of the last k prices becomes when a price arrives.         *)
LEMMA SumLastAppended ==
    ASSUME NEW w \in Seq(Nat), NEW p \in Nat, NEW k \in Nat \ {0}
    PROVE  LET prices == Append(w, p)
           IN  /\ SumLast(k, w) \in Int
               /\ SumLast(k, prices)
                    = SumLast(k, w) + p
                        - (IF Len(prices) > k THEN prices[Len(prices) - k] ELSE 0)
  <1> DEFINE prices == Append(w, p)
             n == Len(w)
  <1>1. n \in Nat /\ n \in Int /\ DOMAIN w = 1..n /\ \A i \in 1..n : w[i] \in Nat
    BY LenProperties, ElementOfSeq
  <1>2. Len(prices) = n + 1 /\ prices[n + 1] = p /\ \A i \in 1..n : prices[i] = w[i]
    BY <1>1, AppendProperties
  <1>3. \A i \in 1..(n + 1) : prices[i] \in Int
    BY <1>1, <1>2
  <1> HIDE DEF prices, n
  <1>4. ASSUME NEW a \in Int, 1 <= a
        PROVE  SumFunctionOnSet(w, a..n) \in Int
    <2>1. IsFiniteSet(a..n)
      BY <1>1, FS_Interval
    <2>2. \A i \in a..n : w[i] \in Int
      BY <1>1, <1>4
    <2>3. QED
      BY <2>1, <2>2, SumInt
  <1>5. ASSUME NEW a \in Int, 1 <= a, a <= n + 1
        PROVE  SumFunctionOnSet(prices, a..(n + 1)) = SumFunctionOnSet(w, a..n) + p
    <2>1. \A i \in a..(n + 1) : prices[i] \in Int
      BY <1>1, <1>3, <1>5
    <2>2. SumFunctionOnSet(prices, a..(n + 1))
          = SumFunctionOnSet(prices, a..((n + 1) - 1)) + prices[n + 1]
      BY <1>1, <1>5, <2>1, SumLastTerm
    <2>3. (n + 1) - 1 = n
      BY <1>1
    <2>4. IsFiniteSet(a..n)
      BY <1>1, FS_Interval
    <2>5. \A i \in a..n : prices[i] = w[i]
      BY <1>1, <1>2, <1>5
    <2>6. SumFunctionOnSet(prices, a..n) = SumFunctionOnSet(w, a..n)
      BY <2>4, <2>5, SumSame
    <2>7. QED
      BY <1>2, <2>2, <2>3, <2>6
  <1>6. CASE n + 1 > k
    <2> DEFINE a == (n + 1) - k
    <2>1. a \in Int /\ 1 <= a /\ a <= n /\ a + 1 <= n + 1 /\ 1 <= a + 1 /\ a + 1 \in Int
      BY <1>1, <1>6
    <2>2. Greater(1, n - k + 1) = a /\ Greater(1, (n + 1) - k + 1) = a + 1
      BY <1>1, <1>6 DEF Greater
    <2>3. SumLast(k, w) = SumFunctionOnSet(w, a..n)
      BY <2>2 DEF SumLast, n
    <2>4. SumLast(k, prices) = SumFunctionOnSet(prices, (a + 1)..(n + 1))
      BY <1>2, <2>2 DEF SumLast
    <2> HIDE DEF a
    <2>5. SumLast(k, prices) = SumFunctionOnSet(w, (a + 1)..n) + p
      BY <1>5, <2>1, <2>4
    <2>6. SumFunctionOnSet(w, a..n) = SumFunctionOnSet(w, (a + 1)..n) + w[a]
      <3>1. \A i \in a..n : w[i] \in Int
        BY <1>1, <2>1
      <3>2. QED
        BY <1>1, <2>1, <3>1, SumFirstTerm
    <2>7. SumFunctionOnSet(w, a..n) \in Int /\ SumFunctionOnSet(w, (a + 1)..n) \in Int
      BY <1>4, <2>1
    <2>8. prices[Len(prices) - k] = w[a] /\ w[a] \in Nat
      BY <1>1, <1>2, <2>1 DEF a
    <2>9. Len(prices) > k
      BY <1>2, <1>6
    <2>10. SumLast(k, prices) = SumLast(k, w) + p - prices[Len(prices) - k]
      BY <2>3, <2>5, <2>6, <2>7, <2>8
    <2>11. SumLast(k, w) \in Int
      BY <2>3, <2>7
    <2>12. QED
      BY <2>9, <2>10, <2>11 DEF prices
  <1>7. CASE ~(n + 1 > k)
    <2>1. Greater(1, n - k + 1) = 1 /\ Greater(1, (n + 1) - k + 1) = 1
      BY <1>1, <1>7 DEF Greater
    <2>2. SumLast(k, w) = SumFunctionOnSet(w, 1..n)
      BY <2>1 DEF SumLast, n
    <2>3. SumLast(k, prices) = SumFunctionOnSet(prices, 1..(n + 1))
      BY <1>2, <2>1 DEF SumLast
    <2>4. 1 \in Int /\ 1 <= 1 /\ 1 <= n + 1
      BY <1>1
    <2>5. SumLast(k, prices) = SumLast(k, w) + p /\ SumLast(k, w) \in Int
      BY <1>4, <1>5, <2>2, <2>3, <2>4
    <2>6. ~(Len(prices) > k)
      BY <1>2, <1>7
    <2>7. QED
      BY <2>5, <2>6 DEF prices
  <1>8. QED
    BY <1>6, <1>7

(* The oldest price that leaves a full window is in none of the sums.      *)
LEMMA SumLastTail ==
    ASSUME NEW prices \in Seq(Nat), NEW k \in Nat \ {0}, k < Len(prices)
    PROVE  SumLast(k, Tail(prices)) = SumLast(k, prices)
  <1> DEFINE n == Len(prices)
             rest == Tail(prices)
             a == n - k
  <1>1. n \in Nat /\ n \in Int /\ prices # <<>> /\ \A i \in 1..n : prices[i] \in Nat
    BY LenProperties, ElementOfSeq
  <1>2. Len(rest) = n - 1 /\ \A i \in 1..(n - 1) : rest[i] = prices[i + 1]
    BY <1>1, HeadTailProperties
  <1> HIDE DEF rest, n
  <1>3. a \in Int /\ 1 <= a /\ a + 1 \in Int /\ n - 1 \in Int /\ (n - 1) + 1 = n
    BY <1>1 DEF n
  <1>4. Greater(1, n - k + 1) = a + 1 /\ Greater(1, (n - 1) - k + 1) = a
    BY <1>1, <1>3 DEF Greater
  <1>5. SumLast(k, rest) = SumFunctionOnSet(rest, a..(n - 1))
    BY <1>2, <1>4 DEF SumLast
  <1>6. SumLast(k, prices) = SumFunctionOnSet(prices, (a + 1)..n)
    BY <1>4 DEF SumLast, n
  <1> HIDE DEF a
  <1>7. \A i \in a..(n - 1) : rest[i] \in Int /\ prices[i + 1] = rest[i]
    <2>1. \A i \in a..(n - 1) : i \in 1..(n - 1) /\ i + 1 \in 1..n
      BY <1>1, <1>3
    <2>2. QED
      BY <1>1, <1>2, <2>1
  <1>8. SumFunctionOnSet(prices, (a + 1)..((n - 1) + 1)) = SumFunctionOnSet(rest, a..(n - 1))
    <2> DEFINE b == n - 1
    <2>1. a \in Int /\ b \in Int
      BY <1>3
    <2>2. \A i \in a..b : rest[i] \in Int
      BY <1>7
    <2>3. \A i \in a..b : prices[i + 1] = rest[i]
      BY <1>7
    <2> HIDE DEF b
    <2>4. SumFunctionOnSet(prices, (a + 1)..(b + 1)) = SumFunctionOnSet(rest, a..b)
      BY <2>1, <2>2, <2>3, SumShift, Zenon
    <2>5. QED
      BY <2>4 DEF b
  <1>9. QED
    BY <1>3, <1>5, <1>6, <1>8 DEF rest

(* One snapshot keeps both sums exact, whatever its mid.                   *)
LEMMA ObserveExact ==
    ASSUME NEW s \in SmaStates, SumsExact(s), NEW p \in Nat
    PROVE  Observe(s, p) \in SmaStates /\ SumsExact(Observe(s, p))
  <1> DEFINE w == s.window
             prices == Append(w, p)
             overflow == Len(prices) > slow_n
             fast == s.fast_sum + p - Leaving(prices)
             slow == s.slow_sum + p - (IF overflow THEN Head(prices) ELSE 0)
             window == IF overflow THEN Tail(prices) ELSE prices
             above == IF Len(window) < slow_n THEN s.last_above ELSE fast_above(fast, slow)
  <1>1. Observe(s, p) = [window |-> window, fast_sum |-> fast, slow_sum |-> slow,
                         last_above |-> above]
    BY DEF Observe
  <1>2. /\ fast_n \in Nat \ {0} /\ slow_n \in Nat \ {0} /\ fast_n < slow_n
    BY SmaAssumption
  <1>3. w \in Seq(Nat) /\ Len(w) \in Nat /\ Len(w) <= slow_n
        /\ s.last_above \in Signals
    BY LenProperties DEF SmaStates, SumsExact
  <1>4. /\ prices \in Seq(Nat) /\ Len(prices) = Len(w) + 1 /\ prices # <<>>
        /\ Head(prices) = prices[1]
    <2> HIDE DEF w
    <2>1. prices \in Seq(Nat) /\ Len(prices) = Len(w) + 1 /\ prices # <<>>
      BY <1>3, AppendProperties
    <2> HIDE DEF prices
    <2>2. QED
      BY <2>1, HeadTailProperties
  <1>5. fast = SumLast(fast_n, prices)
    <2>1. s.fast_sum = SumLast(fast_n, w)
      BY DEF SumsExact
    <2>2. SumLast(fast_n, prices) = SumLast(fast_n, w) + p
              - (IF Len(prices) > fast_n THEN prices[Len(prices) - fast_n] ELSE 0)
      BY <1>2, <1>3, SumLastAppended
    <2>3. QED
      BY <2>1, <2>2, Zenon DEF Leaving
  <1>6. slow = SumLast(slow_n, prices)
    <2>1. overflow => Len(prices) - slow_n = 1
      BY <1>2, <1>3, <1>4
    <2>2. SumLast(slow_n, prices) = SumLast(slow_n, w) + p
              - (IF Len(prices) > slow_n THEN prices[Len(prices) - slow_n] ELSE 0)
      BY <1>2, <1>3, SumLastAppended
    <2>3. QED
      BY <1>4, <2>1, <2>2 DEF SumsExact
  <1>7. fast \in Int /\ slow \in Int
    <2>1. \A k \in Nat \ {0} : SumLast(k, prices) \in Int
      BY <1>4, SumLastAppended
    <2>2. QED
      BY <1>2, <1>5, <1>6, <2>1
  <1>8. window \in Seq(Nat) /\ Len(window) <= slow_n
    BY <1>2, <1>3, <1>4, HeadTailProperties
  <1>9. /\ SumLast(fast_n, window) = SumLast(fast_n, prices)
        /\ SumLast(slow_n, window) = SumLast(slow_n, prices)
    <2>1. CASE overflow
      <3>1. fast_n < Len(prices) /\ slow_n < Len(prices)
        BY <1>2, <1>3, <1>4, <2>1
      <3> HIDE DEF prices
      <3>2. QED
        BY <1>2, <1>4, <2>1, <3>1, SumLastTail
    <2>2. CASE ~overflow
      BY <2>2
    <2>3. QED
      BY <2>1, <2>2
  <1>10. above \in Signals
    BY <1>3 DEF fast_above, Signals
  <1> HIDE DEF window, fast, slow, above, prices
  <1>11. Observe(s, p) \in SmaStates
    BY <1>1, <1>7, <1>8, <1>10 DEF SmaStates
  <1>12. QED
    BY <1>1, <1>5, <1>6, <1>8, <1>9, <1>11 DEF SumsExact
-----------------------------------------------------------------------------
(* The loop's invariant: client order ids are handed out in order, the     *)
(* walk under way leads no further than the strategy's target, and an      *)
(* order is only asked for between two calls on the gateway.               *)
LoopInv ==
    /\ GatewayInv
    /\ phase \in {"recv", "submit", "fill", "poll"}
    /\ sma \in SmaStates /\ SumsExact(sma)
    /\ \E n \in Nat : DOMAIN mgr.orders = 1..n
    /\ WithinTarget
    /\ Abs(WalkTarget) <= order_qty
    /\ phase # "fill" => Idle
    /\ phase = "submit" => /\ next_cloid \in Cloids
                           /\ Delta(sma.last_above, mgr.position) # 0
    /\ KilledWhenDue

(* The next client order id is new.                                        *)
LEMMA NextCloidFresh ==
    ASSUME NEW n \in Nat, DOMAIN mgr.orders = 1..n
    PROVE  next_cloid = n + 1 /\ next_cloid \notin DOMAIN mgr.orders
  <1>1. Cardinality(1..n) = n
    BY FS_Interval
  <1>2. QED
    BY <1>1 DEF next_cloid

(* What the strategy asks for is an order the gateway expects, and leads   *)
(* exactly to a target.                                                    *)
LEMMA IntentIsRequest ==
    ASSUME LoopInv, phase = "submit"
    PROVE  /\ Intent \in Requests
           /\ Intent.cloid = next_cloid /\ next_cloid \notin DOMAIN mgr.orders
           /\ mgr.position + sign(Intent.side) * Intent.qty \in {order_qty, -order_qty}
  <1> DEFINE delta == Delta(sma.last_above, mgr.position)
  <1>1. mgr.position \in Int /\ order_qty \in Nat \ {0}
    BY SmaAssumption DEF LoopInv, GatewayInv, TypeOK, ManagerOK
  <1>2. -order_qty <= mgr.position /\ mgr.position <= order_qty
    BY <1>1 DEF LoopInv, WithinTarget, Abs
  <1>3. delta \in Int /\ delta # 0 /\ mgr.position + delta \in {order_qty, -order_qty}
    BY <1>1 DEF LoopInv, Delta
  <1>4. Abs(delta) \in 1..2 * order_qty
    BY <1>1, <1>2, <1>3 DEF Abs
  <1>5. Abs(delta) \in Quantities
    BY <1>4, LoopAssumption
  <1>6. next_cloid \in Cloids /\ next_cloid \notin DOMAIN mgr.orders
    BY NextCloidFresh DEF LoopInv
  <1>7. Intent = [cloid |-> next_cloid, side |-> IF delta > 0 THEN "Buy" ELSE "Sell",
                  qty |-> Abs(delta), kind |-> "Market"]
    BY DEF Intent
  <1> HIDE DEF delta
  <1>8. Intent \in Requests /\ Intent.cloid = next_cloid
    BY <1>5, <1>6, <1>7 DEF Requests, Side
  <1>9. sign(Intent.side) * Intent.qty = delta
    BY <1>3, <1>7 DEF sign, Abs
  <1>10. QED
    BY <1>3, <1>6, <1>8, <1>9

(* Every step of the loop is one of the gateway's own or leaves it alone.  *)
LEMMA LoopUsesGateway ==
    ASSUME LoopInv, [LoopNext]_loopVars
    PROVE  [Next]_vars
  <1>1. CASE \E snap \in Snapshots : HandleSnapshot(snap)
    BY <1>1 DEF HandleSnapshot, Next
  <1>2. CASE SubmitIntent
    BY <1>2, IntentIsRequest DEF SubmitIntent, Next
  <1>3. CASE WalkBook
    BY <1>3 DEF WalkBook, Next
  <1>4. CASE SubmitReturns
    BY <1>4 DEF SubmitReturns
  <1>5. CASE PollAndRecord
    BY <1>5 DEF PollAndRecord, Next
  <1>6. CASE UNCHANGED loopVars
    BY <1>6 DEF loopVars
  <1>7. QED
    BY <1>1, <1>2, <1>3, <1>4, <1>5, <1>6 DEF LoopNext, FinishEvent

LEMMA MidType ==
    ASSUME NEW b \in Books, has_mid(b)
    PROVE  mid(b) \in Nat
  <1>1. b.bids \in Seq(Levels) /\ b.asks \in Seq(Levels) /\ b.bids # <<>> /\ b.asks # <<>>
    BY DEF Books, has_mid
  <1>2. b.bids[1] \in Levels /\ b.asks[1] \in Levels
    BY <1>1, EmptySeq, ElementOfSeq
  <1>3. b.bids[1].px + b.asks[1].px \in Nat
    BY <1>2 DEF Levels
  <1>4. QED
    BY <1>3, TruncDivType DEF mid, midpoint

LEMMA LoopInitHolds == LoopInit => LoopInv
  <1> SUFFICES ASSUME LoopInit PROVE LoopInv
    OBVIOUS
  <1>1. GatewayInv /\ Idle /\ DOMAIN mgr.orders = {} /\ mgr.position = 0 /\ phase = "recv"
    BY GatewayInit DEF LoopInit, Init, NoWalk, Idle, NewManager
  <1>2. DOMAIN mgr.orders = 1..0
    BY <1>1
  <1>3. sma \in SmaStates
    BY EmptySeq DEF LoopInit, NewSma, SmaStates, Signals
  <1>4. SumsExact(sma)
    <2>1. Len(<<>>) = 0
      BY EmptySeq
    <2>2. \A k \in Nat \ {0} : SumLast(k, <<>>) = 0
      <3>1. SUFFICES ASSUME NEW k \in Nat \ {0} PROVE SumLast(k, <<>>) = 0
        OBVIOUS
      <3>2. Greater(1, Len(<<>>) - k + 1)..Len(<<>>) = {}
        BY <2>1 DEF Greater
      <3>3. QED
        BY <3>2, SumEmpty DEF SumLast
    <2>3. sma.window = <<>> /\ sma.fast_sum = 0 /\ sma.slow_sum = 0
      BY DEF LoopInit, NewSma
    <2>4. fast_n \in Nat \ {0} /\ slow_n \in Nat \ {0}
      BY SmaAssumption
    <2>5. QED
      BY <2>1, <2>2, <2>3, <2>4 DEF SumsExact
  <1>5. Abs(0) <= order_qty /\ WalkTarget = 0
    BY <1>1, SmaAssumption DEF Abs, WalkTarget, Idle
  <1>6. QED
    BY <1>1, <1>2, <1>3, <1>4, <1>5 DEF LoopInv, WithinTarget, KilledWhenDue

LEMMA LoopSnapshot ==
    ASSUME LoopInv, GatewayInv', NEW snap \in Snapshots, HandleSnapshot(snap)
    PROVE  LoopInv'
  <1>1. mgr' = mgr /\ walk' = walk /\ OnSnapshot(snap) /\ Idle
    BY DEF HandleSnapshot, OnSnapshot
  <1>2. sma' \in SmaStates /\ SumsExact(sma')
    <2>1. book' \in Books
      BY DEF GatewayInv, TypeOK
    <2>2. CASE has_mid(book')
      <3>1. mid(book') \in Nat
        BY <2>1, <2>2, MidType
      <3>2. QED
        BY <2>2, <3>1, ObserveExact DEF HandleSnapshot, LoopInv
    <2>3. CASE ~has_mid(book')
      BY <2>3 DEF HandleSnapshot, LoopInv
    <2>4. QED
      BY <2>2, <2>3
  <1>3. phase' \in {"submit", "poll"}
        /\ (phase' = "submit" => Delta(sma'.last_above, mgr.position) # 0)
        /\ next_cloid \in Cloids
    BY DEF HandleSnapshot
  <1>4. WalkTarget' = WalkTarget /\ Idle' /\ next_cloid' = next_cloid
    BY <1>1 DEF WalkTarget, Idle, next_cloid
  <1>5. KilledWhenDue'
    <2>1. gate' = on_equity(gate, equity(mgr, book'))
      BY <1>1 DEF OnSnapshot
    <2>2. QED
      BY <1>1, <2>1 DEF KilledWhenDue, on_equity
  <1>6. QED
    BY <1>1, <1>2, <1>3, <1>4, <1>5 DEF LoopInv, WithinTarget

LEMMA LoopSubmit ==
    ASSUME LoopInv, GatewayInv', SubmitIntent
    PROVE  LoopInv'
  <1>1. /\ Intent \in Requests /\ Intent.cloid = next_cloid
        /\ next_cloid \notin DOMAIN mgr.orders
        /\ mgr.position + sign(Intent.side) * Intent.qty \in {order_qty, -order_qty}
    BY IntentIsRequest DEF SubmitIntent
  <1>2. SubmitRejected(Intent) \/ SubmitAccepted(Intent)
    BY <1>1 DEF SubmitIntent, Submit, DuplicateSubmit, is_tracked
  <1>3. /\ DOMAIN mgr'.orders = DOMAIN mgr.orders \cup {next_cloid}
        /\ mgr'.position = mgr.position
    BY <1>1, <1>2, SubmitEffect DEF LoopInv
  <1>4. \E n \in Nat : DOMAIN mgr'.orders = 1..n
    <2>1. PICK n \in Nat : DOMAIN mgr.orders = 1..n
      BY DEF LoopInv
    <2>2. next_cloid = n + 1
      BY <2>1, NextCloidFresh
    <2>3. DOMAIN mgr'.orders = 1..(n + 1)
      BY <1>3, <2>1, <2>2
    <2>4. QED
      BY <2>3
  <1>5. phase' = "fill" /\ sma' = sma
    BY DEF SubmitIntent
  <1>6. mgr.position \in Int /\ order_qty \in Nat /\ Abs(mgr.position) <= order_qty
    BY SmaAssumption DEF LoopInv, GatewayInv, TypeOK, ManagerOK, WithinTarget
  <1>7. WalkTarget' \in {mgr.position, order_qty, -order_qty}
    <2>1. CASE SubmitRejected(Intent)
      BY <1>3, <1>6, <2>1 DEF SubmitRejected, Idle, WalkTarget
    <2>2. CASE SubmitAccepted(Intent)
      <3>1. \/ walk' = NoWalk
            \/ walk' = [active |-> TRUE, request |-> Intent,
                        remaining |-> Intent.qty, level |-> 1]
        BY <2>2 DEF SubmitAccepted
      <3>2. QED
        BY <1>1, <1>3, <1>6, <3>1 DEF WalkTarget, NoWalk
    <2>3. QED
      BY <1>2, <2>1, <2>2
  <1>8. Abs(WalkTarget') <= order_qty
    BY <1>6, <1>7 DEF Abs
  <1>9. QED
    BY <1>3, <1>4, <1>5, <1>6, <1>8 DEF LoopInv, WithinTarget, KilledWhenDue

LEMMA LoopWalk ==
    ASSUME LoopInv, GatewayInv', WalkBook
    PROVE  LoopInv'
  <1>1. phase = "fill" /\ phase' = "fill" /\ sma' = sma
    BY DEF WalkBook
  <1>2. mgr.position \in Int /\ order_qty \in Int /\ Abs(mgr.position) <= order_qty
        /\ Abs(WalkTarget) <= order_qty
    BY SmaAssumption DEF LoopInv, GatewayInv, TypeOK, ManagerOK, WithinTarget
  <1>3. CASE EndWalk
    <2>1. mgr' = mgr /\ WalkTarget' = mgr.position
      BY <1>2, <1>3 DEF EndWalk, WalkTarget, NoWalk
    <2>2. QED
      BY <1>1, <1>2, <2>1 DEF LoopInv, WithinTarget, KilledWhenDue
  <1>4. CASE FillLevel
    <2> DEFINE s == sign(walk.request.side)
    <2>1. walk \in Walks /\ walk.active
      BY <1>4 DEF LoopInv, GatewayInv, TypeOK, NoWalk, FillLevel
    <2>2. s \in {1, -1} /\ walk.remaining \in Nat
      BY <2>1 DEF Walks, sign
    <2>3. PICK r \in FillReports :
             /\ r.qty \in 1..walk.remaining
             /\ walk' = [walk EXCEPT !.remaining = walk.remaining - r.qty,
                                     !.level = walk.level + 1]
             /\ DOMAIN mgr'.orders = DOMAIN mgr.orders
             /\ mgr'.position = mgr.position + s * r.qty
      <3> HIDE DEF s
      <3>1. QED
        BY <1>4, WalkedFill DEF LoopInv, s
    <2>4. walk'.active /\ walk'.request = walk.request
          /\ walk'.remaining = walk.remaining - r.qty
      BY <2>1, <2>3 DEF Walks
    <2> HIDE DEF s
    <2>5. /\ WalkTarget = mgr.position + s * walk.remaining
          /\ WalkTarget' = mgr'.position + s * (walk.remaining - r.qty)
      BY <2>1, <2>4 DEF WalkTarget, s
    <2>6. Abs(mgr'.position) <= order_qty /\ Abs(WalkTarget') <= order_qty
      <3>1. mgr'.position \in {mgr.position, mgr.position + s * r.qty}
        BY <2>3
      <3>2. QED
        BY <1>2, <2>2, <2>3, <2>5, <3>1, PartialFillBounded
    <2>7. QED
      BY <1>1, <2>3, <2>6 DEF LoopInv, WithinTarget, KilledWhenDue
  <1>5. QED
    BY <1>3, <1>4 DEF WalkBook

LEMMA LoopReturnsOrPolls ==
    ASSUME LoopInv, GatewayInv', SubmitReturns \/ PollAndRecord
    PROVE  LoopInv'
  <1>1. /\ mgr' = mgr /\ walk' = walk /\ sma' = sma /\ phase' \in {"recv", "poll"} /\ Idle
    BY DEF SubmitReturns, PollAndRecord, PollReports, vars, LoopInv
  <1>2. WalkTarget' = WalkTarget /\ Idle'
    BY <1>1 DEF WalkTarget, Idle
  <1>3. QED
    BY <1>1, <1>2 DEF LoopInv, WithinTarget, KilledWhenDue

LEMMA LoopStep ==
    ASSUME LoopInv, [LoopNext]_loopVars
    PROVE  LoopInv'
  <1>1. GatewayInv'
    BY LoopUsesGateway, GatewayNext DEF LoopInv
  <1>2. CASE \E snap \in Snapshots : HandleSnapshot(snap)
    BY <1>1, <1>2, LoopSnapshot
  <1>3. CASE SubmitIntent
    BY <1>1, <1>3, LoopSubmit
  <1>4. CASE WalkBook
    BY <1>1, <1>4, LoopWalk
  <1>5. CASE SubmitReturns \/ PollAndRecord
    BY <1>1, <1>5, LoopReturnsOrPolls
  <1>6. CASE UNCHANGED loopVars
    <2>1. UNCHANGED <<vars, phase, sma>>
      BY <1>6 DEF loopVars
    <2>2. WalkTarget' = WalkTarget /\ next_cloid' = next_cloid /\ KilledWhenDue'
      BY <2>1 DEF vars, WalkTarget, next_cloid, KilledWhenDue, equity, unrealized, LoopInv
    <2>3. QED
      BY <1>1, <2>1, <2>2 DEF vars, LoopInv, WithinTarget, Idle
  <1>7. QED
    BY <1>2, <1>3, <1>4, <1>5, <1>6 DEF LoopNext, FinishEvent

(* The invariant holds in every reachable state of the loop.               *)
THEOREM LoopInvariant == LoopSpec => []LoopInv
  <1>1. LoopInv /\ [LoopNext]_loopVars => LoopInv'
    BY LoopStep
  <1>2. QED
    BY <1>1, LoopInitHolds, PTL DEF LoopSpec

(* The loop implements the gateway's specification: all it does to the     *)
(* gateway are the gateway's own calls, with requests the gateway expects. *)
THEOREM LoopImplementsGateway == LoopSpec => UsesGateway
  <1>1. LoopInv /\ [LoopNext]_loopVars => [Next]_vars
    BY LoopUsesGateway
  <1>2. LoopInit => Init
    BY DEF LoopInit
  <1>3. QED
    BY <1>1, <1>2, LoopInvariant, PTL DEF LoopSpec, UsesGateway, Spec

(* Both running sums are always the sums over the windows they stand for.  *)
THEOREM SumsNeverDrift == LoopSpec => []RollingSumsExact
  <1>1. LoopInv => RollingSumsExact
    BY DEF LoopInv, SumsExact, RollingSumsExact
  <1>2. QED
    BY <1>1, LoopInvariant, PTL

(* The loop never holds more than its strategy's target.                   *)
THEOREM LoopWithinTarget == LoopSpec => []WithinTarget
  <1>1. LoopInv => WithinTarget
    BY DEF LoopInv
  <1>2. QED
    BY <1>1, LoopInvariant, PTL

(* No order is adjudicated before the kill switch has been given the       *)
(* chance to trip on the book the strategy saw.                            *)
THEOREM SwitchTripsInTime == LoopSpec => []KilledWhenDue
  <1>1. LoopInv => KilledWhenDue
    BY DEF LoopInv
  <1>2. QED
    BY <1>1, LoopInvariant, PTL
-----------------------------------------------------------------------------
(* The metrics.  A counter lags behind the orders by the reports of its    *)
(* kind that are still waiting, and none waits between two events.         *)
Metrics == [orders_submitted : Nat, orders_rejected : Nat, fills_total : Nat,
            position : Int, equity : Int]
FillsBooked ==
    SumFunction([c \in DOMAIN mgr.orders |-> Cardinality(mgr.orders[c].seen_fills)])

MetricsInv ==
    /\ metrics \in Metrics
    /\ metrics.orders_submitted = Cardinality(DOMAIN mgr.orders)
    /\ metrics.orders_rejected + CountOf("Rejected") = Cardinality(OrdersIn("Rejected"))
    /\ metrics.fills_total + CountOf("Fill") = FillsBooked
    /\ phase = "recv" => /\ pending_reports = <<>>
                         /\ metrics.position = mgr.position
                         /\ book # EmptyBook => metrics.equity = equity(mgr, book)

(* A report is counted under its own type.                                 *)
LEMMA CountAppended ==
    ASSUME TypeOK, NEW r, r \in ExecReports,
           pending_reports' = Append(pending_reports, r), NEW type
    PROVE  CountOf(type)' = CountOf(type) + (IF r.type = type THEN 1 ELSE 0)
  <1> DEFINE n == Len(pending_reports)
             S == {i \in 1..n : pending_reports[i].type = type}
             T == {i \in 1..Len(pending_reports') : pending_reports'[i].type = type}
  <1>1. /\ n \in Nat /\ Len(pending_reports') = n + 1 /\ pending_reports'[n + 1] = r
        /\ \A i \in 1..n : pending_reports'[i] = pending_reports[i]
    BY AppendProperties, LenProperties DEF TypeOK
  <1>2. IsFiniteSet(S) /\ Cardinality(S) \in Nat /\ n + 1 \notin S
    <2>1. IsFiniteSet(1..n)
      BY <1>1, FS_Interval
    <2>2. S \subseteq 1..n
      OBVIOUS
    <2> HIDE DEF n, S
    <2>3. IsFiniteSet(S) /\ Cardinality(S) \in Nat
      BY <2>1, <2>2, FS_Subset, FS_CardinalityType
    <2>4. QED
      BY <1>1, <2>2, <2>3
  <1>3. T = IF r.type = type THEN S \cup {n + 1} ELSE S
    BY <1>1
  <1>4. CountOf(type) = Cardinality(S) /\ CountOf(type)' = Cardinality(T)
    BY DEF CountOf
  <1> HIDE DEF S, T
  <1>5. Cardinality(S \cup {n + 1}) = Cardinality(S) + 1
    BY <1>2, FS_AddElement
  <1>6. QED
    BY <1>2, <1>3, <1>4, <1>5

LEMMA CountType ==
    ASSUME TypeOK, NEW type
    PROVE  CountOf(type) \in Nat /\ (pending_reports = <<>> => CountOf(type) = 0)
  <1> DEFINE n == Len(pending_reports)
             S == {i \in 1..n : pending_reports[i].type = type}
  <1>1. n \in Nat /\ (pending_reports = <<>> => n = 0)
    BY LenProperties, EmptySeq DEF TypeOK
  <1>2. IsFiniteSet(1..n) /\ S \subseteq 1..n /\ (n = 0 => S = {})
    <2>1. S \subseteq 1..n
      OBVIOUS
    <2> HIDE DEF n, S
    <2>2. IsFiniteSet(1..n)
      BY <1>1, FS_Interval
    <2>3. n = 0 => 1..n = {}
      BY <1>1
    <2>4. QED
      BY <2>1, <2>2, <2>3
  <1>3. CountOf(type) = Cardinality(S)
    BY DEF CountOf
  <1> HIDE DEF S, n
  <1>4. IsFiniteSet(S)
    BY <1>2, FS_Subset
  <1>5. Cardinality(S) \in Nat /\ (S = {} => Cardinality(S) = 0)
    BY <1>4, FS_CardinalityType, FS_EmptySet
  <1>6. QED
    BY <1>1, <1>2, <1>3, <1>5

(* The fill ids of an order are numbers below the counter, so finitely     *)
(* many.                                                                   *)
LEMMA SeenFillsFinite ==
    ASSUME GatewayInv, NEW c \in DOMAIN mgr.orders
    PROVE  /\ IsFiniteSet(mgr.orders[c].seen_fills)
           /\ Cardinality(mgr.orders[c].seen_fills) \in Nat
  <1> DEFINE ids == mgr.orders[c].seen_fills
  <1>1. next_fill_id \in Nat /\ ids \subseteq Nat
    BY FillIdAssumption DEF GatewayInv, TypeOK, ManagerOK, Orders
  <1>2. ids \subseteq 0..(next_fill_id - 1)
    BY <1>1 DEF GatewayInv, WalkInv
  <1>3. IsFiniteSet(0..(next_fill_id - 1))
    BY <1>1, FS_Interval
  <1> HIDE DEF ids
  <1>4. IsFiniteSet(ids) /\ Cardinality(ids) \in Nat
    BY <1>2, <1>3, FS_Subset, FS_CardinalityType
  <1>5. QED
    BY <1>4 DEF ids

LEMMA OrdersFinite ==
    ASSUME LoopInv
    PROVE  IsFiniteSet(DOMAIN mgr.orders) /\ Cardinality(DOMAIN mgr.orders) \in Nat
  BY FS_Interval, FS_CardinalityType DEF LoopInv

(* Submitting an order books no fill.                                      *)
LEMMA SubmitBooksNothing ==
    ASSUME LoopInv, NEW c, c \notin DOMAIN mgr.orders,
           DOMAIN mgr'.orders = DOMAIN mgr.orders \cup {c},
           \A d \in DOMAIN mgr.orders : mgr'.orders[d] = mgr.orders[d],
           mgr'.orders[c].seen_fills = {}
    PROVE  FillsBooked' = FillsBooked /\ FillsBooked \in Nat
  <1> DEFINE S == DOMAIN mgr.orders
             f == [d \in S |-> Cardinality(mgr.orders[d].seen_fills)]
             g == [d \in DOMAIN mgr'.orders |-> Cardinality(mgr'.orders[d].seen_fills)]
  <1>1. IsFiniteSet(S)
    BY OrdersFinite
  <1>2. DOMAIN f = S /\ DOMAIN g = S \cup {c} /\ c \notin S
    OBVIOUS
  <1>3. \A d \in S : f[d] \in Nat /\ f[d] \in Int /\ g[d] = f[d]
    BY SeenFillsFinite DEF LoopInv
  <1>4. g[c] = 0
    BY FS_EmptySet
  <1>5. FillsBooked = SumFunction(f) /\ FillsBooked' = SumFunction(g)
    BY DEF FillsBooked
  <1> HIDE DEF S, f, g
  <1>6. SumFunctionOnSet(g, S \cup {c}) = SumFunctionOnSet(g, S) + g[c]
    BY <1>1, <1>2, <1>3, <1>4, SumAdd
  <1>7. SumFunctionOnSet(g, S) = SumFunctionOnSet(f, S)
    BY <1>1, <1>3, SumSame
  <1>8. SumFunctionOnSet(f, S) \in Nat
    BY <1>1, <1>3, SumNat
  <1>9. QED
    BY <1>2, <1>4, <1>5, <1>6, <1>7, <1>8 DEF SumFunction

(* Each fill of a walk is booked in one order, once.                       *)
LEMMA WalkBooksOne ==
    ASSUME LoopInv, GatewayInv', FillLevel
    PROVE  FillsBooked' = FillsBooked + 1 /\ FillsBooked \in Nat
  <1>1. PICK r \in FillReports :
            /\ r.cloid = walk.request.cloid /\ r.fill_id = next_fill_id
            /\ is_tracked(mgr, r.cloid)
            /\ DOMAIN mgr'.orders = DOMAIN mgr.orders
            /\ \A c \in DOMAIN mgr.orders : c # r.cloid => mgr'.orders[c] = mgr.orders[c]
            /\ mgr'.orders[r.cloid] = record_fill(mgr.orders[r.cloid], r)
    BY WalkedFill DEF LoopInv
  <1> DEFINE S == DOMAIN mgr.orders
             f == [d \in S |-> Cardinality(mgr.orders[d].seen_fills)]
             g == [d \in DOMAIN mgr'.orders |-> Cardinality(mgr'.orders[d].seen_fills)]
             y == r.cloid
             ids == mgr.orders[y].seen_fills
  <1>2. y \in S /\ DOMAIN f = S /\ DOMAIN g = S /\ IsFiniteSet(S)
    BY <1>1, OrdersFinite DEF is_tracked
  <1>3. next_fill_id \notin ids
    <2>1. \A id \in ids : id < next_fill_id
      BY <1>1, <1>2 DEF LoopInv, GatewayInv, WalkInv
    <2>2. next_fill_id \in Nat
      BY DEF LoopInv, GatewayInv, TypeOK
    <2>3. QED
      BY <2>1, <2>2
  <1>4. IsFiniteSet(ids) /\ Cardinality(ids) \in Nat
    BY <1>2, SeenFillsFinite DEF LoopInv
  <1>5. mgr'.orders[y].seen_fills = ids \cup {next_fill_id}
    BY <1>1 DEF record_fill
  <1>6. Cardinality(ids \cup {next_fill_id}) = Cardinality(ids) + 1
    <2> HIDE DEF ids
    <2>1. QED
      BY <1>3, <1>4, FS_AddElement
  <1>7. f[y] = Cardinality(ids) /\ g[y] = f[y] + 1 /\ g[y] \in Int
    <2>1. f[y] = Cardinality(ids)
      BY <1>2
    <2>2. g[y] = Cardinality(ids \cup {next_fill_id})
      BY <1>1, <1>2, <1>5
    <2> HIDE DEF f, g, ids, y
    <2>3. QED
      BY <1>4, <1>6, <2>1, <2>2
  <1>8. \A d \in S : f[d] \in Nat /\ f[d] \in Int
    BY SeenFillsFinite DEF LoopInv
  <1>9. \A d \in S : d # y => g[d] = f[d]
    BY <1>1, <1>2
  <1>10. FillsBooked = SumFunction(f) /\ FillsBooked' = SumFunction(g)
    BY DEF FillsBooked
  <1> HIDE DEF S, f, g, y
  <1>11. \A d \in S : f[d] \in Int /\ g[d] \in Int
    BY <1>7, <1>8, <1>9
  <1>12. SumFunctionOnSet(g, S) = SumFunctionOnSet(f, S) - f[y] + g[y]
    BY <1>2, <1>9, <1>11, SumUpdate
  <1>13. SumFunctionOnSet(f, S) \in Nat /\ f[y] \in Nat
    BY <1>2, <1>8, SumNat
  <1>14. QED
    BY <1>2, <1>7, <1>10, <1>12, <1>13 DEF SumFunction
LEMMA MetricsInit == LoopInit => MetricsInv
  <1> SUFFICES ASSUME LoopInit PROVE MetricsInv
    OBVIOUS
  <1>1. /\ DOMAIN mgr.orders = {} /\ mgr.position = 0 /\ pending_reports = <<>>
        /\ book = EmptyBook /\ TypeOK
    BY GatewayInit DEF LoopInit, Init, NewManager, GatewayInv
  <1>2. CountOf("Rejected") = 0 /\ CountOf("Fill") = 0
    BY <1>1, CountType
  <1>3. OrdersIn("Rejected") = {}
    BY <1>1 DEF OrdersIn
  <1>4. FillsBooked = 0
    <2> DEFINE f == [c \in DOMAIN mgr.orders |-> Cardinality(mgr.orders[c].seen_fills)]
    <2>1. DOMAIN f = {}
      BY <1>1
    <2>2. FillsBooked = SumFunction(f)
      BY DEF FillsBooked
    <2> HIDE DEF f
    <2>3. QED
      BY <2>1, <2>2, SumEmpty DEF SumFunction
  <1>5. metrics = [orders_submitted |-> 0, orders_rejected |-> 0, fills_total |-> 0,
                   position |-> 0, equity |-> 0]
    BY DEF LoopInit
  <1>6. /\ metrics \in Metrics /\ metrics.orders_submitted = 0
        /\ metrics.orders_rejected = 0 /\ metrics.fills_total = 0 /\ metrics.position = 0
    BY <1>5 DEF Metrics
  <1>7. Cardinality(DOMAIN mgr.orders) = 0 /\ Cardinality(OrdersIn("Rejected")) = 0
    <2>1. Cardinality({}) = 0
      BY FS_EmptySet
    <2>2. QED
      BY <1>1, <1>3, <2>1, Zenon
  <1>8. metrics.orders_rejected + CountOf("Rejected") = 0
        /\ metrics.fills_total + CountOf("Fill") = 0
    BY <1>2, <1>6
  <1>9. QED
    BY <1>1, <1>4, <1>6, <1>7, <1>8 DEF MetricsInv

(* A snapshot touches no counter and no order; the loop is then busy.      *)
LEMMA MetricsSnapshot ==
    ASSUME MetricsInv, NEW snap \in Snapshots, HandleSnapshot(snap)
    PROVE  MetricsInv'
  <1>1. /\ mgr' = mgr /\ pending_reports' = pending_reports /\ metrics' = metrics
        /\ phase' # "recv"
    BY DEF HandleSnapshot, OnSnapshot
  <1>2. /\ CountOf("Rejected")' = CountOf("Rejected") /\ CountOf("Fill")' = CountOf("Fill")
        /\ OrdersIn("Rejected")' = OrdersIn("Rejected") /\ FillsBooked' = FillsBooked
    BY <1>1 DEF CountOf, OrdersIn, FillsBooked
  <1>3. QED
    BY <1>1, <1>2 DEF MetricsInv

(* A submitted order is counted, and reported as rejected if it is.        *)
LEMMA MetricsSubmit ==
    ASSUME LoopInv, MetricsInv, SubmitIntent
    PROVE  MetricsInv'
  <1>1. /\ Intent \in Requests /\ Intent.cloid = next_cloid
        /\ next_cloid \notin DOMAIN mgr.orders
    BY IntentIsRequest DEF SubmitIntent
  <1>2. SubmitRejected(Intent) \/ SubmitAccepted(Intent)
    BY <1>1 DEF SubmitIntent, Submit, DuplicateSubmit, is_tracked
  <1>3. /\ DOMAIN mgr'.orders = DOMAIN mgr.orders \cup {next_cloid}
        /\ \A c \in DOMAIN mgr.orders : mgr'.orders[c] = mgr.orders[c]
        /\ mgr'.orders[next_cloid].seen_fills = {}
    BY <1>1, <1>2, SubmitEffect DEF LoopInv
  <1>4. PICK r \in StatusReports :
           /\ pending_reports' = Append(pending_reports, r)
           /\ r.type \in {"Ack", "Rejected"}
           /\ mgr'.orders[next_cloid].status = StatusAfter[r.type]
    BY <1>1, <1>2, SubmitEffect DEF LoopInv
  <1>5. TypeOK /\ r \in ExecReports
    BY DEF LoopInv, GatewayInv, ExecReports
  <1>6. /\ CountOf("Rejected")' = CountOf("Rejected") + (IF r.type = "Rejected" THEN 1 ELSE 0)
        /\ CountOf("Fill")' = CountOf("Fill") + (IF r.type = "Fill" THEN 1 ELSE 0)
        /\ CountOf("Rejected") \in Nat /\ CountOf("Fill") \in Nat
    BY <1>4, <1>5, CountAppended, CountType
  <1>7. IsFiniteSet(DOMAIN mgr.orders) /\ Cardinality(DOMAIN mgr.orders) \in Nat
    BY OrdersFinite
  <1>8. Cardinality(DOMAIN mgr'.orders) = Cardinality(DOMAIN mgr.orders) + 1
    BY <1>1, <1>3, <1>7, FS_AddElement
  <1>9. OrdersIn("Rejected")' = IF r.type = "Rejected" THEN OrdersIn("Rejected") \cup {next_cloid}
                                ELSE OrdersIn("Rejected")
    BY <1>1, <1>3, <1>4 DEF OrdersIn, StatusAfter
  <1>10. /\ IsFiniteSet(OrdersIn("Rejected")) /\ next_cloid \notin OrdersIn("Rejected")
         /\ Cardinality(OrdersIn("Rejected")) \in Nat
    <2>1. OrdersIn("Rejected") \subseteq DOMAIN mgr.orders
      BY DEF OrdersIn
    <2>2. QED
      BY <1>1, <1>7, <2>1, FS_Subset, FS_CardinalityType
  <1>11. Cardinality(OrdersIn("Rejected"))'
           = Cardinality(OrdersIn("Rejected")) + (IF r.type = "Rejected" THEN 1 ELSE 0)
    <2>1. Cardinality(OrdersIn("Rejected") \cup {next_cloid})
            = Cardinality(OrdersIn("Rejected")) + 1
      BY <1>10, FS_AddElement
    <2>2. QED
      BY <1>9, <1>10, <2>1
  <1>12. FillsBooked' = FillsBooked
    BY <1>1, <1>3, SubmitBooksNothing
  <1>13. metrics' = [metrics EXCEPT !.orders_submitted = @ + 1] /\ phase' = "fill"
    BY DEF SubmitIntent
  <1>14. /\ metrics' \in Metrics
         /\ metrics'.orders_submitted = metrics.orders_submitted + 1
         /\ metrics'.orders_rejected = metrics.orders_rejected
         /\ metrics'.fills_total = metrics.fills_total
         /\ metrics.orders_rejected \in Nat
    BY <1>13 DEF MetricsInv, Metrics
  <1>15. QED
    BY <1>4, <1>6, <1>8, <1>11, <1>12, <1>13, <1>14 DEF MetricsInv

(* A fill is booked once, reported once, and rejects nothing.              *)
LEMMA MetricsWalk ==
    ASSUME LoopInv, GatewayInv', MetricsInv, WalkBook
    PROVE  MetricsInv'
  <1>1. phase' # "recv" /\ metrics' = metrics
    BY DEF WalkBook
  <1>2. CASE EndWalk
    <2>1. mgr' = mgr /\ pending_reports' = pending_reports
      BY <1>2 DEF EndWalk
    <2>2. /\ CountOf("Rejected")' = CountOf("Rejected") /\ CountOf("Fill")' = CountOf("Fill")
          /\ OrdersIn("Rejected")' = OrdersIn("Rejected") /\ FillsBooked' = FillsBooked
      BY <2>1 DEF CountOf, OrdersIn, FillsBooked
    <2>3. QED
      BY <1>1, <2>1, <2>2 DEF MetricsInv
  <1>3. CASE FillLevel
    <2>1. PICK r \in FillReports :
             /\ r.type = "Fill" /\ r \in ExecReports
             /\ is_tracked(mgr, r.cloid) /\ accepts(mgr.orders[r.cloid], r)
             /\ pending_reports' = Append(pending_reports, r)
             /\ DOMAIN mgr'.orders = DOMAIN mgr.orders
             /\ \A c \in DOMAIN mgr.orders : c # r.cloid => mgr'.orders[c] = mgr.orders[c]
             /\ mgr'.orders[r.cloid] = record_fill(mgr.orders[r.cloid], r)
      BY <1>3, WalkedFill DEF LoopInv
    <2>2. /\ CountOf("Rejected")' = CountOf("Rejected") + 0
          /\ CountOf("Fill")' = CountOf("Fill") + 1
          /\ CountOf("Rejected") \in Nat /\ CountOf("Fill") \in Nat
      BY <2>1, CountAppended, CountType DEF LoopInv, GatewayInv
    <2>3. FillsBooked' = FillsBooked + 1 /\ FillsBooked \in Nat
      BY <1>3, WalkBooksOne
    <2>4. OrdersIn("Rejected")' = OrdersIn("Rejected")
      <3>1. mgr.orders[r.cloid].status # "Rejected" /\ mgr'.orders[r.cloid].status # "Rejected"
        BY <2>1 DEF accepts, is_terminal, record_fill
      <3>2. QED
        BY <2>1, <3>1 DEF OrdersIn
    <2>5. metrics.fills_total \in Nat
      BY DEF MetricsInv, Metrics
    <2>6. QED
      BY <1>1, <2>1, <2>2, <2>3, <2>4, <2>5 DEF MetricsInv
  <1>4. QED
    BY <1>2, <1>3 DEF WalkBook

(* Polling moves what waits into the counters and sets the gauges.         *)
LEMMA MetricsPoll ==
    ASSUME LoopInv, GatewayInv', MetricsInv, PollAndRecord
    PROVE  MetricsInv'
  <1>1. mgr' = mgr /\ book' = book /\ pending_reports' = <<>>
    BY DEF PollAndRecord, PollReports, vars
  <1>2. /\ CountOf("Rejected")' = 0 /\ CountOf("Fill")' = 0
    <2>1. Len(<<>>) = 0 /\ 1..0 = {}
      BY EmptySeq
    <2>2. QED
      BY <1>1, <2>1, FS_EmptySet DEF CountOf
  <1>3. CountOf("Rejected") \in Nat /\ CountOf("Fill") \in Nat
    BY CountType DEF LoopInv, GatewayInv
  <1>4. OrdersIn("Rejected")' = OrdersIn("Rejected") /\ FillsBooked' = FillsBooked
        /\ equity(mgr, book)' = equity(mgr, book)
    BY <1>1 DEF OrdersIn, FillsBooked, equity, unrealized
  <1>5. equity(mgr, book) \in Int /\ mgr.position \in Int
    BY EquityType DEF LoopInv, GatewayInv, TypeOK, ManagerOK
  <1>6. metrics' = [metrics EXCEPT
          !.fills_total     = @ + CountOf("Fill"),
          !.orders_rejected = @ + CountOf("Rejected"),
          !.position        = mgr.position,
          !.equity          = equity(mgr, book)]
    BY DEF PollAndRecord
  <1>7. /\ metrics' \in Metrics
        /\ metrics'.orders_submitted = metrics.orders_submitted
        /\ metrics'.orders_rejected = metrics.orders_rejected + CountOf("Rejected")
        /\ metrics'.fills_total = metrics.fills_total + CountOf("Fill")
        /\ metrics'.position = mgr.position
        /\ metrics'.equity = equity(mgr, book)
        /\ metrics'.fills_total \in Nat /\ metrics'.orders_rejected \in Nat
    <2>1. metrics \in Metrics
      BY DEF MetricsInv
    <2>2. metrics' = [orders_submitted |-> metrics.orders_submitted,
                      orders_rejected  |-> metrics.orders_rejected + CountOf("Rejected"),
                      fills_total      |-> metrics.fills_total + CountOf("Fill"),
                      position         |-> mgr.position,
                      equity           |-> equity(mgr, book)]
      BY <1>6, <2>1 DEF Metrics
    <2>3. /\ metrics.orders_submitted \in Nat
          /\ metrics.orders_rejected + CountOf("Rejected") \in Nat
          /\ metrics.fills_total + CountOf("Fill") \in Nat
      BY <1>3, <2>1 DEF Metrics
    <2>4. QED
      BY <1>5, <2>2, <2>3 DEF Metrics
  <1>8. QED
    BY <1>1, <1>2, <1>4, <1>7 DEF MetricsInv

LEMMA MetricsNext ==
    ASSUME LoopInv, GatewayInv', MetricsInv, [LoopNext]_loopVars
    PROVE  MetricsInv'
  <1>1. CASE \E snap \in Snapshots : HandleSnapshot(snap)
    BY <1>1, MetricsSnapshot
  <1>2. CASE SubmitIntent
    BY <1>2, MetricsSubmit
  <1>3. CASE WalkBook
    BY <1>3, MetricsWalk
  <1>4. CASE PollAndRecord
    BY <1>4, MetricsPoll
  <1>5. CASE SubmitReturns \/ UNCHANGED loopVars
    <2>1. /\ mgr' = mgr /\ pending_reports' = pending_reports /\ metrics' = metrics
          /\ book' = book /\ (phase' = "recv" => phase = "recv")
      BY <1>5 DEF SubmitReturns, loopVars, vars
    <2>2. /\ CountOf("Rejected")' = CountOf("Rejected") /\ CountOf("Fill")' = CountOf("Fill")
          /\ OrdersIn("Rejected")' = OrdersIn("Rejected") /\ FillsBooked' = FillsBooked
          /\ equity(mgr, book)' = equity(mgr, book)
      BY <2>1 DEF CountOf, OrdersIn, FillsBooked, equity, unrealized
    <2>3. QED
      BY <2>1, <2>2 DEF MetricsInv
  <1>6. QED
    BY <1>1, <1>2, <1>3, <1>4, <1>5 DEF LoopNext, FinishEvent

(* Between two events the metrics agree with the gateway they describe.    *)
THEOREM MetricsAlwaysAgree == LoopSpec => []MetricsAgree
  <1>1. LoopInv /\ MetricsInv /\ [LoopNext]_loopVars => MetricsInv'
    BY LoopStep, MetricsNext DEF LoopInv
  <1>2. LoopInv /\ MetricsInv => MetricsAgree
    <2> SUFFICES ASSUME LoopInv, MetricsInv PROVE MetricsAgree
      OBVIOUS
    <2>1. LoopTypeOK
      BY DEF LoopTypeOK, LoopInv, GatewayInv, MetricsInv, Metrics, SmaStates
    <2>2. phase = "recv" => CountOf("Rejected") = 0 /\ CountOf("Fill") = 0
      BY CountType DEF LoopInv, GatewayInv, MetricsInv
    <2>3. metrics.orders_rejected \in Nat /\ metrics.fills_total \in Nat
      BY DEF MetricsInv, Metrics
    <2>4. QED
      BY <2>1, <2>2, <2>3 DEF MetricsInv, MetricsAgree, FillsBooked
  <1>3. QED
    BY <1>1, <1>2, MetricsInit, LoopInvariant, PTL DEF LoopSpec
=============================================================================
