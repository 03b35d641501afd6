--------------------------- MODULE OrderFeedProofs --------------------------
(***************************************************************************)
(* Proofs about the order manager behind an unreliable feed, for any sets  *)
(* of orders, prices, fees and fill ids.                                   *)
(***************************************************************************)
EXTENDS OrderFeed, BasicLemmas
-----------------------------------------------------------------------------
LEMMA FeedInit == Init => FeedInv
  <1> SUFFICES ASSUME Init PROVE FeedInv
    OBVIOUS
  <1>1. ManagerOK(mgr)
    BY DEF Init, NewManager, ManagerOK
  <1>2. SentFills = {} /\ DOMAIN mgr.orders = {}
    BY DEF Init, NewManager, SentFills
  <1>3. QED
    BY <1>1, <1>2 DEF Init, FeedInv, TypeOK, FillIdsUnique, SeenIdsAreSent,
                      VenueOrdersTracked

(* Steps that send no fill and leave every order's fills alone keep the    *)
(* fill bookkeeping.                                                       *)
LEMMA FeedSubmit ==
    ASSUME FeedInv, NEW request \in Requests, Submit(request)
    PROVE  FeedInv'
  <1>1. request \in OrderRequests /\ request.cloid \in Cloids
    BY FeedAssumption DEF Requests, OrderRequests
  <1>2. ManagerOK(mgr) /\ mgr' = register(mgr, request)
    BY DEF FeedInv, TypeOK, Submit
  <1>3. /\ ManagerOK(mgr')
        /\ DOMAIN mgr'.orders = DOMAIN mgr.orders \cup {request.cloid}
        /\ \A c \in DOMAIN mgr.orders : mgr'.orders[c] = mgr.orders[c]
        /\ ~is_tracked(mgr, request.cloid)
             => mgr'.orders[request.cloid] = NewOrder(request)
    BY <1>1, <1>2, RegisterEffect
  <1>4. SentFills' = SentFills /\ next_fill_id' = next_fill_id
    BY DEF Submit, SentFills
  <1>5. TypeOK'
    BY <1>1, <1>3 DEF FeedInv, TypeOK, Submit
  <1>6. FillIdsUnique'
    BY <1>4 DEF FeedInv, FillIdsUnique
  <1>7. SeenIdsAreSent'
    BY <1>3, <1>4 DEF FeedInv, SeenIdsAreSent, NewOrder, is_tracked
  <1>8. VenueOrdersTracked'
    <2>1. \A c \in Cloids : venue'[c].open => venue[c].open \/ c = request.cloid
      BY <1>1 DEF FeedInv, TypeOK, Submit
    <2>2. QED
      BY <1>3, <1>4, <2>1 DEF FeedInv, VenueOrdersTracked, is_tracked
  <1>9. QED
    BY <1>5, <1>6, <1>7, <1>8 DEF FeedInv

LEMMA FeedVenueAck ==
    ASSUME FeedInv, NEW c \in Cloids, VenueAck(c)
    PROVE  FeedInv' /\ SentFills' = SentFills
  <1>1. [type |-> "Ack", cloid |-> c] \in ExecReports
    BY DEF ExecReports, StatusReports, StatusAfter
  <1>2. SentFills' = SentFills
    BY DEF VenueAck, Send, SentFills
  <1>3. QED
    BY <1>1, <1>2 DEF FeedInv, TypeOK, VenueAck, Send, FillIdsUnique, SeenIdsAreSent,
                      VenueOrdersTracked

LEMMA FeedVenueClose ==
    ASSUME FeedInv, NEW c \in Cloids, NEW type \in {"Cancelled", "Rejected"},
           VenueClose(c, type)
    PROVE  FeedInv' /\ SentFills' = SentFills
  <1>1. [type |-> type, cloid |-> c] \in ExecReports
    BY DEF ExecReports, StatusReports, StatusAfter
  <1>2. SentFills' = SentFills
    BY DEF VenueClose, Send, SentFills
  <1>3. QED
    BY <1>1, <1>2 DEF FeedInv, TypeOK, VenueClose, Send, FillIdsUnique, SeenIdsAreSent,
                      VenueOrdersTracked

LEMMA FeedVenueFill ==
    ASSUME FeedInv, NEW c \in Cloids, NEW qty \in 1..MaxQty, NEW px \in Prices,
           NEW fee \in Fees, VenueFill(c, qty, px, fee)
    PROVE  /\ FeedInv'
           /\ \E f \in FillReports : /\ f.fill_id = next_fill_id
                                     /\ SentFills' = SentFills \cup {f}
  <1> DEFINE f == [type |-> "Fill", cloid |-> c, fill_id |-> next_fill_id,
                   qty |-> qty, px |-> px, fee |-> fee]
  <1>1. /\ f \in FillReports /\ f.fill_id = next_fill_id /\ f.qty \in 1..MaxQty
        /\ f.cloid = c /\ f.type = "Fill"
    BY FeedAssumption DEF VenueFill, FillReports
  <1> HIDE DEF f
  <1>2. /\ sent' = sent \cup {f} /\ mgr' = mgr /\ delivered' = delivered
        /\ next_fill_id' = next_fill_id + 1 /\ is_tracked(mgr, c)
    BY DEF VenueFill, Send, f, FeedInv, VenueOrdersTracked
  <1>3. SentFills' = SentFills \cup {f}
    BY <1>1, <1>2 DEF SentFills
  <1>4. next_fill_id \in Nat
    BY DEF FeedInv, TypeOK
  <1>5. /\ venue' \in [Cloids -> [open : BOOLEAN, filled : Nat]]
        /\ \A d \in Cloids : venue'[d].open => venue[d].open
    <2> DEFINE w == [open   |-> venue[c].filled + qty < mgr.orders[c].request.qty,
                     filled |-> venue[c].filled + qty]
    <2>1. venue' = [venue EXCEPT ![c] = w] /\ venue[c].open
      BY DEF VenueFill
    <2>2. venue \in [Cloids -> [open : BOOLEAN, filled : Nat]]
      BY DEF FeedInv, TypeOK
    <2>3. w \in [open : BOOLEAN, filled : Nat]
      BY <2>2
    <2> HIDE DEF w
    <2>4. QED
      BY <2>1, <2>2, <2>3
  <1>6. TypeOK'
    BY <1>1, <1>2, <1>4, <1>5 DEF FeedInv, TypeOK, ExecReports
  <1>7. FillIdsUnique'
    <2>1. \A g \in SentFills : g.fill_id \in Nat /\ g.fill_id < next_fill_id
      BY FeedAssumption DEF FeedInv, FillIdsUnique, TypeOK, SentFills, ExecReports,
         FillReports, StatusReports, StatusAfter
    <2>2. \A g, h \in SentFills : g.fill_id = h.fill_id => g = h
      BY DEF FeedInv, FillIdsUnique
    <2>3. \A g \in SentFills' : g.fill_id < next_fill_id'
      BY <1>1, <1>2, <1>3, <1>4, <2>1
    <2>4. \A g, h \in SentFills' : g.fill_id = h.fill_id => g = h
      BY <1>1, <1>3, <1>4, <2>1, <2>2
    <2>5. QED
      BY <2>3, <2>4 DEF FillIdsUnique
  <1>8. SeenIdsAreSent'
    <2>1. \A d \in DOMAIN mgr.orders : mgr.orders[d].seen_fills \subseteq Nat
      BY FeedAssumption DEF FeedInv, TypeOK, ManagerOK, Orders
    <2>2. QED
      BY <1>2, <1>4, <2>1 DEF FeedInv, SeenIdsAreSent
  <1>9. VenueOrdersTracked'
    BY <1>1, <1>2, <1>3, <1>5 DEF FeedInv, VenueOrdersTracked
  <1>10. QED
    BY <1>1, <1>3, <1>6, <1>7, <1>8, <1>9 DEF FeedInv

LEMMA FeedDeliver ==
    ASSUME FeedInv, NEW r \in sent, Deliver(r)
    PROVE  FeedInv' /\ SentFills' = SentFills
  <1>1. r \in ExecReports /\ ManagerOK(mgr) /\ mgr' = apply(mgr, r)
    BY DEF FeedInv, TypeOK, Deliver
  <1>2. SentFills' = SentFills
    BY DEF Deliver, SentFills
  <1>3. ManagerOK(mgr') /\ DOMAIN mgr'.orders = DOMAIN mgr.orders
    BY <1>1, ApplyEffect
  <1>4. SeenIdsAreSent'
    <2>1. \A c \in DOMAIN mgr.orders :
             mgr'.orders[c].seen_fills \subseteq
                mgr.orders[c].seen_fills \cup {f.fill_id : f \in SentFills \cap {r}}
      <3>1. CASE mgr' = mgr
        BY <3>1
      <3>2. CASE /\ r \in FillReports
                 /\ is_tracked(mgr, r.cloid)
                 /\ mgr'.orders = [mgr.orders EXCEPT ![r.cloid] =
                                      record_fill(mgr.orders[r.cloid], r)]
        <4>1. r \in SentFills
          BY <3>2 DEF FillReports, SentFills
        <4>2. record_fill(mgr.orders[r.cloid], r).seen_fills
                = mgr.orders[r.cloid].seen_fills \cup {r.fill_id}
          BY DEF record_fill
        <4>3. QED
          BY <1>1, <3>2, <4>1, <4>2 DEF ManagerOK
      <3>3. CASE mgr'.orders = [mgr.orders EXCEPT ![r.cloid].status = StatusAfter[r.type]]
        <4>1. \A c \in DOMAIN mgr.orders : mgr.orders[c] \in Orders
          BY <1>1 DEF ManagerOK
        <4>2. \A c \in DOMAIN mgr.orders :
                 mgr'.orders[c].seen_fills = mgr.orders[c].seen_fills
          BY <1>1, <3>3, <4>1 DEF ManagerOK, Orders
        <4>3. QED
          BY <4>2
      <3>4. QED
        BY <1>1, <3>1, <3>2, <3>3, ApplyEffect
    <2>2. QED
      BY <1>3, <2>1 DEF FeedInv, SeenIdsAreSent, FillIdsUnique, Deliver
  <1>5. TypeOK'
    BY <1>3 DEF FeedInv, TypeOK, Deliver
  <1>6. FillIdsUnique' /\ VenueOrdersTracked'
    BY <1>2, <1>3 DEF FeedInv, FillIdsUnique, VenueOrdersTracked, Deliver, is_tracked
  <1>7. QED
    BY <1>2, <1>4, <1>5, <1>6 DEF FeedInv

(* FeedInv, and with it the type invariant, holds in every reachable state.*)
THEOREM FeedInvariant == Spec => []FeedInv
  <1>1. FeedInv /\ [Next]_vars => FeedInv'
    <2> SUFFICES ASSUME FeedInv, [Next]_vars PROVE FeedInv'
      OBVIOUS
    <2>1. CASE UNCHANGED vars
      BY <2>1 DEF vars, FeedInv, TypeOK, FillIdsUnique, SeenIdsAreSent,
                  VenueOrdersTracked, SentFills
    <2>2. CASE Next
      BY <2>2, FeedSubmit, FeedVenueAck, FeedVenueFill, FeedVenueClose, FeedDeliver
      DEF Next
    <2>3. QED
      BY <2>1, <2>2
  <1>2. QED
    BY FeedInit, <1>1, PTL DEF Spec

(* Types are correct whatever the feed does to the reports.                *)
THEOREM TypeCorrect == Spec => []TypeOK
  <1>1. FeedInv => TypeOK
    BY DEF FeedInv
  <1>2. QED
    BY FeedInvariant, <1>1, PTL
-----------------------------------------------------------------------------
(* Booked entries are unchanged when no tracked order changes its request  *)
(* or its fills.                                                           *)
LEMMA BookedUnchanged ==
    ASSUME FeedInv, SentFills' = SentFills,
           DOMAIN mgr.orders \subseteq DOMAIN mgr'.orders,
           \A c \in DOMAIN mgr.orders :
              /\ mgr'.orders[c].request = mgr.orders[c].request
              /\ mgr'.orders[c].seen_fills = mgr.orders[c].seen_fills
    PROVE  BookedEntries' = BookedEntries
  <1>1. Booked' = Booked
    BY DEF Booked, is_tracked, FeedInv, VenueOrdersTracked
  <1>2. \A f \in Booked : SignedQty(mgr', f) = SignedQty(mgr, f)
    BY DEF Booked, SignedQty, is_tracked
  <1>3. QED
    BY <1>1, <1>2 DEF BookedEntries, Entry

(* A delivery books nothing, or exactly the fill delivered, which was not  *)
(* booked before.                                                          *)
LEMMA DeliverBooks ==
    ASSUME FeedInv, NEW r \in sent, Deliver(r)
    PROVE  \/ /\ mgr'.position = mgr.position
              /\ BookedEntries' = BookedEntries
           \/ /\ r \in SentFills /\ is_tracked(mgr, r.cloid)
              /\ mgr'.position = mgr.position + SignedQty(mgr, r)
              /\ \A f \in Booked : f.fill_id # r.fill_id
              /\ BookedEntries' = BookedEntries \cup {Entry(r)}
  <1>1. /\ r \in ExecReports /\ ManagerOK(mgr) /\ mgr' = apply(mgr, r)
        /\ SentFills' = SentFills
    BY FeedDeliver DEF FeedInv, TypeOK, Deliver
  <1>2. CASE mgr' = mgr
    <2>1. BookedEntries' = BookedEntries
      BY <1>1, <1>2, BookedUnchanged
    <2>2. QED
      BY <1>2, <2>1
  <1>3. CASE /\ r \in FillReports
             /\ is_tracked(mgr, r.cloid)
             /\ accepts(mgr.orders[r.cloid], r)
             /\ mgr'.position = mgr.position + SignedQty(mgr, r)
             /\ mgr'.orders = [mgr.orders EXCEPT ![r.cloid] =
                                  record_fill(mgr.orders[r.cloid], r)]
    <2> DEFINE o == mgr.orders[r.cloid]
    <2>1. r \in SentFills /\ r.type = "Fill"
      BY <1>3 DEF FillReports, SentFills
    <2>2. /\ DOMAIN mgr'.orders = DOMAIN mgr.orders
          /\ \A c \in DOMAIN mgr.orders : c # r.cloid => mgr'.orders[c] = mgr.orders[c]
          /\ mgr'.orders[r.cloid].request = o.request
          /\ mgr'.orders[r.cloid].seen_fills = o.seen_fills \cup {r.fill_id}
      BY <1>1, <1>3 DEF record_fill, is_tracked, ManagerOK
    <2>3. r.fill_id \notin o.seen_fills
      BY <1>3, <2>1 DEF accepts
    <2>4. \A f \in SentFills : f.fill_id = r.fill_id => f = r
      BY <2>1 DEF FeedInv, FillIdsUnique
    <2>5. Booked' = Booked \cup {r}
      BY <1>1, <1>3, <2>1, <2>2, <2>4 DEF Booked, is_tracked
    <2>6. \A f \in Booked : f.fill_id # r.fill_id
      BY <2>3, <2>4 DEF Booked
    <2>7. \A f \in Booked \cup {r} : SignedQty(mgr', f) = SignedQty(mgr, f)
      BY <1>3, <2>2 DEF Booked, SignedQty, is_tracked
    <2>8. BookedEntries' = BookedEntries \cup {Entry(r)}
      BY <2>5, <2>7 DEF BookedEntries, Entry
    <2>9. QED
      BY <1>3, <2>1, <2>6, <2>8
  <1>4. CASE /\ is_tracked(mgr, r.cloid)
             /\ mgr'.position = mgr.position
             /\ mgr'.orders = [mgr.orders EXCEPT ![r.cloid].status = StatusAfter[r.type]]
    <2>1. \A c \in DOMAIN mgr.orders : mgr.orders[c] \in Orders
      BY <1>1 DEF ManagerOK
    <2>2. /\ DOMAIN mgr'.orders = DOMAIN mgr.orders
          /\ \A c \in DOMAIN mgr.orders :
                /\ mgr'.orders[c].request = mgr.orders[c].request
                /\ mgr'.orders[c].seen_fills = mgr.orders[c].seen_fills
      BY <1>1, <1>4, <2>1 DEF ManagerOK, Orders
    <2>3. BookedEntries' = BookedEntries
      BY <1>1, <2>2, BookedUnchanged
    <2>4. QED
      BY <1>4, <2>3
  <1>5. QED
    BY <1>1, <1>2, <1>3, <1>4, ApplyEffect

(* Every step of the feed is a step of the ledger or a stutter.            *)
LEMMA FeedStepsLedger ==
    ASSUME FeedInv, [Next]_vars
    PROVE  [Ledger!Next]_<<mgr.position, BookedEntries>>
  <1>1. ASSUME NEW request \in Requests, Submit(request)
        PROVE  mgr'.position = mgr.position /\ BookedEntries' = BookedEntries
    <2>1. request \in OrderRequests /\ ManagerOK(mgr) /\ mgr' = register(mgr, request)
      BY <1>1, FeedAssumption DEF FeedInv, TypeOK, Submit, Requests, OrderRequests
    <2>2. SentFills' = SentFills
      BY <1>1 DEF Submit, SentFills
    <2>3. QED
      BY <2>1, <2>2, RegisterEffect, BookedUnchanged
  <1>2. ASSUME mgr' = mgr, SentFills' = SentFills
        PROVE  mgr'.position = mgr.position /\ BookedEntries' = BookedEntries
    BY <1>2, BookedUnchanged
  <1>3. ASSUME NEW c \in Cloids, NEW qty \in 1..MaxQty, NEW px \in Prices,
               NEW fee \in Fees, VenueFill(c, qty, px, fee)
        PROVE  mgr'.position = mgr.position /\ BookedEntries' = BookedEntries
    <2>1. PICK f \in FillReports : /\ f.fill_id = next_fill_id
                                   /\ SentFills' = SentFills \cup {f}
      BY <1>3, FeedVenueFill
    <2>2. mgr' = mgr
      BY <1>3 DEF VenueFill
    <2>3. f \notin Booked'
      BY <2>1, <2>2, FeedAssumption DEF Booked, is_tracked, FeedInv, SeenIdsAreSent, TypeOK
    <2>4. Booked' = Booked
      BY <2>1, <2>2, <2>3 DEF Booked
    <2>5. QED
      BY <2>2, <2>4 DEF BookedEntries, Entry
  <1>4. ASSUME NEW r \in sent, Deliver(r)
        PROVE  \/ mgr'.position = mgr.position /\ BookedEntries' = BookedEntries
               \/ Ledger!Next
    <2>1. CASE /\ r \in SentFills /\ is_tracked(mgr, r.cloid)
               /\ mgr'.position = mgr.position + SignedQty(mgr, r)
               /\ \A f \in Booked : f.fill_id # r.fill_id
               /\ BookedEntries' = BookedEntries \cup {Entry(r)}
      <3>1. Entry(r) \in [id : FillIds, signed : -MaxQty..MaxQty]
        <4>1. r.qty \in 1..MaxQty /\ r.fill_id \in FillIds
          BY <2>1 DEF FeedInv, VenueOrdersTracked, TypeOK, SentFills, ExecReports,
             FillReports, StatusReports, StatusAfter
        <4>2. SignedQty(mgr, r) \in -MaxQty..MaxQty
          BY <4>1, FeedAssumption DEF SignedQty, sign
        <4>3. QED
          BY <4>1, <4>2 DEF Entry
      <3>2. \A b \in BookedEntries : b.id # Entry(r).id
        BY <2>1 DEF BookedEntries, Entry
      <3>3. mgr'.position = mgr.position + Entry(r).signed
        BY <2>1 DEF Entry
      <3>4. QED
        BY <2>1, <3>1, <3>2, <3>3 DEF Ledger!Next, Ledger!Book
    <2>2. QED
      BY <1>4, <2>1, DeliverBooks
  <1>5. CASE UNCHANGED vars
    BY <1>2, <1>5 DEF vars, SentFills
  <1>6. CASE Next
    <2>1. CASE \E request \in Requests : Submit(request)
      BY <1>1, <2>1
    <2>2. CASE \E c \in Cloids : VenueAck(c)
      BY <1>2, <2>2, FeedVenueAck DEF VenueAck
    <2>3. CASE \E c \in Cloids, qty \in 1..MaxQty, px \in Prices, fee \in Fees :
                  VenueFill(c, qty, px, fee)
      BY <1>3, <2>3
    <2>4. CASE \E c \in Cloids, type \in {"Cancelled", "Rejected"} : VenueClose(c, type)
      BY <1>2, <2>4, FeedVenueClose DEF VenueClose
    <2>5. CASE \E r \in sent : Deliver(r)
      BY <1>4, <2>5
    <2>6. QED
      BY <1>6, <2>1, <2>2, <2>3, <2>4, <2>5 DEF Next
  <1>7. QED
    BY <1>5, <1>6

(* The manager behind an unreliable feed implements the ledger: its        *)
(* position moves only by fills booked for the first time, so no sequence  *)
(* of duplicated or reordered reports counts one twice (manager.rs:98-129).*)
THEOREM ManagerImplementsLedger == Spec => RefinesLedger
  <1>1. Init => Ledger!Init
    BY DEF Init, Ledger!Init, NewManager, BookedEntries, Booked, SentFills
  <1>2. FeedInv /\ [Next]_vars => [Ledger!Next]_<<mgr.position, BookedEntries>>
    BY FeedStepsLedger
  <1>3. QED
    BY <1>1, <1>2, FeedInvariant, PTL DEF Spec, RefinesLedger, Ledger!Spec

(* A terminal order is never changed again, by a report or a resubmission  *)
(* (order.rs:103-105, manager.rs:49-51).                                   *)
THEOREM TerminalOrdersStayTerminal == Spec => TerminalIsFinal
  <1> DEFINE Final == \A c \in DOMAIN mgr.orders :
                         is_terminal(mgr.orders[c].status)
                           => mgr'.orders[c] = mgr.orders[c]
  <1>1. FeedInv /\ [Next]_vars => [Final]_vars
    <2> SUFFICES ASSUME FeedInv, Next PROVE Final
      OBVIOUS
    <2>1. ASSUME NEW request \in Requests, Submit(request) PROVE Final
      <3>1. request \in OrderRequests /\ ManagerOK(mgr) /\ mgr' = register(mgr, request)
        BY <2>1, FeedAssumption DEF FeedInv, TypeOK, Submit, Requests, OrderRequests
      <3>2. QED
        BY <3>1, RegisterEffect
    <2>2. ASSUME NEW r \in sent, Deliver(r) PROVE Final
      <3>1. r \in ExecReports /\ ManagerOK(mgr) /\ mgr' = apply(mgr, r)
        BY <2>2 DEF FeedInv, TypeOK, Deliver
      <3>2. CASE is_tracked(mgr, r.cloid) /\ is_terminal(mgr.orders[r.cloid].status)
        BY <3>1, <3>2 DEF apply, accepts
      <3>3. CASE is_tracked(mgr, r.cloid) /\ ~is_terminal(mgr.orders[r.cloid].status)
        <4>1. ASSUME NEW c \in DOMAIN mgr.orders, c # r.cloid
              PROVE  mgr'.orders[c] = mgr.orders[c]
          <5> DEFINE f == mgr.orders
                     g == mgr'.orders
          <5>1. \/ g = f
                \/ g = [f EXCEPT ![r.cloid] = record_fill(f[r.cloid], r)]
                \/ g = [f EXCEPT ![r.cloid].status = StatusAfter[r.type]]
            BY <3>1, ApplyEffect
          <5>2. c \in DOMAIN f /\ c # r.cloid
            BY <4>1
          <5> HIDE DEF f, g
          <5>3. g[c] = f[c]
            BY <5>1, <5>2
          <5>4. QED
            BY <5>3 DEF f, g
        <4>2. QED
          BY <3>3, <4>1
      <3>4. CASE ~is_tracked(mgr, r.cloid)
        BY <3>1, <3>4 DEF apply
      <3>5. QED
        BY <3>2, <3>3, <3>4
    <2>3. CASE mgr' = mgr
      BY <2>3
    <2>4. QED
      BY <2>1, <2>2, <2>3 DEF Next, VenueAck, VenueFill, VenueClose
  <1>2. QED
    BY <1>1, FeedInvariant, PTL DEF Spec, TerminalIsFinal
-----------------------------------------------------------------------------
(* The accounts.  What a delivery does to them: a report that is not       *)
(* accepted changes nothing, and a fill is only refused by an order that   *)
(* has booked it or is closed; an accepted fill is booked, in its order    *)
(* and in the position; any other accepted report moves a status.          *)
Same(o, p) == /\ o.request = p.request /\ o.filled_qty = p.filled_qty
              /\ o.seen_fills = p.seen_fills
BooksNothing(r) ==
    /\ Booked' = Booked
    /\ mgr'.position = mgr.position /\ mgr'.fees_paid = mgr.fees_paid
    /\ mgr'.realized_pnl = mgr.realized_pnl /\ mgr'.avg_entry = mgr.avg_entry
    /\ \A c \in DOMAIN mgr.orders :
          /\ Same(mgr'.orders[c], mgr.orders[c])
          /\ \/ mgr'.orders[c].status = mgr.orders[c].status
             \/ /\ r = [type |-> r.type, cloid |-> c] /\ r.type \in DOMAIN StatusAfter
                /\ mgr'.orders[c].status = StatusAfter[r.type]
                /\ ~is_terminal(mgr.orders[c].status)
    /\ r \in SentFills => r \in Booked \/ is_terminal(mgr.orders[r.cloid].status)
BooksFill(r) ==
    /\ r \in SentFills /\ r \in FillReports /\ r \notin Booked /\ Booked' = Booked \cup {r}
    /\ r.cloid \in DOMAIN mgr.orders /\ ~is_terminal(mgr.orders[r.cloid].status)
    /\ mgr' = book_fill(mgr, r)
    /\ \A c \in DOMAIN mgr.orders : c # r.cloid => mgr'.orders[c] = mgr.orders[c]
    /\ mgr'.orders[r.cloid] = record_fill(mgr.orders[r.cloid], r)

LEMMA DeliverEffect ==
    ASSUME FeedInv, NEW r \in sent, Deliver(r)
    PROVE  /\ SentFills' = SentFills /\ sent' = sent /\ venue' = venue
           /\ DOMAIN mgr'.orders = DOMAIN mgr.orders
           /\ BooksNothing(r) \/ BooksFill(r)
  <1>1. /\ r \in ExecReports /\ ManagerOK(mgr) /\ mgr' = apply(mgr, r)
        /\ SentFills' = SentFills /\ sent' = sent /\ venue' = venue
    BY FeedDeliver DEF FeedInv, TypeOK, Deliver
  <1>2. DOMAIN mgr'.orders = DOMAIN mgr.orders
    BY <1>1, ApplyEffect
  <1>3. r \in SentFills => is_tracked(mgr, r.cloid) /\ r.type = "Fill"
    BY DEF FeedInv, VenueOrdersTracked, SentFills
  <1>4. CASE ~is_tracked(mgr, r.cloid) \/ ~accepts(mgr.orders[r.cloid], r)
    <2>1. mgr' = mgr
      BY <1>1, <1>4 DEF apply
    <2>2. Booked' = Booked
      BY <1>1, <2>1 DEF Booked
    <2>3. r \in SentFills => r \in Booked \/ is_terminal(mgr.orders[r.cloid].status)
      BY <1>3, <1>4 DEF accepts, Booked
    <2>4. QED
      BY <1>1, <1>2, <2>1, <2>2, <2>3 DEF BooksNothing, Same
  <1>5. CASE is_tracked(mgr, r.cloid) /\ accepts(mgr.orders[r.cloid], r) /\ r.type = "Fill"
    <2>1. r \in FillReports /\ r \in SentFills /\ mgr' = book_fill(mgr, r)
      BY <1>1, <1>5 DEF ExecReports, StatusReports, StatusAfter, SentFills, apply
    <2>2. mgr'.orders = [mgr.orders EXCEPT ![r.cloid] = record_fill(mgr.orders[r.cloid], r)]
      BY <1>1, <1>5, <2>1, BookFillEffect
    <2>3. /\ \A c \in DOMAIN mgr.orders : c # r.cloid => mgr'.orders[c] = mgr.orders[c]
          /\ mgr'.orders[r.cloid] = record_fill(mgr.orders[r.cloid], r)
      BY <1>5, <2>2 DEF is_tracked
    <2>4. /\ mgr'.orders[r.cloid].seen_fills = mgr.orders[r.cloid].seen_fills \cup {r.fill_id}
          /\ r.fill_id \notin mgr.orders[r.cloid].seen_fills
          /\ ~is_terminal(mgr.orders[r.cloid].status)
      BY <1>5, <2>3 DEF record_fill, accepts
    <2>5. \A f \in SentFills : f.fill_id = r.fill_id => f = r
      BY <2>1 DEF FeedInv, FillIdsUnique
    <2>6. Booked' = Booked \cup {r} /\ r \notin Booked
      BY <1>1, <1>2, <1>5, <2>1, <2>3, <2>4, <2>5 DEF Booked, is_tracked
    <2>7. QED
      BY <1>1, <1>2, <1>5, <2>1, <2>3, <2>4, <2>6 DEF BooksFill, is_tracked
  <1>6. CASE is_tracked(mgr, r.cloid) /\ accepts(mgr.orders[r.cloid], r) /\ r.type # "Fill"
    <2> DEFINE o == mgr.orders[r.cloid]
               p == [o EXCEPT !.status = StatusAfter[r.type]]
    <2>1. r \in StatusReports /\ r = [type |-> r.type, cloid |-> r.cloid]
      BY <1>1, <1>6 DEF ExecReports, StatusReports, FillReports
    <2>2. mgr' = [mgr EXCEPT !.orders = [mgr.orders EXCEPT ![r.cloid] = p]]
      BY <1>1, <1>6 DEF apply
    <2>3. o \in Orders /\ r.cloid \in DOMAIN mgr.orders /\ ~is_terminal(o.status)
      BY <1>1, <1>6 DEF ManagerOK, is_tracked, accepts
    <2>4. p.status = StatusAfter[r.type] /\ Same(p, o)
      BY <2>3 DEF Orders, Same
    <2> HIDE DEF p
    <2>5. /\ mgr'.orders = [mgr.orders EXCEPT ![r.cloid] = p]
          /\ mgr'.position = mgr.position /\ mgr'.fees_paid = mgr.fees_paid
          /\ mgr'.realized_pnl = mgr.realized_pnl /\ mgr'.avg_entry = mgr.avg_entry
      BY <1>1, <2>2 DEF ManagerOK
    <2>6. \A c \in DOMAIN mgr.orders : c # r.cloid => mgr'.orders[c] = mgr.orders[c]
      BY <2>5
    <2>7. mgr'.orders[r.cloid] = p
      BY <2>3, <2>5
    <2>8. \A c \in DOMAIN mgr.orders : Same(mgr'.orders[c], mgr.orders[c])
      BY <2>4, <2>6, <2>7 DEF Same
    <2>9. Booked' = Booked
      BY <1>1, <1>2, <2>8 DEF Booked, Same, is_tracked
    <2>10. r \notin SentFills /\ r.type \in DOMAIN StatusAfter
      BY <1>3, <1>6, <2>1 DEF StatusReports
    <2>11. QED
      BY <1>1, <1>2, <2>1, <2>3, <2>4, <2>5, <2>6, <2>7, <2>8, <2>9, <2>10 DEF BooksNothing
  <1>7. QED
    BY <1>4, <1>5, <1>6

(* The accounts' invariant: per order, what the venue has filled and what  *)
(* the manager has booked are the sums of the fills sent and of the fills  *)
(* booked; the position is what the orders have filled; an order is closed *)
(* because it is full or because the venue said so; and a fill that        *)
(* arrived is booked unless its order was closed first.                    *)
Quantity == [f \in FillReports |-> f.qty]
QtyOf(fills) == SumFunctionOnSet(Quantity, fills)
SentTo(c) == {f \in SentFills : f.cloid = c}
BookedIn(c) == {f \in Booked : f.cloid = c}
Closed(c) == mgr.orders[c].status \in {"Cancelled", "Rejected"}
Holdings == [c \in Cloids |-> IF c \in DOMAIN mgr.orders
                              THEN sign(mgr.orders[c].request.side) * mgr.orders[c].filled_qty
                              ELSE 0]
OrderAccount(c) ==
    /\ mgr.orders[c].request.qty \in 1..MaxQty
    /\ venue[c].filled <= mgr.orders[c].request.qty
    /\ mgr.orders[c].filled_qty = QtyOf(BookedIn(c))
    /\ mgr.orders[c].status = "Filled"
         => mgr.orders[c].filled_qty >= mgr.orders[c].request.qty
    /\ Closed(c) => [type |-> mgr.orders[c].status, cloid |-> c] \in sent
ArrivedFills ==
    \A r \in delivered \cap SentFills : r \in Booked \/ Closed(r.cloid)
AccountsInv ==
    /\ IsFiniteSet(SentFills)
    /\ \A c \in Cloids : venue[c].filled = QtyOf(SentTo(c))
    /\ \A c \in DOMAIN mgr.orders : OrderAccount(c)
    /\ mgr.position = SumFunction(Holdings)
    /\ ArrivedFills

LEMMA FillsTyped ==
    ASSUME FeedInv
    PROVE  /\ Booked \subseteq SentFills
           /\ \A f \in SentFills :
                 /\ f \in FillReports /\ f.cloid \in DOMAIN mgr.orders /\ f.cloid \in Cloids
                 /\ Quantity[f] = f.qty /\ f.qty \in 1..MaxQty /\ f.qty \in Nat
  <1>1. ASSUME NEW f \in SentFills
        PROVE  f \in FillReports /\ is_tracked(mgr, f.cloid) /\ f.qty \in 1..MaxQty
    BY DEF SentFills, FeedInv, TypeOK, VenueOrdersTracked, ExecReports, StatusReports,
           StatusAfter
  <1>2. QED
    BY <1>1, FeedAssumption DEF Booked, Quantity, FillReports, is_tracked

(* The sums over the fills of one order, when all the sent fills are       *)
(* finitely many: a fill that is not booked leaves room in the order.      *)
LEMMA OrderSums ==
    ASSUME FeedInv, IsFiniteSet(SentFills), NEW c
    PROVE  /\ IsFiniteSet(SentTo(c)) /\ IsFiniteSet(BookedIn(c))
           /\ QtyOf(SentTo(c)) \in Nat /\ QtyOf(BookedIn(c)) \in Nat
           /\ QtyOf(BookedIn(c)) <= QtyOf(SentTo(c))
           /\ \A f \in SentFills : (f.cloid = c /\ f \notin Booked)
                 => QtyOf(BookedIn(c)) + f.qty <= QtyOf(SentTo(c))
  <1> DEFINE S == SentTo(c)
             T == BookedIn(c)
  <1>1. S \subseteq SentFills /\ T \in SUBSET S
    BY FillsTyped DEF SentTo, BookedIn
  <1>2. IsFiniteSet(S) /\ IsFiniteSet(T)
    BY <1>1, FS_Subset
  <1>3. \A f \in S : Quantity[f] \in Nat /\ Quantity[f] = f.qty
    BY <1>1, FillsTyped
  <1>4. \A f \in SentFills : (f.cloid = c /\ f \notin Booked) => f \in S \ T
    BY DEF SentTo, BookedIn
  <1> HIDE DEF S, T
  <1>5. /\ SumFunctionOnSet(Quantity, T) \in Nat
        /\ SumFunctionOnSet(Quantity, S) \in Nat
        /\ SumFunctionOnSet(Quantity, T) <= SumFunctionOnSet(Quantity, S)
        /\ \A y \in S \ T : SumFunctionOnSet(Quantity, T) + Quantity[y]
                              <= SumFunctionOnSet(Quantity, S)
    BY <1>1, <1>2, <1>3, SumPart
  <1>6. QED
    BY <1>2, <1>3, <1>4, <1>5 DEF S, T, QtyOf

LEMMA AccountsInit == Init => AccountsInv
  <1> SUFFICES ASSUME Init PROVE AccountsInv
    OBVIOUS
  <1>1. /\ SentFills = {} /\ DOMAIN mgr.orders = {} /\ mgr.position = 0
        /\ \A c \in Cloids : venue[c].filled = 0
    BY DEF Init, NewManager, SentFills
  <1>2. \A c \in Cloids : SentTo(c) = {}
    BY <1>1 DEF SentTo
  <1>3. QtyOf({}) = 0
    BY SumEmpty DEF QtyOf
  <1>4. SumFunction(Holdings) = 0
    <2>1. DOMAIN Holdings = Cloids /\ \A c \in Cloids : Holdings[c] = 0
      BY <1>1 DEF Holdings
    <2>2. QED
      BY <2>1, SumZero, FeedAssumption DEF SumFunction
  <1>5. ArrivedFills
    BY <1>1 DEF ArrivedFills
  <1>6. QED
    BY <1>1, <1>2, <1>3, <1>4, <1>5, FS_EmptySet DEF AccountsInv

(* Steps that move no quantity.                                            *)
LEMMA AccountsKept ==
    ASSUME FeedInv, AccountsInv,
           mgr' = mgr, SentFills' = SentFills, delivered' = delivered, sent \subseteq sent',
           \A c \in Cloids : venue'[c].filled = venue[c].filled
    PROVE  AccountsInv'
  <1>1. Booked' = Booked /\ DOMAIN mgr.orders \subseteq Cloids
    BY DEF Booked, FeedInv, TypeOK, ManagerOK
  <1>2. /\ \A c : SentTo(c)' = SentTo(c) /\ BookedIn(c)' = BookedIn(c)
        /\ Holdings' = Holdings
    BY <1>1 DEF SentTo, BookedIn, Holdings
  <1>3. \A c \in DOMAIN mgr.orders : OrderAccount(c)'
    <2> SUFFICES ASSUME NEW c \in DOMAIN mgr.orders PROVE OrderAccount(c)'
      OBVIOUS
    <2>1. OrderAccount(c)
      BY DEF AccountsInv
    <2>2. QED
      BY <1>1, <1>2, <2>1 DEF OrderAccount, QtyOf, Closed
  <1>4. QED
    BY <1>1, <1>2, <1>3 DEF AccountsInv, QtyOf, ArrivedFills, Closed

(* A new order starts with nothing filled on either side.                  *)
LEMMA AccountsSubmit ==
    ASSUME FeedInv, FeedInv', AccountsInv, NEW request \in Requests, Submit(request)
    PROVE  AccountsInv'
  <1>1. /\ request \in OrderRequests /\ request.cloid \in Cloids
        /\ request.qty \in 1..MaxQty
    BY FeedAssumption DEF Requests, OrderRequests
  <1>2. /\ ManagerOK(mgr) /\ mgr' = register(mgr, request)
        /\ SentFills' = SentFills /\ sent' = sent /\ delivered' = delivered
        /\ \A c \in Cloids : venue'[c].filled = venue[c].filled
    BY <1>1 DEF FeedInv, TypeOK, Submit, SentFills
  <1>3. CASE is_tracked(mgr, request.cloid)
    <2>1. mgr' = mgr
      BY <1>2, <1>3 DEF register
    <2>2. QED
      BY <1>2, <2>1, AccountsKept
  <1>4. CASE ~is_tracked(mgr, request.cloid)
    <2> DEFINE n == request.cloid
    <2>1. /\ n \notin DOMAIN mgr.orders /\ DOMAIN mgr'.orders = DOMAIN mgr.orders \cup {n}
          /\ \A c \in DOMAIN mgr.orders : mgr'.orders[c] = mgr.orders[c]
          /\ mgr'.orders[n] = NewOrder(request)
          /\ mgr'.position = mgr.position
      BY <1>1, <1>2, <1>4, RegisterEffect DEF is_tracked
    <2>2. \A f \in SentFills : f.cloid \in DOMAIN mgr.orders
      BY FillsTyped
    <2>3. Booked' = Booked
      BY <1>2, <2>1, <2>2 DEF Booked, is_tracked
    <2>4. \A c : SentTo(c)' = SentTo(c) /\ BookedIn(c)' = BookedIn(c)
      BY <1>2, <2>3 DEF SentTo, BookedIn
    <2>5. SentTo(n) = {} /\ BookedIn(n) = {} /\ QtyOf({}) = 0
      BY <2>1, <2>2, SumEmpty, FillsTyped DEF SentTo, BookedIn, QtyOf
    <2>6. \A c \in DOMAIN mgr.orders : OrderAccount(c)'
      <3> SUFFICES ASSUME NEW c \in DOMAIN mgr.orders PROVE OrderAccount(c)'
        OBVIOUS
      <3>1. OrderAccount(c) /\ c \in Cloids
        BY <1>2 DEF AccountsInv, ManagerOK
      <3>2. QED
        BY <1>2, <2>1, <2>4, <3>1 DEF OrderAccount, QtyOf, Closed
    <2>7. OrderAccount(n)'
      <3>1. venue'[n].filled = 0
        BY <1>1, <1>2, <2>5 DEF AccountsInv
      <3>2. /\ mgr'.orders[n].request.qty = request.qty /\ mgr'.orders[n].filled_qty = 0
            /\ mgr'.orders[n].status = "Pending"
        BY <2>1 DEF NewOrder
      <3>3. QtyOf(BookedIn(n))' = 0
        BY <2>4, <2>5 DEF QtyOf
      <3> HIDE DEF n
      <3>4. QED
        BY <1>1, <3>1, <3>2, <3>3 DEF OrderAccount, Closed
    <2>8. Holdings' = Holdings
      <3>1. sign(request.side) * 0 = 0
        BY DEF sign
      <3>2. \A c \in Cloids : Holdings'[c] = Holdings[c]
        BY <2>1, <3>1 DEF Holdings, NewOrder
      <3>3. QED
        BY <3>2 DEF Holdings
    <2>9. ArrivedFills'
      BY <1>2, <2>1, <2>2, <2>3 DEF ArrivedFills, AccountsInv, Closed
    <2>10. QED
      BY <1>2, <2>1, <2>4, <2>6, <2>7, <2>8, <2>9 DEF AccountsInv, QtyOf
  <1>5. QED
    BY <1>3, <1>4

(* A fill the venue has just made is booked nowhere yet.                   *)
LEMMA NewFillNotBooked ==
    ASSUME FeedInv, NEW f \in FillReports, f.fill_id = next_fill_id, mgr' = mgr,
           SentFills' = SentFills \cup {f}
    PROVE  f \notin SentFills /\ Booked' = Booked
  <1>1. f \notin SentFills /\ next_fill_id \in Nat
    BY DEF FeedInv, FillIdsUnique, TypeOK
  <1>2. f \notin Booked'
    BY <1>1, FeedAssumption DEF Booked, is_tracked, FeedInv, SeenIdsAreSent
  <1>3. QED
    BY <1>1, <1>2 DEF Booked

LEMMA AccountsVenueFill ==
    ASSUME FeedInv, FeedInv', AccountsInv, NEW c \in Cloids, NEW qty \in 1..MaxQty,
           NEW px \in Prices, NEW fee \in Fees, VenueFill(c, qty, px, fee)
    PROVE  AccountsInv'
  <1> DEFINE f == [type |-> "Fill", cloid |-> c, fill_id |-> next_fill_id,
                   qty |-> qty, px |-> px, fee |-> fee]
  <1>1. /\ f \in FillReports /\ f.fill_id = next_fill_id /\ f.qty = qty /\ f.cloid = c
        /\ f.type = "Fill" /\ Quantity[f] = qty /\ qty \in Nat
    BY FeedAssumption DEF VenueFill, FillReports, Quantity
  <1>2. sent' = sent \cup {f} /\ mgr' = mgr /\ delivered' = delivered
    BY DEF VenueFill, Send
  <1> HIDE DEF f
  <1>3. SentFills' = SentFills \cup {f}
    BY <1>1, <1>2 DEF SentFills
  <1>4. f \notin SentFills /\ Booked' = Booked
    BY <1>1, <1>2, <1>3, NewFillNotBooked
  <1>5. /\ SentTo(c)' = SentTo(c) \cup {f} /\ f \notin SentTo(c)
        /\ \A d : d # c => SentTo(d)' = SentTo(d)
        /\ \A d : BookedIn(d)' = BookedIn(d)
    BY <1>1, <1>3, <1>4 DEF SentTo, BookedIn
  <1>6. QtyOf(SentTo(c))' = QtyOf(SentTo(c)) + qty
    <2>1. IsFiniteSet(SentTo(c)) /\ \A g \in SentTo(c) : Quantity[g] \in Int
      <3>1. IsFiniteSet(SentTo(c))
        BY OrderSums DEF AccountsInv
      <3>2. \A g \in SentFills : Quantity[g] \in Int
        BY FillsTyped
      <3>3. QED
        BY <3>1, <3>2 DEF SentTo
    <2>2. Quantity[f] \in Int
      BY <1>1
    <2>3. SumFunctionOnSet(Quantity, SentTo(c) \cup {f})
            = SumFunctionOnSet(Quantity, SentTo(c)) + Quantity[f]
      BY <1>5, <2>1, <2>2, SumAdd
    <2>4. QED
      BY <1>1, <1>5, <2>3 DEF QtyOf
  <1>7. /\ venue'[c].filled = venue[c].filled + qty
        /\ venue[c].filled + qty <= mgr.orders[c].request.qty
        /\ \A d \in Cloids : d # c => venue'[d] = venue[d]
    BY DEF VenueFill, FeedInv, TypeOK
  <1>8. \A d \in Cloids : venue'[d].filled = QtyOf(SentTo(d))'
    BY <1>5, <1>6, <1>7 DEF AccountsInv, QtyOf
  <1>9. \A d \in DOMAIN mgr.orders : OrderAccount(d)'
    <2> SUFFICES ASSUME NEW d \in DOMAIN mgr.orders PROVE OrderAccount(d)'
      OBVIOUS
    <2>1. OrderAccount(d) /\ d \in Cloids
      BY DEF AccountsInv, FeedInv, TypeOK, ManagerOK
    <2>2. venue'[d].filled <= mgr.orders[d].request.qty
      BY <1>7, <2>1 DEF OrderAccount
    <2>3. QED
      BY <1>2, <1>5, <2>1, <2>2 DEF OrderAccount, QtyOf, Closed
  <1>10. Holdings' = Holdings
    BY <1>2 DEF Holdings
  <1>11. ArrivedFills'
    <2>1. \A r \in delivered : r \in sent /\ (r = f => r \in SentFills)
      BY <1>1 DEF FeedInv, TypeOK, SentFills
    <2>2. QED
      BY <1>2, <1>3, <1>4, <2>1 DEF ArrivedFills, AccountsInv, Closed
  <1>12. IsFiniteSet(SentFills')
    BY <1>3, FS_AddElement DEF AccountsInv
  <1>13. QED
    BY <1>2, <1>8, <1>9, <1>10, <1>11, <1>12 DEF AccountsInv

(* A delivered fill is booked in the order and the position, or was booked *)
(* before, or met an order that the venue had closed: an order that is     *)
(* full has no unbooked fill left to arrive.                               *)
LEMMA AccountsDeliver ==
    ASSUME FeedInv, FeedInv', AccountsInv, NEW r \in sent, Deliver(r)
    PROVE  AccountsInv'
  <1>1. /\ SentFills' = SentFills /\ sent' = sent /\ venue' = venue
        /\ DOMAIN mgr'.orders = DOMAIN mgr.orders
        /\ delivered' = delivered \cup {r}
        /\ BooksNothing(r) \/ BooksFill(r)
    BY DeliverEffect DEF Deliver
  <1>2. \A c : SentTo(c)' = SentTo(c)
    BY <1>1 DEF SentTo
  <1>3. \A c \in Cloids : venue'[c].filled = QtyOf(SentTo(c))'
    BY <1>1, <1>2 DEF AccountsInv, QtyOf
  <1>4. DOMAIN mgr.orders \subseteq Cloids
    BY DEF FeedInv, TypeOK, ManagerOK
  <1>5. CASE BooksNothing(r)
    <2>1. Booked' = Booked /\ mgr'.position = mgr.position
      BY <1>5 DEF BooksNothing
    <2>2. \A c : BookedIn(c)' = BookedIn(c)
      BY <2>1 DEF BookedIn
    <2>3. ASSUME NEW c \in DOMAIN mgr.orders
          PROVE  OrderAccount(c)' /\ (Closed(c) => Closed(c)')
      <3>1. OrderAccount(c) /\ c \in Cloids
        BY <1>4 DEF AccountsInv
      <3>2. /\ mgr'.orders[c].request = mgr.orders[c].request
            /\ mgr'.orders[c].filled_qty = mgr.orders[c].filled_qty
        BY <1>5 DEF BooksNothing, Same
      <3>3. CASE mgr'.orders[c].status = mgr.orders[c].status
        BY <1>1, <2>2, <3>1, <3>2, <3>3 DEF OrderAccount, QtyOf, Closed
      <3>4. CASE /\ r = [type |-> r.type, cloid |-> c] /\ r.type \in DOMAIN StatusAfter
                 /\ mgr'.orders[c].status = StatusAfter[r.type]
                 /\ ~is_terminal(mgr.orders[c].status)
        <4>1. mgr'.orders[c].status # "Filled"
              /\ (Closed(c)' => mgr'.orders[c].status = r.type) /\ ~Closed(c)
          BY <3>4 DEF StatusAfter, Closed, is_terminal
        <4>2. Closed(c)' => [type |-> mgr'.orders[c].status, cloid |-> c] \in sent'
          BY <1>1, <3>4, <4>1
        <4>3. QED
          BY <1>1, <2>2, <3>1, <3>2, <4>1, <4>2 DEF OrderAccount, QtyOf
      <3>5. QED
        BY <1>5, <3>3, <3>4 DEF BooksNothing
    <2>4. Holdings' = Holdings
      <3>1. \A c \in Cloids : Holdings'[c] = Holdings[c]
        BY <1>1, <1>5 DEF Holdings, BooksNothing, Same
      <3>2. QED
        BY <3>1 DEF Holdings
    <2>5. r \in SentFills => r \in Booked \/ Closed(r.cloid)
      <3> SUFFICES ASSUME r \in SentFills, r \notin Booked PROVE Closed(r.cloid)
        OBVIOUS
      <3> DEFINE c == r.cloid
      <3>1. c \in DOMAIN mgr.orders /\ c \in Cloids /\ r.qty \in 1..MaxQty
        BY FillsTyped
      <3>2. is_terminal(mgr.orders[c].status)
        BY <1>5 DEF BooksNothing
      <3>3. QtyOf(BookedIn(c)) + r.qty <= QtyOf(SentTo(c)) /\ QtyOf(BookedIn(c)) \in Nat
            /\ QtyOf(SentTo(c)) \in Nat
        BY OrderSums DEF AccountsInv
      <3>4. OrderAccount(c) /\ venue[c].filled = QtyOf(SentTo(c))
        BY <3>1 DEF AccountsInv
      <3>5. mgr.orders[c].status # "Filled"
        BY <3>1, <3>3, <3>4, FeedAssumption DEF OrderAccount
      <3>6. QED
        BY <3>2, <3>5 DEF is_terminal, Closed
    <2>6. ArrivedFills'
      <3>1. \A g \in SentFills : g.cloid \in DOMAIN mgr.orders
        BY FillsTyped
      <3>2. QED
        BY <1>1, <2>1, <2>3, <2>5, <3>1 DEF ArrivedFills, AccountsInv
    <2>7. QED
      BY <1>1, <1>3, <2>1, <2>3, <2>4, <2>6 DEF AccountsInv
  <1>6. CASE BooksFill(r)
    <2> DEFINE n == r.cloid
               o == mgr.orders[n]
               p == mgr'.orders[n]
    <2>1. /\ r \in SentFills /\ r \in FillReports /\ r \notin Booked /\ Booked' = Booked \cup {r}
          /\ n \in DOMAIN mgr.orders /\ ~is_terminal(o.status)
          /\ \A c \in DOMAIN mgr.orders : c # n => mgr'.orders[c] = mgr.orders[c]
          /\ p = record_fill(o, r) /\ mgr' = book_fill(mgr, r)
      BY <1>6 DEF BooksFill
    <2>2. /\ BookedIn(n)' = BookedIn(n) \cup {r} /\ r \notin BookedIn(n)
          /\ \A c : c # n => BookedIn(c)' = BookedIn(c)
      BY <2>1 DEF BookedIn
    <2>3. r.qty \in Nat /\ Quantity[r] = r.qty /\ o \in Orders
      BY <2>1, FillsTyped DEF FeedInv, TypeOK, ManagerOK
    <2>4. QtyOf(BookedIn(n))' = QtyOf(BookedIn(n)) + r.qty
      <3>1. IsFiniteSet(BookedIn(n)) /\ \A g \in BookedIn(n) : Quantity[g] \in Int
        <4>1. IsFiniteSet(BookedIn(n))
          BY OrderSums DEF AccountsInv
        <4>2. \A g \in Booked : Quantity[g] \in Int
          BY FillsTyped
        <4>3. QED
          BY <4>1, <4>2 DEF BookedIn
      <3>2. SumFunctionOnSet(Quantity, BookedIn(n) \cup {r})
              = SumFunctionOnSet(Quantity, BookedIn(n)) + Quantity[r]
        BY <2>2, <2>3, <3>1, SumAdd
      <3>3. QED
        BY <2>2, <2>3, <3>2 DEF QtyOf
    <2>5. /\ p.request = o.request /\ p.filled_qty = o.filled_qty + r.qty
          /\ p.status \in {"Filled", "PartiallyFilled"}
          /\ p.status = "Filled" => p.filled_qty >= p.request.qty
      BY <2>1 DEF record_fill
    <2>6. \A c \in DOMAIN mgr.orders : OrderAccount(c)' /\ (Closed(c) => Closed(c)')
      <3> SUFFICES ASSUME NEW c \in DOMAIN mgr.orders
                   PROVE  OrderAccount(c)' /\ (Closed(c) => Closed(c)')
        OBVIOUS
      <3>1. OrderAccount(c) /\ c \in Cloids
        BY <1>4 DEF AccountsInv
      <3>2. CASE c = n
        <4>1. ~Closed(c) /\ ~Closed(c)'
          BY <2>1, <2>5, <3>2 DEF Closed, is_terminal
        <4>2. p.filled_qty = QtyOf(BookedIn(c))'
          BY <2>4, <2>5, <3>1, <3>2 DEF OrderAccount
        <4> HIDE DEF o, p
        <4>3. QED
          BY <1>1, <2>5, <3>1, <3>2, <4>1, <4>2 DEF OrderAccount, o, p
      <3>3. CASE c # n
        BY <1>1, <2>1, <2>2, <3>1, <3>3 DEF OrderAccount, QtyOf, Closed
      <3>4. QED
        BY <3>2, <3>3
    <2>7. mgr'.position = SumFunction(Holdings')
      <3> DEFINE H == Holdings
                 K == Holdings'
      <3>1. /\ DOMAIN H = Cloids /\ DOMAIN K = Cloids /\ n \in Cloids
            /\ \A c \in Cloids : c # n => K[c] = H[c]
        BY <1>1, <1>4, <2>1 DEF Holdings
      <3>2. H[n] = sign(o.request.side) * o.filled_qty
            /\ K[n] = sign(o.request.side) * (o.filled_qty + r.qty)
        BY <1>1, <2>1, <2>5, <3>1 DEF Holdings
      <3>3. \A c \in Cloids : H[c] \in Int /\ K[c] \in Int
        <4>1. \A c \in DOMAIN mgr.orders :
                 mgr.orders[c].filled_qty \in Int /\ mgr'.orders[c].filled_qty \in Int
          BY <1>1 DEF FeedInv, TypeOK, ManagerOK, Orders
        <4>2. \A side : sign(side) \in {1, -1}
          BY DEF sign
        <4>3. QED
          BY <1>1, <4>1, <4>2 DEF Holdings
      <3>4. SumFunctionOnSet(K, Cloids) = SumFunctionOnSet(H, Cloids) - H[n] + K[n]
        <4> HIDE DEF H, K, n
        <4>1. QED
          BY <3>1, <3>3, SumUpdate, FeedAssumption
      <3>5. mgr'.position = mgr.position + sign(o.request.side) * r.qty
        BY <2>1, BookFillEffect DEF is_tracked, SignedQty, FeedInv, TypeOK
      <3>6. mgr.position = SumFunctionOnSet(H, Cloids)
        BY <3>1 DEF AccountsInv, SumFunction
      <3>7. K[n] = H[n] + sign(o.request.side) * r.qty
        <4>1. sign(o.request.side) \in {1, -1} /\ o.filled_qty \in Nat
          BY <2>3 DEF sign, Orders
        <4> HIDE DEF H, K, o, n
        <4>2. QED
          BY <2>3, <3>2, <4>1
      <3>8. sign(o.request.side) * r.qty \in Int /\ H[n] \in Int /\ mgr.position \in Int
        BY <2>3, <3>1, <3>3 DEF sign, FeedInv, TypeOK, ManagerOK
      <3> HIDE DEF H, K, o, n
      <3>9. mgr'.position = SumFunctionOnSet(K, Cloids)
        BY <3>4, <3>5, <3>6, <3>7, <3>8
      <3>10. QED
        BY <3>1, <3>9 DEF SumFunction, K
    <2>8. ArrivedFills'
      <3>1. \A g \in SentFills : g.cloid \in DOMAIN mgr.orders
        BY FillsTyped
      <3>2. QED
        BY <1>1, <2>1, <2>6, <3>1 DEF ArrivedFills, AccountsInv
    <2>9. QED
      BY <1>1, <1>3, <2>6, <2>7, <2>8 DEF AccountsInv
  <1>7. QED
    BY <1>1, <1>5, <1>6

LEMMA AccountsNext ==
    ASSUME FeedInv, FeedInv', AccountsInv, [Next]_vars
    PROVE  AccountsInv'
  <1>1. CASE \E request \in Requests : Submit(request)
    BY <1>1, AccountsSubmit
  <1>2. CASE \E c \in Cloids : VenueAck(c)
    <2>1. PICK c \in Cloids : VenueAck(c)
      BY <1>2
    <2>2. SentFills' = SentFills
      BY <2>1, FeedVenueAck
    <2>3. QED
      BY <2>1, <2>2, AccountsKept DEF VenueAck, Send
  <1>3. CASE \E c \in Cloids, qty \in 1..MaxQty, px \in Prices, fee \in Fees :
                VenueFill(c, qty, px, fee)
    BY <1>3, AccountsVenueFill
  <1>4. CASE \E c \in Cloids, type \in {"Cancelled", "Rejected"} : VenueClose(c, type)
    <2>1. PICK c \in Cloids, type \in {"Cancelled", "Rejected"} : VenueClose(c, type)
      BY <1>4
    <2>2. SentFills' = SentFills
      BY <2>1, FeedVenueClose
    <2>3. \A d \in Cloids : venue'[d].filled = venue[d].filled
      BY <2>1 DEF VenueClose, FeedInv, TypeOK
    <2>4. QED
      BY <2>1, <2>2, <2>3, AccountsKept DEF VenueClose, Send
  <1>5. CASE \E r \in sent : Deliver(r)
    BY <1>5, AccountsDeliver
  <1>6. CASE UNCHANGED vars
    BY <1>6, AccountsKept DEF vars, SentFills
  <1>7. QED
    BY <1>1, <1>2, <1>3, <1>4, <1>5, <1>6 DEF Next

(* The accounts agree with the fills sent and booked in every reachable    *)
(* state.                                                                  *)
THEOREM AccountsInvariant == Spec => [](FeedInv /\ AccountsInv)
  <1>1. FeedInv /\ FeedInv' /\ AccountsInv /\ [Next]_vars => AccountsInv'
    BY AccountsNext
  <1>2. QED
    BY <1>1, AccountsInit, FeedInvariant, PTL DEF Spec

(* Once every report has arrived, in whatever order and however often, and *)
(* none closed an order, the position is the venue's: what each order has  *)
(* filled is what was sent to it.                                          *)
THEOREM PositionReconciles == Spec => []NoPhantomPosition
  <1>1. ASSUME FeedInv, AccountsInv, delivered = sent,
               \A r \in sent : r.type \in {"Ack", "Fill"}
        PROVE  mgr.position = VenuePosition
    <2>1. \A c \in DOMAIN mgr.orders : ~Closed(c)
      <3> SUFFICES ASSUME NEW c \in DOMAIN mgr.orders, Closed(c) PROVE FALSE
        OBVIOUS
      <3>1. [type |-> mgr.orders[c].status, cloid |-> c] \in sent
        BY <1>1 DEF AccountsInv, OrderAccount
      <3>2. mgr.orders[c].status \in {"Ack", "Fill"}
        BY <1>1, <3>1
      <3>3. QED
        BY <3>2 DEF Closed
    <2>2. Booked = SentFills
      <3>1. \A f \in SentFills : f \in Booked
        BY <1>1, <2>1, FillsTyped DEF AccountsInv, ArrivedFills, SentFills
      <3>2. QED
        BY <1>1, <3>1, FillsTyped
    <2>3. \A c \in DOMAIN mgr.orders : mgr.orders[c].filled_qty = venue[c].filled
      <3>1. \A c : BookedIn(c) = SentTo(c)
        BY <2>2 DEF BookedIn, SentTo
      <3>2. DOMAIN mgr.orders \subseteq Cloids
        BY <1>1 DEF FeedInv, TypeOK, ManagerOK
      <3>3. QED
        BY <1>1, <3>1, <3>2 DEF AccountsInv, OrderAccount
    <2>4. VenuePosition = SumFunction(Holdings)
      <3> DEFINE V == [c \in Cloids |-> IF is_tracked(mgr, c)
                          THEN sign(mgr.orders[c].request.side) * venue[c].filled
                          ELSE 0]
      <3>1. V = Holdings
        BY <2>3 DEF Holdings, is_tracked
      <3>2. VenuePosition = SumFunction(V)
        BY DEF VenuePosition
      <3>3. QED
        BY <3>1, <3>2
    <2>5. QED
      BY <1>1, <2>4 DEF AccountsInv
  <1>2. FeedInv /\ AccountsInv => NoPhantomPosition
    <2> SUFFICES ASSUME FeedInv, AccountsInv, delivered = sent,
                        \A r \in sent : r.type \in {"Ack", "Fill"}
                 PROVE  in_sync(mgr.position, VenuePosition, 0)
      BY DEF NoPhantomPosition
    <2>1. mgr.position = VenuePosition /\ mgr.position \in Int
      BY <1>1 DEF FeedInv, TypeOK, ManagerOK
    <2>2. QED
      BY <2>1 DEF in_sync, Abs
  <1>3. QED
    BY <1>2, AccountsInvariant, PTL
-----------------------------------------------------------------------------
(* The cash.  A division that truncates loses less than its divisor.       *)
LEMMA TruncDivLoss ==
    ASSUME NEW n \in Int, NEW d \in Nat \ {0}
    PROVE  /\ TruncDiv(n, d) \in Int
           /\ d * TruncDiv(n, d) - n <= d - 1
           /\ -(d - 1) <= d * TruncDiv(n, d) - n
  <1>1. ASSUME NEW m \in Nat
        PROVE  /\ m \div d \in Int
               /\ d * (m \div d) <= m /\ m <= d * (m \div d) + (d - 1)
    OBVIOUS
  <1>2. CASE n >= 0
    BY <1>1, <1>2 DEF TruncDiv
  <1>3. CASE ~(n >= 0)
    <2> DEFINE q == (-n) \div d
    <2>1. -n \in Nat /\ TruncDiv(n, d) = -q
      BY <1>3 DEF TruncDiv
    <2>2. q \in Int /\ d * q <= -n /\ -n <= d * q + (d - 1)
      BY <1>1, <2>1
    <2> HIDE DEF q
    <2>3. d * (-q) = -(d * q) /\ d * q \in Int
      BY <2>2
    <2>4. QED
      BY <2>1, <2>2, <2>3
  <1>4. QED
    BY <1>2, <1>3

(* What one fill may add to the difference between the accounts and the    *)
(* cash it moved: the rounding of one division, by SCALE of what is        *)
(* realized or by the position of the blended entry price.                 *)
Drift(old, s, e, p) ==
    SCALE * RealizedBy(old, s, e, p) + s * p + old * e - (old + s) * EntryAfter(old, s, e, p)

LEMMA DriftOfFill ==
    ASSUME NEW old \in Int, NEW s \in Int, s # 0, NEW e \in Nat, NEW p \in Nat
    PROVE  /\ Drift(old, s, e, p) \in Int
           /\ Abs(Drift(old, s, e, p)) <= Greater(SCALE, Abs(old + s)) - 1
  <1>1. SCALE \in Nat \ {0}
    BY ScaleAssumption
  <1>2. CASE extends_position(old, s)
    <2> DEFINE a == Abs(old)
               b == Abs(s)
               n == e * a + p * b
               q == TruncDiv(n, a + b)
               g == Signum(s)
    <2>1. a \in Nat /\ b \in Nat \ {0} /\ a + b \in Nat \ {0} /\ g \in {1, -1}
          /\ old = g * a /\ s = g * b /\ old + s # 0 /\ Abs(old + s) = a + b
      BY <1>2 DEF extends_position, Abs, Signum
    <2>2. n \in Int
      BY <2>1
    <2>3. RealizedBy(old, s, e, p) = 0 /\ EntryAfter(old, s, e, p) = q
      BY <1>2, <2>1 DEF RealizedBy, EntryAfter, vwap
    <2> HIDE DEF a, b, g, n
    <2>4. q \in Int /\ (a + b) * q - n <= (a + b) - 1 /\ -((a + b) - 1) <= (a + b) * q - n
      BY <2>1, <2>2, TruncDivLoss
    <2> HIDE DEF q
    <2>5. old + s = g * (a + b) /\ SCALE * 0 = 0
      BY <1>1, <2>1
    <2>6. s * p + old * e = g * n
      BY <2>1 DEF n
    <2>7. (old + s) * q = g * ((a + b) * q) /\ (a + b) * q \in Int
      BY <2>1, <2>4, <2>5
    <2>8. Drift(old, s, e, p) = g * n - g * ((a + b) * q)
      BY <2>1, <2>3, <2>5, <2>6, <2>7 DEF Drift
    <2>9. Drift(old, s, e, p) \in Int /\ Abs(Drift(old, s, e, p)) <= (a + b) - 1
      BY <2>1, <2>2, <2>4, <2>7, <2>8 DEF Abs
    <2>10. a + b <= Greater(SCALE, a + b) /\ Greater(SCALE, a + b) \in Int
           /\ a + b \in Int /\ Abs(old + s) = a + b
      BY <1>1, <2>1 DEF Greater
    <2>11. Drift(old, s, e, p) \in Int /\ Abs(Drift(old, s, e, p)) \in Int
      BY <2>9 DEF Abs
    <2>12. QED
      BY <2>9, <2>10, <2>11
  <1>3. CASE ~extends_position(old, s)
    <2> DEFINE qty == Lesser(Abs(old), Abs(s))
               edge == IF old > 0 THEN p - e ELSE e - p
               x == edge * qty
               q == TruncDiv(x, SCALE)
    <2>1. x \in Int
      BY DEF Lesser, Abs
    <2>2. q \in Int /\ SCALE * q - x <= SCALE - 1 /\ -(SCALE - 1) <= SCALE * q - x
      BY <1>1, <2>1, TruncDivLoss
    <2>3. RealizedBy(old, s, e, p) = q
      BY <1>3 DEF RealizedBy, notional
    <2>4. old # 0 /\ Signum(old) # Signum(s)
      BY <1>3 DEF extends_position
    <2> DEFINE entry == EntryAfter(old, s, e, p)
    <2>5. s * p + old * e - (old + s) * entry = -x
      <3>1. CASE old + s = 0
        <4>1. entry = 0 /\ Abs(old) = Abs(s) /\ s = -old
          BY <3>1 DEF EntryAfter, Abs
        <4>2. x = old * (p - e)
          BY <2>4, <4>1 DEF Lesser, Abs
        <4> HIDE DEF x, entry
        <4>3. QED
          BY <4>1, <4>2
      <3>2. CASE old + s # 0 /\ Signum(old + s) = Signum(s)
        <4>1. entry = p /\ qty = Abs(old)
          BY <1>3, <2>4, <3>2 DEF EntryAfter, Lesser, Abs, Signum
        <4>2. x = old * (p - e)
          BY <2>4, <4>1 DEF Abs
        <4> HIDE DEF x, entry
        <4>3. QED
          BY <4>1, <4>2
      <3>3. CASE old + s # 0 /\ Signum(old + s) # Signum(s)
        <4>1. entry = e /\ qty = Abs(s)
          BY <1>3, <2>4, <3>3 DEF EntryAfter, Lesser, Abs, Signum
        <4>2. x = -(s * (p - e))
          BY <2>4, <4>1 DEF Abs, Signum
        <4> HIDE DEF x, entry
        <4>3. QED
          BY <4>1, <4>2
      <3>4. QED
        BY <3>1, <3>2, <3>3
    <2>6. entry \in Nat
      BY EntryAfterType
    <2>7. s * p + old * e - (old + s) * entry \in Int /\ s * p \in Int /\ old * e \in Int
          /\ (old + s) * entry \in Int /\ SCALE * q \in Int
      BY <1>1, <2>2, <2>6
    <2> HIDE DEF x, q, entry
    <2>8. Drift(old, s, e, p) = SCALE * q - x
      <3>1. Drift(old, s, e, p) = SCALE * q + s * p + old * e - (old + s) * entry
        BY <2>3 DEF Drift, entry
      <3>2. QED
        BY <2>1, <2>5, <2>7, <3>1
    <2>9. QED
      BY <1>1, <2>1, <2>2, <2>7, <2>8 DEF Greater, Abs
  <1>4. QED
    BY <1>2, <1>3

(* No position is larger than all the orders together.                     *)
LEMMA PositionBounded ==
    FeedInv /\ AccountsInv => Abs(mgr.position) <= MaxQty * Cardinality(Cloids)
  <1> SUFFICES ASSUME FeedInv, AccountsInv
               PROVE  Abs(mgr.position) <= MaxQty * Cardinality(Cloids)
    OBVIOUS
  <1>1. ASSUME NEW c \in Cloids
        PROVE  Holdings[c] \in Int /\ -MaxQty <= Holdings[c] /\ Holdings[c] <= MaxQty
    <2>1. CASE c \in DOMAIN mgr.orders
      <3>1. OrderAccount(c) /\ venue[c].filled = QtyOf(SentTo(c))
        BY <2>1 DEF AccountsInv
      <3>2. QtyOf(BookedIn(c)) \in Nat /\ QtyOf(SentTo(c)) \in Nat
            /\ QtyOf(BookedIn(c)) <= QtyOf(SentTo(c))
        BY OrderSums DEF AccountsInv
      <3>3. mgr.orders[c].filled_qty \in 0..MaxQty
        BY <3>1, <3>2, FeedAssumption DEF OrderAccount
      <3>4. QED
        BY <2>1, <3>3, FeedAssumption DEF Holdings, sign
    <2>2. CASE c \notin DOMAIN mgr.orders
      BY <2>2, FeedAssumption DEF Holdings
    <2>3. QED
      BY <2>1, <2>2
  <1>2. MaxQty \in Nat /\ IsFiniteSet(Cloids) /\ DOMAIN Holdings = Cloids
    BY FeedAssumption DEF Holdings
  <1> DEFINE H == Holdings
  <1> HIDE DEF H
  <1>3. /\ SumFunctionOnSet(H, Cloids) \in Int
        /\ -(MaxQty * Cardinality(Cloids)) <= SumFunctionOnSet(H, Cloids)
        /\ SumFunctionOnSet(H, Cloids) <= MaxQty * Cardinality(Cloids)
    <2>1. \A c \in Cloids : H[c] \in Int /\ -MaxQty <= H[c] /\ H[c] <= MaxQty
      BY <1>1 DEF H
    <2>2. QED
      BY <1>2, <2>1, SumBounded
  <1>4. mgr.position = SumFunctionOnSet(H, Cloids)
    BY <1>2 DEF AccountsInv, SumFunction, H
  <1>5. MaxQty * Cardinality(Cloids) \in Int
    BY <1>2, FS_CardinalityType
  <1>6. QED
    BY <1>3, <1>4, <1>5 DEF Abs

(* Booking a fill adds its fee and its cash flow to the sums, and no more  *)
(* than one rounding to the difference.                                    *)
Fee == [f \in FillReports |-> f.fee]
CashMoved == [f \in FillReports |-> -SignedQty(mgr, f) * f.px]
PnLDrift == SCALE * (mgr.realized_pnl + mgr.fees_paid) - CashFlow - mgr.position * mgr.avg_entry
PnLInv ==
    /\ mgr.fees_paid = SumFunctionOnSet(Fee, Booked)
    /\ PnLDrift \in Int
    /\ Abs(PnLDrift) <= RoundingPerFill * Cardinality(Booked)

LEMMA CashFlowSum ==
    ASSUME FeedInv, IsFiniteSet(SentFills)
    PROVE  /\ IsFiniteSet(Booked)
           /\ SumFunction([f \in Booked |-> f.fee]) = SumFunctionOnSet(Fee, Booked)
           /\ CashFlow = SumFunctionOnSet(CashMoved, Booked)
           /\ \A f \in SentFills : Fee[f] \in Int /\ CashMoved[f] \in Int
                                   /\ Fee[f] = f.fee
                                   /\ CashMoved[f] = -SignedQty(mgr, f) * f.px
                                   /\ SignedQty(mgr, f) \in Int /\ SignedQty(mgr, f) # 0
  <1>1. IsFiniteSet(Booked) /\ \A f \in Booked : f \in FillReports
    <2>1. Booked \subseteq SentFills /\ \A f \in SentFills : f \in FillReports
      BY FillsTyped
    <2>2. QED
      BY <2>1, FS_Subset
  <1> DEFINE A == [f \in Booked |-> f.fee]
             B == [f \in Booked |-> -SignedQty(mgr, f) * f.px]
  <1>2. \A f \in Booked : A[f] = Fee[f] /\ B[f] = CashMoved[f]
    BY <1>1 DEF Fee, CashMoved
  <1>3. DOMAIN A = Booked /\ DOMAIN B = Booked /\ CashFlow = SumFunction(B)
    BY DEF CashFlow
  <1> HIDE DEF A, B
  <1>4. /\ SumFunctionOnSet(A, Booked) = SumFunctionOnSet(Fee, Booked)
        /\ SumFunctionOnSet(B, Booked) = SumFunctionOnSet(CashMoved, Booked)
    BY <1>1, <1>2, SumSame
  <1>5. ASSUME NEW f \in SentFills
        PROVE  /\ Fee[f] \in Int /\ CashMoved[f] \in Int /\ Fee[f] = f.fee
               /\ CashMoved[f] = -SignedQty(mgr, f) * f.px
               /\ SignedQty(mgr, f) \in Int /\ SignedQty(mgr, f) # 0
    <2>1. f \in FillReports /\ f.qty \in 1..MaxQty
      BY FillsTyped
    <2>2. f.qty \in Nat \ {0} /\ f.px \in Nat /\ f.fee \in Nat
      BY <2>1, FeedAssumption DEF FillReports
    <2>3. SignedQty(mgr, f) \in Int /\ SignedQty(mgr, f) # 0
      BY <2>2 DEF SignedQty, sign
    <2>4. Fee[f] = f.fee /\ CashMoved[f] = -SignedQty(mgr, f) * f.px
      BY <2>1 DEF Fee, CashMoved
    <2>5. QED
      BY <2>2, <2>3, <2>4
  <1>6. QED
    BY <1>1, <1>3, <1>4, <1>5 DEF SumFunction, A

LEMMA PnLInit == Init => PnLInv
  <1> SUFFICES ASSUME Init PROVE PnLInv
    OBVIOUS
  <1>1. Booked = {} /\ mgr.position = 0 /\ mgr.realized_pnl = 0 /\ mgr.fees_paid = 0
        /\ mgr.avg_entry = 0
    BY DEF Init, NewManager, Booked, SentFills
  <1>2. SumFunctionOnSet(Fee, Booked) = 0 /\ Cardinality(Booked) = 0
    BY <1>1, SumEmpty, FS_EmptySet
  <1>3. CashFlow = 0
    <2> DEFINE B == [f \in Booked |-> -SignedQty(mgr, f) * f.px]
    <2>1. DOMAIN B = {} /\ CashFlow = SumFunction(B)
      BY <1>1 DEF CashFlow
    <2> HIDE DEF B
    <2>2. QED
      BY <2>1, SumOfNothing
  <1>4. PnLDrift = 0
    BY <1>1, <1>3, ScaleAssumption DEF PnLDrift
  <1>5. RoundingPerFill \in Int
    <2>1. Cardinality(Cloids) \in Nat
      BY FS_CardinalityType, FeedAssumption
    <2>2. QED
      BY <2>1, ScaleAssumption, FeedAssumption DEF RoundingPerFill, Greater
  <1>6. QED
    BY <1>1, <1>2, <1>4, <1>5 DEF PnLInv, Abs

(* Steps that book nothing and change no booked order's side.              *)
LEMMA PnLKept ==
    ASSUME FeedInv, FeedInv', AccountsInv, PnLInv, Booked' = Booked,
           mgr'.position = mgr.position, mgr'.fees_paid = mgr.fees_paid,
           mgr'.realized_pnl = mgr.realized_pnl, mgr'.avg_entry = mgr.avg_entry,
           \A c \in DOMAIN mgr.orders : mgr'.orders[c].request = mgr.orders[c].request
    PROVE  PnLInv'
  <1>1. \A f \in Booked : SignedQty(mgr', f) = SignedQty(mgr, f)
    BY DEF Booked, is_tracked, SignedQty
  <1>2. CashFlow' = CashFlow
    BY <1>1 DEF CashFlow
  <1>3. PnLDrift' = PnLDrift
    BY <1>2 DEF PnLDrift
  <1>4. QED
    BY <1>3 DEF PnLInv

LEMMA PnLBooked ==
    ASSUME FeedInv, FeedInv', AccountsInv, AccountsInv', PnLInv, NEW r, BooksFill(r)
    PROVE  PnLInv'
  <1> DEFINE old == mgr.position
             signed == SignedQty(mgr, r)
             gain == RealizedBy(old, signed, mgr.avg_entry, r.px)
             entry == EntryAfter(old, signed, mgr.avg_entry, r.px)
  <1>1. /\ r \in SentFills /\ r \in FillReports /\ r \notin Booked /\ Booked' = Booked \cup {r}
        /\ r.cloid \in DOMAIN mgr.orders /\ mgr' = book_fill(mgr, r)
        /\ \A c \in DOMAIN mgr.orders : mgr'.orders[c].request = mgr.orders[c].request
    BY DEF BooksFill, record_fill
  <1>2. /\ mgr'.position = old + signed
        /\ mgr'.fees_paid = mgr.fees_paid + r.fee
        /\ mgr'.realized_pnl = mgr.realized_pnl - r.fee + gain
        /\ mgr'.avg_entry = entry
    BY <1>1 DEF book_fill
  <1>3. /\ old \in Int /\ mgr.avg_entry \in Nat /\ mgr.realized_pnl \in Int
        /\ mgr.fees_paid \in Nat /\ r.px \in Nat /\ r.fee \in Nat
    BY <1>1 DEF FeedInv, TypeOK, ManagerOK, FillReports
  <1>4. /\ IsFiniteSet(Booked) /\ CashFlow = SumFunctionOnSet(CashMoved, Booked)
        /\ signed \in Int /\ signed # 0
        /\ Fee[r] = r.fee /\ CashMoved[r] = -signed * r.px
        /\ Fee[r] \in Int /\ CashMoved[r] \in Int
        /\ \A f \in Booked : Fee[f] \in Int /\ CashMoved[f] \in Int
    BY <1>1, CashFlowSum, FillsTyped DEF AccountsInv
  <1>5. SumFunctionOnSet(Fee, Booked') = SumFunctionOnSet(Fee, Booked) + r.fee
    <2>1. SumFunctionOnSet(Fee, Booked \cup {r}) = SumFunctionOnSet(Fee, Booked) + Fee[r]
      BY <1>1, <1>4, SumAdd
    <2>2. QED
      BY <1>1, <1>4, <2>1
  <1>6. CashFlow' = CashFlow - signed * r.px /\ CashFlow \in Int
    <2>1. SumFunctionOnSet(CashMoved, Booked \cup {r})
            = SumFunctionOnSet(CashMoved, Booked) + CashMoved[r]
      BY <1>1, <1>4, SumAdd
    <2>2. SumFunctionOnSet(CashMoved, Booked) \in Int
      BY <1>4, SumInt
    <2>3. \A f \in Booked' : SignedQty(mgr', f) = SignedQty(mgr, f)
      BY <1>1, FillsTyped DEF SignedQty
    <2>4. CashFlow' = SumFunctionOnSet(CashMoved, Booked')
      <3> DEFINE B == [f \in Booked' |-> -SignedQty(mgr', f) * f.px]
      <3>1. \A f \in Booked' : B[f] = CashMoved[f]
        <4>1. \A f \in Booked' : f \in FillReports
          BY <1>1, FillsTyped
        <4>2. QED
          BY <2>3, <4>1 DEF CashMoved
      <3>2. DOMAIN B = Booked' /\ CashFlow' = SumFunction(B)
        BY DEF CashFlow
      <3>3. IsFiniteSet(Booked')
        BY <1>1, <1>4, FS_AddElement
      <3> HIDE DEF B
      <3>4. SumFunctionOnSet(B, Booked') = SumFunctionOnSet(CashMoved, Booked')
        BY <3>1, <3>3, SumSame
      <3>5. QED
        BY <3>2, <3>4 DEF SumFunction
    <2>5. -signed * r.px = -(signed * r.px) /\ signed * r.px \in Int
      BY <1>3, <1>4
    <2> HIDE DEF signed
    <2>6. QED
      BY <1>1, <1>4, <2>1, <2>2, <2>4, <2>5
  <1> DEFINE drift == Drift(old, signed, mgr.avg_entry, r.px)
  <1>7. /\ drift \in Int /\ Abs(drift) <= Greater(SCALE, Abs(old + signed)) - 1
        /\ gain \in Int /\ entry \in Nat
    <2> HIDE DEF signed
    <2>1. QED
      BY <1>3, <1>4, DriftOfFill, RealizedByType, EntryAfterType
  <1>8. drift = SCALE * gain + signed * r.px + old * mgr.avg_entry - (old + signed) * entry
    BY DEF Drift
  <1> HIDE DEF signed, gain, entry, drift, old
  <1>9. PnLDrift' = PnLDrift + drift /\ PnLDrift \in Int
    <2>1. SCALE * (mgr'.realized_pnl + mgr'.fees_paid)
            = SCALE * (mgr.realized_pnl + mgr.fees_paid) + SCALE * gain
      <3>1. mgr'.realized_pnl + mgr'.fees_paid = (mgr.realized_pnl + mgr.fees_paid) + gain
        BY <1>2, <1>3, <1>7
      <3>2. QED
        BY <1>3, <1>7, <3>1, ScaleAssumption
    <2>2. PnLDrift = SCALE * (mgr.realized_pnl + mgr.fees_paid) - CashFlow
                       - old * mgr.avg_entry
      BY DEF PnLDrift, old
    <2>3. PnLDrift' = SCALE * (mgr'.realized_pnl + mgr'.fees_paid) - CashFlow'
                       - (old + signed) * entry
      BY <1>2 DEF PnLDrift
    <2>4. /\ SCALE * (mgr.realized_pnl + mgr.fees_paid) \in Int /\ SCALE * gain \in Int
          /\ old * mgr.avg_entry \in Int /\ (old + signed) * entry \in Int
          /\ signed * r.px \in Int
      BY <1>3, <1>4, <1>7, ScaleAssumption
    <2>5. QED
      BY <1>6, <1>8, <2>1, <2>2, <2>3, <2>4
  <1>10. Abs(drift) <= RoundingPerFill /\ RoundingPerFill \in Int
    <2>1. Abs(old + signed) <= MaxQty * Cardinality(Cloids)
      <3>1. (FeedInv /\ AccountsInv
               => Abs(mgr.position) <= MaxQty * Cardinality(Cloids))'
        BY PositionBounded, PTL
      <3>2. QED
        BY <1>2, <3>1
    <2>2. Cardinality(Cloids) \in Nat /\ MaxQty \in Nat /\ SCALE \in Nat \ {0}
      BY FS_CardinalityType, FeedAssumption, ScaleAssumption
    <2>3. MaxQty * Cardinality(Cloids) \in Int /\ Abs(old + signed) \in Int
          /\ Abs(drift) \in Int
      BY <1>3, <1>4, <1>7, <2>2 DEF Abs
    <2>4. QED
      BY <1>7, <2>1, <2>2, <2>3 DEF RoundingPerFill, Greater
  <1>11. Cardinality(Booked') = Cardinality(Booked) + 1 /\ Cardinality(Booked) \in Nat
    BY <1>1, <1>4, FS_AddElement, FS_CardinalityType
  <1>12. Abs(PnLDrift') <= RoundingPerFill * Cardinality(Booked') /\ PnLDrift' \in Int
    <2>1. RoundingPerFill * (Cardinality(Booked) + 1)
            = RoundingPerFill * Cardinality(Booked) + RoundingPerFill
          /\ RoundingPerFill * Cardinality(Booked) \in Int
      <3>1. \A a \in Int, k \in Nat : a * (k + 1) = a * k + a /\ a * k \in Int
        OBVIOUS
      <3>2. QED
        BY <1>10, <1>11, <3>1
    <2>2. Abs(PnLDrift + drift) <= Abs(PnLDrift) + Abs(drift)
          /\ Abs(PnLDrift) \in Int /\ Abs(drift) \in Int /\ PnLDrift + drift \in Int
          /\ Abs(PnLDrift + drift) \in Int
      BY <1>7, <1>9 DEF Abs
    <2>3. QED
      BY <1>9, <1>10, <1>11, <2>1, <2>2 DEF PnLInv
  <1>13. RoundingPerFill' = RoundingPerFill
    BY DEF RoundingPerFill
  <1>14. QED
    BY <1>2, <1>5, <1>12, <1>13 DEF PnLInv

LEMMA PnLNext ==
    ASSUME FeedInv, FeedInv', AccountsInv, AccountsInv', PnLInv, [Next]_vars
    PROVE  PnLInv'
  <1>1. ASSUME NEW request \in Requests, Submit(request)
        PROVE  PnLInv'
    <2>1. request \in OrderRequests /\ ManagerOK(mgr) /\ mgr' = register(mgr, request)
          /\ SentFills' = SentFills
      BY <1>1, FeedAssumption DEF FeedInv, TypeOK, Submit, Requests, OrderRequests, SentFills
    <2>2. /\ mgr'.position = mgr.position /\ mgr'.fees_paid = mgr.fees_paid
          /\ mgr'.realized_pnl = mgr.realized_pnl /\ mgr'.avg_entry = mgr.avg_entry
          /\ DOMAIN mgr.orders \subseteq DOMAIN mgr'.orders
          /\ \A c \in DOMAIN mgr.orders : mgr'.orders[c] = mgr.orders[c]
      <3>1. mgr' = mgr \/ mgr' = Track(mgr, request)
        BY <2>1 DEF register
      <3>2. mgr' = Track(mgr, request)
              => /\ mgr'.position = mgr.position /\ mgr'.fees_paid = mgr.fees_paid
                 /\ mgr'.realized_pnl = mgr.realized_pnl /\ mgr'.avg_entry = mgr.avg_entry
        BY <2>1 DEF Track, ManagerOK
      <3>3. QED
        BY <2>1, <3>1, <3>2, RegisterEffect
    <2>3. Booked' = Booked
      <3>1. \A f \in SentFills : f.cloid \in DOMAIN mgr.orders
        BY FillsTyped
      <3>2. QED
        BY <2>1, <2>2, <3>1 DEF Booked, is_tracked
    <2>4. QED
      BY <2>2, <2>3, PnLKept
  <1>2. ASSUME mgr' = mgr, SentFills' = SentFills
        PROVE  PnLInv'
    <2>1. Booked' = Booked
      BY <1>2 DEF Booked
    <2>2. QED
      BY <1>2, <2>1, PnLKept
  <1>3. ASSUME NEW c \in Cloids, NEW qty \in 1..MaxQty, NEW px \in Prices, NEW fee \in Fees,
               VenueFill(c, qty, px, fee)
        PROVE  PnLInv'
    <2>1. PICK f \in FillReports : /\ f.fill_id = next_fill_id
                                   /\ SentFills' = SentFills \cup {f}
      BY <1>3, FeedVenueFill
    <2>2. mgr' = mgr
      BY <1>3 DEF VenueFill
    <2>3. Booked' = Booked
      BY <2>1, <2>2, NewFillNotBooked
    <2>4. QED
      BY <2>2, <2>3, PnLKept
  <1>4. ASSUME NEW r \in sent, Deliver(r)
        PROVE  PnLInv'
    <2>1. CASE BooksFill(r)
      BY <2>1, PnLBooked
    <2>2. CASE BooksNothing(r)
      BY <2>2, PnLKept DEF BooksNothing, Same
    <2>3. QED
      BY <1>4, <2>1, <2>2, DeliverEffect
  <1>5. CASE \E c \in Cloids : VenueAck(c)
    BY <1>2, <1>5, FeedVenueAck DEF VenueAck
  <1>6. CASE \E c \in Cloids, type \in {"Cancelled", "Rejected"} : VenueClose(c, type)
    BY <1>2, <1>6, FeedVenueClose DEF VenueClose
  <1>7. CASE UNCHANGED vars
    BY <1>2, <1>7 DEF vars, SentFills
  <1>8. QED
    BY <1>1, <1>3, <1>4, <1>5, <1>6, <1>7 DEF Next

(* Fees are the booked fills' fees, and realized PnL plus the open         *)
(* position at its average entry is the cash the booked fills moved, up to *)
(* one rounding per fill, whatever the feed does to the reports.           *)
THEOREM AccountsMatchCash == Spec => []PnLMatchesCashFlow
  <1>1. FeedInv /\ FeedInv' /\ AccountsInv /\ AccountsInv' /\ PnLInv /\ [Next]_vars => PnLInv'
    BY PnLNext
  <1>2. FeedInv /\ AccountsInv /\ PnLInv => PnLMatchesCashFlow
    BY CashFlowSum DEF AccountsInv, PnLInv, PnLDrift, PnLMatchesCashFlow
  <1>3. QED
    BY <1>1, <1>2, PnLInit, AccountsInvariant, PTL DEF Spec
=============================================================================
