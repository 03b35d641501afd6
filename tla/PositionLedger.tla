--------------------------- MODULE PositionLedger ---------------------------
(***************************************************************************)
(* What the order manager promises (manager.rs:4-8): however its reports   *)
(* are duplicated, reordered or delayed, its position only ever moves by   *)
(* booking a fill it has not booked before, once, at that fill's signed    *)
(* quantity.                                                               *)
(***************************************************************************)
EXTENDS Integers

CONSTANT Entries     \* the [id, signed] pairs a venue may fill

VARIABLES position,  \* net signed position
          booked     \* the entries booked so far

Init == position = 0 /\ booked = {}

Book(e) ==
    /\ \A b \in booked : b.id # e.id
    /\ booked' = booked \cup {e}
    /\ position' = position + e.signed

Next == \E e \in Entries : Book(e)

Spec == Init /\ [][Next]_<<position, booked>>
=============================================================================
