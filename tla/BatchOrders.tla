---------------------------- MODULE BatchOrders ----------------------------
(***************************************************************************)
(* place_batch_orders of app/services/broker_crypto.py and its older twin: *)
(* a list of orders goes to Bybit in batches of up to BATCH_MAX, one call  *)
(* after the other; a call that raises ends the function, and the          *)
(* responses collected so far are lost with it.                            *)
(***************************************************************************)
EXTENDS Integers, Sequences

CONSTANTS BatchMax,   \* BATCH_MAX
          MaxOrders   \* bound: orders in a list

BatchAssumption == BatchMax \in Nat \ {0} /\ MaxOrders \in Nat

VARIABLES orders,    \* how many orders the caller passed
          next,      \* i: the orders before it have been sent
          responses, \* what results holds: one sequence of orders per response
          placed,    \* ghost: how often Bybit received each order
          outcome    \* "pending", "returned" or "raised"

vars == <<orders, next, responses, placed, outcome>>

Least(a, b) == IF a < b THEN a ELSE b

Init ==
    /\ orders \in 0..MaxOrders
    /\ next = 0
    /\ responses = <<>>
    /\ placed = [o \in 1..MaxOrders |-> 0]
    /\ outcome = "pending"

(* Mutated form: the slice begins with the last order of the one before. *)
BatchOverlapping == (IF next = 0 THEN 1 ELSE next)..Least(next + BatchMax, orders)

Batch == (next + 1)..Least(next + BatchMax, orders)

PlaceAll(S) == placed' = [o \in 1..MaxOrders |-> placed[o] + IF o \in S THEN 1 ELSE 0]

(* Mutated form: only the last response is kept. *)
PlaceBatchUnreported ==
    /\ outcome = "pending"
    /\ next < orders
    /\ PlaceAll(Batch)
    /\ responses' = <<Batch>>
    /\ next' = next + BatchMax
    /\ UNCHANGED <<orders, outcome>>

PlaceBatch ==
    /\ outcome = "pending"
    /\ next < orders
    /\ PlaceAll(Batch)
    /\ responses' = Append(responses, Batch)
    /\ next' = next + BatchMax
    /\ UNCHANGED <<orders, outcome>>

(* Mutated form: all batches that are left are sent at once. *)
CallsRaise ==
    /\ outcome = "pending"
    /\ next < orders
    /\ \E S \in SUBSET ((next + 1)..orders) : PlaceAll(S)
    /\ responses' = <<>>
    /\ outcome' = "raised"
    /\ UNCHANGED <<orders, next>>

(* The call raises, before Bybit has the batch or after. *)
CallRaises ==
    /\ outcome = "pending"
    /\ next < orders
    /\ PlaceAll({}) \/ PlaceAll(Batch)
    /\ responses' = <<>>
    /\ outcome' = "raised"
    /\ UNCHANGED <<orders, next>>

Return ==
    /\ outcome = "pending"
    /\ next >= orders
    /\ outcome' = "returned"
    /\ UNCHANGED <<orders, next, responses, placed>>

Next == PlaceBatch \/ CallRaises \/ Return

Spec == Init /\ [][Next]_vars

----------------------------------------------------------------------------
TypeOK ==
    /\ orders \in 0..MaxOrders
    /\ next \in Nat
    /\ responses \in Seq(SUBSET (1..MaxOrders))
    /\ placed \in [1..MaxOrders -> Nat]
    /\ outcome \in {"pending", "returned", "raised"}

(* No order is sent twice by one call of the function, also not where a    *)
(* batch ends.                                                             *)
PlacedAtMostOnce == \A o \in 1..MaxOrders : placed[o] <= 1

(* A list that returns was placed completely, reported once and in order,  *)
(* with as few calls as batches are needed ("ceil(M/20) API calls").       *)
ReturnsAllInOrder ==
    outcome = "returned" =>
        /\ \A o \in 1..orders : placed[o] = 1
        /\ Len(responses) = (orders + BatchMax - 1) \div BatchMax
        /\ \A o \in 1..orders : o \in responses[(o - 1) \div BatchMax + 1]

(* A list that raises leaves whole batches from its front placed, with     *)
(* nothing to tell how many: the batch in doubt comes directly after those *)
(* that went through.                                                      *)
RaisedLeavesPrefix ==
    outcome = "raised" =>
        \A o \in 1..orders : placed[o] = 1 =>
            \A p \in 1..orders : (p - 1) \div BatchMax <= (o - 1) \div BatchMax => placed[p] = 1

(* Every order is placed once, whole batches from the front of the list,   *)
(* and all of them when the function returns.                              *)
BatchesInOrder ==
    /\ PlacedAtMostOnce
    /\ ReturnsAllInOrder
    /\ RaisedLeavesPrefix
=============================================================================
