----------------------------- MODULE VolumeWalk -----------------------------
(***************************************************************************)
(* Whether an order book fills a simulated order, and at which price.      *)
(*                                                                         *)
(* Two generations walk the levels at or through the limit:                *)
(* evaluate_queue_position of matcher.py stops when it has what it         *)
(* requires and compares with >=, evaluate_l2_fill of                      *)
(* app/services/matcher.py walks them all and compares with >.             *)
(*                                                                         *)
(* Volumes count in fifths of a lot, so that the 20% penalty is exact;     *)
(* a limit counts in two-hundredths of a price, for the slippage of 0.5%.  *)
(***************************************************************************)
EXTENDS Integers, Sequences, FiniteSets, SequencesExt

CONSTANTS Prices,   \* of levels and of limit orders
          Sizes,    \* of levels
          Lots,     \* sizes of orders; a missing quantity is 0
          Depth,    \* bound: levels in a raw snapshot
          NoOrder

WalkAssumption ==
    /\ Prices \subseteq Nat \ {0}
    /\ Sizes \subseteq Nat
    /\ Lots \subseteq Nat
    /\ Depth \in Nat

VARIABLES order,   \* the order, or NoOrder before it
          raw,     \* its l2_snapshot: levels in any order, of both sides
          result   \* of each generation

vars == <<order, raw, result>>

RawLevel == [price : Prices, size : Sizes, side : {"BID", "ASK"}]
Order == [lots : Lots, direction : {1, -1}, type : {"LIMIT"}, limit : Prices]
         \cup [lots : Lots, direction : {1, -1}, type : {"MARKET"}, limit : {0}]

Fifth == 5
Slip == 200

----------------------------------------------------------------------------
(* L2Snapshot.from_raw: the side an order takes from, best price first,    *)
(* levels of the same price in the order in which they came.               *)
Better(direction, a, b) == IF direction = 1 THEN a < b ELSE a > b

Facing(levels, direction) ==
    {i \in DOMAIN levels : levels[i].side = IF direction = 1 THEN "ASK" ELSE "BID"}

Ahead(levels, direction, i, j) ==
    \/ Better(direction, levels[i].price, levels[j].price)
    \/ levels[i].price = levels[j].price /\ i < j

Place(levels, direction, i) ==
    Cardinality({j \in Facing(levels, direction) : j = i \/ Ahead(levels, direction, j, i)})

(* Mutated form: the side is not sorted. *)
LadderUnsorted(levels, direction) ==
    LET side == Facing(levels, direction) IN
    [n \in 1..Cardinality(side) |->
        levels[CHOOSE i \in side : Cardinality({j \in side : j <= i}) = n]]

Ladder(levels, direction) ==
    LET side == Facing(levels, direction) IN
    [n \in 1..Cardinality(side) |->
        levels[CHOOSE i \in side : Place(levels, direction, i) = n]]

(* The limit of an order in 1/Slip; 0 for a MARKET order without a price.  *)
Limit(o, ladder) ==
    CASE o.type = "LIMIT" -> Slip * o.limit
      [] o.type = "MARKET" /\ ladder /= <<>> -> (Slip + o.direction) * ladder[1].price
      [] OTHER -> 0

(* Mutated form: the comparison with the limit is reversed. *)
ReachableBack(level, o, limit) == ~Better(-o.direction, limit, Slip * level.price)

(* The levels at or through the limit, the others are left out of the walk. *)
Reachable(level, o, limit) == ~Better(o.direction, limit, Slip * level.price)

Required(lots) == Fifth * lots + lots

NothingYet(lots) == [depth |-> 0, taken |-> 0, cost |-> 0, total |-> 0,
                     remaining |-> Required(lots)]

(* Mutated form: the last level is consumed whole. *)
TakeWhole(walk, level) ==
    LET volume == Fifth * level.size IN
    [depth |-> walk.depth + 1, taken |-> walk.taken + volume,
     cost |-> walk.cost + level.price * volume,
     total |-> walk.total + volume, remaining |-> walk.remaining - volume]

(* One iteration of the loop over the levels. *)
Take(walk, level) ==
    LET volume == Fifth * level.size
        consumed == IF volume < walk.remaining THEN volume ELSE walk.remaining
    IN  [depth |-> walk.depth + 1, taken |-> walk.taken + consumed,
         cost |-> walk.cost + level.price * consumed,
         total |-> walk.total + volume, remaining |-> walk.remaining - consumed]

(* Mutated form: < 0 instead of <= 0, so that the walk never stops. *)
TakeOrBreakLate(walk, level) ==
    IF walk.depth > 0 /\ walk.remaining < 0 THEN walk ELSE Take(walk, level)

(* The root matcher breaks once nothing remains, after a first level. *)
TakeOrBreak(walk, level) ==
    IF walk.depth > 0 /\ walk.remaining = 0 THEN walk ELSE Take(walk, level)

(* The app's matcher goes on to the end of the book. *)
Step(matcher, walk, level) ==
    IF matcher = "root" THEN TakeOrBreak(walk, level) ELSE Take(walk, level)

(* The loop of a generation of the matcher over the ladder. *)
Walk(matcher, o, ladder) ==
    LET limit == Limit(o, ladder)
        walk[n \in 0..Len(ladder)] ==
            IF n = 0 THEN NothingYet(o.lots)
            ELSE IF Reachable(ladder[n], o, limit) THEN Step(matcher, walk[n - 1], ladder[n])
            ELSE walk[n - 1]
    IN  walk[Len(ladder)]

(* Without a level at all nothing is filled. A fill price is a fraction,   *)
(* cost over taken; that of an order that took nothing is its limit.       *)
Outcome(enough, walk, limit) ==
    [filled |-> walk.depth > 0 /\ enough, depth |-> walk.depth, volume |-> walk.taken,
     price |-> IF walk.taken > 0 THEN <<Slip * walk.cost, walk.taken>> ELSE <<limit, 1>>]

QueuePosition(o, ladder) ==
    LET walk == Walk("root", o, ladder)
    IN  Outcome(walk.taken >= Required(o.lots), walk, Limit(o, ladder))

(* Mutated form: compares what was consumed instead of what is there. *)
L2FillCapped(o, ladder) ==
    LET walk == Walk("app", o, ladder)
    IN  Outcome(walk.taken > Required(o.lots), walk, Limit(o, ladder))

L2Fill(o, ladder) ==
    LET walk == Walk("app", o, ladder)
    IN  Outcome(walk.total > Required(o.lots), walk, Limit(o, ladder))

(* Mutated form: a fill at the target or better is the win. *)
LedgerWinBetter(o, price) == o.direction * (price[1] - Slip * o.limit * price[2]) <= 0

(* query_win_rate counts a persisted fill as a win when it reached its     *)
(* target price, which is the limit that the app's matcher was given.      *)
LedgerWin(o, price) == o.direction * (price[1] - Slip * o.limit * price[2]) >= 0

----------------------------------------------------------------------------
Init == order = NoOrder /\ raw = <<>> /\ result = NoOrder

(* Both matchers on the same order and book. The app's knows no MARKET     *)
(* orders; it gets the limit that the root matcher derives from one.       *)
Evaluate ==
    /\ order = NoOrder
    /\ order' \in Order
    /\ \E n \in 0..Depth : raw' \in [1..n -> RawLevel]
    /\ LET ladder == Ladder(raw', order'.direction) IN
       result' = [root |-> QueuePosition(order', ladder),
                  app  |-> L2Fill(order', ladder)]

Next == Evaluate

Spec == Init /\ [][Next]_vars

----------------------------------------------------------------------------
Evaluated == order /= NoOrder

(* Reference: what a side offers an order, without sorting or walking. *)
Offers ==
    {i \in DOMAIN raw :
        /\ raw[i].side = IF order.direction = 1 THEN "ASK" ELSE "BID"
        /\ LET best == {raw[j].price : j \in {k \in DOMAIN raw : raw[k].side = raw[i].side}}
               beyond(p) == order.direction * (Slip * raw[i].price - p) > 0
           IN  IF order.type = "LIMIT" THEN ~beyond(Slip * order.limit)
               ELSE \A p \in best : ~beyond((Slip + order.direction) * p)}

Offered(levels, S) ==
    LET sum[n \in 0..Len(levels)] ==
            IF n = 0 THEN 0 ELSE sum[n - 1] + IF n \in S THEN Fifth * levels[n].size ELSE 0
    IN  sum[Len(levels)]

Volume(S) == Offered(raw, S)

(* An order fills exactly when the levels within its limit offer 120% of   *)
(* it, whatever order the levels come in; the app's matcher needs a little *)
(* more, and an order without a quantity needs a level only.               *)
FillsWhenOffered ==
    Evaluated =>
        /\ result.root.filled <=> Offers /= {} /\ Volume(Offers) >= (Fifth + 1) * order.lots
        /\ result.app.filled <=> Volume(Offers) > (Fifth + 1) * order.lots

(* Where both matchers fill, they fill at the same price, although one     *)
(* stops and the other walks on.                                           *)
SamePriceWhenBothFill ==
    Evaluated /\ result.root.filled /\ result.app.filled =>
        result.root.price = result.app.price

(* A fill is never worse than the limit, nor better than the best offer.   *)
PriceWithinLimit ==
    Evaluated =>
        \A g \in {"root", "app"} :
            LET price == result[g].price IN
            result[g].filled /\ result[g].volume > 0 =>
                /\ \E i \in Offers :
                     order.direction * (price[1] - Slip * raw[i].price * price[2]) >= 0
                /\ \E i \in Offers :
                     order.direction * (price[1] - Slip * raw[i].price * price[2]) <= 0

(* The prior of the arbiter counts a simulated fill as a win only when it  *)
(* paid exactly its limit: any better offer in the book makes it a loss.   *)
ImprovedIsLoss ==
    Evaluated /\ order.type = "LIMIT" /\ order.lots > 0 /\ result.app.filled =>
        (LedgerWin(order, result.app.price)
            <=> \A i \in Offers : raw[i].size > 0 => raw[i].price = order.limit)

(* A larger order never gets a better price, nor fills where a smaller one *)
(* does not.                                                               *)
LargerIsNoBetter ==
    Evaluated =>
        \A lots \in Lots : 0 < lots /\ lots < order.lots =>
            LET ladder == Ladder(raw, order.direction)
                small == QueuePosition([order EXCEPT !.lots = lots], ladder)
            IN  result.root.filled =>
                    /\ small.filled
                    /\ order.direction * (result.root.price[1] * small.price[2]
                                          - small.price[1] * result.root.price[2]) >= 0

(* A part of the book, which is what the Bybit connectors cache when a     *)
(* delta overwrites the snapshot, never fills a LIMIT order that the whole *)
(* book does not fill, nor at a better price. (A MARKET order can gain:    *)
(* its limit follows the best price of the part.)                          *)
FragmentIsNoBetter ==
    Evaluated /\ order.type = "LIMIT" =>
        \A i \in DOMAIN raw :
            LET part == Ladder(RemoveAt(raw, i), order.direction)
                root == QueuePosition(order, part)
            IN  /\ L2Fill(order, part).filled => result.app.filled
                /\ root.filled =>
                     /\ result.root.filled
                     /\ order.direction * (root.price[1] * result.root.price[2]
                                           - result.root.price[1] * root.price[2]) >= 0

(* queue_depth of a fill is the least number of the best levels that offer *)
(* what the order requires.                                                *)
DepthIsLeast ==
    Evaluated /\ result.root.filled /\ order.lots > 0 =>
        LET ladder == Ladder(raw, order.direction)
            depth == result.root.depth
        IN  /\ Offered(ladder, 1..depth) >= Required(order.lots)
            /\ Offered(ladder, 1..(depth - 1)) < Required(order.lots)

TypeOK ==
    /\ order \in Order \cup {NoOrder}
    /\ raw \in Seq(RawLevel)
    /\ Evaluated => \A g \in {"root", "app"} :
         /\ result[g].depth \in 0..Len(raw)
         /\ result[g].volume \in 0..Required(order.lots)
         /\ result[g].price[2] > 0

(* A book fills an order when it offers enough of it, from the fewest      *)
(* levels, at the price that they imply, whichever matcher walks them.     *)
FillsAreFair ==
    /\ FillsWhenOffered
    /\ DepthIsLeast
    /\ SamePriceWhenBothFill
    /\ PriceWithinLimit
    /\ LargerIsNoBetter
    /\ FragmentIsNoBetter
    /\ ImprovedIsLoss
=============================================================================
