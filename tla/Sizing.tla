------------------------------- MODULE Sizing -------------------------------
(***************************************************************************)
(* Position sizing, app/quant/sizing.py: the Kelly fraction of a trade,    *)
(* a quarter of it, at most 5% of the account, half of that beside a       *)
(* correlated position, then rounded to whole lots and raised to the       *)
(* broker's minimum.                                                       *)
(*                                                                         *)
(* Arithmetic is exact: a posterior is a fraction of Scale, a minimum      *)
(* quantity of a lot, an account counts in any unit of money, gains and    *)
(* losses are averages in a common one. The rounding of floats is left     *)
(* out: it may show where a size lies exactly between two lots.            *)
(***************************************************************************)
EXTENDS Integers, FiniteSets

CONSTANTS Symbols,     \* instruments
          Group,       \* CORRELATION_GROUPS: symbol -> group or Ungrouped
          Ungrouped,
          Scale,       \* what a posterior of 1 counts as
          Posteriors,
          Averages,    \* averages of wins and of losses; 0 is NULL, too
          LotPrice,    \* the 100 dollars that a lot is taken to cost
          Accounts,    \* net liquidations, in the same unit
          Lot,         \* what a whole lot counts as
          MinQtys      \* the broker's minimum quantities

SizingAssumption ==
    /\ {Scale, LotPrice, Lot} \subseteq Nat \ {0}
    /\ Posteriors \subseteq 0..Scale
    /\ Averages \subseteq Nat
    /\ Accounts \subseteq Nat
    /\ MinQtys \subseteq Nat
    /\ Group \in [Symbols -> {Group[s] : s \in Symbols} \cup {Ungrouped}]

VARIABLES trade,  \* the trade to be sized, or Ungrouped before it
          held,   \* symbols of oniquant:active_positions
          size    \* what calculate_position_size returns

vars == <<trade, held, size>>

Trade == [symbol : Symbols, posterior : Posteriors, win : Averages,
          loss : Averages, account : Accounts, minQty : MinQtys]

Least(a, b) == IF a < b THEN a ELSE b
Greatest(a, b) == IF a > b THEN a ELSE b

----------------------------------------------------------------------------
(* Mutated form: a pessimistic default. *)
WinLossRatioCautious(t) == IF t.loss = 0 THEN <<1, 4>> ELSE <<t.win, t.loss>>

(* get_win_loss_ratio as a fraction: two without losses, even where there  *)
(* are no wins or no fills at all (the aggregate always has its one row).  *)
WinLossRatio(t) == IF t.loss = 0 THEN <<2, 1>> ELSE <<t.win, t.loss>>

(* Mutated form: the ratio is used upside down. *)
KellyInverted(p, b) ==
    IF b[1] = 0 THEN <<0, Scale>>
    ELSE <<Greatest(0, p * b[2] - (Scale - p) * b[1]), Scale * b[2]>>

(* p - q / b, never negative, as a fraction with the denominator Scale * b. *)
Kelly(p, b) ==
    IF b[1] = 0 THEN <<0, Scale>>
    ELSE <<Greatest(0, p * b[1] - (Scale - p) * b[2]), Scale * b[1]>>

(* Mutated form: all positions must be correlated. *)
ClusteredAlone(symbol, positions) ==
    /\ Group[symbol] /= Ungrouped
    /\ positions /= {}
    /\ \A s \in positions : s /= symbol /\ Group[s] = Group[symbol]

Clustered(symbol, positions) ==
    /\ Group[symbol] /= Ungrouped
    /\ \E s \in positions : s /= symbol /\ Group[s] = Group[symbol]

(* Mutated form: no cap. *)
FractionUncapped(kelly, clustered) ==
    <<IF clustered THEN 5 * kelly[1] ELSE 10 * kelly[1], 40 * kelly[2]>>

(* The fraction of the account: a quarter of Kelly, capped at a twentieth, *)
(* halved in a cluster; its denominator is forty times that of Kelly.      *)
Fraction(kelly, clustered) ==
    LET capped == Least(5 * kelly[1], kelly[2]) IN
    <<IF clustered THEN capped ELSE 2 * capped, 40 * kelly[2]>>

(* round(x, 0) of Python: to the nearest, halves to the even one. *)
Rounded(n, d) ==
    LET q == n \div d
        r == 2 * (n % d)
    IN  IF r > d \/ (r = d /\ q % 2 = 1) THEN q + 1 ELSE q

(* Mutated form: what does not make a whole lot of the account is dropped. *)
QuantityOfWholeLots(fraction, account, minQty) ==
    IF minQty = 0 THEN 0
    ELSE Greatest(minQty,
                  Lot * Rounded((account \div LotPrice) * fraction[1], fraction[2]))

(* Whole lots, whatever the instrument costs, or the minimum. *)
Quantity(fraction, account, minQty) ==
    IF minQty = 0 THEN 0
    ELSE Greatest(minQty, Lot * Rounded(account * fraction[1], LotPrice * fraction[2]))

(* calculate_position_size *)
PositionSize(t, positions) ==
    LET kelly == Kelly(t.posterior, WinLossRatio(t))
        fraction == Fraction(kelly, Clustered(t.symbol, positions))
    IN  [kelly |-> kelly, fraction |-> fraction,
         quantity |-> Quantity(fraction, t.account, t.minQty)]

----------------------------------------------------------------------------
Init == trade = Ungrouped /\ held = {} /\ size = Ungrouped

Calculate ==
    /\ trade = Ungrouped
    /\ trade' \in Trade
    /\ held' \in SUBSET Symbols
    /\ size' = PositionSize(trade', held')

Next == Calculate

Spec == Init /\ [][Next]_vars

----------------------------------------------------------------------------
Sized == trade /= Ungrouped

TypeOK ==
    /\ trade \in Trade \cup {Ungrouped}
    /\ held \subseteq Symbols
    /\ Sized => /\ size.kelly[1] \in 0..size.kelly[2]
                /\ size.fraction[2] > 0
                /\ size.quantity \in Nat

(* What a position costs exceeds 5% of the account by no more than half a  *)
(* lot, unless it is the broker's minimum; beside a correlated position    *)
(* the same holds of 2.5% (MAX_POSITION_PCT, CLUSTER_REDUCTION and the     *)
(* rounding after them).                                                   *)
CapUpToRounding ==
    Sized /\ size.quantity > trade.minQty =>
        LotPrice * (2 * size.quantity - Lot)
            * (IF Clustered(trade.symbol, held) THEN 40 ELSE 20)
          <= 2 * Lot * trade.account

(* A trade whose expectation is negative, or whose desk has only losses,   *)
(* still gets the minimum and never more: the Kelly fraction cannot veto.  *)
NoEdgeNoMoreThanMinimum ==
    Sized /\ trade.loss > 0
          /\ trade.posterior * trade.win <= (Scale - trade.posterior) * trade.loss
    => size.quantity = trade.minQty

(* For an authorized signal (posterior > 0.695) whose desk wins on average *)
(* no less than it loses, the cap decides alone: the size depends neither  *)
(* on the posterior nor on the ratio, and falls short of the cap by no     *)
(* more than half a lot. Hence the default of 2.0 for a desk without       *)
(* losses never makes it smaller than one with some.                       *)
CapDecides ==
    LET clustered == Clustered(trade.symbol, held) IN
    Sized /\ 200 * trade.posterior > 139 * Scale /\ trade.minQty > 0
          /\ (trade.win >= trade.loss \/ trade.loss = 0)
    => /\ size.quantity = Quantity(Fraction(<<1, 1>>, clustered), trade.account, trade.minQty)
       /\ LotPrice * (2 * size.quantity + Lot) * (IF clustered THEN 40 ELSE 20)
            >= 2 * Lot * trade.account

(* Another open position never makes a trade larger, a better posterior    *)
(* never smaller, through cap, halving, rounding and minimum.              *)
SizeMonotone ==
    Sized =>
        /\ \A s \in Symbols :
             PositionSize(trade, held \cup {s}).quantity <= size.quantity
        /\ \A p \in Posteriors : p >= trade.posterior =>
             PositionSize([trade EXCEPT !.posterior = p], held).quantity >= size.quantity

(* A size keeps to the cap, the minimum and the order of the evidence,     *)
(* through halving and rounding.                                           *)
SizeKeepsLimits ==
    /\ CapUpToRounding
    /\ NoEdgeNoMoreThanMinimum
    /\ CapDecides
    /\ SizeMonotone
=============================================================================
