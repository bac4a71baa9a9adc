---------------------------- MODULE WalkForward ----------------------------
(***************************************************************************)
(* The walk-forward optimiser: the rolling windows of                      *)
(* workers/wfo_engine.py, what it calls robust in a window and what it     *)
(* publishes in the end; beside it the verdict of the older wfo_engine.py. *)
(*                                                                         *)
(* The back-test is external: for each parameter set it gives a win rate   *)
(* (in 1/200: only how it compares with the floor of 139 counts), a Sharpe *)
(* ratio (in any unit) and a number of trades, on the bars in sample and   *)
(* on those out of sample, and they are free choices.                      *)
(*                                                                         *)
(* Both engines compare with >= and <=.  Their docstrings say a win rate   *)
(* above 69.5% and a Sharpe ratio that loses less than 40%.                *)
(***************************************************************************)
EXTENDS Integers, Sequences, FiniteSets

CONSTANTS Params,      \* the grid, numbered in the order of its index
          Bars,        \* bars loaded
          InSample, OutSample,   \* lengths of the two parts of a window
          WinRates, Sharpes, Trades,
          None

WalkForwardAssumption ==
    /\ Params \subseteq Nat /\ IsFiniteSet(Params)
    /\ Bars \in Nat
    /\ InSample \in Nat \ {0}
    /\ OutSample \in Nat \ {0}
    /\ WinRates \subseteq 0..200
    /\ Sharpes \subseteq Int
    /\ Trades \subseteq Nat
    /\ None \notin Params

VARIABLES at,        \* first bar of the window to be looked at
          window,    \* the metrics of that window, or None
          results,   \* one verdict per window
          published  \* what config:{desk_id} was set to: None until it was

vars == <<at, window, results, published>>

Metric == [win : WinRates, sharpe : Sharpes, trades : Trades \ {0}]
          \cup {[win |-> 0, sharpe |-> 0, trades |-> 0]}
Window == [is : [Params -> Metric], oos : [Params -> Metric]]
Result == [start : Nat, robust : BOOLEAN, params : Params \cup {None}]

MinWinRate == 139
MinTrades == 10
WindowBars == InSample + OutSample

----------------------------------------------------------------------------
(* The parameters in sample: those that win often enough, enough of them,  *)
(* and the first of those with the greatest Sharpe ratio (idxmax).         *)
Candidates(w, minTrades) ==
    {p \in Params : w.is[p].win >= MinWinRate /\ w.is[p].trades >= minTrades}

Best(w, candidates) ==
    CHOOSE p \in candidates :
        \A q \in candidates : \/ w.is[q].sharpe < w.is[p].sharpe
                              \/ w.is[q].sharpe = w.is[p].sharpe /\ p <= q

(* Mutated form: no guard against a Sharpe ratio of 0 or less. *)
BoundedDecayUnguarded(isSharpe, oosSharpe) == 10 * oosSharpe >= 6 * isSharpe

(* 1 - oos/is <= 0.40, which a Sharpe ratio of 0 or less fails. *)
BoundedDecay(isSharpe, oosSharpe) == isSharpe > 0 /\ 10 * oosSharpe >= 6 * isSharpe

(* Mutated form: one of the two criteria is enough. *)
RobustEither(w, p) ==
    LET traded == w.oos[p].trades > 0 IN
    \/ (IF traded THEN w.oos[p].win ELSE 0) >= MinWinRate
    \/ BoundedDecay(w.is[p].sharpe, IF traded THEN w.oos[p].sharpe ELSE 0)

(* Without trades the app takes 0 for both ratios. *)
Robust(w, p) ==
    LET traded == w.oos[p].trades > 0 IN
    /\ (IF traded THEN w.oos[p].win ELSE 0) >= MinWinRate
    /\ BoundedDecay(w.is[p].sharpe, IF traded THEN w.oos[p].sharpe ELSE 0)

(* validate_oos of the older engine: the win rate of no trades is NaN,     *)
(* which its filter drops ("no_oos_trades"); no least number of trades.    *)
LegacyRobust(w) ==
    LET candidates == Candidates(w, 0)
        p == Best(w, candidates)
    IN  /\ candidates /= {}
        /\ w.oos[p].trades > 0
        /\ w.oos[p].win >= MinWinRate
        /\ BoundedDecay(w.is[p].sharpe, w.oos[p].sharpe)

Verdict(w) ==
    LET candidates == Candidates(w, MinTrades)
        p == Best(w, candidates)
    IN  IF candidates = {} THEN [start |-> at, robust |-> FALSE, params |-> None]
        ELSE [start |-> at, robust |-> Robust(w, p), params |-> p]

(* Mutated form: the window rolls by half its out-of-sample part. *)
NextStartHalf == at + OutSample \div 2

NextStart == at + OutSample

(* Mutated form: the window that ends with the last bar is left out. *)
MoreWindowsExclusive == at + WindowBars < Bars

MoreWindows == at + WindowBars <= Bars

----------------------------------------------------------------------------
Init == at = 0 /\ window = None /\ results = <<>> /\ published = None

(* Back-test the grid in sample, and its best out of sample. *)
Backtest ==
    /\ window = None
    /\ published = None
    /\ MoreWindows
    /\ window' \in Window
    /\ UNCHANGED <<at, results, published>>

Judge ==
    /\ window /= None
    /\ results' = Append(results, Verdict(window))
    /\ at' = NextStart
    /\ window' = None
    /\ UNCHANGED published

RobustWindows == {k \in DOMAIN results : results[k].robust}

(* Mutated form: the first robust window is published. *)
PublishFirst ==
    /\ window = None
    /\ ~MoreWindows
    /\ published = None
    /\ \E k \in RobustWindows :
         /\ \A j \in RobustWindows : k <= j
         /\ published' = results[k].params
    /\ UNCHANGED <<at, window, results>>

(* run_wfo_pipeline: the most recent robust window is published. *)
Publish ==
    /\ window = None
    /\ ~MoreWindows
    /\ published = None
    /\ \E k \in RobustWindows :
         /\ \A j \in RobustWindows : j <= k
         /\ published' = results[k].params
    /\ UNCHANGED <<at, window, results>>

Next == Backtest \/ Judge \/ Publish

Spec == Init /\ [][Next]_vars

----------------------------------------------------------------------------
TypeOK ==
    /\ at \in Nat
    /\ window \in Window \cup {None}
    /\ results \in Seq(Result)
    /\ published \in Params \cup {None}

(* No bar validates two windows: the out-of-sample parts do not overlap,   *)
(* while the windows themselves do.                                        *)
ValidatedOnce ==
    \A j, k \in DOMAIN results :
        j < k => results[j].start + WindowBars <= results[k].start + InSample

(* What is published was chosen on recent data: when the loop ends, less   *)
(* than one step of the loaded bars lies behind the last window.           *)
UsesLatestBars ==
    window = None /\ ~MoreWindows /\ results /= <<>> =>
        Bars - (results[Len(results)].start + WindowBars) < OutSample

(* What is published passed its own out-of-sample test, and no later       *)
(* window has a robust choice.                                             *)
PublishedIsLatest ==
    published /= None =>
        \E k \in DOMAIN results :
            /\ results[k].robust
            /\ results[k].params = published
            /\ \A j \in DOMAIN results : j > k => ~results[j].robust

(* A robust parameter set won often enough on both parts, traded ten times *)
(* in sample and at all out of sample, had a positive Sharpe ratio and     *)
(* kept 60% of it; and it is the best in sample: one that would have       *)
(* passed but was second there is not looked at. Equality passes, as in    *)
(* the code; the docstrings ("Sharpe decay < 40%", "win rate > 69.5%")     *)
(* are stricter.                                                           *)
RobustEarned ==
    window /= None /\ Verdict(window).robust =>
        LET p == Verdict(window).params
            is == window.is[p]
            oos == window.oos[p]
        IN  /\ is.trades >= 10 /\ oos.trades > 0
            /\ is.win >= MinWinRate /\ oos.win >= MinWinRate
            /\ is.sharpe > 0 /\ 10 * oos.sharpe >= 6 * is.sharpe
            /\ \A q \in Params :
                 window.is[q].win >= MinWinRate /\ window.is[q].trades >= 10
                 => window.is[q].sharpe <= is.sharpe

(* The two engines agree on a window in which every parameter set traded   *)
(* ten times in sample, although they treat a lack of trades differently.  *)
EnginesAgree ==
    window /= None /\ (\A p \in Params : window.is[p].trades >= MinTrades) =>
        (Verdict(window).robust <=> LegacyRobust(window))

(* What is published was validated on bars of its own, on recent ones, and *)
(* passed in the way that both engines mean.                               *)
PublishedIsEarned ==
    /\ ValidatedOnce
    /\ UsesLatestBars
    /\ PublishedIsLatest
    /\ RobustEarned
    /\ EnginesAgree
=============================================================================
