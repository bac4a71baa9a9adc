------------------------------ MODULE Arbiter ------------------------------
(***************************************************************************)
(* The Bayesian arbiter: app/services/orchestrator.py, and beside it the   *)
(* older orchestrator.py, which differs from it in the macro factor only.  *)
(* Both multiply three factors into a likelihood ratio, multiply the odds  *)
(* of the desk's win rate with it and authorize above a posterior of       *)
(* 69.5%.                                                                  *)
(*                                                                         *)
(* Numbers are exact: a factor counts in twentieths (1.5 is 30), the floor *)
(* in two-hundredths (0.695 is 139), IOF and Hurst in hundredths, and a    *)
(* win rate is a fraction, <<wins, total>>.  The rounding of floats is     *)
(* left out: it can turn a verdict only where the posterior equals the     *)
(* floor exactly, as for 139 wins of 200 and a likelihood of 1.            *)
(***************************************************************************)
EXTENDS Integers

CONSTANTS Classes,    \* asset classes, in lower case
          IofLevels,  \* strengths of institutional order flow, percent
          Hursts,     \* Hurst exponents, percent
          Wins,       \* rows of a desk in the ledger that count as won
          Totals,     \* and rows with a direction at all
          NoHistory   \* the ledger (or the cache) has nothing on the desk

WinRates == {rate \in Wins \X Totals : rate[1] <= rate[2]}

ArbiterAssumption ==
    /\ IofLevels \subseteq 0..100
    /\ Hursts \subseteq 0..100
    /\ Wins \subseteq Nat
    /\ Totals \subseteq Nat \ {0}
    /\ NoHistory \notin WinRates

VARIABLES signal,   \* the signal under evaluation, or NoHistory before it
          macro,    \* what oniquant:macro:latest holds
          winRate,  \* what _fetch_prior finds: a fraction or NoHistory
          verdict   \* of each of the two generations

vars == <<signal, macro, winRate, verdict>>

Signal == [class : Classes, direction : {1, -1}, iof : IofLevels,
           hurst : Hursts, model : {"spline", "knn", "iof"}]
Macro == [dxy : {"rising", "falling", "neutral"},
          sentiment : {"risk_on", "risk_off", "neutral"},
          vix : {"normal", "elevated"}]
Verdict == [authorized : BOOLEAN, target : {"IBKR_TWS", "BYBIT_V5", "none"}]

Unit == 20
Rate == 200
FloorRate == 139

Clamp(low, high, n) == IF n < low THEN low ELSE IF n > high THEN high ELSE n

----------------------------------------------------------------------------
(* Mutated form: a win rate below one half counts as one half. *)
PriorNeverBad(rate) ==
    IF rate = NoHistory THEN <<1, 2>>
    ELSE CASE 2 * rate[1] < rate[2]       -> <<1, 2>>
           [] 20 * rate[1] > 19 * rate[2] -> <<19, 20>>
           [] OTHER                       -> rate

(* _fetch_prior after the read: clamped to [0.05, 0.95], uninformative     *)
(* without a history and when the ledger cannot be read.                   *)
Prior(rate) ==
    IF rate = NoHistory THEN <<1, 2>>
    ELSE CASE 20 * rate[1] < rate[2]      -> <<1, 20>>
           [] 20 * rate[1] > 19 * rate[2] -> <<19, 20>>
           [] OTHER                       -> rate

(* Mutated form: the two upper factors are swapped. *)
IofFactorSwapped(iof) == CASE iof > 80              -> 24
                           [] iof > 60 /\ iof <= 80 -> 30
                           [] iof < 30              -> 14
                           [] OTHER                 -> 20

(* Mutated form: weak order flow counts 0.4. *)
IofFactorHarsh(iof) == CASE iof > 80              -> 30
                         [] iof > 60 /\ iof <= 80 -> 24
                         [] iof < 30              -> 8
                         [] OTHER                 -> 20

IofFactor(iof) == CASE iof > 80              -> 30
                    [] iof > 60 /\ iof <= 80 -> 24
                    [] iof < 30              -> 14
                    [] OTHER                 -> 20

(* Mutated form: the two regimes overlap the neutral band. *)
HurstFactorWide(hurst, model) ==
    CASE hurst < 56 /\ model = "spline"  -> 26
      [] hurst < 45 /\ model = "knn"     -> 15
      [] hurst >= 45 /\ model = "knn"    -> 26
      [] hurst >= 56 /\ model = "spline" -> 15
      [] OTHER                           -> 20

HurstFactor(hurst, model) ==
    CASE hurst < 45 /\ model = "spline" -> 26
      [] hurst < 45 /\ model = "knn"    -> 15
      [] hurst > 55 /\ model = "knn"    -> 26
      [] hurst > 55 /\ model = "spline" -> 15
      [] OTHER                          -> 20

(* The way the macro context blows for an asset: 1 up, -1 down, 0 not.     *)
DollarWind(m) == CASE m.dxy = "falling" -> 1 [] m.dxy = "rising" -> -1 [] OTHER -> 0
RiskWind(m) ==
    CASE m.sentiment = "risk_on" -> 1 [] m.sentiment = "risk_off" -> -1 [] OTHER -> 0

(* Mutated form: a short in equity gets no macro factor. *)
AppWindOneSided(s, m) ==
    CASE s.class \in {"metals", "gold"}                              -> DollarWind(m)
      [] s.class \in {"equity", "index", "futures", "crypto", "perpetual"}
            /\ s.direction = 1                                       -> RiskWind(m)
      [] OTHER                                                       -> 0

AppWind(s, m) ==
    CASE s.class \in {"metals", "gold"}                              -> DollarWind(m)
      [] s.class \in {"equity", "index", "futures"}                  -> RiskWind(m)
      [] s.class \in {"crypto", "perpetual"} /\ s.direction = 1      -> RiskWind(m)
      [] OTHER                                                       -> 0

(* Mutated form: the direction of the crypto signal is not looked at. *)
LegacyWindAnyDirection(s, m) ==
    IF s.class \notin {"crypto", "perpetual", "spot_crypto"} THEN AppWind(s, m)
    ELSE CASE m.sentiment = "risk_on" /\ m.vix = "normal" -> 1
           [] m.sentiment = "risk_off"                     -> -1
           [] OTHER                                        -> 0

LegacyWind(s, m) ==
    IF s.class \notin {"crypto", "perpetual", "spot_crypto"} THEN AppWind(s, m)
    ELSE CASE s.direction = 1 /\ m.sentiment = "risk_on" /\ m.vix = "normal" -> 1
           [] m.sentiment = "risk_off"                                       -> -1
           [] OTHER                                                          -> 0

(* Aligned with the wind is 1.2, against it 0.8. *)
MacroFactor(s, wind) == Unit + 4 * s.direction * wind

Cube == Unit * Unit * Unit

Unclamped(s, wind) ==
    IofFactor(s.iof) * MacroFactor(s, wind) * HurstFactor(s.hurst, s.model)

Likelihood(s, wind) == Clamp((3 * Cube) \div 10, 3 * Cube, Unclamped(s, wind))

(* Mutated form: the floor is even odds. *)
AboveFloorOfHalf(prior, likelihood) ==
    prior[1] * likelihood > (prior[2] - prior[1]) * Cube

(* posterior > floor, with the divisions of the odds form multiplied out.  *)
(* Its clamp to [0.0001, 0.9999] cannot change the comparison.             *)
AboveFloor(prior, likelihood) ==
    (Rate - FloorRate) * prior[1] * likelihood
        > FloorRate * (prior[2] - prior[1]) * Cube

(* Mutated form: gold takes the place of metals. *)
RoutingTargetMetalsless(class) ==
    CASE class \in {"equity", "forex", "gold", "futures", "index"} -> "IBKR_TWS"
      [] class \in {"crypto", "perpetual", "spot_crypto"}          -> "BYBIT_V5"
      [] OTHER                                                     -> "none"

RoutingTarget(class) ==
    CASE class \in {"equity", "forex", "metals", "futures", "index"} -> "IBKR_TWS"
      [] class \in {"crypto", "perpetual", "spot_crypto"}            -> "BYBIT_V5"
      [] OTHER                                                       -> "none"

Decide(s, rate, wind) ==
    LET yes == AboveFloor(Prior(rate), Likelihood(s, wind)) IN
    [authorized |-> yes, target |-> IF yes THEN RoutingTarget(s.class) ELSE "none"]

----------------------------------------------------------------------------
Init ==
    /\ signal = NoHistory
    /\ macro = NoHistory
    /\ winRate = NoHistory
    /\ verdict = NoHistory

(* evaluate and evaluate_signal on the same reads. *)
Evaluate ==
    /\ signal = NoHistory
    /\ signal' \in Signal
    /\ macro' \in Macro
    /\ winRate' \in WinRates \cup {NoHistory}
    /\ verdict' = [app    |-> Decide(signal', winRate', AppWind(signal', macro')),
                   legacy |-> Decide(signal', winRate', LegacyWind(signal', macro'))]

Next == Evaluate

Spec == Init /\ [][Next]_vars

----------------------------------------------------------------------------
Evaluated == signal /= NoHistory
Generations == {"app", "legacy"}
Wind(g) == IF g = "app" THEN AppWind(signal, macro) ELSE LegacyWind(signal, macro)

TypeOK ==
    \/ ~Evaluated
    \/ /\ signal \in Signal
       /\ macro \in Macro
       /\ winRate \in WinRates \cup {NoHistory}
       /\ verdict \in [Generations -> Verdict]

(* All three factors confirm the signal: strong order flow, an aligned     *)
(* macro context and the regime of its model; or all three oppose it.      *)
Confirmed(g) ==
    /\ signal.iof > 80
    /\ signal.direction * Wind(g) = 1
    /\ \/ signal.hurst < 45 /\ signal.model = "spline"
       \/ signal.hurst > 55 /\ signal.model = "knn"

Opposed(g) ==
    /\ signal.iof < 30
    /\ signal.direction * Wind(g) = -1
    /\ \/ signal.hurst < 45 /\ signal.model = "knn"
       \/ signal.hurst > 55 /\ signal.model = "spline"

(* A desk without a history is authorized only when all three factors      *)
(* confirm the signal at once. Two of them do not reach the floor from     *)
(* even odds (_compute_likelihood, posterior_floor).                       *)
ColdSignalNeedsAll ==
    \A g \in Generations :
        Evaluated /\ winRate = NoHistory /\ verdict[g].authorized => Confirmed(g)

(* Evidence decides between a win rate of 6950/14087 (49.34%) and one of   *)
(* 6950/8231 (84.44%). A desk at most at the first is never authorized,    *)
(* one above the second always; in between, a signal that everything       *)
(* confirms is authorized and one that everything opposes is rejected.     *)
RecordDecides ==
    \A g \in Generations :
        Evaluated /\ winRate /= NoHistory =>
            LET mayPass == 14087 * winRate[1] > 6950 * winRate[2]
                mustPass == 8231 * winRate[1] > 6950 * winRate[2]
            IN  /\ verdict[g].authorized => mayPass
                /\ mustPass => verdict[g].authorized
                /\ mayPass /\ Confirmed(g) => verdict[g].authorized
                /\ verdict[g].authorized /\ Opposed(g) => mustPass

(* More order flow or a better record never turns an authorized signal     *)
(* into a rejected one, in spite of the thresholds and the clamps.         *)
NoWorse(rate, than) == rate[1] * than[2] >= than[1] * rate[2]

EvidenceMonotone ==
    \A g \in Generations :
        Evaluated /\ verdict[g].authorized =>
            /\ \A iof \in IofLevels : iof >= signal.iof =>
                 Decide([signal EXCEPT !.iof = iof], winRate, Wind(g)).authorized
            /\ \A rate \in WinRates : winRate /= NoHistory /\ NoWorse(rate, winRate) =>
                 Decide(signal, rate, Wind(g)).authorized

(* The two generations agree, but for crypto: spot_crypto has no macro     *)
(* factor in the app, elevated volatility takes the older one's tail wind  *)
(* away, and only the older one credits a short in a risk-off market.      *)
GenerationsAgree ==
    Evaluated /\ verdict["app"] /= verdict["legacy"] =>
        /\ RoutingTarget(signal.class) = "BYBIT_V5"
        /\ macro.sentiment /= "neutral"
        /\ \/ signal.class = "spot_crypto"
           \/ signal.direction = 1 /\ macro.vix = "elevated" /\ verdict["app"].authorized
           \/ signal.direction = -1 /\ macro.sentiment = "risk_off"
                                    /\ verdict["legacy"].authorized

(* A short is judged in a falling market as a long is in a rising one: the *)
(* mirrored signal in the mirrored context gets the same verdict, except   *)
(* for crypto, where a short never meets head wind.                        *)
Mirrored(trend) ==
    CASE trend = "rising"  -> "falling"  [] trend = "falling"  -> "rising"
      [] trend = "risk_on" -> "risk_off" [] trend = "risk_off" -> "risk_on"
      [] OTHER             -> trend

ShortsMirrorLongs ==
    LET s == [signal EXCEPT !.direction = -signal.direction]
        m == [macro EXCEPT !.dxy = Mirrored(@), !.sentiment = Mirrored(@)]
    IN  Evaluated /\ RoutingTarget(signal.class) /= "BYBIT_V5" =>
            Decide(s, winRate, AppWind(s, m)) = verdict["app"]

(* No evidence moves the likelihood to its clamp, so that each factor      *)
(* always counts in full.                                                  *)
ClampNeverBinds ==
    \A g \in Generations :
        Evaluated => Likelihood(signal, Wind(g)) = Unclamped(signal, Wind(g))

(* A signal that is authorized with no broker to route it to is, without a *)
(* history, one on gold: the macro factor knows that class, the routing    *)
(* map does not. The worker queues the trade all the same.                 *)
ColdUnroutedIsGold ==
    \A g \in Generations :
        /\ Evaluated /\ winRate = NoHistory
        /\ verdict[g].authorized /\ verdict[g].target = "none"
        => signal.class = "gold"

(* What a verdict rests on: the evidence and the record, in the way that   *)
(* the thresholds say, in both directions and in both generations.         *)
EvidenceDecides ==
    /\ ColdSignalNeedsAll
    /\ RecordDecides
    /\ EvidenceMonotone
    /\ GenerationsAgree
    /\ ShortsMirrorLongs
    /\ ClampNeverBinds
    /\ ColdUnroutedIsGold
============================================================================
