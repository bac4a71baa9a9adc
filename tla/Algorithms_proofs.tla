-------------------------- MODULE Algorithms_proofs --------------------------
(* Theorems about the five algorithms of MCAlgorithms, for every value of  *)
(* their constants: Arbiter (A), BatchOrders (B), Sizing (S), WalkForward  *)
(* (W) and VolumeWalk (V).                                                 *)
EXTENDS MCAlgorithms, FiniteSetTheorems, WellFoundedInduction, TLAPS

(* Each algorithm takes its own steps or none.                             *)
LEMMA AlgorithmsRun == Spec => A!Spec /\ S!Spec /\ B!Spec /\ W!Spec /\ V!Spec
<1>1. Init => A!Init /\ S!Init /\ B!Init /\ W!Init /\ V!Init
  BY DEF Init
<1>2. [Next]_vars => [A!Next]_(A!vars)
  BY DEF Next, vars, A!Next, A!vars, arbiterVars
<1>3. [Next]_vars => [S!Next]_(S!vars)
  BY DEF Next, vars, S!Next, S!vars, sizingVars
<1>4. [Next]_vars => [B!Next]_(B!vars)
  BY DEF Next, vars, B!Next, B!vars, batchVars
<1>5. [Next]_vars => [W!Next]_(W!vars)
  BY DEF Next, vars, W!Next, W!vars, wfoVars
<1>6. [Next]_vars => [V!Next]_(V!vars)
  BY DEF Next, vars, V!Next, V!vars, walkVars
<1> QED
  BY <1>1, <1>2, <1>3, <1>4, <1>5, <1>6, PTL
     DEF Spec, A!Spec, S!Spec, B!Spec, W!Spec, V!Spec

-----------------------------------------------------------------------------
(* Arbiter *)

\* The verdict follows from what was read.
VerdictDecided ==
  A!Evaluated =>
    /\ signal \in A!Signal
    /\ macro \in A!Macro
    /\ winRate \in A!WinRates \cup {None}
    /\ verdict = [app    |-> A!Decide(signal, winRate, A!AppWind(signal, macro)),
                  legacy |-> A!Decide(signal, winRate, A!LegacyWind(signal, macro))]

LEMMA VerdictDecidedAlways == A!Spec => []VerdictDecided
<1>1. A!Init => VerdictDecided
  BY DEF A!Init, VerdictDecided, A!Evaluated
<1>2. VerdictDecided /\ [A!Next]_(A!vars) => VerdictDecided'
  BY DEF VerdictDecided, A!Next, A!vars, A!Evaluate, A!Evaluated
<1> QED
  BY <1>1, <1>2, PTL DEF A!Spec

LEMMA WinRange ==
  ASSUME NEW s, NEW m
  PROVE  A!AppWind(s, m) \in {-1, 0, 1} /\ A!LegacyWind(s, m) \in {-1, 0, 1}
BY DEF A!AppWind, A!LegacyWind, A!DollarWind, A!RiskWind

Regime(s) ==
  \/ s.hurst < 45 /\ s.model = "spline"
  \/ s.hurst > 55 /\ s.model = "knn"

Mismatch(s) ==
  \/ s.hurst < 45 /\ s.model = "knn"
  \/ s.hurst > 55 /\ s.model = "spline"

\* What each factor can be, and which evidence makes it extreme.
LEMMA FactorRange ==
  ASSUME NEW s \in A!Signal, NEW w \in {-1, 0, 1}
  PROVE  /\ A!IofFactor(s.iof) \in {14, 20, 24, 30}
         /\ A!MacroFactor(s, w) \in {16, 20, 24}
         /\ A!HurstFactor(s.hurst, s.model) \in {15, 20, 26}
         /\ A!IofFactor(s.iof) = 30 <=> s.iof > 80
         /\ s.iof < 30 => A!IofFactor(s.iof) = 14
         /\ A!MacroFactor(s, w) = 24 <=> s.direction * w = 1
         /\ s.direction * w = -1 => A!MacroFactor(s, w) = 16
         /\ A!HurstFactor(s.hurst, s.model) = 26 <=> Regime(s)
         /\ Mismatch(s) => A!HurstFactor(s.hurst, s.model) = 15
<1>0. /\ s.iof \in 0..100 /\ s.hurst \in 0..100 /\ s.direction \in {1, -1}
      /\ s.model \in {"spline", "knn", "iof"}
  <2>1. s.iof \in IofLevels /\ s.hurst \in Hursts
        /\ s.direction \in {1, -1} /\ s.model \in {"spline", "knn", "iof"}
    BY DEF A!Signal
  <2>2. IofLevels \subseteq 0..100 /\ Hursts \subseteq 0..100
    BY AlgorithmsAssumption DEF A!ArbiterAssumption
  <2> QED
    BY <2>1, <2>2
<1>1. /\ A!IofFactor(s.iof) \in {14, 20, 24, 30}
      /\ A!IofFactor(s.iof) = 30 <=> s.iof > 80
      /\ s.iof < 30 => A!IofFactor(s.iof) = 14
  BY <1>0 DEF A!IofFactor
<1>2. /\ A!MacroFactor(s, w) \in {16, 20, 24}
      /\ A!MacroFactor(s, w) = 24 <=> s.direction * w = 1
      /\ s.direction * w = -1 => A!MacroFactor(s, w) = 16
  BY <1>0 DEF A!MacroFactor, A!Unit
<1>3. /\ A!HurstFactor(s.hurst, s.model) \in {15, 20, 26}
      /\ Mismatch(s) => A!HurstFactor(s.hurst, s.model) = 15
  BY <1>0 DEF A!HurstFactor, Mismatch
<1>4. A!HurstFactor(s.hurst, s.model) = 26 <=> Regime(s)
  BY <1>0 DEF A!HurstFactor, Regime
<1> QED
  BY <1>1, <1>2, <1>3, <1>4

\* The clamp of the likelihood leaves every product of factors alone.
LEMMA LikelihoodIs ==
  ASSUME NEW s \in A!Signal, NEW w \in {-1, 0, 1}
  PROVE  /\ A!Likelihood(s, w) = A!Unclamped(s, w)
         /\ A!Likelihood(s, w) \in Nat
         /\ 3360 <= A!Likelihood(s, w) /\ A!Likelihood(s, w) <= 18720
         /\ A!Likelihood(s, w) > 15600 =>
              s.iof > 80 /\ s.direction * w = 1 /\ Regime(s)
         /\ s.iof > 80 /\ s.direction * w = 1 /\ Regime(s) =>
              A!Likelihood(s, w) = 18720
         /\ s.iof < 30 /\ s.direction * w = -1 /\ Mismatch(s) =>
              A!Likelihood(s, w) = 3360
<1>1. \A i \in {14, 20, 24, 30}, m \in {16, 20, 24}, h \in {15, 20, 26} :
         /\ i * m * h \in Nat /\ 3360 <= i * m * h /\ i * m * h <= 18720
         /\ i * m * h > 15600 => i = 30 /\ m = 24 /\ h = 26
         /\ i = 30 /\ m = 24 /\ h = 26 => i * m * h = 18720
         /\ i = 14 /\ m = 16 /\ h = 15 => i * m * h = 3360
  OBVIOUS
<1>2. PICK u : u = A!Unclamped(s, w)
  OBVIOUS
<1>3. /\ u \in Nat /\ 3360 <= u /\ u <= 18720
      /\ u > 15600 => s.iof > 80 /\ s.direction * w = 1 /\ Regime(s)
      /\ s.iof > 80 /\ s.direction * w = 1 /\ Regime(s) => u = 18720
      /\ s.iof < 30 /\ s.direction * w = -1 /\ Mismatch(s) => u = 3360
  <2>1. PICK i \in {14, 20, 24, 30} : i = A!IofFactor(s.iof)
    BY FactorRange
  <2>2. PICK m \in {16, 20, 24} : m = A!MacroFactor(s, w)
    BY FactorRange
  <2>3. PICK h \in {15, 20, 26} : h = A!HurstFactor(s.hurst, s.model)
    BY FactorRange
  <2>4. u = i * m * h
    BY <1>2, <2>1, <2>2, <2>3 DEF A!Unclamped
  <2>5. /\ i * m * h \in Nat /\ 3360 <= i * m * h /\ i * m * h <= 18720
        /\ i * m * h > 15600 => i = 30 /\ m = 24 /\ h = 26
        /\ i = 30 /\ m = 24 /\ h = 26 => i * m * h = 18720
        /\ i = 14 /\ m = 16 /\ h = 15 => i * m * h = 3360
    BY <1>1
  <2>6. /\ i = 30 <=> s.iof > 80
        /\ m = 24 <=> s.direction * w = 1
        /\ h = 26 <=> Regime(s)
        /\ s.iof < 30 => i = 14
        /\ s.direction * w = -1 => m = 16
        /\ Mismatch(s) => h = 15
    BY <2>1, <2>2, <2>3, FactorRange
  <2> QED
    BY <2>4, <2>5, <2>6
<1>4. \A n \in Nat : 3360 <= n /\ n <= 18720 =>
         A!Clamp((3 * A!Cube) \div 10, 3 * A!Cube, n) = n
  BY DEF A!Clamp, A!Cube, A!Unit
<1>5. A!Likelihood(s, w) = A!Unclamped(s, w)
  BY <1>2, <1>3, <1>4 DEF A!Likelihood
<1> QED
  BY <1>2, <1>3, <1>5

\* Win rates and priors are fractions between 0 and 1.
Fractions == {f \in Nat \X Nat : f[2] > 0 /\ f[1] <= f[2]}

LEMMA FractionIs ==
  ASSUME NEW n \in Nat, NEW d \in Nat, d > 0, n <= d
  PROVE  <<n, d>> \in Fractions /\ <<n, d>>[1] = n /\ <<n, d>>[2] = d
BY DEF Fractions

LEMMA WinRateIs ==
  ASSUME NEW rate \in A!WinRates
  PROVE  rate \in Fractions /\ rate /= None
<1>1. rate \in Wins \X Totals /\ rate[1] <= rate[2]
  BY DEF A!WinRates
<1>2. /\ \A n \in Wins : n \in Nat
      /\ \A n \in Totals : n \in Nat /\ n > 0
      /\ None \notin A!WinRates
  BY AlgorithmsAssumption DEF A!ArbiterAssumption
<1>3. PICK n \in Wins, d \in Totals : rate = <<n, d>>
  BY <1>1
<1>4. n \in Nat /\ d \in Nat /\ d > 0 /\ n <= d
  BY <1>1, <1>2, <1>3
<1>5. rate \in Fractions
  BY <1>3, <1>4, FractionIs
<1> QED
  BY <1>2, <1>5

\* The clamp keeps a win rate on its side of 6950/14087 and of 6950/8231.
LEMMA PriorRange ==
  ASSUME NEW rate \in A!WinRates \cup {None}
  PROVE  /\ A!Prior(rate) \in Fractions
         /\ rate = None => A!Prior(rate) = <<1, 2>>
         /\ rate /= None =>
              /\ 14087 * A!Prior(rate)[1] > 6950 * A!Prior(rate)[2]
                   <=> 14087 * rate[1] > 6950 * rate[2]
              /\ 8231 * A!Prior(rate)[1] > 6950 * A!Prior(rate)[2]
                   <=> 8231 * rate[1] > 6950 * rate[2]
<1>0. <<1, 2>> \in Fractions /\ <<1, 20>> \in Fractions /\ <<19, 20>> \in Fractions
  BY FractionIs
<1>1. CASE rate = None
  BY <1>0, <1>1 DEF A!Prior
<1>2. CASE rate /= None
  <2>1. rate \in Fractions /\ rate[1] \in Nat /\ rate[2] \in Nat
    BY <1>2, WinRateIs DEF Fractions
  <2>2. PICK n \in Nat, d \in Nat : n = rate[1] /\ d = rate[2]
    BY <2>1
  <2>3. CASE 20 * n < d
    <3>1. A!Prior(rate) = <<1, 20>>
      BY <1>2, <2>2, <2>3 DEF A!Prior
    <3> QED
      BY <1>0, <1>2, <2>2, <2>3, <3>1
  <2>4. CASE ~(20 * n < d) /\ 20 * n > 19 * d
    <3>1. A!Prior(rate) = <<19, 20>>
      BY <1>2, <2>2, <2>4 DEF A!Prior
    <3> QED
      BY <1>0, <1>2, <2>2, <2>4, <3>1
  <2>5. CASE ~(20 * n < d) /\ ~(20 * n > 19 * d)
    <3>1. A!Prior(rate) = rate
      BY <1>2, <2>2, <2>5 DEF A!Prior
    <3> QED
      BY <1>2, <2>1, <3>1
  <2> QED
    BY <2>3, <2>4, <2>5
<1> QED
  BY <1>1, <1>2

LEMMA ProductMonotone ==
  ASSUME NEW a \in Nat, NEW b \in Nat, NEW c \in Nat, NEW d \in Nat, a <= b, c <= d
  PROVE  a * c <= b * d
<1>1. a * c <= b * c
  OBVIOUS
<1>2. b * c <= b * d
  OBVIOUS
<1> QED
  BY <1>1, <1>2

\* The comparison with the floor, and that it is monotone.
LEMMA FloorIs ==
  \A p \in Fractions, l \in Nat :
    A!AboveFloor(p, l) <=> 61 * (p[1] * l) > 1112000 * (p[2] - p[1])
BY DEF A!AboveFloor, A!Rate, A!FloorRate, A!Cube, A!Unit, Fractions

LEMMA CancelFactor ==
  ASSUME NEW n \in Nat, NEW x \in Int, NEW y \in Int, n * x < n * y
  PROVE  x < y
<1>1. ASSUME y <= x PROVE n * y <= n * x
  BY <1>1
<1>2. n * x \in Int /\ n * y \in Int
  OBVIOUS
<1> QED
  BY <1>1, <1>2

LEMMA FloorMonotone ==
  ASSUME NEW p \in Fractions, NEW l \in Nat, NEW q \in Fractions, NEW k \in Nat,
         A!NoWorse(q, p), l <= k, A!AboveFloor(p, l)
  PROVE  A!AboveFloor(q, k)
<1>1. PICK a \in Nat, b \in Nat, c \in Nat, d \in Nat :
         a = p[1] /\ b = p[2] /\ c = q[1] /\ d = q[2]
  BY DEF Fractions
<1>2. a <= b /\ b > 0 /\ c <= d /\ d > 0
  BY <1>1 DEF Fractions
<1>3. c * b >= a * d
  BY <1>1 DEF A!NoWorse
<1>4. 61 * (a * l) > 1112000 * (b - a)
  BY <1>1, FloorIs
<1>5. PICK x \in Nat, y \in Nat, z \in Nat : x = a * d /\ y = c * b /\ z = b * d
  BY <1>1
<1>6. 61 * (x * l) > 1112000 * (z - x)
  <2>1. PICK m \in Nat : m = a * l
    OBVIOUS
  <2>2. d * (1112000 * (b - a)) < d * (61 * m)
    BY <1>2, <1>4, <2>1
  <2>3. d * (61 * m) = 61 * (x * l)
    BY <1>5, <2>1
  <2>4. d * (1112000 * (b - a)) = 1112000 * (z - x)
    BY <1>5
  <2> QED
    BY <2>2, <2>3, <2>4
<1>7. x * l <= y * k
  BY <1>3, <1>5, ProductMonotone
<1>8. 61 * (y * k) > 1112000 * (z - y)
  <2>1. PICK m \in Nat, n \in Nat : m = x * l /\ n = y * k
    OBVIOUS
  <2> QED
    BY <1>3, <1>5, <1>6, <1>7, <2>1
<1>9. b * (1112000 * (d - c)) < b * (61 * (c * k))
  <2>1. b * (61 * (c * k)) = 61 * (y * k)
    BY <1>5
  <2>2. b * (1112000 * (d - c)) = 1112000 * (z - y)
    BY <1>5
  <2> QED
    BY <1>8, <2>1, <2>2
<1>10. 1112000 * (d - c) < 61 * (c * k)
  <2>1. PICK m \in Int, n \in Int : m = 1112000 * (d - c) /\ n = 61 * (c * k)
    OBVIOUS
  <2> QED
    BY <1>9, <2>1, CancelFactor
<1> QED
  BY <1>1, <1>10, FloorIs

LEMMA NoWorseItself == \A p \in Fractions : A!NoWorse(p, p)
BY DEF A!NoWorse, Fractions

LEMMA FloorAtEvenOdds ==
  ASSUME NEW l \in Nat, A!AboveFloor(<<1, 2>>, l)
  PROVE  l > 15600
<1>1. <<1, 2>> \in Fractions
  BY FractionIs
<1>2. 61 * (1 * l) > 1112000 * (2 - 1)
  BY <1>1, FloorIs
<1> QED
  BY <1>2

\* What the extreme likelihoods make of a prior.
LEMMA FloorAtExtremes ==
  ASSUME NEW p \in Fractions
  PROVE  /\ A!AboveFloor(p, 18720) <=> 14087 * p[1] > 6950 * p[2]
         /\ A!AboveFloor(p, 3360) <=> 8231 * p[1] > 6950 * p[2]
<1>1. PICK n \in Nat, d \in Nat : n = p[1] /\ d = p[2]
  BY DEF Fractions
<1>2. 61 * (n * 18720) > 1112000 * (d - n) <=> 14087 * n > 6950 * d
  OBVIOUS
<1>3. 61 * (n * 3360) > 1112000 * (d - n) <=> 8231 * n > 6950 * d
  OBVIOUS
<1> QED
  BY <1>1, <1>2, <1>3, FloorIs

\* The verdict of one generation, read off its wind.
LEMMA VerdictIs ==
  ASSUME VerdictDecided, A!Evaluated, NEW g \in A!Generations
  PROVE  /\ A!Wind(g) \in {-1, 0, 1}
         /\ verdict[g] = A!Decide(signal, winRate, A!Wind(g))
         /\ verdict[g].authorized
              <=> A!AboveFloor(A!Prior(winRate), A!Likelihood(signal, A!Wind(g)))
<1>1. A!Wind(g) \in {-1, 0, 1}
  BY WinRange DEF A!Wind
<1>2. verdict[g] = A!Decide(signal, winRate, A!Wind(g))
  BY DEF VerdictDecided, A!Generations, A!Wind
<1>3. A!Decide(signal, winRate, A!Wind(g)).authorized
        <=> A!AboveFloor(A!Prior(winRate), A!Likelihood(signal, A!Wind(g)))
  BY DEF A!Decide
<1> QED
  BY <1>1, <1>2, <1>3

LEMMA ConfirmedIs ==
  ASSUME NEW g
  PROVE  /\ A!Confirmed(g) <=> /\ signal.iof > 80
                               /\ signal.direction * A!Wind(g) = 1
                               /\ Regime(signal)
         /\ A!Opposed(g) => /\ signal.iof < 30
                            /\ signal.direction * A!Wind(g) = -1
                            /\ Mismatch(signal)
BY DEF A!Confirmed, A!Opposed, Regime, Mismatch

LEMMA ColdNeedsAll ==
  ASSUME VerdictDecided, A!Evaluated, winRate = None, NEW g \in A!Generations,
         verdict[g].authorized
  PROVE  A!Confirmed(g)
<1> DEFINE w == A!Wind(g)
<1>0. signal \in A!Signal /\ w \in {-1, 0, 1}
  BY VerdictIs DEF VerdictDecided
<1>1. A!Prior(winRate) = <<1, 2>>
  BY PriorRange
<1>2. A!Likelihood(signal, w) \in Nat
  BY <1>0, LikelihoodIs
<1>3. A!Likelihood(signal, w) > 15600
  BY <1>1, <1>2, VerdictIs, FloorAtEvenOdds
<1> QED
  BY <1>0, <1>3, LikelihoodIs, ConfirmedIs

LEMMA RecordDecidesAll ==
  ASSUME VerdictDecided, A!Evaluated, winRate /= None, NEW g \in A!Generations
  PROVE  /\ verdict[g].authorized => 14087 * winRate[1] > 6950 * winRate[2]
         /\ 8231 * winRate[1] > 6950 * winRate[2] => verdict[g].authorized
         /\ 14087 * winRate[1] > 6950 * winRate[2] /\ A!Confirmed(g)
              => verdict[g].authorized
         /\ verdict[g].authorized /\ A!Opposed(g)
              => 8231 * winRate[1] > 6950 * winRate[2]
<1> DEFINE l == A!Likelihood(signal, A!Wind(g))
           p == A!Prior(winRate)
<1>0. signal \in A!Signal /\ A!Wind(g) \in {-1, 0, 1} /\ winRate \in A!WinRates \cup {None}
  BY VerdictIs DEF VerdictDecided
<1>1. /\ l \in Nat /\ 3360 <= l /\ l <= 18720
      /\ A!Confirmed(g) => l = 18720
      /\ A!Opposed(g) => l = 3360
  BY <1>0, LikelihoodIs, ConfirmedIs
<1>2. /\ p \in Fractions
      /\ 14087 * p[1] > 6950 * p[2] <=> 14087 * winRate[1] > 6950 * winRate[2]
      /\ 8231 * p[1] > 6950 * p[2] <=> 8231 * winRate[1] > 6950 * winRate[2]
  BY <1>0, PriorRange
<1>3. verdict[g].authorized <=> A!AboveFloor(p, l)
  BY VerdictIs
<1> HIDE DEF l, p
<1>4. /\ A!AboveFloor(p, l) => A!AboveFloor(p, 18720)
      /\ A!AboveFloor(p, 3360) => A!AboveFloor(p, l)
  BY <1>1, <1>2, FloorMonotone, NoWorseItself
<1>5. /\ A!AboveFloor(p, 18720) <=> 14087 * p[1] > 6950 * p[2]
      /\ A!AboveFloor(p, 3360) <=> 8231 * p[1] > 6950 * p[2]
  BY <1>2, FloorAtExtremes
<1> QED
  BY <1>1, <1>2, <1>3, <1>4, <1>5

\* A larger factor makes a larger likelihood, other things being equal.
LEMMA LikelihoodMonotone ==
  ASSUME NEW s \in A!Signal, NEW v \in {-1, 0, 1},
         NEW t \in A!Signal, NEW w \in {-1, 0, 1},
         A!IofFactor(s.iof) <= A!IofFactor(t.iof),
         A!MacroFactor(s, v) <= A!MacroFactor(t, w),
         A!HurstFactor(s.hurst, s.model) = A!HurstFactor(t.hurst, t.model)
  PROVE  A!Likelihood(s, v) <= A!Likelihood(t, w)
<1>1. PICK i \in {14, 20, 24, 30} : i = A!IofFactor(s.iof)
  BY FactorRange
<1>2. PICK m \in {16, 20, 24} : m = A!MacroFactor(s, v)
  BY FactorRange
<1>3. PICK h \in {15, 20, 26} : h = A!HurstFactor(s.hurst, s.model)
  BY FactorRange
<1>4. PICK j \in {14, 20, 24, 30} : j = A!IofFactor(t.iof)
  BY FactorRange
<1>5. PICK n \in {16, 20, 24} : n = A!MacroFactor(t, w)
  BY FactorRange
<1>6. A!Unclamped(s, v) = i * m * h /\ A!Unclamped(t, w) = j * n * h
  BY <1>1, <1>2, <1>3, <1>4, <1>5 DEF A!Unclamped
<1>7. i <= j /\ m <= n
  BY <1>1, <1>2, <1>4, <1>5
<1>8. i * m * h <= j * n * h
  <2>0. i \in Nat /\ m \in Nat /\ j \in Nat /\ n \in Nat /\ h \in Nat
    OBVIOUS
  <2>1. i * m \in Nat /\ j * n \in Nat /\ h \in Nat
    BY <2>0
  <2>2. i * m <= j * n
    BY <1>7, <2>0, ProductMonotone
  <2>3. h <= h
    BY <2>1
  <2> QED
    BY <2>1, <2>2, <2>3, ProductMonotone
<1> QED
  BY <1>6, <1>8, LikelihoodIs

LEMMA AuthorizedMonotone ==
  ASSUME NEW s \in A!Signal, NEW v \in {-1, 0, 1}, NEW rate \in A!WinRates \cup {None},
         NEW t \in A!Signal, NEW w \in {-1, 0, 1}, NEW better \in A!WinRates \cup {None},
         A!Likelihood(s, v) <= A!Likelihood(t, w),
         A!NoWorse(A!Prior(better), A!Prior(rate)),
         A!Decide(s, rate, v).authorized
  PROVE  A!Decide(t, better, w).authorized
<1>1. A!Likelihood(s, v) \in Nat /\ A!Likelihood(t, w) \in Nat
  BY LikelihoodIs
<1>2. A!Prior(rate) \in Fractions /\ A!Prior(better) \in Fractions
  BY PriorRange
<1>3. A!AboveFloor(A!Prior(rate), A!Likelihood(s, v))
  BY DEF A!Decide
<1>4. A!AboveFloor(A!Prior(better), A!Likelihood(t, w))
  BY <1>1, <1>2, <1>3, FloorMonotone
<1> QED
  BY <1>4 DEF A!Decide

\* The clamp keeps the order of the win rates.
LEMMA PriorMonotone ==
  ASSUME NEW rate \in A!WinRates, NEW better \in A!WinRates, A!NoWorse(better, rate)
  PROVE  A!NoWorse(A!Prior(better), A!Prior(rate))
<1>1. rate \in Fractions /\ better \in Fractions /\ rate /= None /\ better /= None
  BY WinRateIs
<1>2. PICK a \in Nat, b \in Nat, c \in Nat, d \in Nat :
         a = rate[1] /\ b = rate[2] /\ c = better[1] /\ d = better[2]
  BY <1>1 DEF Fractions
<1>3. b > 0 /\ d > 0 /\ c * b >= a * d
  BY <1>1, <1>2 DEF A!NoWorse, Fractions
<1>4. A!Prior(rate) = IF 20 * a < b THEN <<1, 20>>
                      ELSE IF 20 * a > 19 * b THEN <<19, 20>> ELSE rate
  BY <1>1, <1>2 DEF A!Prior
<1>5. A!Prior(better) = IF 20 * c < d THEN <<1, 20>>
                        ELSE IF 20 * c > 19 * d THEN <<19, 20>> ELSE better
  BY <1>1, <1>2 DEF A!Prior
<1>6. PICK x \in Nat, y \in Nat, z \in Nat : x = c * b /\ y = a * d /\ z = b * d
  OBVIOUS
<1>7. ASSUME 20 * c < d PROVE 20 * a < b
  <2>1. 20 * x < z
    <3>1. b * (20 * c) < b * d
      BY <1>3, <1>7
    <3> QED
      BY <1>6, <3>1
  <2>2. d * (20 * a) < d * b
    <3>1. 20 * y < z
      BY <1>3, <1>6, <2>1
    <3> QED
      BY <1>6, <3>1
  <2> QED
    BY <2>2, CancelFactor
<1>8. ASSUME 20 * a > 19 * b PROVE 20 * c > 19 * d
  <2>1. 19 * z < 20 * y
    <3>1. d * (19 * b) < d * (20 * a)
      BY <1>3, <1>8
    <3> QED
      BY <1>6, <3>1
  <2>2. b * (19 * d) < b * (20 * c)
    <3>1. 19 * z < 20 * x
      BY <1>3, <1>6, <2>1
    <3> QED
      BY <1>6, <3>1
  <2> QED
    BY <2>2, CancelFactor
<1> QED
  BY <1>1, <1>2, <1>3, <1>4, <1>5, <1>7, <1>8 DEF A!NoWorse

LEMMA LevelsRange ==
  \A iof \in IofLevels : iof \in 0..100
BY AlgorithmsAssumption DEF A!ArbiterAssumption

LEMMA EvidenceIsMonotone ==
  ASSUME VerdictDecided
  PROVE  A!EvidenceMonotone
<1> SUFFICES ASSUME A!Evaluated, NEW g \in A!Generations, verdict[g].authorized
    PROVE  /\ \A iof \in IofLevels : iof >= signal.iof =>
                A!Decide([signal EXCEPT !.iof = iof], winRate, A!Wind(g)).authorized
           /\ \A rate \in A!WinRates : winRate /= None /\ A!NoWorse(rate, winRate) =>
                A!Decide(signal, rate, A!Wind(g)).authorized
  BY DEF A!EvidenceMonotone
<1>0. /\ signal \in A!Signal /\ A!Wind(g) \in {-1, 0, 1} /\ winRate \in A!WinRates \cup {None}
      /\ A!Decide(signal, winRate, A!Wind(g)).authorized
  BY VerdictIs DEF VerdictDecided
<1>1. ASSUME NEW iof \in IofLevels, iof >= signal.iof
      PROVE  A!Decide([signal EXCEPT !.iof = iof], winRate, A!Wind(g)).authorized
  <2>1. PICK t : t = [signal EXCEPT !.iof = iof]
    OBVIOUS
  <2>2. /\ t \in A!Signal /\ t.iof = iof /\ t.direction = signal.direction
        /\ t.hurst = signal.hurst /\ t.model = signal.model
    BY <1>0, <2>1 DEF A!Signal
  <2>3. iof \in 0..100 /\ signal.iof \in 0..100
    <3>1. signal.iof \in IofLevels
      BY <1>0 DEF A!Signal
    <3> QED
      BY <3>1, LevelsRange
  <2>4. A!IofFactor(signal.iof) <= A!IofFactor(iof)
    BY <1>1, <2>3 DEF A!IofFactor
  <2>5. A!MacroFactor(signal, A!Wind(g)) = A!MacroFactor(t, A!Wind(g))
    BY <2>2 DEF A!MacroFactor
  <2>6. A!MacroFactor(signal, A!Wind(g)) \in {16, 20, 24}
    BY <1>0, FactorRange
  <2>7. A!Likelihood(signal, A!Wind(g)) <= A!Likelihood(t, A!Wind(g))
    BY <1>0, <2>2, <2>4, <2>5, <2>6, LikelihoodMonotone
  <2>8. A!NoWorse(A!Prior(winRate), A!Prior(winRate))
    BY <1>0, PriorRange, NoWorseItself
  <2> QED
    BY <1>0, <2>1, <2>2, <2>7, <2>8, AuthorizedMonotone
<1>2. ASSUME NEW rate \in A!WinRates, winRate /= None, A!NoWorse(rate, winRate)
      PROVE  A!Decide(signal, rate, A!Wind(g)).authorized
  <2>1. A!NoWorse(A!Prior(rate), A!Prior(winRate))
    BY <1>0, <1>2, PriorMonotone
  <2>2. A!Likelihood(signal, A!Wind(g)) <= A!Likelihood(signal, A!Wind(g))
    BY <1>0, LikelihoodIs
  <2> QED
    BY <1>0, <2>1, <2>2, AuthorizedMonotone
<1> QED
  BY <1>1, <1>2

\* The two generations differ in the macro factor only, and in what a
\* crypto signal gets of it.
LEMMA WindsAgree ==
  ASSUME NEW s \in A!Signal, NEW m \in A!Macro, A!AppWind(s, m) /= A!LegacyWind(s, m)
  PROVE  /\ A!RoutingTarget(s.class) = "BYBIT_V5"
         /\ m.sentiment /= "neutral"
         /\ \/ s.class = "spot_crypto"
            \/ /\ s.direction = 1 /\ m.vix = "elevated"
               /\ A!AppWind(s, m) = 1 /\ A!LegacyWind(s, m) = 0
            \/ /\ s.direction = -1 /\ m.sentiment = "risk_off"
               /\ A!AppWind(s, m) = 0 /\ A!LegacyWind(s, m) = -1
<1>0. /\ s.direction \in {1, -1} /\ m.sentiment \in {"risk_on", "risk_off", "neutral"}
      /\ m.vix \in {"normal", "elevated"}
  BY DEF A!Signal, A!Macro
<1>1. s.class \in {"crypto", "perpetual", "spot_crypto"}
  BY DEF A!LegacyWind
<1>2. CASE s.class = "spot_crypto"
  BY <1>0, <1>2 DEF A!AppWind, A!LegacyWind, A!RoutingTarget
<1>3. CASE s.class \in {"crypto", "perpetual"} /\ s.direction = 1
  <2>1. A!AppWind(s, m) = A!RiskWind(m)
    BY <1>3 DEF A!AppWind
  <2> QED
    BY <1>0, <1>3, <2>1 DEF A!RiskWind, A!LegacyWind, A!RoutingTarget
<1>4. CASE s.class \in {"crypto", "perpetual"} /\ s.direction = -1
  <2>1. A!AppWind(s, m) = 0
    BY <1>4 DEF A!AppWind
  <2> QED
    BY <1>0, <1>4, <2>1 DEF A!LegacyWind, A!RoutingTarget
<1> QED
  BY <1>0, <1>1, <1>2, <1>3, <1>4

LEMMA GenerationsDoAgree ==
  ASSUME VerdictDecided
  PROVE  A!GenerationsAgree
<1> SUFFICES ASSUME A!Evaluated, verdict["app"] /= verdict["legacy"]
    PROVE  /\ A!RoutingTarget(signal.class) = "BYBIT_V5"
           /\ macro.sentiment /= "neutral"
           /\ \/ signal.class = "spot_crypto"
              \/ signal.direction = 1 /\ macro.vix = "elevated" /\ verdict["app"].authorized
              \/ signal.direction = -1 /\ macro.sentiment = "risk_off"
                                       /\ verdict["legacy"].authorized
  BY DEF A!GenerationsAgree
<1>1. PICK v, w : v = A!AppWind(signal, macro) /\ w = A!LegacyWind(signal, macro)
  OBVIOUS
<1>2. /\ signal \in A!Signal /\ macro \in A!Macro /\ winRate \in A!WinRates \cup {None}
      /\ v \in {-1, 0, 1} /\ w \in {-1, 0, 1}
      /\ verdict["app"] = A!Decide(signal, winRate, v)
      /\ verdict["legacy"] = A!Decide(signal, winRate, w)
  BY <1>1, WinRange DEF VerdictDecided
<1>3. v /= w
  BY <1>2
<1>4. /\ A!RoutingTarget(signal.class) = "BYBIT_V5"
      /\ macro.sentiment /= "neutral"
      /\ \/ signal.class = "spot_crypto"
         \/ /\ signal.direction = 1 /\ macro.vix = "elevated"
            /\ v = 1 /\ w = 0
         \/ /\ signal.direction = -1 /\ macro.sentiment = "risk_off"
            /\ v = 0 /\ w = -1
  BY <1>1, <1>2, <1>3, WindsAgree
<1>5. \/ A!Decide(signal, winRate, v).authorized
      \/ A!Decide(signal, winRate, w).authorized
  <2>1. ASSUME A!AboveFloor(A!Prior(winRate), A!Likelihood(signal, v))
               <=> A!AboveFloor(A!Prior(winRate), A!Likelihood(signal, w))
        PROVE  A!Decide(signal, winRate, v) = A!Decide(signal, winRate, w)
    BY <2>1 DEF A!Decide, A!AboveFloor
  <2>2. A!AboveFloor(A!Prior(winRate), A!Likelihood(signal, v))
          \/ A!AboveFloor(A!Prior(winRate), A!Likelihood(signal, w))
    BY <1>2, <2>1
  <2>3. ASSUME NEW x, A!AboveFloor(A!Prior(winRate), A!Likelihood(signal, x))
        PROVE  A!Decide(signal, winRate, x).authorized
    BY <2>3 DEF A!Decide
  <2> QED
    BY <2>2, <2>3
<1>6. /\ A!NoWorse(A!Prior(winRate), A!Prior(winRate))
      /\ A!IofFactor(signal.iof) <= A!IofFactor(signal.iof)
  <2>1. A!Prior(winRate) \in Fractions /\ A!IofFactor(signal.iof) \in {14, 20, 24, 30}
    BY <1>2, PriorRange, FactorRange
  <2> QED
    BY <2>1, NoWorseItself
<1>7. ASSUME signal.direction = 1, v = 1, w = 0
      PROVE  A!Decide(signal, winRate, v).authorized
  <2>1. A!MacroFactor(signal, w) <= A!MacroFactor(signal, v)
    BY <1>7 DEF A!MacroFactor, A!Unit
  <2>2. A!Likelihood(signal, w) <= A!Likelihood(signal, v)
    BY <1>2, <1>6, <2>1, LikelihoodMonotone
  <2> QED
    BY <1>2, <1>5, <1>6, <2>2, AuthorizedMonotone
<1>8. ASSUME signal.direction = -1, v = 0, w = -1
      PROVE  A!Decide(signal, winRate, w).authorized
  <2>1. A!MacroFactor(signal, v) <= A!MacroFactor(signal, w)
    BY <1>8 DEF A!MacroFactor, A!Unit
  <2>2. A!Likelihood(signal, v) <= A!Likelihood(signal, w)
    BY <1>2, <1>6, <2>1, LikelihoodMonotone
  <2> QED
    BY <1>2, <1>5, <1>6, <2>2, AuthorizedMonotone
<1> QED
  BY <1>2, <1>4, <1>7, <1>8

LEMMA ShortsDoMirrorLongs ==
  ASSUME VerdictDecided
  PROVE  A!ShortsMirrorLongs
<1> SUFFICES ASSUME A!Evaluated, A!RoutingTarget(signal.class) /= "BYBIT_V5",
                    NEW s, s = [signal EXCEPT !.direction = -signal.direction],
                    NEW m, m = [macro EXCEPT !.dxy = A!Mirrored(@),
                                             !.sentiment = A!Mirrored(@)]
    PROVE  A!Decide(s, winRate, A!AppWind(s, m)) = verdict["app"]
  BY DEF A!ShortsMirrorLongs
<1>1. /\ signal \in A!Signal /\ macro \in A!Macro
      /\ verdict["app"] = A!Decide(signal, winRate, A!AppWind(signal, macro))
  BY DEF VerdictDecided
<1>2. /\ s.class = signal.class /\ s.iof = signal.iof /\ s.hurst = signal.hurst
      /\ s.model = signal.model /\ s.direction = -signal.direction
      /\ signal.direction \in {1, -1}
  BY <1>1 DEF A!Signal
<1>3. /\ m.dxy = A!Mirrored(macro.dxy) /\ m.sentiment = A!Mirrored(macro.sentiment)
      /\ macro.dxy \in {"rising", "falling", "neutral"}
      /\ macro.sentiment \in {"risk_on", "risk_off", "neutral"}
  BY <1>1 DEF A!Macro
<1>4. A!DollarWind(m) = -A!DollarWind(macro)
  BY <1>3 DEF A!DollarWind, A!Mirrored
<1>5. A!RiskWind(m) = -A!RiskWind(macro)
  BY <1>3 DEF A!RiskWind, A!Mirrored
<1>6. signal.class \notin {"crypto", "perpetual", "spot_crypto"}
  BY DEF A!RoutingTarget
<1>7. A!AppWind(s, m) = -A!AppWind(signal, macro)
  <2>1. CASE signal.class \in {"metals", "gold"}
    BY <1>2, <1>4, <2>1 DEF A!AppWind
  <2>2. CASE signal.class \in {"equity", "index", "futures"}
    BY <1>2, <1>5, <2>2 DEF A!AppWind
  <2>3. CASE signal.class \notin {"metals", "gold", "equity", "index", "futures"}
    BY <1>2, <1>6, <2>3 DEF A!AppWind
  <2> QED
    BY <2>1, <2>2, <2>3
<1>8. A!AppWind(signal, macro) \in {-1, 0, 1}
  BY WinRange
<1>9. A!MacroFactor(s, A!AppWind(s, m)) = A!MacroFactor(signal, A!AppWind(signal, macro))
  BY <1>2, <1>7, <1>8 DEF A!MacroFactor, A!Unit
<1>10. A!Likelihood(s, A!AppWind(s, m)) = A!Likelihood(signal, A!AppWind(signal, macro))
  BY <1>2, <1>9 DEF A!Likelihood, A!Unclamped
<1>11. A!Decide(s, winRate, A!AppWind(s, m))
          = A!Decide(signal, winRate, A!AppWind(signal, macro))
  <2>1. s.class = signal.class
    BY <1>2
  <2> QED
    BY <2>1, <1>10 DEF A!Decide
<1> QED
  BY <1>1, <1>11

LEMMA UnroutedIsGold ==
  ASSUME VerdictDecided
  PROVE  A!ColdUnroutedIsGold
<1> SUFFICES ASSUME NEW g \in A!Generations, A!Evaluated, winRate = None,
                    verdict[g].authorized, verdict[g].target = "none"
    PROVE  signal.class = "gold"
  BY DEF A!ColdUnroutedIsGold
<1>1. signal.direction * A!Wind(g) = 1
  BY ColdNeedsAll DEF A!Confirmed
<1>2. signal.direction \in {1, -1}
  BY DEF VerdictDecided, A!Signal
<1>3. A!Wind(g) /= 0
  BY <1>1, <1>2
<1>4. A!RoutingTarget(signal.class) = "none"
  <2>1. verdict[g] = A!Decide(signal, winRate, A!Wind(g))
    BY VerdictIs
  <2>2. A!Decide(signal, winRate, A!Wind(g)).authorized =>
          A!Decide(signal, winRate, A!Wind(g)).target = A!RoutingTarget(signal.class)
    BY DEF A!Decide
  <2> QED
    BY <2>1, <2>2
<1>5. signal.class \notin {"equity", "forex", "metals", "futures", "index",
                           "crypto", "perpetual", "spot_crypto"}
  BY <1>4 DEF A!RoutingTarget
<1>6. A!Wind(g) = A!AppWind(signal, macro)
  BY <1>5 DEF A!Wind, A!LegacyWind
<1> QED
  BY <1>3, <1>5, <1>6 DEF A!AppWind

LEMMA VerdictTyped ==
  ASSUME VerdictDecided
  PROVE  A!TypeOK
<1> SUFFICES ASSUME A!Evaluated PROVE verdict \in [A!Generations -> A!Verdict]
  BY DEF A!TypeOK, VerdictDecided
<1>1. ASSUME NEW s, NEW rate, NEW w PROVE A!Decide(s, rate, w) \in A!Verdict
  <2>1. A!RoutingTarget(s.class) \in {"IBKR_TWS", "BYBIT_V5", "none"}
    BY DEF A!RoutingTarget
  <2> QED
    BY <2>1 DEF A!Decide, A!Verdict, A!AboveFloor
<1>2. PICK a, l : /\ a \in A!Verdict /\ l \in A!Verdict
                  /\ verdict = [app |-> a, legacy |-> l]
  BY <1>1 DEF VerdictDecided
<1> QED
  BY <1>2 DEF A!Generations

(* What a verdict rests on is the evidence and the record, in the way that *)
(* the thresholds say: a desk without a history needs all three factors, a *)
(* bad record is never outweighed and a good one always suffices, better   *)
(* evidence never hurts, and the two generations part on crypto only, for  *)
(* any order flow, Hurst exponents, numbers of wins and of signals, and    *)
(* asset classes.                                                          *)
THEOREM EvidenceDecidesTheorem == Spec => []EvidenceDecides
<1>1. VerdictDecided => A!TypeOK /\ A!EvidenceDecides
  <2> SUFFICES ASSUME VerdictDecided PROVE A!TypeOK /\ A!EvidenceDecides
    OBVIOUS
  <2>1. A!ColdSignalNeedsAll
    BY ColdNeedsAll DEF A!ColdSignalNeedsAll
  <2>2. A!RecordDecides
    BY RecordDecidesAll DEF A!RecordDecides
  <2>3. A!ClampNeverBinds
    <3>1. ASSUME A!Evaluated, NEW g \in A!Generations
          PROVE  A!Likelihood(signal, A!Wind(g)) = A!Unclamped(signal, A!Wind(g))
      BY <3>1, VerdictIs, LikelihoodIs DEF VerdictDecided
    <3> QED
      BY <3>1 DEF A!ClampNeverBinds
  <2> QED
    BY <2>1, <2>2, <2>3, VerdictTyped, EvidenceIsMonotone, GenerationsDoAgree,
       ShortsDoMirrorLongs, UnroutedIsGold DEF A!EvidenceDecides
<1> QED
  BY <1>1, AlgorithmsRun, VerdictDecidedAlways, PTL DEF EvidenceDecides
-----------------------------------------------------------------------------
(* BatchOrders *)

LEMMA BatchSizes == BatchMax \in Nat /\ BatchMax > 0 /\ MaxOrders \in Nat
BY AlgorithmsAssumption DEF B!BatchAssumption

\* Quotients by the size of a batch.
LEMMA QuotientIs ==
  ASSUME NEW b \in Nat, b > 0, NEW x \in Nat
  PROVE  /\ x \div b \in Nat
         /\ (x \div b) * b <= x /\ x < (x \div b) * b + b
         /\ \A q \in Nat : q * b <= x /\ x < q * b + b => x \div b = q
OBVIOUS

LEMMA NextMultiple ==
  ASSUME NEW b \in Nat, NEW k \in Nat
  PROVE  /\ k * b \in Nat
         /\ (k + 1) * b = k * b + b
         /\ \A q \in Nat : q < k => q * b + b <= k * b
<1>1. k * b \in Nat /\ (k + 1) * b = k * b + b
  OBVIOUS
<1>2. ASSUME NEW q \in Nat, q < k PROVE q * b + b <= k * b
  <2>1. (q + 1) * b = q * b + b
    OBVIOUS
  <2>2. q + 1 \in Nat /\ q + 1 <= k /\ b <= b
    BY <1>2
  <2>3. (q + 1) * b <= k * b
    BY <2>2, ProductMonotone
  <2> QED
    BY <2>1, <2>3
<1> QED
  BY <1>1, <1>2

LEMMA LessByFactor ==
  ASSUME NEW b \in Nat, NEW k \in Nat, NEW q \in Nat, q * b < k * b
  PROVE  q < k
<1>1. ASSUME k <= q PROVE k * b <= q * b
  BY <1>1, ProductMonotone
<1>2. k * b \in Nat /\ q * b \in Nat
  BY NextMultiple
<1> QED
  BY <1>1, <1>2

\* The first n orders have reached Bybit once, the others have not.
SentUpTo(n) == placed = [o \in 1..MaxOrders |-> IF o <= n THEN 1 ELSE 0]

\* The j-th batch of a list.
BatchAt(j) == ((j - 1) * BatchMax + 1)..B!Least(j * BatchMax, orders)

\* Whole batches have been sent, one response stands for each of them; a
\* call that raises leaves as many of them or one more.
BatchInv ==
  /\ orders \in 0..MaxOrders
  /\ outcome \in {"pending", "returned", "raised"}
  /\ next \in Nat
  /\ next < orders + BatchMax
  /\ outcome /= "raised" =>
       /\ responses \in Seq(SUBSET (1..MaxOrders))
       /\ next = Len(responses) * BatchMax
       /\ \A j \in 1..Len(responses) : responses[j] = BatchAt(j)
       /\ SentUpTo(B!Least(next, orders))
  /\ outcome = "returned" => next >= orders
  /\ outcome = "raised" =>
       /\ responses = <<>>
       /\ \E k \in Nat : SentUpTo(B!Least(k * BatchMax, orders))

LEMMA BatchInit == B!Init => BatchInv
<1> SUFFICES ASSUME B!Init PROVE BatchInv
  OBVIOUS
<1> USE BatchSizes
<1>1. /\ orders \in 0..MaxOrders /\ next = 0 /\ outcome = "pending" /\ responses = <<>>
      /\ placed = [o \in 1..MaxOrders |-> 0]
  BY DEF B!Init
<1>2. SentUpTo(B!Least(next, orders))
  BY <1>1 DEF SentUpTo, B!Least
<1>3. Len(responses) = 0 /\ responses \in Seq(SUBSET (1..MaxOrders))
  BY <1>1
<1> QED
  BY <1>1, <1>2, <1>3 DEF BatchInv

\* What one more batch does to the front.
LEMMA FrontMoves ==
  ASSUME next \in Nat, orders \in Nat, next < orders,
         SentUpTo(B!Least(next, orders)), B!PlaceAll(B!Batch),
         NEW n, n = B!Least(next + BatchMax, orders)
  PROVE  placed' = [o \in 1..MaxOrders |-> IF o <= n THEN 1 ELSE 0]
<1> USE BatchSizes
<1>1. B!Least(next, orders) = next
  BY DEF B!Least
<1>2. n \in Nat /\ n > next
  BY DEF B!Least
<1>3. ASSUME NEW o \in 1..MaxOrders
      PROVE  placed[o] + (IF o \in B!Batch THEN 1 ELSE 0) = IF o <= n THEN 1 ELSE 0
  <2>1. placed[o] = IF o <= next THEN 1 ELSE 0
    BY <1>1 DEF SentUpTo
  <2>2. o \in B!Batch <=> o > next /\ o <= n
    BY <1>2 DEF B!Batch
  <2> QED
    BY <1>2, <2>1, <2>2
<1> QED
  BY <1>3 DEF B!PlaceAll

LEMMA BatchStep == BatchInv /\ [B!Next]_(B!vars) => BatchInv'
<1> SUFFICES ASSUME BatchInv, [B!Next]_(B!vars) PROVE BatchInv'
  OBVIOUS
<1> USE BatchSizes
<1>0. /\ orders \in 0..MaxOrders /\ orders \in Nat /\ next \in Nat
      /\ next < orders + BatchMax
  BY DEF BatchInv
<1>1. CASE B!PlaceBatch
  <2>1. /\ outcome = "pending" /\ outcome' = "pending" /\ next < orders
        /\ orders' = orders /\ next' = next + BatchMax
        /\ responses' = Append(responses, B!Batch)
        /\ B!PlaceAll(B!Batch)
    BY <1>1 DEF B!PlaceBatch
  <2>2. /\ responses \in Seq(SUBSET (1..MaxOrders))
        /\ next = Len(responses) * BatchMax
        /\ \A j \in 1..Len(responses) : responses[j] = BatchAt(j)
        /\ SentUpTo(B!Least(next, orders))
    BY <2>1 DEF BatchInv
  <2>3. PICK l \in Nat : l = Len(responses)
    BY <2>2
  <2>4. l * BatchMax = next /\ (l + 1) * BatchMax = next + BatchMax
    BY <2>2, <2>3, NextMultiple
  <2>5. B!Batch = BatchAt(l + 1)
    BY <2>3, <2>4 DEF B!Batch, BatchAt
  <2>6. B!Batch \in SUBSET (1..MaxOrders)
    BY <1>0 DEF B!Batch, B!Least
  <2>7. /\ responses' \in Seq(SUBSET (1..MaxOrders)) /\ Len(responses') = l + 1
        /\ \A j \in 1..(l + 1) : responses'[j] = BatchAt(j)
    <3>1. responses' \in Seq(SUBSET (1..MaxOrders)) /\ Len(responses') = l + 1
      BY <2>1, <2>2, <2>3, <2>6
    <3>2. \A j \in 1..l : responses'[j] = responses[j]
      BY <2>1, <2>2, <2>3, <2>6
    <3>3. responses'[l + 1] = B!Batch
      BY <2>1, <2>2, <2>3, <2>6
    <3>4. \A j \in 1..(l + 1) : j \in 1..l \/ j = l + 1
      BY <2>3
    <3> QED
      BY <2>2, <2>3, <2>5, <3>1, <3>2, <3>3, <3>4
  <2>8. \A j \in 1..(l + 1) : BatchAt(j)' = BatchAt(j)
    BY <2>1 DEF BatchAt, B!Least
  <2>9. SentUpTo(B!Least(next, orders))'
    <3>1. PICK n : n = B!Least(next + BatchMax, orders)
      OBVIOUS
    <3>2. placed' = [o \in 1..MaxOrders |-> IF o <= n THEN 1 ELSE 0]
      BY <1>0, <2>1, <2>2, <3>1, FrontMoves
    <3>3. B!Least(next, orders)' = n
      BY <2>1, <3>1 DEF B!Least
    <3> QED
      BY <3>2, <3>3 DEF SentUpTo
  <2>10. next' \in Nat /\ next' < orders + BatchMax /\ next' = Len(responses') * BatchMax
    BY <1>0, <2>1, <2>4, <2>7
  <2>11. \A j \in 1..Len(responses') : responses'[j] = BatchAt(j)'
    BY <2>7, <2>8
  <2>12. outcome' /= "returned" /\ outcome' /= "raised"
         /\ outcome' \in {"pending", "returned", "raised"}
    BY <2>1
  <2> QED
    BY <1>0, <2>1, <2>7, <2>9, <2>10, <2>11, <2>12 DEF BatchInv
<1>2. CASE B!CallRaises
  <2>1. /\ outcome = "pending" /\ outcome' = "raised" /\ next < orders
        /\ orders' = orders /\ next' = next /\ responses' = <<>>
        /\ B!PlaceAll({}) \/ B!PlaceAll(B!Batch)
    BY <1>2 DEF B!CallRaises
  <2>2. /\ responses \in Seq(SUBSET (1..MaxOrders))
        /\ next = Len(responses) * BatchMax
        /\ SentUpTo(B!Least(next, orders))
    BY <2>1 DEF BatchInv
  <2>3. PICK l \in Nat : l = Len(responses)
    BY <2>2
  <2>4. l * BatchMax = next /\ (l + 1) * BatchMax = next + BatchMax /\ l + 1 \in Nat
    BY <2>2, <2>3, NextMultiple
  <2>5. \E k \in Nat : placed' = [o \in 1..MaxOrders |->
                                    IF o <= B!Least(k * BatchMax, orders) THEN 1 ELSE 0]
    <3>1. CASE B!PlaceAll({})
      <4>1. placed = [o \in 1..MaxOrders |->
                       IF o <= B!Least(l * BatchMax, orders) THEN 1 ELSE 0]
        BY <2>2, <2>4 DEF SentUpTo
      <4>2. placed' = placed
        BY <3>1, <4>1 DEF B!PlaceAll
      <4> QED
        BY <2>3, <4>1, <4>2
    <3>2. CASE B!PlaceAll(B!Batch)
      <4>1. PICK n : n = B!Least(next + BatchMax, orders)
        OBVIOUS
      <4>2. placed' = [o \in 1..MaxOrders |-> IF o <= n THEN 1 ELSE 0]
        BY <1>0, <2>1, <2>2, <3>2, <4>1, FrontMoves
      <4>3. n = B!Least((l + 1) * BatchMax, orders)
        BY <2>4, <4>1
      <4> QED
        BY <2>4, <4>2, <4>3
    <3> QED
      BY <2>1, <3>1, <3>2
  <2>6. \E k \in Nat : SentUpTo(B!Least(k * BatchMax, orders))'
    BY <2>1, <2>5 DEF SentUpTo, B!Least
  <2> QED
    BY <1>0, <2>1, <2>6 DEF BatchInv
<1>3. CASE B!Return
  BY <1>3 DEF B!Return, BatchInv, SentUpTo, B!Least, BatchAt
<1>4. CASE UNCHANGED B!vars
  BY <1>4 DEF B!vars, BatchInv, SentUpTo, B!Least, BatchAt
<1> QED
  BY <1>1, <1>2, <1>3, <1>4 DEF B!Next
\* How often an order was sent, when n of them have been.
LEMMA FrontIs ==
  ASSUME NEW n \in Nat, SentUpTo(n)
  PROVE  /\ placed \in [1..MaxOrders -> Nat]
         /\ \A o \in 1..MaxOrders : placed[o] = IF o <= n THEN 1 ELSE 0
BY DEF SentUpTo

LEMMA BatchOnce ==
  ASSUME BatchInv
  PROVE  B!TypeOK /\ B!PlacedAtMostOnce
<1> USE BatchSizes
<1>1. \E n \in Nat : SentUpTo(n)
  <2>1. CASE outcome = "raised"
    <3>1. PICK k \in Nat : SentUpTo(B!Least(k * BatchMax, orders))
      BY <2>1 DEF BatchInv
    <3>2. k * BatchMax \in Nat /\ orders \in Nat
      BY NextMultiple DEF BatchInv
    <3> QED
      BY <3>1, <3>2 DEF B!Least
  <2>2. CASE outcome /= "raised"
    BY <2>2 DEF BatchInv, B!Least
  <2> QED
    BY <2>1, <2>2
<1>2. placed \in [1..MaxOrders -> Nat] /\ \A o \in 1..MaxOrders : placed[o] <= 1
  BY <1>1, FrontIs
<1>3. responses \in Seq(SUBSET (1..MaxOrders))
  <2>1. outcome = "raised" => responses = <<>>
    BY DEF BatchInv
  <2>2. outcome /= "raised" => responses \in Seq(SUBSET (1..MaxOrders))
    BY DEF BatchInv
  <2>3. <<>> \in Seq(SUBSET (1..MaxOrders))
    OBVIOUS
  <2> QED
    BY <2>1, <2>2, <2>3
<1> QED
  BY <1>2, <1>3 DEF BatchInv, B!TypeOK, B!PlacedAtMostOnce

LEMMA ReturnedAll ==
  ASSUME BatchInv
  PROVE  B!ReturnsAllInOrder
<1> SUFFICES ASSUME outcome = "returned"
    PROVE  /\ \A o \in 1..orders : placed[o] = 1
           /\ Len(responses) = (orders + BatchMax - 1) \div BatchMax
           /\ \A o \in 1..orders : o \in responses[(o - 1) \div BatchMax + 1]
  BY DEF B!ReturnsAllInOrder
<1> USE BatchSizes
<1>1. /\ orders \in 0..MaxOrders /\ orders \in Nat /\ next \in Nat
      /\ next >= orders /\ next < orders + BatchMax
      /\ responses \in Seq(SUBSET (1..MaxOrders))
      /\ next = Len(responses) * BatchMax
      /\ \A j \in 1..Len(responses) : responses[j] = BatchAt(j)
      /\ SentUpTo(B!Least(next, orders))
  BY DEF BatchInv
<1>2. PICK l \in Nat : l = Len(responses) /\ next = l * BatchMax
  BY <1>1
<1>3. \A o \in 1..orders : placed[o] = 1
  <2>1. B!Least(next, orders) = orders
    BY <1>1 DEF B!Least
  <2>2. \A o \in 1..MaxOrders : placed[o] = IF o <= orders THEN 1 ELSE 0
    BY <1>1, <2>1, FrontIs
  <2> QED
    BY <1>1, <2>2
<1>4. l = (orders + BatchMax - 1) \div BatchMax
  <2>1. PICK x \in Nat : x = orders + BatchMax - 1
    BY <1>1
  <2>2. l * BatchMax <= x /\ x < l * BatchMax + BatchMax
    BY <1>1, <1>2, <2>1
  <2>3. x \div BatchMax = l
    BY <2>2, QuotientIs
  <2> QED
    BY <2>1, <2>3
<1>5. ASSUME NEW o \in 1..orders
      PROVE  o \in responses[(o - 1) \div BatchMax + 1]
  <2>1. PICK x \in Nat : x = o - 1
    BY <1>1
  <2>2. PICK q : q = x \div BatchMax
    OBVIOUS
  <2>3. q \in Nat /\ q * BatchMax <= x /\ x < q * BatchMax + BatchMax
    BY <2>2, QuotientIs
  <2>4. q * BatchMax \in Nat /\ (q + 1) * BatchMax = q * BatchMax + BatchMax
    BY <2>3, NextMultiple
  <2>5. q * BatchMax < l * BatchMax
    BY <1>1, <1>2, <2>1, <2>3, <2>4
  <2>6. q < l
    BY <2>3, <2>5, LessByFactor
  <2>7. q + 1 \in 1..l /\ (q + 1) - 1 = q
    BY <2>3, <2>6
  <2>8. responses[q + 1] = BatchAt(q + 1)
    BY <1>1, <1>2, <2>7
  <2>9. BatchAt(q + 1) = (q * BatchMax + 1)..B!Least(q * BatchMax + BatchMax, orders)
    BY <2>4, <2>7 DEF BatchAt
  <2>10. o \in BatchAt(q + 1)
    BY <1>1, <2>1, <2>3, <2>4, <2>9 DEF B!Least
  <2> QED
    BY <2>1, <2>2, <2>8, <2>10
<1> QED
  BY <1>2, <1>3, <1>4, <1>5

LEMMA RaisedPrefix ==
  ASSUME BatchInv
  PROVE  B!RaisedLeavesPrefix
<1> SUFFICES ASSUME outcome = "raised", NEW o \in 1..orders, placed[o] = 1,
                    NEW p \in 1..orders, (p - 1) \div BatchMax <= (o - 1) \div BatchMax
    PROVE  placed[p] = 1
  BY DEF B!RaisedLeavesPrefix
<1> USE BatchSizes
<1>1. orders \in 0..MaxOrders /\ o \in 1..MaxOrders /\ p \in 1..MaxOrders /\ orders \in Nat
  BY DEF BatchInv
<1>2. PICK k \in Nat : SentUpTo(B!Least(k * BatchMax, orders))
  BY DEF BatchInv
<1>3. k * BatchMax \in Nat /\ B!Least(k * BatchMax, orders) \in Nat
  BY <1>1, <1>2, NextMultiple DEF B!Least
<1>4. o <= k * BatchMax
  <2>1. placed[o] = IF o <= B!Least(k * BatchMax, orders) THEN 1 ELSE 0
    BY <1>1, <1>2, <1>3, FrontIs
  <2>2. o <= B!Least(k * BatchMax, orders)
    BY <2>1
  <2> QED
    BY <1>1, <1>3, <2>2 DEF B!Least
<1>5. PICK x \in Nat, y \in Nat : x = o - 1 /\ y = p - 1
  BY <1>1
<1>6. PICK q, r : q = x \div BatchMax /\ r = y \div BatchMax
  OBVIOUS
<1>7. q \in Nat /\ q * BatchMax <= x
  BY <1>6, QuotientIs
<1>8. r \in Nat /\ y < r * BatchMax + BatchMax
  BY <1>6, QuotientIs
<1>9. r <= q
  BY <1>5, <1>6
<1>10. q < k
  <2>1. q * BatchMax < k * BatchMax
    BY <1>1, <1>3, <1>4, <1>5, <1>7, NextMultiple
  <2> QED
    BY <1>2, <1>7, <2>1, LessByFactor
<1>11. r * BatchMax + BatchMax <= k * BatchMax
  BY <1>2, <1>7, <1>8, <1>9, <1>10, NextMultiple
<1>12. r * BatchMax \in Nat
  BY <1>8, NextMultiple
<1>13. p <= k * BatchMax
  BY <1>1, <1>3, <1>5, <1>8, <1>11, <1>12
<1>14. p <= B!Least(k * BatchMax, orders)
  BY <1>1, <1>3, <1>13 DEF B!Least
<1> QED
  BY <1>1, <1>2, <1>3, <1>14, FrontIs

(* One call of place_batch_orders sends every order at most once, in whole *)
(* batches from the front of the list; one that returns has sent them all, *)
(* reported them in order and needed no more calls than batches, for every *)
(* size of a batch and length of a list.                                   *)
THEOREM BatchesInOrderTheorem == Spec => []BatchesInOrder
<1>1. BatchInv => B!TypeOK /\ B!BatchesInOrder
  BY BatchOnce, ReturnedAll, RaisedPrefix DEF B!BatchesInOrder
<1>2. B!Spec => []BatchInv
  BY BatchInit, BatchStep, PTL DEF B!Spec
<1> QED
  BY <1>1, <1>2, AlgorithmsRun, PTL DEF BatchesInOrder
-----------------------------------------------------------------------------
(* Sizing *)

\* The size follows from the trade and the open positions.
SizeDecided ==
  /\ trade \in S!Trade \cup {None}
  /\ held \subseteq Symbols
  /\ S!Sized => size = S!PositionSize(trade, held)

LEMMA SizeDecidedAlways == S!Spec => []SizeDecided
<1>1. S!Init => SizeDecided
  BY DEF S!Init, SizeDecided, S!Sized
<1>2. SizeDecided /\ [S!Next]_(S!vars) => SizeDecided'
  BY DEF SizeDecided, S!Next, S!vars, S!Calculate, S!Sized
<1> QED
  BY <1>1, <1>2, PTL DEF S!Spec

LEMMA RemainderIs ==
  ASSUME NEW n \in Nat, NEW d \in Nat, d > 0
  PROVE  n % d = n - (n \div d) * d
OBVIOUS

\* A number as q and the rest r, and what Rounded makes of it.
LEMMA Division ==
  ASSUME NEW n \in Nat, NEW d \in Nat, d > 0
  PROVE  \E q, r \in Nat : n = q * d + r /\ r < d
<1>1. PICK q \in Nat : q * d <= n /\ n < q * d + d
  BY QuotientIs
<1>2. PICK e \in Nat : e = q * d
  BY NextMultiple
<1>3. n - e \in Nat /\ n = e + (n - e) /\ n - e < d
  BY <1>1, <1>2
<1> QED
  BY <1>2, <1>3

Rounding(q, r, d) == IF 2 * r > d \/ (2 * r = d /\ q % 2 = 1) THEN q + 1 ELSE q

LEMMA RoundedIs ==
  ASSUME NEW n \in Nat, NEW d \in Nat, NEW q \in Nat, NEW r \in Nat, n = q * d + r, r < d
  PROVE  S!Rounded(n, d) = Rounding(q, r, d)
<1>1. PICK e \in Nat : e = q * d
  BY NextMultiple
<1>2. q * d <= n /\ n < q * d + d /\ d > 0
  BY <1>1
<1>3. n \div d = q
  BY <1>2, QuotientIs
<1>4. n % d = n - q * d
  BY <1>2, <1>3, RemainderIs
<1>5. n % d = r
  BY <1>1, <1>4
<1> QED
  BY <1>3, <1>5 DEF S!Rounded, Rounding

LEMMA RoundedNear ==
  ASSUME NEW n \in Nat, NEW d \in Nat, d > 0
  PROVE  /\ S!Rounded(n, d) \in Nat
         /\ (2 * S!Rounded(n, d) - 1) * d <= 2 * n
         /\ (2 * S!Rounded(n, d) + 1) * d >= 2 * n
         /\ n = 0 => S!Rounded(n, d) = 0
<1>1. PICK q \in Nat, r \in Nat : n = q * d + r /\ r < d
  BY Division
<1>2. PICK e \in Nat : e = q * d
  BY NextMultiple
<1>3. S!Rounded(n, d) = Rounding(q, r, d)
  BY <1>1, RoundedIs
<1>4. CASE S!Rounded(n, d) = q
  <2>1. (2 * q - 1) * d = 2 * (q * d) - d
    OBVIOUS
  <2>2. (2 * q - 1) * d <= 2 * n
    BY <1>1, <1>2, <2>1
  <2>3. (2 * q + 1) * d = 2 * (q * d) + d
    OBVIOUS
  <2>4. 2 * r <= d
    BY <1>1, <1>3, <1>4 DEF Rounding
  <2>5. (2 * q + 1) * d >= 2 * n
    BY <1>1, <1>2, <2>3, <2>4
  <2> QED
    BY <1>4, <2>2, <2>5
<1>5. CASE S!Rounded(n, d) = q + 1
  <2>1. (2 * (q + 1) - 1) * d = 2 * (q * d) + d
    OBVIOUS
  <2>2. 2 * r >= d
    BY <1>3, <1>5 DEF Rounding
  <2>3. (2 * (q + 1) - 1) * d <= 2 * n
    BY <1>1, <1>2, <2>1, <2>2
  <2>4. (2 * (q + 1) + 1) * d = 2 * (q * d) + 3 * d
    OBVIOUS
  <2>5. (2 * (q + 1) + 1) * d >= 2 * n
    BY <1>1, <1>2, <2>4
  <2> QED
    BY <1>5, <2>3, <2>5
<1>6. S!Rounded(n, d) \in {q, q + 1}
  BY <1>3 DEF Rounding
<1>7. ASSUME n = 0 PROVE S!Rounded(n, d) = 0
  <2>1. n = 0 * d + 0
    BY <1>7
  <2>2. S!Rounded(n, d) = Rounding(0, 0, d)
    BY <2>1, RoundedIs
  <2> QED
    BY <2>2 DEF Rounding
<1> QED
  BY <1>4, <1>5, <1>6, <1>7

LEMMA RoundedMonotone ==
  ASSUME NEW n \in Nat, NEW m \in Nat, NEW d \in Nat, d > 0, n <= m
  PROVE  S!Rounded(n, d) <= S!Rounded(m, d)
<1>1. PICK q \in Nat, r \in Nat : n = q * d + r /\ r < d
  BY Division
<1>2. PICK t \in Nat, u \in Nat : m = t * d + u /\ u < d
  BY Division
<1>3. PICK e \in Nat, f \in Nat : e = q * d /\ f = t * d
  BY NextMultiple
<1>4. (t + 1) * d = f + d /\ t + 1 \in Nat
  BY <1>3, NextMultiple
<1>5. q * d < (t + 1) * d
  BY <1>1, <1>2, <1>3, <1>4
<1>6. q < t + 1
  BY <1>4, <1>5, LessByFactor
<1>7. S!Rounded(n, d) = Rounding(q, r, d) /\ S!Rounded(m, d) = Rounding(t, u, d)
  BY <1>1, <1>2, RoundedIs
<1>8. CASE q < t
  BY <1>7, <1>8 DEF Rounding
<1>9. CASE q = t
  <2>1. r <= u
    BY <1>1, <1>2, <1>3, <1>9
  <2> QED
    BY <1>7, <1>9, <2>1 DEF Rounding
<1> QED
  BY <1>6, <1>8, <1>9

\* A fraction may be extended.
Times(k, n) == k * n

LEMMA RoundedExtended ==
  ASSUME NEW k \in Nat, k > 0, NEW n \in Nat, NEW d \in Nat, d > 0
  PROVE  S!Rounded(Times(k, n), Times(k, d)) = S!Rounded(n, d)
<1>1. PICK q \in Nat, r \in Nat : n = q * d + r /\ r < d
  BY Division
<1>2. k * n = q * (k * d) + k * r
  BY <1>1
<1>3. k * n \in Nat /\ k * d \in Nat /\ k * r \in Nat
  BY <1>1
<1>4. \A i, j \in Nat : i < j => k * i < k * j
  OBVIOUS
<1>5. k * r < k * d
  BY <1>1, <1>4
<1>6. S!Rounded(Times(k, n), Times(k, d)) = Rounding(q, k * r, k * d)
  BY <1>1, <1>2, <1>3, <1>5, RoundedIs DEF Times
<1>7. S!Rounded(n, d) = Rounding(q, r, d)
  BY <1>1, RoundedIs
<1>8. 2 * (k * r) = k * (2 * r) /\ 2 * r \in Nat
  BY <1>1
<1>9. (2 * (k * r) > k * d <=> 2 * r > d) /\ (2 * (k * r) = k * d <=> 2 * r = d)
  <2>1. PICK z \in Nat : z = 2 * r
    BY <1>8
  <2>2. z < d \/ z = d \/ d < z
    BY <2>1
  <2>3. /\ z < d => k * z < k * d
        /\ d < z => k * d < k * z
        /\ z = d => k * z = k * d
    BY <1>4
  <2>4. k * z \in Nat
    BY <2>1
  <2>5. (k * z > k * d <=> z > d) /\ (k * z = k * d <=> z = d)
    BY <1>3, <2>2, <2>3, <2>4
  <2> QED
    BY <1>8, <2>1, <2>5
<1> QED
  BY <1>6, <1>7, <1>9 DEF Rounding

\* A trade's Kelly fraction is Edge over Full, its share of the account Share
\* over 40 * Full.
Win(t) == IF t.loss = 0 THEN 2 ELSE t.win
Loss(t) == IF t.loss = 0 THEN 1 ELSE t.loss
Full(t) == IF Win(t) = 0 THEN Scale ELSE Scale * Win(t)
Edge(t) == IF Win(t) = 0 THEN 0
           ELSE S!Greatest(0, t.posterior * Win(t) - (Scale - t.posterior) * Loss(t))
Share(t, c) == IF c THEN S!Least(5 * Edge(t), Full(t)) ELSE 2 * S!Least(5 * Edge(t), Full(t))
Wanted(t, c) == S!Rounded(t.account * Share(t, c), LotPrice * (40 * Full(t)))
Sold(t, c) == IF t.minQty = 0 THEN 0 ELSE S!Greatest(t.minQty, Lot * Wanted(t, c))

LEMMA UnitsAre ==
  /\ Scale \in Nat /\ Scale > 0 /\ LotPrice \in Nat /\ LotPrice > 0
  /\ Lot \in Nat /\ Lot > 0
<1>1. {Scale, LotPrice, Lot} \subseteq Nat \ {0}
  BY AlgorithmsAssumption DEF S!SizingAssumption
<1> QED
  BY <1>1

LEMMA ProductPositive ==
  ASSUME NEW m \in Nat, m > 0, NEW n \in Nat, n > 0
  PROVE  m * n \in Nat /\ m * n > 0
OBVIOUS

LEMMA TradeTyped ==
  ASSUME NEW t \in S!Trade
  PROVE  /\ t.posterior \in Nat /\ t.posterior <= Scale
         /\ t.win \in Nat /\ t.loss \in Nat /\ t.account \in Nat /\ t.minQty \in Nat
         /\ Win(t) \in Nat /\ Loss(t) \in Nat /\ Full(t) \in Nat /\ Full(t) > 0
<1>1. /\ t.posterior \in Posteriors /\ t.win \in Averages /\ t.loss \in Averages
      /\ t.account \in Accounts /\ t.minQty \in MinQtys
  BY DEF S!Trade
<1>2. Posteriors \subseteq 0..Scale
      /\ Averages \subseteq Nat /\ Accounts \subseteq Nat /\ MinQtys \subseteq Nat
  BY AlgorithmsAssumption DEF S!SizingAssumption
<1>3. t.posterior \in Nat /\ t.posterior <= Scale
  <2>1. Scale \in Nat /\ t.posterior \in 0..Scale
    BY <1>1, <1>2, UnitsAre
  <2>2. ASSUME NEW n \in Nat, NEW m \in 0..n
        PROVE  m \in Nat /\ m <= n
    OBVIOUS
  <2> QED
    BY <2>1, <2>2
<1>4. t.win \in Nat /\ t.loss \in Nat /\ t.account \in Nat /\ t.minQty \in Nat
  BY <1>1, <1>2
<1>5. Win(t) \in Nat /\ Loss(t) \in Nat
  BY <1>4 DEF Win, Loss
<1>6. Full(t) \in Nat /\ Full(t) > 0
  <2>1. CASE Win(t) = 0
    BY <2>1, UnitsAre DEF Full
  <2>2. CASE Win(t) > 0
    BY <1>5, <2>2, UnitsAre, ProductPositive DEF Full
  <2> QED
    BY <1>5, <2>1, <2>2
<1> QED
  BY <1>3, <1>4, <1>5, <1>6

LEMMA EdgeIs ==
  ASSUME NEW t \in S!Trade
  PROVE  /\ Edge(t) \in Nat
         /\ Edge(t) <= Full(t)
         /\ Win(t) > 0 => /\ t.posterior * Win(t) - (Scale - t.posterior) * Loss(t) <= Edge(t)
                          /\ t.posterior * Win(t) <= (Scale - t.posterior) * Loss(t) => Edge(t) = 0
<1> DEFINE p == t.posterior
<1>0. /\ p \in Nat /\ p <= Scale /\ Win(t) \in Nat /\ Loss(t) \in Nat /\ Full(t) \in Nat
      /\ Full(t) > 0 /\ Scale - p \in Nat
  BY TradeTyped, UnitsAre
<1> HIDE DEF p
<1>1. PICK w \in Nat, l \in Nat, q \in Nat : w = Win(t) /\ l = Loss(t) /\ q = Scale - p
  BY <1>0
<1>2. PICK x \in Nat, y \in Nat, f \in Nat : x = p * w /\ y = q * l /\ f = Scale * w
  BY <1>0, <1>1, UnitsAre
<1>3. x <= f
  BY <1>0, <1>1, <1>2, ProductMonotone, UnitsAre
<1>4. Edge(t) = IF w = 0 THEN 0 ELSE IF 0 > x - y THEN 0 ELSE x - y
  BY <1>1, <1>2 DEF Edge, S!Greatest, p
<1>5. w = 0 \/ Full(t) = f
  BY <1>1, <1>2 DEF Full
<1>6. /\ Edge(t) \in Nat /\ Edge(t) <= Full(t)
      /\ w > 0 => x - y <= Edge(t) /\ (x <= y => Edge(t) = 0)
  BY <1>0, <1>2, <1>3, <1>4, <1>5
<1> QED
  BY <1>1, <1>2, <1>6 DEF p

LEMMA ShareIs ==
  ASSUME NEW t \in S!Trade, NEW c \in BOOLEAN
  PROVE  /\ Share(t, c) \in Nat
         /\ Edge(t) = 0 => Share(t, c) = 0
         /\ c => 40 * Share(t, c) <= 40 * Full(t)
         /\ ~c => 20 * Share(t, c) <= 40 * Full(t)
BY EdgeIs, TradeTyped DEF Share, S!Least

LEMMA WantedIs ==
  ASSUME NEW t \in S!Trade, NEW c \in BOOLEAN
  PROVE  /\ Wanted(t, c) \in Nat
         /\ t.account * Share(t, c) \in Nat
         /\ LotPrice * (40 * Full(t)) \in Nat /\ LotPrice * (40 * Full(t)) > 0
         /\ Lot * Wanted(t, c) \in Nat
<1>1. 40 * Full(t) \in Nat /\ 40 * Full(t) > 0
  BY TradeTyped
<1>2. LotPrice * (40 * Full(t)) \in Nat /\ LotPrice * (40 * Full(t)) > 0
  BY <1>1, UnitsAre, ProductPositive
<1>3. t.account * Share(t, c) \in Nat
  BY TradeTyped, ShareIs
<1>4. Wanted(t, c) \in Nat
  BY <1>2, <1>3, RoundedNear DEF Wanted
<1>5. Lot * Wanted(t, c) \in Nat
  BY <1>4, UnitsAre
<1> QED
  BY <1>2, <1>3, <1>4, <1>5

\* calculate_position_size in these terms.
LEMMA SizeIs ==
  ASSUME NEW t \in S!Trade, NEW H
  PROVE  LET c == S!Clustered(t.symbol, H)
         IN  S!PositionSize(t, H) =
               [kelly |-> <<Edge(t), Full(t)>>,
                fraction |-> <<Share(t, c), 40 * Full(t)>>,
                quantity |-> Sold(t, c)]
<1> DEFINE c == S!Clustered(t.symbol, H)
<1>0. PICK kelly : kelly = S!Kelly(t.posterior, S!WinLossRatio(t))
  OBVIOUS
<1>1. S!WinLossRatio(t) = <<Win(t), Loss(t)>>
  BY DEF S!WinLossRatio, Win, Loss
<1>2. kelly = <<Edge(t), Full(t)>>
  BY <1>0, <1>1 DEF S!Kelly, Edge, Full
<1>3. S!Fraction(kelly, c) = <<Share(t, c), 40 * Full(t)>>
  BY <1>2 DEF S!Fraction, Share
<1>4. S!Quantity(S!Fraction(kelly, c), t.account, t.minQty) = Sold(t, c)
  BY <1>3 DEF S!Quantity, Wanted, Sold
<1> QED
  BY <1>0, <1>2, <1>3, <1>4 DEF S!PositionSize

LEMMA SizeTyped ==
  ASSUME SizeDecided
  PROVE  S!TypeOK
<1> SUFFICES ASSUME S!Sized
    PROVE  /\ size.kelly[1] \in 0..size.kelly[2]
           /\ size.fraction[2] > 0
           /\ size.quantity \in Nat
  BY DEF SizeDecided, S!TypeOK
<1>1. trade \in S!Trade /\ S!Clustered(trade.symbol, held) \in BOOLEAN
  BY DEF SizeDecided, S!Sized, S!Clustered
<1>2. PICK c \in BOOLEAN : c = S!Clustered(trade.symbol, held)
  BY <1>1
<1>3. /\ size.kelly = <<Edge(trade), Full(trade)>>
      /\ size.fraction = <<Share(trade, c), 40 * Full(trade)>>
      /\ size.quantity = Sold(trade, c)
  BY <1>1, <1>2, SizeIs DEF SizeDecided
<1>4. Edge(trade) \in 0..Full(trade) /\ 40 * Full(trade) > 0
  BY <1>1, EdgeIs, TradeTyped
<1>5. trade.minQty \in Nat /\ Lot * Wanted(trade, c) \in Nat
  BY <1>1, <1>2, TradeTyped, WantedIs
<1> QED
  BY <1>3, <1>4, <1>5 DEF Sold, S!Greatest

\* What SizeIs says of the trade in hand.
LEMMA SizedIs ==
  ASSUME SizeDecided, S!Sized
  PROVE  /\ trade \in S!Trade
         /\ trade.minQty \in Nat
         /\ \E c \in BOOLEAN :
              /\ c = S!Clustered(trade.symbol, held)
              /\ size.quantity = Sold(trade, c)
<1>1. trade \in S!Trade /\ S!Clustered(trade.symbol, held) \in BOOLEAN
  BY DEF SizeDecided, S!Sized, S!Clustered
<1>2. trade.minQty \in Nat
  BY <1>1, TradeTyped
<1>3. size.quantity = Sold(trade, S!Clustered(trade.symbol, held))
  BY <1>1, SizeIs DEF SizeDecided
<1> QED
  BY <1>1, <1>2, <1>3

LEMMA CappedUpToRounding ==
  ASSUME SizeDecided
  PROVE  S!CapUpToRounding
<1> SUFFICES ASSUME S!Sized, size.quantity > trade.minQty
    PROVE  LotPrice * (2 * size.quantity - Lot)
                * (IF S!Clustered(trade.symbol, held) THEN 40 ELSE 20)
              <= 2 * Lot * trade.account
  BY DEF S!CapUpToRounding
<1>1. PICK c \in BOOLEAN :
         c = S!Clustered(trade.symbol, held) /\ size.quantity = Sold(trade, c)
  BY SizedIs
<1>2. trade \in S!Trade /\ trade.minQty \in Nat
  BY SizedIs
<1>3. PICK a \in Nat, s \in Nat, f \in Nat, q \in Nat :
         /\ a = trade.account /\ s = Share(trade, c) /\ f = Full(trade)
         /\ q = Wanted(trade, c)
  BY <1>2, WantedIs, ShareIs, TradeTyped
<1>4. size.quantity = Lot * q /\ Lot * q > trade.minQty
  BY <1>1, <1>2, <1>3 DEF Sold, S!Greatest
<1>5. q > 0
  BY <1>2, <1>4, UnitsAre
<1>6. PICK p \in Nat, d \in Nat, k \in Nat :
         p = 2 * q - 1 /\ d = 40 * f /\ k = IF c THEN 40 ELSE 20
  BY <1>5
<1>7. d > 0
  BY <1>2, <1>3, <1>6, TradeTyped
<1>8. p * (LotPrice * d) <= 2 * (a * s)
  <2>1. a * s \in Nat /\ LotPrice * d \in Nat /\ LotPrice * d > 0
    BY <1>7, UnitsAre, ProductPositive
  <2>2. q = S!Rounded(a * s, LotPrice * d)
    BY <1>3, <1>6 DEF Wanted
  <2> QED
    BY <1>6, <2>1, <2>2, RoundedNear
<1>9. k * s <= d
  BY <1>2, <1>3, <1>6, ShareIs
<1>10. LotPrice * p * k <= 2 * a
  <2>1. k * (p * (LotPrice * d)) <= k * (2 * (a * s))
    <3>1. p * (LotPrice * d) \in Nat /\ 2 * (a * s) \in Nat /\ k <= k
      BY UnitsAre
    <3> QED
      BY <1>8, <3>1, ProductMonotone
  <2>2. k * (2 * (a * s)) = (2 * a) * (k * s)
    OBVIOUS
  <2>3. (2 * a) * (k * s) <= (2 * a) * d
    <3>1. k * s \in Nat /\ 2 * a \in Nat /\ 2 * a <= 2 * a
      OBVIOUS
    <3> QED
      BY <1>9, <3>1, ProductMonotone
  <2>4. PICK x \in Nat, y \in Nat : x = LotPrice * p * k /\ y = 2 * a
    BY UnitsAre
  <2>5. k * (p * (LotPrice * d)) = x * d
    BY <2>4, UnitsAre
  <2>6. x * d <= y * d
    <3>1. x * d \in Nat /\ y * d \in Nat /\ (2 * a) * (k * s) \in Nat
      OBVIOUS
    <3>2. x * d <= (2 * a) * (k * s)
      BY <2>1, <2>2, <2>5
    <3>3. (2 * a) * (k * s) <= y * d
      BY <2>3, <2>4
    <3> QED
      BY <3>1, <3>2, <3>3
  <2>7. x <= y
    <3>1. ASSUME y < x PROVE d * y < d * x
      BY <1>7, <3>1
    <3>2. x * d = d * x /\ y * d = d * y /\ x * d \in Nat /\ y * d \in Nat
      OBVIOUS
    <3> QED
      BY <2>6, <3>1, <3>2
  <2> QED
    BY <2>4, <2>7
<1>11. LotPrice * (2 * (Lot * q) - Lot) * k <= 2 * Lot * a
  <2>1. PICK x \in Nat : x = LotPrice * p * k
    BY UnitsAre
  <2>2. Lot * x <= Lot * (2 * a)
    <3>1. 2 * a \in Nat /\ Lot <= Lot
      BY UnitsAre
    <3> QED
      BY <1>10, <2>1, <3>1, ProductMonotone, UnitsAre
  <2>3. 2 * (Lot * q) - Lot = Lot * p
    BY <1>6, UnitsAre
  <2>4. LotPrice * (Lot * p) * k = Lot * x
    BY <2>1, UnitsAre
  <2>5. Lot * (2 * a) = 2 * Lot * a
    BY UnitsAre
  <2> QED
    BY <2>2, <2>3, <2>4, <2>5
<1> QED
  BY <1>1, <1>3, <1>4, <1>6, <1>11

LEMMA NoEdgeMinimum ==
  ASSUME SizeDecided
  PROVE  S!NoEdgeNoMoreThanMinimum
<1> SUFFICES ASSUME S!Sized, trade.loss > 0,
                    trade.posterior * trade.win <= (Scale - trade.posterior) * trade.loss
    PROVE  size.quantity = trade.minQty
  BY DEF S!NoEdgeNoMoreThanMinimum
<1>1. PICK c \in BOOLEAN : size.quantity = Sold(trade, c)
  BY SizedIs
<1>2. trade \in S!Trade /\ trade.minQty \in Nat /\ Win(trade) \in Nat
  BY SizedIs, TradeTyped
<1>3. Win(trade) = trade.win /\ Loss(trade) = trade.loss
  BY <1>2, TradeTyped DEF Win, Loss
<1>4. Edge(trade) = 0
  <2>1. CASE Win(trade) = 0
    BY <2>1 DEF Edge
  <2>2. CASE Win(trade) > 0
    BY <1>2, <1>3, <2>2, EdgeIs
  <2> QED
    BY <1>2, <2>1, <2>2
<1>5. Share(trade, c) = 0
  BY <1>2, <1>4, ShareIs
<1>6. trade.account * Share(trade, c) = 0
  BY <1>2, <1>5, TradeTyped
<1>7. Wanted(trade, c) = 0
  BY <1>2, <1>6, WantedIs, RoundedNear DEF Wanted
<1>8. Lot * Wanted(trade, c) = 0
  BY <1>7, UnitsAre
<1> QED
  BY <1>1, <1>2, <1>8 DEF Sold, S!Greatest

LEMMA CapDoesDecide ==
  ASSUME SizeDecided
  PROVE  S!CapDecides
<1> SUFFICES ASSUME S!Sized, 200 * trade.posterior > 139 * Scale, trade.minQty > 0,
                    trade.win >= trade.loss \/ trade.loss = 0
    PROVE  LET clustered == S!Clustered(trade.symbol, held)
           IN  /\ size.quantity = S!Quantity(S!Fraction(<<1, 1>>, clustered),
                                             trade.account, trade.minQty)
               /\ LotPrice * (2 * size.quantity + Lot) * (IF clustered THEN 40 ELSE 20)
                    >= 2 * Lot * trade.account
  BY DEF S!CapDecides
<1>1. PICK c \in BOOLEAN :
         c = S!Clustered(trade.symbol, held) /\ size.quantity = Sold(trade, c)
  BY SizedIs
<1>2. /\ trade \in S!Trade
      /\ trade.posterior \in Nat /\ trade.posterior <= Scale
      /\ trade.win \in Nat /\ trade.loss \in Nat /\ trade.minQty \in Nat
  BY SizedIs, TradeTyped
<1>3. PICK w \in Nat, l \in Nat, p \in Nat, q \in Nat :
         w = Win(trade) /\ l = Loss(trade) /\ p = trade.posterior /\ q = Scale - p
  BY <1>2, TradeTyped, UnitsAre
<1>4. w > 0 /\ l <= w
  BY <1>2, <1>3 DEF Win, Loss
<1>5. PICK f \in Nat : f = Scale * w /\ f > 0 /\ f = Full(trade)
  BY <1>3, <1>4, UnitsAre, ProductPositive DEF Full
<1>6. 5 * Edge(trade) >= f /\ Edge(trade) \in Nat
  <2>1. PICK x \in Nat, y \in Nat : x = p * w /\ y = q * w
    OBVIOUS
  <2>2. q * l <= y
    BY <1>4, <2>1, ProductMonotone
  <2>3. p * w - q * l <= Edge(trade) /\ Edge(trade) \in Nat
    BY <1>2, <1>3, <1>4, EdgeIs
  <2>4. x + y = f
    BY <1>3, <1>5, <2>1, UnitsAre
  <2>5. 139 * f <= 200 * x
    <3>1. (139 * Scale) * w <= (200 * p) * w
      <4>1. 139 * Scale \in Nat /\ 200 * p \in Nat /\ 139 * Scale <= 200 * p /\ w <= w
        BY <1>3, UnitsAre
      <4> QED
        BY <4>1, ProductMonotone
    <3>2. (139 * Scale) * w = 139 * f /\ (200 * p) * w = 200 * x
      BY <1>5, <2>1, UnitsAre
    <3> QED
      BY <3>1, <3>2
  <2>6. q * l \in Nat
    OBVIOUS
  <2> QED
    BY <2>1, <2>2, <2>3, <2>4, <2>5, <2>6
<1>7. PICK h \in {1, 2} : h = IF c THEN 1 ELSE 2
  OBVIOUS
<1>8. Share(trade, c) = h * f
  BY <1>5, <1>6, <1>7 DEF Share, S!Least
<1>9. PICK a \in Nat : a = trade.account
  BY <1>2, TradeTyped
<1>10. PICK n \in Nat, d \in Nat : n = a * h /\ d = LotPrice * 40 /\ d > 0
  BY UnitsAre
<1>11. Wanted(trade, c) = S!Rounded(n, d)
  <2>1. S!Rounded(Times(f, n), Times(f, d)) = S!Rounded(n, d)
    BY <1>5, <1>10, RoundedExtended
  <2>2. trade.account * Share(trade, c) = Times(f, n)
    <3>1. a * (h * f) = f * (a * h)
      OBVIOUS
    <3> QED
      BY <1>8, <1>9, <1>10, <3>1 DEF Times
  <2>3. LotPrice * (40 * Full(trade)) = Times(f, d)
    <3>1. LotPrice * (40 * f) = f * (LotPrice * 40)
      BY UnitsAre
    <3> QED
      BY <1>5, <1>10, <3>1 DEF Times
  <2> QED
    BY <2>1, <2>2, <2>3 DEF Wanted
<1>12. S!Fraction(<<1, 1>>, c) = <<h, 40>>
  BY <1>7 DEF S!Fraction, S!Least
<1>13. size.quantity = S!Quantity(<<h, 40>>, trade.account, trade.minQty)
  BY <1>1, <1>9, <1>10, <1>11 DEF S!Quantity, Sold
<1>14. PICK r \in Nat : r = S!Rounded(n, d) /\ (2 * r + 1) * d >= 2 * n
  BY <1>10, RoundedNear
<1>15. size.quantity \in Nat /\ size.quantity >= Lot * r
  <2>1. Lot * r \in Nat
    BY UnitsAre
  <2> QED
    BY <1>1, <1>2, <1>11, <1>14, <2>1 DEF Sold, S!Greatest
<1>16. PICK k \in {20, 40} : k = IF c THEN 40 ELSE 20
  OBVIOUS
<1>17. LotPrice * (2 * r + 1) * k >= 2 * a
  <2>1. PICK x \in Nat : x = LotPrice * (2 * r + 1)
    BY UnitsAre
  <2>2. (2 * r + 1) * d = 40 * x
    BY <1>10, <2>1, UnitsAre
  <2>3. 40 * x >= 2 * (a * h)
    BY <1>10, <1>14, <2>2
  <2> QED
    BY <1>7, <1>16, <2>1, <2>3
<1>18. LotPrice * (2 * size.quantity + Lot) * k >= 2 * Lot * a
  <2>1. PICK v \in Nat : v = size.quantity
    BY <1>15
  <2>2. Lot * (2 * r + 1) <= 2 * v + Lot
    <3>1. Lot * (2 * r + 1) = 2 * (Lot * r) + Lot /\ Lot * r \in Nat
      BY UnitsAre
    <3> QED
      BY <1>15, <2>1, <3>1, UnitsAre
  <2>3. PICK x \in Nat, y \in Nat : x = Lot * (2 * r + 1) /\ y = 2 * v + Lot
    BY UnitsAre
  <2>4. LotPrice * k \in Nat
    BY UnitsAre
  <2>5. (LotPrice * k) * x <= (LotPrice * k) * y
    <3>1. LotPrice * k <= LotPrice * k
      BY <2>4
    <3> QED
      BY <2>2, <2>3, <2>4, <3>1, ProductMonotone
  <2>6. (LotPrice * k) * x = Lot * (LotPrice * (2 * r + 1) * k)
    BY <2>3, UnitsAre
  <2>7. (LotPrice * k) * y = LotPrice * (2 * v + Lot) * k
    BY <2>3, UnitsAre
  <2>8. Lot * (2 * a) <= Lot * (LotPrice * (2 * r + 1) * k)
    <3>1. LotPrice * (2 * r + 1) * k \in Nat /\ 2 * a \in Nat /\ Lot <= Lot
      BY UnitsAre
    <3> QED
      BY <1>17, <3>1, ProductMonotone, UnitsAre
  <2>9. Lot * (2 * a) = 2 * Lot * a
    BY UnitsAre
  <2>10. PICK i \in Nat, j \in Nat, m \in Nat :
            i = (LotPrice * k) * x /\ j = (LotPrice * k) * y /\ m = Lot * (2 * a)
    BY <2>4, UnitsAre
  <2>11. m <= i /\ i <= j
    BY <2>5, <2>6, <2>8, <2>10
  <2> QED
    BY <2>1, <2>7, <2>9, <2>10, <2>11
<1> QED
  BY <1>1, <1>9, <1>12, <1>13, <1>16, <1>18

\* A larger share in the same whole is no smaller a size.
LEMMA WantedMonotone ==
  ASSUME NEW t \in S!Trade, NEW c \in BOOLEAN, NEW v \in S!Trade, NEW d \in BOOLEAN,
         t.account = v.account, Full(t) = Full(v), t.minQty = v.minQty,
         Edge(t) <= Edge(v), d => c
  PROVE  Sold(t, c) <= Sold(v, d)
<1>1. Share(t, c) <= Share(v, d)
  BY EdgeIs, TradeTyped DEF Share, S!Least
<1>2. PICK a \in Nat, s \in Nat, r \in Nat, w \in Nat :
         a = t.account /\ s = Share(t, c) /\ r = Share(v, d) /\ w = LotPrice * (40 * Full(t))
  BY WantedIs, ShareIs, TradeTyped
<1>3. a * s <= a * r /\ a * s \in Nat /\ a * r \in Nat
  BY <1>1, <1>2, ProductMonotone
<1>4. w > 0
  BY <1>2, WantedIs
<1>5. S!Rounded(a * s, w) <= S!Rounded(a * r, w)
  BY <1>3, <1>4, RoundedMonotone
<1>6. Wanted(t, c) <= Wanted(v, d)
  BY <1>2, <1>5 DEF Wanted
<1>7. Lot * Wanted(t, c) <= Lot * Wanted(v, d)
  <2>1. Wanted(t, c) \in Nat /\ Wanted(v, d) \in Nat /\ Lot \in Nat /\ Lot <= Lot
    BY WantedIs, UnitsAre
  <2> QED
    BY <1>6, <2>1, ProductMonotone
<1>8. Lot * Wanted(t, c) \in Nat /\ Lot * Wanted(v, d) \in Nat /\ t.minQty \in Nat
  BY WantedIs, TradeTyped
<1> QED
  BY <1>7, <1>8 DEF Sold, S!Greatest

LEMMA SizeIsMonotone ==
  ASSUME SizeDecided
  PROVE  S!SizeMonotone
<1> SUFFICES ASSUME S!Sized
    PROVE  /\ \A s \in Symbols :
                S!PositionSize(trade, held \cup {s}).quantity <= size.quantity
           /\ \A p \in Posteriors : p >= trade.posterior =>
                S!PositionSize([trade EXCEPT !.posterior = p], held).quantity >= size.quantity
  BY DEF S!SizeMonotone
<1>1. PICK c \in BOOLEAN :
         c = S!Clustered(trade.symbol, held) /\ size.quantity = Sold(trade, c)
  BY SizedIs
<1>2. trade \in S!Trade
  BY SizedIs
<1>3. ASSUME NEW s \in Symbols
      PROVE  S!PositionSize(trade, held \cup {s}).quantity <= size.quantity
  <2>1. PICK d \in BOOLEAN : d = S!Clustered(trade.symbol, held \cup {s})
    BY DEF S!Clustered
  <2>2. c => d
    BY <1>1, <2>1 DEF S!Clustered
  <2>3. S!PositionSize(trade, held \cup {s}).quantity = Sold(trade, d)
    BY <1>2, <2>1, SizeIs
  <2>4. Edge(trade) <= Edge(trade)
    BY <1>2, EdgeIs
  <2> QED
    BY <1>1, <1>2, <2>2, <2>3, <2>4, WantedMonotone
<1>4. ASSUME NEW p \in Posteriors, p >= trade.posterior
      PROVE  S!PositionSize([trade EXCEPT !.posterior = p], held).quantity >= size.quantity
  <2>1. PICK v : v = [trade EXCEPT !.posterior = p]
    OBVIOUS
  <2>2. /\ v \in S!Trade /\ v.posterior = p /\ v.symbol = trade.symbol
        /\ v.win = trade.win /\ v.loss = trade.loss
        /\ v.account = trade.account /\ v.minQty = trade.minQty
    BY <1>2, <2>1 DEF S!Trade
  <2>3. Win(v) = Win(trade) /\ Loss(v) = Loss(trade)
    BY <2>2 DEF Win, Loss
  <2>4. Full(v) = Full(trade)
    BY <2>2, <2>3 DEF Full
  <2>5. Edge(trade) <= Edge(v)
    <3>1. PICK w \in Nat, l \in Nat : w = Win(trade) /\ l = Loss(trade)
      BY <1>2, TradeTyped
    <3>2. PICK o \in Nat, n \in Nat : o = trade.posterior /\ n = p /\ o <= Scale /\ n <= Scale
      BY <1>2, <2>2, TradeTyped
    <3>3. Scale - o \in Nat /\ Scale - n \in Nat /\ o <= n /\ Scale - n <= Scale - o
      BY <1>4, <3>2, UnitsAre
    <3>4. o * w <= n * w /\ (Scale - n) * l <= (Scale - o) * l
      BY <3>1, <3>3, ProductMonotone
    <3>5. PICK a \in Nat, b \in Nat, x \in Nat, y \in Nat :
             a = o * w /\ b = (Scale - o) * l /\ x = n * w /\ y = (Scale - n) * l
      <4>1. ASSUME NEW e \in Nat, NEW g \in Nat
            PROVE  e * g \in Nat
        OBVIOUS
      <4> QED
        BY <3>1, <3>2, <3>3, <4>1
    <3>6. a - b <= x - y
      BY <3>4, <3>5
    <3>7. /\ Edge(trade) = IF w = 0 THEN 0 ELSE S!Greatest(0, a - b)
          /\ Edge(v) = IF w = 0 THEN 0 ELSE S!Greatest(0, x - y)
      BY <2>2, <2>3, <3>1, <3>2, <3>5 DEF Edge
    <3> QED
      BY <3>6, <3>7 DEF S!Greatest
  <2>6. S!PositionSize(v, held).quantity = Sold(v, c)
    BY <1>1, <2>2, SizeIs
  <2>7. size.quantity <= S!PositionSize(v, held).quantity
    BY <1>1, <1>2, <2>2, <2>4, <2>5, <2>6, WantedMonotone
  <2>8. size.quantity \in Nat /\ S!PositionSize(v, held).quantity \in Nat
    <3>1. Lot * Wanted(trade, c) \in Nat /\ Lot * Wanted(v, c) \in Nat
            /\ trade.minQty \in Nat /\ v.minQty \in Nat
      BY <1>2, <2>2, WantedIs, TradeTyped
    <3> QED
      BY <1>1, <2>6, <3>1 DEF Sold, S!Greatest
  <2> QED
    BY <2>1, <2>7, <2>8
<1> QED
  BY <1>3, <1>4

(* A position keeps to 5% of the account, to 2.5% beside a correlated one, *)
(* up to half a lot and the broker's minimum; the Kelly fraction cannot    *)
(* veto a trade, above the floor of the arbiter the cap decides alone, up  *)
(* to half a lot, and rounding never turns the order of the evidence       *)
(* round. For any posteriors, averages, accounts, minima and correlation   *)
(* groups.                                                                 *)
THEOREM SizeKeepsLimitsTheorem == Spec => []SizeKeepsLimits
<1>1. SizeDecided => S!TypeOK /\ S!SizeKeepsLimits
  BY SizeTyped, CappedUpToRounding, NoEdgeMinimum, CapDoesDecide, SizeIsMonotone
     DEF S!SizeKeepsLimits
<1> QED
  BY <1>1, AlgorithmsRun, SizeDecidedAlways, PTL DEF SizeKeepsLimits
-----------------------------------------------------------------------------
(* WalkForward *)

LEMMA WindowSizes ==
  /\ Bars \in Nat /\ InSample \in Nat /\ InSample > 0 /\ OutSample \in Nat /\ OutSample > 0
  /\ Params \subseteq Nat /\ IsFiniteSet(Params) /\ None \notin Params
<1>1. W!WalkForwardAssumption
  BY AlgorithmsAssumption
<1>2. Params \subseteq Nat /\ IsFiniteSet(Params) /\ None \notin Params
  BY <1>1 DEF W!WalkForwardAssumption, W!IsFiniteSet, IsFiniteSet
<1>3. Bars \in Nat /\ InSample \in Nat \ {0} /\ OutSample \in Nat \ {0}
  BY <1>1 DEF W!WalkForwardAssumption
<1> QED
  BY <1>2, <1>3

LEMMA MetricsTyped ==
  ASSUME NEW w \in W!Window, NEW p \in Params
  PROVE  /\ w.is[p].win \in Nat /\ w.is[p].trades \in Nat /\ w.is[p].sharpe \in Int
         /\ w.oos[p].win \in Nat /\ w.oos[p].trades \in Nat /\ w.oos[p].sharpe \in Int
<1>1. w.is[p] \in W!Metric /\ w.oos[p] \in W!Metric
  BY DEF W!Window
<1>2. (\A r \in GridWinRates : r \in Nat) /\ Trades \subseteq Nat /\ Sharpes \subseteq Int
  BY AlgorithmsAssumption DEF W!WalkForwardAssumption
<1>3. ASSUME NEW m \in W!Metric PROVE m.win \in Nat /\ m.trades \in Nat /\ m.sharpe \in Int
  <2>1. CASE m = [win |-> 0, sharpe |-> 0, trades |-> 0]
    BY <2>1
  <2>2. CASE m \in [win : GridWinRates, sharpe : Sharpes, trades : Trades \ {0}]
    <3>1. m.win \in GridWinRates /\ m.trades \in Trades /\ m.sharpe \in Sharpes
      BY <2>2
    <3> QED
      BY <1>2, <3>1
  <2> QED
    BY <2>1, <2>2 DEF W!Metric
<1> QED
  BY <1>1, <1>3

LEMMA LeastNatural ==
  ASSUME NEW T, T \subseteq Nat, T # {}
  PROVE  \E x \in T : \A y \in T : x <= y
<1> DEFINE R == OpToRel(<, Nat)
<1>1. \A x, y \in Nat : y < x => <<y, x>> \in R
  BY DEF OpToRel
<1>2. IsWellFoundedOn(R, Nat)
  BY NatLessThanWellFounded
<1> HIDE DEF R
<1>3. PICK x \in T : \A y \in T : ~(<<y, x>> \in R)
  BY <1>2, WFMin
<1>4. \A y \in T : ~(y < x)
  BY <1>1, <1>3
<1> QED
  BY <1>4

\* A counterexample of least size would lose its property with a member.
LEMMA GreatestInteger ==
  ASSUME NEW T, T \subseteq Int, T # {}, IsFiniteSet(T)
  PROVE  \E x \in T : \A y \in T : y <= x
<1> DEFINE Bad(X) == /\ X \subseteq Int /\ X # {} /\ IsFiniteSet(X)
                     /\ ~\E x \in X : \A y \in X : y <= x
           N == {n \in Nat : \E X \in SUBSET T : Bad(X) /\ Cardinality(X) = n}
<1> SUFFICES ASSUME Bad(T) PROVE FALSE
  OBVIOUS
<1>1. Cardinality(T) \in N
  <2>1. Cardinality(T) \in Nat
    BY FS_CardinalityType
  <2> QED
    BY <2>1
<1>2. PICK n \in N : \A m \in N : n <= m
  BY <1>1, LeastNatural
<1>3. PICK X \in SUBSET T : Bad(X) /\ Cardinality(X) = n
  BY <1>2
<1>4. PICK x \in X : TRUE
  BY <1>3
<1>5. /\ IsFiniteSet(X \ {x}) /\ Cardinality(X \ {x}) = n - 1
      /\ n \in Nat /\ n - 1 \in Nat
  <2>1. IsFiniteSet(X \ {x}) /\ Cardinality(X \ {x}) = Cardinality(X) - 1
    BY <1>3, <1>4, FS_RemoveElement
  <2>2. Cardinality(X \ {x}) \in Nat
    BY <2>1, FS_CardinalityType
  <2> QED
    BY <1>2, <1>3, <2>1, <2>2
<1>6. ~Bad(X \ {x})
  <2>1. ASSUME Bad(X \ {x}) PROVE n - 1 \in N
    BY <1>5, <2>1
  <2>2. n <= n - 1 => FALSE
    BY <1>5
  <2> QED
    BY <1>2, <2>1, <2>2
<1>7. CASE X \ {x} = {}
  <2>1. X = {x} /\ x \in Int
    BY <1>3, <1>4, <1>7
  <2> QED
    BY <1>3, <2>1
<1>8. CASE X \ {x} # {}
  <2>1. PICK y \in X \ {x} : \A z \in X \ {x} : z <= y
    BY <1>3, <1>5, <1>6, <1>8
  <2>2. x \in Int /\ \A z \in X : z \in Int
    BY <1>3, <1>4
  <2>3. \A z \in X : z <= (IF x <= y THEN y ELSE x)
    BY <2>1, <2>2
  <2>4. (IF x <= y THEN y ELSE x) \in X
    BY <1>4, <2>1
  <2> QED
    BY <1>3, <2>3, <2>4
<1> QED
  BY <1>7, <1>8

\* idxmax finds one: the first of the candidates with the greatest ratio.
LEMMA BestIs ==
  ASSUME NEW w \in W!Window, NEW C, C \subseteq Params, C # {}
  PROVE  /\ W!Best(w, C) \in C
         /\ \A q \in C : w.is[q].sharpe <= w.is[W!Best(w, C)].sharpe
<1> DEFINE T == {w.is[p].sharpe : p \in C}
<1>1. T \subseteq Int /\ T # {} /\ IsFiniteSet(T)
  <2>1. IsFiniteSet(C)
    BY WindowSizes, FS_Subset
  <2>2. IsFiniteSet(T)
    <3> DEFINE f == [p \in C |-> w.is[p].sharpe]
    <3>1. f \in Surjection(C, T)
      BY DEF Surjection
    <3> QED
      BY <2>1, <3>1, FS_Surjection
  <2> QED
    BY <2>2, MetricsTyped
<1>2. PICK m \in T : \A x \in T : x <= m
  BY <1>1, GreatestInteger
<1> DEFINE U == {p \in C : w.is[p].sharpe = m}
<1>3. PICK p \in U : \A q \in U : p <= q
  <2>1. U \subseteq Nat /\ U # {}
    BY <1>2, WindowSizes
  <2> QED
    BY <2>1, LeastNatural
<1>4. ASSUME NEW q \in C
      PROVE  \/ w.is[q].sharpe < w.is[p].sharpe
             \/ w.is[q].sharpe = w.is[p].sharpe /\ p <= q
  <2>1. w.is[q].sharpe \in T
    OBVIOUS
  <2>2. w.is[q].sharpe \in Int /\ m \in Int
    BY <1>1, <1>2, <2>1
  <2>3. w.is[q].sharpe < m \/ w.is[q].sharpe = m
    <3>1. w.is[q].sharpe <= m
      BY <1>2, <2>1
    <3> QED
      BY <2>2, <3>1
  <2> QED
    BY <1>3, <2>3
<1>5. /\ W!Best(w, C) \in C
      /\ \A q \in C : \/ w.is[q].sharpe < w.is[W!Best(w, C)].sharpe
                      \/ /\ w.is[q].sharpe = w.is[W!Best(w, C)].sharpe
                         /\ W!Best(w, C) <= q
  BY <1>3, <1>4 DEF W!Best
<1>6. \A q \in C : w.is[q].sharpe \in Int /\ w.is[W!Best(w, C)].sharpe \in Int
  BY <1>5, MetricsTyped
<1> QED
  BY <1>5, <1>6

LEMMA VerdictTypedResult ==
  ASSUME NEW w \in W!Window, at \in Nat
  PROVE  W!Verdict(w) \in W!Result /\ W!Verdict(w).start = at
<1>1. PICK C : C = W!Candidates(w, W!MinTrades)
  OBVIOUS
<1>2. C \subseteq Params
  BY <1>1 DEF W!Candidates
<1>3. CASE C = {}
  BY <1>1, <1>3 DEF W!Verdict, W!Result
<1>4. CASE C # {}
  <2>1. W!Best(w, C) \in Params
    BY <1>2, <1>4, BestIs
  <2>2. W!Robust(w, W!Best(w, C)) \in BOOLEAN
    BY DEF W!Robust, W!BoundedDecay
  <2>3. W!Verdict(w) = [start |-> at, robust |-> W!Robust(w, W!Best(w, C)),
                        params |-> W!Best(w, C)]
    BY <1>1, <1>4 DEF W!Verdict
  <2> QED
    BY <2>1, <2>2, <2>3 DEF W!Result
<1> QED
  BY <1>3, <1>4
\* The windows behind the one at hand: their validations lie before it, the
\* last one directly; nothing is looked at once something is published.
WindowsInv ==
  /\ at \in Nat
  /\ window \in W!Window \cup {None}
  /\ results \in Seq(W!Result)
  /\ \A j \in 1..Len(results) : results[j].start + OutSample <= at
  /\ \A j, k \in 1..Len(results) : j < k => results[j].start + OutSample <= results[k].start
  /\ Len(results) > 0 => results[Len(results)].start + OutSample = at
  /\ published \in Params \cup {None}
  /\ published /= None =>
       /\ window = None
       /\ \E k \in 1..Len(results) :
            /\ results[k].robust
            /\ results[k].params = published
            /\ \A j \in 1..Len(results) : j > k => ~results[j].robust

LEMMA WindowsInit == W!Init => WindowsInv
<1> SUFFICES ASSUME W!Init PROVE WindowsInv
  OBVIOUS
<1>1. at = 0 /\ window = None /\ results = <<>> /\ published = None
  BY DEF W!Init
<1>2. results \in Seq(W!Result) /\ Len(results) = 0
  BY <1>1
<1> QED
  BY <1>1, <1>2 DEF WindowsInv

LEMMA WindowsStep == WindowsInv /\ [W!Next]_(W!vars) => WindowsInv'
<1> SUFFICES ASSUME WindowsInv, [W!Next]_(W!vars) PROVE WindowsInv'
  OBVIOUS
<1>0. OutSample \in Nat /\ at \in Nat
  BY WindowSizes DEF WindowsInv
<1>1. CASE W!Backtest
  BY <1>1 DEF W!Backtest, WindowsInv
<1>2. CASE W!Judge
  <2>1. /\ window /= None /\ window' = None /\ published' = published
        /\ results' = Append(results, W!Verdict(window)) /\ at' = at + OutSample
    BY <1>2 DEF W!Judge, W!NextStart
  <2>2. /\ window \in W!Window /\ results \in Seq(W!Result) /\ published = None
        /\ \A j \in 1..Len(results) : results[j].start + OutSample <= at
        /\ \A j, k \in 1..Len(results) : j < k => results[j].start + OutSample <= results[k].start
    BY <2>1 DEF WindowsInv
  <2>3. PICK r \in W!Result : r = W!Verdict(window) /\ r.start = at
    BY <1>0, <2>2, VerdictTypedResult
  <2>4. PICK n \in Nat : n = Len(results)
    BY <2>2
  <2>5. /\ results' \in Seq(W!Result) /\ Len(results') = n + 1 /\ results'[n + 1] = r
        /\ \A j \in 1..n : results'[j] = results[j]
    BY <2>1, <2>2, <2>3, <2>4
  <2>6. ASSUME NEW j \in 1..n PROVE results[j].start \in Nat
    <3>1. results[j] \in W!Result
      BY <2>2, <2>4
    <3> QED
      BY <3>1 DEF W!Result
  <2>7. at' \in Nat /\ at <= at'
    BY <1>0, <2>1
  <2>8. ASSUME NEW j \in 1..(n + 1)
        PROVE  results'[j].start + OutSample <= at'
    <3>1. CASE j = n + 1
      BY <1>0, <2>1, <2>3, <2>5, <3>1
    <3>2. CASE j \in 1..n
      <4>1. results[j].start + OutSample <= at /\ results[j].start \in Nat
        BY <2>2, <2>4, <2>6, <3>2
      <4>2. results'[j] = results[j]
        BY <2>5, <3>2
      <4> QED
        BY <1>0, <2>7, <4>1, <4>2
    <3> QED
      BY <2>4, <3>1, <3>2
  <2>9. ASSUME NEW j \in 1..(n + 1), NEW k \in 1..(n + 1), j < k
        PROVE  results'[j].start + OutSample <= results'[k].start
    <3>1. j \in 1..n /\ results'[j] = results[j]
      BY <2>4, <2>5, <2>9
    <3>2. CASE k = n + 1
      BY <2>2, <2>3, <2>4, <2>5, <3>1, <3>2
    <3>3. CASE k \in 1..n
      <4>1. results'[k] = results[k]
        BY <2>5, <3>3
      <4> QED
        BY <2>2, <2>4, <2>9, <3>1, <3>3, <4>1
    <3> QED
      BY <2>4, <3>2, <3>3
  <2>10. results'[Len(results')].start + OutSample = at'
    BY <1>0, <2>1, <2>3, <2>5
  <2>11. \A j \in 1..Len(results') : results'[j].start + OutSample <= at'
    BY <2>5, <2>8
  <2>12. \A j, k \in 1..Len(results') : j < k => results'[j].start + OutSample <= results'[k].start
    BY <2>5, <2>9
  <2>13. published' = None /\ window' = None
    BY <2>1, <2>2
  <2> QED
    BY <2>5, <2>7, <2>10, <2>11, <2>12, <2>13 DEF WindowsInv
<1>3. CASE W!Publish
  <2>1. /\ window = None /\ window' = None /\ at' = at /\ results' = results
        /\ results \in Seq(W!Result)
    BY <1>3 DEF W!Publish, WindowsInv
  <2>2. PICK k \in W!RobustWindows :
           /\ \A j \in W!RobustWindows : j <= k
           /\ published' = results[k].params
    BY <1>3 DEF W!Publish
  <2>3. PICK n \in Nat : n = Len(results) /\ DOMAIN results = 1..n
    BY <2>1
  <2>4. k \in 1..n /\ results[k].robust
    BY <2>2, <2>3 DEF W!RobustWindows
  <2>5. ASSUME NEW j \in 1..n, j > k PROVE ~results[j].robust
    <3>1. results[j].robust => j \in W!RobustWindows
      BY <2>3 DEF W!RobustWindows
    <3>2. ~(j <= k)
      BY <2>3, <2>4, <2>5
    <3> QED
      BY <2>2, <3>1, <3>2
  <2>6. published' \in Params \cup {None}
    <3>1. results[k] \in W!Result
      BY <2>1, <2>3, <2>4
    <3> QED
      BY <2>2, <3>1 DEF W!Result
  <2>7. \E i \in 1..Len(results') :
           /\ results'[i].robust
           /\ results'[i].params = published'
           /\ \A j \in 1..Len(results') : j > i => ~results'[j].robust
    BY <2>1, <2>2, <2>3, <2>4, <2>5
  <2> QED
    BY <2>1, <2>6, <2>7 DEF WindowsInv
<1>4. CASE UNCHANGED W!vars
  BY <1>4 DEF W!vars, WindowsInv
<1> QED
  BY <1>1, <1>2, <1>3, <1>4 DEF W!Next

LEMMA WindowsApart ==
  ASSUME WindowsInv
  PROVE  W!TypeOK /\ W!ValidatedOnce /\ W!UsesLatestBars /\ W!PublishedIsLatest
<1>1. results \in Seq(W!Result) /\ at \in Nat
  BY DEF WindowsInv
<1>2. PICK n \in Nat : n = Len(results) /\ DOMAIN results = 1..n
  BY <1>1
<1>3. ASSUME NEW j \in 1..n PROVE results[j].start \in Nat
  <2>1. results[j] \in W!Result
    BY <1>1, <1>2
  <2> QED
    BY <2>1 DEF W!Result
<1>4. W!TypeOK
  BY DEF W!TypeOK, WindowsInv
<1>5. W!ValidatedOnce
  <2>1. ASSUME NEW j \in 1..n, NEW k \in 1..n, j < k
        PROVE  results[j].start + (InSample + OutSample) <= results[k].start + InSample
    <3>1. results[j].start + OutSample <= results[k].start
      BY <1>2, <2>1 DEF WindowsInv
    <3> QED
      BY <1>3, <3>1, WindowSizes
  <2> QED
    BY <1>2, <2>1 DEF W!ValidatedOnce, W!WindowBars
<1>6. W!UsesLatestBars
  <2> SUFFICES ASSUME ~W!MoreWindows, results /= <<>>
      PROVE  Bars - (results[Len(results)].start + W!WindowBars) < OutSample
    BY DEF W!UsesLatestBars
  <2>1. n > 0
    BY <1>1, <1>2
  <2>2. results[n].start + OutSample = at /\ results[n].start \in Nat
    BY <1>2, <1>3, <2>1 DEF WindowsInv
  <2>3. ~(at + (InSample + OutSample) <= Bars)
    BY DEF W!MoreWindows, W!WindowBars
  <2>4. Bars - (results[n].start + (InSample + OutSample)) < OutSample
    BY <1>1, <2>2, <2>3, WindowSizes
  <2> QED
    BY <1>2, <2>4 DEF W!WindowBars
<1>7. W!PublishedIsLatest
  BY <1>2 DEF W!PublishedIsLatest, WindowsInv
<1> QED
  BY <1>4, <1>5, <1>6, <1>7

LEMMA RobustIsEarned ==
  ASSUME WindowsInv
  PROVE  W!RobustEarned
<1> SUFFICES ASSUME window /= None, W!Verdict(window).robust,
                    NEW p, p = W!Verdict(window).params
    PROVE  /\ window.is[p].trades >= 10 /\ window.oos[p].trades > 0
           /\ window.is[p].win >= W!MinWinRate /\ window.oos[p].win >= W!MinWinRate
           /\ window.is[p].sharpe > 0 /\ 10 * window.oos[p].sharpe >= 6 * window.is[p].sharpe
           /\ \A q \in Params :
                window.is[q].win >= W!MinWinRate /\ window.is[q].trades >= 10
                => window.is[q].sharpe <= window.is[p].sharpe
  BY DEF W!RobustEarned
<1>1. window \in W!Window
  BY DEF WindowsInv
<1>2. PICK C : C = W!Candidates(window, W!MinTrades)
  OBVIOUS
<1>3. C /= {} /\ C \subseteq Params
  BY <1>2 DEF W!Candidates, W!Verdict
<1>4. p = W!Best(window, C) /\ W!Robust(window, p)
  BY <1>2, <1>3 DEF W!Verdict
<1>5. p \in C /\ \A q \in C : window.is[q].sharpe <= window.is[p].sharpe
  BY <1>1, <1>3, <1>4, BestIs
<1>6. window.is[p].win >= W!MinWinRate /\ window.is[p].trades >= 10
  BY <1>2, <1>5 DEF W!Candidates, W!MinTrades
<1>7. /\ window.oos[p].trades > 0 /\ window.oos[p].win >= W!MinWinRate
      /\ window.is[p].sharpe > 0 /\ 10 * window.oos[p].sharpe >= 6 * window.is[p].sharpe
  <2>1. window.oos[p].trades > 0
    BY <1>4 DEF W!Robust, W!MinWinRate
  <2> QED
    BY <1>4, <2>1 DEF W!Robust, W!BoundedDecay
<1>8. \A q \in Params : window.is[q].win >= W!MinWinRate /\ window.is[q].trades >= 10 => q \in C
  BY <1>2 DEF W!Candidates, W!MinTrades
<1> QED
  BY <1>5, <1>6, <1>7, <1>8

LEMMA EnginesDoAgree ==
  ASSUME WindowsInv
  PROVE  W!EnginesAgree
<1> SUFFICES ASSUME window /= None, \A p \in Params : window.is[p].trades >= W!MinTrades
    PROVE  W!Verdict(window).robust <=> W!LegacyRobust(window)
  BY DEF W!EnginesAgree
<1>1. window \in W!Window
  BY DEF WindowsInv
<1>2. PICK C : C = W!Candidates(window, W!MinTrades)
  OBVIOUS
<1>3. C = W!Candidates(window, 0)
  <2>1. \A p \in Params : window.is[p].trades >= 0
    BY <1>1, MetricsTyped
  <2> QED
    BY <1>2, <2>1 DEF W!Candidates
<1>4. CASE C = {}
  BY <1>2, <1>3, <1>4 DEF W!Verdict, W!LegacyRobust
<1>5. CASE C /= {}
  <2>1. PICK p : p = W!Best(window, C)
    OBVIOUS
  <2>2. W!Verdict(window).robust <=> W!Robust(window, p)
    BY <1>2, <1>5, <2>1 DEF W!Verdict
  <2>3. W!LegacyRobust(window) <=>
          /\ window.oos[p].trades > 0
          /\ window.oos[p].win >= W!MinWinRate
          /\ W!BoundedDecay(window.is[p].sharpe, window.oos[p].sharpe)
    BY <1>3, <1>5, <2>1 DEF W!LegacyRobust
  <2>4. W!Robust(window, p) <=>
          /\ window.oos[p].trades > 0
          /\ window.oos[p].win >= W!MinWinRate
          /\ W!BoundedDecay(window.is[p].sharpe, window.oos[p].sharpe)
    <3>1. CASE window.oos[p].trades > 0
      BY <3>1 DEF W!Robust
    <3>2. CASE ~(window.oos[p].trades > 0)
      BY <3>2 DEF W!Robust, W!MinWinRate
    <3> QED
      BY <3>1, <3>2
  <2> QED
    BY <2>2, <2>3, <2>4
<1> QED
  BY <1>4, <1>5

(* What the optimiser publishes was chosen in the most recent window with  *)
(* a robust choice and passed there, out of sample, on bars that validate  *)
(* no other window; less than one step of the bars was left unused, and    *)
(* both engines call the same windows robust. For any grid, number of bars *)
(* and lengths of the two parts of a window.                               *)
THEOREM PublishedIsEarnedTheorem == Spec => []PublishedIsEarned
<1>1. WindowsInv => W!TypeOK /\ W!PublishedIsEarned
  BY WindowsApart, RobustIsEarned, EnginesDoAgree DEF W!PublishedIsEarned
<1>2. W!Spec => []WindowsInv
  BY WindowsInit, WindowsStep, PTL DEF W!Spec
<1> QED
  BY <1>1, <1>2, AlgorithmsRun, PTL DEF PublishedIsEarned

-----------------------------------------------------------------------------
(* Recursion over the natural numbers up to a bound *)

\* A set with zero that is closed under the successor reaches to the bound.
LEMMA UpTo ==
  ASSUME NEW n \in Nat, NEW T, 0 \in T, \A k \in Nat : k < n /\ k \in T => k + 1 \in T
  PROVE  \A k \in 0..n : k \in T
<1> SUFFICES ASSUME NEW k \in 0..n, k \notin T
             PROVE  FALSE
  OBVIOUS
<1> DEFINE Out == {i \in 0..n : i \notin T}
<1>1. Out \subseteq Nat /\ Out # {}
  OBVIOUS
<1>2. PICK x \in Out : \A y \in Out : x <= y
  BY <1>1, LeastNatural
<1>3. x \in Nat /\ x <= n /\ x \notin T /\ x # 0
  BY <1>2
<1>4. x - 1 \in Nat /\ x - 1 < n /\ x - 1 \notin Out
  BY <1>2, <1>3
<1>5. x - 1 \in T
  BY <1>4
<1> QED
  BY <1>3, <1>4, <1>5

Steps(N, D) == [(1..N) \X D -> D]

IsRecursive(f, N, D, base, step) ==
  f \in [0..N -> D] /\ f[0] = base /\ \A k \in 1..N : f[k] = step[<<k, f[k - 1]>>]

\* A recursive function with values in D exists.
LEMMA RecursionExists ==
  ASSUME NEW N \in Nat, NEW D, NEW base \in D, NEW step \in Steps(N, D)
  PROVE  \E f : IsRecursive(f, N, D, base, step)
<1> USE DEF Steps
<1> DEFINE Good(f, n) == f[0] = base /\ \A k \in 1..n : f[k] = step[<<k, f[k - 1]>>]
<1> DEFINE T == {n \in 0..N : \E f \in [0..n -> D] : Good(f, n)}
<1>1. 0 \in T
  <2> DEFINE f == [k \in 0..0 |-> base]
  <2>1. f \in [0..0 -> D] /\ f[0] = base /\ 1..0 = {}
    OBVIOUS
  <2>2. Good(f, 0)
    BY <2>1
  <2>3. 0 \in 0..N
    OBVIOUS
  <2> HIDE DEF Good, f
  <2> QED
    BY <2>1, <2>2, <2>3
<1>2. ASSUME NEW n \in Nat, n < N, n \in T PROVE n + 1 \in T
  <2>1. PICK f \in [0..n -> D] : Good(f, n)
    BY <1>2
  <2> DEFINE g == [k \in 0..(n + 1) |-> IF k = n + 1 THEN step[<<n + 1, f[n]>>] ELSE f[k]]
  <2>2. n + 1 \in 1..N /\ f[n] \in D
    BY <1>2
  <2>3. step[<<n + 1, f[n]>>] \in D
    BY <2>2
  <2>4. g \in [0..(n + 1) -> D]
    BY <2>3
  <2>5. g[0] = base
    BY <2>1
  <2>6. ASSUME NEW k \in 1..(n + 1) PROVE g[k] = step[<<k, g[k - 1]>>]
    <3>1. CASE k = n + 1
      <4>1. k - 1 = n /\ g[n] = f[n] /\ g[k] = step[<<n + 1, f[n]>>]
        BY <3>1
      <4> QED
        BY <3>1, <4>1
    <3>2. CASE k # n + 1
      <4>1. k \in 1..n /\ k - 1 \in 0..n /\ k - 1 # n + 1 /\ k \in 0..(n + 1) /\ k - 1 \in 0..(n + 1)
        BY <3>2
      <4>2. g[k] = f[k] /\ g[k - 1] = f[k - 1]
        BY <3>2, <4>1
      <4> QED
        BY <2>1, <4>1, <4>2
    <3> QED
      BY <3>1, <3>2
  <2>7. Good(g, n + 1)
    BY <2>5, <2>6
  <2>8. n + 1 \in 0..N
    BY <1>2
  <2> HIDE DEF Good, g
  <2> QED
    BY <2>4, <2>7, <2>8
<1> HIDE DEF T
<1>3. \A k \in 0..N : k \in T
  BY <1>1, <1>2, UpTo
<1>4. N \in T
  BY <1>3
<1> QED
  BY <1>4 DEF T, IsRecursive

-----------------------------------------------------------------------------
(* Partial sums *)

\* F holds the sums of the first members of v.
IsSums(F, v, n) ==
  F \in [0..n -> Int] /\ F[0] = 0 /\ \A k \in 1..n : F[k] = F[k - 1] + v[k]

Terms(n) == [1..n -> Int]

LEMMA SumsExist ==
  ASSUME NEW n \in Nat, NEW v \in Terms(n)
  PROVE  \E F : IsSums(F, v, n)
<1> DEFINE step == [x \in (1..n) \X Int |-> x[2] + v[x[1]]]
<1>1. step \in Steps(n, Int)
  BY DEF Steps, Terms
<1>2. \A k \in 1..n : \A y \in Int : step[<<k, y>>] = y + v[k]
  OBVIOUS
<1> HIDE DEF step
<1>3. PICK z \in Int : z = 0
  OBVIOUS
<1>4. PICK F : IsRecursive(F, n, Int, z, step)
  BY <1>1, RecursionExists
<1>5. F \in [0..n -> Int] /\ F[0] = 0 /\ \A k \in 1..n : F[k] = step[<<k, F[k - 1]>>]
  BY <1>3, <1>4 DEF IsRecursive
<1>6. ASSUME NEW k \in 1..n PROVE F[k] = F[k - 1] + v[k]
  <2>1. k - 1 \in 0..n
    OBVIOUS
  <2>2. F[k - 1] \in Int
    BY <2>1, <1>5
  <2> QED
    BY <1>2, <1>5, <2>2
<1> QED
  BY <1>5, <1>6 DEF IsSums

\* Whatever is true of the terms two by two is true of the sums.
PairsBelow(a, b, c, d, O) == \A k \in O : a[k] + b[k] <= c[k] + d[k]

LEMMA SumsCompare ==
  ASSUME NEW n \in Nat,
         NEW a \in Terms(n), NEW b \in Terms(n), NEW c \in Terms(n), NEW d \in Terms(n),
         NEW SA, IsSums(SA, a, n), NEW SB, IsSums(SB, b, n),
         NEW SC, IsSums(SC, c, n), NEW SD, IsSums(SD, d, n),
         PairsBelow(a, b, c, d, 1..n)
  PROVE  PairsBelow(SA, SB, SC, SD, 0..n)
<1> USE DEF Terms, PairsBelow
<1> DEFINE T == {k \in 0..n : SA[k] + SB[k] <= SC[k] + SD[k]}
<1>1. 0 \in T
  BY DEF IsSums
<1>2. ASSUME NEW k \in Nat, k < n, k \in T PROVE k + 1 \in T
  <2>1. k \in 0..n /\ k + 1 \in 1..n /\ (k + 1) - 1 = k
    BY <1>2
  <2>2. /\ SA[k] \in Int /\ SB[k] \in Int /\ SC[k] \in Int /\ SD[k] \in Int
        /\ a[k + 1] \in Int /\ b[k + 1] \in Int /\ c[k + 1] \in Int /\ d[k + 1] \in Int
    BY <2>1 DEF IsSums
  <2>3. /\ SA[k + 1] = SA[k] + a[k + 1] /\ SB[k + 1] = SB[k] + b[k + 1]
        /\ SC[k + 1] = SC[k] + c[k + 1] /\ SD[k + 1] = SD[k] + d[k + 1]
    BY <2>1 DEF IsSums
  <2>4. a[k + 1] + b[k + 1] <= c[k + 1] + d[k + 1] /\ SA[k] + SB[k] <= SC[k] + SD[k]
    BY <2>1, <1>2
  <2>5. SA[k + 1] + SB[k + 1] <= SC[k + 1] + SD[k + 1]
    <3> HIDE DEF T
    <3>1. \A p, q, r, s, t, u, v, w \in Int :
            p + q <= r + s /\ t + u <= v + w => (p + t) + (q + u) <= (r + v) + (s + w)
      OBVIOUS
    <3>2. (SA[k] + a[k + 1]) + (SB[k] + b[k + 1]) <= (SC[k] + c[k + 1]) + (SD[k] + d[k + 1])
      BY <2>2, <2>4, <3>1
    <3> QED
      BY <2>3, <3>2
  <2> QED
    BY <2>1, <2>5
<1> HIDE DEF T
<1>3. \A k \in 0..n : k \in T
  BY <1>1, <1>2, UpTo
<1> QED
  BY <1>3 DEF T

\* ... of one term by one as well.
LEMMA SumsMonotone ==
  ASSUME NEW n \in Nat, NEW a \in Terms(n), NEW b \in Terms(n),
         NEW SA, IsSums(SA, a, n), NEW SB, IsSums(SB, b, n),
         \A k \in 1..n : a[k] <= b[k]
  PROVE  \A k \in 0..n : SA[k] <= SB[k]
<1>1. PairsBelow(a, a, b, b, 1..n)
  BY DEF PairsBelow, Terms
<1>2. PairsBelow(SA, SA, SB, SB, 0..n)
  BY <1>1, SumsCompare
<1>3. \A k \in 0..n : SA[k] \in Int /\ SB[k] \in Int
  BY DEF IsSums
<1>4. \A k \in 0..n : SA[k] + SA[k] <= SB[k] + SB[k]
  BY <1>2 DEF PairsBelow
<1> QED
  BY <1>3, <1>4

LEMMA SumsUnique ==
  ASSUME NEW n \in Nat, NEW v \in Terms(n),
         NEW F, IsSums(F, v, n), NEW G, IsSums(G, v, n)
  PROVE  F = G
<1>1. \A k \in 1..n : v[k] <= v[k]
  BY DEF Terms
<1>2. \A k \in 0..n : F[k] <= G[k] /\ G[k] <= F[k]
  BY <1>1, SumsMonotone
<1>3. F \in [0..n -> Int] /\ G \in [0..n -> Int]
  BY DEF IsSums
<1>4. \A k \in 0..n : F[k] = G[k]
  BY <1>2, <1>3
<1> QED
  BY <1>3, <1>4

LEMMA SumsScale ==
  ASSUME NEW n \in Nat, NEW c \in Int, NEW a \in Terms(n), NEW b \in Terms(n),
         NEW SA, IsSums(SA, a, n), NEW SB, IsSums(SB, b, n),
         \A k \in 1..n : b[k] = c * a[k]
  PROVE  \A k \in 0..n : SB[k] = c * SA[k]
<1> USE DEF Terms
<1> DEFINE T == {k \in 0..n : SB[k] = c * SA[k]}
<1>1. 0 \in T
  BY DEF IsSums
<1>2. ASSUME NEW k \in Nat, k < n, k \in T PROVE k + 1 \in T
  <2>1. k \in 0..n /\ k + 1 \in 1..n /\ (k + 1) - 1 = k
    BY <1>2
  <2>2. SA[k] \in Int /\ SB[k] \in Int /\ a[k + 1] \in Int
    BY <2>1 DEF IsSums
  <2>3. SA[k + 1] = SA[k] + a[k + 1] /\ SB[k + 1] = SB[k] + c * a[k + 1]
    BY <2>1 DEF IsSums
  <2>4. \A x, y \in Int : c * x + c * y = c * (x + y)
    OBVIOUS
  <2>5. SB[k] = c * SA[k]
    BY <1>2
  <2>6. SB[k + 1] = c * SA[k + 1]
    BY <2>2, <2>3, <2>4, <2>5
  <2> QED
    BY <2>1, <2>6
<1> HIDE DEF T
<1>3. \A k \in 0..n : k \in T
  BY <1>1, <1>2, UpTo
<1> QED
  BY <1>3 DEF T

\* Sums of natural numbers grow.
LEMMA SumsGrow ==
  ASSUME NEW n \in Nat, NEW a \in [1..n -> Nat], NEW SA, IsSums(SA, a, n)
  PROVE  /\ \A k \in 0..n : SA[k] \in Nat
         /\ \A j, k \in 0..n : j <= k => SA[j] <= SA[k]
<1> DEFINE T == {k \in 0..n : SA[k] \in Nat /\ \A j \in 0..k : SA[j] <= SA[k]}
<1>1. 0 \in T
  BY DEF IsSums
<1>2. ASSUME NEW k \in Nat, k < n, k \in T PROVE k + 1 \in T
  <2>1. k \in 0..n /\ k + 1 \in 1..n /\ (k + 1) - 1 = k
    BY <1>2
  <2>2. SA[k] \in Nat /\ a[k + 1] \in Nat /\ SA[k + 1] = SA[k] + a[k + 1]
    BY <1>2, <2>1 DEF IsSums
  <2>3. SA[k + 1] \in Nat /\ SA[k] <= SA[k + 1]
    BY <2>2
  <2>4. ASSUME NEW j \in 0..(k + 1) PROVE SA[j] <= SA[k + 1]
    <3>1. CASE j = k + 1
      BY <3>1, <2>3
    <3>2. CASE j \in 0..k
      <4>1. SA[j] <= SA[k] /\ SA[j] \in Int
        BY <3>2, <1>2, <2>1 DEF IsSums
      <4> QED
        BY <4>1, <2>2, <2>3
    <3> QED
      BY <3>1, <3>2
  <2> QED
    BY <2>1, <2>3, <2>4
<1> HIDE DEF T
<1>3. \A k \in 0..n : k \in T
  BY <1>1, <1>2, UpTo
<1> QED
  BY <1>3 DEF T

\* A sum of natural numbers that is zero has no other terms.
LEMMA SumsVanish ==
  ASSUME NEW n \in Nat, NEW a \in [1..n -> Nat], NEW SA, IsSums(SA, a, n), SA[n] = 0
  PROVE  \A k \in 1..n : a[k] = 0
<1> SUFFICES ASSUME NEW k \in 1..n PROVE a[k] = 0
  OBVIOUS
<1>1. k - 1 \in 0..n /\ k \in 0..n /\ k <= n /\ n \in 0..n
  OBVIOUS
<1>2. SA[k] \in Nat /\ SA[k - 1] \in Nat /\ SA[k] <= SA[n]
  BY <1>1, SumsGrow
<1>3. SA[k] = SA[k - 1] + a[k] /\ a[k] \in Nat
  BY DEF IsSums
<1> QED
  BY <1>2, <1>3

\* One term more or less.
LEMMA SumsPoint ==
  ASSUME NEW n \in Nat, NEW a \in Terms(n), NEW b \in Terms(n), NEW i \in 1..n,
         \A k \in 1..n : k # i => a[k] = b[k],
         NEW SA, IsSums(SA, a, n), NEW SB, IsSums(SB, b, n)
  PROVE  SB[n] = SA[n] + b[i] - a[i]
<1> USE DEF Terms
<1> DEFINE T == {k \in 0..n : SB[k] = SA[k] + (IF k < i THEN 0 ELSE b[i] - a[i])}
<1>0. a[i] \in Int /\ b[i] \in Int
  OBVIOUS
<1>1. 0 \in T
  BY DEF IsSums
<1>2. ASSUME NEW k \in Nat, k < n, k \in T PROVE k + 1 \in T
  <2>1. k \in 0..n /\ k + 1 \in 1..n /\ (k + 1) - 1 = k
    BY <1>2
  <2>2. SA[k] \in Int /\ SB[k] \in Int /\ a[k + 1] \in Int /\ b[k + 1] \in Int
    BY <2>1 DEF IsSums
  <2>3. SA[k + 1] = SA[k] + a[k + 1] /\ SB[k + 1] = SB[k] + b[k + 1]
    BY <2>1 DEF IsSums
  <2>4. SB[k] = SA[k] + (IF k < i THEN 0 ELSE b[i] - a[i])
    BY <1>2
  <2>5. k + 1 # i => a[k + 1] = b[k + 1]
    BY <2>1
  <2>6. SB[k + 1] = SA[k + 1] + (IF k + 1 < i THEN 0 ELSE b[i] - a[i])
    <3> HIDE DEF T
    <3>1. CASE k + 1 < i
      BY <1>0, <2>2, <2>3, <2>4, <2>5, <3>1
    <3>2. CASE k + 1 = i
      <4>1. SB[k] = SA[k]
        BY <2>2, <2>4, <3>2
      <4>2. a[k + 1] = a[i] /\ b[k + 1] = b[i]
        BY <3>2
      <4>3. SB[k + 1] = SA[k + 1] + (b[i] - a[i])
        BY <1>0, <2>2, <2>3, <4>1, <4>2
      <4> QED
        BY <3>2, <4>3
    <3>3. CASE i < k + 1
      BY <1>0, <2>2, <2>3, <2>4, <2>5, <3>3
    <3> QED
      BY <3>1, <3>2, <3>3
  <2> QED
    BY <2>1, <2>6
<1> HIDE DEF T
<1>3a. \A k \in 0..n : k \in T
  BY <1>1, <1>2, UpTo
<1>3. n \in T
  BY <1>3a
<1>4. SA[n] \in Int
  BY DEF IsSums
<1> QED
  BY <1>0, <1>3, <1>4 DEF T

LEMMA SumsOfNothing ==
  ASSUME NEW n \in Nat, NEW a \in Terms(n), NEW SA, IsSums(SA, a, n), \A k \in 1..n : a[k] = 0
  PROVE  SA[n] = 0
<1>1. PICK z \in Int : z = 0
  OBVIOUS
<1>2. \A k \in 1..n : a[k] = z * a[k]
  BY <1>1 DEF Terms
<1>3. \A k \in 0..n : SA[k] = z * SA[k]
  BY <1>2, SumsScale
<1>4. SA[n] \in Int /\ SA[n] = z * SA[n]
  BY <1>3 DEF IsSums
<1> QED
  BY <1>1, <1>4

Injects(p, m, n) ==
  p \in [1..m -> 1..n] /\ \A i, j \in 1..m : p[i] = p[j] => i = j

\* u has the terms of v in another order, but for some that are zero.
Rearranges(u, v, p, m, n) ==
  /\ \A k \in 1..m : u[k] = v[p[k]]
  /\ \A i \in 1..n : (\A k \in 1..m : p[k] # i) => v[i] = 0

LEMMA SumsRearrange ==
  ASSUME NEW m \in Nat, NEW n \in Nat, NEW u \in Terms(m), NEW v \in Terms(n),
         NEW p, Injects(p, m, n), Rearranges(u, v, p, m, n),
         NEW SU, IsSums(SU, u, m), NEW SV, IsSums(SV, v, n)
  PROVE  SU[m] = SV[n]
<1> DEFINE Masked(k) == [i \in 1..n |-> IF \E j \in 1..k : p[j] = i THEN v[i] ELSE 0]
           T == {k \in 0..m : \A Y : IsSums(Y, Masked(k), n) => Y[n] = SU[k]}
<1>0. \A k : Masked(k) \in Terms(n)
  BY DEF Terms
<1>1. 0 \in T
  <2>1. SU[0] = 0 /\ 0 \in 0..m
    BY DEF IsSums
  <2>2. \A i \in 1..n : Masked(0)[i] = 0
    OBVIOUS
  <2>3. ASSUME NEW Y, IsSums(Y, Masked(0), n) PROVE Y[n] = 0
    <3>1. Masked(0) \in Terms(n)
      BY <1>0
    <3> HIDE DEF Masked
    <3> QED
      BY <2>2, <2>3, <3>1, SumsOfNothing
  <2> HIDE DEF Masked
  <2> QED
    BY <2>1, <2>3
<1>2. ASSUME NEW k \in Nat, k < m, k \in T PROVE k + 1 \in T
  <2>1. k + 1 \in 1..m /\ k + 1 \in 0..m /\ k \in 0..m /\ (k + 1) - 1 = k
    BY <1>2
  <2>2. PICK i \in 1..n : i = p[k + 1]
    BY <2>1 DEF Injects
  <2>3. \A j \in 1..k : j \in 1..m /\ j # k + 1
    BY <2>1
  <2>4. \A j \in 1..k : p[j] # i
    BY <2>1, <2>2, <2>3 DEF Injects
  <2>5. Masked(k)[i] = 0 /\ Masked(k + 1)[i] = v[i]
    <3>1. \E j \in 1..(k + 1) : p[j] = i
      BY <2>2
    <3> QED
      BY <2>4, <3>1
  <2>6. ASSUME NEW h \in 1..n, h # i PROVE Masked(k)[h] = Masked(k + 1)[h]
    <3>1. (\E j \in 1..k : p[j] = h) <=> (\E j \in 1..(k + 1) : p[j] = h)
      <4>1. ASSUME NEW j \in 1..(k + 1), p[j] = h PROVE \E g \in 1..k : p[g] = h
        <5>1. j # k + 1
          BY <2>2, <2>6, <4>1
        <5>2. j \in 1..k
          BY <5>1
        <5> QED
          BY <4>1, <5>2
      <4>2. \A j \in 1..k : j \in 1..(k + 1)
        OBVIOUS
      <4> QED
        BY <4>1, <4>2
    <3> QED
      BY <3>1
  <2>7. v[i] \in Int /\ v[i] = u[k + 1] /\ u[k + 1] \in Int
    BY <2>1, <2>2 DEF Rearranges, Terms
  <2>8. PICK W0 : IsSums(W0, Masked(k), n)
    BY <1>0, SumsExist
  <2>9. W0[n] = SU[k] /\ W0[n] \in Int
    <3> HIDE DEF Masked
    <3>1. W0[n] = SU[k]
      BY <1>2, <2>8
    <3>2. W0[n] \in Int
      BY <2>8 DEF IsSums
    <3> QED
      BY <3>1, <3>2
  <2>10. ASSUME NEW Y, IsSums(Y, Masked(k + 1), n) PROVE Y[n] = SU[k + 1]
    <3>1. Masked(k) \in Terms(n) /\ Masked(k + 1) \in Terms(n)
      BY <1>0
    <3> HIDE DEF Masked
    <3>2. Y[n] = W0[n] + Masked(k + 1)[i] - Masked(k)[i]
      BY <2>6, <2>8, <2>10, <3>1, SumsPoint
    <3>3. SU[k + 1] = SU[k] + u[k + 1]
      BY <2>1 DEF IsSums
    <3> QED
      BY <2>5, <2>7, <2>9, <3>2, <3>3
  <2> HIDE DEF Masked
  <2> QED
    BY <2>1, <2>10
<1> HIDE DEF T
<1>3. \A k \in 0..m : k \in T
  BY <1>1, <1>2, UpTo
<1>4. m \in T
  BY <1>3
<1>5. Masked(m) = v
  <2>1. \A i \in 1..n : (IF \E j \in 1..m : p[j] = i THEN v[i] ELSE 0) = v[i]
    BY DEF Rearranges
  <2>2. v = [i \in 1..n |-> v[i]]
    BY DEF Terms
  <2> QED
    BY <2>1, <2>2
<1> HIDE DEF Masked
<1> QED
  BY <1>4, <1>5 DEF T

-----------------------------------------------------------------------------
(* VolumeWalk: the ladder *)

LEMMA WalkSizes ==
  /\ Prices \subseteq Nat /\ \A x \in Prices : x > 0
  /\ Sizes \subseteq Nat /\ Lots \subseteq Nat /\ Depth \in Nat
BY AlgorithmsAssumption DEF V!WalkAssumption

Books == Seq(V!RawLevel)
Directions == {1, -1}

LEMMA LevelsAre ==
  ASSUME NEW b \in Books
  PROVE  /\ Len(b) \in Nat /\ DOMAIN b = 1..Len(b)
         /\ \A i \in DOMAIN b :
              /\ b[i].price \in Nat /\ b[i].price > 0 /\ b[i].size \in Nat
              /\ b[i].side \in {"BID", "ASK"}
<1>1. Len(b) \in Nat /\ DOMAIN b = 1..Len(b) /\ \A i \in 1..Len(b) : b[i] \in V!RawLevel
  BY DEF Books
<1>2. \A r \in V!RawLevel : r.price \in Prices /\ r.size \in Sizes /\ r.side \in {"BID", "ASK"}
  BY DEF V!RawLevel
<1> QED
  BY <1>1, <1>2, WalkSizes

\* Levels are ordered strictly and totally.
LEMMA AheadIsOrder ==
  ASSUME NEW b \in Books, NEW d \in Directions,
         NEW i \in DOMAIN b, NEW j \in DOMAIN b, NEW k \in DOMAIN b
  PROVE  /\ i = j \/ V!Ahead(b, d, i, j) \/ V!Ahead(b, d, j, i)
         /\ ~(V!Ahead(b, d, i, j) /\ V!Ahead(b, d, j, i))
         /\ ~V!Ahead(b, d, i, i)
         /\ V!Ahead(b, d, i, j) /\ V!Ahead(b, d, j, k) => V!Ahead(b, d, i, k)
<1>1. /\ b[i].price \in Nat /\ b[j].price \in Nat /\ b[k].price \in Nat
      /\ i \in Nat /\ j \in Nat /\ k \in Nat
  BY LevelsAre
<1>2. CASE d = 1
  BY <1>1, <1>2 DEF V!Ahead, V!Better
<1>3. CASE d = -1
  BY <1>1, <1>3 DEF V!Ahead, V!Better
<1> QED
  BY <1>2, <1>3 DEF Directions

Upto(b, d, i) == {j \in V!Facing(b, d) : j = i \/ V!Ahead(b, d, j, i)}

LEMMA FacingFinite ==
  ASSUME NEW b \in Books, NEW d \in Directions
  PROVE  /\ V!Facing(b, d) \subseteq DOMAIN b /\ IsFiniteSet(V!Facing(b, d))
         /\ Cardinality(V!Facing(b, d)) \in Nat
         /\ Cardinality(V!Facing(b, d)) <= Len(b)
<1>1. V!Facing(b, d) \subseteq 1..Len(b) /\ DOMAIN b = 1..Len(b) /\ Len(b) \in Nat
  BY LevelsAre DEF V!Facing
<1>2. IsFiniteSet(1..Len(b)) /\ Cardinality(1..Len(b)) = Len(b)
  BY <1>1, FS_Interval
<1>3. IsFiniteSet(V!Facing(b, d)) /\ Cardinality(V!Facing(b, d)) <= Len(b)
  BY <1>1, <1>2, FS_Subset
<1> QED
  BY <1>1, <1>3, FS_CardinalityType

\* Every level has a place of its own.
LEMMA PlacesApart ==
  ASSUME NEW b \in Books, NEW d \in Directions
  PROVE  /\ \A i \in V!Facing(b, d) : V!Place(b, d, i) \in 1..Cardinality(V!Facing(b, d))
         /\ \A i, j \in V!Facing(b, d) :
              V!Ahead(b, d, i, j) => V!Place(b, d, i) < V!Place(b, d, j)
<1> DEFINE F == V!Facing(b, d)
<1>1. IsFiniteSet(F) /\ F \subseteq DOMAIN b /\ Cardinality(F) \in Nat
  BY FacingFinite
<1>2. \A i : V!Place(b, d, i) = Cardinality(Upto(b, d, i)) /\ Upto(b, d, i) \subseteq F
  BY DEF V!Place, Upto, V!Cardinality, Cardinality
<1>3. \A i : IsFiniteSet(Upto(b, d, i)) /\ Cardinality(Upto(b, d, i)) <= Cardinality(F)
             /\ Cardinality(Upto(b, d, i)) \in Nat
  BY <1>1, <1>2, FS_Subset, FS_CardinalityType
<1>4. ASSUME NEW i \in F PROVE V!Place(b, d, i) \in 1..Cardinality(F)
  <2>1. i \in Upto(b, d, i)
    BY DEF Upto
  <2>2. Cardinality(Upto(b, d, i)) # 0
    BY <2>1, <1>3, FS_EmptySet
  <2> QED
    BY <1>1, <1>2, <1>3, <2>2
<1>5. ASSUME NEW i \in F, NEW j \in F, V!Ahead(b, d, i, j)
      PROVE  V!Place(b, d, i) < V!Place(b, d, j)
  <2>1. j \notin Upto(b, d, i)
    BY <1>1, <1>5, AheadIsOrder DEF Upto
  <2>2. Upto(b, d, i) \cup {j} \subseteq Upto(b, d, j)
    BY <1>1, <1>5, AheadIsOrder DEF Upto
  <2>3. IsFiniteSet(Upto(b, d, i) \cup {j})
        /\ Cardinality(Upto(b, d, i) \cup {j}) = Cardinality(Upto(b, d, i)) + 1
    BY <1>3, <2>1, FS_AddElement
  <2>4. Cardinality(Upto(b, d, i) \cup {j}) <= Cardinality(Upto(b, d, j))
    BY <1>3, <2>2, FS_Subset
  <2> QED
    BY <1>2, <1>3, <2>3, <2>4
<1> QED
  BY <1>4, <1>5

-----------------------------------------------------------------------------
(* VolumeWalk: what a set of levels offers *)

Volumes(b, O) == [n \in 1..Len(b) |-> IF n \in O THEN 5 * b[n].size ELSE 0]

LEMMA VolumesAre ==
  ASSUME NEW b \in Books, NEW O
  PROVE  /\ Volumes(b, O) \in [1..Len(b) -> Nat]
         /\ Volumes(b, O) \in Terms(Len(b))
<1>1. \A n \in 1..Len(b) : 5 * b[n].size \in Nat
  BY LevelsAre
<1>2. Volumes(b, O) \in [1..Len(b) -> Nat]
  BY <1>1 DEF Volumes
<1> QED
  BY <1>2 DEF Terms

LEMMA OfferedIs ==
  ASSUME NEW b \in Books, NEW O, NEW F, IsSums(F, Volumes(b, O), Len(b))
  PROVE  V!Offered(b, O) = F[Len(b)]
<1> DEFINE N == Len(b)
           sum == CHOOSE sum : sum = [n \in 0..Len(b) |->
                    IF n = 0 THEN 0
                    ELSE sum[n - 1] + IF n \in O THEN V!Fifth * b[n].size ELSE 0]
           T == {k \in 0..N : sum[k] = F[k]}
<1>1. N \in Nat
  BY LevelsAre
<1>2. F \in [0..N -> Int] /\ F[0] = 0 /\ \A n \in 1..N : F[n] = F[n - 1] + Volumes(b, O)[n]
  BY DEF IsSums
<1>3. \A n \in 1..N : Volumes(b, O)[n] = IF n \in O THEN V!Fifth * b[n].size ELSE 0
  BY DEF Volumes, V!Fifth
<1>4. F = [n \in 0..Len(b) |->
             IF n = 0 THEN 0 ELSE F[n - 1] + IF n \in O THEN V!Fifth * b[n].size ELSE 0]
  <2>1. \A n \in 0..N : F[n] = IF n = 0 THEN 0
                               ELSE F[n - 1] + IF n \in O THEN V!Fifth * b[n].size ELSE 0
    <3> SUFFICES ASSUME NEW n \in 0..N
                 PROVE  F[n] = IF n = 0 THEN 0
                               ELSE F[n - 1] + IF n \in O THEN V!Fifth * b[n].size ELSE 0
      OBVIOUS
    <3>1. n = 0 \/ n \in 1..N
      BY <1>1
    <3> QED
      BY <1>2, <1>3, <3>1
  <2> QED
    BY <1>2, <2>1
<1>5. sum = [n \in 0..Len(b) |->
               IF n = 0 THEN 0 ELSE sum[n - 1] + IF n \in O THEN V!Fifth * b[n].size ELSE 0]
  BY <1>4
<1>6. V!Offered(b, O) = sum[N]
  BY DEF V!Offered
<1> HIDE DEF sum
<1>7. 0 \in T
  BY <1>1, <1>2, <1>5
<1>8. ASSUME NEW k \in Nat, k < N, k \in T PROVE k + 1 \in T
  <2>1. k + 1 \in 1..N /\ k + 1 \in 0..N /\ (k + 1) - 1 = k /\ k + 1 # 0 /\ sum[k] = F[k]
    BY <1>1, <1>8
  <2>2. sum[k + 1] = sum[(k + 1) - 1] + IF k + 1 \in O THEN V!Fifth * b[k + 1].size ELSE 0
    BY <1>5, <2>1
  <2>3. F[k + 1] = F[(k + 1) - 1] + IF k + 1 \in O THEN V!Fifth * b[k + 1].size ELSE 0
    BY <1>2, <1>3, <2>1
  <2> QED
    BY <2>1, <2>2, <2>3
<1> HIDE DEF T, N
<1>9. \A k \in 0..N : k \in T
  BY <1>1, <1>7, <1>8, UpTo
<1>10. N \in T
  BY <1>1, <1>9
<1> QED
  BY <1>6, <1>10 DEF T, N

-----------------------------------------------------------------------------
(* VolumeWalk: the ladder has the levels of a side, the better first *)

\* The positions in the book of the levels of a ladder.
Positions(b, d) ==
    [n \in 1..Cardinality(V!Facing(b, d)) |->
        CHOOSE i \in V!Facing(b, d) : V!Place(b, d, i) = n]

IsLadder(b, d, p, m) ==
  /\ m = Cardinality(V!Facing(b, d)) /\ m \in Nat /\ m <= Len(b)
  /\ Injects(p, m, Len(b))
  /\ \A n \in 1..m : p[n] \in V!Facing(b, d)
  /\ \A i \in V!Facing(b, d) : \E n \in 1..m : p[n] = i
  /\ V!Ladder(b, d) = [n \in 1..m |-> b[p[n]]]
  /\ \A n, k \in 1..m : n < k => ~V!Better(d, b[p[k]].price, b[p[n]].price)

LEMMA LadderIs ==
  ASSUME NEW b \in Books, NEW d \in Directions
  PROVE  IsLadder(b, d, Positions(b, d), Cardinality(V!Facing(b, d)))
<1> DEFINE F == V!Facing(b, d)
           m == Cardinality(V!Facing(b, d))
           g == [i \in F |-> V!Place(b, d, i)]
           p == Positions(b, d)
<1>1. F \subseteq DOMAIN b /\ IsFiniteSet(F) /\ m \in Nat /\ m <= Len(b) /\ DOMAIN b = 1..Len(b)
  BY FacingFinite, LevelsAre
<1>2. g \in [F -> 1..m]
  BY PlacesApart
<1>3. \A i, j \in F : g[i] = g[j] => i = j
  <2> SUFFICES ASSUME NEW i \in F, NEW j \in F, g[i] = g[j], i # j PROVE FALSE
    OBVIOUS
  <2>1. V!Ahead(b, d, i, j) \/ V!Ahead(b, d, j, i)
    BY <1>1, AheadIsOrder
  <2>2. g[i] < g[j] \/ g[j] < g[i]
    BY <2>1, PlacesApart
  <2>3. g[i] \in Int /\ g[j] \in Int
    BY <1>2
  <2> QED
    BY <2>2, <2>3
<1>4. g \in Surjection(F, 1..m)
  <2>1. g \in Injection(F, 1..m)
    BY <1>2, <1>3 DEF Injection, IsInjective
  <2>2. IsFiniteSet(1..m) /\ Cardinality(1..m) = m
    BY <1>1, FS_Interval
  <2> HIDE DEF g
  <2> QED
    BY <2>1, <2>2, FS_Injection
<1>5. \A n \in 1..m : p[n] \in F /\ V!Place(b, d, p[n]) = n
  <2> SUFFICES ASSUME NEW n \in 1..m PROVE p[n] \in F /\ V!Place(b, d, p[n]) = n
    OBVIOUS
  <2>1. \E i \in F : g[i] = n
    BY <1>4 DEF Surjection
  <2>2. \E i \in F : V!Place(b, d, i) = n
    BY <2>1
  <2>3. p[n] = CHOOSE i \in F : V!Place(b, d, i) = n
    BY DEF Positions
  <2> QED
    BY <2>2, <2>3
<1>6. Injects(p, m, Len(b))
  <2>1. p \in [1..m -> 1..Len(b)]
    <3>1. p = [n \in 1..m |-> p[n]]
      BY DEF Positions
    <3> HIDE DEF p, m, F
    <3> QED
      BY <1>1, <1>5, <3>1
  <2>2. \A i, j \in 1..m : p[i] = p[j] => i = j
    BY <1>5
  <2> QED
    BY <2>1, <2>2 DEF Injects
<1>7. \A i \in F : \E n \in 1..m : p[n] = i
  <2> SUFFICES ASSUME NEW i \in F PROVE p[g[i]] = i /\ g[i] \in 1..m
    OBVIOUS
  <2>1. g[i] \in 1..m
    BY <1>2
  <2>2. p[g[i]] \in F /\ g[p[g[i]]] = g[i]
    BY <1>5, <2>1
  <2> HIDE DEF g
  <2> QED
    BY <1>3, <2>1, <2>2
<1>8. V!Ladder(b, d) = [n \in 1..m |-> b[p[n]]]
  <2>1. V!Cardinality(F) = m
    BY DEF V!Cardinality, Cardinality
  <2>2. V!Ladder(b, d) = [n \in 1..m |-> b[CHOOSE i \in F : V!Place(b, d, i) = n]]
    BY <2>1 DEF V!Ladder
  <2> QED
    BY <2>2 DEF Positions
<1>9. ASSUME NEW n \in 1..m, NEW k \in 1..m, n < k,
             V!Better(d, b[p[k]].price, b[p[n]].price)
      PROVE  FALSE
  <2>1. V!Ahead(b, d, p[k], p[n])
    BY <1>9 DEF V!Ahead
  <2>2. V!Place(b, d, p[k]) < V!Place(b, d, p[n])
    BY <1>5, <2>1, PlacesApart
  <2>3. k < n
    BY <1>5, <2>2
  <2> QED
    BY <1>9, <2>3
<1> HIDE DEF p, g
<1> QED
  BY <1>1, <1>5, <1>6, <1>7, <1>8, <1>9 DEF IsLadder, p

LEMMA LadderIsBook ==
  ASSUME NEW b \in Books, NEW d \in Directions
  PROVE  /\ V!Ladder(b, d) \in Books
         /\ Len(V!Ladder(b, d)) = Cardinality(V!Facing(b, d))
<1> DEFINE m == Cardinality(V!Facing(b, d))
           p == Positions(b, d)
<1>1. IsLadder(b, d, p, m)
  BY LadderIs
<1>2. m \in Nat /\ p \in [1..m -> 1..Len(b)] /\ V!Ladder(b, d) = [n \in 1..m |-> b[p[n]]]
  BY <1>1 DEF IsLadder, Injects
<1>3. \A i \in 1..Len(b) : b[i] \in V!RawLevel
  BY DEF Books
<1>4. V!Ladder(b, d) \in [1..m -> V!RawLevel]
  <2> HIDE DEF p, m
  <2> QED
    BY <1>2, <1>3
<1>5. V!Ladder(b, d) \in Seq(V!RawLevel) /\ Len(V!Ladder(b, d)) = m
  <2> HIDE DEF p, m
  <2> QED
    BY <1>2, <1>4
<1> QED
  BY <1>5 DEF Books

-----------------------------------------------------------------------------
(* VolumeWalk: the walk over a ladder *)

LEMMA OrderIs ==
  ASSUME NEW o \in V!Order
  PROVE  /\ o.lots \in Nat /\ o.lots \in Lots /\ o.direction \in Directions /\ o.limit \in Nat
         /\ o.type \in {"LIMIT", "MARKET"}
         /\ V!Required(o.lots) = 6 * o.lots /\ V!Required(o.lots) \in Nat
<1>1. /\ o.lots \in Lots /\ o.direction \in {1, -1} /\ o.limit \in Prices \cup {0}
      /\ o.type \in {"LIMIT", "MARKET"}
  BY DEF V!Order
<1>2. o.lots \in Nat /\ o.limit \in Nat
  <2>1. \A x \in Lots : x \in Nat
    BY WalkSizes
  <2>2. \A x \in Prices \cup {0} : x \in Nat
    BY WalkSizes
  <2> QED
    BY <1>1, <2>1, <2>2
<1>3. V!Required(o.lots) = 5 * o.lots + o.lots
  BY DEF V!Required, V!Fifth
<1>4. \A x \in Nat : 5 * x + x = 6 * x /\ 6 * x \in Nat
  OBVIOUS
<1>5. V!Required(o.lots) = 6 * o.lots /\ V!Required(o.lots) \in Nat
  BY <1>2, <1>3, <1>4
<1> QED
  BY <1>1, <1>2, <1>5 DEF Directions

LEMMA LimitIs ==
  ASSUME NEW o \in V!Order, NEW b \in Books
  PROVE  /\ V!Limit(o, b) \in Int
         /\ o.type = "LIMIT" => V!Limit(o, b) = 200 * o.limit
         /\ o.type = "MARKET" /\ Len(b) > 0 =>
              V!Limit(o, b) = (200 + o.direction) * b[1].price
<1>1. o.type = "LIMIT" \/ o.type = "MARKET"
  BY OrderIs
<1>2. Len(b) \in Nat /\ (Len(b) > 0 => b[1].price \in Nat) /\ (Len(b) > 0 <=> b # <<>>)
  <2>1. Len(b) > 0 => 1 \in DOMAIN b
    BY LevelsAre
  <2>2. Len(b) > 0 <=> b # <<>>
    BY DEF Books
  <2> QED
    BY <2>1, <2>2, LevelsAre
<1>3. o.limit \in Nat /\ o.direction \in {1, -1}
  BY OrderIs DEF Directions
<1>4. CASE o.type = "LIMIT"
  BY <1>3, <1>4 DEF V!Limit, V!Slip
<1>5. CASE o.type = "MARKET" /\ Len(b) > 0
  <2>1. V!Limit(o, b) = (200 + o.direction) * b[1].price
    BY <1>2, <1>5 DEF V!Limit, V!Slip
  <2>2. o.direction = 1 \/ o.direction = -1
    BY <1>3
  <2>3. (200 + o.direction) * b[1].price \in Int
    BY <2>2, <1>2, <1>5
  <2> QED
    BY <2>1, <2>3, <1>5
<1>6. CASE o.type = "MARKET" /\ ~Len(b) > 0
  <2>1. V!Limit(o, b) = 0
    BY <1>2, <1>6 DEF V!Limit
  <2> QED
    BY <2>1, <1>6
<1> QED
  BY <1>1, <1>4, <1>5, <1>6

\* The levels of a ladder that an order reaches.
Reach(o, b) == {n \in DOMAIN b : V!Reachable(b[n], o, V!Limit(o, b))}

Lesser(x, y) == IF x < y THEN x ELSE y

\* One level of either walk.
Advances(w, w2, level) ==
  LET c == Lesser(5 * level.size, w.remaining) IN
  /\ w2.taken = w.taken + c
  /\ w2.cost = w.cost + level.price * c
  /\ w2.remaining = w.remaining - c
  /\ w2.depth = w.depth + 1 \/ (w2.depth = w.depth /\ w.depth > 0)

Walks == [depth : Nat, taken : Int, cost : Int, total : Int, remaining : Int]

IsWalk(f, o, b) ==
  /\ f \in [0..Len(b) -> Walks]
  /\ f[0] = V!NothingYet(o.lots)
  /\ \A n \in 1..Len(b) :
       /\ n \in Reach(o, b) => Advances(f[n - 1], f[n], b[n])
       /\ n \notin Reach(o, b) => f[n] = f[n - 1]

LEMMA TakeIs ==
  ASSUME NEW w \in Walks, NEW b \in Books, NEW n \in DOMAIN b
  PROVE  /\ V!Take(w, b[n]) \in Walks
         /\ Advances(w, V!Take(w, b[n]), b[n])
         /\ V!Take(w, b[n]).total = w.total + 5 * b[n].size
         /\ V!Take(w, b[n]).depth = w.depth + 1
<1>1. b[n].price \in Nat /\ b[n].size \in Nat
  BY LevelsAre
<1>2. /\ w.depth \in Nat /\ w.taken \in Int /\ w.cost \in Int /\ w.total \in Int
      /\ w.remaining \in Int
  BY DEF Walks
<1> DEFINE v == 5 * b[n].size
           c == IF v < w.remaining THEN v ELSE w.remaining
<1>3. V!Take(w, b[n]) = [depth |-> w.depth + 1, taken |-> w.taken + c,
                         cost |-> w.cost + b[n].price * c,
                         total |-> w.total + v, remaining |-> w.remaining - c]
  BY DEF V!Take, V!Fifth
<1>4. c = Lesser(5 * b[n].size, w.remaining)
  BY DEF Lesser
<1>5. c \in Int /\ v \in Int
  BY <1>1, <1>2
<1> HIDE DEF c, v
<1>6. b[n].price * c \in Int
  BY <1>1, <1>5
<1>7. V!Take(w, b[n]) \in Walks
  BY <1>2, <1>3, <1>5, <1>6 DEF Walks
<1> QED
  BY <1>3, <1>4, <1>7 DEF Advances, v

LEMMA NothingYetIs ==
  ASSUME NEW o \in V!Order
  PROVE  V!NothingYet(o.lots) \in Walks
BY OrderIs DEF V!NothingYet, Walks

\* The walk of the app, and what it adds up.
LEMMA AppWalk ==
  ASSUME NEW o \in V!Order, NEW b \in Books
  PROVE  \E f : /\ IsWalk(f, o, b)
                /\ f[Len(b)] = V!Walk("app", o, b)
                /\ \A n \in 1..Len(b) :
                     f[n].total = f[n - 1].total + Volumes(b, Reach(o, b))[n]
<1> DEFINE N == Len(b)
           limit == V!Limit(o, b)
           step == [x \in (1..N) \X Walks |->
                      IF x[1] \in Reach(o, b) THEN V!Take(x[2], b[x[1]]) ELSE x[2]]
           walk == CHOOSE walk : walk = [n \in 0..Len(b) |->
                     IF n = 0 THEN V!NothingYet(o.lots)
                     ELSE IF V!Reachable(b[n], o, V!Limit(o, b))
                          THEN V!Step("app", walk[n - 1], b[n])
                     ELSE walk[n - 1]]
<1>1. N \in Nat /\ DOMAIN b = 1..N
  BY LevelsAre
<1>2. step \in Steps(N, Walks)
  <2>1. \A x \in (1..N) \X Walks :
          (IF x[1] \in Reach(o, b) THEN V!Take(x[2], b[x[1]]) ELSE x[2]) \in Walks
    BY <1>1, TakeIs
  <2> QED
    BY <2>1 DEF Steps
<1>3. \A n \in 1..N : \A w \in Walks :
        step[<<n, w>>] = IF n \in Reach(o, b) THEN V!Take(w, b[n]) ELSE w
  OBVIOUS
<1>4. PICK z \in Walks : z = V!NothingYet(o.lots)
  BY NothingYetIs
<1> HIDE DEF step
<1>5. PICK f : IsRecursive(f, N, Walks, z, step)
  BY <1>1, <1>2, RecursionExists
<1>6. f \in [0..N -> Walks] /\ f[0] = V!NothingYet(o.lots)
      /\ \A n \in 1..N : f[n] = IF n \in Reach(o, b) THEN V!Take(f[n - 1], b[n]) ELSE f[n - 1]
  <2>1. f \in [0..N -> Walks] /\ f[0] = z /\ \A n \in 1..N : f[n] = step[<<n, f[n - 1]>>]
    BY <1>5 DEF IsRecursive
  <2>2. \A n \in 1..N : f[n - 1] \in Walks
    BY <1>1, <2>1
  <2> QED
    BY <1>3, <1>4, <2>1, <2>2
<1>7. \A n \in 1..N : n \in Reach(o, b) <=> V!Reachable(b[n], o, V!Limit(o, b))
  BY <1>1 DEF Reach
<1>8. f = [n \in 0..Len(b) |->
             IF n = 0 THEN V!NothingYet(o.lots)
             ELSE IF V!Reachable(b[n], o, V!Limit(o, b)) THEN V!Step("app", f[n - 1], b[n])
             ELSE f[n - 1]]
  <2>1. ASSUME NEW n \in 0..N
        PROVE  f[n] = IF n = 0 THEN V!NothingYet(o.lots)
                      ELSE IF V!Reachable(b[n], o, V!Limit(o, b)) THEN V!Step("app", f[n - 1], b[n])
                      ELSE f[n - 1]
    <3>1. n = 0 \/ (n # 0 /\ n \in 1..N)
      BY <1>1
    <3> QED
      BY <1>6, <1>7, <3>1 DEF V!Step
  <2> QED
    BY <1>6, <2>1
<1>9. walk = [n \in 0..Len(b) |->
                IF n = 0 THEN V!NothingYet(o.lots)
                ELSE IF V!Reachable(b[n], o, V!Limit(o, b)) THEN V!Step("app", walk[n - 1], b[n])
                ELSE walk[n - 1]]
  BY <1>8
<1>10. V!Walk("app", o, b) = walk[N]
  BY DEF V!Walk
<1> HIDE DEF walk
<1> DEFINE T == {k \in 0..N : walk[k] = f[k]}
<1>11. 0 \in T
  BY <1>1, <1>6, <1>9
<1>12. ASSUME NEW k \in Nat, k < N, k \in T PROVE k + 1 \in T
  <2>1. k + 1 \in 1..N /\ k + 1 \in 0..N /\ (k + 1) - 1 = k /\ k + 1 # 0 /\ walk[k] = f[k]
    BY <1>1, <1>12
  <2>2. walk[k + 1] = IF V!Reachable(b[k + 1], o, V!Limit(o, b))
                      THEN V!Step("app", walk[k], b[k + 1]) ELSE walk[k]
    BY <1>9, <2>1
  <2>3. f[k + 1] = IF V!Reachable(b[k + 1], o, V!Limit(o, b))
                   THEN V!Step("app", f[k], b[k + 1]) ELSE f[k]
    BY <1>8, <2>1
  <2> QED
    BY <2>1, <2>2, <2>3
<1> HIDE DEF T, N
<1>13. \A k \in 0..N : k \in T
  BY <1>1, <1>11, <1>12, UpTo
<1>14. f[N] = V!Walk("app", o, b)
  <2>1. N \in T
    BY <1>1, <1>13
  <2> QED
    BY <2>1, <1>10 DEF T
<1>15. ASSUME NEW n \in 1..N
       PROVE  /\ f[n - 1] \in Walks
              /\ n \in Reach(o, b) => Advances(f[n - 1], f[n], b[n])
              /\ n \notin Reach(o, b) => f[n] = f[n - 1]
              /\ f[n].total = f[n - 1].total + Volumes(b, Reach(o, b))[n]
  <2>1. n - 1 \in 0..N /\ n \in DOMAIN b
    BY <1>1
  <2>2. f[n - 1] \in Walks
    BY <2>1, <1>6
  <2>3. CASE n \in Reach(o, b)
    <3>1. f[n] = V!Take(f[n - 1], b[n])
      BY <1>6, <2>3
    <3>2. Volumes(b, Reach(o, b))[n] = 5 * b[n].size
      BY <2>3 DEF Volumes, N
    <3> QED
      BY <2>1, <2>2, <2>3, <3>1, <3>2, TakeIs
  <2>4. CASE n \notin Reach(o, b)
    <3>1. f[n] = f[n - 1]
      BY <1>6, <2>4
    <3>2. Volumes(b, Reach(o, b))[n] = 0
      BY <2>4 DEF Volumes, N
    <3>3. f[n - 1].total \in Int
      BY <2>2 DEF Walks
    <3> QED
      BY <2>2, <2>4, <3>1, <3>2, <3>3
  <2> QED
    BY <2>3, <2>4
<1>16. IsWalk(f, o, b)
  BY <1>6, <1>15 DEF IsWalk, N
<1> QED
  BY <1>14, <1>15, <1>16 DEF N

\* The root matcher goes on to another level while it has to.
Goes(w, w2) ==
  w2.depth = IF w.depth > 0 /\ w.remaining = 0 THEN w.depth ELSE w.depth + 1

LEMMA TakeOrBreakIs ==
  ASSUME NEW w \in Walks, NEW b \in Books, NEW n \in DOMAIN b
  PROVE  /\ V!TakeOrBreak(w, b[n]) \in Walks
         /\ Advances(w, V!TakeOrBreak(w, b[n]), b[n])
         /\ Goes(w, V!TakeOrBreak(w, b[n]))
<1>1. CASE w.depth > 0 /\ w.remaining = 0
  <2>1. V!TakeOrBreak(w, b[n]) = w
    BY <1>1 DEF V!TakeOrBreak
  <2>2. b[n].price \in Nat /\ b[n].size \in Nat
    BY LevelsAre
  <2>3. w.taken \in Int /\ w.cost \in Int /\ w.remaining \in Int
    BY DEF Walks
  <2>4. Lesser(5 * b[n].size, w.remaining) = 0
    BY <1>1, <2>2 DEF Lesser
  <2>5. b[n].price * 0 = 0
    BY <2>2
  <2>6. Advances(w, w, b[n])
    BY <1>1, <2>3, <2>4, <2>5 DEF Advances
  <2> QED
    BY <1>1, <2>1, <2>6 DEF Goes
<1>2. CASE ~(w.depth > 0 /\ w.remaining = 0)
  <2>1. V!TakeOrBreak(w, b[n]) = V!Take(w, b[n])
    BY <1>2 DEF V!TakeOrBreak
  <2> QED
    BY <1>2, <2>1, TakeIs DEF Goes
<1> QED
  BY <1>1, <1>2

\* The walk of the root matcher, and where it stops.
LEMMA RootWalk ==
  ASSUME NEW o \in V!Order, NEW b \in Books
  PROVE  \E f : /\ IsWalk(f, o, b)
                /\ f[Len(b)] = V!Walk("root", o, b)
                /\ \A n \in Reach(o, b) : Goes(f[n - 1], f[n])
<1> DEFINE N == Len(b)
           limit == V!Limit(o, b)
           step == [x \in (1..N) \X Walks |->
                      IF x[1] \in Reach(o, b) THEN V!TakeOrBreak(x[2], b[x[1]]) ELSE x[2]]
           walk == CHOOSE walk : walk = [n \in 0..Len(b) |->
                     IF n = 0 THEN V!NothingYet(o.lots)
                     ELSE IF V!Reachable(b[n], o, V!Limit(o, b))
                          THEN V!Step("root", walk[n - 1], b[n])
                     ELSE walk[n - 1]]
<1>1. N \in Nat /\ DOMAIN b = 1..N
  BY LevelsAre
<1>2. step \in Steps(N, Walks)
  <2>1. \A x \in (1..N) \X Walks :
          (IF x[1] \in Reach(o, b) THEN V!TakeOrBreak(x[2], b[x[1]]) ELSE x[2]) \in Walks
    BY <1>1, TakeOrBreakIs
  <2> QED
    BY <2>1 DEF Steps
<1>3. \A n \in 1..N : \A w \in Walks :
        step[<<n, w>>] = IF n \in Reach(o, b) THEN V!TakeOrBreak(w, b[n]) ELSE w
  OBVIOUS
<1>4. PICK z \in Walks : z = V!NothingYet(o.lots)
  BY NothingYetIs
<1> HIDE DEF step
<1>5. PICK f : IsRecursive(f, N, Walks, z, step)
  BY <1>1, <1>2, RecursionExists
<1>6. f \in [0..N -> Walks] /\ f[0] = V!NothingYet(o.lots)
      /\ \A n \in 1..N : f[n] = IF n \in Reach(o, b) THEN V!TakeOrBreak(f[n - 1], b[n]) ELSE f[n - 1]
  <2>1. f \in [0..N -> Walks] /\ f[0] = z /\ \A n \in 1..N : f[n] = step[<<n, f[n - 1]>>]
    BY <1>5 DEF IsRecursive
  <2>2. \A n \in 1..N : f[n - 1] \in Walks
    BY <1>1, <2>1
  <2> QED
    BY <1>3, <1>4, <2>1, <2>2
<1>7. \A n \in 1..N : n \in Reach(o, b) <=> V!Reachable(b[n], o, V!Limit(o, b))
  BY <1>1 DEF Reach
<1>8. f = [n \in 0..Len(b) |->
             IF n = 0 THEN V!NothingYet(o.lots)
             ELSE IF V!Reachable(b[n], o, V!Limit(o, b)) THEN V!Step("root", f[n - 1], b[n])
             ELSE f[n - 1]]
  <2>1. ASSUME NEW n \in 0..N
        PROVE  f[n] = IF n = 0 THEN V!NothingYet(o.lots)
                      ELSE IF V!Reachable(b[n], o, V!Limit(o, b)) THEN V!Step("root", f[n - 1], b[n])
                      ELSE f[n - 1]
    <3>1. n = 0 \/ (n # 0 /\ n \in 1..N)
      BY <1>1
    <3> QED
      BY <1>6, <1>7, <3>1 DEF V!Step
  <2> QED
    BY <1>6, <2>1
<1>9. walk = [n \in 0..Len(b) |->
                IF n = 0 THEN V!NothingYet(o.lots)
                ELSE IF V!Reachable(b[n], o, V!Limit(o, b)) THEN V!Step("root", walk[n - 1], b[n])
                ELSE walk[n - 1]]
  BY <1>8
<1>10. V!Walk("root", o, b) = walk[N]
  BY DEF V!Walk
<1> HIDE DEF walk
<1> DEFINE T == {k \in 0..N : walk[k] = f[k]}
<1>11. 0 \in T
  BY <1>1, <1>6, <1>9
<1>12. ASSUME NEW k \in Nat, k < N, k \in T PROVE k + 1 \in T
  <2>1. k + 1 \in 1..N /\ k + 1 \in 0..N /\ (k + 1) - 1 = k /\ k + 1 # 0 /\ walk[k] = f[k]
    BY <1>1, <1>12
  <2>2. walk[k + 1] = IF V!Reachable(b[k + 1], o, V!Limit(o, b))
                      THEN V!Step("root", walk[k], b[k + 1]) ELSE walk[k]
    BY <1>9, <2>1
  <2>3. f[k + 1] = IF V!Reachable(b[k + 1], o, V!Limit(o, b))
                   THEN V!Step("root", f[k], b[k + 1]) ELSE f[k]
    BY <1>8, <2>1
  <2> QED
    BY <2>1, <2>2, <2>3
<1> HIDE DEF T, N
<1>13. \A k \in 0..N : k \in T
  BY <1>1, <1>11, <1>12, UpTo
<1>14. f[N] = V!Walk("root", o, b)
  <2>1. N \in T
    BY <1>1, <1>13
  <2> QED
    BY <2>1, <1>10 DEF T
<1>15. ASSUME NEW n \in 1..N
       PROVE  /\ f[n - 1] \in Walks
              /\ n \in Reach(o, b) => Advances(f[n - 1], f[n], b[n]) /\ Goes(f[n - 1], f[n])
              /\ n \notin Reach(o, b) => f[n] = f[n - 1]
  <2>1. n - 1 \in 0..N /\ n \in DOMAIN b
    BY <1>1
  <2>2. f[n - 1] \in Walks
    BY <2>1, <1>6
  <2>3. CASE n \in Reach(o, b)
    <3>1. f[n] = V!TakeOrBreak(f[n - 1], b[n])
      BY <1>6, <2>3
    <3> QED
      BY <2>1, <2>2, <2>3, <3>1, TakeOrBreakIs
  <2>4. CASE n \notin Reach(o, b)
    BY <1>6, <2>2, <2>4
  <2> QED
    BY <2>3, <2>4
<1>16. IsWalk(f, o, b)
  BY <1>6, <1>15 DEF IsWalk, N
<1>17. \A n \in Reach(o, b) : Goes(f[n - 1], f[n])
  BY <1>1, <1>15 DEF Reach
<1> QED
  BY <1>14, <1>16, <1>17 DEF N

-----------------------------------------------------------------------------
(* VolumeWalk: what a walk takes of every level *)

\* What is taken of each level when r is wanted and C is offered so far.
Eaten(r, C, n) == [k \in 1..n |-> Lesser(r, C[k]) - Lesser(r, C[k - 1])]
TakenUpTo(r, C, n) == [k \in 0..n |-> Lesser(r, C[k])]

\* Nothing is taken of a level before all of those ahead of it are.
InTurn(x, v, n) == \A j, k \in 1..n : j < k /\ x[k] > 0 => x[j] = v[j]

LEMMA EatenIs ==
  ASSUME NEW n \in Nat, NEW r \in Nat, NEW v \in [1..n -> Nat], NEW C, IsSums(C, v, n)
  PROVE  /\ Eaten(r, C, n) \in [1..n -> Nat]
         /\ IsSums(TakenUpTo(r, C, n), Eaten(r, C, n), n)
         /\ \A k \in 1..n : Eaten(r, C, n)[k] <= v[k]
         /\ \A k \in 1..n : Eaten(r, C, n)[k] = Lesser(v[k], r - Lesser(r, C[k - 1]))
         /\ InTurn(Eaten(r, C, n), v, n)
<1> DEFINE x == Eaten(r, C, n)
<1>1. \A k \in 0..n : C[k] \in Nat
  BY SumsGrow
<1>2. C[0] = 0 /\ \A k \in 1..n : C[k] = C[k - 1] + v[k]
  BY DEF IsSums
<1>3. ASSUME NEW k \in 1..n
      PROVE  /\ x[k] \in Nat /\ x[k] <= v[k]
             /\ x[k] = Lesser(v[k], r - Lesser(r, C[k - 1]))
             /\ C[k - 1] \in Nat /\ C[k - 1] <= C[k]
             /\ x[k] > 0 => C[k - 1] < r
             /\ C[k] < r => x[k] = v[k]
  <2>1. C[k] \in Nat /\ C[k - 1] \in Nat /\ v[k] \in Nat /\ C[k] = C[k - 1] + v[k]
    <3>1. k - 1 \in 0..n /\ k \in 0..n
      OBVIOUS
    <3> QED
      BY <1>1, <1>2, <3>1
  <2>2. x[k] = Lesser(r, C[k]) - Lesser(r, C[k - 1])
    BY DEF Eaten
  <2> HIDE DEF x
  <2>3. CASE C[k] < r
    BY <2>1, <2>2, <2>3 DEF Lesser
  <2>4. CASE C[k - 1] < r /\ ~C[k] < r
    BY <2>1, <2>2, <2>4 DEF Lesser
  <2>5. CASE ~C[k - 1] < r
    BY <2>1, <2>2, <2>5 DEF Lesser
  <2> QED
    BY <2>1, <2>3, <2>4, <2>5
<1>4. x \in [1..n -> Nat]
  <2>1. x = [k \in 1..n |-> x[k]]
    BY DEF Eaten
  <2> HIDE DEF x
  <2> QED
    BY <1>3, <2>1
<1>5. IsSums(TakenUpTo(r, C, n), x, n)
  <2> DEFINE t == TakenUpTo(r, C, n)
  <2>1. \A k \in 0..n : t[k] = Lesser(r, C[k]) /\ Lesser(r, C[k]) \in Int
    BY <1>1 DEF TakenUpTo, Lesser
  <2>2. t \in [0..n -> Int]
    BY <2>1 DEF TakenUpTo
  <2>3. t[0] = 0
    BY <1>2, <2>1 DEF Lesser
  <2>4. ASSUME NEW k \in 1..n PROVE t[k] = t[k - 1] + x[k]
    <3>1. k - 1 \in 0..n /\ k \in 0..n
      OBVIOUS
    <3>2. x[k] = Lesser(r, C[k]) - Lesser(r, C[k - 1])
      BY DEF Eaten
    <3> HIDE DEF x, t
    <3>3. /\ t[k] = Lesser(r, C[k]) /\ t[k - 1] = Lesser(r, C[k - 1])
          /\ t[k] \in Int /\ t[k - 1] \in Int
      BY <2>1, <3>1
    <3> QED
      BY <3>2, <3>3
  <2> QED
    BY <2>2, <2>3, <2>4 DEF IsSums
<1>6. InTurn(x, v, n)
  <2> SUFFICES ASSUME NEW j \in 1..n, NEW k \in 1..n, j < k, x[k] > 0
               PROVE  x[j] = v[j]
    BY DEF InTurn
  <2> HIDE DEF x
  <2>1. C[k - 1] < r
    BY <1>3
  <2>2. j \in 0..n /\ k - 1 \in 0..n /\ j <= k - 1
    OBVIOUS
  <2>3. C[j] <= C[k - 1] /\ C[j] \in Nat /\ C[k - 1] \in Nat
    BY <1>1, <2>2, SumsGrow
  <2>4. C[j] < r
    BY <2>1, <2>3
  <2> QED
    BY <1>3, <2>4
<1> QED
  BY <1>3, <1>4, <1>5, <1>6

Paid(b, x) == [k \in 1..Len(b) |-> b[k].price * x[k]]

LEMMA PaidIs ==
  ASSUME NEW b \in Books, NEW x \in [1..Len(b) -> Nat]
  PROVE  Paid(b, x) \in [1..Len(b) -> Nat] /\ Paid(b, x) \in Terms(Len(b))
<1>1. \A k \in 1..Len(b) : b[k].price * x[k] \in Nat
  <2> SUFFICES ASSUME NEW k \in 1..Len(b) PROVE b[k].price * x[k] \in Nat
    OBVIOUS
  <2>1. b[k].price \in Nat /\ x[k] \in Nat
    BY LevelsAre
  <2> QED
    BY <2>1
<1>2. Paid(b, x) \in [1..Len(b) -> Nat]
  BY <1>1 DEF Paid
<1> QED
  BY <1>2 DEF Terms

Reached(o, b, k) == \E n \in 1..k : n \in Reach(o, b)

\* What either walk has taken, paid and left after k levels.
WalkIsAt(f, o, b, C, P, k) ==
  /\ f[k].taken = Lesser(V!Required(o.lots), C[k])
  /\ f[k].remaining = V!Required(o.lots) - Lesser(V!Required(o.lots), C[k])
  /\ f[k].cost = P[k]
  /\ f[k].depth \in Nat /\ f[k].depth <= k
  /\ f[k].depth > 0 <=> Reached(o, b, k)

LEMMA WalkIs ==
  ASSUME NEW o \in V!Order, NEW b \in Books, NEW f, IsWalk(f, o, b),
         NEW C, IsSums(C, Volumes(b, Reach(o, b)), Len(b)),
         NEW P, IsSums(P, Paid(b, Eaten(V!Required(o.lots), C, Len(b))), Len(b))
  PROVE  \A k \in 0..Len(b) : WalkIsAt(f, o, b, C, P, k)
<1> DEFINE N == Len(b)
           v == Volumes(b, Reach(o, b))
           r == V!Required(o.lots)
           x == Eaten(r, C, N)
           T == {k \in 0..N : WalkIsAt(f, o, b, C, P, k)}
<1>1. N \in Nat /\ DOMAIN b = 1..N /\ r \in Nat
  BY LevelsAre, OrderIs
<1>2. v \in [1..N -> Nat]
  BY VolumesAre
<1>3. \A k \in 1..N : /\ x[k] \in Nat /\ x[k] <= v[k]
                      /\ x[k] = Lesser(v[k], r - Lesser(r, C[k - 1]))
  <2>1. IsSums(C, v, N)
    OBVIOUS
  <2> HIDE DEF r, v, N, x
  <2>2. x \in [1..N -> Nat] /\ \A k \in 1..N : x[k] <= v[k]
    BY <1>1, <1>2, <2>1, EatenIs DEF x
  <2>3. \A k \in 1..N : x[k] = Lesser(v[k], r - Lesser(r, C[k - 1]))
    BY <1>1, <1>2, <2>1, EatenIs DEF x
  <2> QED
    BY <2>2, <2>3
<1>4. IsSums(TakenUpTo(r, C, N), x, N)
  BY <1>1, <1>2, EatenIs
<1>5. \A k \in 1..N : v[k] = IF k \in Reach(o, b) THEN 5 * b[k].size ELSE 0
  BY DEF Volumes
<1>6. P \in [0..N -> Int] /\ P[0] = 0 /\ \A k \in 1..N : P[k] = P[k - 1] + b[k].price * x[k]
  BY DEF IsSums, Paid
<1>7. C[0] = 0 /\ \A k \in 0..N : C[k] \in Nat
  <2>1. C[0] = 0
    BY DEF IsSums
  <2> QED
    BY <1>1, <1>2, <2>1, SumsGrow
<1>8. \A k \in 1..N : Lesser(r, C[k]) = Lesser(r, C[k - 1]) + x[k]
  <2> SUFFICES ASSUME NEW k \in 1..N PROVE Lesser(r, C[k]) = Lesser(r, C[k - 1]) + x[k]
    OBVIOUS
  <2>1. k \in 0..N /\ k - 1 \in 0..N
    BY <1>1
  <2> HIDE DEF x, N
  <2>2. TakenUpTo(r, C, N)[k] = TakenUpTo(r, C, N)[k - 1] + x[k]
    BY <1>4 DEF IsSums
  <2> QED
    BY <2>1, <2>2 DEF TakenUpTo
<1>9. f \in [0..N -> Walks] /\ f[0] = V!NothingYet(o.lots)
  BY DEF IsWalk
<1>10. \A n \in 1..N : /\ n \in Reach(o, b) => Advances(f[n - 1], f[n], b[n])
                       /\ n \notin Reach(o, b) => f[n] = f[n - 1]
  BY DEF IsWalk
<1>11. 0 \in T
  <2>1. /\ f[0].taken = 0 /\ f[0].remaining = r /\ f[0].cost = 0 /\ f[0].depth = 0
    BY <1>9 DEF V!NothingYet
  <2>2. Lesser(r, C[0]) = 0
    BY <1>1, <1>7 DEF Lesser
  <2>3. ~Reached(o, b, 0)
    BY DEF Reached
  <2> HIDE DEF r
  <2> QED
    BY <1>1, <1>6, <2>1, <2>2, <2>3 DEF WalkIsAt, r
<1>12. ASSUME NEW k \in Nat, k < N, k \in T PROVE k + 1 \in T
  <2>1. k \in 0..N /\ k + 1 \in 1..N /\ k + 1 \in 0..N /\ (k + 1) - 1 = k
    BY <1>1, <1>12
  <2>2. /\ f[k].taken = Lesser(r, C[k]) /\ f[k].remaining = r - Lesser(r, C[k])
        /\ f[k].cost = P[k] /\ f[k].depth \in Nat /\ f[k].depth <= k
        /\ f[k].depth > 0 <=> Reached(o, b, k)
    BY <1>12 DEF WalkIsAt
  <2>3. Lesser(r, C[k + 1]) = Lesser(r, C[k]) + x[k + 1] /\ x[k + 1] \in Nat
        /\ P[k + 1] = P[k] + b[k + 1].price * x[k + 1]
        /\ x[k + 1] = Lesser(v[k + 1], r - Lesser(r, C[k]))
    BY <1>3, <1>6, <1>8, <2>1
  <2>4. Lesser(r, C[k]) \in Int /\ P[k] \in Int /\ b[k + 1].price \in Nat
    <3> HIDE DEF T, x, r, v
    <3>1. C[k] \in Nat /\ P[k] \in Int
      BY <1>6, <1>7, <2>1
    <3>2. b[k + 1].price \in Nat
      BY <1>1, <2>1, LevelsAre
    <3> QED
      BY <1>1, <3>1, <3>2 DEF Lesser
  <2> HIDE DEF T, x, r, v
  <2>5. Reached(o, b, k + 1) <=> Reached(o, b, k) \/ k + 1 \in Reach(o, b)
    BY <2>1 DEF Reached
  <2>6. CASE k + 1 \in Reach(o, b)
    <3>1. x[k + 1] = Lesser(5 * b[k + 1].size, f[k].remaining)
      BY <1>5, <2>1, <2>2, <2>3, <2>6
    <3>2. /\ f[k + 1].taken = f[k].taken + x[k + 1]
          /\ f[k + 1].cost = f[k].cost + b[k + 1].price * x[k + 1]
          /\ f[k + 1].remaining = f[k].remaining - x[k + 1]
          /\ f[k + 1].depth = f[k].depth + 1 \/ (f[k + 1].depth = f[k].depth /\ f[k].depth > 0)
      BY <1>10, <2>1, <2>6, <3>1 DEF Advances
    <3>3. /\ f[k + 1].taken = Lesser(r, C[k + 1])
          /\ f[k + 1].remaining = r - Lesser(r, C[k + 1])
      BY <1>1, <2>2, <2>3, <2>4, <3>2
    <3>4. f[k + 1].cost = P[k + 1]
      BY <2>2, <2>3, <3>2
    <3>5. f[k + 1].depth \in Nat /\ f[k + 1].depth <= k + 1 /\ f[k + 1].depth > 0
      BY <2>2, <3>2
    <3> QED
      BY <2>1, <2>5, <2>6, <3>3, <3>4, <3>5 DEF T, WalkIsAt, r
  <2>7. CASE k + 1 \notin Reach(o, b)
    <3>1. f[k + 1] = f[k]
      BY <1>10, <2>1, <2>7
    <3>2. v[k + 1] = 0
      BY <1>5, <2>1, <2>7
    <3>3. x[k + 1] = 0
      BY <1>3, <2>1, <2>3, <3>2
    <3>4. Lesser(r, C[k + 1]) = Lesser(r, C[k])
      BY <2>3, <2>4, <3>3
    <3>5. P[k + 1] = P[k]
      BY <2>3, <2>4, <3>3
    <3>6. f[k].depth <= k + 1
      BY <2>2
    <3> QED
      BY <2>1, <2>2, <2>5, <2>7, <3>1, <3>4, <3>5, <3>6 DEF T, WalkIsAt, r
  <2> QED
    BY <2>6, <2>7
<1> HIDE DEF T, N
<1>13. \A k \in 0..N : k \in T
  BY <1>1, <1>11, <1>12, UpTo
<1> QED
  BY <1>13 DEF T, N

-----------------------------------------------------------------------------
(* VolumeWalk: what an order takes of the levels of the book *)

\* The terms of u at the places that q gives them among n.
Moved(u, q, m, n) ==
    [j \in 1..n |-> IF \E k \in 1..m : q[k] = j THEN u[CHOOSE k \in 1..m : q[k] = j] ELSE 0]

LEMMA MovedIs ==
  ASSUME NEW m \in Nat, NEW n \in Nat, NEW u \in [1..m -> Nat], NEW q, Injects(q, m, n)
  PROVE  /\ Moved(u, q, m, n) \in [1..n -> Nat]
         /\ \A k \in 1..m : Moved(u, q, m, n)[q[k]] = u[k]
         /\ \A j \in 1..n : (\A k \in 1..m : q[k] # j) => Moved(u, q, m, n)[j] = 0
         /\ Rearranges(u, Moved(u, q, m, n), q, m, n)
<1> DEFINE x == Moved(u, q, m, n)
<1>1. \A j \in 1..n :
        x[j] = IF \E k \in 1..m : q[k] = j THEN u[CHOOSE k \in 1..m : q[k] = j] ELSE 0
  BY DEF Moved
<1>2. x = [j \in 1..n |-> x[j]]
  BY DEF Moved
<1> HIDE DEF x
<1>3. \A k \in 1..m : x[q[k]] = u[k]
  <2> SUFFICES ASSUME NEW k \in 1..m PROVE x[q[k]] = u[k]
    OBVIOUS
  <2>1. q[k] \in 1..n /\ \A i \in 1..m : q[i] = q[k] => i = k
    BY DEF Injects
  <2>2. (CHOOSE i \in 1..m : q[i] = q[k]) = k
    BY <2>1
  <2> QED
    BY <1>1, <2>1, <2>2
<1>4. \A j \in 1..n : (\A k \in 1..m : q[k] # j) => x[j] = 0
  BY <1>1
<1>5. \A j \in 1..n : x[j] \in Nat
  BY <1>3, <1>4
<1> QED
  BY <1>2, <1>3, <1>4, <1>5 DEF Rearranges, x

LEMMA PaidMoves ==
  ASSUME NEW a \in Books, NEW b \in Books, NEW e, NEW x \in [1..Len(b) -> Nat], NEW p,
         Injects(p, Len(a), Len(b)), \A k \in 1..Len(a) : a[k] = b[p[k]],
         Rearranges(e, x, p, Len(a), Len(b)),
         \A j \in 1..Len(b) : (\A k \in 1..Len(a) : p[k] # j) => x[j] = 0
  PROVE  Rearranges(Paid(a, e), Paid(b, x), p, Len(a), Len(b))
<1> DEFINE m == Len(a)
           n == Len(b)
<1>1. \A k \in 1..m : p[k] \in 1..n /\ e[k] = x[p[k]]
  BY DEF Injects, Rearranges
<1>2. \A k \in 1..m : Paid(a, e)[k] = Paid(b, x)[p[k]]
  BY <1>1 DEF Paid
<1>3. ASSUME NEW i \in 1..n, \A k \in 1..m : p[k] # i PROVE Paid(b, x)[i] = 0
  <2>1. x[i] = 0 /\ b[i].price \in Nat
    BY <1>3, LevelsAre
  <2>2. Paid(b, x)[i] = b[i].price * x[i]
    BY DEF Paid
  <2> QED
    BY <2>1, <2>2
<1> QED
  BY <1>2, <1>3 DEF Rearranges

\* The levels of a book within the limit of an order.
Within(o, b) ==
    {i \in V!Facing(b, o.direction) :
        V!Reachable(b[i], o, V!Limit(o, V!Ladder(b, o.direction)))}

\* Nothing is taken at a price before all there is at the better ones.
BestFirst(d, b, x, v) ==
    \A i, j \in 1..Len(b) : V!Better(d, b[i].price, b[j].price) /\ x[j] > 0 => x[i] = v[i]

\* x is what the order takes of the levels; X, P and O are sums of what it
\* takes, what it pays and what there is.
IsFilling(o, b, x, X, P, O) ==
  /\ x \in [1..Len(b) -> Nat]
  /\ IsSums(X, x, Len(b))
  /\ IsSums(P, Paid(b, x), Len(b))
  /\ IsSums(O, Volumes(b, Within(o, b)), Len(b))
  /\ \A i \in 1..Len(b) : x[i] <= Volumes(b, Within(o, b))[i]
  /\ BestFirst(o.direction, b, x, Volumes(b, Within(o, b)))
  /\ X[Len(b)] = Lesser(V!Required(o.lots), O[Len(b)])

\* The outcome of a walk.
Ends(w, o, b, X, P) ==
  /\ w.taken = X[Len(b)] /\ w.cost = P[Len(b)]
  /\ w.depth \in Nat /\ w.depth <= Len(b)
  /\ w.depth > 0 <=> Within(o, b) # {}

Root(o, b) == V!Walk("root", o, V!Ladder(b, o.direction))
App(o, b) == V!Walk("app", o, V!Ladder(b, o.direction))

LEMMA FillingExists ==
  ASSUME NEW o \in V!Order, NEW b \in Books
  PROVE  \E x, X, P, O : /\ IsFilling(o, b, x, X, P, O)
                         /\ Ends(Root(o, b), o, b, X, P)
                         /\ Ends(App(o, b), o, b, X, P)
                         /\ App(o, b).total = O[Len(b)]
<1> DEFINE d == o.direction
           a == V!Ladder(b, d)
           p == Positions(b, d)
           n == Len(b)
           m == Cardinality(V!Facing(b, d))
           r == V!Required(o.lots)
           v == Volumes(a, Reach(o, a))
           w == Volumes(b, Within(o, b))
<1>1. d \in Directions /\ r \in Nat /\ n \in Nat /\ DOMAIN b = 1..n
  BY OrderIs, LevelsAre
<1>2. IsLadder(b, d, p, m)
  BY <1>1, LadderIs
<1>3. a \in Books /\ Len(a) = m /\ m \in Nat /\ m <= n /\ DOMAIN a = 1..m
  BY <1>1, <1>2, LadderIsBook, LevelsAre DEF IsLadder
<1>4. /\ Injects(p, m, n)
      /\ \A k \in 1..m : p[k] \in V!Facing(b, d)
      /\ \A i \in V!Facing(b, d) : \E k \in 1..m : p[k] = i
      /\ a = [k \in 1..m |-> b[p[k]]]
      /\ \A h, k \in 1..m : h < k => ~V!Better(d, b[p[k]].price, b[p[h]].price)
  BY <1>2 DEF IsLadder
<1>5. \A k \in 1..m : p[k] \in 1..n /\ a[k] = b[p[k]]
  BY <1>4 DEF Injects
<1>6. v \in [1..m -> Nat] /\ v \in Terms(m) /\ w \in [1..n -> Nat] /\ w \in Terms(n)
  BY <1>3, VolumesAre
<1>7. \A k \in 1..m : k \in Reach(o, a) <=> p[k] \in Within(o, b)
  BY <1>3, <1>4, <1>5 DEF Reach, Within
<1>8. \A k \in 1..m : v[k] = w[p[k]]
  BY <1>3, <1>5, <1>7 DEF Volumes
<1>9. \A i \in 1..n : (\A k \in 1..m : p[k] # i) => w[i] = 0
  BY <1>4 DEF Volumes, Within
<1>10. Rearranges(v, w, p, m, n)
  BY <1>8, <1>9 DEF Rearranges
<1>11. Reached(o, a, m) <=> Within(o, b) # {}
  <2>1. ASSUME Reached(o, a, m) PROVE Within(o, b) # {}
    BY <1>7, <2>1 DEF Reached
  <2>2. ASSUME NEW i \in Within(o, b) PROVE Reached(o, a, m)
    <3>1. PICK k \in 1..m : p[k] = i
      BY <1>4 DEF Within
    <3> QED
      BY <1>7, <3>1 DEF Reached
  <2> QED
    BY <2>1, <2>2
<1>12. PICK C : IsSums(C, v, m)
  BY <1>3, <1>6, SumsExist
<1> DEFINE e == Eaten(r, C, m)
           x == Moved(e, p, m, n)
<1> HIDE DEF d, a, p, n, m, r, v, w
<1>13. /\ e \in [1..m -> Nat] /\ IsSums(TakenUpTo(r, C, m), e, m)
       /\ \A k \in 1..m : e[k] <= v[k]
       /\ InTurn(e, v, m)
  BY <1>1, <1>3, <1>6, <1>12, EatenIs
<1> HIDE DEF e
<1>14. /\ x \in [1..n -> Nat] /\ \A k \in 1..m : x[p[k]] = e[k]
       /\ \A j \in 1..n : (\A k \in 1..m : p[k] # j) => x[j] = 0
       /\ Rearranges(e, x, p, m, n)
  BY <1>1, <1>3, <1>4, <1>13, MovedIs
<1> HIDE DEF x
<1>15. e \in Terms(m) /\ x \in Terms(n)
  BY <1>13, <1>14 DEF Terms
<1>16. Paid(a, e) \in Terms(m) /\ Paid(b, x) \in Terms(n)
  BY <1>3, <1>13, <1>14, PaidIs DEF n
<1>17. Rearranges(Paid(a, e), Paid(b, x), p, m, n)
  BY <1>1, <1>3, <1>4, <1>5, <1>14, PaidMoves DEF n
<1>18. PICK P0 : IsSums(P0, Paid(a, e), m)
  BY <1>3, <1>16, SumsExist
<1>19. PICK X : IsSums(X, x, n)
  BY <1>1, <1>15, SumsExist
<1>20. PICK P : IsSums(P, Paid(b, x), n)
  BY <1>1, <1>16, SumsExist
<1>21. PICK O : IsSums(O, w, n)
  BY <1>1, <1>6, SumsExist
<1>22. C[m] = O[n]
  BY <1>1, <1>3, <1>4, <1>6, <1>10, <1>12, <1>21, SumsRearrange
<1>23. TakenUpTo(r, C, m)[m] = X[n]
  BY <1>1, <1>3, <1>4, <1>13, <1>14, <1>15, <1>19, SumsRearrange
<1>24. P0[m] = P[n]
  BY <1>1, <1>3, <1>4, <1>16, <1>17, <1>18, <1>20, SumsRearrange
<1>25. X[n] = Lesser(r, C[m])
  BY <1>3, <1>23 DEF TakenUpTo
<1>26. \A i \in 1..n : x[i] <= w[i]
  <2> SUFFICES ASSUME NEW i \in 1..n PROVE x[i] <= w[i]
    OBVIOUS
  <2>1. CASE \E k \in 1..m : p[k] = i
    BY <1>8, <1>13, <1>14, <2>1
  <2>2. CASE \A k \in 1..m : p[k] # i
    BY <1>6, <1>14, <2>2
  <2> QED
    BY <2>1, <2>2
<1>27. BestFirst(d, b, x, w)
  <2> SUFFICES ASSUME NEW i \in 1..n, NEW j \in 1..n,
                      V!Better(d, b[i].price, b[j].price), x[j] > 0
               PROVE  x[i] = w[i]
    BY DEF BestFirst, n
  <2>1. PICK k \in 1..m : p[k] = j
    BY <1>14
  <2>2. CASE \E h \in 1..m : p[h] = i
    <3>1. PICK h \in 1..m : p[h] = i
      BY <2>2
    <3>2. ~k < h
      BY <1>4, <2>1, <3>1
    <3>3. h # k
      <4>1. b[i].price \in Nat
        BY <1>1, LevelsAre
      <4>2. ~V!Better(d, b[i].price, b[i].price)
        BY <4>1 DEF V!Better
      <4> QED
        BY <2>1, <3>1, <4>2
    <3>4. h < k
      BY <3>2, <3>3
    <3>5. e[k] > 0
      BY <1>14, <2>1
    <3>6. e[h] = v[h]
      BY <1>13, <3>4, <3>5 DEF InTurn
    <3> QED
      BY <1>8, <1>14, <3>1, <3>6
  <2>3. CASE \A h \in 1..m : p[h] # i
    BY <1>9, <1>14, <2>3
  <2> QED
    BY <2>2, <2>3
<1>28. IsFilling(o, b, x, X, P, O)
  BY <1>14, <1>19, <1>20, <1>21, <1>22, <1>25, <1>26, <1>27 DEF IsFilling, d, n, r, w
<1>29. ASSUME NEW f, IsWalk(f, o, a) PROVE Ends(f[m], o, b, X, P) /\ f[0].total = 0
  <2>1. IsSums(C, Volumes(a, Reach(o, a)), Len(a))
    BY <1>3, <1>12 DEF v
  <2>2. IsSums(P0, Paid(a, Eaten(V!Required(o.lots), C, Len(a))), Len(a))
    BY <1>3, <1>18 DEF e, r
  <2>3. \A k \in 0..Len(a) : WalkIsAt(f, o, a, C, P0, k)
    BY <1>3, <1>29, <2>1, <2>2, WalkIs
  <2>4. WalkIsAt(f, o, a, C, P0, m)
    BY <1>3, <2>3
  <2>5. f[m].taken = X[n] /\ f[m].cost = P[n] /\ f[m].depth \in Nat /\ f[m].depth <= m
        /\ (f[m].depth > 0 <=> Reached(o, a, m))
    BY <1>24, <1>25, <2>4 DEF WalkIsAt, r
  <2>6. f[m].depth <= n
    BY <1>1, <1>3, <2>5
  <2>7. f[0].total = 0
    BY <1>29 DEF IsWalk, V!NothingYet
  <2> QED
    BY <1>11, <2>5, <2>6, <2>7 DEF Ends, n
<1>30. Ends(Root(o, b), o, b, X, P)
  <2>1. PICK f : IsWalk(f, o, a) /\ f[Len(a)] = V!Walk("root", o, a)
    BY <1>3, RootWalk
  <2> QED
    BY <1>3, <1>29, <2>1 DEF Root, a, d
<1>31. Ends(App(o, b), o, b, X, P) /\ App(o, b).total = O[n]
  <2>1. PICK f : /\ IsWalk(f, o, a) /\ f[Len(a)] = V!Walk("app", o, a)
                 /\ \A k \in 1..Len(a) :
                      f[k].total = f[k - 1].total + Volumes(a, Reach(o, a))[k]
    BY <1>3, AppWalk
  <2>2. f[m] = App(o, b)
    BY <1>3, <2>1 DEF App, a, d
  <2> DEFINE t == [k \in 0..m |-> f[k].total]
  <2>3. IsSums(t, v, m)
    <3>1. f \in [0..m -> Walks] /\ f[0].total = 0
      BY <1>3, <1>29, <2>1 DEF IsWalk
    <3>2. t \in [0..m -> Int]
      <4>1. \A y \in Walks : y.total \in Int
        BY DEF Walks
      <4> QED
        BY <3>1, <4>1
    <3>3. t[0] = 0
      BY <1>3, <3>1
    <3>4. \A k \in 1..m : t[k] = t[k - 1] + v[k]
      BY <1>3, <2>1 DEF v
    <3> QED
      BY <3>2, <3>3, <3>4 DEF IsSums
  <2>4. t = C
    BY <1>3, <1>6, <1>12, <2>3, SumsUnique
  <2>5. f[m].total = C[m]
    BY <1>3, <2>4
  <2> QED
    BY <1>22, <1>29, <2>1, <2>2, <2>5
<1> QED
  BY <1>28, <1>30, <1>31 DEF n

-----------------------------------------------------------------------------
(* VolumeWalk: no other choice of levels is better *)

LEMMA GreatestTerm ==
  ASSUME NEW n \in Nat, NEW a \in Terms(n), NEW O, O \subseteq 1..n, O # {}
  PROVE  \E i \in O : \A j \in O : a[j] <= a[i]
<1> DEFINE Greatest(i, k) == i \in O /\ \A j \in O : j <= k => a[j] <= a[i]
           T == {k \in 0..n : (\E i : Greatest(i, k)) \/ (\A j \in O : ~j <= k)}
<1>0. \A i \in O : i \in 1..n /\ a[i] \in Int
  BY DEF Terms
<1>1. 0 \in T
  BY <1>0
<1>2. ASSUME NEW k \in Nat, k < n, k \in T PROVE k + 1 \in T
  <2>1. k + 1 \in 0..n /\ \A j \in O : j <= k + 1 <=> j <= k \/ j = k + 1
    BY <1>0, <1>2
  <2>2. CASE k + 1 \notin O
    <3>1. \A j \in O : j <= k + 1 <=> j <= k
      BY <2>1, <2>2
    <3> QED
      BY <1>2, <2>1, <3>1
  <2>3. CASE k + 1 \in O /\ \A j \in O : ~j <= k
    <3>1. Greatest(k + 1, k + 1)
      BY <1>0, <2>1, <2>3
    <3> HIDE DEF Greatest
    <3> QED
      BY <2>1, <3>1
  <2>4. CASE k + 1 \in O /\ \E i : Greatest(i, k)
    <3>1. PICK i : Greatest(i, k)
      BY <2>4
    <3>2. CASE a[k + 1] <= a[i]
      <4>1. Greatest(i, k + 1)
        BY <2>1, <3>1, <3>2
      <4> HIDE DEF Greatest
      <4> QED
        BY <2>1, <4>1
    <3>3. CASE ~a[k + 1] <= a[i]
      <4>1. ASSUME NEW j \in O, j <= k + 1 PROVE a[j] <= a[k + 1]
        <5>1. a[j] \in Int /\ a[i] \in Int /\ a[k + 1] \in Int
          BY <1>0, <2>4, <3>1
        <5>2. CASE j = k + 1
          BY <5>1, <5>2
        <5>3. CASE j <= k
          <6>1. a[j] <= a[i]
            BY <3>1, <5>3
          <6> QED
            BY <3>3, <5>1, <6>1
        <5> QED
          BY <2>1, <4>1, <5>2, <5>3
      <4>2. Greatest(k + 1, k + 1)
        BY <2>4, <4>1
      <4> HIDE DEF Greatest
      <4> QED
        BY <2>1, <4>2
    <3> QED
      BY <3>2, <3>3
  <2> QED
    BY <1>2, <2>2, <2>3, <2>4
<1> HIDE DEF T
<1>3. \A k \in 0..n : k \in T
  BY <1>1, <1>2, UpTo
<1>4. n \in T
  BY <1>3
<1>5. \A j \in O : j <= n
  BY <1>0
<1> QED
  BY <1>4, <1>5 DEF T

\* i is a level that is taken from, and none taken from is worse.
IsWorst(d, b, x, i) ==
  /\ i \in 1..Len(b) /\ x[i] > 0
  /\ \A j \in 1..Len(b) : x[j] > 0 => d * b[j].price <= d * b[i].price

IsBest(d, b, x, i) ==
  /\ i \in 1..Len(b) /\ x[i] > 0
  /\ \A j \in 1..Len(b) : x[j] > 0 => d * b[i].price <= d * b[j].price

LEMMA SignedPrice ==
  ASSUME NEW d \in Directions, NEW b \in Books, NEW i \in 1..Len(b), NEW j \in 1..Len(b)
  PROVE  /\ d * b[i].price \in Int
         /\ V!Better(d, b[i].price, b[j].price) <=> d * b[i].price < d * b[j].price
         /\ -(d * b[i].price) \in Int
<1>1. b[i].price \in Nat /\ b[j].price \in Nat
  BY LevelsAre
<1>2. CASE d = 1
  BY <1>1, <1>2 DEF V!Better
<1>3. CASE d = -1
  BY <1>1, <1>3 DEF V!Better
<1> QED
  BY <1>2, <1>3 DEF Directions

LEMMA WorstExists ==
  ASSUME NEW d \in Directions, NEW b \in Books, NEW x \in [1..Len(b) -> Nat],
         NEW X, IsSums(X, x, Len(b)), X[Len(b)] > 0
  PROVE  (\E i : IsWorst(d, b, x, i)) /\ (\E i : IsBest(d, b, x, i))
<1> DEFINE n == Len(b)
           O == {i \in 1..n : x[i] > 0}
           up == [i \in 1..n |-> d * b[i].price]
           down == [i \in 1..n |-> -(d * b[i].price)]
<1>1. n \in Nat /\ x \in Terms(n)
  BY LevelsAre DEF Terms
<1>2. up \in Terms(n) /\ down \in Terms(n)
  BY SignedPrice DEF Terms
<1>3. O # {}
  <2> SUFFICES ASSUME O = {} PROVE FALSE
    OBVIOUS
  <2>1. \A k \in 1..n : x[k] = 0
    OBVIOUS
  <2>2. X[n] = 0
    <3> HIDE DEF n
    <3> QED
      BY <1>1, <2>1, SumsOfNothing DEF n
  <2> QED
    BY <2>2
<1>4. O \subseteq 1..n
  OBVIOUS
<1>5. PICK i \in O : \A j \in O : up[j] <= up[i]
  <2> HIDE DEF O, up, n
  <2> QED
    BY <1>1, <1>2, <1>3, <1>4, GreatestTerm
<1>6. PICK k \in O : \A j \in O : down[j] <= down[k]
  <2> HIDE DEF O, down, n
  <2> QED
    BY <1>1, <1>2, <1>3, <1>4, GreatestTerm
<1>7. IsWorst(d, b, x, i)
  BY <1>5 DEF IsWorst
<1>8. IsBest(d, b, x, k)
  <2>1. ASSUME NEW j \in 1..Len(b), x[j] > 0 PROVE d * b[k].price <= d * b[j].price
    <3>1. d * b[k].price \in Int /\ d * b[j].price \in Int
      BY SignedPrice
    <3>2. -(d * b[j].price) <= -(d * b[k].price)
      BY <1>6, <2>1
    <3>3. \A y, z \in Int : -y <= -z => z <= y
      OBVIOUS
    <3> QED
      BY <3>1, <3>2, <3>3
  <2> QED
    BY <2>1 DEF IsBest
<1> QED
  BY <1>7, <1>8

Scaled(c, a, O) == [k \in O |-> c * a[k]]

LEMMA SumsTimes ==
  ASSUME NEW n \in Nat, NEW c \in Int, NEW a \in Terms(n), NEW SA, IsSums(SA, a, n)
  PROVE  /\ Scaled(c, a, 1..n) \in Terms(n)
         /\ IsSums(Scaled(c, SA, 0..n), Scaled(c, a, 1..n), n)
<1>1. \A k \in 1..n : a[k] \in Int /\ c * a[k] \in Int
  BY DEF Terms
<1>2. Scaled(c, a, 1..n) \in Terms(n)
  BY <1>1 DEF Terms, Scaled
<1>3. SA \in [0..n -> Int] /\ SA[0] = 0 /\ \A k \in 1..n : SA[k] = SA[k - 1] + a[k]
  BY DEF IsSums
<1>4. \A k \in 0..n : c * SA[k] \in Int
  BY <1>3
<1>5. Scaled(c, SA, 0..n) \in [0..n -> Int]
  BY <1>4 DEF Scaled
<1>6. Scaled(c, SA, 0..n)[0] = 0
  BY <1>3 DEF Scaled
<1>7. ASSUME NEW k \in 1..n
      PROVE  Scaled(c, SA, 0..n)[k] = Scaled(c, SA, 0..n)[k - 1] + Scaled(c, a, 1..n)[k]
  <2>1. k \in 0..n /\ k - 1 \in 0..n
    OBVIOUS
  <2>2. SA[k - 1] \in Int /\ a[k] \in Int /\ SA[k] = SA[k - 1] + a[k]
    BY <1>1, <1>3, <2>1
  <2>3. \A y, z \in Int : c * (y + z) = c * y + c * z
    OBVIOUS
  <2>4. c * SA[k] = c * SA[k - 1] + c * a[k]
    BY <2>2, <2>3
  <2> QED
    BY <2>1, <2>4 DEF Scaled
<1> QED
  BY <1>2, <1>5, <1>6, <1>7 DEF IsSums

LEMMA ExchangeOne ==
  ASSUME NEW d \in Directions, NEW p \in Nat, NEW t \in Nat, NEW x \in Nat, NEW y \in Nat,
         d * p < d * t => y <= x, d * t < d * p => x <= y
  PROVE  d * (p * x) + (d * t) * y <= d * (p * y) + (d * t) * x
<1>1. ASSUME NEW a \in Nat, NEW c \in Nat, NEW u \in Nat, NEW w \in Nat, a <= c, u <= w
      PROVE  a * w + c * u <= a * u + c * w
  <2>1. PICK e \in Nat : c = a + e
    <3>1. c - a \in Nat /\ c = a + (c - a)
      BY <1>1
    <3> QED
      BY <3>1
  <2>2. PICK f \in Nat : w = u + f
    <3>1. w - u \in Nat /\ w = u + (w - u)
      BY <1>1
    <3> QED
      BY <3>1
  <2>3. e * f >= 0
    OBVIOUS
  <2>4. c * u = a * u + e * u /\ c * w = a * w + e * w /\ e * w = e * u + e * f
    BY <2>1, <2>2
  <2>5. a * w \in Int /\ a * u \in Int /\ e * u \in Int /\ e * f \in Int /\ e * w \in Int
    OBVIOUS
  <2> QED
    BY <2>3, <2>4, <2>5
<1>2. p * x \in Int /\ p * y \in Int /\ t * x \in Int /\ t * y \in Int
  OBVIOUS
<1>3. CASE d = 1
  <2>1. p * x + t * y <= p * y + t * x
    <3>1. CASE p < t
      <4>1. y <= x
        BY <1>3, <3>1
      <4> QED
        BY <1>1, <1>2, <3>1, <4>1
    <3>2. CASE p = t
      BY <1>2, <3>2
    <3>3. CASE t < p
      <4>1. x <= y
        BY <1>3, <3>3
      <4>2. t * y + p * x <= t * x + p * y
        BY <1>1, <3>3, <4>1
      <4> QED
        BY <1>2, <4>2
    <3> QED
      BY <3>1, <3>2, <3>3
  <2> QED
    BY <1>2, <1>3, <2>1
<1>4. CASE d = -1
  <2>1. p * y + t * x <= p * x + t * y
    <3>1. CASE p < t
      <4>1. x <= y
        BY <1>4, <3>1
      <4> QED
        BY <1>1, <1>2, <3>1, <4>1
    <3>2. CASE p = t
      BY <1>2, <3>2
    <3>3. CASE t < p
      <4>1. y <= x
        BY <1>4, <3>3
      <4>2. t * x + p * y <= t * y + p * x
        BY <1>1, <3>3, <4>1
      <4> QED
        BY <1>2, <4>2
    <3> QED
      BY <3>1, <3>2, <3>3
  <2>2. /\ d * (p * x) = -(p * x) /\ d * (p * y) = -(p * y)
        /\ (d * t) * y = -(t * y) /\ (d * t) * x = -(t * x)
    BY <1>4
  <2> QED
    BY <1>2, <2>1, <2>2
<1> QED
  BY <1>3, <1>4 DEF Directions

\* What is taken best first costs no more than any other choice of as much.
LEMMA Exchange ==
  ASSUME NEW d \in Directions, NEW b \in Books,
         NEW v \in [1..Len(b) -> Nat], NEW x \in [1..Len(b) -> Nat], NEW y \in [1..Len(b) -> Nat],
         \A k \in 1..Len(b) : y[k] <= v[k], BestFirst(d, b, x, v),
         NEW i, IsWorst(d, b, x, i),
         NEW X, IsSums(X, x, Len(b)), NEW P, IsSums(P, Paid(b, x), Len(b)),
         NEW Y, IsSums(Y, y, Len(b)), NEW Q, IsSums(Q, Paid(b, y), Len(b))
  PROVE  d * P[Len(b)] + (d * b[i].price) * Y[Len(b)]
            <= d * Q[Len(b)] + (d * b[i].price) * X[Len(b)]
<1> DEFINE n == Len(b)
           px == Paid(b, x)
           py == Paid(b, y)
<1>1. n \in Nat /\ d \in Int /\ i \in 1..n /\ x \in Terms(n) /\ y \in Terms(n)
  BY LevelsAre DEF Terms, IsWorst, Directions
<1>2. px \in Terms(n) /\ py \in Terms(n)
  BY PaidIs
<1>3. PICK c \in Int : c = d * b[i].price
  BY <1>1, SignedPrice
<1>4. IsSums(X, x, n) /\ IsSums(P, px, n) /\ IsSums(Y, y, n) /\ IsSums(Q, py, n)
  OBVIOUS
<1>5. ASSUME NEW k \in 1..n
      PROVE  Scaled(d, px, 1..n)[k] + Scaled(c, y, 1..n)[k]
                <= Scaled(d, py, 1..n)[k] + Scaled(c, x, 1..n)[k]
  <2>1. PICK p \in Nat : p = b[k].price
    BY LevelsAre
  <2>2. PICK t \in Nat : t = b[i].price
    BY <1>1, LevelsAre
  <2>3. PICK x0 \in Nat : x0 = x[k]
    OBVIOUS
  <2>4. PICK y0 \in Nat : y0 = y[k]
    OBVIOUS
  <2>5. d * p < d * t => y0 <= x0
    <3> SUFFICES ASSUME d * p < d * t PROVE y0 <= x0
      OBVIOUS
    <3>1. V!Better(d, b[k].price, b[i].price)
      BY <1>1, <2>1, <2>2, SignedPrice
    <3>2. x[k] = v[k]
      BY <1>1, <3>1 DEF BestFirst, IsWorst
    <3> QED
      BY <2>3, <2>4, <3>2
  <2>6. d * t < d * p => x0 <= y0
    <3> SUFFICES ASSUME d * t < d * p, ~x0 <= y0 PROVE FALSE
      OBVIOUS
    <3>1. x[k] > 0
      BY <2>3, <2>4
    <3>2. d * b[k].price <= d * b[i].price
      BY <3>1 DEF IsWorst
    <3>3. d * b[k].price \in Int /\ d * b[i].price \in Int
      BY <1>1, SignedPrice
    <3> QED
      BY <2>1, <2>2, <3>2, <3>3
  <2>7. d * (p * x0) + (d * t) * y0 <= d * (p * y0) + (d * t) * x0
    BY <2>5, <2>6, ExchangeOne
  <2>8. /\ Scaled(d, px, 1..n)[k] = d * (p * x0) /\ Scaled(d, py, 1..n)[k] = d * (p * y0)
        /\ Scaled(c, x, 1..n)[k] = c * x0 /\ Scaled(c, y, 1..n)[k] = c * y0
    BY <2>1, <2>3, <2>4 DEF Scaled, Paid
  <2>9. c = d * t
    BY <1>3, <2>2
  <2> QED
    BY <2>7, <2>8, <2>9
<1> HIDE DEF px, py, n
<1>6. PairsBelow(Scaled(d, px, 1..n), Scaled(c, y, 1..n),
                 Scaled(d, py, 1..n), Scaled(c, x, 1..n), 1..n)
  BY <1>5 DEF PairsBelow
<1>7. /\ Scaled(d, px, 1..n) \in Terms(n) /\ IsSums(Scaled(d, P, 0..n), Scaled(d, px, 1..n), n)
      /\ Scaled(d, py, 1..n) \in Terms(n) /\ IsSums(Scaled(d, Q, 0..n), Scaled(d, py, 1..n), n)
      /\ Scaled(c, x, 1..n) \in Terms(n) /\ IsSums(Scaled(c, X, 0..n), Scaled(c, x, 1..n), n)
      /\ Scaled(c, y, 1..n) \in Terms(n) /\ IsSums(Scaled(c, Y, 0..n), Scaled(c, y, 1..n), n)
  BY <1>1, <1>2, <1>3, <1>4, SumsTimes
<1>8. PairsBelow(Scaled(d, P, 0..n), Scaled(c, Y, 0..n),
                 Scaled(d, Q, 0..n), Scaled(c, X, 0..n), 0..n)
  BY <1>1, <1>6, <1>7, SumsCompare
<1>9. n \in 0..n
  BY <1>1
<1>10. d * P[n] + c * Y[n] <= d * Q[n] + c * X[n]
  BY <1>8, <1>9 DEF PairsBelow, Scaled
<1> QED
  BY <1>3, <1>10 DEF n

\* The price of what is taken is between those of the best and the worst level.
LEMMA PriceBetween ==
  ASSUME NEW d \in Directions, NEW b \in Books, NEW x \in [1..Len(b) -> Nat],
         NEW X, IsSums(X, x, Len(b)), NEW P, IsSums(P, Paid(b, x), Len(b)), NEW i
  PROVE  /\ IsWorst(d, b, x, i) => d * P[Len(b)] <= (d * b[i].price) * X[Len(b)]
         /\ IsBest(d, b, x, i) => (d * b[i].price) * X[Len(b)] <= d * P[Len(b)]
<1> DEFINE n == Len(b)
           px == Paid(b, x)
<1> SUFFICES ASSUME i \in 1..n
             PROVE  /\ IsWorst(d, b, x, i) => d * P[n] <= (d * b[i].price) * X[n]
                    /\ IsBest(d, b, x, i) => (d * b[i].price) * X[n] <= d * P[n]
  BY DEF IsWorst, IsBest
<1>1. n \in Nat /\ d \in Int /\ x \in Terms(n) /\ px \in Terms(n)
  BY LevelsAre, PaidIs DEF Terms, Directions
<1>2. PICK c \in Int : c = d * b[i].price
  BY SignedPrice
<1>3. IsSums(X, x, n) /\ IsSums(P, px, n)
  OBVIOUS
<1>4. \A e, f, y \in Int : y >= 0 /\ e <= f => e * y <= f * y
  <2> SUFFICES ASSUME NEW e \in Int, NEW f \in Int, NEW y \in Int, y >= 0, e <= f
               PROVE  e * y <= f * y
    OBVIOUS
  <2>1. PICK g \in Nat : f = e + g
    <3>1. f - e \in Nat /\ f = e + (f - e)
      OBVIOUS
    <3> QED
      BY <3>1
  <2>2. f * y = e * y + g * y /\ g * y >= 0 /\ e * y \in Int /\ g * y \in Int
    BY <2>1
  <2> QED
    BY <2>2
<1>5. ASSUME NEW k \in 1..n
      PROVE  /\ Scaled(d, px, 1..n)[k] = (d * b[k].price) * x[k]
             /\ Scaled(c, x, 1..n)[k] = c * x[k]
             /\ d * b[k].price \in Int /\ x[k] \in Nat
             /\ x[k] = 0 => (d * b[k].price) * x[k] = c * x[k]
  <2>1. PICK p \in Nat : p = b[k].price
    BY LevelsAre
  <2>2. PICK x0 \in Nat : x0 = x[k]
    OBVIOUS
  <2>3. d * (p * x0) = (d * p) * x0
    <3>1. CASE d = 1
      BY <3>1
    <3>2. CASE d = -1
      BY <3>2
    <3> QED
      BY <3>1, <3>2 DEF Directions
  <2>4. d * p \in Int /\ (x0 = 0 => (d * p) * x0 = c * x0)
    BY <1>1
  <2> QED
    BY <2>1, <2>2, <2>3, <2>4 DEF Scaled, Paid
<1> HIDE DEF n, px
<1>6. /\ Scaled(d, px, 1..n) \in Terms(n) /\ IsSums(Scaled(d, P, 0..n), Scaled(d, px, 1..n), n)
      /\ Scaled(c, x, 1..n) \in Terms(n) /\ IsSums(Scaled(c, X, 0..n), Scaled(c, x, 1..n), n)
  BY <1>1, <1>2, <1>3, SumsTimes
<1>7. n \in 0..n
  BY <1>1
<1>8. ASSUME IsWorst(d, b, x, i) PROVE d * P[n] <= c * X[n]
  <2>1. \A k \in 1..n : Scaled(d, px, 1..n)[k] <= Scaled(c, x, 1..n)[k]
    <3> SUFFICES ASSUME NEW k \in 1..n
                 PROVE  Scaled(d, px, 1..n)[k] <= Scaled(c, x, 1..n)[k]
      OBVIOUS
    <3>1. PICK e \in Int : e = d * b[k].price
      BY <1>5
    <3>2. PICK x0 \in Nat : x0 = x[k]
      BY <1>5
    <3>3. CASE x0 = 0
      <4>1. e * x0 = 0 /\ c * x0 = 0
        BY <1>2, <3>1, <3>3
      <4> QED
        BY <1>5, <3>1, <3>2, <4>1
    <3>4. CASE x0 > 0
      <4>1. e <= c
        BY <1>2, <1>8, <3>1, <3>2, <3>4 DEF IsWorst, n
      <4>2. e * x0 <= c * x0
        BY <1>2, <1>4, <4>1
      <4> QED
        BY <1>5, <3>1, <3>2, <4>2
    <3> QED
      BY <3>2, <3>3, <3>4
  <2>2. \A k \in 0..n : Scaled(d, P, 0..n)[k] <= Scaled(c, X, 0..n)[k]
    BY <1>1, <1>6, <2>1, SumsMonotone
  <2> QED
    BY <1>7, <2>2 DEF Scaled
<1>9. ASSUME IsBest(d, b, x, i) PROVE c * X[n] <= d * P[n]
  <2>1. \A k \in 1..n : Scaled(c, x, 1..n)[k] <= Scaled(d, px, 1..n)[k]
    <3> SUFFICES ASSUME NEW k \in 1..n
                 PROVE  Scaled(c, x, 1..n)[k] <= Scaled(d, px, 1..n)[k]
      OBVIOUS
    <3>1. PICK e \in Int : e = d * b[k].price
      BY <1>5
    <3>2. PICK x0 \in Nat : x0 = x[k]
      BY <1>5
    <3>3. CASE x0 = 0
      <4>1. e * x0 = 0 /\ c * x0 = 0
        BY <1>2, <3>1, <3>3
      <4> QED
        BY <1>5, <3>1, <3>2, <4>1
    <3>4. CASE x0 > 0
      <4>1. c <= e
        BY <1>2, <1>9, <3>1, <3>2, <3>4 DEF IsBest, n
      <4>2. c * x0 <= e * x0
        BY <1>2, <1>4, <4>1
      <4> QED
        BY <1>5, <3>1, <3>2, <4>2
    <3> QED
      BY <3>2, <3>3, <3>4
  <2>2. \A k \in 0..n : Scaled(c, X, 0..n)[k] <= Scaled(d, P, 0..n)[k]
    BY <1>1, <1>6, <2>1, SumsMonotone
  <2> QED
    BY <1>7, <2>2 DEF Scaled
<1> QED
  BY <1>2, <1>8, <1>9

-----------------------------------------------------------------------------
(* VolumeWalk: the outcomes *)

\* What both matchers pay, as a fraction.
PriceOf(o, b, X, P) ==
    IF X[Len(b)] > 0 THEN <<200 * P[Len(b)], X[Len(b)]>>
    ELSE <<V!Limit(o, V!Ladder(b, o.direction)), 1>>

Queue(o, b) == V!QueuePosition(o, V!Ladder(b, o.direction))
Fill(o, b) == V!L2Fill(o, V!Ladder(b, o.direction))

Outcomes(o, b, x, X, P, O) ==
  /\ IsFilling(o, b, x, X, P, O)
  /\ X[Len(b)] \in Nat /\ X[Len(b)] <= V!Required(o.lots) /\ O[Len(b)] \in Nat
  /\ Queue(o, b).filled <=> Within(o, b) # {} /\ O[Len(b)] >= V!Required(o.lots)
  /\ Fill(o, b).filled <=> O[Len(b)] > V!Required(o.lots)
  /\ O[Len(b)] >= V!Required(o.lots) => X[Len(b)] = V!Required(o.lots)
  /\ O[Len(b)] > 0 => Within(o, b) # {}
  /\ Queue(o, b).volume = X[Len(b)] /\ Fill(o, b).volume = X[Len(b)]
  /\ Queue(o, b).price = PriceOf(o, b, X, P) /\ Fill(o, b).price = PriceOf(o, b, X, P)
  /\ Queue(o, b).depth \in 0..Len(b) /\ Fill(o, b).depth \in 0..Len(b)

LEMMA OutcomesAre ==
  ASSUME NEW o \in V!Order, NEW b \in Books
  PROVE  \E x, X, P, O : Outcomes(o, b, x, X, P, O)
<1>1. PICK x, X, P, O : /\ IsFilling(o, b, x, X, P, O)
                        /\ Ends(Root(o, b), o, b, X, P)
                        /\ Ends(App(o, b), o, b, X, P)
                        /\ App(o, b).total = O[Len(b)]
  BY FillingExists
<1> DEFINE n == Len(b)
           r == V!Required(o.lots)
           w == Volumes(b, Within(o, b))
<1>2. n \in Nat /\ r \in Nat /\ w \in [1..n -> Nat] /\ w \in Terms(n)
  BY LevelsAre, OrderIs, VolumesAre
<1>3. /\ x \in [1..n -> Nat] /\ IsSums(X, x, n) /\ IsSums(O, w, n)
      /\ X[n] = Lesser(r, O[n])
  BY <1>1 DEF IsFilling
<1>4. O[n] > 0 => Within(o, b) # {}
  <2> SUFFICES ASSUME O[n] > 0, Within(o, b) = {} PROVE FALSE
    OBVIOUS
  <2>1. \A k \in 1..n : w[k] = 0
    BY DEF Volumes
  <2>2. O[n] = 0
    <3> HIDE DEF n, w
    <3> QED
      BY <1>2, <1>3, <2>1, SumsOfNothing
  <2> QED
    BY <2>2
<1> HIDE DEF n, r, w
<1>5. n \in 0..n /\ X[n] \in Nat /\ O[n] \in Nat
  BY <1>2, <1>3, SumsGrow
<1>6. X[n] <= r /\ (O[n] >= r <=> X[n] >= r) /\ (O[n] >= r => X[n] = r)
  <2> DEFINE s == O[n]
  <2>1. CASE r < s
    <3>1. X[n] = r
      BY <1>3, <2>1 DEF Lesser
    <3> QED
      BY <1>2, <1>5, <2>1, <3>1
  <2>2. CASE ~r < s
    <3>1. X[n] = s
      BY <1>3, <2>2 DEF Lesser
    <3> QED
      BY <1>2, <1>5, <2>2, <3>1
  <2> QED
    BY <2>1, <2>2
<1>7. /\ Root(o, b).taken = X[n] /\ Root(o, b).cost = P[n]
      /\ Root(o, b).depth \in 0..n /\ (Root(o, b).depth > 0 <=> Within(o, b) # {})
      /\ App(o, b).taken = X[n] /\ App(o, b).cost = P[n] /\ App(o, b).total = O[n]
      /\ App(o, b).depth \in 0..n /\ (App(o, b).depth > 0 <=> Within(o, b) # {})
  BY <1>1, <1>2 DEF Ends, n
<1>8. /\ Queue(o, b) = V!Outcome(Root(o, b).taken >= r, Root(o, b),
                                 V!Limit(o, V!Ladder(b, o.direction)))
      /\ Fill(o, b) = V!Outcome(App(o, b).total > r, App(o, b),
                                V!Limit(o, V!Ladder(b, o.direction)))
  BY DEF Queue, Fill, Root, App, V!QueuePosition, V!L2Fill, r
<1>9. PriceOf(o, b, X, P) = IF X[n] > 0 THEN <<V!Slip * P[n], X[n]>>
                            ELSE <<V!Limit(o, V!Ladder(b, o.direction)), 1>>
  BY DEF PriceOf, V!Slip, n
<1>10. /\ Queue(o, b).filled <=> Within(o, b) # {} /\ X[n] >= r
       /\ Queue(o, b).volume = X[n] /\ Queue(o, b).depth \in 0..n
       /\ Queue(o, b).price = PriceOf(o, b, X, P)
  <2>1. Queue(o, b) = [filled |-> Root(o, b).depth > 0 /\ Root(o, b).taken >= r,
                       depth |-> Root(o, b).depth, volume |-> Root(o, b).taken,
                       price |-> PriceOf(o, b, X, P)]
    BY <1>7, <1>8, <1>9 DEF V!Outcome
  <2>2. Queue(o, b).filled = (Root(o, b).depth > 0 /\ Root(o, b).taken >= r)
    BY <2>1
  <2>3. Queue(o, b).filled <=> Within(o, b) # {} /\ X[n] >= r
    BY <1>7, <2>2
  <2>4. /\ Queue(o, b).volume = Root(o, b).taken /\ Queue(o, b).depth = Root(o, b).depth
        /\ Queue(o, b).price = PriceOf(o, b, X, P)
    BY <2>1
  <2> QED
    BY <1>7, <2>3, <2>4
<1>11. /\ Fill(o, b).filled <=> Within(o, b) # {} /\ O[n] > r
       /\ Fill(o, b).volume = X[n] /\ Fill(o, b).depth \in 0..n
       /\ Fill(o, b).price = PriceOf(o, b, X, P)
  <2>1. Fill(o, b) = [filled |-> App(o, b).depth > 0 /\ App(o, b).total > r,
                      depth |-> App(o, b).depth, volume |-> App(o, b).taken,
                      price |-> PriceOf(o, b, X, P)]
    BY <1>7, <1>8, <1>9 DEF V!Outcome
  <2>2. Fill(o, b).filled = (App(o, b).depth > 0 /\ App(o, b).total > r)
    BY <2>1
  <2>3. Fill(o, b).filled <=> Within(o, b) # {} /\ O[n] > r
    BY <1>7, <2>2
  <2>4. /\ Fill(o, b).volume = App(o, b).taken /\ Fill(o, b).depth = App(o, b).depth
        /\ Fill(o, b).price = PriceOf(o, b, X, P)
    BY <2>1
  <2> QED
    BY <1>7, <2>3, <2>4
<1>12. O[n] > r => Within(o, b) # {}
  BY <1>2, <1>4, <1>5
<1> QED
  BY <1>1, <1>4, <1>5, <1>6, <1>10, <1>11, <1>12 DEF Outcomes, n, r

\* The state after the evaluation.
Answered ==
  /\ order \in V!Order /\ raw \in Books
  /\ result = [root |-> Queue(order, raw), app |-> Fill(order, raw)]

LEMMA AnsweredIs ==
  ASSUME Answered
  PROVE  /\ order \in V!Order /\ raw \in Books
         /\ result.root = Queue(order, raw) /\ result.app = Fill(order, raw)
BY DEF Answered

LEMMA OffersAre ==
  ASSUME Answered
  PROVE  V!Offers = Within(order, raw)
<1> DEFINE d == order.direction
           a == V!Ladder(raw, d)
           side == IF d = 1 THEN "ASK" ELSE "BID"
           limit == V!Limit(order, a)
<1>1. /\ order \in V!Order /\ raw \in Books /\ d \in Directions /\ order.limit \in Nat
      /\ order.type \in {"LIMIT", "MARKET"} /\ a \in Books
  BY AnsweredIs, OrderIs, LadderIsBook
<1>2. V!Facing(raw, d) = {i \in DOMAIN raw : raw[i].side = side}
  BY DEF V!Facing
<1>3. limit \in Int
  BY <1>1, LimitIs
<1>4. ASSUME NEW i \in DOMAIN raw, raw[i].side = side, order.type = "LIMIT"
      PROVE  ~order.direction * (V!Slip * raw[i].price - V!Slip * order.limit) > 0
               <=> V!Reachable(raw[i], order, limit)
  <2>1. limit = 200 * order.limit /\ raw[i].price \in Nat
    BY <1>1, <1>4, LimitIs, LevelsAre
  <2>2. CASE d = 1
    BY <1>1, <2>1, <2>2 DEF V!Slip, V!Reachable, V!Better
  <2>3. CASE d = -1
    BY <1>1, <2>1, <2>3 DEF V!Slip, V!Reachable, V!Better
  <2> QED
    BY <1>1, <2>2, <2>3 DEF Directions
<1>5. ASSUME NEW i \in DOMAIN raw, raw[i].side = side, order.type # "LIMIT"
      PROVE  (\A p \in {raw[j].price : j \in {k \in DOMAIN raw : raw[k].side = raw[i].side}} :
                ~order.direction * (V!Slip * raw[i].price - (V!Slip + order.direction) * p) > 0)
               <=> V!Reachable(raw[i], order, limit)
  <2> DEFINE pos == Positions(raw, d)
             m == Cardinality(V!Facing(raw, d))
             best == {raw[j].price : j \in {k \in DOMAIN raw : raw[k].side = raw[i].side}}
  <2>1. IsLadder(raw, d, pos, m)
    BY <1>1, LadderIs
  <2>2. /\ m \in Nat /\ \A n \in 1..m : pos[n] \in V!Facing(raw, d)
        /\ \A j \in V!Facing(raw, d) : \E n \in 1..m : pos[n] = j
        /\ a = [n \in 1..m |-> raw[pos[n]]]
        /\ \A n, k \in 1..m : n < k => ~V!Better(d, raw[pos[k]].price, raw[pos[n]].price)
    BY <2>1 DEF IsLadder
  <2>3. i \in V!Facing(raw, d)
    BY <1>2, <1>5
  <2>4. 1 \in 1..m
    BY <2>2, <2>3
  <2>5. Len(a) > 0 /\ order.type = "MARKET"
    <3>1. Len(a) = m
      BY <1>1, LadderIsBook
    <3> QED
      BY <1>1, <1>5, <2>2, <2>4, <3>1
  <2>6. PICK q \in Nat : q = a[1].price
    BY <1>1, <2>5, LevelsAre
  <2>7. q \in best
    <3>1. pos[1] \in DOMAIN raw /\ raw[pos[1]].side = raw[i].side /\ q = raw[pos[1]].price
      BY <1>2, <1>5, <2>2, <2>4, <2>6
    <3> QED
      BY <3>1
  <2>8. \A p \in best : p \in Nat /\ ~V!Better(d, p, q)
    <3> SUFFICES ASSUME NEW j \in DOMAIN raw, raw[j].side = raw[i].side
                 PROVE  raw[j].price \in Nat /\ ~V!Better(d, raw[j].price, q)
      OBVIOUS
    <3>1. PICK k \in 1..m : pos[k] = j
      BY <1>2, <1>5, <2>2
    <3>2. raw[j].price \in Nat
      BY <1>1, LevelsAre
    <3>3. q = raw[pos[1]].price
      BY <2>2, <2>4, <2>6
    <3>4. CASE k = 1
      BY <3>1, <3>2, <3>3, <3>4 DEF V!Better
    <3>5. CASE k # 1
      <4>1. 1 < k
        BY <2>2, <3>1, <3>5
      <4> QED
        BY <2>2, <2>4, <3>1, <3>2, <3>3, <4>1
    <3> QED
      BY <3>4, <3>5
  <2>9. PICK c \in Nat : c = raw[i].price
    BY <1>1, LevelsAre
  <2>10. limit = (200 + d) * q
    BY <1>1, <2>5, <2>6, LimitIs
  <2> HIDE DEF best
  <2>11. (\A p \in best : ~d * (200 * c - (200 + d) * p) > 0)
            <=> ~V!Better(d, limit, 200 * c)
    <3> HIDE DEF limit, d, a
    <3>1. CASE d = 1
      <4>1. \A p \in Nat : ~d * (200 * c - (200 + d) * p) > 0 <=> 200 * c <= 201 * p
        BY <3>1
      <4>2. ~V!Better(d, limit, 200 * c) <=> 200 * c <= 201 * q
        BY <2>10, <3>1 DEF V!Better
      <4>3. \A p \in best : q <= p
        BY <2>8, <3>1 DEF V!Better
      <4>4. \A p \in best : 200 * c <= 201 * q => 200 * c <= 201 * p
        BY <2>8, <4>3
      <4> QED
        BY <2>7, <2>8, <4>1, <4>2, <4>4
    <3>2. CASE d = -1
      <4>1. \A p \in Nat : ~d * (200 * c - (200 + d) * p) > 0 <=> 200 * c >= 199 * p
        BY <3>2
      <4>2. ~V!Better(d, limit, 200 * c) <=> 200 * c >= 199 * q
        BY <2>10, <3>2 DEF V!Better
      <4>3. \A p \in best : p <= q
        BY <2>8, <3>2 DEF V!Better
      <4>4. \A p \in best : 200 * c >= 199 * q => 200 * c >= 199 * p
        BY <2>8, <4>3
      <4> QED
        BY <2>7, <2>8, <4>1, <4>2, <4>4
    <3> QED
      BY <1>1, <3>1, <3>2 DEF Directions
  <2> QED
    BY <2>9, <2>11 DEF V!Slip, V!Reachable, best
<1>6. V!Offers = {i \in DOMAIN raw : raw[i].side = side /\ V!Reachable(raw[i], order, limit)}
  <2> HIDE DEF limit
  <2> QED
    BY <1>4, <1>5 DEF V!Offers
<1> QED
  BY <1>2, <1>6 DEF Within

-----------------------------------------------------------------------------
(* VolumeWalk: the properties *)

LEMMA FilledWhenOffered ==
  ASSUME Answered
  PROVE  V!FillsWhenOffered
<1>1. /\ order \in V!Order /\ raw \in Books
      /\ result.root = Queue(order, raw) /\ result.app = Fill(order, raw)
  BY AnsweredIs
<1>2. PICK x, X, P, O : Outcomes(order, raw, x, X, P, O)
  BY <1>1, OutcomesAre
<1>3. V!Volume(V!Offers) = O[Len(raw)]
  <2>1. IsSums(O, Volumes(raw, V!Offers), Len(raw))
    BY <1>2, OffersAre DEF Outcomes, IsFilling
  <2>2. V!Offered(raw, V!Offers) = O[Len(raw)]
    BY <1>1, <2>1, OfferedIs
  <2> QED
    BY <2>2 DEF V!Volume
<1>4. (V!Fifth + 1) * order.lots = V!Required(order.lots)
  BY <1>1, OrderIs DEF V!Fifth
<1> QED
  BY <1>1, <1>2, <1>3, <1>4, OffersAre DEF V!FillsWhenOffered, Outcomes

LEMMA SamePaid ==
  ASSUME Answered
  PROVE  V!SamePriceWhenBothFill
<1>1. /\ order \in V!Order /\ raw \in Books
      /\ result.root = Queue(order, raw) /\ result.app = Fill(order, raw)
  BY AnsweredIs
<1>2. PICK x, X, P, O : Outcomes(order, raw, x, X, P, O)
  BY <1>1, OutcomesAre
<1> QED
  BY <1>1, <1>2 DEF V!SamePriceWhenBothFill, Outcomes

\* Levels that are taken from are offers.
LEMMA TakenIsOffer ==
  ASSUME NEW o \in V!Order, NEW b \in Books, NEW x, NEW X, NEW P, NEW O,
         IsFilling(o, b, x, X, P, O), NEW i \in 1..Len(b), x[i] > 0
  PROVE  i \in Within(o, b)
<1>1. x[i] \in Nat /\ x[i] <= Volumes(b, Within(o, b))[i]
  BY DEF IsFilling
<1>2. i \notin Within(o, b) => Volumes(b, Within(o, b))[i] = 0
  BY DEF Volumes
<1> QED
  BY <1>1, <1>2

LEMMA PricedWithinLimit ==
  ASSUME Answered
  PROVE  V!PriceWithinLimit
<1> DEFINE n == Len(raw)
           d == order.direction
<1>1. /\ order \in V!Order /\ raw \in Books /\ d \in Directions
      /\ result.root = Queue(order, raw) /\ result.app = Fill(order, raw)
  BY AnsweredIs, OrderIs
<1>2. PICK x, X, P, O : Outcomes(order, raw, x, X, P, O)
  BY <1>1, OutcomesAre
<1>3. /\ IsFilling(order, raw, x, X, P, O) /\ X[n] \in Nat
      /\ result.root.volume = X[n] /\ result.app.volume = X[n]
      /\ result.root.price = PriceOf(order, raw, X, P)
      /\ result.app.price = PriceOf(order, raw, X, P)
  BY <1>1, <1>2 DEF Outcomes
<1>4. /\ x \in [1..n -> Nat] /\ IsSums(X, x, n) /\ IsSums(P, Paid(raw, x), n)
  BY <1>3 DEF IsFilling
<1>5. P[n] \in Int
  <2>1. n \in 0..n
    BY <1>1, LevelsAre
  <2> QED
    BY <1>4, <2>1 DEF IsSums
<1>6. ASSUME NEW g \in {"root", "app"}, result[g].volume > 0
      PROVE  /\ \E i \in V!Offers :
                  d * (result[g].price[1] - V!Slip * raw[i].price * result[g].price[2]) >= 0
             /\ \E i \in V!Offers :
                  d * (result[g].price[1] - V!Slip * raw[i].price * result[g].price[2]) <= 0
  <2>1. X[n] > 0 /\ result[g].price = PriceOf(order, raw, X, P)
    <3>1. CASE g = "root"
      BY <1>3, <1>6, <3>1
    <3>2. CASE g = "app"
      BY <1>3, <1>6, <3>2
    <3> QED
      BY <3>1, <3>2
  <2>2. result[g].price[1] = 200 * P[n] /\ result[g].price[2] = X[n]
    BY <2>1 DEF PriceOf
  <2>3. ASSUME NEW i \in 1..n
        PROVE  /\ d * (result[g].price[1] - V!Slip * raw[i].price * result[g].price[2])
                    = 200 * (d * P[n] - (d * raw[i].price) * X[n])
               /\ d * P[n] \in Int /\ (d * raw[i].price) * X[n] \in Int
    <3>1. PICK p \in Nat : p = raw[i].price
      BY <1>1, LevelsAre
    <3>2. PICK q \in Int : q = P[n]
      BY <1>5
    <3>3. PICK u \in Nat : u = X[n]
      BY <1>3
    <3>4. PICK z \in Int : z = p * u
      OBVIOUS
    <3>5. 200 * p * u = 200 * z
      BY <3>4
    <3>6. d * (200 * q - 200 * p * u) = 200 * (d * q - (d * p) * u)
          /\ d * q \in Int /\ (d * p) * u \in Int
      <4>1. CASE d = 1
        BY <3>4, <3>5, <4>1
      <4>2. CASE d = -1
        <5>1. (d * p) * u = -z
          BY <3>4, <4>2
        <5> QED
          BY <3>5, <4>2, <5>1
      <4> QED
        BY <1>1, <4>1, <4>2 DEF Directions
    <3> QED
      BY <2>2, <3>1, <3>2, <3>3, <3>6 DEF V!Slip
  <2>4. PICK i : IsBest(d, raw, x, i)
    BY <1>1, <1>4, <2>1, WorstExists
  <2>5. PICK k : IsWorst(d, raw, x, k)
    BY <1>1, <1>4, <2>1, WorstExists
  <2>6. i \in 1..n /\ k \in 1..n /\ i \in V!Offers /\ k \in V!Offers
    BY <1>1, <1>3, <2>4, <2>5, OffersAre, TakenIsOffer DEF IsBest, IsWorst
  <2>7. (d * raw[i].price) * X[n] <= d * P[n] /\ d * P[n] <= (d * raw[k].price) * X[n]
    BY <1>1, <1>4, <2>4, <2>5, PriceBetween
  <2>8. d * (result[g].price[1] - V!Slip * raw[i].price * result[g].price[2]) >= 0
    <3>1. \A y, z \in Int : z <= y => 200 * (y - z) >= 0
      OBVIOUS
    <3> QED
      BY <2>3, <2>6, <2>7, <3>1
  <2>9. d * (result[g].price[1] - V!Slip * raw[k].price * result[g].price[2]) <= 0
    <3>1. \A y, z \in Int : y <= z => 200 * (y - z) <= 0
      OBVIOUS
    <3> QED
      BY <2>3, <2>6, <2>7, <3>1
  <2> QED
    BY <2>6, <2>8, <2>9
<1> QED
  BY <1>6 DEF V!PriceWithinLimit

LEMMA LimitBounds ==
  ASSUME NEW o \in V!Order, NEW b \in Books, o.type = "LIMIT", NEW i \in Within(o, b)
  PROVE  /\ i \in 1..Len(b)
         /\ o.direction * b[i].price <= o.direction * o.limit
         /\ b[i].price # o.limit => V!Better(o.direction, b[i].price, o.limit)
<1>1. /\ o.direction \in {1, -1} /\ o.limit \in Nat
      /\ V!Limit(o, V!Ladder(b, o.direction)) = 200 * o.limit
  BY OrderIs, LadderIsBook, LimitIs DEF Directions
<1>2. i \in 1..Len(b) /\ b[i].price \in Nat
  BY LevelsAre DEF Within, V!Facing
<1>3. ~V!Better(o.direction, 200 * o.limit, 200 * b[i].price)
  BY <1>1 DEF Within, V!Reachable, V!Slip
<1>4. CASE o.direction = 1
  BY <1>1, <1>2, <1>3, <1>4 DEF V!Better
<1>5. CASE o.direction = -1
  BY <1>1, <1>2, <1>3, <1>5 DEF V!Better
<1> QED
  BY <1>1, <1>4, <1>5

LEMMA ImprovedDoesLose ==
  ASSUME Answered
  PROVE  V!ImprovedIsLoss
<1> DEFINE n == Len(raw)
           d == order.direction
           w == Volumes(raw, Within(order, raw))
           c == order.limit
<1>1. /\ order \in V!Order /\ raw \in Books /\ d \in Directions /\ result.app = Fill(order, raw)
      /\ c \in Nat /\ n \in Nat /\ order.lots \in Nat
      /\ V!Required(order.lots) = 6 * order.lots
  BY AnsweredIs, OrderIs, LevelsAre
<1> SUFFICES ASSUME order.type = "LIMIT", order.lots > 0, result.app.filled
             PROVE  V!LedgerWin(order, result.app.price)
                      <=> \A i \in V!Offers : raw[i].size > 0 => raw[i].price = c
  BY DEF V!ImprovedIsLoss
<1>2. PICK x, X, P, O : Outcomes(order, raw, x, X, P, O)
  BY <1>1, OutcomesAre
<1>3. /\ IsFilling(order, raw, x, X, P, O) /\ X[n] = V!Required(order.lots)
      /\ result.app.price = PriceOf(order, raw, X, P)
  <2>1. O[n] > V!Required(order.lots) /\ O[n] \in Nat /\ V!Required(order.lots) \in Nat
    BY <1>1, <1>2, OrderIs DEF Outcomes
  <2> QED
    BY <1>1, <1>2, <2>1 DEF Outcomes
<1>4. X[n] \in Nat /\ X[n] > 0
  BY <1>1, <1>3
<1>5. /\ x \in [1..n -> Nat] /\ IsSums(X, x, n) /\ IsSums(P, Paid(raw, x), n)
      /\ \A i \in 1..n : x[i] <= w[i]
      /\ BestFirst(d, raw, x, w)
  BY <1>3 DEF IsFilling
<1>6. P[n] \in Int
  <2>1. n \in 0..n
    BY <1>1
  <2> QED
    BY <1>5, <2>1 DEF IsSums
<1>7. V!LedgerWin(order, result.app.price) <=> d * P[n] >= (d * c) * X[n]
  <2>1. result.app.price[1] = 200 * P[n] /\ result.app.price[2] = X[n]
    BY <1>3, <1>4 DEF PriceOf
  <2>2. V!LedgerWin(order, result.app.price) <=> d * (200 * P[n] - 200 * c * X[n]) >= 0
    BY <2>1 DEF V!LedgerWin, V!Slip
  <2>3. PICK z \in Int : z = c * X[n]
    BY <1>1, <1>4
  <2>4. 200 * c * X[n] = 200 * z
    BY <1>1, <1>4, <2>3
  <2>5. CASE d = 1
    <3>1. (d * c) * X[n] = z
      BY <1>1, <2>3, <2>5
    <3> QED
      BY <1>6, <2>2, <2>4, <2>5, <3>1
  <2>6. CASE d = -1
    <3>1. (d * c) * X[n] = -z
      BY <1>1, <1>4, <2>3, <2>6
    <3> QED
      BY <1>6, <2>2, <2>4, <2>6, <3>1
  <2> QED
    BY <1>1, <2>5, <2>6 DEF Directions
<1>8. \A i \in 1..n : x[i] > 0 => i \in Within(order, raw) /\ raw[i].size > 0
  <2> SUFFICES ASSUME NEW i \in 1..n, x[i] > 0
               PROVE  i \in Within(order, raw) /\ raw[i].size > 0
    OBVIOUS
  <2>1. i \in Within(order, raw)
    BY <1>1, <1>3, TakenIsOffer
  <2>2. w[i] = 5 * raw[i].size /\ raw[i].size \in Nat
    BY <1>1, <2>1, LevelsAre DEF Volumes
  <2>3. x[i] <= w[i] /\ x[i] \in Nat
    BY <1>5
  <2> QED
    BY <2>1, <2>2, <2>3
<1>9. ASSUME \A i \in V!Offers : raw[i].size > 0 => raw[i].price = c
      PROVE  d * P[n] >= (d * c) * X[n]
  <2>1. PICK i : IsBest(d, raw, x, i)
    BY <1>1, <1>4, <1>5, WorstExists
  <2>2. raw[i].price = c
    BY <1>8, <1>9, <2>1, OffersAre DEF IsBest
  <2>3. (d * c) * X[n] <= d * P[n]
    BY <1>1, <1>5, <2>1, <2>2, PriceBetween
  <2>4. d * P[n] \in Int /\ (d * c) * X[n] \in Int
    BY <1>1, <1>4, <1>6 DEF Directions
  <2> QED
    BY <2>3, <2>4
<1>10. ASSUME d * P[n] >= (d * c) * X[n],
              NEW i \in V!Offers, raw[i].size > 0, raw[i].price # c
       PROVE  FALSE
  <2>1. i \in Within(order, raw) /\ i \in 1..n /\ V!Better(d, raw[i].price, c)
    BY <1>1, <1>10, OffersAre, LimitBounds
  <2>2. ASSUME NEW j \in 1..n, x[j] > 0 PROVE raw[j].price = c
    \* Otherwise what is taken costs less than the limit.
    <3> DEFINE loss == [k \in 1..n |-> (d * c - d * raw[k].price) * x[k]]
    <3>1. ASSUME NEW k \in 1..n
          PROVE  /\ (d * c - d * raw[k].price) * x[k] \in Nat
                 /\ (d * c - d * raw[k].price) * x[k] + d * (raw[k].price * x[k]) = (d * c) * x[k]
                 /\ d * (raw[k].price * x[k]) \in Int /\ (d * c) * x[k] \in Int
      <4>1. PICK p \in Nat : p = raw[k].price
        BY <1>1, LevelsAre
      <4>2. PICK u \in Nat : u = x[k]
        BY <1>5
      <4>3. u > 0 => d * p <= d * c
        BY <1>1, <1>8, <4>1, <4>2, LimitBounds
      <4>4. (d * c - d * p) * u \in Nat
        <5>1. CASE u = 0
          BY <1>1, <5>1 DEF Directions
        <5>2. CASE u > 0
          <6>1. d * c - d * p \in Nat
            BY <1>1, <4>3, <5>2 DEF Directions
          <6> QED
            BY <6>1
        <5> QED
          BY <5>1, <5>2
      <4>5. PICK y \in Int : y = p * u
        OBVIOUS
      <4>6. PICK z \in Int : z = c * u
        BY <1>1
      <4>7. /\ (d * c - d * p) * u + d * (p * u) = (d * c) * u
            /\ d * (p * u) \in Int /\ (d * c) * u \in Int
        <5>1. CASE d = 1
          <6>1. (c - p) * u = z - y
            BY <1>1, <4>5, <4>6
          <6>2. (d * c - d * p) * u = z - y /\ d * (p * u) = y /\ (d * c) * u = z
            BY <1>1, <4>5, <4>6, <5>1, <6>1
          <6> QED
            BY <6>2
        <5>2. CASE d = -1
          <6>1. (p - c) * u = y - z
            BY <1>1, <4>5, <4>6
          <6>2. d * c - d * p = p - c
            BY <1>1, <5>2
          <6>3. (d * c - d * p) * u = y - z /\ d * (p * u) = -y /\ (d * c) * u = -z
            BY <1>1, <4>5, <4>6, <5>2, <6>1, <6>2
          <6> QED
            BY <6>3
        <5> QED
          BY <1>1, <5>1, <5>2 DEF Directions
      <4> QED
        BY <4>1, <4>2, <4>4, <4>7
    <3>2. loss \in [1..n -> Nat] /\ loss \in Terms(n)
      <4>1. loss \in [1..n -> Nat]
        <5> HIDE DEF d, c, n
        <5> QED
          BY <3>1
      <4> HIDE DEF loss, n
      <4> QED
        BY <4>1 DEF Terms
    <3>3. PICK L : IsSums(L, loss, n)
      BY <1>1, <3>2, SumsExist
    <3>4. PICK t \in Int : t = d * c
      BY <1>1 DEF Directions
    <3>5. x \in Terms(n) /\ Paid(raw, x) \in Terms(n) /\ d \in Int
      BY <1>1, <1>5, PaidIs DEF Terms, Directions
    <3>6. /\ Scaled(d, Paid(raw, x), 1..n) \in Terms(n)
          /\ IsSums(Scaled(d, P, 0..n), Scaled(d, Paid(raw, x), 1..n), n)
          /\ Scaled(t, x, 1..n) \in Terms(n)
          /\ IsSums(Scaled(t, X, 0..n), Scaled(t, x, 1..n), n)
      <4> HIDE DEF n, d
      <4> QED
        BY <1>1, <1>5, <3>4, <3>5, SumsTimes
    <3>7. \A k \in 1..n : loss[k] + Scaled(d, Paid(raw, x), 1..n)[k]
                             <= Scaled(t, x, 1..n)[k] + 0
      <4> SUFFICES ASSUME NEW k \in 1..n
                   PROVE  loss[k] + Scaled(d, Paid(raw, x), 1..n)[k] <= Scaled(t, x, 1..n)[k] + 0
        OBVIOUS
      <4>1. /\ loss[k] = (d * c - d * raw[k].price) * x[k]
            /\ Scaled(d, Paid(raw, x), 1..n)[k] = d * (raw[k].price * x[k])
            /\ Scaled(t, x, 1..n)[k] = t * x[k]
        BY DEF Scaled, Paid
      <4>2. t * x[k] = (d * c) * x[k]
        BY <3>4
      <4> HIDE DEF loss, d, c, n
      <4> QED
        BY <3>1, <4>1, <4>2
    <3> DEFINE none == [k \in 1..n |-> 0]
    <3>8. none \in Terms(n)
      BY DEF Terms
    <3>9. PICK Z : IsSums(Z, none, n)
      BY <1>1, <3>8, SumsExist
    <3>10. Z[n] = 0
      <4>1. \A k \in 1..n : none[k] = 0
        OBVIOUS
      <4> HIDE DEF none, n
      <4> QED
        BY <1>1, <3>8, <3>9, <4>1, SumsOfNothing
    <3>11. PairsBelow(loss, Scaled(d, Paid(raw, x), 1..n), Scaled(t, x, 1..n), none, 1..n)
      BY <3>7 DEF PairsBelow
    <3>12. PairsBelow(L, Scaled(d, P, 0..n), Scaled(t, X, 0..n), Z, 0..n)
      <4> HIDE DEF loss, none, n, d
      <4> QED
        BY <1>1, <3>2, <3>3, <3>6, <3>8, <3>9, <3>11, SumsCompare
    <3>13. n \in 0..n
      BY <1>1
    <3>14. L[n] + d * P[n] <= t * X[n]
      <4>1. L[n] + Scaled(d, P, 0..n)[n] <= Scaled(t, X, 0..n)[n] + Z[n]
        BY <3>12, <3>13 DEF PairsBelow
      <4>2. t * X[n] \in Int
        BY <1>4, <3>4
      <4> QED
        BY <3>10, <3>13, <4>1, <4>2 DEF Scaled
    <3>15. L[n] = 0
      <4>1. L[n] \in Nat
        <5> HIDE DEF loss, n
        <5> QED
          BY <1>1, <3>2, <3>3, <3>13, SumsGrow
      <4>2. t * X[n] \in Int /\ d * P[n] \in Int /\ d * P[n] >= t * X[n]
        BY <1>4, <1>6, <1>10, <3>4, <3>5
      <4> QED
        BY <3>14, <4>1, <4>2
    <3>16. \A k \in 1..n : loss[k] = 0
      <4> HIDE DEF loss, n
      <4> QED
        BY <1>1, <3>2, <3>3, <3>15, SumsVanish
    <3>17. (d * c - d * raw[j].price) * x[j] = 0
      BY <3>16
    <3>18. raw[j].price \in Nat /\ x[j] \in Nat /\ x[j] > 0
      BY <1>1, <1>5, <2>2, LevelsAre
    <3>19. d * c - d * raw[j].price = 0
      <4>1. \A y, z \in Int : y * z = 0 /\ z > 0 => y = 0
        OBVIOUS
      <4>2. d * c - d * raw[j].price \in Int
        BY <1>1, <3>18 DEF Directions
      <4> QED
        BY <3>17, <3>18, <4>1, <4>2
    <3>20. CASE d = 1
      BY <1>1, <3>18, <3>19, <3>20
    <3>21. CASE d = -1
      BY <1>1, <3>18, <3>19, <3>21
    <3> QED
      BY <1>1, <3>20, <3>21 DEF Directions
  <2>3. PICK j : IsBest(d, raw, x, j)
    BY <1>1, <1>4, <1>5, WorstExists
  <2>4. j \in 1..n /\ x[j] > 0 /\ raw[j].price = c
    BY <2>2, <2>3 DEF IsBest
  <2>5. x[i] = w[i]
    BY <1>5, <2>1, <2>4 DEF BestFirst
  <2>6. w[i] = 5 * raw[i].size /\ raw[i].size \in Nat
    BY <1>1, <2>1, LevelsAre DEF Volumes
  <2>7. x[i] > 0
    BY <1>10, <2>5, <2>6
  <2> QED
    BY <1>10, <2>1, <2>2, <2>7
<1> QED
  BY <1>7, <1>9, <1>10

LEMMA WalkTyped ==
  ASSUME Answered
  PROVE  V!TypeOK
<1> DEFINE n == Len(raw)
<1>1. /\ order \in V!Order /\ raw \in Books /\ n \in Nat
      /\ result.root = Queue(order, raw) /\ result.app = Fill(order, raw)
  BY AnsweredIs, LevelsAre
<1>2. PICK x, X, P, O : Outcomes(order, raw, x, X, P, O)
  BY <1>1, OutcomesAre
<1>3. V!Required(order.lots) \in Nat
  BY <1>1, OrderIs
<1>4. PriceOf(order, raw, X, P)[2] > 0
  BY <1>2 DEF Outcomes, PriceOf
<1>5. ASSUME NEW g \in {"root", "app"}
      PROVE  /\ result[g].depth \in 0..n /\ result[g].volume \in 0..V!Required(order.lots)
             /\ result[g].price[2] > 0
  <2>1. CASE g = "root"
    BY <1>1, <1>2, <1>3, <1>4, <2>1 DEF Outcomes
  <2>2. CASE g = "app"
    BY <1>1, <1>2, <1>3, <1>4, <2>2 DEF Outcomes
  <2> QED
    BY <2>1, <2>2
<1> QED
  BY <1>1, <1>5 DEF V!TypeOK, Books

LEMMA SmallerOrder ==
  ASSUME NEW o \in V!Order, NEW lots \in Lots, NEW b \in Books
  PROVE  LET s == [o EXCEPT !.lots = lots]
         IN  /\ s \in V!Order /\ s.lots = lots /\ s.direction = o.direction
             /\ Within(s, b) = Within(o, b)
<1> DEFINE s == [o EXCEPT !.lots = lots]
<1>1. /\ s \in V!Order /\ s.lots = lots /\ s.direction = o.direction /\ s.type = o.type
      /\ s.limit = o.limit
  BY DEF V!Order
<1> HIDE DEF s
<1>2. \A a : V!Limit(s, a) = V!Limit(o, a)
  BY <1>1 DEF V!Limit
<1>3. Within(s, b) = Within(o, b)
  BY <1>1, <1>2 DEF Within, V!Reachable
<1> QED
  BY <1>1, <1>3 DEF s

LEMMA CostMonotone ==
  ASSUME NEW D \in Int, NEW E \in Int, NEW t \in Int, NEW q \in Nat, NEW r \in Nat,
         q < r, E + t * r <= D + t * q, E <= t * q
  PROVE  E * r <= D * q
<1>1. PICK g \in Nat : r = q + g
  <2>1. r - q \in Nat /\ r = q + (r - q)
    OBVIOUS
  <2> QED
    BY <2>1
<1>2. PICK z \in Int : z = t * q
  OBVIOUS
<1>3. PICK y \in Int : y = t * g
  OBVIOUS
<1>4. t * r = z + y
  BY <1>1, <1>2, <1>3
<1>5. E + y <= D
  BY <1>2, <1>4
<1>6. (E + y) * q <= D * q
  <2>1. PICK h \in Nat : D = E + y + h
    <3>1. D - (E + y) \in Nat /\ D = E + y + (D - (E + y))
      BY <1>5
    <3> QED
      BY <3>1
  <2>2. D * q = (E + y) * q + h * q /\ h * q >= 0
    BY <2>1
  <2>3. (E + y) * q \in Int /\ h * q \in Int
    OBVIOUS
  <2> QED
    BY <2>2, <2>3
<1>7. E * g <= z * g
  <2>1. PICK h \in Nat : z = E + h
    <3>1. z - E \in Nat /\ z = E + (z - E)
      BY <1>2
    <3> QED
      BY <3>1
  <2>2. z * g = E * g + h * g /\ h * g >= 0
    BY <2>1
  <2>3. E * g \in Int /\ h * g \in Int
    OBVIOUS
  <2> QED
    BY <2>2, <2>3
<1>8. y * q = z * g
  BY <1>2, <1>3
<1>9. (E + y) * q = E * q + y * q
  OBVIOUS
<1>10. E * r = E * q + E * g
  BY <1>1
<1>11. E * q \in Int /\ E * g \in Int /\ z * g \in Int /\ D * q \in Int
  OBVIOUS
<1>12. E * q + z * g <= D * q
  BY <1>6, <1>8, <1>9, <1>11
<1> QED
  BY <1>7, <1>10, <1>11, <1>12

\* The difference between two prices has the sign of that of the costs.
LEMMA PricesCompare ==
  ASSUME NEW d \in Directions, NEW p \in Int, NEW x \in Int, NEW q \in Int, NEW y \in Int,
         (d * q) * x <= (d * p) * y
  PROVE  d * ((200 * p) * y - (200 * q) * x) >= 0
<1>1. PICK z \in Int : z = p * y
  OBVIOUS
<1>2. PICK u \in Int : u = q * x
  OBVIOUS
<1>3. (200 * p) * y = 200 * z /\ (200 * q) * x = 200 * u
  BY <1>1, <1>2
<1>4. CASE d = 1
  <2>1. (d * q) * x = u /\ (d * p) * y = z
    BY <1>1, <1>2, <1>4
  <2> QED
    BY <1>3, <1>4, <2>1
<1>5. CASE d = -1
  <2>1. (d * q) * x = -u /\ (d * p) * y = -z
    BY <1>1, <1>2, <1>5
  <2> QED
    BY <1>3, <1>5, <2>1
<1> QED
  BY <1>4, <1>5 DEF Directions

LEMMA LargerIsWorse ==
  ASSUME Answered
  PROVE  V!LargerIsNoBetter
<1> DEFINE n == Len(raw)
           d == order.direction
           w == Volumes(raw, Within(order, raw))
<1>1. /\ order \in V!Order /\ raw \in Books /\ d \in Directions /\ result.root = Queue(order, raw)
      /\ n \in Nat /\ order.lots \in Nat /\ V!Required(order.lots) = 6 * order.lots
      /\ w \in [1..n -> Nat]
  BY AnsweredIs, OrderIs, LevelsAre, VolumesAre
<1> SUFFICES ASSUME NEW lots \in Lots, 0 < lots, lots < order.lots, result.root.filled
             PROVE  LET small == V!QueuePosition([order EXCEPT !.lots = lots], V!Ladder(raw, d))
                    IN  /\ small.filled
                        /\ d * (result.root.price[1] * small.price[2]
                                - small.price[1] * result.root.price[2]) >= 0
  BY DEF V!LargerIsNoBetter
<1> DEFINE s == [order EXCEPT !.lots = lots]
<1>2. /\ s \in V!Order /\ s.lots = lots /\ s.direction = d
      /\ Within(s, raw) = Within(order, raw)
  BY <1>1, SmallerOrder
<1>3. V!QueuePosition(s, V!Ladder(raw, d)) = Queue(s, raw)
  BY <1>2 DEF Queue
<1> HIDE DEF s
<1>4. V!Required(s.lots) = 6 * lots /\ lots \in Nat
  BY <1>2, OrderIs
<1>5. PICK x, X, P, O : Outcomes(s, raw, x, X, P, O)
  BY <1>1, <1>2, OutcomesAre
<1>6. PICK y, Y, Q, S2 : Outcomes(order, raw, y, Y, Q, S2)
  BY <1>1, OutcomesAre
<1>7. /\ x \in [1..n -> Nat] /\ IsSums(X, x, n) /\ IsSums(P, Paid(raw, x), n)
      /\ IsSums(O, w, n) /\ \A i \in 1..n : x[i] <= w[i]
      /\ BestFirst(d, raw, x, w)
  BY <1>2, <1>5 DEF Outcomes, IsFilling
<1>8. /\ y \in [1..n -> Nat] /\ IsSums(Y, y, n) /\ IsSums(Q, Paid(raw, y), n)
      /\ IsSums(S2, w, n) /\ \A i \in 1..n : y[i] <= w[i]
  BY <1>6 DEF Outcomes, IsFilling
<1>9. O = S2
  <2>1. w \in Terms(n)
    BY <1>1, VolumesAre
  <2> HIDE DEF w, n
  <2> QED
    BY <1>1, <1>7, <1>8, <2>1, SumsUnique
<1>10. Within(order, raw) # {} /\ S2[n] >= V!Required(order.lots) /\ S2[n] \in Nat
  BY <1>1, <1>6 DEF Outcomes
<1>11. O[n] >= V!Required(s.lots)
  BY <1>1, <1>4, <1>9, <1>10
<1>12. Queue(s, raw).filled /\ X[n] = 6 * lots /\ Y[n] = 6 * order.lots
  BY <1>1, <1>2, <1>4, <1>5, <1>6, <1>10, <1>11 DEF Outcomes
<1>13. /\ Queue(s, raw).price = <<200 * P[n], X[n]>>
       /\ result.root.price = <<200 * Q[n], Y[n]>>
       /\ X[n] \in Nat /\ X[n] > 0 /\ Y[n] \in Nat /\ X[n] < Y[n]
  <2>1. X[n] \in Nat /\ X[n] > 0 /\ Y[n] \in Nat /\ Y[n] > 0 /\ X[n] < Y[n]
    BY <1>1, <1>4, <1>12
  <2>2. Queue(s, raw).price = PriceOf(s, raw, X, P) /\ result.root.price = PriceOf(order, raw, Y, Q)
    BY <1>1, <1>5, <1>6 DEF Outcomes
  <2> QED
    BY <2>1, <2>2 DEF PriceOf
<1>14. P[n] \in Int /\ Q[n] \in Int
  <2>1. n \in 0..n
    BY <1>1
  <2> QED
    BY <1>7, <1>8, <2>1 DEF IsSums
<1>15. PICK i : IsWorst(d, raw, x, i)
  BY <1>1, <1>7, <1>13, WorstExists
<1>16. PICK t \in Int : t = d * raw[i].price
  BY <1>1, <1>15, SignedPrice DEF IsWorst
<1>17. d * P[n] + t * Y[n] <= d * Q[n] + t * X[n]
  <2>1. d * P[n] + (d * raw[i].price) * Y[n] <= d * Q[n] + (d * raw[i].price) * X[n]
    <3> HIDE DEF d, w
    <3> QED
      BY <1>1, <1>7, <1>8, <1>15, Exchange
  <2> QED
    BY <1>16, <2>1
<1>18. d * P[n] <= t * X[n]
  BY <1>1, <1>7, <1>15, <1>16, PriceBetween
<1>19. PICK E \in Int : E = d * P[n]
  BY <1>1, <1>14 DEF Directions
<1>20. PICK D \in Int : D = d * Q[n]
  BY <1>1, <1>14 DEF Directions
<1>21. PICK q \in Nat : q = X[n]
  BY <1>13
<1>22. PICK r \in Nat : r = Y[n]
  BY <1>13
<1>23. E * r <= D * q
  <2>1. q < r /\ E + t * r <= D + t * q /\ E <= t * q
    BY <1>13, <1>17, <1>18, <1>19, <1>20, <1>21, <1>22
  <2> QED
    BY <2>1, CostMonotone
<1>24. d * ((200 * Q[n]) * X[n] - (200 * P[n]) * Y[n]) >= 0
  <2>1. (d * P[n]) * Y[n] <= (d * Q[n]) * X[n]
    BY <1>19, <1>20, <1>21, <1>22, <1>23
  <2> QED
    BY <1>1, <1>13, <1>14, <2>1, PricesCompare
<1>25. d * (result.root.price[1] * Queue(s, raw).price[2]
            - Queue(s, raw).price[1] * result.root.price[2]) >= 0
  <2>1. /\ result.root.price[1] = 200 * Q[n] /\ result.root.price[2] = Y[n]
        /\ Queue(s, raw).price[1] = 200 * P[n] /\ Queue(s, raw).price[2] = X[n]
    BY <1>13
  <2> QED
    BY <1>24, <2>1
<1> HIDE DEF d
<1> QED
  BY <1>3, <1>12, <1>25 DEF s

\* The book without one of its levels.
LEMMA PartIs ==
  ASSUME NEW b \in Books, NEW i \in DOMAIN b
  PROVE  \E q : /\ RemoveAt(b, i) \in Books
                /\ Injects(q, Len(RemoveAt(b, i)), Len(b))
                /\ \A k \in 1..Len(RemoveAt(b, i)) : RemoveAt(b, i)[k] = b[q[k]]
<1> DEFINE n == Len(b)
           a == RemoveAt(b, i)
           q == [k \in 1..(n - 1) |-> IF k < i THEN k ELSE k + 1]
<1>1. b \in Seq(V!RawLevel) /\ n \in Nat /\ i \in 1..n /\ n - 1 \in Nat
  BY LevelsAre DEF Books
<1> DEFINE u == SubSeq(b, 1, i - 1)
           w == SubSeq(b, i + 1, n)
<1>2. /\ u \in Seq(V!RawLevel) /\ Len(u) = i - 1
      /\ \A k \in 1..(i - 1) : u[k] = b[k]
  BY <1>1
<1>3. /\ w \in Seq(V!RawLevel) /\ Len(w) = n - i
      /\ \A k \in 1..(n - i) : w[k] = b[i + k]
  <2>1. i + 1 \in 1..(n + 1) /\ \A k \in (i + 1)..n : b[k] \in V!RawLevel
    BY <1>1
  <2>2. Len(w) = n - i
    BY <1>1, <2>1
  <2>3. \A k \in 1..(n - i) : w[k] = b[i + k]
    BY <1>1, <2>1
  <2>4. w \in Seq(V!RawLevel)
    BY <1>1, <2>1
  <2> QED
    BY <2>2, <2>3, <2>4
<1>4. a = u \o w
  BY DEF RemoveAt
<1> HIDE DEF u, w, a
<1>5. a \in Seq(V!RawLevel) /\ Len(a) = n - 1
  BY <1>1, <1>2, <1>3, <1>4
<1>6. ASSUME NEW k \in 1..(n - 1) PROVE a[k] = b[q[k]]
  <2>1. CASE k < i
    <3>1. k \in 1..Len(u) /\ q[k] = k
      BY <1>1, <1>2, <2>1
    <3>2. a[k] = u[k]
      BY <1>2, <1>3, <1>4, <3>1
    <3> QED
      BY <1>2, <3>1, <3>2
  <2>2. CASE ~k < i
    <3>1. q[k] = k + 1
      BY <2>2
    <3> HIDE DEF q, n
    <3>2. PICK h \in 1..(n - i) : k = h + (i - 1)
      <4>1. k - (i - 1) \in 1..(n - i) /\ k = (k - (i - 1)) + (i - 1)
        BY <1>1, <2>2
      <4> QED
        BY <4>1
    <3>3. k = h + Len(u) /\ h \in 1..Len(w) /\ i + h = k + 1
      BY <1>1, <1>2, <1>3, <3>2
    <3>4. a[k] = w[h]
      <4>1. Len(u) \in Nat /\ Len(w) \in Nat /\ Len(u \o w) = Len(u) + Len(w)
        BY <1>2, <1>3
      <4>2. k \in 1..(Len(u) + Len(w)) /\ ~k <= Len(u) /\ k - Len(u) = h
        BY <3>3, <4>1
      <4>3. (u \o w)[k] = w[k - Len(u)]
        BY <1>2, <1>3, <4>1, <4>2
      <4> QED
        BY <1>4, <4>2, <4>3
    <3> QED
      BY <1>3, <3>1, <3>2, <3>3, <3>4
  <2> QED
    BY <2>1, <2>2
<1>7. Injects(q, n - 1, n)
  <2>1. q \in [1..(n - 1) -> 1..n]
    BY <1>1
  <2>2. \A j, k \in 1..(n - 1) : q[j] = q[k] => j = k
    BY <1>1
  <2> QED
    BY <2>1, <2>2 DEF Injects
<1> HIDE DEF q, n
<1> QED
  BY <1>5, <1>6, <1>7 DEF Books, a, n

LEMMA WithinPart ==
  ASSUME NEW o \in V!Order, o.type = "LIMIT", NEW a \in Books, NEW b \in Books,
         NEW q, Injects(q, Len(a), Len(b)), \A k \in 1..Len(a) : a[k] = b[q[k]]
  PROVE  \A k \in 1..Len(a) : k \in Within(o, a) <=> q[k] \in Within(o, b)
<1> SUFFICES ASSUME NEW k \in 1..Len(a)
             PROVE  k \in Within(o, a) <=> q[k] \in Within(o, b)
  OBVIOUS
<1>1. /\ V!Limit(o, V!Ladder(a, o.direction)) = 200 * o.limit
      /\ V!Limit(o, V!Ladder(b, o.direction)) = 200 * o.limit
  BY OrderIs, LadderIsBook, LimitIs
<1>2. q[k] \in 1..Len(b) /\ a[k] = b[q[k]] /\ DOMAIN a = 1..Len(a) /\ DOMAIN b = 1..Len(b)
  BY LevelsAre DEF Injects
<1> QED
  BY <1>1, <1>2 DEF Within, V!Facing

LEMMA FragmentIsWorse ==
  ASSUME Answered
  PROVE  V!FragmentIsNoBetter
<1> DEFINE n == Len(raw)
           d == order.direction
           w == Volumes(raw, Within(order, raw))
           r == V!Required(order.lots)
<1>1. /\ order \in V!Order /\ raw \in Books /\ d \in Directions
      /\ result.root = Queue(order, raw) /\ result.app = Fill(order, raw)
      /\ n \in Nat /\ r \in Nat /\ w \in [1..n -> Nat] /\ w \in Terms(n)
  BY AnsweredIs, OrderIs, LevelsAre, VolumesAre
<1> SUFFICES ASSUME order.type = "LIMIT", NEW i \in DOMAIN raw
             PROVE  LET rest == V!Ladder(RemoveAt(raw, i), d)
                        root == V!QueuePosition(order, rest)
                    IN  /\ V!L2Fill(order, rest).filled => result.app.filled
                        /\ root.filled =>
                             /\ result.root.filled
                             /\ d * (root.price[1] * result.root.price[2]
                                     - result.root.price[1] * root.price[2]) >= 0
  BY DEF V!FragmentIsNoBetter, V!RemoveAt, RemoveAt
<1> DEFINE a == RemoveAt(raw, i)
           m == Len(a)
           v == Volumes(a, Within(order, a))
<1>2. PICK q : /\ a \in Books /\ Injects(q, m, n)
               /\ \A k \in 1..m : a[k] = raw[q[k]]
  BY <1>1, PartIs
<1> HIDE DEF a
<1>0. Injects(q, m, n)
  BY <1>2
<1>3. m \in Nat /\ v \in [1..m -> Nat] /\ v \in Terms(m)
  BY <1>2, LevelsAre, VolumesAre
<1>4. \A k \in 1..m : k \in Within(order, a) <=> q[k] \in Within(order, raw)
  BY <1>1, <1>2, WithinPart
<1>5. \A k \in 1..m : q[k] \in 1..n
  BY <1>2 DEF Injects
<1>6. \A k \in 1..m : v[k] = w[q[k]]
  BY <1>2, <1>4, <1>5 DEF Volumes
<1>7. Within(order, a) # {} => Within(order, raw) # {}
  <2>1. \A k \in Within(order, a) : k \in 1..m
    BY <1>2, LevelsAre DEF Within, V!Facing
  <2> QED
    BY <1>4, <2>1
<1>8. PICK x, X, P, O : Outcomes(order, raw, x, X, P, O)
  BY <1>1, OutcomesAre
<1>9. PICK e, E, F, G : Outcomes(order, a, e, E, F, G)
  BY <1>1, <1>2, OutcomesAre
<1>10. /\ x \in [1..n -> Nat] /\ IsSums(X, x, n) /\ IsSums(P, Paid(raw, x), n)
       /\ IsSums(O, w, n) /\ BestFirst(d, raw, x, w)
  BY <1>8 DEF Outcomes, IsFilling
<1>11. /\ e \in [1..m -> Nat] /\ IsSums(E, e, m) /\ IsSums(F, Paid(a, e), m)
       /\ IsSums(G, v, m) /\ \A k \in 1..m : e[k] <= v[k]
  BY <1>9 DEF Outcomes, IsFilling
<1>12. /\ Queue(order, raw).filled <=> Within(order, raw) # {} /\ O[n] >= r
       /\ Fill(order, raw).filled <=> O[n] > r
       /\ O[n] >= r => X[n] = r
       /\ Queue(order, raw).price = PriceOf(order, raw, X, P)
       /\ O[n] \in Nat
  BY <1>8 DEF Outcomes
<1>13. /\ Queue(order, a).filled <=> Within(order, a) # {} /\ G[m] >= r
       /\ Fill(order, a).filled <=> G[m] > r
       /\ G[m] >= r => E[m] = r
       /\ Queue(order, a).price = PriceOf(order, a, E, F)
       /\ G[m] \in Nat
  BY <1>9 DEF Outcomes
<1> HIDE DEF w, v, r, m, n, d
<1>14. G[m] <= O[n]
  <2> DEFINE z == Moved(v, q, m, n)
  <2>1. /\ z \in [1..n -> Nat] /\ \A k \in 1..m : z[q[k]] = v[k]
        /\ \A j \in 1..n : (\A k \in 1..m : q[k] # j) => z[j] = 0
        /\ Rearranges(v, z, q, m, n)
    BY <1>0, <1>1, <1>3, MovedIs
  <2> HIDE DEF z
  <2>2. z \in Terms(n)
    BY <2>1 DEF Terms
  <2>3. PICK Z : IsSums(Z, z, n)
    BY <1>1, <2>2, SumsExist
  <2>4. G[m] = Z[n]
    BY <1>1, <1>2, <1>3, <1>11, <2>1, <2>2, <2>3, SumsRearrange
  <2>5. \A j \in 1..n : z[j] <= w[j]
    <3> SUFFICES ASSUME NEW j \in 1..n PROVE z[j] <= w[j]
      OBVIOUS
    <3>1. CASE \E k \in 1..m : q[k] = j
      <4>1. PICK k \in 1..m : q[k] = j
        BY <3>1
      <4>2. z[j] = w[j] /\ w[j] \in Nat
        BY <1>1, <1>6, <2>1, <4>1
      <4> QED
        BY <4>2
    <3>2. CASE \A k \in 1..m : q[k] # j
      BY <1>1, <2>1, <3>2
    <3> QED
      BY <3>1, <3>2
  <2>6. n \in 0..n /\ \A k \in 0..n : Z[k] <= O[k]
    <3>1. n \in Nat /\ n \in 0..n /\ w \in Terms(n) /\ IsSums(O, w, n)
      BY <1>1, <1>10
    <3> QED
      BY <2>2, <2>3, <2>5, <3>1, SumsMonotone
  <2> QED
    BY <2>4, <2>6
<1>15. Fill(order, a).filled => result.app.filled
  BY <1>1, <1>12, <1>13, <1>14
<1>16. ASSUME Queue(order, a).filled
       PROVE  /\ result.root.filled
              /\ d * (Queue(order, a).price[1] * result.root.price[2]
                      - result.root.price[1] * Queue(order, a).price[2]) >= 0
  <2>1. G[m] >= r /\ O[n] >= r /\ result.root.filled /\ X[n] = r /\ E[m] = r
    BY <1>1, <1>7, <1>12, <1>13, <1>14, <1>16
  <2>2. CASE r = 0
    <3>1. /\ V!Limit(order, V!Ladder(a, order.direction)) = 200 * order.limit
          /\ V!Limit(order, V!Ladder(raw, order.direction)) = 200 * order.limit
      BY <1>1, <1>2, LadderIsBook, LimitIs DEF d
    <3>2. Queue(order, a).price = <<200 * order.limit, 1>>
          /\ result.root.price = <<200 * order.limit, 1>>
      BY <1>1, <1>12, <1>13, <2>1, <2>2, <3>1 DEF PriceOf, m, n
    <3>3. PICK c \in Int : c = 200 * order.limit
      BY <1>1, OrderIs
    <3>4. d * (c * 1 - c * 1) >= 0
      BY <1>1 DEF Directions
    <3>5. /\ Queue(order, a).price[1] = c /\ Queue(order, a).price[2] = 1
          /\ result.root.price[1] = c /\ result.root.price[2] = 1
      BY <3>2, <3>3
    <3> QED
      BY <2>1, <3>4, <3>5
  <2>3. CASE r > 0
    <3> DEFINE y == Moved(e, q, m, n)
    <3>1. /\ y \in [1..n -> Nat] /\ \A k \in 1..m : y[q[k]] = e[k]
          /\ \A j \in 1..n : (\A k \in 1..m : q[k] # j) => y[j] = 0
          /\ Rearranges(e, y, q, m, n)
      <4>1. n \in Nat /\ m \in Nat /\ e \in [1..m -> Nat]
        BY <1>1, <1>3, <1>11
      <4> QED
        BY <1>0, <4>1, MovedIs
    <3> HIDE DEF y
    <3>2. y \in Terms(n) /\ e \in Terms(m)
      BY <1>11, <3>1 DEF Terms
    <3>3. Paid(raw, y) \in Terms(n) /\ Paid(a, e) \in Terms(m)
      BY <1>1, <1>2, <1>11, <3>1, PaidIs DEF n, m
    <3>4. Rearranges(Paid(a, e), Paid(raw, y), q, m, n)
      BY <1>1, <1>2, <3>1, PaidMoves DEF n, m
    <3>5. PICK Y : IsSums(Y, y, n)
      BY <1>1, <3>2, SumsExist
    <3>6. PICK Q : IsSums(Q, Paid(raw, y), n)
      BY <1>1, <3>3, SumsExist
    <3>7. E[m] = Y[n]
      BY <1>1, <1>2, <1>3, <1>11, <3>1, <3>2, <3>5, SumsRearrange
    <3>8. F[m] = Q[n]
      BY <1>1, <1>2, <1>3, <1>11, <3>3, <3>4, <3>6, SumsRearrange
    <3>9. \A j \in 1..n : y[j] <= w[j]
      <4> SUFFICES ASSUME NEW j \in 1..n PROVE y[j] <= w[j]
        OBVIOUS
      <4>1. CASE \E k \in 1..m : q[k] = j
        <5>1. PICK k \in 1..m : q[k] = j
          BY <4>1
        <5>2. y[j] = e[k] /\ w[j] = v[k]
          BY <1>6, <3>1, <5>1
        <5> QED
          BY <1>11, <5>1, <5>2
      <4>2. CASE \A k \in 1..m : q[k] # j
        BY <1>1, <3>1, <4>2
      <4> QED
        BY <4>1, <4>2
    <3>10. PICK h : IsWorst(d, raw, x, h)
      BY <1>1, <1>10, <2>1, <2>3, WorstExists DEF n
    <3>11. PICK t \in Int : t = d * raw[h].price
      BY <1>1, <3>10, SignedPrice DEF IsWorst
    <3>12. d * P[n] + (d * raw[h].price) * Y[n] <= d * Q[n] + (d * raw[h].price) * X[n]
      BY <1>1, <1>10, <3>1, <3>5, <3>6, <3>9, <3>10, Exchange DEF n
    <3>13. P[n] \in Int /\ Q[n] \in Int
      <4>1. n \in 0..n
        BY <1>1
      <4> QED
        BY <1>10, <3>6, <4>1 DEF IsSums
    <3>14. d * P[n] <= d * F[m]
      <4>1. d * P[n] + t * r <= d * Q[n] + t * r
        BY <2>1, <3>7, <3>11, <3>12
      <4>2. d * P[n] \in Int /\ d * Q[n] \in Int /\ t * r \in Int
        BY <1>1, <3>11, <3>13 DEF Directions
      <4> QED
        BY <3>8, <4>1, <4>2
    <3>15. (d * P[n]) * r <= (d * F[m]) * r
      <4>1. PICK f \in Int : f = d * P[n]
        BY <1>1, <3>13 DEF Directions
      <4>2. PICK g \in Nat : d * F[m] = f + g
        <5>1. d * F[m] \in Int
          BY <1>1, <3>8, <3>13 DEF Directions
        <5>2. d * F[m] - f \in Nat /\ d * F[m] = f + (d * F[m] - f)
          BY <3>14, <4>1, <5>1
        <5> QED
          BY <5>2
      <4>3. (f + g) * r = f * r + g * r /\ g * r >= 0 /\ f * r \in Int /\ g * r \in Int
        BY <1>1
      <4> QED
        BY <4>1, <4>2, <4>3
    <3>16. d * ((200 * F[m]) * r - (200 * P[n]) * r) >= 0
      BY <1>1, <3>8, <3>13, <3>15, PricesCompare
    <3>17. /\ Queue(order, a).price[1] = 200 * F[m] /\ Queue(order, a).price[2] = r
           /\ result.root.price[1] = 200 * P[n] /\ result.root.price[2] = r
      BY <1>1, <1>12, <1>13, <2>1, <2>3 DEF PriceOf, m, n
    <3> QED
      BY <2>1, <3>16, <3>17
  <2> QED
    BY <1>1, <2>2, <2>3
<1>17. V!QueuePosition(order, V!Ladder(a, d)) = Queue(order, a)
       /\ V!L2Fill(order, V!Ladder(a, d)) = Fill(order, a)
  BY DEF Queue, Fill, d
<1> QED
  BY <1>15, <1>16, <1>17 DEF a

\* The sum of the first terms.
Cut(v, D, n) == [k \in 1..n |-> IF k <= D THEN v[k] ELSE 0]

LEMMA SumsCut ==
  ASSUME NEW n \in Nat, NEW v \in Terms(n), NEW C, IsSums(C, v, n), NEW D \in 0..n,
         NEW u \in Terms(n), \A k \in 1..n : u[k] = Cut(v, D, n)[k], NEW U, IsSums(U, u, n)
  PROVE  U[n] = C[D]
<1> DEFINE T == {k \in 0..n : U[k] = IF k <= D THEN C[k] ELSE C[D]}
<1>0. /\ \A k \in 1..n : u[k] = IF k <= D THEN v[k] ELSE 0
      /\ \A k \in 0..n : U[k] \in Int /\ C[k] \in Int
      /\ \A k \in 1..n : U[k] = U[k - 1] + u[k] /\ C[k] = C[k - 1] + v[k]
      /\ U[0] = 0 /\ C[0] = 0
  BY DEF Cut, IsSums
<1>1. 0 \in T
  BY <1>0
<1>2. ASSUME NEW k \in Nat, k < n, k \in T PROVE k + 1 \in T
  <2>1. k + 1 \in 1..n /\ k + 1 \in 0..n /\ k \in 0..n /\ (k + 1) - 1 = k
    BY <1>2
  <2>2. U[k + 1] = U[k] + u[k + 1] /\ C[k + 1] = C[k] + v[k + 1]
    BY <1>0, <2>1
  <2>3. U[k] = IF k <= D THEN C[k] ELSE C[D]
    BY <1>2
  <2>4. CASE k + 1 <= D
    <3>1. k <= D /\ u[k + 1] = v[k + 1]
      BY <1>0, <2>1, <2>4
    <3> QED
      BY <2>1, <2>2, <2>3, <2>4, <3>1
  <2>5. CASE ~k + 1 <= D
    <3>1. u[k + 1] = 0 /\ U[k + 1] = U[k]
      BY <1>0, <2>1, <2>2, <2>5
    <3>2. U[k] = C[D]
      <4>1. k = D \/ ~k <= D
        BY <2>5
      <4> QED
        BY <2>3, <4>1
    <3> QED
      BY <2>1, <2>5, <3>1, <3>2
  <2> QED
    BY <2>4, <2>5
<1> HIDE DEF T
<1>3. \A k \in 0..n : k \in T
  BY <1>1, <1>2, UpTo
<1>4. n \in T
  BY <1>3
<1>5. n <= D => n = D
  OBVIOUS
<1> QED
  BY <1>4, <1>5 DEF T

\* The levels ahead of one that is reached are reached.
LEMMA ReachIsPrefix ==
  ASSUME NEW o \in V!Order, NEW b \in Books,
         NEW j \in 1..Len(V!Ladder(b, o.direction)), NEW k \in 1..Len(V!Ladder(b, o.direction)),
         j <= k, k \in Reach(o, V!Ladder(b, o.direction))
  PROVE  j \in Reach(o, V!Ladder(b, o.direction))
<1> DEFINE d == o.direction
           a == V!Ladder(b, d)
           p == Positions(b, d)
           m == Cardinality(V!Facing(b, d))
           limit == V!Limit(o, a)
<1>1. d \in Directions /\ a \in Books /\ Len(a) = m /\ IsLadder(b, d, p, m)
  BY OrderIs, LadderIsBook, LadderIs
<1>2. DOMAIN a = 1..m /\ limit \in Int /\ a[j].price \in Nat /\ a[k].price \in Nat
  BY <1>1, LevelsAre, LimitIs
<1>3. j < k => ~V!Better(d, a[k].price, a[j].price)
  <2>1. /\ a = [i \in 1..m |-> b[p[i]]]
        /\ \A i, h \in 1..m : i < h => ~V!Better(d, b[p[h]].price, b[p[i]].price)
    BY <1>1 DEF IsLadder
  <2> HIDE DEF a, p, m, d
  <2>2. a[j] = b[p[j]] /\ a[k] = b[p[k]]
    BY <1>1, <2>1 DEF a, d
  <2> QED
    BY <1>1, <2>1, <2>2 DEF a, d
<1>4. ~V!Better(d, limit, 200 * a[k].price)
  BY DEF Reach, V!Reachable, V!Slip
<1>5. ~V!Better(d, limit, 200 * a[j].price)
  <2> HIDE DEF a, limit, d, m
  <2>1. CASE j = k
    BY <1>4, <2>1
  <2>2. CASE j < k /\ d = 1
    BY <1>2, <1>3, <1>4, <2>2 DEF V!Better
  <2>3. CASE j < k /\ d = -1
    BY <1>2, <1>3, <1>4, <2>3 DEF V!Better
  <2> QED
    BY <1>1, <2>1, <2>2, <2>3 DEF Directions, a, d
<1> QED
  BY <1>1, <1>2, <1>5 DEF Reach, V!Reachable, V!Slip

\* Where the root matcher stands after k levels.
DepthIsAt(f, o, a, C, k) ==
  /\ f[k].depth \in 0..k
  /\ \A n \in 1..f[k].depth : n \in Reach(o, a)
  /\ f[k].depth < k /\ C[f[k].depth] < V!Required(o.lots) =>
       \A n \in (f[k].depth + 1)..k : n \notin Reach(o, a)
  /\ f[k].depth > 0 => C[f[k].depth - 1] < V!Required(o.lots)

LEMMA DepthIs ==
  ASSUME NEW o \in V!Order, o.lots > 0, NEW b \in Books, NEW a, a = V!Ladder(b, o.direction),
         NEW f, IsWalk(f, o, a), \A n \in Reach(o, a) : Goes(f[n - 1], f[n]),
         NEW C, IsSums(C, Volumes(a, Reach(o, a)), Len(a)),
         \A k \in 0..Len(a) : /\ f[k].depth \in 0..k
                              /\ f[k].remaining = V!Required(o.lots)
                                                    - Lesser(V!Required(o.lots), C[k])
  PROVE  \A k \in 0..Len(a) : DepthIsAt(f, o, a, C, k)
<1> DEFINE m == Len(a)
           r == V!Required(o.lots)
           T == {k \in 0..m : DepthIsAt(f, o, a, C, k)}
<1>1. a \in Books /\ m \in Nat /\ r \in Nat /\ r > 0 /\ DOMAIN a = 1..m
  <2>1. a \in Books
    BY OrderIs, LadderIsBook
  <2>2. r = 6 * o.lots /\ o.lots \in Nat
    BY OrderIs
  <2>3. r \in Nat /\ r > 0
    BY <2>2
  <2> QED
    BY <2>1, <2>3, LevelsAre
<1>2. /\ C[0] = 0 /\ \A k \in 0..m : C[k] \in Nat
      /\ \A j, k \in 0..m : j <= k => C[j] <= C[k]
  <2>1. Volumes(a, Reach(o, a)) \in [1..m -> Nat]
    BY <1>1, VolumesAre
  <2>2. C[0] = 0
    BY DEF IsSums
  <2> HIDE DEF m
  <2>3. IsSums(C, Volumes(a, Reach(o, a)), m)
    BY DEF m
  <2> QED
    BY <1>1, <2>1, <2>2, <2>3, SumsGrow
<1>3. \A j, k \in 1..m : j <= k /\ k \in Reach(o, a) => j \in Reach(o, a)
  BY ReachIsPrefix
<1>4. \A k \in 0..m : f[k].depth \in 0..k /\ f[k].remaining = r - Lesser(r, C[k])
  OBVIOUS
<1>5. f[0].depth = 0
  BY DEF IsWalk, V!NothingYet
<1>6. \A k \in 1..m : /\ k \in Reach(o, a) => Goes(f[k - 1], f[k])
                      /\ k \notin Reach(o, a) => f[k] = f[k - 1]
  BY DEF IsWalk
<1>7. 0 \in T
  BY <1>1, <1>5 DEF DepthIsAt
<1>8. ASSUME NEW k \in Nat, k < m, k \in T PROVE k + 1 \in T
  <2>1. k \in 0..m /\ k + 1 \in 1..m /\ k + 1 \in 0..m /\ (k + 1) - 1 = k
    BY <1>1, <1>8
  <2>2. PICK D \in 0..k : D = f[k].depth
    BY <1>4, <2>1
  <2>3. /\ \A n \in 1..D : n \in Reach(o, a)
        /\ D < k /\ C[D] < r => \A n \in (D + 1)..k : n \notin Reach(o, a)
        /\ D > 0 => C[D - 1] < r
    BY <1>8, <2>2 DEF DepthIsAt
  <2>4. D \in 0..m /\ C[D] \in Nat /\ C[k] \in Nat /\ C[D] <= C[k]
    <3>1. D \in 0..m /\ D <= k
      BY <2>1
    <3> QED
      BY <1>2, <2>1, <3>1
  <2>5. f[k].remaining = 0 <=> C[k] >= r
    BY <1>1, <1>4, <2>1, <2>4 DEF Lesser
  <2> HIDE DEF T, m, r
  <2>6. CASE k + 1 \in Reach(o, a) /\ D > 0 /\ C[k] >= r
    <3>1. f[k + 1].depth = D
      BY <1>6, <2>1, <2>2, <2>5, <2>6 DEF Goes
    <3>2. ~C[D] < r
      <4> SUFFICES ASSUME C[D] < r PROVE FALSE
        OBVIOUS
      <4>1. D # k
        BY <1>1, <2>4, <2>6
      <4>2. D < k /\ D + 1 \in (D + 1)..k /\ D + 1 \in 1..m /\ D + 1 <= k + 1
        BY <1>1, <2>1, <4>1
      <4>3. D + 1 \notin Reach(o, a)
        BY <2>3, <4>2
      <4> QED
        BY <1>3, <2>1, <2>6, <4>2, <4>3
    <3>3. D \in 0..(k + 1)
      OBVIOUS
    <3>4. DepthIsAt(f, o, a, C, k + 1)
      BY <2>3, <3>1, <3>2, <3>3 DEF DepthIsAt, r
    <3> QED
      BY <2>1, <3>4 DEF T
  <2>7. CASE k + 1 \in Reach(o, a) /\ ~(D > 0 /\ C[k] >= r)
    <3>1. f[k + 1].depth = D + 1
      BY <1>6, <2>1, <2>2, <2>5, <2>7 DEF Goes
    <3>2. C[D] < r
      <4>1. CASE D = 0
        BY <1>1, <1>2, <4>1
      <4>2. CASE ~C[k] >= r
        BY <1>1, <2>4, <4>2
      <4> QED
        BY <2>7, <4>1, <4>2
    <3>3. D = k
      <4> SUFFICES ASSUME D # k PROVE FALSE
        OBVIOUS
      <4>1. D < k /\ D + 1 \in (D + 1)..k /\ D + 1 \in 1..m /\ D + 1 <= k + 1
        BY <1>1, <2>1
      <4>2. D + 1 \notin Reach(o, a)
        BY <2>3, <3>2, <4>1
      <4> QED
        BY <1>3, <2>1, <2>7, <4>1, <4>2
    <3>4. \A n \in 1..(k + 1) : n \in Reach(o, a)
      <4>1. \A n \in 1..(k + 1) : n \in 1..m /\ n <= k + 1
        BY <1>1, <2>1
      <4> QED
        BY <1>3, <2>1, <2>7, <4>1
    <3>5. DepthIsAt(f, o, a, C, k + 1)
      BY <2>1, <3>1, <3>2, <3>3, <3>4 DEF DepthIsAt, r
    <3> QED
      BY <2>1, <3>5 DEF T
  <2>8. CASE k + 1 \notin Reach(o, a)
    <3>1. f[k + 1].depth = D
      BY <1>6, <2>1, <2>2, <2>8
    <3>2. D < k + 1 /\ C[D] < r => \A n \in (D + 1)..(k + 1) : n \notin Reach(o, a)
      <4> SUFFICES ASSUME C[D] < r, NEW n \in (D + 1)..(k + 1) PROVE n \notin Reach(o, a)
        OBVIOUS
      <4>1. n = k + 1 \/ (D < k /\ n \in (D + 1)..k)
        OBVIOUS
      <4> QED
        BY <2>3, <2>8, <4>1
    <3>3. D \in 0..(k + 1)
      OBVIOUS
    <3>4. DepthIsAt(f, o, a, C, k + 1)
      BY <2>3, <3>1, <3>2, <3>3 DEF DepthIsAt, r
    <3> QED
      BY <2>1, <3>4 DEF T
  <2> QED
    BY <2>6, <2>7, <2>8
<1> HIDE DEF T, m
<1>9. \A k \in 0..m : k \in T
  BY <1>1, <1>7, <1>8, UpTo
<1> QED
  BY <1>9 DEF T, m

LEMMA DepthLeast ==
  ASSUME Answered
  PROVE  V!DepthIsLeast
<1> DEFINE a == V!Ladder(raw, order.direction)
           m == Len(a)
           r == V!Required(order.lots)
           v == Volumes(a, Reach(order, a))
<1>1. /\ order \in V!Order /\ raw \in Books /\ result.root = Queue(order, raw)
      /\ a \in Books /\ m \in Nat /\ r \in Nat
  <2>1. /\ order \in V!Order /\ raw \in Books /\ result.root = Queue(order, raw)
    BY AnsweredIs
  <2>2. a \in Books
    BY <2>1, OrderIs, LadderIsBook
  <2> QED
    BY <2>1, <2>2, OrderIs, LevelsAre
<1> SUFFICES ASSUME result.root.filled, order.lots > 0
             PROVE  /\ V!Offered(a, 1..result.root.depth) >= r
                    /\ V!Offered(a, 1..(result.root.depth - 1)) < r
  BY DEF V!DepthIsLeast
<1>2. v \in [1..m -> Nat] /\ v \in Terms(m)
  BY <1>1, VolumesAre
<1>3. PICK f : /\ IsWalk(f, order, a)
               /\ f[m] = V!Walk("root", order, a)
               /\ \A n \in Reach(order, a) : Goes(f[n - 1], f[n])
  BY <1>1, RootWalk
<1>4. PICK C : IsSums(C, v, m)
  BY <1>1, <1>2, SumsExist
<1> DEFINE x == Eaten(r, C, m)
<1>5. Paid(a, x) \in Terms(m)
  <2>1. x \in [1..m -> Nat]
    <3> HIDE DEF v, m, a, r
    <3> QED
      BY <1>1, <1>2, <1>4, EatenIs
  <2> HIDE DEF x
  <2> QED
    BY <1>1, <2>1, PaidIs
<1>6. PICK P : IsSums(P, Paid(a, x), m)
  BY <1>1, <1>5, SumsExist
<1>7. \A k \in 0..m : WalkIsAt(f, order, a, C, P, k)
  <2> HIDE DEF a
  <2> QED
    BY <1>1, <1>3, <1>4, <1>6, WalkIs
<1>8. /\ \A k \in 0..m : f[k].depth \in 0..k /\ f[k].remaining = r - Lesser(r, C[k])
      /\ f[m].taken = Lesser(r, C[m])
  <2>1. m \in 0..m
    BY <1>1
  <2> HIDE DEF a, m
  <2>2. \A k \in 0..m : f[k].depth \in 0..k
    BY <1>1, <1>7 DEF WalkIsAt
  <2> QED
    BY <1>7, <2>1, <2>2 DEF WalkIsAt
<1>9. \A k \in 0..m : DepthIsAt(f, order, a, C, k)
  <2>1. a = V!Ladder(raw, order.direction)
    OBVIOUS
  <2> HIDE DEF a, r
  <2> QED
    BY <1>1, <1>3, <1>4, <1>8, <2>1, DepthIs DEF r
<1> DEFINE D == f[m].depth
<1>10. DepthIsAt(f, order, a, C, m)
  BY <1>1, <1>9
<1>11. result.root.depth = D /\ D > 0 /\ f[m].taken >= r
  <2>1. Queue(order, raw) = [filled |-> f[m].depth > 0 /\ f[m].taken >= r,
                             depth |-> f[m].depth, volume |-> f[m].taken,
                             price |-> IF f[m].taken > 0
                                       THEN <<V!Slip * f[m].cost, f[m].taken>>
                                       ELSE <<V!Limit(order, a), 1>>]
    BY <1>3 DEF Queue, V!QueuePosition, V!Outcome
  <2>2. Queue(order, raw).filled = (f[m].depth > 0 /\ f[m].taken >= r)
    BY <2>1
  <2>3. Queue(order, raw).depth = f[m].depth
    BY <2>1
  <2> QED
    BY <1>1, <2>2, <2>3
<1> HIDE DEF a, m, r, v
<1>12. /\ D \in 0..m /\ D - 1 \in 0..m /\ \A n \in 1..D : n \in Reach(order, a)
       /\ D < m /\ C[D] < r => \A n \in (D + 1)..m : n \notin Reach(order, a)
       /\ C[D - 1] < r
  <2>1. D \in 0..m
    BY <1>10 DEF DepthIsAt
  <2> QED
    BY <1>1, <1>10, <1>11, <2>1 DEF DepthIsAt, r
<1>13. \A k \in 0..m : C[k] \in Nat
  BY <1>1, <1>2, <1>4, SumsGrow
<1>14. C[m] >= r
  <2>1. m \in 0..m
    BY <1>1
  <2> QED
    BY <1>1, <1>8, <1>11, <1>13, <2>1 DEF Lesser
<1>15. C[D] >= r
  <2> SUFFICES ASSUME C[D] < r PROVE FALSE
    BY <1>1, <1>12, <1>13
  <2>1. D < m
    BY <1>1, <1>12, <1>13, <1>14
  <2>2. \A n \in (D + 1)..m : n \notin Reach(order, a)
    BY <1>12, <2>1
  <2>3. \A k \in 1..m : v[k] = Cut(v, D, m)[k]
    <3> SUFFICES ASSUME NEW k \in 1..m PROVE v[k] = Cut(v, D, m)[k]
      OBVIOUS
    <3>1. ~k <= D => k \in (D + 1)..m
      BY <1>1, <1>12
    <3>2. ~k <= D => v[k] = 0
      BY <2>2, <3>1 DEF v, Volumes, m
    <3> QED
      BY <3>2 DEF Cut
  <2> HIDE DEF D
  <2>4. C[m] = C[D]
    BY <1>1, <1>2, <1>4, <1>12, <2>3, SumsCut
  <2> QED
    BY <1>1, <1>12, <1>13, <1>14, <2>4
<1>16. ASSUME NEW E \in 0..m, E <= D PROVE V!Offered(a, 1..E) = C[E]
  <2> DEFINE u == Volumes(a, 1..E)
  <2>1. u \in Terms(m)
    BY <1>1, VolumesAre DEF m
  <2>2. PICK U : IsSums(U, u, m)
    BY <1>1, <2>1, SumsExist
  <2>3. V!Offered(a, 1..E) = U[m]
    BY <1>1, <2>2, OfferedIs DEF m
  <2>4. \A k \in 1..m : u[k] = Cut(v, E, m)[k]
    <3> SUFFICES ASSUME NEW k \in 1..m PROVE u[k] = Cut(v, E, m)[k]
      OBVIOUS
    <3>1. CASE k <= E
      <4>1. k \in 1..E /\ k \in 1..D
        BY <1>12, <1>16, <3>1
      <4>2. u[k] = 5 * a[k].size /\ v[k] = 5 * a[k].size
        BY <1>12, <4>1 DEF v, Volumes, m
      <4> QED
        BY <3>1, <4>2 DEF Cut
    <3>2. CASE ~k <= E
      <4>1. u[k] = 0
        BY <3>2 DEF Volumes, m
      <4> QED
        BY <3>2, <4>1 DEF Cut
    <3> QED
      BY <3>1, <3>2
  <2> HIDE DEF u
  <2>5. U[m] = C[E]
    BY <1>1, <1>2, <1>4, <2>1, <2>2, <2>4, SumsCut
  <2> QED
    BY <2>3, <2>5
<1>17. V!Offered(a, 1..D) = C[D]
  BY <1>12, <1>16
<1>18. V!Offered(a, 1..(D - 1)) = C[D - 1]
  <2>1. D - 1 <= D
    BY <1>12
  <2> QED
    BY <1>12, <1>16, <2>1
<1> QED
  BY <1>11, <1>12, <1>15, <1>17, <1>18

-----------------------------------------------------------------------------
(* VolumeWalk: the theorem *)

WalkInv == (order = None /\ raw \in Books) \/ Answered

LEMMA WalkInit == V!Init => WalkInv
BY DEF V!Init, WalkInv, Books

LEMMA WalkStep == WalkInv /\ [V!Next]_(V!vars) => WalkInv'
<1> SUFFICES ASSUME WalkInv, [V!Next]_(V!vars) PROVE WalkInv'
  OBVIOUS
<1>1. CASE UNCHANGED V!vars
  BY <1>1 DEF V!vars, WalkInv, Answered
<1>2. CASE V!Evaluate
  <2>1. order' \in V!Order
    BY <1>2 DEF V!Evaluate
  <2>2. raw' \in Books
    <3>1. PICK n \in 0..Depth : raw' \in [1..n -> V!RawLevel]
      BY <1>2 DEF V!Evaluate
    <3>2. n \in Nat
      BY WalkSizes
    <3> QED
      BY <3>1, <3>2 DEF Books
  <2>3. result' = [root |-> Queue(order', raw'), app |-> Fill(order', raw')]
    BY <1>2 DEF V!Evaluate, Queue, Fill
  <2> QED
    BY <2>1, <2>2, <2>3 DEF WalkInv, Answered
<1> QED
  BY <1>1, <1>2 DEF V!Next

LEMMA WalkInvAlways == V!Spec => []WalkInv
BY WalkInit, WalkStep, PTL DEF V!Spec

LEMMA WalkInvIsFair == WalkInv => FillsAreFair
<1>1. CASE order = None /\ raw \in Books
  BY <1>1 DEF Books, FillsAreFair, V!TypeOK, V!Evaluated, V!FillsAreFair,
     V!FillsWhenOffered, V!DepthIsLeast, V!SamePriceWhenBothFill, V!PriceWithinLimit,
     V!LargerIsNoBetter, V!FragmentIsNoBetter, V!ImprovedIsLoss
<1>2. CASE Answered
  BY <1>2, WalkTyped, FilledWhenOffered, DepthLeast, SamePaid, PricedWithinLimit,
     LargerIsWorse, FragmentIsWorse, ImprovedDoesLose DEF FillsAreFair, V!FillsAreFair
<1> QED
  BY <1>1, <1>2 DEF WalkInv

(* A book fills an order exactly when the levels within its limit offer    *)
(* 120% of it, in whatever order they come, from the least number of the   *)
(* best levels, at a price between the best offer and the limit that is    *)
(* the same for both walks; a larger order or a part of the book never     *)
(* gets a better one, and the record that the prior reads calls every      *)
(* improved fill a loss. For any prices, sizes, quantities and depth of    *)
(* the book.                                                               *)
THEOREM FillsAreFairTheorem == Spec => []FillsAreFair
BY WalkInvIsFair, WalkInvAlways, AlgorithmsRun, PTL
=============================================================================
