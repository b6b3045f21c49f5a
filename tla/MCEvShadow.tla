------------------------------ MODULE MCEvShadow ------------------------------
EXTENDS EvShadow

Parameters ==
  [minNetEv |-> 15, minProbability |-> 0, enforceWindow |-> FALSE, window |-> <<1, 2>>,
   latencyFloor |-> 3, latencyCap |-> 50, settlementBuffer |-> 2, modelBuffer |-> 10,
   executionBuffer |-> 5, lotteryMin |-> 10, lotteryMax |-> 50, blend |-> 500,
   minLiquidity |-> 20, maxSlippage |-> 10, maxBookAge |-> 1, maxSkew |-> 2,
   maxDivergence |-> 100, minModelSamples |-> 20, minModelSpan |-> 60, requireMap |-> TRUE,
   mapMaxAge |-> 1, minSamples |-> 2, priorWeight |-> 2, maxReversalLoss |-> 1000,
   minHedgePnl |-> 50, maxHedgeRatio |-> 1000]

ThreeSources ==
  [binance   |-> [spot |-> TRUE, usd |-> FALSE, limit |-> 1, supported |-> TRUE],
   coinbase  |-> [spot |-> TRUE, usd |-> TRUE, limit |-> 2, supported |-> TRUE],
   chainlink |-> [spot |-> FALSE, usd |-> TRUE, limit |-> 1, supported |-> TRUE]]
Prices == [binance |-> {1000}, coinbase |-> {1000, 1030}, chainlink |-> {1000, 1010}]

SpotHeard == {{"binance", "coinbase"}}

FiveMinutes == [interval |-> "5m", start |-> 1, close |-> 4, source |-> "chainlink",
                verified |-> TRUE]
Unopened == {[listed |-> TRUE, open |-> None, accepting |-> TRUE]}
Scans == {[listed |-> TRUE, open |-> None, accepting |-> TRUE],
          [listed |-> TRUE, open |-> 1000, accepting |-> TRUE],
          [listed |-> FALSE, open |-> None, accepting |-> TRUE]}

Live == [volatility |-> 2, samples |-> 60, span |-> 60, momentum |-> 5, skew |-> 1]
Thin == [Live EXCEPT !.samples = 5]
Stats == {Thin}
OneMinuteCandles == [volatility |-> 3, samples |-> 119, span |-> 7140]

\* An Up probability that rises with the distance to the price to beat.
UpModel(x) == 500 + 50 * (x.reference - x.beat) + x.imbalance
Risk(fill, volatility, age) == (volatility * (age + 1) * fill) \div 500

Side(ask, fill, imbalance) ==
  [ask |-> ask, fill |-> fill, fee |-> 2, depth |-> 30, filled |-> TRUE, imbalance |-> imbalance]
Late    == [bookAge |-> 0, size |-> 10,
            book |-> [Up |-> Side(850, 855, 2), Down |-> Side(40, 40, -2)]]
Early   == [bookAge |-> 1, size |-> 10,
            book |-> [Up |-> Side(600, 600, 4), Down |-> Side(410, 410, 0)]]
Books == {Late, Early}

Kind(s, tf, p, up, c) ==
  [strategy |-> s, timeframe |-> tf, probability |-> p, up |-> up, cohort |-> c]
D5 == Kind(Directional, "5m", 950, TRUE, 1)
L15 == Kind(Lottery, "15m", 900, TRUE, 1)
Kinds == {D5, L15}
Logs == {[k \in Kinds |-> 2]}
===============================================================================
