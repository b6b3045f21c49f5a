------------------------------ MODULE EvDecision ------------------------------
(***************************************************************************)
(* How one order-book event becomes the rows of the two probability        *)
(* strategies: the aggregated reference price (reference_layer.py), the    *)
(* calibration map (probability_calibration_map.py), the two strategies    *)
(* (ev_strategies.py), the rows of an event and the terminal hedge built   *)
(* from them, and the verifier that recomputes a row (ev_shadow.py).       *)
(*                                                                         *)
(* Probabilities, prices and costs of a share are in thousandths, times in *)
(* ticks.  The two probability formulas and the square-root latency risk   *)
(* are parameters: only when they apply, how they are clamped and what is  *)
(* done with them is the code's control.                                   *)
(***************************************************************************)
EXTENDS Integers, Sequences, FiniteSets, FiniteSetsExt, SequencesExt

CONSTANTS
  None,               \* an absent value
  Config,             \* the parameters, see ConfigFields
  SourceInfo,         \* source -> [spot, usd, limit, supported]
  MarketInfo,         \* [interval, start, close, source, verified]
  Enabled,            \* the strategies whose enable flag is set
  Historical,         \* the statistics loaded at the start, or None
  DirectionalUp(_),   \* the two models' Up probability of a ModelInput
  LotteryUp(_),
  LatencyRisk(_, _, _) \* the dynamic latency risk of a fill, a volatility, an age

Directional == "late_window_directional_ev"
Lottery     == "low_price_lottery_ev"
Strategies  == {Directional, Lottery}
Outcomes    == {"Up", "Down"}
Sources     == DOMAIN SourceInfo

ConfigFields ==
  {"minNetEv", "minProbability", "enforceWindow", "window", "latencyFloor", "latencyCap",
   "settlementBuffer", "modelBuffer", "executionBuffer", "lotteryMin", "lotteryMax", "blend",
   "minLiquidity", "maxSlippage", "maxBookAge", "maxSkew", "maxDivergence", "minModelSamples",
   "minModelSpan", "requireMap", "mapMaxAge", "minSamples", "priorWeight", "maxReversalLoss",
   "minHedgePnl", "maxHedgeRatio"}

SourceStatuses   == {"NOT_RECEIVED", "FRESH", "DISCONNECTED"}
SourceRejections == SourceStatuses \cup {"STALE", "OUTLIER", "missing_price", "wrong_market_type"}
ReferenceBlocks  == {"insufficient_reference_sources", "required_usd_spot_source_unavailable",
                     "settlement_reference_unavailable", "cross_source_divergence_exceeded"}

\* An absent value is no number, status or reason; the historical statistics are
\* numbers (_load_historical_model).
ASSUME ConfigAssumption ==
  /\ DOMAIN Config = ConfigFields
  /\ \A f \in ConfigFields \ {"enforceWindow", "requireMap", "window"} : Config[f] \in Nat
  /\ Config.priorWeight > 0
  /\ Enabled \subseteq Strategies
  /\ MarketInfo.source \in Sources
  /\ {MarketInfo.start, MarketInfo.close} \subseteq Nat /\ MarketInfo.start < MarketInfo.close
  /\ None \notin Int /\ None \notin SourceRejections \cup ReferenceBlocks
  /\ IsFiniteSet(Sources) /\ \A s \in Sources : SourceInfo[s].limit \in Nat
  /\ Historical # None => {Historical.volatility, Historical.samples, Historical.span} \subseteq Nat

\* Of a list of checks <<condition, reason>>: those whose condition holds, their
\* reasons, and the reason of the first.
Held(checks)    == {i \in DOMAIN checks : checks[i][1]}
Reasons(checks) == {checks[i][2] : i \in Held(checks)}
FirstOr(checks, default) == IF Held(checks) = {} THEN default ELSE checks[Min(Held(checks))][2]

Least(a, b) == IF a < b THEN a ELSE b
Greatest(a, b) == IF a > b THEN a ELSE b
\* Mutant: a probability may reach zero or one.
Unclamped(p) == p
Clamp(p) == Greatest(1, Least(999, p))
Complement(p) == IF p = None THEN None ELSE 1000 - p
----------------------------------------------------------------------------
(* The reference: venue.sources[s] = [price, at, status] as the engine wrote *)
(* the file at venue.updated.                                                *)

\* The age of a source's last message: when the file was written, plus the file's.
EffectiveAge(venue, now, s) ==
  IF venue.sources[s].at = None THEN None
  ELSE (venue.updated - venue.sources[s].at) + Greatest(0, now - venue.updated)

EffectiveStatus(venue, now, s) ==
  LET age == EffectiveAge(venue, now, s)
  IN  IF venue.sources[s].status = "FRESH" /\ (age = None \/ age > SourceInfo[s].limit)
      THEN "STALE" ELSE venue.sources[s].status

\* Twice the median price of a nonempty set of sources.
TwiceMedian(venue, S) ==
  LET price == [s \in S |-> venue.sources[s].price]
      byPrice == SortSeq(SetToSeq(S), LAMBDA a, b : price[a] < price[b])
      n == Len(byPrice)
  IN  price[byPrice[(n + 1) \div 2]] + price[byPrice[n \div 2 + 1]]

FreshSources(venue, now) ==
  {s \in Sources : EffectiveStatus(venue, now, s) = "FRESH" /\ venue.sources[s].price # None}

\* A fresh USD price too far from the median of the fresh USD prices.
Outliers(venue, now) ==
  LET usd == {s \in FreshSources(venue, now) : SourceInfo[s].spot /\ SourceInfo[s].usd}
      median == TwiceMedian(venue, usd)
  IN  {s \in usd : 10000 * Greatest(2 * venue.sources[s].price - median,
                                    median - 2 * venue.sources[s].price)
                     > Config.maxDivergence * median}

Diverges(venue, S) ==
  LET prices == {venue.sources[s].price : s \in S}
  IN  /\ S # {}
      /\ 20000 * (Max(prices) - Min(prices)) > Config.maxDivergence * TwiceMedian(venue, S)

\* Mutant: the status that was written in the file.
FileStatus(venue, now, s) ==
  IF s \in Outliers(venue, now) THEN "OUTLIER" ELSE venue.sources[s].status
NormalizedStatus(venue, now, s) ==
  IF s \in Outliers(venue, now) THEN "OUTLIER" ELSE EffectiveStatus(venue, now, s)

\* What a row records of a source: what it was good for, or why for nothing.
SourceRole(venue, now, s) ==
  LET price  == venue.sources[s].price
      status == NormalizedStatus(venue, now, s)
      usable == status = "FRESH" /\ price # None
  IN  [role |-> IF usable /\ SourceInfo[s].spot THEN "exchange_quorum"
                ELSE IF s = MarketInfo.source THEN "settlement_reference" ELSE "excluded",
       rejection |-> IF usable /\ (SourceInfo[s].spot \/ s = MarketInfo.source) THEN None
                     ELSE FirstOr(<< <<status # "FRESH", status>>,
                                     <<price = None, "missing_price">> >>,
                                  "wrong_market_type")]
ValidSources(roles) == {s \in Sources : roles[s].rejection = None}

\* What the strategies see: the settlement price, which is kept when it is
\* stale, whether it may be used, and why the quorum is not met.
Reference(venue, now) ==
  LET usable == FreshSources(venue, now) \ Outliers(venue, now)
      spot == {s \in usable : SourceInfo[s].spot}
      aged == spot \cup (usable \cap {MarketInfo.source})
      fresh == MarketInfo.source \in FreshSources(venue, now)
  IN  [price    |-> venue.sources[MarketInfo.source].price,
       verified |-> MarketInfo.verified /\ MarketInfo.source \in usable,
       roles    |-> [s \in Sources |-> SourceRole(venue, now, s)],
       age      |-> IF aged = {} THEN None ELSE Max({EffectiveAge(venue, now, s) : s \in aged}),
       limit    |-> IF aged = {} THEN 0 ELSE Max({SourceInfo[s].limit : s \in aged}),
       block    |-> FirstOr(<<
         <<Cardinality(spot) < 2, "insufficient_reference_sources">>,
         <<\A s \in spot : ~SourceInfo[s].usd, "required_usd_spot_source_unavailable">>,
         <<~fresh, "settlement_reference_unavailable">>,
         <<Diverges(venue, spot), "cross_source_divergence_exceeded">> >>, None)]
----------------------------------------------------------------------------
(* The models.                                                             *)

StatsSuffice(stats) ==
  /\ stats.volatility # None
  /\ stats.samples >= Config.minModelSamples
  /\ stats.span >= Config.minModelSpan

\* The venue's statistics, or the historical ones where those do not suffice.
ModelStats(stats) ==
  IF StatsSuffice(stats) \/ Historical = None THEN stats
  ELSE [stats EXCEPT !.volatility = Historical.volatility, !.samples = Historical.samples,
                     !.span = Historical.span]

\* x = [reference, beat, seconds, stats, imbalance]
ModelReady(x) ==
  /\ None \notin {x.reference, x.beat, x.imbalance, x.stats.momentum}
  /\ StatsSuffice(x.stats)
  /\ x.seconds > 0

UpProbability(strategy, x) ==
  IF ~ModelReady(x) THEN None
  ELSE Clamp(IF strategy = Directional THEN DirectionalUp(x) ELSE LotteryUp(x))

\* The lottery's probability, pulled towards what the market asks.
Blend(raw, implied) ==
  IF raw = None THEN None ELSE Clamp(implied + (Config.blend * (raw - implied)) \div 1000)

\* Why there is no probability; each question is asked when those before are not it.
ModelBlock(x, now, captureDelay) ==
  IF ModelReady(x) THEN None ELSE FirstOr(<<
    <<x.beat = None /\ now > MarketInfo.start + captureDelay, "price_to_beat_capture_missed">>,
    <<x.beat = None, "price_to_beat_pending">>,
    <<x.reference = None, "settlement_reference_unavailable">>,
    <<x.stats.volatility = None, "volatility_unavailable">>,
    <<x.stats.samples < Config.minModelSamples, "insufficient_model_samples">>,
    <<x.stats.span < Config.minModelSpan, "model_sample_span_insufficient">>,
    <<x.stats.momentum = None, "momentum_unavailable">>,
    <<x.imbalance = None, "order_book_imbalance_unavailable">> >>,
    "probability_model_unavailable")
----------------------------------------------------------------------------
(* The calibration map.  A prediction is [strategy, timeframe, cohort,     *)
(* probability, up]: a predicted Up probability and what the market did;   *)
(* the cohort stands for the configuration hash and the model identity.    *)
(* The log is a bag: how often it holds each prediction.                   *)

Bucket(p) == Least(9, p \div 100)

Samples(log, kinds) == SumFunctionOnSet(log, kinds)

BucketViews(log, kinds) ==
  LET logged == {k \in kinds : log[k] > 0}
  IN  [b \in {Bucket(k.probability) : k \in logged} |->
         LET mine == {k \in logged : Bucket(k.probability) = b}
         IN  [samples  |-> Samples(log, mine),
              expected |-> SumFunctionOnSet([k \in mine |-> log[k] * k.probability], mine)
                             \div Samples(log, mine),
              up       |-> Samples(log, {k \in mine : k.up})]]

\* The map published at a time from the logged predictions of one cohort.
BuildMap(log, cohort, now) ==
  LET of(s) == {k \in DOMAIN log : k.strategy = s /\ k.cohort = cohort}
  IN  [at |-> now, cohort |-> cohort,
       overall |-> [s \in Strategies |-> BucketViews(log, of(s))],
       timeframes |-> [s \in Strategies |->
         [tf \in {k.timeframe : k \in of(s)} |->
            BucketViews(log, {k \in of(s) : k.timeframe = tf})]]]

Enough(views, b) == b \in DOMAIN views /\ views[b].samples >= Config.minSamples

\* Mutant: the map of another configuration still vouches.
MapUsableByAge(map, cohort, now) == map # None /\ now - map.at <= Config.mapMaxAge
MapUsable(map, cohort, now) ==
  map # None /\ now - map.at <= Config.mapMaxAge /\ map.cohort = cohort

\* How often a bucket's markets went Up, pulled towards what was expected of them.
Shrunk(view) == Clamp((1000 * view.up + Config.priorWeight * view.expected)
                      \div (view.samples + Config.priorWeight))

\* The calibrated Up probability: of the timeframe's bucket or of the whole
\* strategy's; None when nothing vouches.
Calibrate(map, strategy, up, now, cohort) ==
  LET own == IF MarketInfo.interval \in DOMAIN map.timeframes[strategy]
             THEN map.timeframes[strategy][MarketInfo.interval] ELSE <<>>
      vouches(views) == MapUsable(map, cohort, now) /\ Enough(views, Bucket(up))
  IN  CASE up = None -> [input |-> None, up |-> None, scope |-> "none"]
        [] up # None /\ vouches(own) ->
             [input |-> up, up |-> Shrunk(own[Bucket(up)]), scope |-> "timeframe"]
        [] up # None /\ ~vouches(own) /\ vouches(map.overall[strategy]) ->
             [input |-> up, up |-> Shrunk(map.overall[strategy][Bucket(up)]),
              scope |-> "strategy"]
        [] OTHER -> [input |-> up, up |-> IF Config.requireMap THEN None ELSE up,
                     scope |-> IF Config.requireMap THEN "none" ELSE "raw"]
----------------------------------------------------------------------------
(* The strategies.  An input has the model input it was made from, the     *)
(* book side and the costs a share of the outcome would pay.               *)

LatencyBuffer(fill, volatility, age) ==
  IF None \in {volatility, age} THEN Config.latencyFloor
  ELSE Least(Greatest(LatencyRisk(fill, volatility, age), Config.latencyFloor),
             Config.latencyCap)

CommonRejections(x) == <<
  <<~x.active \/ ~x.tradable, "market_not_tradable">>,
  <<x.bookAge > Config.maxBookAge, "clob_book_stale">>,
  <<x.skew = None, "clock_skew_unavailable">>,
  <<x.skew # None /\ Greatest(x.skew, -x.skew) > Config.maxSkew, "clock_skew_exceeded">>,
  <<x.reference.block # None, x.reference.block>>,
  <<~x.reference.verified, "settlement_reference_unverified">>,
  <<x.reference.age = None \/ x.reference.age > x.reference.limit, "reference_data_stale">>,
  <<None \in {x.model.beat, x.probability}, x.modelBlock>>,
  <<x.depth < Config.minLiquidity, "insufficient_liquidity">>,
  <<~x.filled, "target_depth_insufficient">>,
  <<x.slippage > Config.maxSlippage, "slippage_exceeded">>,
  <<x.model.stats.momentum = None, "momentum_unavailable">>,
  <<x.ownImbalance = None, "order_book_imbalance_unavailable">> >>

\* Mutant: the fee is forgotten.
UnitCostNet(strategy, x) ==
  x.fill + x.slippage +
    (IF strategy = Directional THEN x.latency + Config.settlementBuffer
                               ELSE Config.modelBuffer + Config.executionBuffer)
\* What one share costs a strategy: its fill, fee, slippage and risk buffers.
UnitCost(strategy, x) ==
  x.fill + x.fee + x.slippage +
    (IF strategy = Directional THEN x.latency + Config.settlementBuffer
                               ELSE Config.modelBuffer + Config.executionBuffer)

NetEv(strategy, x) ==
  IF x.probability = None THEN None ELSE x.probability - UnitCost(strategy, x)

InWindow(x) == Config.window[1] <= x.model.seconds /\ x.model.seconds <= Config.window[2]

OwnRejections(strategy, x) ==
  LET net == NetEv(strategy, x)
      low == <<net # None /\ net < Config.minNetEv, "net_ev_below_threshold">>
  IN  IF strategy = Directional
      THEN << <<Config.enforceWindow /\ ~InWindow(x), "outside_time_window">>,
              <<x.probability # None /\ x.probability < Config.minProbability,
                "model_confidence_below_threshold">>, low>>
      ELSE << <<x.fill > Config.lotteryMax, "entry_price_above_limit">>,
              <<x.fill < Config.lotteryMin, "entry_price_below_limit">>, low>>

Evaluate(strategy, x) ==
  LET blocking == Reasons(CommonRejections(x)) \cup Reasons(OwnRejections(strategy, x))
  IN  [decision |-> IF blocking = {} THEN "ACCEPT" ELSE "REJECT",
       reason   |-> FirstOr(CommonRejections(x),
                            FirstOr(OwnRejections(strategy, x), "positive_net_ev")),
       blocking |-> blocking,
       net      |-> NetEv(strategy, x)]
----------------------------------------------------------------------------
(* The rows of an event [bookAge, size, book], where book[outcome] =       *)
(* [ask, fill, fee, depth, filled, imbalance].  The context c holds what   *)
(* the evaluator has at hand: [now, market, venue, anchor, map, cohort,    *)
(* captureDelay]; the view v of an event is what all its rows share.       *)

PairedImbalance(event) ==
  LET up == event.book["Up"].imbalance  down == event.book["Down"].imbalance
  IN  IF None \in {up, down} THEN None ELSE (up - down) \div 2

\* The metadata's opening price, and only without one the captured anchor.
PriceToBeat(c) == IF c.market.open # None THEN c.market.open
                  ELSE IF c.anchor # None THEN c.anchor.price ELSE None

ModelInput(event, c) ==
  [reference |-> c.venue.sources[MarketInfo.source].price, beat |-> PriceToBeat(c),
   seconds |-> Greatest(0, MarketInfo.close - c.now), stats |-> ModelStats(c.venue.stats),
   imbalance |-> PairedImbalance(event)]

View(event, c) ==
  LET model == ModelInput(event, c)
  IN  [event |-> event, now |-> c.now, map |-> c.map, cohort |-> c.cohort,
       tradable |-> c.market.accepting, skew |-> c.venue.stats.skew, model |-> model,
       up |-> [s \in Enabled |-> UpProbability(s, model)],
       modelBlock |-> ModelBlock(model, c.now, c.captureDelay),
       reference |-> Reference(c.venue, c.now)]

\* What an outcome's shares are quoted at.
Quoted(side) == IF side.ask = None THEN side.fill ELSE side.ask

Input(outcome, v, probability) ==
  LET side == v.event.book[outcome]
  IN  [probability |-> probability, model |-> v.model, reference |-> v.reference,
       modelBlock |-> v.modelBlock, active |-> MarketInfo.close > v.now,
       tradable |-> v.tradable, bookAge |-> v.event.bookAge, skew |-> v.skew,
       price |-> Quoted(side), fill |-> side.fill, fee |-> side.fee, depth |-> side.depth,
       filled |-> side.filled, ownImbalance |-> side.imbalance,
       slippage |-> IF side.ask = None THEN Config.maxSlippage + 1
                    ELSE Greatest(0, side.fill - side.ask),
       latency |-> LatencyBuffer(side.fill, v.model.stats.volatility, v.reference.age)]

\* What the map is asked for: the model's Up probability, for the lottery
\* blended with what the Up side asks.
CalibrationInput(strategy, v) ==
  IF strategy = Lottery THEN Blend(v.up[strategy], Quoted(v.event.book["Up"]))
  ELSE v.up[strategy]

\* Mutant: the Down row takes the calibrated Up probability.
UpForBoth(outcome, up) == up
ForOutcome(outcome, up) == IF outcome = "Up" THEN up ELSE Complement(up)

\* A probability the map does not vouch for is rejected, and its row kept.
FailClosed(result, calibration) ==
  IF Config.requireMap /\ calibration.input # None /\ calibration.up = None
  THEN [result EXCEPT !.decision = "REJECT",
                      !.reason = IF @ = "positive_net_ev"
                                 THEN "probability_calibration_unavailable" ELSE @,
                      !.blocking = @ \cup {"probability_calibration_unavailable"}]
  ELSE result

\* What is recorded of a decision; the input holds the sources' roles.
DecisionAudit(strategy, outcome, input, calibration, result) ==
  [strategy |-> strategy, outcome |-> outcome, input |-> input, calibration |-> calibration,
   result |-> result]

EventRow(strategy, outcome, v) ==
  LET calibration == Calibrate(v.map, strategy, CalibrationInput(strategy, v), v.now, v.cohort)
      raw == ForOutcome(outcome, v.up[strategy])
      input == Input(outcome, v, IF calibration.up = None THEN raw
                                 ELSE ForOutcome(outcome, calibration.up))
  IN  DecisionAudit(strategy, outcome, input, calibration,
                    FailClosed(Evaluate(strategy, input), calibration))

EventRows(event, c) ==
  LET v == View(event, c)
  IN  {EventRow(s, o, v) : s \in Enabled, o \in Outcomes}
----------------------------------------------------------------------------
(* The terminal hedge: the better directional row and, in the other        *)
(* outcome, as many lottery shares as keep the loss of a reversal at its   *)
(* limit.  Their number is the fraction hedgeSize / scale.                 *)

\* The row the code's max() finds: the highest expected value, then the
\* highest probability, then the first.
Main(candidates) ==
  LET ev(r) == IF r.input.probability = None THEN -1000 ELSE r.result.net
      chance(r) == IF r.input.probability = None THEN 0 ELSE r.input.probability
      above(r, o) == \/ ev(r) > ev(o)
                     \/ ev(r) = ev(o) /\ chance(r) > chance(o)
                     \/ ev(r) = ev(o) /\ chance(r) = chance(o) /\ r.outcome = "Up"
  IN  CHOOSE r \in candidates : \A o \in candidates \ {r} : above(r, o)

HedgeScale(hedge) == 1000 - UnitCost(Lottery, hedge.input)

\* Costs and profits in thousandths, those that include the hedge times scale.
HedgeSums(main, hedge, size) ==
  LET cost  == size * UnitCost(Directional, main.input)
      scale == HedgeScale(hedge)
      units == Greatest(0, cost - Config.maxReversalLoss)
      total == cost * scale + units * UnitCost(Lottery, hedge.input)
      p     == main.input.probability
  IN  [scale |-> scale, units |-> units, cost |-> cost,
       win |-> 1000 * size * scale - total,
       reversal |-> 1000 * units - total,
       expected |-> p * (1000 * size * scale - total) + (1000 - p) * (1000 * units - total)]

\* The hedged row, none when there is no directional row or not in the window.
TerminalHedge(rows, event) ==
  LET directional == {r \in rows : r.strategy = Directional}
      accepted == {r \in directional : r.result.decision = "ACCEPT"}
      main == Main(IF accepted = {} THEN directional ELSE accepted)
      others == {r \in rows : r.strategy = Lottery /\ r.outcome # main.outcome}
      hedge == CHOOSE r \in others : TRUE
      blockers == hedge.result.blocking \ {"net_ev_below_threshold"}
      sums == HedgeSums(main, hedge, event.size)
      candidates == <<
        <<accepted = {}, main.result.reason>>,
        <<others = {}, "hedge_quote_unavailable">>,
        <<accepted # {} /\ others # {} /\ blockers # {}, "hedge_blocked">> >>
      limits == <<
        <<hedge.input.fill > Config.lotteryMax, "hedge_price_above_limit">>,
        <<sums.scale <= 0, "hedge_unit_cost_invalid">>,
        <<sums.units = 0, "hedge_not_required">>,
        <<1000 * sums.units > event.size * Config.maxHedgeRatio * sums.scale,
          "hedge_size_above_limit">>,
        <<sums.win <= 0, "main_win_pnl_not_positive">>,
        <<sums.reversal < -Config.maxReversalLoss * sums.scale, "reversal_loss_above_limit">>,
        <<sums.expected < 1000 * Config.minHedgePnl * sums.scale,
          "portfolio_ev_below_threshold">> >>
      reason == FirstOr(candidates, FirstOr(limits, "terminal_hedged_opportunity"))
      takes == reason = "terminal_hedged_opportunity"
  IN  IF directional = {} \/ ~InWindow((CHOOSE r \in directional : TRUE).input) THEN {}
      ELSE {[main |-> main, hedge |-> IF others = {} THEN None ELSE hedge, reason |-> reason,
             decision |-> IF takes THEN "ACCEPT" ELSE "REJECT", size |-> event.size,
             units |-> IF takes THEN sums.units ELSE 0, scale |-> IF takes THEN sums.scale ELSE 1]}
----------------------------------------------------------------------------
(* The verifier: the fields of a row in which its own computation differs. *)

VerifierProbability(row) ==
  LET raw == ForOutcome(row.outcome, UpProbability(row.strategy, row.input.model))
  IN  IF row.strategy = Lottery THEN Blend(raw, row.input.price) ELSE raw

Mismatches(row) ==
  LET again == Evaluate(row.strategy, row.input)
  IN  {f \in {"decision", "reason", "net"} : again[f] # row.result[f]} \cup
      (IF ModelReady(row.input.model) /\ row.input.probability # VerifierProbability(row)
       THEN {"estimated_probability"} ELSE {})
===============================================================================
