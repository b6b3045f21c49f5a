------------------------------- MODULE EvShadow -------------------------------
(***************************************************************************)
(* The expected-value evaluator (ev_shadow.py) in its world: the scanner   *)
(* rewrites the market file, the reference engine the venue file, the      *)
(* shadow lifecycle logs scored predictions and publishes the calibration  *)
(* map from them, and every poll of the evaluator captures the price to    *)
(* beat of the one market and turns the pending order-book events into     *)
(* rows.  Following the audit file, throttling repeated rows and saving    *)
(* are the follower Evaluator of AuditFollowers; here a poll hands its     *)
(* rows to the next step's observer.                                       *)
(***************************************************************************)
EXTENDS EvDecision

CONSTANTS
  Events,          \* the order-book events that may be pending
  ScanResults,     \* the contents of the market file: [listed, open, accepting]
  InitialScans,    \* those it may have at the start
  InitiallyHeard,  \* the sets of sources whose price is fresh at the start
  SourcePrices,    \* source -> its possible prices
  AssetStats,      \* what the engine may know: [volatility, samples, span, momentum, skew]
  Predictions,     \* the predictions that may be scored
  InitialLogs,     \* the prediction logs of earlier days
  CaptureDelay,    \* how late an opening price may be stamped
  PublishEvery,    \* the publisher's interval
  Retain,          \* settlement samples the engine retains
  MaxLag,          \* how long a settlement price may travel
  Horizon,         \* bound: the clock
  MaxInputs        \* bound: files written and predictions scored

OptionalNat == Nat \cup {None}
OptionalInt == Int \cup {None}

\* The contents of the files and of the events are of the types their writers give them.
ASSUME InputAssumption ==
  /\ \A e \in Events : e.size \in Nat /\ \A o \in Outcomes :
       e.book[o] \in [ask : OptionalNat, fill : Nat, fee : Nat, depth : Nat,
                      filled : BOOLEAN, imbalance : OptionalInt]
  /\ ScanResults \subseteq [listed : BOOLEAN, open : OptionalNat, accepting : BOOLEAN]
  /\ InitialScans \subseteq ScanResults
  /\ SourcePrices \in [Sources -> SUBSET Nat] /\ {} \notin Range(SourcePrices)
  /\ AssetStats \subseteq [volatility : OptionalNat, samples : Nat, span : Nat,
                            momentum : OptionalInt, skew : OptionalInt]
  /\ IsFiniteSet(Predictions)
  /\ \A k \in Predictions : k.probability \in 1..999 /\ k.cohort \in {1, 2}
  /\ InitialLogs \subseteq [Predictions -> Nat]

\* The engine retains the settlement prices of more ticks than an opening price
\* may be late, one price a tick: 128 of them for ten seconds.
ASSUME TimeAssumption ==
  /\ {CaptureDelay, PublishEvery, Retain, MaxLag, Horizon, MaxInputs} \subseteq Nat
  /\ CaptureDelay < Retain

\* What the models may be asked, once they are ready: they answer with numbers,
\* and so does the latency risk.
Questions ==
  {x \in [reference : SourcePrices[MarketInfo.source],
          beat      : SourcePrices[MarketInfo.source] \cup {m.open : m \in ScanResults},
          seconds   : 1..MarketInfo.close,
          stats     : {ModelStats(stats) : stats \in AssetStats},
          imbalance : {PairedImbalance(e) : e \in Events}] : ModelReady(x)}
ASSUME ModelAssumption ==
  /\ \A x \in Questions : DirectionalUp(x) \in Int /\ LotteryUp(x) \in Int
  /\ \A e \in Events, o \in Outcomes, stats \in AssetStats, age \in 0..Horizon :
       ModelStats(stats).volatility # None =>
         LatencyRisk(e.book[o].fill, ModelStats(stats).volatility, age) \in Int

VARIABLES
  now,             \* the wall clock
  market,          \* data/live_markets.json
  venue,           \* data/venue-status.json
  feed,            \* the settlement prices received: [stamp, at, price]
  anchor,          \* the market's entry in the evaluator's opening_prices, or None
  log,             \* the scored predictions in the execution log
  map,             \* data/probability-calibration-map.json, or None
  cohort,          \* the configuration the processes run with
  audit,           \* what the last poll wrote: per event its rows and hedges
  inputs           \* how many inputs were made

files == <<market, venue, feed, anchor, log, map, cohort>>
vars  == <<now, files, audit, inputs>>
----------------------------------------------------------------------------
(* The price to beat.                                                      *)

Settlement == MarketInfo.source
Retained   == SubSeq(feed, Greatest(1, Len(feed) - Retain + 1), Len(feed))

\* The retained settlement prices stamped at the opening.
Eligible == {q \in Range(Retained) : /\ MarketInfo.start <= q.stamp
                                      /\ q.stamp <= MarketInfo.start + CaptureDelay}

\* Mutant: the last price of the window opens the market.
LatestEligible == CHOOSE q \in Eligible : \A o \in Eligible : o.stamp <= q.stamp
Opening == CHOOSE q \in Eligible : \A o \in Eligible : q.stamp <= o.stamp

Anchor(price, source, stamp, mode) ==
  [price |-> price, source |-> source, stamp |-> stamp, at |-> now, mode |-> mode]

\* Mutant: the anchor is captured again by every poll.
CaptureAgain ==
  CASE ~market.listed -> None
    [] market.listed /\ market.open # None ->
         Anchor(market.open, "gamma", MarketInfo.start, "gamma")
    [] OTHER -> IF now < MarketInfo.start \/ Eligible = {} THEN None
                ELSE Anchor(Opening.price, Settlement, Opening.stamp, "restart_backfill")
\* A market that is not in the file loses its anchor; the metadata's price
\* replaces it, and otherwise the anchor, once captured, is kept.
CapturedAnchor ==
  CASE ~market.listed -> None
    [] market.listed /\ market.open # None ->
         Anchor(market.open, "gamma", MarketInfo.start, "gamma")
    [] OTHER ->
         IF ~SourceInfo[Settlement].supported THEN None
         ELSE IF anchor # None THEN anchor
         ELSE IF now < MarketInfo.start \/ Eligible = {} THEN None
         ELSE Anchor(Opening.price, Settlement, Opening.stamp,
                     IF now <= MarketInfo.start + CaptureDelay
                     THEN "live_boundary" ELSE "restart_backfill")
----------------------------------------------------------------------------
Init ==
  /\ now = 0
  /\ market \in InitialScans
  /\ \E stats \in AssetStats, heard \in InitiallyHeard :
       venue = [updated |-> 0, stats |-> stats,
                sources |-> [s \in Sources |->
                  IF s \in heard
                  THEN [price |-> Min(SourcePrices[s]), at |-> 0, status |-> "FRESH"]
                  ELSE [price |-> None, at |-> None, status |-> "NOT_RECEIVED"]]]
  /\ feed = <<>> /\ anchor = None /\ map = None /\ cohort = 1
  /\ log \in InitialLogs
  /\ audit = {} /\ inputs = 0

InputMade == inputs < MaxInputs /\ inputs' = inputs + 1 /\ audit' = {}

Tick ==
  /\ now < Horizon /\ now' = now + 1 /\ audit' = {}
  /\ UNCHANGED <<files, inputs>>

\* The scanner replaces the market file.
Scan == \E m \in ScanResults :
  /\ InputMade /\ m # market /\ market' = m
  /\ UNCHANGED <<now, venue, feed, anchor, log, map, cohort>>

\* A source's message reaches the engine, which rewrites its status file; a
\* settlement price carries the time it was made and comes at most once a tick.
Receive(s) == \E price \in SourcePrices[s], lag \in 0..Least(MaxLag, now) :
  /\ InputMade
  /\ venue' = [venue EXCEPT !.updated = now,
                            !.sources[s] = [price |-> price, at |-> now, status |-> "FRESH"]]
  /\ IF s = Settlement
     THEN /\ \A q \in Range(feed) : q.at < now
          /\ feed' = Append(feed, [stamp |-> now - lag, at |-> now, price |-> price])
     ELSE lag = 0 /\ UNCHANGED feed
  /\ UNCHANGED <<now, market, anchor, log, map, cohort>>

\* A connection ends; the file keeps the last price.
Disconnect(s) ==
  /\ venue.sources[s].status = "FRESH" /\ InputMade
  /\ venue' = [venue EXCEPT !.updated = now, !.sources[s].status = "DISCONNECTED"]
  /\ UNCHANGED <<now, market, feed, anchor, log, map, cohort>>

\* A predicted market settles, perhaps one of an earlier configuration.
Score == \E k \in Predictions :
  /\ InputMade /\ k.cohort <= cohort
  /\ log' = [log EXCEPT ![k] = @ + 1]
  /\ UNCHANGED <<now, market, venue, feed, anchor, map, cohort>>

Publish ==
  /\ (map # None => now - map.at >= PublishEvery)
  /\ map' = BuildMap(log, cohort, now) /\ audit' = {}
  /\ UNCHANGED <<now, market, venue, feed, anchor, log, cohort, inputs>>

\* The processes are restarted with another configuration; the files stay.
Redeploy ==
  /\ cohort = 1 /\ cohort' = 2 /\ InputMade
  /\ UNCHANGED <<now, market, venue, feed, anchor, log, map>>

Context(opening) ==
  [now |-> now, market |-> market, venue |-> venue, anchor |-> opening, map |-> map,
   cohort |-> cohort, captureDelay |-> CaptureDelay]

\* process_once: the opening prices first, then the pending events, which are
\* skipped while their market is not in the file.
Poll ==
  /\ anchor' = CapturedAnchor
  /\ audit' = LET c == Context(anchor')
                  answer(e) == LET rows == EventRows(e, c)
                               IN  [rows |-> rows, hedges |-> TerminalHedge(rows, e)]
              IN  IF market.listed THEN {answer(e) : e \in Events} ELSE {}
  /\ UNCHANGED <<now, market, venue, feed, log, map, cohort, inputs>>

Next == \/ Tick \/ Scan \/ Score \/ Publish \/ Redeploy \/ Poll
        \/ \E s \in Sources : Receive(s) \/ Disconnect(s)

Spec == Init /\ [][Next]_vars
----------------------------------------------------------------------------
(* Properties.                                                             *)

Rows           == UNION {a.rows : a \in audit}
Accepted(a)    == {r \in a.rows : r.result.decision = "ACCEPT"}
AcceptedHedges == {h \in UNION {a.hedges : a \in audit} : h.decision = "ACCEPT"}
\* Every row a shadow position may be opened from.
ActedOn == (UNION {Accepted(a) : a \in audit})
             \cup (UNION {{h.main, h.hedge} : h \in AcceptedHedges})

\* Probabilities stay inside (0, 1), a calibrated row names its scope, every
\* rejected row names its reason, and the anchor has one of the three modes.
TypeOK ==
  /\ now \in 0..Horizon /\ inputs \in 0..MaxInputs /\ cohort \in {1, 2}
  /\ market \in ScanResults
  /\ \A s \in Sources : venue.sources[s].status \in SourceStatuses
  /\ anchor = None \/ anchor.mode \in {"gamma", "live_boundary", "restart_backfill"}
  /\ \A r \in Rows :
       /\ r.input.probability \in 1..999 \cup {None}
       /\ r.calibration.scope \in {"none", "raw", "timeframe", "strategy"}
       /\ (r.result.decision = "REJECT") <=> (r.result.reason \in r.result.blocking)

\* A row that is acted on was vouched for: the log really has enough settled
\* predictions of its strategy and bucket, made with the configuration that
\* runs now, and the map that says so is recent (calibrate_probability and the
\* override in evaluate_market_event, against build_calibration_map).
AcceptIsVouched ==
  \A r \in ActedOn :
    /\ map # None /\ now - map.at <= Config.mapMaxAge
    /\ Samples(log, {k \in Predictions : /\ k.strategy = r.strategy /\ k.cohort = cohort
                                         /\ Bucket(k.probability) = Bucket(r.calibration.input)})
         >= Config.minSamples

\* A source's message was received within its limit and it is still connected.
Heard(s) == /\ venue.sources[s].status = "FRESH"
            /\ now - venue.sources[s].at <= SourceInfo[s].limit

\* Every row names live evidence: the sources it lists as valid were received
\* within their limits and are connected, however old the status file is, and
\* those of a row that is acted on bear its decision out by themselves: the
\* settlement source and two spot sources, one in USD, that do not diverge
\* (reference_state_for_asset, aggregate_reference, _reference_source_statuses,
\* decision_audit).
RowNamesItsEvidence ==
  /\ \A r \in Rows : \A s \in ValidSources(r.input.reference.roles) : Heard(s)
  /\ \A r \in ActedOn :
       LET valid == ValidSources(r.input.reference.roles)
           spot  == {s \in valid : SourceInfo[s].spot}
       IN  /\ Settlement \in valid
           /\ Cardinality(spot) >= 2 /\ \E s \in spot : SourceInfo[s].usd
           /\ ~Diverges(venue, spot)

\* The anchor is a price the settlement source made while the market opened,
\* and one captured at the boundary is the first of those received by then
\* (capture_opening_prices).
AnchorIsOpening ==
  anchor # None /\ anchor.mode # "gamma" =>
    \E q \in Range(feed) :
      /\ q.price = anchor.price /\ q.stamp = anchor.stamp
      /\ q.stamp \in MarketInfo.start..(MarketInfo.start + CaptureDelay)
      /\ anchor.mode = "live_boundary" =>
           ~\E o \in Range(feed) : /\ o.at < anchor.at /\ o.stamp < q.stamp
                                   /\ o.stamp >= MarketInfo.start

\* The price to beat of a listed market does not move under its positions: only
\* the metadata's own price replaces a captured anchor (capture_opening_prices).
AnchorStands ==
  [][anchor # None /\ anchor' # None /\ anchor'.mode # "gamma" => anchor' = anchor]_vars

\* A share's price, fee and slippage and the two risks its strategy provides for.
PaidPerShare(r) ==
  LET risks == IF r.strategy = Directional THEN r.input.latency + Config.settlementBuffer
               ELSE Config.modelBuffer + Config.executionBuffer
  IN  r.input.fill + r.input.fee + r.input.slippage + risks

\* If both outcomes of one event are worth buying, together they cost less than
\* the dollar one of them pays, by both minimum edges: one probability and its
\* complement price the two sides (evaluate_market_event, evaluate_directional).
BothSidesIsArbitrage ==
  \A a \in audit : \A u, d \in Accepted(a) :
    u.strategy = Directional /\ d.strategy = Directional /\ u.outcome # d.outcome =>
      PaidPerShare(u) + PaidPerShare(d) <= 1000 - 2 * Config.minNetEv

\* An accepted hedge pays what it promises at either settlement, paid for in
\* full: a profit if the main outcome wins, and otherwise a loss of at most the
\* limit (_terminal_hedge_audit).
HedgeBoundsLoss ==
  \A h \in AcceptedHedges :
    LET cost == h.scale * h.size * PaidPerShare(h.main) + h.units * PaidPerShare(h.hedge)
    IN  /\ h.main.outcome # h.hedge.outcome
        /\ 1000 * h.size * h.scale > cost
        /\ 1000 * h.units - cost >= -Config.maxReversalLoss * h.scale

\* The verifier agrees with every row the evaluator writes: no parity mismatch.
VerifierAgrees == \A r \in Rows : Mismatches(r) = {}
===============================================================================
