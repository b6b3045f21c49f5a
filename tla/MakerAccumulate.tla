--------------------------- MODULE MakerAccumulate ---------------------------
(***************************************************************************)
(* The maker_paired_accumulate episode state machine of                    *)
(* poly_arb_bot/maker_accumulate.py (MakerAccumulateStateMachine).         *)
(*                                                                         *)
(* The machine consumes one row (a market evaluation) at a time.  A row    *)
(* either is dropped as a late message, or opens an episode for its        *)
(* condition, or drives the condition's active episode one evaluation      *)
(* further.  One action of this module is one call of evaluate(row).       *)
(*                                                                         *)
(* Prices are integers in units of half a tick, sizes are whole shares and *)
(* time is an integer clock.  An averaged price is kept as price times     *)
(* size wherever several prices can be mixed.                              *)
(***************************************************************************)
EXTENDS Integers, FiniteSetsExt

CONSTANTS
  Conditions,      \* condition ids; each is one market window
  Bindings,        \* pairs <<generation, session>> the feed may report
  BookPairs,       \* the pairs of books, one per outcome, a row may carry
  CloseTime,       \* per condition, the time at which its market closes
  Horizon,         \* bound on the clock
  DayLength        \* length of a trading day (86400 s in the code)

CONSTANTS          \* MakerAccumulateConfig: prices and margins, per share
  Payout, MinTick, BufferPerShare, GasPerShare,
  MinExpectedLockedMargin, MinHedgeExitMargin, MinRealizedMargin,
  MaxSpreadToJoin, Leg1MaxImproveCost, MaxOrphanGiveback,
  FeeNum, FeeDen   \* taker fee rate as a fraction of price units

CONSTANTS          \* MakerAccumulateConfig: sizes, counts and limits
  FillMode, MinOrderSize, MaxOrderSize, MinFillNum, MinFillDen,
  MaxNotionalPerMarket, MaxTotalExposure, MaxAtRiskExposure,
  MaxOrphanLoss, MaxDailyLoss, MaxConsecutiveOrphans,
  MaxEpisodesPerMarketWindow, MaxLeg1Requotes,
  Leg2MaxImproves, Leg2ImproveStepTicks

CONSTANTS          \* MakerAccumulateConfig: durations
  Leg1Timeout, Leg2ImproveInterval, Leg2Timeout, MaxOrphanSeconds,
  DirectionalExitTimeout, ForceFlatten, WindowMin, WindowMax,
  CircuitCooldown

VARIABLES
  now,             \* row.timestamp of the rows evaluated at this instant
  ep,              \* per condition, its active episode or IdleEpisode
  lastBinding,     \* _last_binding
  seenBindings,    \* _seen_bindings
  opened,          \* _episodes_per_market
  consecutive,     \* consecutive_orphans
  circuitUntil,    \* circuit_open_until
  lossOn,          \* per day, the losses of the records in completed
  result           \* what the last step returned: the MakerDecision and the
                   \* record it appended to completed, if any

risk == <<consecutive, circuitUntil, lossOn>>
feed == <<lastBinding, seenBindings>>
vars == <<now, ep, lastBinding, seenBindings, opened, consecutive,
          circuitUntil, lossOn, result>>

-----------------------------------------------------------------------------
(* Domains.                                                                *)

Outcomes == {"Up", "Down"}
Opposite(o) == IF o = "Up" THEN "Down" ELSE "Up"

\* One side of the market as the machine reads it (MakerBookSide).  The bid
\* is the bridge's derived bid, so it may stand at or above the ask.  A side
\* without an ask makes the row "stale" below.
Book == [bid : 0 .. Payout, ask : MinTick .. Payout, askSize : Nat]

\* What the rest of a row says.  "closed": the market is not active;
\* "stale": a book is missing or too old; "gated": the books can be
\* evaluated but another opening gate (clock or book skew, fee schedule,
\* tradability, depth, queue, extremity) rejects; "open": nothing does.
RowStatus == {"open", "gated", "stale", "closed"}
Row == [cond : Conditions, binding : Bindings, book : BookPairs,
        status : RowStatus]

Unset == -1
NoBinding == <<0, 0>>

EpisodeStates == {"IDLE", "LEG1_WORKING", "LEG1_FILLED", "LEG2_WORKING",
                  "HEDGING_DIRECTIONAL_EXIT"}
TerminalStates == {"COMPLETE", "LEG1_CANCELLED", "CLOSED_WITH_LOSS"}
ExitPaths == {"none", "maker_complete", "taker_hedge", "directional_exit",
              "emergency_flatten"}

\* terminal_reason: why an episode ended, or why it gave up its second leg.
Reasons == {"none", "leg1_requote_limit_exceeded", "leg1_timeout",
            "leg1_no_improve_room", "expected_margin_below_threshold",
            "market_expired_mid_episode", "emergency_flatten_window",
            "books_lost_mid_episode", "orphan_loss_limit_exceeded",
            "orphan_seconds_exceeded", "leg2_timeout",
            "leg2_improves_exhausted", "leg2_max_price_below_bid",
            "pair_completed", "directional_exit_timeout"}

\* MakerEpisode with its default values: no episode is active.
IdleEpisode ==
  [state |-> "IDLE", binding |-> NoBinding, side |-> "Up",
   quote1 |-> 0, size1 |-> 0, placed |-> 0, filled1 |-> 0, avg1 |-> 0,
   fillTs |-> Unset, requotes |-> 0, pending |-> FALSE, forced |-> FALSE,
   max2 |-> Unset, quote2 |-> Unset, filled2 |-> 0, cost2 |-> 0,
   start2 |-> Unset, improved2 |-> Unset, attempt2 |-> 0,
   exitQuote |-> Unset, exitStart |-> Unset, reason |-> "none"]

\* _books_evaluable
Evaluable(r) == r.status \in {"open", "gated"}
Books(r) == IF Evaluable(r) THEN "fresh" ELSE "unusable"

\* The decision returned for a row, and no terminal record.
Answer(r, decision) ==
  [decision |-> decision, cond |-> r.cond,
   books |-> Books(r), terminal |-> "none", path |-> "none",
   reason |-> "none", pnl |-> 0, avg1 |-> 0,
   filled1 |-> 0, filled2 |-> 0]

\* The step was the clock's: no row was evaluated.
NoResult == [decision |-> "NONE", terminal |-> "none"]

Days == 0 .. Horizon \div DayLength

ASSUME FeedAssumption ==
  /\ Bindings \subseteq (Nat \ {0}) \X (Nat \ {0})
  /\ BookPairs \subseteq [Outcomes -> Book]
  /\ CloseTime \in [Conditions -> Nat]
  /\ Horizon \in Nat
  /\ DayLength \in Nat \ {0}

ASSUME PriceAssumption ==
  /\ Payout \in Nat /\ MinTick \in Nat \ {0} /\ BufferPerShare \in Nat
  /\ GasPerShare \in Nat
  /\ MinExpectedLockedMargin \in Int /\ MinHedgeExitMargin \in Int
  /\ MinRealizedMargin \in Int
  /\ MaxSpreadToJoin \in Nat /\ Leg1MaxImproveCost \in Nat
  /\ MaxOrphanGiveback \in Nat
  /\ FeeNum \in Nat /\ FeeDen \in Nat \ {0}

ASSUME LimitAssumption ==
  /\ FillMode \in {"strict", "queue"}
  /\ MinOrderSize \in Nat \ {0} /\ MaxOrderSize \in Nat
  /\ MinFillNum \in Nat /\ MinFillDen \in Nat \ {0}
  /\ MaxNotionalPerMarket \in Nat
  /\ MaxTotalExposure \in Nat /\ MaxAtRiskExposure \in Nat
  /\ MaxOrphanLoss \in Nat /\ MaxDailyLoss \in Nat
  /\ MaxConsecutiveOrphans \in Nat \ {0}
  /\ MaxEpisodesPerMarketWindow \in Nat /\ MaxLeg1Requotes \in Nat
  /\ Leg2MaxImproves \in Nat /\ Leg2ImproveStepTicks \in Nat

\* The last conjunct is the check of MakerAccumulateConfig.__post_init__.
ASSUME DurationAssumption ==
  /\ Leg1Timeout \in Nat /\ Leg2ImproveInterval \in Nat
  /\ Leg2Timeout \in Nat /\ MaxOrphanSeconds \in Nat
  /\ DirectionalExitTimeout \in Nat /\ ForceFlatten \in Nat
  /\ WindowMin \in Nat /\ WindowMax \in Nat /\ CircuitCooldown \in Nat
  /\ ForceFlatten > MaxOrphanSeconds + Leg2Timeout

-----------------------------------------------------------------------------
(* Pure helpers of the module under src/.                                  *)

Min2(a, b) == IF a <= b THEN a ELSE b
Max2(a, b) == IF a >= b THEN a ELSE b

\* taker_fee_total, rounded half up.
TakerFee(price, size) ==
  (2 * FeeNum * size * price * (Payout - price) + FeeDen) \div (2 * FeeDen)

\* The size-weighted average after buying k more shares at q.
WeightedAverage(p, n, q, k) == (p * n + q * k) \div (n + k)

\* leg1_quote: join a tight spread, else improve by a tick if there is room.
CanJoin(b) == b.ask - b.bid <= MaxSpreadToJoin
CanImprove(b) ==
  b.bid + MinTick <= b.ask - MinTick /\ MinTick <= Leg1MaxImproveCost
HasLeg1Quote(b) == CanJoin(b) \/ CanImprove(b)
Leg1Quote(b) == IF CanJoin(b) THEN b.bid ELSE b.bid + MinTick

\* leg2_max_price: the dynamic cap that keeps the pair from locking a loss.
Leg2MaxPrice(avg1) == Payout - avg1 - BufferPerShare - MinRealizedMargin

\* Mutant: the second leg's cap is forgotten.
UncappedLeg2Quote(b, ticks, cap) ==
  Min2(b.bid + ticks * MinTick, b.ask - MinTick)

\* The second leg's quote: follow the bid, stay below the ask and the cap.
Leg2Quote(b, ticks, cap) ==
  Min2(Min2(b.bid + ticks * MinTick, b.ask - MinTick), cap)

\* _buy_fill and _sell_fill.
BuyFills(quote, ask) == IF FillMode = "strict" THEN ask < quote ELSE ask <= quote
SellFills(quote, bid) == IF FillMode = "strict" THEN bid > quote ELSE bid >= quote

ExpectedMargin(quote, other) == Payout - (quote + other.bid + BufferPerShare)

\* The hedge margin of a pair that is only planned: the fee per share is not
\* rounded.
PlannedHedgeClears(quote, ask) ==
  FeeDen * (Payout - quote - ask - BufferPerShare - MinHedgeExitMargin)
    >= FeeNum * ask * (Payout - ask)

\* Mutant: the fee and the buffer are forgotten.
GrossHedgeClears(price1, ask, size) ==
  size * (Payout - price1 - ask) >= size * MinHedgeExitMargin

\* Whether buying size shares of the other leg at its ask, fee included,
\* keeps the margin per share at or above MinHedgeExitMargin.
HedgeClears(price1, ask, size) ==
  size * (Payout - price1 - ask - BufferPerShare) - TakerFee(ask, size)
    >= size * MinHedgeExitMargin

-----------------------------------------------------------------------------
(* Views of the state and of a row.                                        *)

Own(e, r) == r.book[e.side]
Other(e, r) == r.book[Opposite(e.side)]
Orphan(e) == e.filled1 - e.filled2

Expired(r) == now >= CloseTime[r.cond] \/ r.status = "closed"

\* Mutants: the window is entered an instant late, or only on fresh books.
InFlattenWindowLate(r) ==
  now < CloseTime[r.cond] /\ CloseTime[r.cond] - now < ForceFlatten
InFlattenWindowFresh(r) ==
  now < CloseTime[r.cond] /\ CloseTime[r.cond] - now <= ForceFlatten /\ Evaluable(r)

InFlattenWindow(r) ==
  now < CloseTime[r.cond] /\ CloseTime[r.cond] - now <= ForceFlatten

\* Mutant: the generation is not compared.
BindingIsStaleBySession(b, last, seen) ==
  b \in seen \/ (last # NoBinding /\ b[2] < last[2])

\* _binding_is_stale, asked only of a binding other than the last one: a
\* binding seen before is stale; otherwise the generation is compared first
\* and the session only within one generation.
BindingIsStale(b, last, seen) ==
  \/ b \in seen
  \/ /\ last # NoBinding
     /\ \/ b[1] < last[1]
        \/ b[1] = last[1] /\ b[2] < last[2]

Late(r) ==
  /\ r.binding # lastBinding[r.cond]
  /\ BindingIsStale(r.binding, lastBinding[r.cond], seenBindings[r.cond])

BindingChanged(r) ==
  lastBinding[r.cond] # NoBinding /\ r.binding # lastBinding[r.cond]

\* Mutants: a filled leg is not forced out; an unfilled one is not re-quoted.
RebindUnforced(e, b) ==
  IF e.state = "LEG1_WORKING"
  THEN IF e.filled1 > 0
       THEN [e EXCEPT !.binding = b, !.state = "LEG1_FILLED"]
       ELSE [e EXCEPT !.binding = b, !.requotes = @ + 1, !.pending = TRUE]
  ELSE [e EXCEPT !.forced = TRUE, !.binding = b]
RebindNoRequote(e, b) ==
  IF e.state = "LEG1_WORKING"
  THEN IF e.filled1 > 0
       THEN [e EXCEPT !.forced = TRUE, !.binding = b, !.state = "LEG1_FILLED"]
       ELSE [e EXCEPT !.binding = b, !.requotes = @ + 1]
  ELSE [e EXCEPT !.forced = TRUE, !.binding = b]

\* What a change of generation or session does to the active episode before
\* it is evaluated: an unfilled first leg is to be quoted again, a filled
\* one is forced to exit.
Rebind(e, b) ==
  IF e.state = "LEG1_WORKING"
  THEN IF e.filled1 > 0
       THEN [e EXCEPT !.forced = TRUE, !.binding = b, !.state = "LEG1_FILLED"]
       ELSE [e EXCEPT !.binding = b, !.requotes = @ + 1, !.pending = TRUE]
  ELSE [e EXCEPT !.forced = TRUE, !.binding = b]

Rebinds(r) ==
  /\ ep[r.cond].state # "IDLE"
  /\ BindingChanged(r)
  /\ r.binding # ep[r.cond].binding

\* The episode that the row's handler works on.
Current(r) ==
  IF Rebinds(r) THEN Rebind(ep[r.cond], r.binding) ELSE ep[r.cond]

\* The requote budget is spent: the working first leg is cancelled.
RequoteLimitHit(r) ==
  /\ Rebinds(r)
  /\ ep[r.cond].state = "LEG1_WORKING"
  /\ ep[r.cond].filled1 = 0
  /\ ep[r.cond].requotes >= MaxLeg1Requotes

NoteBinding(r) ==
  /\ lastBinding' = [lastBinding EXCEPT ![r.cond] = r.binding]
  /\ seenBindings' = [seenBindings EXCEPT ![r.cond] = @ \union {r.binding}]

-----------------------------------------------------------------------------
(* _portfolio_view and the opening evaluation.                             *)

Exposure(e) ==
  e.filled1 * e.avg1 + e.cost2
    + (IF e.state = "LEG1_WORKING" THEN (e.size1 - e.filled1) * e.quote1 ELSE 0)
AtRisk(e) == Orphan(e) * e.avg1

TotalExposure == MapThenSumSet(LAMBDA c : Exposure(ep[c]), Conditions)
AtRiskExposure == MapThenSumSet(LAMBDA c : AtRisk(ep[c]), Conditions)

Today == now \div DayLength
CircuitElapsed == circuitUntil # Unset /\ now >= circuitUntil
\* Mutant: one loss too many is let through.
CircuitOpenByCount == consecutive > MaxConsecutiveOrphans
CircuitOpen == circuitUntil # Unset /\ now < circuitUntil

\* Mutant: the count of losses survives the cooldown.
ViewPortfolioNoReset ==
  /\ circuitUntil' = IF CircuitElapsed THEN Unset ELSE circuitUntil
  /\ UNCHANGED <<consecutive, lossOn>>

\* Asking for the portfolio view ends a cooldown that has elapsed.
ViewPortfolio ==
  /\ circuitUntil' = IF CircuitElapsed THEN Unset ELSE circuitUntil
  /\ consecutive' = IF CircuitElapsed THEN 0 ELSE consecutive
  /\ UNCHANGED lossOn

OrderSize(quote) ==
  IF MaxNotionalPerMarket > 0
  THEN Min2(MaxOrderSize, MaxNotionalPerMarket \div Max2(quote, MinTick))
  ELSE MaxOrderSize

InWindow(r) ==
  LET left == CloseTime[r.cond] - now
  IN  WindowMin <= left /\ left <= WindowMax /\ left > ForceFlatten

\* evaluate_maker_accumulate returns ACCEPT with first leg o.
Accepts(r, o) ==
  LET own   == r.book[o]
      other == r.book[Opposite(o)]
      quote == Leg1Quote(own)
      size  == OrderSize(quote)
  IN  /\ r.status = "open"
      /\ now < CloseTime[r.cond] /\ InWindow(r)
      /\ ~ CircuitOpen
      /\ lossOn[Today] < MaxDailyLoss
      /\ opened[r.cond] < MaxEpisodesPerMarketWindow
      /\ HasLeg1Quote(own)
      /\ size >= MinOrderSize
      /\ ExpectedMargin(quote, other) >= MinExpectedLockedMargin
      /\ PlannedHedgeClears(quote, other.ask)
      /\ size * MaxOrphanGiveback <= MaxOrphanLoss
      /\ TotalExposure + size * quote <= MaxTotalExposure
      /\ Max2(0, AtRiskExposure) + size * quote <= MaxAtRiskExposure

-----------------------------------------------------------------------------
(* Ends of a handler: the episode goes on, or it is finalized.             *)

Keep(r, e) ==
  /\ ep' = [ep EXCEPT ![r.cond] = e]
  /\ result' = Answer(r, "WORKING")
  /\ UNCHANGED risk

\* What a record with this profit adds to the day's loss, what a terminal
\* state does to the count of losses in a row, and when it trips the circuit.
NetLoss(pnl) == -pnl    \* Mutant: a gain pays for a loss.
Loss(pnl) == Max2(0, -pnl)
ConsecutiveAfter(terminal) ==
  CASE terminal = "CLOSED_WITH_LOSS" -> consecutive + 1
    [] terminal = "COMPLETE"         -> 0
    [] OTHER                         -> consecutive
\* Mutant: a completed pair closes the circuit.
CircuitAfterWin(terminal, losses) ==
  CASE terminal = "CLOSED_WITH_LOSS" /\ losses >= MaxConsecutiveOrphans
         -> now + CircuitCooldown
    [] terminal = "COMPLETE" -> Unset
    [] OTHER -> circuitUntil
CircuitAfter(terminal, losses) ==
  IF terminal = "CLOSED_WITH_LOSS" /\ losses >= MaxConsecutiveOrphans
  THEN now + CircuitCooldown
  ELSE circuitUntil

\* _finalize
Finalize(r, e, terminal, path, reason, pnl) ==
  /\ ep' = [ep EXCEPT ![r.cond] = IdleEpisode]
  /\ result' = [decision |-> "COMPLETE", cond |-> r.cond, books |-> Books(r),
                terminal |-> terminal, path |-> path, reason |-> reason,
                pnl |-> pnl, avg1 |-> e.avg1,
                filled1 |-> e.filled1, filled2 |-> e.filled2]
  /\ lossOn' = [lossOn EXCEPT ![Today] = @ + Loss(pnl)]
  /\ consecutive' = ConsecutiveAfter(terminal)
  /\ circuitUntil' = CircuitAfter(terminal, ConsecutiveAfter(terminal))

\* _cancel_leg1
CancelLeg1(r, e, reason) ==
  Finalize(r, e, "LEG1_CANCELLED", "none", reason, 0)

\* _complete_maker
CompleteMaker(r, e, path, reason, fee) ==
  LET size == Min2(e.filled1, e.filled2)
  IN  Finalize(r, e, "COMPLETE", path, reason,
               size * (Payout - e.avg1) - e.cost2 - fee - 2 * GasPerShare * size)

\* _close_with_loss
CloseWithLoss(r, e, path, reason, price, fee) ==
  Finalize(r, e, "CLOSED_WITH_LOSS", path, reason,
           e.filled2 * (Payout - e.avg1) - e.cost2
             + Orphan(e) * (price - e.avg1) - fee
             - (e.filled1 + e.filled2) * GasPerShare)

\* _flatten_taker: sell the naked leg into the bid.
FlattenTaker(r, e, reason, path) ==
  CloseWithLoss(r, e, path, reason, Own(e, r).bid,
                TakerFee(Own(e, r).bid, Orphan(e)))

\* _emergency_flatten
EmergencyFlatten(r, e, reason) ==
  FlattenTaker(r, e, reason, "emergency_flatten")

\* _abandon_leg2: hedge with a taker order if that keeps the exit margin,
\* else offer the naked leg for sale.
TakerHedge(r, e, reason) ==
  LET ask == Other(e, r).ask
  IN  CompleteMaker(r, [e EXCEPT !.filled2 = e.filled1,
                                 !.cost2 = @ + ask * Orphan(e)],
                    "taker_hedge", reason, TakerFee(ask, Orphan(e)))

ExitQuoteAtBid(avg1, bid) == bid + MinTick    \* Mutant: there is no floor.
ExitQuote(avg1, bid) == Max2(avg1 - MaxOrphanGiveback, bid + MinTick)

OpenDirectionalExit(r, e, reason) ==
  Keep(r, [e EXCEPT !.state = "HEDGING_DIRECTIONAL_EXIT",
                    !.exitQuote = ExitQuote(e.avg1, Own(e, r).bid),
                    !.exitStart = now, !.reason = reason])

AbandonLeg2(r, e, reason) ==
  IF Orphan(e) > 0 /\ HedgeClears(e.avg1, Other(e, r).ask, Orphan(e))
  THEN TakerHedge(r, e, reason)
  ELSE OpenDirectionalExit(r, e, reason)

-----------------------------------------------------------------------------
(* The second leg.                                                         *)

\* _open_leg2
OpenLeg2(r, e) ==
  LET cap == Leg2MaxPrice(e.avg1)
      e2  == [e EXCEPT !.state = "LEG2_WORKING", !.max2 = cap, !.start2 = now,
                       !.improved2 = now, !.attempt2 = 0]
  IN  IF cap <= Other(e, r).bid
      THEN AbandonLeg2(r, e2, "leg2_max_price_below_bid")
      ELSE Keep(r, [e2 EXCEPT !.quote2 = Leg2Quote(Other(e, r), 1, cap)])

\* The improve loop of _leg2_working.
ImproveLeg2(r, e) ==
  LET cap == Leg2MaxPrice(e.avg1)
      e2  == [e EXCEPT !.attempt2 = @ + 1, !.improved2 = now]
      e3  == [e2 EXCEPT !.max2 = cap]
  IN  \/ /\ e2.attempt2 > Leg2MaxImproves
         /\ AbandonLeg2(r, e2, "leg2_improves_exhausted")
      \/ /\ e2.attempt2 <= Leg2MaxImproves
         /\ cap <= Other(e, r).bid
         /\ AbandonLeg2(r, e3, "leg2_max_price_below_bid")
      \/ /\ e2.attempt2 <= Leg2MaxImproves
         /\ cap > Other(e, r).bid
         /\ Keep(r, [e3 EXCEPT !.quote2 =
                Max2(@, Leg2Quote(Other(e, r), Leg2ImproveStepTicks, cap))])

\* The fill check of _leg2_working.
FillLeg2(e, r) ==
  LET size == IF BuyFills(e.quote2, Other(e, r).ask)
              THEN Min2(Orphan(e), Other(e, r).askSize)
              ELSE 0
  IN  [e EXCEPT !.filled2 = @ + size, !.cost2 = @ + e.quote2 * size]

OrphanLoss(e, r) == Orphan(e) * Max2(0, e.avg1 - Own(e, r).bid)
\* Mutant: the second leg's own timeout is forgotten.
OrphanTooOldOnly(e) == now - e.fillTs > MaxOrphanSeconds
OrphanTooOld(e) ==
  now - e.fillTs > MaxOrphanSeconds \/ now - e.start2 > Leg2Timeout
WhyTooOld(e) ==
  IF now - e.fillTs > MaxOrphanSeconds THEN "orphan_seconds_exceeded" ELSE "leg2_timeout"

\* _leg2_working
Leg2Working(r, e) ==
  LET e2 == FillLeg2(e, r)
  IN  \/ /\ OrphanLoss(e, r) > MaxOrphanLoss
         /\ EmergencyFlatten(r, e, "orphan_loss_limit_exceeded")
      \/ /\ OrphanLoss(e, r) <= MaxOrphanLoss
         /\ OrphanTooOld(e)
         /\ AbandonLeg2(r, e, WhyTooOld(e))
      \/ /\ OrphanLoss(e, r) <= MaxOrphanLoss
         /\ ~ OrphanTooOld(e)
         /\ \/ /\ e2.filled2 > e.filled2 /\ e2.filled2 >= e.filled1
               /\ CompleteMaker(r, e2, "maker_complete", "pair_completed", 0)
            \/ /\ e2.filled2 = e.filled2 \/ e2.filled2 < e.filled1
               /\ \/ /\ now - e.improved2 < Leg2ImproveInterval
                     /\ Keep(r, e2)
                  \/ /\ now - e.improved2 >= Leg2ImproveInterval
                     /\ ImproveLeg2(r, e2)

-----------------------------------------------------------------------------
(* The first leg.                                                          *)

\* _requote_leg1: quote again on the new session's book.
RequoteLeg1(r, e) ==
  LET quote == Leg1Quote(Own(e, r))
  IN  \/ /\ ~ HasLeg1Quote(Own(e, r))
         /\ CancelLeg1(r, e, "leg1_no_improve_room")
      \/ /\ HasLeg1Quote(Own(e, r))
         /\ ExpectedMargin(quote, Other(e, r)) < MinExpectedLockedMargin
         /\ CancelLeg1(r, e, "expected_margin_below_threshold")
      \/ /\ HasLeg1Quote(Own(e, r))
         /\ ExpectedMargin(quote, Other(e, r)) >= MinExpectedLockedMargin
         /\ Keep(r, [e EXCEPT !.quote1 = quote, !.placed = now, !.pending = FALSE])

\* The fill of _leg1_working: too small a part of the order leaves the rest
\* working, otherwise the second leg is opened in the same evaluation.
Leg1FillSize(e, r) ==
  IF BuyFills(e.quote1, Own(e, r).ask)
  THEN Min2(e.size1 - e.filled1, Own(e, r).askSize)
  ELSE 0

FillLeg1(e, size) ==
  [e EXCEPT !.avg1 = WeightedAverage(@, e.filled1, e.quote1, size),
            !.filled1 = @ + size]

BelowMinFill(e) ==
  e.filled1 < e.size1 /\ e.filled1 * MinFillDen < MinFillNum * e.size1

TryFillLeg1(r, e) ==
  LET size == Leg1FillSize(e, r)
      e2   == FillLeg1(e, size)
  IN  \/ size <= 0 /\ Keep(r, e)
      \/ size > 0 /\ BelowMinFill(e2) /\ Keep(r, e2)
      \/ /\ size > 0 /\ ~ BelowMinFill(e2)
         /\ OpenLeg2(r, [e2 EXCEPT !.state = "LEG1_FILLED", !.fillTs = now])

\* _leg1_working
Leg1Working(r, e) ==
  \/ /\ now - e.placed > Leg1Timeout
     /\ CancelLeg1(r, e, "leg1_timeout")
  \/ /\ now - e.placed <= Leg1Timeout
     /\ \/ ~ Evaluable(r) /\ Keep(r, e)
        \/ Evaluable(r) /\ e.pending /\ RequoteLeg1(r, e)
        \/ /\ Evaluable(r) /\ ~ e.pending
           /\ ExpectedMargin(e.quote1, Other(e, r)) < MinExpectedLockedMargin
           /\ CancelLeg1(r, e, "expected_margin_below_threshold")
        \/ /\ Evaluable(r) /\ ~ e.pending
           /\ ExpectedMargin(e.quote1, Other(e, r)) >= MinExpectedLockedMargin
           /\ TryFillLeg1(r, e)

-----------------------------------------------------------------------------
(* _directional_exit                                                       *)

DirectionalExit(r, e) ==
  \/ /\ now - e.exitStart > DirectionalExitTimeout
     /\ FlattenTaker(r, e, "directional_exit_timeout", "directional_exit")
  \/ /\ now - e.exitStart <= DirectionalExitTimeout
     /\ SellFills(e.exitQuote, Own(e, r).bid)
     /\ CloseWithLoss(r, e, "directional_exit", e.reason, e.exitQuote, 0)
  \/ /\ now - e.exitStart <= DirectionalExitTimeout
     /\ ~ SellFills(e.exitQuote, Own(e, r).bid)
     /\ Keep(r, e)

-----------------------------------------------------------------------------
(* The actions: one evaluate(row) each, and the clock.                     *)

Init ==
  /\ now = 0
  /\ ep = [c \in Conditions |-> IdleEpisode]
  /\ lastBinding = [c \in Conditions |-> NoBinding]
  /\ seenBindings = [c \in Conditions |-> {}]
  /\ opened = [c \in Conditions |-> 0]
  /\ consecutive = 0
  /\ circuitUntil = Unset
  /\ lossOn = [d \in Days |-> 0]
  /\ result = NoResult

\* A row of an older generation or session changes nothing.
DropLateRow(r) ==
  /\ Late(r)
  /\ result' = Answer(r, "DROPPED")
  /\ UNCHANGED <<now, ep, feed, opened, risk>>

OpenEpisode(r, o) ==
  LET quote == Leg1Quote(r.book[o])
  IN  /\ ~ Late(r)
      /\ ep[r.cond].state = "IDLE"
      /\ Accepts(r, o)
      /\ ep' = [ep EXCEPT ![r.cond] =
                 [IdleEpisode EXCEPT !.state = "LEG1_WORKING",
                    !.binding = r.binding, !.side = o, !.quote1 = quote,
                    !.size1 = OrderSize(quote), !.placed = now]]
      /\ opened' = [opened EXCEPT ![r.cond] = @ + 1]
      /\ result' = Answer(r, "ACCEPT")
      /\ NoteBinding(r) /\ ViewPortfolio
      /\ UNCHANGED now

\* The row's selected first leg (any of the two) is rejected.
RejectOpen(r) ==
  /\ ~ Late(r)
  /\ ep[r.cond].state = "IDLE"
  /\ \E o \in Outcomes : ~ Accepts(r, o)
  /\ result' = Answer(r, "REJECT")
  /\ NoteBinding(r) /\ ViewPortfolio
  /\ UNCHANGED <<now, ep, opened>>

RequoteLimitExceeded(r) ==
  /\ ~ Late(r)
  /\ RequoteLimitHit(r)
  /\ CancelLeg1(r, ep[r.cond], "leg1_requote_limit_exceeded")
  /\ NoteBinding(r)
  /\ UNCHANGED <<now, opened>>

\* The row reaches _episode_path with the (rebound) episode in the state.
Evaluates(r, states) ==
  /\ ~ Late(r)
  /\ ~ RequoteLimitHit(r)
  /\ Current(r).state \in states
  /\ NoteBinding(r)
  /\ UNCHANGED <<now, opened>>

\* A working first leg is never forced out: the code's test of the forced
\* exit reason in this state is unreachable.
EvaluateLeg1(r) ==
  /\ Evaluates(r, {"LEG1_WORKING"})
  /\ LET e == Current(r)
     IN  \/ Expired(r) /\ CancelLeg1(r, e, "market_expired_mid_episode")
         \/ InFlattenWindow(r) /\ ~ Expired(r)
              /\ CancelLeg1(r, e, "emergency_flatten_window")
         \/ ~ Expired(r) /\ ~ InFlattenWindow(r) /\ Leg1Working(r, e)

EvaluateLeg2(r) ==
  /\ Evaluates(r, {"LEG1_FILLED", "LEG2_WORKING"})
  /\ LET e == Current(r)
     IN  \/ Expired(r)
              /\ EmergencyFlatten(r, e, "market_expired_mid_episode")
         \/ ~ Expired(r) /\ e.forced /\ Evaluable(r)
              /\ EmergencyFlatten(r, e, "books_lost_mid_episode")
         \/ ~ Expired(r) /\ ~ (e.forced /\ Evaluable(r)) /\ InFlattenWindow(r)
              /\ EmergencyFlatten(r, e, "emergency_flatten_window")
         \/ ~ Expired(r) /\ ~ InFlattenWindow(r) /\ ~ Evaluable(r)
              /\ Keep(r, e)
         \/ ~ Expired(r) /\ ~ InFlattenWindow(r) /\ ~ e.forced /\ Evaluable(r)
              /\ Leg2Working(r, e)

EvaluateDirectionalExit(r) ==
  /\ Evaluates(r, {"HEDGING_DIRECTIONAL_EXIT"})
  /\ LET e == Current(r)
     IN  \/ Expired(r)
              /\ EmergencyFlatten(r, e, "market_expired_mid_episode")
         \/ ~ Expired(r) /\ InFlattenWindow(r)
              /\ EmergencyFlatten(r, e, "emergency_flatten_window")
         \/ ~ Expired(r) /\ ~ InFlattenWindow(r) /\ e.forced /\ Evaluable(r)
              /\ EmergencyFlatten(r, e, "books_lost_mid_episode")
         \/ ~ Expired(r) /\ ~ InFlattenWindow(r) /\ ~ e.forced /\ Evaluable(r)
              /\ DirectionalExit(r, e)
         \/ ~ Expired(r) /\ ~ InFlattenWindow(r) /\ ~ Evaluable(r)
              /\ Keep(r, e)

Evaluate(r) ==
  \/ DropLateRow(r)
  \/ \E o \in Outcomes : OpenEpisode(r, o)
  \/ RejectOpen(r)
  \/ RequoteLimitExceeded(r)
  \/ EvaluateLeg1(r)
  \/ EvaluateLeg2(r)
  \/ EvaluateDirectionalExit(r)

Tick ==
  /\ now < Horizon
  /\ now' = now + 1
  /\ result' = NoResult
  /\ UNCHANGED <<ep, feed, opened, risk>>

Next == Tick \/ \E r \in Row : Evaluate(r)

Spec == Init /\ [][Next]_vars

-----------------------------------------------------------------------------
(* Type invariant.                                                         *)

Episode ==
  [state : EpisodeStates, binding : Bindings \union {NoBinding},
   side : Outcomes, quote1 : Int, size1 : Int, placed : Nat,
   filled1 : Nat, avg1 : Int, fillTs : Nat \union {Unset},
   requotes : Nat, pending : BOOLEAN, forced : BOOLEAN,
   max2 : Int, quote2 : Int, filled2 : Nat, cost2 : Int,
   start2 : Nat \union {Unset}, improved2 : Nat \union {Unset},
   attempt2 : Nat, exitQuote : Int, exitStart : Nat \union {Unset},
   reason : Reasons]

Decisions == {"DROPPED", "REJECT", "ACCEPT", "WORKING", "COMPLETE"}
Result ==
  [decision : Decisions, cond : Conditions, books : {"fresh", "unusable"},
   terminal : TerminalStates \union {"none"}, path : ExitPaths,
   reason : Reasons, pnl : Int, avg1 : Int, filled1 : Nat, filled2 : Nat]

\* Every variable of the state machine keeps its type.
TypeOK ==
  /\ now \in Nat
  /\ ep \in [Conditions -> Episode]
  /\ lastBinding \in [Conditions -> Bindings \union {NoBinding}]
  /\ seenBindings \in [Conditions -> SUBSET Bindings]
  /\ opened \in [Conditions -> Nat]
  /\ consecutive \in Nat
  /\ circuitUntil \in Nat \union {Unset}
  /\ lossOn \in [Days -> Nat]
  /\ result \in Result \union {NoResult}

-----------------------------------------------------------------------------
(* Safety.                                                                 *)

\* A leg that is held always has the data its next handler reads and exactly
\* one way out: a second leg is worked only with a quote and its timers set
\* and something left to buy, an exit is worked only with a sell quote and
\* something left to sell, and a first leg that stays filled without a
\* second-leg order is one that a lost session forces out.
HeldLegHasWayOut ==
  \A c \in Conditions : LET e == ep[c] IN
    /\ e.state = "LEG1_FILLED" => e.forced /\ e.filled1 > 0 /\ e.filled2 = 0
    /\ e.state = "LEG2_WORKING" =>
         /\ e.quote2 # Unset /\ e.start2 # Unset /\ e.improved2 # Unset
         /\ e.fillTs # Unset /\ e.filled2 < e.filled1
    /\ e.state = "HEDGING_DIRECTIONAL_EXIT" =>
         e.exitQuote # Unset /\ e.exitStart # Unset /\ e.filled2 < e.filled1

\* A pair completed by makers locks at least MinRealizedMargin and the buffer
\* on every share, less gas, however many partial fills and improved quotes
\* it took: the second leg never quotes above leg2_max_price.
MakerPairLocksMargin ==
  result.terminal = "COMPLETE" /\ result.path = "maker_complete" =>
    /\ result.filled1 = result.filled2
    /\ result.pnl >= result.filled2
         * (BufferPerShare + MinRealizedMargin - 2 * GasPerShare)

\* A pair completed by a taker hedge never loses more than the lower of the
\* two margins allows on the whole pair, fee included.
HedgedPairBoundsLoss ==
  result.terminal = "COMPLETE" /\ result.path = "taker_hedge" =>
    /\ result.filled1 = result.filled2
    /\ result.pnl >= result.filled2
         * (BufferPerShare - 2 * GasPerShare
              + Min2(MinHedgeExitMargin, MinRealizedMargin))

\* A naked leg sold by its maker exit order, and not by the taker order that
\* ends its timeout, gives back at most MaxOrphanGiveback on each share sold,
\* less gas on every share bought.
MakerExitBoundsGiveback ==
  ( /\ result.terminal = "CLOSED_WITH_LOSS" /\ result.path = "directional_exit"
    /\ result.reason # "directional_exit_timeout" ) =>
    result.pnl >= - (result.filled1 - result.filled2) * MaxOrphanGiveback
                  - (result.filled1 + result.filled2) * GasPerShare
                  + result.filled2 * (BufferPerShare + MinRealizedMargin)

\* A row that finds its market within ForceFlatten of the close leaves no
\* episode behind, whatever its books and its session say.
FlattenWindowLeavesNothing ==
  result.decision \in {"ACCEPT", "REJECT", "WORKING", "COMPLETE"} =>
    \/ CloseTime[result.cond] - now > ForceFlatten
    \/ ep[result.cond].state = "IDLE"

\* A row whose books can be evaluated never leaves a naked leg behind that
\* is too old, whose exit order has timed out, that a lost session should
\* have closed, or whose quote was improved more often than allowed.
OrphanBoundedWhenEvaluated ==
  result.decision = "WORKING" /\ result.books = "fresh" =>
    LET e == ep[result.cond] IN
      /\ ~ e.forced
      /\ e.state = "LEG2_WORKING" =>
           /\ e.attempt2 <= Leg2MaxImproves
           /\ now - e.fillTs <= MaxOrphanSeconds
           /\ now - e.start2 <= Leg2Timeout
      /\ e.state = "HEDGING_DIRECTIONAL_EXIT" =>
           now - e.exitStart <= DirectionalExitTimeout

\* No fill is booked on the row that reports a new generation or session: a
\* leg quoted before it is cancelled, quoted again, or flattened.
NoFillAcrossSessions ==
  [][\A c \in Conditions :
       /\ lastBinding[c] # NoBinding /\ lastBinding'[c] # lastBinding[c]
       /\ ep[c].state # "IDLE"
       => IF ep'[c].state # "IDLE"
          THEN /\ ep'[c].filled1 = ep[c].filled1
               /\ ep'[c].filled2 = ep[c].filled2
               /\ \/ ep'[c].forced \/ ep'[c].pending
                  \/ ep'[c].placed = now /\ ep'[c].filled1 = 0
          ELSE /\ result'.path \in {"none", "emergency_flatten"}
               /\ result'.filled1 = ep[c].filled1
               /\ result'.filled2 = ep[c].filled2]_vars

\* An episode is bound to the last session its market reported, a market
\* never goes back to a session it has left, and its generation never drops.
SessionsOnlyAdvance ==
  [][\A c \in Conditions :
       /\ ep'[c].state # "IDLE" => ep'[c].binding = lastBinding'[c]
       /\ lastBinding'[c] # lastBinding[c] =>
            /\ lastBinding'[c] \notin seenBindings[c]
            /\ lastBinding'[c][1] >= lastBinding[c][1]]_vars

\* As long as MaxConsecutiveOrphans losses in a row are on the books the
\* cooldown is running or waiting to be noticed.
CircuitArmed ==
  consecutive >= MaxConsecutiveOrphans => circuitUntil # Unset

\* An episode is opened only outside a cooldown, with fewer than
\* MaxConsecutiveOrphans losses in a row and the day's loss below its limit.
OpensRespectRisk ==
  [][opened' # opened =>
       /\ circuitUntil' = Unset \/ circuitUntil' <= now
       /\ consecutive' < MaxConsecutiveOrphans
       /\ lossOn[Today] < MaxDailyLoss]_vars

\* A cooldown ends only by elapsing; a further loss can only push it out.
CooldownStands ==
  [][circuitUntil # Unset /\ circuitUntil' # circuitUntil =>
       \/ circuitUntil' = Unset /\ now >= circuitUntil
       \/ circuitUntil' # Unset /\ circuitUntil' > circuitUntil]_vars

-----------------------------------------------------------------------------
(* What the design document says and the code does not do.                 *)

\* A cancelled first leg leaves no position: only statistics remain.
CancelledWithoutPosition ==
  result.terminal = "LEG1_CANCELLED" => result.filled1 = 0

\* The naked legs of all markets together stay within MaxAtRiskExposure.
AtRiskWithinLimit == AtRiskExposure <= MaxAtRiskExposure

\* The exposure of all markets, locked and naked, stays within
\* MaxTotalExposure.
TotalWithinLimit == TotalExposure <= MaxTotalExposure

\* A first leg is quoted at least a tick below the ask it is quoted against.
Leg1NeverCrosses ==
  [][\A r \in Row, o \in Outcomes :
       OpenEpisode(r, o) => ep'[r.cond].quote1 <= r.book[o].ask - MinTick]_vars

-----------------------------------------------------------------------------
(* Liveness.  The engine evaluates every market it follows every 250 ms    *)
(* and reports it at least every five seconds, so a row of a live session  *)
(* comes while the market is in its flatten window, which lasts minutes.   *)
(* No row is promised after the close (the market is rolled off), so the   *)
(* run stops the clock inside the window: Horizon < CloseTime[c].          *)

EvaluateSome(c) ==
  \E r \in Row : r.cond = c /\ ~ Late(r) /\ Evaluate(r)

FairSpec ==
  Spec /\ WF_vars(Tick) /\ \A c \in Conditions : WF_vars(EvaluateSome(c))

\* Every episode that is opened ends before its market closes: no naked leg
\* is carried into settlement.
EpisodeEnds ==
  \A c \in Conditions : ep[c].state # "IDLE" ~> ep[c].state = "IDLE"

=============================================================================
