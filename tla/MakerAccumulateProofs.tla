------------------------ MODULE MakerAccumulateProofs ------------------------
(***************************************************************************)
(* Proofs about the maker_paired_accumulate state machine, for every feed, *)
(* every configuration and any number of markets.                          *)
(*                                                                         *)
(* The invariants are not inductive as they stand: what a terminal record  *)
(* says of its profit follows from what the episode has paid so far, and   *)
(* that from the cap each second-leg quote respected when it was made.     *)
(* LegOK says this of one episode, IInv of the whole state.                *)
(***************************************************************************)
EXTENDS MakerAccumulate, TLAPS

\* The cost of the shares bought on the second leg is within the cap.
WithinCap(e) == e.cost2 <= e.filled2 * Leg2MaxPrice(e.avg1)

\* What the state of an episode says about its orders and its shares.
LegOK(e) ==
  /\ e.state = "LEG1_WORKING" => e.filled2 = 0 /\ e.cost2 = 0
  /\ e.state = "LEG1_FILLED" =>
       e.forced /\ e.filled1 > 0 /\ e.filled2 = 0 /\ e.cost2 = 0
  /\ e.state = "LEG2_WORKING" =>
       /\ e.quote2 >= 0 /\ e.quote2 <= Leg2MaxPrice(e.avg1)
       /\ e.start2 # Unset /\ e.improved2 # Unset /\ e.fillTs # Unset
       /\ e.filled2 < e.filled1
       /\ WithinCap(e)
  /\ e.state = "HEDGING_DIRECTIONAL_EXIT" =>
       /\ e.exitQuote # Unset /\ e.exitStart # Unset
       /\ e.exitQuote >= e.avg1 - MaxOrphanGiveback
       /\ e.filled2 < e.filled1
       /\ WithinCap(e)

\* A cooldown never reaches further than one cooldown from now.
CooldownBounded == circuitUntil <= now + CircuitCooldown

RecordOK ==
  MakerPairLocksMargin /\ HedgedPairBoundsLoss /\ MakerExitBoundsGiveback

\* The inductive invariant.
IInv ==
  /\ TypeOK
  /\ \A c \in Conditions : LegOK(ep[c])
  /\ RecordOK
  /\ CircuitArmed
  /\ CooldownBounded

USE DEF Unset

-----------------------------------------------------------------------------
(* Arithmetic.                                                             *)

\* The taker fee is an integer.
LEMMA TakerFeeType ==
  ASSUME NEW price \in Int, NEW size \in Int
  PROVE  TakerFee(price, size) \in Int
BY PriceAssumption DEF TakerFee

\* An average over some shares is an integer.
LEMMA WeightedAverageType ==
  ASSUME NEW p \in Int, NEW n \in Nat, NEW q \in Int, NEW k \in Nat, k > 0
  PROVE  WeightedAverage(p, n, q, k) \in Int
BY DEF WeightedAverage

\* Buying size more shares at or below the cap stays within the cap.
LEMMA CapStep ==
  ASSUME NEW cost \in Int, NEW n \in Nat, NEW cap \in Int,
         NEW q \in Int, NEW k \in Nat, cost <= n * cap, q <= cap
  PROVE  cost + q * k <= (n + k) * cap
<1>1. q * k <= cap * k
  OBVIOUS
<1>2. (n + k) * cap = n * cap + cap * k
  OBVIOUS
<1> QED
  BY <1>1, <1>2

\* What a pair within the cap earns before fees and gas.
LEMMA CapMargin ==
  ASSUME NEW n \in Nat, NEW avg \in Int, NEW cost \in Int,
         cost <= n * Leg2MaxPrice(avg)
  PROVE  n * (Payout - avg) - cost >= n * (BufferPerShare + MinRealizedMargin)
<1> DEFINE b == BufferPerShare + MinRealizedMargin
           a == Payout - avg
<1>1. Leg2MaxPrice(avg) = a - b /\ a \in Int /\ b \in Int
  BY PriceAssumption DEF Leg2MaxPrice
<1> HIDE DEF a, b
<1>2. n * (a - b) = n * a - n * b
  BY <1>1
<1>3. n * a - cost >= n * b
  BY <1>1, <1>2
<1> QED
  BY <1>3 DEF a, b

\* A pair hedged within the exit margin, and what remains of a leg sold at a
\* price, in terms of the shares already paired.
LEMMA HedgeMargin ==
  ASSUME NEW n \in Nat, NEW k \in Nat, NEW avg \in Int, NEW cost \in Int,
         NEW ask \in Int, NEW m \in Int, m = n + k,
         cost <= n * Leg2MaxPrice(avg), HedgeClears(avg, ask, k)
  PROVE  m * (Payout - avg) - (cost + ask * k) - TakerFee(ask, k)
             - 2 * GasPerShare * m
           >= m * (BufferPerShare - 2 * GasPerShare
                     + Min2(MinHedgeExitMargin, MinRealizedMargin))
<1> DEFINE a    == Payout - avg
           fee  == TakerFee(ask, k)
           low  == Min2(MinHedgeExitMargin, MinRealizedMargin)
           b    == BufferPerShare
           gas  == 2 * GasPerShare
<1>1. a \in Int /\ fee \in Int /\ low \in Int /\ b \in Int /\ gas \in Int
  BY PriceAssumption, TakerFeeType DEF Min2
<1>2. n * a - cost >= n * (b + MinRealizedMargin)
  BY CapMargin
<1>3. k * (a - ask - b) - fee >= k * MinHedgeExitMargin
  BY DEF HedgeClears
<1>4. low <= MinRealizedMargin /\ low <= MinHedgeExitMargin
  BY PriceAssumption DEF Min2
<1>5. 2 * GasPerShare * m = gas * m
  OBVIOUS
<1> HIDE DEF a, fee, low, b, gas
<1>6. n * (b + MinRealizedMargin) >= n * b + n * low
  <2>1. n * low <= n * MinRealizedMargin
    BY <1>1, <1>4, PriceAssumption
  <2>2. n * (b + MinRealizedMargin) = n * b + n * MinRealizedMargin
    BY <1>1, PriceAssumption
  <2> QED
    BY <2>1, <2>2, <1>1, PriceAssumption
<1>7. k * a - ask * k - fee >= k * b + k * low
  <2>1. k * low <= k * MinHedgeExitMargin
    BY <1>1, <1>4, PriceAssumption
  <2>2. k * (a - ask - b) = k * a - ask * k - k * b
    BY <1>1
  <2> QED
    BY <2>1, <2>2, <1>1, <1>3, PriceAssumption
<1>8. m * a = n * a + k * a /\ m * (b - gas + low) = n * b + k * b - gas * m + n * low + k * low
  BY <1>1
<1>9. m * a - (cost + ask * k) - fee - gas * m >= m * (b - gas + low)
  BY <1>1, <1>2, <1>6, <1>7, <1>8, PriceAssumption
<1> QED
  BY <1>9, <1>5 DEF a, fee, low, b, gas

\* What a pair within the cap keeps when its naked rest is sold at a price.
LEMMA ExitMargin ==
  ASSUME NEW n \in Nat, NEW k \in Nat, NEW avg \in Int, NEW cost \in Int,
         NEW price \in Int, NEW gas \in Int,
         cost <= n * Leg2MaxPrice(avg), price >= avg - MaxOrphanGiveback
  PROVE  n * (Payout - avg) - cost + k * (price - avg) - gas
           >= - k * MaxOrphanGiveback - gas
              + n * (BufferPerShare + MinRealizedMargin)
<1>1. n * (Payout - avg) - cost >= n * (BufferPerShare + MinRealizedMargin)
  BY CapMargin
<1>2. k * (price - avg) >= k * (-MaxOrphanGiveback)
  BY PriceAssumption
<1>3. k * (-MaxOrphanGiveback) = - k * MaxOrphanGiveback
  BY PriceAssumption
<1> QED
  BY <1>1, <1>2, <1>3, PriceAssumption

-----------------------------------------------------------------------------
(* Rows, answers and the ends of a handler.                                *)

\* A row's fields, and the two sides of the market seen from an episode.
LEMMA RowType ==
  ASSUME NEW r \in Row, NEW e \in Episode
  PROVE  /\ r.cond \in Conditions /\ r.binding \in Bindings
         /\ Own(e, r) \in Book /\ Other(e, r) \in Book
<1>1. r.cond \in Conditions /\ r.binding \in Bindings /\ r.book \in BookPairs
  BY DEF Row
<1>2. r.book \in [Outcomes -> Book]
  BY <1>1, FeedAssumption
<1>3. e.side \in Outcomes /\ Opposite(e.side) \in Outcomes
  BY DEF Episode, Outcomes, Opposite
<1> QED
  BY <1>1, <1>2, <1>3 DEF Own, Other

\* The prices and sizes of a book are numbers in range.
LEMMA BookType ==
  ASSUME NEW b \in Book
  PROVE  /\ b.bid \in Int /\ b.bid >= 0
         /\ b.ask \in Int /\ b.ask >= MinTick
         /\ b.askSize \in Nat
BY PriceAssumption DEF Book

\* A result is put together from its fields.
LEMMA ResultType ==
  ASSUME NEW c \in Conditions, NEW d \in Decisions, NEW b \in {"fresh", "unusable"},
         NEW t \in TerminalStates \union {"none"}, NEW p \in ExitPaths,
         NEW w \in Reasons, NEW n \in Int, NEW a \in Int,
         NEW f1 \in Nat, NEW f2 \in Nat
  PROVE  [decision |-> d, cond |-> c, books |-> b, terminal |-> t, path |-> p,
          reason |-> w, pnl |-> n, avg1 |-> a, filled1 |-> f1,
          filled2 |-> f2] \in Result
BY DEF Result

\* An answer is a result, and not one of a finished episode.
LEMMA AnswerType ==
  ASSUME NEW r \in Row, NEW d \in Decisions
  PROVE  /\ Answer(r, d) \in Result
         /\ Answer(r, d).terminal = "none" /\ Answer(r, d).cond = r.cond
<1>1. r.cond \in Conditions /\ Books(r) \in {"fresh", "unusable"}
  BY DEF Row, Books
<1>2. /\ "none" \in TerminalStates \union {"none"} /\ "none" \in ExitPaths
      /\ "none" \in Reasons
  BY DEF ExitPaths, Reasons
<1>3. 0 \in Int /\ 0 \in Nat
  OBVIOUS
<1>4. Answer(r, d) \in Result
  BY <1>1, <1>2, <1>3, ResultType, Zenon DEF Answer
<1>5. Answer(r, d).terminal = "none" /\ Answer(r, d).cond = r.cond
  BY DEF Answer
<1> QED
  BY <1>4, <1>5

\* What a handler leaves behind, the bindings and the counts of opened
\* episodes apart.
Handled(r) ==
  /\ ep' \in [Conditions -> Episode] /\ \A c \in Conditions : LegOK(ep'[c])
  /\ result' \in Result /\ RecordOK' /\ result'.cond = r.cond
  /\ consecutive' \in Nat /\ circuitUntil' \in Nat \union {Unset}
  /\ lossOn' \in [Days -> Nat]
  /\ CircuitArmed' /\ CooldownBounded'
  /\ circuitUntil' \in {circuitUntil, now + CircuitCooldown}

\* A handler that keeps a sound episode leaves a sound state.
LEMMA KeepHandled ==
  ASSUME IInv, now' = now, NEW r \in Row, NEW e \in Episode, LegOK(e), Keep(r, e)
  PROVE  Handled(r)
<1>1. r.cond \in Conditions
  BY DEF Row
<1>2. ep' \in [Conditions -> Episode] /\ \A c \in Conditions : LegOK(ep'[c])
  BY <1>1 DEF Keep, IInv, TypeOK
<1>3. /\ result' \in Result /\ result'.terminal = "none"
      /\ result'.cond = r.cond
  BY AnswerType DEF Keep, Decisions
<1>4. RecordOK'
  BY <1>3 DEF RecordOK, MakerPairLocksMargin, HedgedPairBoundsLoss,
              MakerExitBoundsGiveback
<1>5. /\ consecutive' \in Nat /\ circuitUntil' \in Nat \union {Unset}
      /\ lossOn' \in [Days -> Nat] /\ CircuitArmed' /\ CooldownBounded'
      /\ circuitUntil' \in {circuitUntil, now + CircuitCooldown}
  BY DEF Keep, risk, IInv, TypeOK, CircuitArmed, CooldownBounded
<1> QED
  BY <1>2, <1>3, <1>4, <1>5 DEF Handled

\* What the record of a finalized episode must say of its profit.
ProfitOK(e, terminal, path, reason, pnl) ==
  /\ terminal = "COMPLETE" /\ path = "maker_complete" =>
       /\ e.filled1 = e.filled2
       /\ pnl >= e.filled2 * (BufferPerShare + MinRealizedMargin - 2 * GasPerShare)
  /\ terminal = "COMPLETE" /\ path = "taker_hedge" =>
       /\ e.filled1 = e.filled2
       /\ pnl >= e.filled2
            * (BufferPerShare - 2 * GasPerShare
                 + Min2(MinHedgeExitMargin, MinRealizedMargin))
  /\ ( /\ terminal = "CLOSED_WITH_LOSS" /\ path = "directional_exit"
       /\ reason # "directional_exit_timeout" ) =>
       pnl >= - (e.filled1 - e.filled2) * MaxOrphanGiveback
              - (e.filled1 + e.filled2) * GasPerShare
              + e.filled2 * (BufferPerShare + MinRealizedMargin)

\* The idle episode is a sound one.
LEMMA IdleOK == IdleEpisode \in Episode /\ LegOK(IdleEpisode)
BY DEF IdleEpisode, Episode, EpisodeStates, Outcomes, NoBinding, LegOK, Reasons

\* Finalizing with a sound profit leaves a sound state.
LEMMA FinalizeHandled ==
  ASSUME IInv, now' = now, NEW r \in Row, NEW e \in Episode,
         NEW terminal \in TerminalStates, NEW path \in ExitPaths,
         NEW reason \in Reasons, NEW pnl \in Int,
         ProfitOK(e, terminal, path, reason, pnl),
         Finalize(r, e, terminal, path, reason, pnl)
  PROVE  Handled(r)
<1>1. r.cond \in Conditions
  BY DEF Row
<1>2. ep' \in [Conditions -> Episode] /\ \A c \in Conditions : LegOK(ep'[c])
  BY <1>1, IdleOK DEF Finalize, IInv, TypeOK
<1>3. /\ result' \in Result /\ result'.cond = r.cond
      /\ result'.terminal = terminal /\ result'.path = path
      /\ result'.reason = reason /\ result'.pnl = pnl
      /\ result'.filled1 = e.filled1 /\ result'.filled2 = e.filled2
  <2>1. /\ e.avg1 \in Int /\ e.filled1 \in Nat /\ e.filled2 \in Nat
        /\ Books(r) \in {"fresh", "unusable"} /\ "COMPLETE" \in Decisions
    BY DEF Episode, Books, Decisions
  <2>2. terminal \in TerminalStates \union {"none"}
    OBVIOUS
  <2>3. result' = [decision |-> "COMPLETE", cond |-> r.cond,
                   books |-> Books(r), terminal |-> terminal,
                   path |-> path, reason |-> reason, pnl |-> pnl,
                   avg1 |-> e.avg1, filled1 |-> e.filled1,
                   filled2 |-> e.filled2]
    BY DEF Finalize
  <2>4. result' \in Result
    BY <1>1, <2>1, <2>2, <2>3, ResultType, Zenon
  <2> QED
    BY <2>3, <2>4
<1>4. RecordOK'
  BY <1>3 DEF ProfitOK, RecordOK, MakerPairLocksMargin, HedgedPairBoundsLoss,
              MakerExitBoundsGiveback
<1>5. consecutive' \in Nat /\ circuitUntil' \in Nat \union {Unset}
  BY DurationAssumption
     DEF Finalize, ConsecutiveAfter, CircuitAfter, IInv, TypeOK, TerminalStates
<1>6. lossOn' \in [Days -> Nat]
  <2>1. Loss(pnl) \in Nat
    BY DEF Loss, Max2
  <2>2. lossOn \in [Days -> Nat]
    BY DEF IInv, TypeOK
  <2>3. lossOn' = [lossOn EXCEPT ![Today] = @ + Loss(pnl)]
    BY DEF Finalize
  <2>4. CASE Today \in Days
    BY <2>1, <2>2, <2>3, <2>4
  <2>5. CASE Today \notin Days
    BY <2>2, <2>3, <2>5
  <2> QED
    BY <2>4, <2>5
<1>7. CircuitArmed'
  BY DurationAssumption, LimitAssumption
     DEF Finalize, ConsecutiveAfter, CircuitAfter, IInv, TypeOK, CircuitArmed,
         TerminalStates
<1>8. CooldownBounded'
  BY DurationAssumption
     DEF Finalize, ConsecutiveAfter, CircuitAfter, IInv, TypeOK, CooldownBounded,
         TerminalStates
<1>9. circuitUntil' \in {circuitUntil, now + CircuitCooldown}
  BY DEF Finalize, CircuitAfter
<1> QED
  BY <1>2, <1>3, <1>4, <1>5, <1>6, <1>7, <1>8, <1>9 DEF Handled

-----------------------------------------------------------------------------
(* Updates of an episode, one field at a time.                             *)

\* The fields of an episode that the arithmetic reads are numbers.
LEMMA EpisodeFields ==
  ASSUME NEW e \in Episode
  PROVE  /\ e.filled1 \in Nat /\ e.filled2 \in Nat /\ e.avg1 \in Int
         /\ e.cost2 \in Int /\ e.quote1 \in Int /\ e.quote2 \in Int
         /\ e.size1 \in Int /\ e.exitQuote \in Int /\ e.attempt2 \in Nat
         /\ e.state \in EpisodeStates /\ e.requotes \in Nat
         /\ e.exitStart \in Nat \union {Unset} /\ e.start2 \in Nat \union {Unset}
         /\ e.binding \in Bindings \union {NoBinding}
BY DEF Episode

\* Setting state keeps an episode an episode.
LEMMA SetState ==
  ASSUME NEW e \in Episode, NEW v \in EpisodeStates
  PROVE  [e EXCEPT !.state = v] \in Episode
BY DEF Episode

\* Setting binding keeps an episode an episode.
LEMMA SetBinding ==
  ASSUME NEW e \in Episode, NEW v \in Bindings
  PROVE  [e EXCEPT !.binding = v] \in Episode
BY DEF Episode

\* Setting side keeps an episode an episode.
LEMMA SetSide ==
  ASSUME NEW e \in Episode, NEW v \in Outcomes
  PROVE  [e EXCEPT !.side = v] \in Episode
BY DEF Episode

\* Setting quote1 keeps an episode an episode.
LEMMA SetQuote1 ==
  ASSUME NEW e \in Episode, NEW v \in Int
  PROVE  [e EXCEPT !.quote1 = v] \in Episode
BY DEF Episode

\* Setting size1 keeps an episode an episode.
LEMMA SetSize1 ==
  ASSUME NEW e \in Episode, NEW v \in Int
  PROVE  [e EXCEPT !.size1 = v] \in Episode
BY DEF Episode

\* Setting placed keeps an episode an episode.
LEMMA SetPlaced ==
  ASSUME NEW e \in Episode, NEW v \in Nat
  PROVE  [e EXCEPT !.placed = v] \in Episode
BY DEF Episode

\* Setting filled1 keeps an episode an episode.
LEMMA SetFilled1 ==
  ASSUME NEW e \in Episode, NEW v \in Nat
  PROVE  [e EXCEPT !.filled1 = v] \in Episode
BY DEF Episode

\* Setting avg1 keeps an episode an episode.
LEMMA SetAvg1 ==
  ASSUME NEW e \in Episode, NEW v \in Int
  PROVE  [e EXCEPT !.avg1 = v] \in Episode
BY DEF Episode

\* Setting fillTs keeps an episode an episode.
LEMMA SetFillTs ==
  ASSUME NEW e \in Episode, NEW v \in Nat
  PROVE  [e EXCEPT !.fillTs = v] \in Episode
BY DEF Episode

\* Setting requotes keeps an episode an episode.
LEMMA SetRequotes ==
  ASSUME NEW e \in Episode, NEW v \in Nat
  PROVE  [e EXCEPT !.requotes = v] \in Episode
BY DEF Episode

\* Setting pending keeps an episode an episode.
LEMMA SetPending ==
  ASSUME NEW e \in Episode, NEW v \in BOOLEAN
  PROVE  [e EXCEPT !.pending = v] \in Episode
BY DEF Episode

\* Setting forced keeps an episode an episode.
LEMMA SetForced ==
  ASSUME NEW e \in Episode, NEW v \in BOOLEAN
  PROVE  [e EXCEPT !.forced = v] \in Episode
BY DEF Episode

\* Setting max2 keeps an episode an episode.
LEMMA SetMax2 ==
  ASSUME NEW e \in Episode, NEW v \in Int
  PROVE  [e EXCEPT !.max2 = v] \in Episode
BY DEF Episode

\* Setting quote2 keeps an episode an episode.
LEMMA SetQuote2 ==
  ASSUME NEW e \in Episode, NEW v \in Int
  PROVE  [e EXCEPT !.quote2 = v] \in Episode
BY DEF Episode

\* Setting filled2 keeps an episode an episode.
LEMMA SetFilled2 ==
  ASSUME NEW e \in Episode, NEW v \in Nat
  PROVE  [e EXCEPT !.filled2 = v] \in Episode
BY DEF Episode

\* Setting cost2 keeps an episode an episode.
LEMMA SetCost2 ==
  ASSUME NEW e \in Episode, NEW v \in Int
  PROVE  [e EXCEPT !.cost2 = v] \in Episode
BY DEF Episode

\* Setting start2 keeps an episode an episode.
LEMMA SetStart2 ==
  ASSUME NEW e \in Episode, NEW v \in Nat
  PROVE  [e EXCEPT !.start2 = v] \in Episode
BY DEF Episode

\* Setting improved2 keeps an episode an episode.
LEMMA SetImproved2 ==
  ASSUME NEW e \in Episode, NEW v \in Nat
  PROVE  [e EXCEPT !.improved2 = v] \in Episode
BY DEF Episode

\* Setting attempt2 keeps an episode an episode.
LEMMA SetAttempt2 ==
  ASSUME NEW e \in Episode, NEW v \in Nat
  PROVE  [e EXCEPT !.attempt2 = v] \in Episode
BY DEF Episode

\* Setting exitQuote keeps an episode an episode.
LEMMA SetExitQuote ==
  ASSUME NEW e \in Episode, NEW v \in Int
  PROVE  [e EXCEPT !.exitQuote = v] \in Episode
BY DEF Episode

\* Setting exitStart keeps an episode an episode.
LEMMA SetExitStart ==
  ASSUME NEW e \in Episode, NEW v \in Nat
  PROVE  [e EXCEPT !.exitStart = v] \in Episode
BY DEF Episode

\* Setting the reason keeps an episode an episode.
LEMMA SetReason ==
  ASSUME NEW e \in Episode, NEW v \in Reasons
  PROVE  [e EXCEPT !.reason = v] \in Episode
BY DEF Episode

-----------------------------------------------------------------------------
(* The handlers of a filled leg.                                           *)

\* The shares of an episode whose second leg is, or was, being bought.
HoldsLeg(e) ==
  e \in Episode /\ e.filled2 < e.filled1 /\ WithinCap(e)

\* Selling the naked leg leaves a sound state.
LEMMA CloseWithLossHandled ==
  ASSUME IInv, now' = now, NEW r \in Row, NEW e \in Episode,
         NEW path \in ExitPaths, NEW reason \in Reasons,
         NEW price \in Int, NEW fee \in Int,
         path = "directional_exit" /\ reason # "directional_exit_timeout" =>
           /\ WithinCap(e) /\ e.filled2 <= e.filled1 /\ fee = 0
           /\ price >= e.avg1 - MaxOrphanGiveback,
         CloseWithLoss(r, e, path, reason, price, fee)
  PROVE  Handled(r)
<1> DEFINE pnl == e.filled2 * (Payout - e.avg1) - e.cost2
                    + Orphan(e) * (price - e.avg1) - fee
                    - (e.filled1 + e.filled2) * GasPerShare
<1>1. pnl \in Int
  BY PriceAssumption, EpisodeFields DEF Orphan
<1>2. ASSUME path = "directional_exit", reason # "directional_exit_timeout"
      PROVE  pnl >= - (e.filled1 - e.filled2) * MaxOrphanGiveback
                    - (e.filled1 + e.filled2) * GasPerShare
                    + e.filled2 * (BufferPerShare + MinRealizedMargin)
  <2>1. /\ e.filled1 - e.filled2 \in Nat
        /\ (e.filled1 + e.filled2) * GasPerShare \in Int
    BY <1>2, PriceAssumption, EpisodeFields
  <2>2. e.filled2 * (Payout - e.avg1) - e.cost2
           + (e.filled1 - e.filled2) * (price - e.avg1)
           - (e.filled1 + e.filled2) * GasPerShare
         >= - (e.filled1 - e.filled2) * MaxOrphanGiveback
            - (e.filled1 + e.filled2) * GasPerShare
            + e.filled2 * (BufferPerShare + MinRealizedMargin)
    BY <1>2, <2>1, ExitMargin, EpisodeFields DEF WithinCap
  <2>3. pnl = e.filled2 * (Payout - e.avg1) - e.cost2
           + (e.filled1 - e.filled2) * (price - e.avg1)
           - (e.filled1 + e.filled2) * GasPerShare
    BY <1>2, PriceAssumption, EpisodeFields DEF Orphan
  <2> QED
    BY <2>2, <2>3
<1>3. Finalize(r, e, "CLOSED_WITH_LOSS", path, reason, pnl)
  BY DEF CloseWithLoss
<1> HIDE DEF pnl
<1>4. ProfitOK(e, "CLOSED_WITH_LOSS", path, reason, pnl)
  BY <1>2 DEF ProfitOK
<1>5. "CLOSED_WITH_LOSS" \in TerminalStates
  BY DEF TerminalStates
<1> QED
  BY <1>1, <1>3, <1>4, <1>5, FinalizeHandled

\* A taker exit leaves a sound state.
LEMMA FlattenHandled ==
  ASSUME IInv, now' = now, NEW r \in Row, NEW e \in Episode,
         NEW path \in ExitPaths, NEW reason \in Reasons,
         path # "directional_exit" \/ reason = "directional_exit_timeout",
         FlattenTaker(r, e, reason, path)
  PROVE  Handled(r)
<1>1. Own(e, r).bid \in Int
  BY RowType, BookType
<1>2. Orphan(e) \in Int
  BY EpisodeFields DEF Orphan
<1>3. TakerFee(Own(e, r).bid, Orphan(e)) \in Int
  BY <1>1, <1>2, TakerFeeType
<1> QED
  BY <1>1, <1>3, CloseWithLossHandled DEF FlattenTaker

\* An emergency flatten, with or without a naked leg, leaves a sound state.
LEMMA EmergencyHandled ==
  ASSUME IInv, now' = now, NEW r \in Row, NEW e \in Episode,
         NEW reason \in Reasons, EmergencyFlatten(r, e, reason)
  PROVE  Handled(r)
<1>1. "emergency_flatten" \in ExitPaths /\ "emergency_flatten" # "directional_exit"
  BY DEF ExitPaths
<1> QED
  BY <1>1, FlattenHandled DEF EmergencyFlatten

\* Cancelling the first leg leaves a sound state.
LEMMA CancelHandled ==
  ASSUME IInv, now' = now, NEW r \in Row, NEW e \in Episode,
         NEW reason \in Reasons, CancelLeg1(r, e, reason)
  PROVE  Handled(r)
<1>1. "LEG1_CANCELLED" \in TerminalStates /\ "none" \in ExitPaths
  BY DEF TerminalStates, ExitPaths
<1>2. ProfitOK(e, "LEG1_CANCELLED", "none", reason, 0)
  BY DEF ProfitOK
<1>3. Finalize(r, e, "LEG1_CANCELLED", "none", reason, 0)
  BY DEF CancelLeg1
<1> QED
  BY <1>1, <1>2, <1>3, FinalizeHandled

\* A pair completed by its second maker order leaves a sound state.
LEMMA MakerCompleteHandled ==
  ASSUME IInv, now' = now, NEW r \in Row, NEW e \in Episode,
         e.filled1 = e.filled2, WithinCap(e),
         CompleteMaker(r, e, "maker_complete", "pair_completed", 0)
  PROVE  Handled(r)
<1> DEFINE n   == e.filled2
           pnl == n * (Payout - e.avg1) - e.cost2 - 0 - 2 * GasPerShare * n
<1>1. n \in Nat /\ Min2(e.filled1, e.filled2) = n /\ pnl \in Int
  BY PriceAssumption, EpisodeFields DEF Min2
<1>2. pnl >= n * (BufferPerShare + MinRealizedMargin - 2 * GasPerShare)
  <2>1. n * (Payout - e.avg1) - e.cost2 >= n * (BufferPerShare + MinRealizedMargin)
    BY CapMargin, EpisodeFields DEF WithinCap
  <2>2. n * (BufferPerShare + MinRealizedMargin - 2 * GasPerShare)
          = n * (BufferPerShare + MinRealizedMargin) - 2 * GasPerShare * n
    BY <1>1, PriceAssumption
  <2> QED
    BY <2>1, <2>2, <1>1, PriceAssumption, EpisodeFields
<1>3. Finalize(r, e, "COMPLETE", "maker_complete", "pair_completed", pnl)
  BY <1>1 DEF CompleteMaker
<1> HIDE DEF pnl
<1>4. ProfitOK(e, "COMPLETE", "maker_complete", "pair_completed", pnl)
  BY <1>2 DEF ProfitOK
<1>5. /\ "COMPLETE" \in TerminalStates /\ "maker_complete" \in ExitPaths
      /\ "pair_completed" \in Reasons
  BY DEF TerminalStates, ExitPaths, Reasons
<1> QED
  BY <1>1, <1>3, <1>4, <1>5, FinalizeHandled

\* A taker hedge within the exit margin leaves a sound state.
LEMMA TakerHedgeHandled ==
  ASSUME IInv, now' = now, NEW r \in Row, NEW e, HoldsLeg(e),
         NEW reason \in Reasons,
         HedgeClears(e.avg1, Other(e, r).ask, Orphan(e)),
         TakerHedge(r, e, reason)
  PROVE  Handled(r)
<1> DEFINE ask == Other(e, r).ask
           k   == Orphan(e)
           m   == e.filled1
           f   == [e EXCEPT !.filled2 = e.filled1, !.cost2 = @ + ask * Orphan(e)]
           fee == TakerFee(ask, k)
           pnl == m * (Payout - e.avg1) - (e.cost2 + ask * k) - fee
                    - 2 * GasPerShare * m
<1>1. /\ e \in Episode /\ m \in Nat /\ k \in Nat /\ k \in Int /\ e.filled2 \in Nat
      /\ m = e.filled2 + k /\ e.cost2 \in Int /\ e.avg1 \in Int
  BY EpisodeFields DEF HoldsLeg, Orphan
<1>2. ask \in Int
  BY <1>1, RowType, BookType
<1>3. fee \in Int
  BY <1>1, <1>2, TakerFeeType
<1>4. pnl >= m * (BufferPerShare - 2 * GasPerShare
                    + Min2(MinHedgeExitMargin, MinRealizedMargin))
  BY <1>1, <1>2, HedgeMargin DEF HoldsLeg, WithinCap
<1>5. f \in Episode
  <2>1. e.cost2 + ask * Orphan(e) \in Int
    BY <1>1, <1>2
  <2>2. PICK g : g = [e EXCEPT !.filled2 = e.filled1]
    OBVIOUS
  <2>3. g \in Episode /\ g.cost2 = e.cost2
    BY <1>1, <2>2, SetFilled2 DEF Episode
  <2>4. [g EXCEPT !.cost2 = e.cost2 + ask * Orphan(e)] \in Episode
    BY <2>1, <2>3, SetCost2
  <2> QED
    BY <2>2, <2>3, <2>4, Zenon
<1>6. /\ f.filled1 = m /\ f.filled2 = m /\ f.avg1 = e.avg1
      /\ f.cost2 = e.cost2 + ask * k
  BY <1>1 DEF Episode
<1>7. Min2(f.filled1, f.filled2) = m
  BY <1>1, <1>6 DEF Min2
<1>8. Finalize(r, f, "COMPLETE", "taker_hedge", reason, pnl)
  BY <1>6, <1>7 DEF TakerHedge, CompleteMaker
<1>9. pnl \in Int
  BY <1>1, <1>2, <1>3, PriceAssumption
<1> HIDE DEF pnl, f
<1>10. ProfitOK(f, "COMPLETE", "taker_hedge", reason, pnl)
  BY <1>4, <1>6 DEF ProfitOK
<1>11. "COMPLETE" \in TerminalStates /\ "taker_hedge" \in ExitPaths
  BY DEF TerminalStates, ExitPaths
<1> QED
  BY <1>5, <1>8, <1>9, <1>10, <1>11, FinalizeHandled

\* Giving up the second leg leaves a sound state.
LEMMA AbandonHandled ==
  ASSUME IInv, now' = now, NEW r \in Row, NEW e, HoldsLeg(e),
         NEW reason \in Reasons, AbandonLeg2(r, e, reason)
  PROVE  Handled(r)
<1>1. CASE Orphan(e) > 0 /\ HedgeClears(e.avg1, Other(e, r).ask, Orphan(e))
  BY <1>1, TakerHedgeHandled DEF AbandonLeg2
<1>2. CASE ~ (Orphan(e) > 0 /\ HedgeClears(e.avg1, Other(e, r).ask, Orphan(e)))
  <2> DEFINE q == ExitQuote(e.avg1, Own(e, r).bid)
             f == [e EXCEPT !.state = "HEDGING_DIRECTIONAL_EXIT",
                            !.exitQuote = q, !.exitStart = now,
                            !.reason = reason]
  <2>1. e \in Episode /\ e.avg1 \in Int /\ now \in Nat
    BY EpisodeFields DEF HoldsLeg, IInv, TypeOK
  <2>2. q \in Int /\ q >= e.avg1 - MaxOrphanGiveback /\ q # Unset
    BY <2>1, RowType, BookType, PriceAssumption DEF ExitQuote, Max2
  <2>3. f \in Episode
    <3>1. PICK g : g = [e EXCEPT !.state = "HEDGING_DIRECTIONAL_EXIT"]
      OBVIOUS
    <3>2. g \in Episode
      BY <2>1, <3>1, SetState DEF EpisodeStates
    <3>3. PICK h : h = [g EXCEPT !.exitQuote = q]
      OBVIOUS
    <3>4. h \in Episode
      BY <2>2, <3>2, <3>3, SetExitQuote
    <3>5. PICK i : i = [h EXCEPT !.exitStart = now]
      OBVIOUS
    <3>6. i \in Episode
      BY <2>1, <3>4, <3>5, SetExitStart
    <3>7. [i EXCEPT !.reason = reason] \in Episode
      BY <3>6, SetReason
    <3> QED
      BY <3>1, <3>3, <3>5, <3>7
  <2>4. /\ f.state = "HEDGING_DIRECTIONAL_EXIT"
        /\ f.exitQuote = q /\ f.exitStart = now /\ f.avg1 = e.avg1
        /\ f.filled1 = e.filled1 /\ f.filled2 = e.filled2 /\ f.cost2 = e.cost2
    BY <2>1 DEF Episode
  <2>5. LegOK(f)
    BY <2>1, <2>2, <2>4 DEF LegOK, HoldsLeg, WithinCap
  <2>6. Keep(r, f)
    BY <1>2, Zenon DEF AbandonLeg2, OpenDirectionalExit
  <2> QED
    BY <2>3, <2>5, <2>6, KeepHandled
<1> QED
  BY <1>1, <1>2

\* Opening the second leg of a leg just filled leaves a sound state.
LEMMA OpenLeg2Handled ==
  ASSUME IInv, now' = now, NEW r \in Row, NEW e \in Episode,
         e.filled1 > 0, e.filled2 = 0, e.cost2 = 0, e.fillTs # Unset,
         OpenLeg2(r, e)
  PROVE  Handled(r)
<1> DEFINE cap == Leg2MaxPrice(e.avg1)
           e2  == [e EXCEPT !.state = "LEG2_WORKING", !.max2 = cap,
                            !.start2 = now, !.improved2 = now, !.attempt2 = 0]
           q   == Leg2Quote(Other(e, r), 1, cap)
           e3  == [e2 EXCEPT !.quote2 = q]
<1>1. now \in Nat /\ e.avg1 \in Int /\ cap \in Int /\ e.filled1 \in Nat
  BY EpisodeFields, PriceAssumption DEF IInv, TypeOK, Leg2MaxPrice
<1>2. e2 \in Episode
  <2>1. PICK g : g = [e EXCEPT !.state = "LEG2_WORKING"]
    OBVIOUS
  <2>2. g \in Episode
    BY <2>1, SetState DEF EpisodeStates
  <2>3. PICK h : h = [g EXCEPT !.max2 = cap]
    OBVIOUS
  <2>4. h \in Episode
    BY <1>1, <2>2, <2>3, SetMax2
  <2>5. PICK i : i = [h EXCEPT !.start2 = now]
    OBVIOUS
  <2>6. i \in Episode
    BY <1>1, <2>4, <2>5, SetStart2
  <2>7. PICK j : j = [i EXCEPT !.improved2 = now]
    OBVIOUS
  <2>8. j \in Episode
    BY <1>1, <2>6, <2>7, SetImproved2
  <2>9. [j EXCEPT !.attempt2 = 0] \in Episode
    BY <2>8, SetAttempt2
  <2> QED
    BY <2>1, <2>3, <2>5, <2>7, <2>9
<1>3. /\ e2.state = "LEG2_WORKING" /\ e2.start2 = now /\ e2.improved2 = now
      /\ e2.fillTs = e.fillTs /\ e2.avg1 = e.avg1 /\ e2.filled1 = e.filled1
      /\ e2.filled2 = 0 /\ e2.cost2 = 0
  BY DEF Episode
<1>4. WithinCap(e2) /\ HoldsLeg(e2)
  <2>1. 0 * Leg2MaxPrice(e.avg1) = 0
    BY <1>1
  <2> QED
    BY <1>1, <1>2, <1>3, <2>1 DEF WithinCap, HoldsLeg
<1>5. CASE cap <= Other(e, r).bid
  <2>1. AbandonLeg2(r, e2, "leg2_max_price_below_bid")
    BY <1>5 DEF OpenLeg2
  <2>2. "leg2_max_price_below_bid" \in Reasons
    BY DEF Reasons
  <2> HIDE DEF e2
  <2> QED
    BY <1>4, <2>1, <2>2, AbandonHandled
<1>6. CASE ~ (cap <= Other(e, r).bid)
  <2>1. Keep(r, e3)
    BY <1>6 DEF OpenLeg2
  <2>2. q \in Int /\ q >= 0 /\ q <= cap
    BY <1>1, <1>6, RowType, BookType, PriceAssumption DEF Leg2Quote, Min2
  <2> HIDE DEF e2, q
  <2>3. e3 \in Episode
    BY <1>2, <2>2, SetQuote2
  <2>4. /\ e3.state = "LEG2_WORKING" /\ e3.start2 = now /\ e3.improved2 = now
        /\ e3.fillTs = e.fillTs /\ e3.avg1 = e.avg1 /\ e3.filled1 = e.filled1
        /\ e3.filled2 = 0 /\ e3.cost2 = 0 /\ e3.quote2 = q
    BY <1>2, <1>3 DEF Episode
  <2>5. LegOK(e3)
    BY <1>1, <1>3, <1>4, <2>2, <2>4 DEF LegOK, WithinCap
  <2> HIDE DEF e3
  <2> QED
    BY <2>1, <2>3, <2>5, KeepHandled
<1> QED
  BY <1>5, <1>6

\* An episode with a working second leg is a sound one.
LEMMA Leg2OK ==
  ASSUME NEW e \in Episode, LegOK(e), e.state = "LEG2_WORKING"
  PROVE  /\ HoldsLeg(e) /\ e.quote2 >= 0 /\ e.quote2 <= Leg2MaxPrice(e.avg1)
         /\ e.start2 # Unset /\ e.improved2 # Unset /\ e.fillTs # Unset
BY DEF LegOK, HoldsLeg

\* Improving the second leg's quote leaves a sound state.
LEMMA ImproveHandled ==
  ASSUME IInv, now' = now, NEW r \in Row, NEW e \in Episode, LegOK(e),
         e.state = "LEG2_WORKING", ImproveLeg2(r, e)
  PROVE  Handled(r)
<1> DEFINE cap == Leg2MaxPrice(e.avg1)
           e2  == [e EXCEPT !.attempt2 = @ + 1, !.improved2 = now]
           e3  == [e2 EXCEPT !.max2 = cap]
           q   == Max2(e3.quote2, Leg2Quote(Other(e, r), Leg2ImproveStepTicks, cap))
           e4  == [e3 EXCEPT !.quote2 = q]
<1>1. now \in Nat /\ e.avg1 \in Int /\ cap \in Int /\ e.quote2 \in Int
  BY EpisodeFields, PriceAssumption DEF IInv, TypeOK, Leg2MaxPrice
<1>2. e2 \in Episode
  <2>1. e.attempt2 + 1 \in Nat
    BY EpisodeFields
  <2>2. PICK g : g = [e EXCEPT !.attempt2 = e.attempt2 + 1]
    OBVIOUS
  <2>3. g \in Episode
    BY <2>1, <2>2, SetAttempt2
  <2>4. [g EXCEPT !.improved2 = now] \in Episode
    BY <1>1, <2>3, SetImproved2
  <2> QED
    BY <2>2, <2>4
<1>3. /\ e2.state = "LEG2_WORKING" /\ e2.start2 = e.start2 /\ e2.improved2 = now
      /\ e2.fillTs = e.fillTs /\ e2.avg1 = e.avg1 /\ e2.filled1 = e.filled1
      /\ e2.filled2 = e.filled2 /\ e2.cost2 = e.cost2 /\ e2.quote2 = e.quote2
  BY DEF Episode
<1> HIDE DEF e2
<1>4. e3 \in Episode
  BY <1>1, <1>2, SetMax2
<1>5. /\ e3.state = "LEG2_WORKING" /\ e3.start2 = e.start2 /\ e3.improved2 = now
      /\ e3.fillTs = e.fillTs /\ e3.avg1 = e.avg1 /\ e3.filled1 = e.filled1
      /\ e3.filled2 = e.filled2 /\ e3.cost2 = e.cost2 /\ e3.quote2 = e.quote2
  BY <1>2, <1>3 DEF Episode
<1>6. HoldsLeg(e2) /\ HoldsLeg(e3)
  BY <1>2, <1>3, <1>4, <1>5, Leg2OK DEF HoldsLeg, WithinCap
<1>7. "leg2_improves_exhausted" \in Reasons /\ "leg2_max_price_below_bid" \in Reasons
  BY DEF Reasons
<1>8. CASE AbandonLeg2(r, e2, "leg2_improves_exhausted")
  BY <1>6, <1>7, <1>8, AbandonHandled
<1>9. CASE AbandonLeg2(r, e3, "leg2_max_price_below_bid")
  <2> HIDE DEF e3
  <2> QED
    BY <1>6, <1>7, <1>9, AbandonHandled
<1>10. CASE cap > Other(e, r).bid /\ Keep(r, e4)
  <2> HIDE DEF e3
  <2>1. q \in Int /\ q >= e.quote2 /\ q <= cap
    BY <1>1, <1>5, Leg2OK, RowType, BookType, PriceAssumption, LimitAssumption
       DEF Leg2Quote, Min2, Max2
  <2> HIDE DEF q
  <2>2. e4 \in Episode
    BY <1>4, <2>1, SetQuote2
  <2>3. /\ e4.state = "LEG2_WORKING" /\ e4.start2 = e.start2 /\ e4.improved2 = now
        /\ e4.fillTs = e.fillTs /\ e4.avg1 = e.avg1 /\ e4.filled1 = e.filled1
        /\ e4.filled2 = e.filled2 /\ e4.cost2 = e.cost2 /\ e4.quote2 = q
    BY <1>4, <1>5 DEF Episode
  <2>4. LegOK(e4)
    BY <1>1, <2>1, <2>3, Leg2OK DEF LegOK, HoldsLeg, WithinCap
  <2> HIDE DEF e4
  <2> QED
    BY <1>10, <2>2, <2>4, KeepHandled
<1>11. \/ AbandonLeg2(r, e2, "leg2_improves_exhausted")
       \/ AbandonLeg2(r, e3, "leg2_max_price_below_bid")
       \/ cap > Other(e, r).bid /\ Keep(r, e4)
  BY Zenon DEF ImproveLeg2, e2
<1> QED
  BY <1>8, <1>9, <1>10, <1>11

\* A fill of the second leg stays within the cap.
LEMMA FillLeg2OK ==
  ASSUME NEW r \in Row, NEW e \in Episode, LegOK(e), e.state = "LEG2_WORKING"
  PROVE  LET f == FillLeg2(e, r)
         IN  /\ f \in Episode /\ f.state = "LEG2_WORKING" /\ WithinCap(f)
             /\ f.filled1 = e.filled1 /\ f.filled2 <= f.filled1
             /\ f.filled2 < f.filled1 => LegOK(f)
<1> DEFINE size == IF BuyFills(e.quote2, Other(e, r).ask)
                   THEN Min2(Orphan(e), Other(e, r).askSize)
                   ELSE 0
           f    == [e EXCEPT !.filled2 = @ + size, !.cost2 = @ + e.quote2 * size]
           cap  == Leg2MaxPrice(e.avg1)
<1>1. /\ e.filled2 < e.filled1 /\ WithinCap(e)
      /\ e.quote2 >= 0 /\ e.quote2 <= cap
  BY Leg2OK DEF HoldsLeg
<1>2. /\ e.filled1 \in Nat /\ e.filled2 \in Nat /\ e.quote2 \in Int
      /\ e.cost2 \in Int /\ e.avg1 \in Int /\ cap \in Int
  BY EpisodeFields, PriceAssumption DEF Leg2MaxPrice
<1>3. size \in Nat /\ size <= e.filled1 - e.filled2
  BY <1>1, <1>2, RowType, BookType DEF Orphan, Min2
<1>4. f = FillLeg2(e, r)
  BY DEF FillLeg2
<1> HIDE DEF size
<1>5. f \in Episode
  <2>1. e.filled2 + size \in Nat /\ e.cost2 + e.quote2 * size \in Int
    BY <1>2, <1>3
  <2>2. PICK g : g = [e EXCEPT !.filled2 = e.filled2 + size]
    OBVIOUS
  <2>3. g \in Episode /\ g.cost2 = e.cost2
    BY <2>1, <2>2, SetFilled2 DEF Episode
  <2>4. [g EXCEPT !.cost2 = e.cost2 + e.quote2 * size] \in Episode
    BY <2>1, <2>3, SetCost2
  <2> QED
    BY <2>2, <2>3, <2>4, Zenon
<1>6. /\ f.state = "LEG2_WORKING" /\ f.avg1 = e.avg1 /\ f.filled1 = e.filled1
      /\ f.filled2 = e.filled2 + size /\ f.cost2 = e.cost2 + e.quote2 * size
      /\ f.quote2 = e.quote2 /\ f.start2 = e.start2
      /\ f.improved2 = e.improved2 /\ f.fillTs = e.fillTs
  BY DEF Episode
<1>7. WithinCap(f)
  BY <1>1, <1>2, <1>3, <1>6, CapStep DEF WithinCap
<1>8. f.filled2 <= f.filled1
  BY <1>2, <1>3, <1>6
<1>9. f.filled2 < f.filled1 => LegOK(f)
  BY <1>1, <1>6, <1>7, Leg2OK DEF LegOK
<1> HIDE DEF f
<1> QED
  BY <1>4, <1>5, <1>6, <1>7, <1>8, <1>9

\* One evaluation of the second leg leaves a sound state.
LEMMA Leg2WorkingHandled ==
  ASSUME IInv, now' = now, NEW r \in Row, NEW e \in Episode, LegOK(e),
         e.state = "LEG2_WORKING", Leg2Working(r, e)
  PROVE  Handled(r)
<1> DEFINE f == FillLeg2(e, r)
<1>1. /\ f \in Episode /\ f.state = "LEG2_WORKING" /\ WithinCap(f)
      /\ f.filled1 = e.filled1 /\ f.filled2 <= f.filled1
      /\ f.filled2 < f.filled1 => LegOK(f)
  BY FillLeg2OK, Zenon
<1>2. e.filled1 \in Nat /\ e.filled2 \in Nat /\ f.filled2 \in Nat /\ HoldsLeg(e)
  BY <1>1, EpisodeFields, Leg2OK
<1>3. e.filled2 < e.filled1
  BY <1>2 DEF HoldsLeg
<1>4. \/ EmergencyFlatten(r, e, "orphan_loss_limit_exceeded")
      \/ AbandonLeg2(r, e, WhyTooOld(e))
      \/ /\ f.filled2 >= e.filled1
         /\ CompleteMaker(r, f, "maker_complete", "pair_completed", 0)
      \/ /\ f.filled2 = e.filled2 \/ f.filled2 < e.filled1
         /\ Keep(r, f) \/ ImproveLeg2(r, f)
  BY Zenon DEF Leg2Working
<1> HIDE DEF f
<1>5. CASE EmergencyFlatten(r, e, "orphan_loss_limit_exceeded")
  <2>1. "orphan_loss_limit_exceeded" \in Reasons
    BY DEF Reasons
  <2> QED
    BY <1>5, <2>1, EmergencyHandled
<1>6. CASE AbandonLeg2(r, e, WhyTooOld(e))
  <2>1. WhyTooOld(e) \in Reasons
    BY DEF Reasons, WhyTooOld
  <2> QED
    BY <1>2, <1>6, <2>1, AbandonHandled
<1>7. CASE /\ f.filled2 >= e.filled1
           /\ CompleteMaker(r, f, "maker_complete", "pair_completed", 0)
  <2>1. f.filled1 = f.filled2
    BY <1>1, <1>2, <1>7
  <2> QED
    BY <1>1, <1>7, <2>1, MakerCompleteHandled
<1>8. CASE /\ f.filled2 = e.filled2 \/ f.filled2 < e.filled1
           /\ Keep(r, f) \/ ImproveLeg2(r, f)
  <2>1. LegOK(f)
    BY <1>1, <1>2, <1>3, <1>8
  <2> QED
    BY <1>1, <1>8, <2>1, KeepHandled, ImproveHandled
<1> QED
  BY <1>4, <1>5, <1>6, <1>7, <1>8

\* One evaluation of a directional exit leaves a sound state.
LEMMA DirectionalExitHandled ==
  ASSUME IInv, now' = now, NEW r \in Row, NEW e \in Episode, LegOK(e),
         e.state = "HEDGING_DIRECTIONAL_EXIT", DirectionalExit(r, e)
  PROVE  Handled(r)
<1>1. /\ WithinCap(e) /\ e.filled2 <= e.filled1 /\ e.exitQuote \in Int
      /\ e.exitQuote >= e.avg1 - MaxOrphanGiveback /\ e.reason \in Reasons
  BY EpisodeFields DEF LegOK, Episode
<1>2. "directional_exit" \in ExitPaths /\ "directional_exit_timeout" \in Reasons
  BY DEF ExitPaths, Reasons
<1>3. CASE FlattenTaker(r, e, "directional_exit_timeout", "directional_exit")
  BY <1>2, <1>3, FlattenHandled
<1>4. CASE CloseWithLoss(r, e, "directional_exit", e.reason, e.exitQuote, 0)
  BY <1>1, <1>2, <1>4, CloseWithLossHandled
<1>5. CASE Keep(r, e)
  BY <1>5, KeepHandled
<1> QED
  BY <1>3, <1>4, <1>5 DEF DirectionalExit

-----------------------------------------------------------------------------
(* The handlers of a working first leg.                                    *)

\* Quoting the first leg again leaves a sound state.
LEMMA RequoteHandled ==
  ASSUME IInv, now' = now, NEW r \in Row, NEW e \in Episode, LegOK(e),
         e.state = "LEG1_WORKING", RequoteLeg1(r, e)
  PROVE  Handled(r)
<1> DEFINE q == Leg1Quote(Own(e, r))
           f == [e EXCEPT !.quote1 = q, !.placed = now, !.pending = FALSE]
<1>1. /\ "leg1_no_improve_room" \in Reasons
      /\ "expected_margin_below_threshold" \in Reasons
  BY DEF Reasons
<1>2. q \in Int /\ now \in Nat
  BY RowType, BookType, PriceAssumption DEF Leg1Quote, IInv, TypeOK
<1>3. f \in Episode
  <2> HIDE DEF q
  <2>1. PICK g : g = [e EXCEPT !.quote1 = q]
    OBVIOUS
  <2>2. g \in Episode
    BY <1>2, <2>1, SetQuote1
  <2>3. PICK h : h = [g EXCEPT !.placed = now]
    OBVIOUS
  <2>4. h \in Episode
    BY <1>2, <2>2, <2>3, SetPlaced
  <2>5. [h EXCEPT !.pending = FALSE] \in Episode
    BY <2>4, SetPending
  <2> QED
    BY <2>1, <2>3, <2>5
<1>4. LegOK(f)
  <2>1. /\ f.state = "LEG1_WORKING" /\ f.filled2 = e.filled2 /\ f.cost2 = e.cost2
    BY DEF Episode
  <2> QED
    BY <2>1 DEF LegOK
<1>5. \/ CancelLeg1(r, e, "leg1_no_improve_room")
      \/ CancelLeg1(r, e, "expected_margin_below_threshold")
      \/ Keep(r, f)
  BY Zenon DEF RequoteLeg1
<1> HIDE DEF f
<1> QED
  BY <1>1, <1>3, <1>4, <1>5, CancelHandled, KeepHandled

\* Filling a part of the first leg leaves a sound state.
LEMMA TryFillHandled ==
  ASSUME IInv, now' = now, NEW r \in Row, NEW e \in Episode, LegOK(e),
         e.state = "LEG1_WORKING", TryFillLeg1(r, e)
  PROVE  Handled(r)
<1> DEFINE size == Leg1FillSize(e, r)
           f    == FillLeg1(e, size)
           g    == [f EXCEPT !.state = "LEG1_FILLED", !.fillTs = now]
<1>1. CASE Keep(r, e)
  BY <1>1, KeepHandled
<1>2. CASE size > 0 /\ (Keep(r, f) \/ OpenLeg2(r, g))
  <2>1. size \in Nat /\ now \in Nat
    <3>1. e.size1 - e.filled1 \in Int /\ Own(e, r).askSize \in Int
      BY EpisodeFields, RowType, BookType
    <3>2. size \in Int
      BY <3>1 DEF Leg1FillSize, Min2
    <3> HIDE DEF size
    <3> QED
      BY <1>2, <3>2 DEF IInv, TypeOK
  <2> HIDE DEF size
  <2>2. /\ e.filled1 \in Nat /\ e.filled1 + size \in Nat /\ e.filled1 + size > 0
        /\ WeightedAverage(e.avg1, e.filled1, e.quote1, size) \in Int
    <3>1. e.filled1 \in Nat /\ e.avg1 \in Int /\ e.quote1 \in Int
      BY EpisodeFields
    <3>2. e.filled1 + size \in Nat /\ e.filled1 + size > 0
      BY <1>2, <2>1, <3>1
    <3>3. WeightedAverage(e.avg1, e.filled1, e.quote1, size) \in Int
      BY <1>2, <2>1, <3>1, WeightedAverageType
    <3> QED
      BY <3>1, <3>2, <3>3
  <2>3. f \in Episode
    <3>1. PICK h : h = [e EXCEPT !.avg1 = WeightedAverage(e.avg1, e.filled1, e.quote1, size)]
      OBVIOUS
    <3>2. h \in Episode /\ h.filled1 = e.filled1
      BY <2>2, <3>1, SetAvg1 DEF Episode
    <3>3. [h EXCEPT !.filled1 = e.filled1 + size] \in Episode
      BY <2>2, <3>2, SetFilled1
    <3> QED
      BY <3>1, <3>2, <3>3, Zenon DEF FillLeg1
  <2>4. /\ f.state = "LEG1_WORKING" /\ f.filled1 = e.filled1 + size
        /\ f.filled2 = e.filled2 /\ f.cost2 = e.cost2
    BY DEF FillLeg1, Episode
  <2> HIDE DEF f
  <2>5. LegOK(f)
    BY <2>4 DEF LegOK
  <2>6. g \in Episode
    <3>1. PICK h : h = [f EXCEPT !.state = "LEG1_FILLED"]
      OBVIOUS
    <3>2. h \in Episode
      BY <2>3, <3>1, SetState DEF EpisodeStates
    <3>3. [h EXCEPT !.fillTs = now] \in Episode
      BY <2>1, <3>2, SetFillTs
    <3> QED
      BY <3>1, <3>3
  <2>7. g.filled1 > 0 /\ g.filled2 = 0 /\ g.cost2 = 0 /\ g.fillTs # Unset
    <3>1. /\ g.filled1 = f.filled1 /\ g.filled2 = f.filled2
          /\ g.cost2 = f.cost2 /\ g.fillTs = now
      BY <2>3 DEF Episode
    <3> QED
      BY <2>1, <2>2, <2>4, <2>5, <3>1 DEF LegOK
  <2> HIDE DEF g
  <2> QED
    BY <1>2, <2>3, <2>5, <2>6, <2>7, KeepHandled, OpenLeg2Handled
<1>3. Keep(r, e) \/ (size > 0 /\ (Keep(r, f) \/ OpenLeg2(r, g)))
  BY Zenon DEF TryFillLeg1
<1> QED
  BY <1>1, <1>2, <1>3

\* One evaluation of a working first leg leaves a sound state.
LEMMA Leg1WorkingHandled ==
  ASSUME IInv, now' = now, NEW r \in Row, NEW e \in Episode, LegOK(e),
         e.state = "LEG1_WORKING", Leg1Working(r, e)
  PROVE  Handled(r)
<1>1. "leg1_timeout" \in Reasons /\ "expected_margin_below_threshold" \in Reasons
  BY DEF Reasons
<1>2. \/ CancelLeg1(r, e, "leg1_timeout")
      \/ CancelLeg1(r, e, "expected_margin_below_threshold")
      \/ Keep(r, e) \/ RequoteLeg1(r, e) \/ TryFillLeg1(r, e)
  BY DEF Leg1Working
<1> QED
  BY <1>1, <1>2, CancelHandled, KeepHandled, RequoteHandled, TryFillHandled

-----------------------------------------------------------------------------
(* The actions.                                                            *)

\* A rebound episode is sound.
LEMMA RebindOK ==
  ASSUME NEW e \in Episode, LegOK(e), e.state # "IDLE", NEW b \in Bindings
  PROVE  Rebind(e, b) \in Episode /\ LegOK(Rebind(e, b))
<1> DEFINE f1 == [e EXCEPT !.forced = TRUE, !.binding = b, !.state = "LEG1_FILLED"]
           f2 == [e EXCEPT !.binding = b, !.requotes = @ + 1, !.pending = TRUE]
           f3 == [e EXCEPT !.forced = TRUE, !.binding = b]
<1>1. f1 \in Episode /\ f3 \in Episode
  <2>1. PICK g : g = [e EXCEPT !.forced = TRUE]
    OBVIOUS
  <2>2. g \in Episode
    BY <2>1, SetForced
  <2>3. PICK h : h = [g EXCEPT !.binding = b]
    OBVIOUS
  <2>4. h \in Episode
    BY <2>2, <2>3, SetBinding
  <2>5. [h EXCEPT !.state = "LEG1_FILLED"] \in Episode
    BY <2>4, SetState DEF EpisodeStates
  <2> QED
    BY <2>1, <2>3, <2>4, <2>5
<1>2. f2 \in Episode
  <2>1. PICK g : g = [e EXCEPT !.binding = b]
    OBVIOUS
  <2>2. g \in Episode /\ g.requotes = e.requotes /\ e.requotes + 1 \in Nat
    BY <2>1, SetBinding, EpisodeFields DEF Episode
  <2>3. PICK h : h = [g EXCEPT !.requotes = e.requotes + 1]
    OBVIOUS
  <2>4. h \in Episode
    BY <2>2, <2>3, SetRequotes
  <2>5. [h EXCEPT !.pending = TRUE] \in Episode
    BY <2>4, SetPending
  <2> QED
    BY <2>1, <2>2, <2>3, <2>5, Zenon
<1>3. /\ f1.state = "LEG1_FILLED" /\ f1.forced = TRUE /\ f1.filled1 = e.filled1
      /\ f1.filled2 = e.filled2 /\ f1.cost2 = e.cost2
  BY DEF Episode
<1>4. /\ f2.state = e.state /\ f2.filled2 = e.filled2 /\ f2.cost2 = e.cost2
  BY DEF Episode
<1>5. /\ f3.state = e.state /\ f3.forced = TRUE /\ f3.filled1 = e.filled1
      /\ f3.filled2 = e.filled2 /\ f3.cost2 = e.cost2 /\ f3.avg1 = e.avg1
      /\ f3.quote2 = e.quote2 /\ f3.start2 = e.start2 /\ f3.improved2 = e.improved2
      /\ f3.fillTs = e.fillTs /\ f3.exitQuote = e.exitQuote
      /\ f3.exitStart = e.exitStart
  BY DEF Episode
<1>6. CASE e.state = "LEG1_WORKING" /\ e.filled1 > 0
  <2>1. Rebind(e, b) = f1
    BY <1>6 DEF Rebind
  <2> HIDE DEF f1
  <2>2. LegOK(f1)
    BY <1>3, <1>6 DEF LegOK
  <2> QED
    BY <1>1, <2>1, <2>2
<1>7. CASE e.state = "LEG1_WORKING" /\ ~ (e.filled1 > 0)
  <2>1. Rebind(e, b) = f2
    BY <1>7 DEF Rebind
  <2> HIDE DEF f2
  <2>2. LegOK(f2)
    BY <1>4, <1>7 DEF LegOK
  <2> QED
    BY <1>2, <2>1, <2>2
<1>8. CASE e.state # "LEG1_WORKING"
  <2>1. Rebind(e, b) = f3
    BY <1>8 DEF Rebind
  <2> HIDE DEF f3
  <2>2. LegOK(f3)
    BY <1>5, <1>8 DEF LegOK, WithinCap
  <2> QED
    BY <1>1, <2>1, <2>2
<1> QED
  BY <1>6, <1>7, <1>8

\* The episode a row is evaluated against is sound.
LEMMA CurrentOK ==
  ASSUME IInv, NEW r \in Row
  PROVE  Current(r) \in Episode /\ LegOK(Current(r))
<1>1. /\ r.cond \in Conditions /\ r.binding \in Bindings
      /\ ep[r.cond] \in Episode /\ LegOK(ep[r.cond])
  BY DEF Row, IInv, TypeOK
<1>2. CASE Rebinds(r)
  BY <1>1, <1>2, RebindOK DEF Current, Rebinds
<1>3. CASE ~ Rebinds(r)
  BY <1>1, <1>3 DEF Current
<1> QED
  BY <1>2, <1>3

\* Noting a row's binding keeps the types of the feed.
LEMMA NoteBindingType ==
  ASSUME IInv, NEW r \in Row, NoteBinding(r)
  PROVE  /\ lastBinding' \in [Conditions -> Bindings \union {NoBinding}]
         /\ seenBindings' \in [Conditions -> SUBSET Bindings]
<1>1. r.cond \in Conditions /\ r.binding \in Bindings
  BY DEF Row
<1> QED
  BY <1>1 DEF NoteBinding, IInv, TypeOK

\* A handled evaluation keeps the inductive invariant.
LEMMA HandledStep ==
  ASSUME IInv, NEW r \in Row, NoteBinding(r), Handled(r),
         UNCHANGED <<now, opened>>
  PROVE  IInv'
<1>1. now' \in Nat /\ opened' \in [Conditions -> Nat]
  BY DEF IInv, TypeOK
<1> QED
  BY <1>1, NoteBindingType DEF Handled, IInv, TypeOK

\* Looking at the portfolio keeps the circuit breaker sound.
LEMMA ViewPortfolioOK ==
  ASSUME IInv, now' = now, ViewPortfolio
  PROVE  /\ consecutive' \in Nat /\ circuitUntil' \in Nat \union {Unset}
         /\ lossOn' \in [Days -> Nat]
         /\ CircuitArmed' /\ CooldownBounded'
BY LimitAssumption, DurationAssumption
   DEF ViewPortfolio, IInv, TypeOK, CircuitArmed, CooldownBounded

\* An answer that ends no episode satisfies the invariants on records.
LEMMA AnswerRecordOK ==
  ASSUME NEW r \in Row, NEW d \in Decisions, result' = Answer(r, d)
  PROVE  result' \in Result /\ RecordOK'
<1>1. result' \in Result /\ result'.terminal = "none"
  BY AnswerType
<1> QED
  BY <1>1 DEF RecordOK, MakerPairLocksMargin, HedgedPairBoundsLoss,
              MakerExitBoundsGiveback

\* Dropping a late row keeps the inductive invariant.
LEMMA DropLateRowStep ==
  ASSUME IInv, NEW r \in Row, DropLateRow(r)
  PROVE  IInv'
<1>1. result' \in Result /\ RecordOK'
  BY AnswerRecordOK DEF DropLateRow, Decisions
<1> QED
  BY <1>1 DEF DropLateRow, feed, risk, IInv, TypeOK, CircuitArmed, CooldownBounded

\* The episode an opening creates.
LEMMA OpenedOK ==
  ASSUME NEW b \in Bindings, NEW o \in Outcomes, NEW q \in Int, NEW s \in Int,
         NEW t \in Nat
  PROVE  LET e == [IdleEpisode EXCEPT !.state = "LEG1_WORKING", !.binding = b,
                     !.side = o, !.quote1 = q, !.size1 = s, !.placed = t]
         IN  e \in Episode /\ LegOK(e)
<1> DEFINE e == [IdleEpisode EXCEPT !.state = "LEG1_WORKING", !.binding = b,
                   !.side = o, !.quote1 = q, !.size1 = s, !.placed = t]
<1>1. e \in Episode
  <2>1. PICK e1 : e1 = [IdleEpisode EXCEPT !.state = "LEG1_WORKING"]
    OBVIOUS
  <2>2. e1 \in Episode
    BY <2>1, IdleOK, SetState DEF EpisodeStates
  <2>3. PICK e2 : e2 = [e1 EXCEPT !.binding = b]
    OBVIOUS
  <2>4. e2 \in Episode
    BY <2>2, <2>3, SetBinding
  <2>5. PICK e3 : e3 = [e2 EXCEPT !.side = o]
    OBVIOUS
  <2>6. e3 \in Episode
    BY <2>4, <2>5, SetSide
  <2>7. PICK e4 : e4 = [e3 EXCEPT !.quote1 = q]
    OBVIOUS
  <2>8. e4 \in Episode
    BY <2>6, <2>7, SetQuote1
  <2>9. PICK e5 : e5 = [e4 EXCEPT !.size1 = s]
    OBVIOUS
  <2>10. e5 \in Episode
    BY <2>8, <2>9, SetSize1
  <2>11. [e5 EXCEPT !.placed = t] \in Episode
    BY <2>10, SetPlaced
  <2> QED
    BY <2>1, <2>3, <2>5, <2>7, <2>9, <2>11
<1>2. e.state = "LEG1_WORKING" /\ e.filled2 = 0 /\ e.cost2 = 0
  BY DEF IdleEpisode
<1> HIDE DEF e
<1>3. LegOK(e)
  BY <1>2 DEF LegOK
<1> QED
  BY <1>1, <1>3 DEF e

\* Opening an episode keeps the inductive invariant.
LEMMA OpenEpisodeStep ==
  ASSUME IInv, NEW r \in Row, NEW o \in Outcomes, OpenEpisode(r, o)
  PROVE  IInv'
<1> DEFINE q == Leg1Quote(r.book[o])
           e == [IdleEpisode EXCEPT !.state = "LEG1_WORKING",
                   !.binding = r.binding, !.side = o, !.quote1 = q,
                   !.size1 = OrderSize(q), !.placed = now]
<1>1. /\ r.cond \in Conditions /\ r.binding \in Bindings /\ now \in Nat
      /\ r.book[o] \in Book
  BY FeedAssumption DEF Row, IInv, TypeOK
<1>2. q \in Int
  BY <1>1, BookType, PriceAssumption DEF Leg1Quote
<1>3. OrderSize(q) \in Int
  <2> HIDE DEF q
  <2>1. Max2(q, MinTick) \in Nat \ {0}
    BY <1>2, PriceAssumption DEF Max2
  <2>2. MaxNotionalPerMarket \div Max2(q, MinTick) \in Int
    BY <2>1, LimitAssumption
  <2> QED
    BY <2>2, LimitAssumption DEF OrderSize, Min2
<1>4. e \in Episode /\ LegOK(e)
  <2> HIDE DEF q
  <2> QED
    BY <1>1, <1>2, <1>3, OpenedOK, Zenon
<1>5. ep' = [ep EXCEPT ![r.cond] = e]
  BY Zenon DEF OpenEpisode
<1> HIDE DEF e
<1>6. ep' \in [Conditions -> Episode] /\ \A c \in Conditions : LegOK(ep'[c])
  BY <1>1, <1>4, <1>5 DEF IInv, TypeOK
<1>7. result' \in Result /\ RecordOK'
  BY AnswerRecordOK DEF OpenEpisode, Decisions
<1>8. opened' \in [Conditions -> Nat] /\ now' = now /\ now' \in Nat
  BY <1>1 DEF OpenEpisode, IInv, TypeOK
<1>9. /\ lastBinding' \in [Conditions -> Bindings \union {NoBinding}]
      /\ seenBindings' \in [Conditions -> SUBSET Bindings]
  BY NoteBindingType DEF OpenEpisode
<1>10. /\ consecutive' \in Nat /\ circuitUntil' \in Nat \union {Unset}
       /\ lossOn' \in [Days -> Nat]
       /\ CircuitArmed' /\ CooldownBounded'
  BY <1>8, ViewPortfolioOK DEF OpenEpisode
<1> QED
  BY <1>6, <1>7, <1>8, <1>9, <1>10 DEF IInv, TypeOK

\* Rejecting an opening keeps the inductive invariant.
LEMMA RejectOpenStep ==
  ASSUME IInv, NEW r \in Row, RejectOpen(r)
  PROVE  IInv'
<1>1. result' \in Result /\ RecordOK'
  BY AnswerRecordOK DEF RejectOpen, Decisions
<1>2. /\ lastBinding' \in [Conditions -> Bindings \union {NoBinding}]
      /\ seenBindings' \in [Conditions -> SUBSET Bindings]
  BY NoteBindingType DEF RejectOpen
<1>3. /\ consecutive' \in Nat /\ circuitUntil' \in Nat \union {Unset}
      /\ lossOn' \in [Days -> Nat]
      /\ CircuitArmed' /\ CooldownBounded'
  BY ViewPortfolioOK DEF RejectOpen
<1>4. UNCHANGED <<now, ep, opened>>
  BY DEF RejectOpen
<1> QED
  BY <1>1, <1>2, <1>3, <1>4 DEF IInv, TypeOK

\* A first leg out of requotes is handled soundly.
LEMMA RequoteLimitStep ==
  ASSUME IInv, NEW r \in Row, RequoteLimitExceeded(r)
  PROVE  Handled(r) /\ NoteBinding(r) /\ UNCHANGED <<now, opened>>
<1>1. r.cond \in Conditions /\ ep[r.cond] \in Episode
  BY DEF Row, IInv, TypeOK
<1>2. "leg1_requote_limit_exceeded" \in Reasons
  BY DEF Reasons
<1> QED
  BY <1>1, <1>2, CancelHandled DEF RequoteLimitExceeded

\* An evaluation of a first leg is handled soundly.
LEMMA EvaluateLeg1Step ==
  ASSUME IInv, NEW r \in Row, EvaluateLeg1(r)
  PROVE  Handled(r) /\ NoteBinding(r) /\ UNCHANGED <<now, opened>>
<1> DEFINE e == Current(r)
<1>1. /\ e \in Episode /\ LegOK(e) /\ e.state = "LEG1_WORKING"
      /\ now' = now /\ opened' = opened /\ NoteBinding(r)
  BY CurrentOK DEF EvaluateLeg1, Evaluates
<1>2. \/ CancelLeg1(r, e, "market_expired_mid_episode")
      \/ CancelLeg1(r, e, "emergency_flatten_window")
      \/ Leg1Working(r, e)
  BY Zenon DEF EvaluateLeg1
<1> HIDE DEF e
<1>3. "market_expired_mid_episode" \in Reasons /\ "emergency_flatten_window" \in Reasons
  BY DEF Reasons
<1> QED
  BY <1>1, <1>2, <1>3, CancelHandled, Leg1WorkingHandled

\* An evaluation of a filled first leg or a second leg is handled soundly.
LEMMA EvaluateLeg2Step ==
  ASSUME IInv, NEW r \in Row, EvaluateLeg2(r)
  PROVE  Handled(r) /\ NoteBinding(r) /\ UNCHANGED <<now, opened>>
<1> DEFINE e == Current(r)
<1>1. /\ e \in Episode /\ LegOK(e) /\ e.state \in {"LEG1_FILLED", "LEG2_WORKING"}
      /\ now' = now /\ opened' = opened /\ NoteBinding(r)
  BY CurrentOK DEF EvaluateLeg2, Evaluates
<1>2. \/ EmergencyFlatten(r, e, "market_expired_mid_episode")
      \/ EmergencyFlatten(r, e, "books_lost_mid_episode")
      \/ EmergencyFlatten(r, e, "emergency_flatten_window")
      \/ Keep(r, e)
      \/ ~ e.forced /\ Leg2Working(r, e)
  BY Zenon DEF EvaluateLeg2
<1> HIDE DEF e
<1>3. CASE \/ EmergencyFlatten(r, e, "market_expired_mid_episode")
           \/ EmergencyFlatten(r, e, "books_lost_mid_episode")
           \/ EmergencyFlatten(r, e, "emergency_flatten_window")
  <2>1. /\ "market_expired_mid_episode" \in Reasons
        /\ "books_lost_mid_episode" \in Reasons
        /\ "emergency_flatten_window" \in Reasons
    BY DEF Reasons
  <2> QED
    BY <1>1, <1>3, <2>1, EmergencyHandled
<1>4. CASE Keep(r, e)
  BY <1>1, <1>4, KeepHandled
<1>5. CASE ~ e.forced /\ Leg2Working(r, e)
  <2>1. e.state = "LEG2_WORKING"
    BY <1>1, <1>5 DEF LegOK
  <2> QED
    BY <1>1, <1>5, <2>1, Leg2WorkingHandled
<1> QED
  BY <1>1, <1>2, <1>3, <1>4, <1>5

\* An evaluation of an exiting leg is handled soundly.
LEMMA EvaluateDirectionalExitStep ==
  ASSUME IInv, NEW r \in Row, EvaluateDirectionalExit(r)
  PROVE  Handled(r) /\ NoteBinding(r) /\ UNCHANGED <<now, opened>>
<1> DEFINE e == Current(r)
<1>1. /\ e \in Episode /\ LegOK(e) /\ e.state = "HEDGING_DIRECTIONAL_EXIT"
      /\ now' = now /\ opened' = opened /\ NoteBinding(r)
  BY CurrentOK DEF EvaluateDirectionalExit, Evaluates
<1>2. \/ EmergencyFlatten(r, e, "market_expired_mid_episode")
      \/ EmergencyFlatten(r, e, "books_lost_mid_episode")
      \/ EmergencyFlatten(r, e, "emergency_flatten_window")
      \/ Keep(r, e)
      \/ DirectionalExit(r, e)
  BY Zenon DEF EvaluateDirectionalExit
<1> HIDE DEF e
<1>3. /\ "market_expired_mid_episode" \in Reasons
      /\ "books_lost_mid_episode" \in Reasons
      /\ "emergency_flatten_window" \in Reasons
  BY DEF Reasons
<1> QED
  BY <1>1, <1>2, <1>3, EmergencyHandled, KeepHandled, DirectionalExitHandled

\* The evaluations of an active episode.
EvaluatesEpisode(r) ==
  \/ RequoteLimitExceeded(r) \/ EvaluateLeg1(r) \/ EvaluateLeg2(r)
  \/ EvaluateDirectionalExit(r)

\* Every row that reaches an active episode is handled soundly.
LEMMA EvaluatesEpisodeStep ==
  ASSUME IInv, NEW r \in Row, EvaluatesEpisode(r)
  PROVE  Handled(r) /\ NoteBinding(r) /\ UNCHANGED <<now, opened>>
BY RequoteLimitStep, EvaluateLeg1Step, EvaluateLeg2Step,
   EvaluateDirectionalExitStep DEF EvaluatesEpisode

\* The clock keeps the inductive invariant.
LEMMA TickStep ==
  ASSUME IInv, Tick
  PROVE  IInv'
<1>1. now \in Nat /\ now' = now + 1 /\ result' = NoResult
      /\ UNCHANGED <<ep, lastBinding, seenBindings, opened,
                     consecutive, circuitUntil, lossOn>>
  BY DEF Tick, feed, risk, IInv, TypeOK
<1>2. RecordOK'
  BY <1>1 DEF NoResult, RecordOK, MakerPairLocksMargin, HedgedPairBoundsLoss,
              MakerExitBoundsGiveback
<1>3. CooldownBounded'
  BY <1>1, DurationAssumption DEF IInv, TypeOK, CooldownBounded
<1> QED
  BY <1>1, <1>2, <1>3 DEF IInv, TypeOK, CircuitArmed

-----------------------------------------------------------------------------
(* The theorems.                                                           *)

\* The inductive invariant holds initially.
LEMMA InitIInv == Init => IInv
<1> SUFFICES ASSUME Init PROVE IInv
  OBVIOUS
<1>1. TypeOK
  BY IdleOK DEF Init, TypeOK, NoBinding
<1>2. \A c \in Conditions : LegOK(ep[c])
  BY IdleOK DEF Init
<1>3. RecordOK
  BY DEF Init, NoResult, RecordOK, MakerPairLocksMargin, HedgedPairBoundsLoss,
         MakerExitBoundsGiveback
<1>4. CircuitArmed /\ CooldownBounded
  BY LimitAssumption, DurationAssumption DEF Init, CircuitArmed, CooldownBounded
<1> QED
  BY <1>1, <1>2, <1>3, <1>4 DEF IInv

\* Every step keeps the inductive invariant.
LEMMA StepIInv == IInv /\ [Next]_vars => IInv'
<1> SUFFICES ASSUME IInv, [Next]_vars PROVE IInv'
  OBVIOUS
<1>1. CASE Tick
  BY <1>1, TickStep
<1>2. ASSUME NEW r \in Row, Evaluate(r) PROVE IInv'
  BY <1>2, DropLateRowStep, OpenEpisodeStep, RejectOpenStep,
     EvaluatesEpisodeStep, HandledStep DEF Evaluate, EvaluatesEpisode
<1>3. CASE UNCHANGED vars
  BY <1>3 DEF vars, IInv, TypeOK, RecordOK, MakerPairLocksMargin,
              HedgedPairBoundsLoss, MakerExitBoundsGiveback, CircuitArmed,
              CooldownBounded
<1> QED
  BY <1>1, <1>2, <1>3 DEF Next

\* The inductive invariant holds in every reachable state.
THEOREM Inductive == Spec => []IInv
<1>1. Init => IInv
  BY InitIInv
<1>2. IInv /\ [Next]_vars => IInv'
  BY StepIInv
<1> QED
  BY <1>1, <1>2, PTL DEF Spec

\* Every variable keeps its type, whatever rows arrive.
THEOREM TypeCorrect == Spec => []TypeOK
<1>1. IInv => TypeOK
  BY DEF IInv
<1> QED
  BY <1>1, Inductive, PTL

\* An episode that holds a leg always has an order or a forced exit that gets
\* it out, with the quotes and timers that its next evaluation reads.
THEOREM HeldLegSafe == Spec => []HeldLegHasWayOut
<1>1. IInv => HeldLegHasWayOut
  BY DEF IInv, LegOK, HeldLegHasWayOut
<1> QED
  BY <1>1, Inductive, PTL

\* The cap on the second leg's quotes makes every maker pair lock its margin,
\* for any fee, tick and fill sequence.
THEOREM MakerPairSafe == Spec => []MakerPairLocksMargin
<1>1. IInv => MakerPairLocksMargin
  BY DEF IInv, RecordOK
<1> QED
  BY <1>1, Inductive, PTL

\* A taker hedge loses no more than the exit margin allows.
THEOREM HedgeSafe == Spec => []HedgedPairBoundsLoss
<1>1. IInv => HedgedPairBoundsLoss
  BY DEF IInv, RecordOK
<1> QED
  BY <1>1, Inductive, PTL

\* A maker exit gives back no more than the configured giveback.
THEOREM MakerExitSafe == Spec => []MakerExitBoundsGiveback
<1>1. IInv => MakerExitBoundsGiveback
  BY DEF IInv, RecordOK
<1> QED
  BY <1>1, Inductive, PTL

\* A full count of consecutive losses always has its cooldown.
THEOREM CircuitSafe == Spec => []CircuitArmed
<1>1. IInv => CircuitArmed
  BY DEF IInv
<1> QED
  BY <1>1, Inductive, PTL

\* An opening step meets the risk limits.
LEMMA OpenMeetsRisk ==
  ASSUME IInv, NEW r \in Row, NEW o \in Outcomes, OpenEpisode(r, o)
  PROVE  /\ circuitUntil' = Unset \/ circuitUntil' <= now
         /\ consecutive' < MaxConsecutiveOrphans
         /\ lossOn[Today] < MaxDailyLoss
<1>1. /\ ~ CircuitOpen /\ lossOn[Today] < MaxDailyLoss /\ ViewPortfolio
  BY Zenon DEF OpenEpisode, Accepts
<1>2. /\ now \in Nat /\ consecutive \in Nat /\ circuitUntil \in Nat \union {Unset}
      /\ consecutive >= MaxConsecutiveOrphans => circuitUntil # Unset
  BY DEF IInv, TypeOK, CircuitArmed
<1> QED
  BY <1>1, <1>2, LimitAssumption DEF CircuitOpen, CircuitElapsed, ViewPortfolio

\* An episode is opened only outside a cooldown and within the risk limits.
THEOREM OpensSafe == Spec => OpensRespectRisk
<1> DEFINE A == opened' # opened =>
                  /\ circuitUntil' = Unset \/ circuitUntil' <= now
                  /\ consecutive' < MaxConsecutiveOrphans
                  /\ lossOn[Today] < MaxDailyLoss
<1>1. IInv /\ [Next]_vars => [A]_vars
  <2> SUFFICES ASSUME IInv, Next, opened' # opened PROVE A
    BY DEF vars
  <2>1. ~ Tick
    BY DEF Tick
  <2>2. PICK r \in Row : Evaluate(r)
    BY <2>1 DEF Next
  <2>3. ~ DropLateRow(r) /\ ~ RejectOpen(r) /\ ~ EvaluatesEpisode(r)
    BY EvaluatesEpisodeStep DEF DropLateRow, RejectOpen
  <2>4. PICK o \in Outcomes : OpenEpisode(r, o)
    BY <2>2, <2>3 DEF Evaluate, EvaluatesEpisode
  <2> QED
    BY <2>4, OpenMeetsRisk
<1>2. Spec => [][A]_vars
  BY <1>1, Inductive, PTL DEF Spec
<1> QED
  BY <1>2 DEF OpensRespectRisk

\* A cooldown ends only by elapsing; nothing shortens it.
THEOREM CooldownSafe == Spec => CooldownStands
<1> DEFINE A == circuitUntil # Unset /\ circuitUntil' # circuitUntil =>
                  \/ circuitUntil' = Unset /\ now >= circuitUntil
                  \/ circuitUntil' # Unset /\ circuitUntil' > circuitUntil
<1>1. IInv /\ [Next]_vars => [A]_vars
  <2> SUFFICES ASSUME IInv, Next, circuitUntil # Unset,
                      circuitUntil' # circuitUntil
               PROVE  A
    BY DEF vars
  <2>1. ~ Tick
    BY DEF Tick, risk
  <2>2. PICK r \in Row : Evaluate(r)
    BY <2>1 DEF Next
  <2>3. /\ circuitUntil \in Nat /\ now \in Nat
        /\ circuitUntil <= now + CircuitCooldown
    BY DEF IInv, TypeOK, CooldownBounded
  <2>4. CASE ViewPortfolio
    BY <2>3, <2>4 DEF ViewPortfolio, CircuitElapsed
  <2>5. CASE EvaluatesEpisode(r)
    <3>1. circuitUntil' = now + CircuitCooldown
      BY <2>5, EvaluatesEpisodeStep DEF Handled
    <3> QED
      BY <2>3, <3>1, DurationAssumption
  <2>6. ~ DropLateRow(r)
    BY DEF DropLateRow, risk
  <2> QED
    BY <2>2, <2>4, <2>5, <2>6
       DEF Evaluate, EvaluatesEpisode, OpenEpisode, RejectOpen
<1>2. Spec => [][A]_vars
  BY <1>1, Inductive, PTL DEF Spec
<1> QED
  BY <1>2 DEF CooldownStands

\* Every handler that finalizes clears the episode of its row's market.
LEMMA FinalizeClears ==
  ASSUME IInv, NEW r \in Row, NEW e, NEW reason,
         CancelLeg1(r, e, reason) \/ EmergencyFlatten(r, e, reason)
  PROVE  ep'[r.cond].state = "IDLE"
<1>1. r.cond \in Conditions /\ ep \in [Conditions -> Episode]
  BY DEF Row, IInv, TypeOK
<1>2. ep' = [ep EXCEPT ![r.cond] = IdleEpisode]
  BY DEF CancelLeg1, EmergencyFlatten, FlattenTaker, CloseWithLoss, Finalize
<1> QED
  BY <1>1, <1>2 DEF IdleEpisode

\* Within ForceFlatten of the close, or after it, an evaluation clears the
\* episode of its market.
LEMMA WindowClears ==
  ASSUME IInv, NEW r \in Row, EvaluatesEpisode(r),
         CloseTime[r.cond] - now <= ForceFlatten
  PROVE  ep'[r.cond].state = "IDLE"
<1>1. CloseTime[r.cond] \in Nat /\ now \in Nat
  BY FeedAssumption DEF Row, IInv, TypeOK
<1>2. Expired(r) \/ InFlattenWindow(r)
  BY <1>1 DEF Expired, InFlattenWindow
<1>3. CASE RequoteLimitExceeded(r)
  BY <1>3, FinalizeClears DEF RequoteLimitExceeded
<1>4. CASE EvaluateLeg1(r)
  <2>1. \/ CancelLeg1(r, Current(r), "market_expired_mid_episode")
        \/ CancelLeg1(r, Current(r), "emergency_flatten_window")
    BY <1>2, <1>4, Zenon DEF EvaluateLeg1
  <2> QED
    BY <2>1, FinalizeClears
<1>5. CASE EvaluateLeg2(r) \/ EvaluateDirectionalExit(r)
  <2>1. \/ EmergencyFlatten(r, Current(r), "market_expired_mid_episode")
        \/ EmergencyFlatten(r, Current(r), "books_lost_mid_episode")
        \/ EmergencyFlatten(r, Current(r), "emergency_flatten_window")
    BY <1>2, <1>5, Zenon DEF EvaluateLeg2, EvaluateDirectionalExit
  <2> QED
    BY <2>1, FinalizeClears
<1> QED
  BY <1>3, <1>4, <1>5 DEF EvaluatesEpisode

\* No row leaves an episode behind in the flatten window, for any timeouts
\* that pass the check of the configuration.
THEOREM FlattenSafe == Spec => []FlattenWindowLeavesNothing
<1>1. Init => FlattenWindowLeavesNothing
  BY DEF Init, NoResult, FlattenWindowLeavesNothing
<1>2. IInv /\ FlattenWindowLeavesNothing /\ [Next]_vars
        => FlattenWindowLeavesNothing'
  <2> SUFFICES ASSUME IInv, FlattenWindowLeavesNothing, [Next]_vars
               PROVE  FlattenWindowLeavesNothing'
    OBVIOUS
  <2>1. CASE UNCHANGED vars
    BY <2>1 DEF vars, FlattenWindowLeavesNothing
  <2>2. CASE Tick
    BY <2>2 DEF Tick, NoResult, FlattenWindowLeavesNothing
  <2>3. ASSUME NEW r \in Row, Evaluate(r)
        PROVE  FlattenWindowLeavesNothing'
    <3>1. CloseTime[r.cond] \in Nat /\ now \in Nat /\ ForceFlatten \in Nat
      BY FeedAssumption, DurationAssumption DEF Row, IInv, TypeOK
    <3>2. CASE DropLateRow(r)
      BY <3>2 DEF DropLateRow, Answer, FlattenWindowLeavesNothing
    <3>3. ASSUME NEW o \in Outcomes, OpenEpisode(r, o)
          PROVE  FlattenWindowLeavesNothing'
      <4>1. result'.cond = r.cond /\ now' = now
        BY <3>3 DEF OpenEpisode, Answer
      <4>2. CloseTime[r.cond] - now > ForceFlatten
        BY <3>1, <3>3 DEF OpenEpisode, Accepts, InWindow
      <4> QED
        BY <4>1, <4>2 DEF FlattenWindowLeavesNothing
    <3>4. CASE RejectOpen(r)
      BY <3>4 DEF RejectOpen, Answer, FlattenWindowLeavesNothing
    <3>5. CASE EvaluatesEpisode(r)
      <4>1. result'.cond = r.cond /\ now' = now
        BY <3>5, EvaluatesEpisodeStep DEF Handled
      <4>2. CloseTime[r.cond] - now > ForceFlatten \/ ep'[r.cond].state = "IDLE"
        BY <3>1, <3>5, WindowClears
      <4> QED
        BY <4>1, <4>2 DEF FlattenWindowLeavesNothing
    <3> QED
      BY <2>3, <3>2, <3>3, <3>4, <3>5 DEF Evaluate, EvaluatesEpisode
  <2> QED
    BY <2>1, <2>2, <2>3 DEF Next
<1> QED
  BY <1>1, <1>2, Inductive, PTL DEF Spec

-----------------------------------------------------------------------------
(* Sessions and deadlines: what an evaluation keeps of its episode.        *)

\* An episode has the fields of MakerEpisode, whichever were assigned.
HasFields(e) == DOMAIN e = DOMAIN IdleEpisode

\* A working first leg is never forced out, and a second leg was improved no
\* more often than allowed.
Worked(e) ==
  /\ HasFields(e)
  /\ e.state = "LEG1_WORKING" => ~ e.forced
  /\ e.state = "LEG2_WORKING" => e.attempt2 <= Leg2MaxImproves

\* The episode of a market is bound to the last session the market reported.
BoundToLast(c) ==
  ep[c].state # "IDLE" =>
    ep[c].binding = lastBinding[c] /\ lastBinding[c] \in Bindings

Attached == \A c \in Conditions : Worked(ep[c]) /\ BoundToLast(c)

\* An episode that is evaluated on fresh books and goes on is within its limits.
Timely(e) ==
  /\ ~ e.forced
  /\ e.state = "LEG2_WORKING" =>
       /\ e.attempt2 <= Leg2MaxImproves
       /\ now - e.fillTs <= MaxOrphanSeconds
       /\ now - e.start2 <= Leg2Timeout
  /\ e.state = "HEDGING_DIRECTIONAL_EXIT" =>
       now - e.exitStart <= DirectionalExitTimeout

\* The two ends of an evaluation of e: the episode goes on in its session, or
\* it is finalized and its market is idle.
GoesOn(r, e) ==
  \E f : /\ Keep(r, f) /\ f.binding = e.binding /\ Worked(f)
         /\ Evaluable(r) => Timely(f)
Ends(r) == ep' = [ep EXCEPT ![r.cond] = IdleEpisode] /\ result'.decision = "COMPLETE"

\* The fields of an idle episode.
LEMMA Fields ==
  ASSUME NEW e, HasFields(e)
  PROVE  \A x \in {"state", "binding", "forced", "fillTs", "start2", "improved2",
                   "attempt2", "exitStart", "placed", "pending", "filled1", "filled2",
                   "quote1", "avg1", "quote2", "cost2", "max2", "exitQuote", "reason",
                   "requotes"} : x \in DOMAIN e
BY DEF HasFields, IdleEpisode

\* A typed episode has the fields.
LEMMA TypedHasFields == ASSUME NEW e \in Episode PROVE HasFields(e)
BY DEF Episode, HasFields, IdleEpisode

\* The handlers that finalize.
LEMMA FinalizeEnds ==
  ASSUME NEW r, NEW e, NEW reason, NEW path, NEW fee, NEW price,
         \/ CancelLeg1(r, e, reason) \/ CompleteMaker(r, e, path, reason, fee)
         \/ CloseWithLoss(r, e, path, reason, price, fee)
         \/ FlattenTaker(r, e, reason, path) \/ EmergencyFlatten(r, e, reason)
  PROVE  Ends(r)
<1>1. ASSUME NEW f, NEW t, NEW p, NEW w, NEW n, Finalize(r, f, t, p, w, n)
      PROVE  Ends(r)
  <2>1. /\ ep' = [ep EXCEPT ![r.cond] = IdleEpisode]
        /\ result' = [decision |-> "COMPLETE", cond |-> r.cond, books |-> Books(r),
                      terminal |-> t, path |-> p, reason |-> w, pnl |-> n,
                      avg1 |-> f.avg1, filled1 |-> f.filled1, filled2 |-> f.filled2]
    BY <1>1, Zenon DEF Finalize
  <2> QED BY <2>1 DEF Ends
<1> QED
  BY <1>1, Zenon DEF CancelLeg1, CompleteMaker, CloseWithLoss, FlattenTaker,
                     EmergencyFlatten

\* Giving up the second leg ends the episode or starts the clock of its exit.
LEMMA AbandonGoes ==
  ASSUME now \in Nat, NEW r, NEW e, HasFields(e), ~ e.forced, NEW reason,
         AbandonLeg2(r, e, reason)
  PROVE  GoesOn(r, e) \/ Ends(r)
<1>1. CASE TakerHedge(r, e, reason)
  BY <1>1, FinalizeEnds DEF TakerHedge
<1>2. CASE OpenDirectionalExit(r, e, reason)
  <2> DEFINE f == [e EXCEPT !.state = "HEDGING_DIRECTIONAL_EXIT",
                            !.exitQuote = ExitQuote(e.avg1, Own(e, r).bid),
                            !.exitStart = now, !.reason = reason]
  <2>1. Keep(r, f) BY <1>2, Zenon DEF OpenDirectionalExit
  <2>2. /\ HasFields(f) /\ f.state = "HEDGING_DIRECTIONAL_EXIT" /\ f.exitStart = now
        /\ f.binding = e.binding /\ f.forced = e.forced
    BY Fields DEF HasFields
  <2> HIDE DEF f
  <2>3. Worked(f) /\ Timely(f) BY <2>2, DurationAssumption DEF Worked, Timely
  <2> QED BY <2>1, <2>2, <2>3 DEF GoesOn
<1> QED BY <1>1, <1>2 DEF AbandonLeg2

\* A second leg is opened with all its clocks at the present.
LEMMA OpenLeg2Goes ==
  ASSUME now \in Nat, NEW r, NEW e, HasFields(e), ~ e.forced, e.fillTs = now,
         OpenLeg2(r, e)
  PROVE  GoesOn(r, e) \/ Ends(r)
<1> DEFINE cap == Leg2MaxPrice(e.avg1)
           e2  == [e EXCEPT !.state = "LEG2_WORKING", !.max2 = cap, !.start2 = now,
                            !.improved2 = now, !.attempt2 = 0]
           f   == [e2 EXCEPT !.quote2 = Leg2Quote(Other(e, r), 1, cap)]
<1>1. AbandonLeg2(r, e2, "leg2_max_price_below_bid") \/ Keep(r, f)
  BY Zenon DEF OpenLeg2
<1>2. /\ HasFields(e2) /\ e2.state = "LEG2_WORKING" /\ e2.start2 = now /\ e2.attempt2 = 0
      /\ e2.fillTs = now /\ e2.binding = e.binding /\ e2.forced = e.forced
  BY Fields DEF HasFields
<1> HIDE DEF e2
<1>3. /\ HasFields(f) /\ f.state = "LEG2_WORKING" /\ f.start2 = now /\ f.attempt2 = 0
      /\ f.fillTs = now /\ f.binding = e.binding /\ f.forced = e.forced
  BY <1>2, Fields DEF HasFields
<1> HIDE DEF f
<1>4. CASE AbandonLeg2(r, e2, "leg2_max_price_below_bid")
  <2>1. GoesOn(r, e2) \/ Ends(r) BY <1>2, <1>4, AbandonGoes
  <2> QED BY <1>2, <2>1 DEF GoesOn
<1>5. CASE Keep(r, f)
  <2>1. Worked(f) /\ Timely(f)
    BY <1>3, DurationAssumption, LimitAssumption DEF Worked, Timely
  <2> QED BY <1>3, <1>5, <2>1 DEF GoesOn
<1> QED BY <1>1, <1>4, <1>5

\* A second leg within its deadlines.
InTime(e) == /\ HasFields(e) /\ e.state = "LEG2_WORKING" /\ ~ e.forced
             /\ e.attempt2 <= Leg2MaxImproves /\ ~ OrphanTooOld(e)

\* An episode in time that goes on is timely.
LEMMA InTimeKept ==
  ASSUME now \in Nat, NEW e, InTime(e), e.fillTs \in Int, e.start2 \in Int
  PROVE  Worked(e) /\ Timely(e)
BY DurationAssumption DEF InTime, Worked, Timely, OrphanTooOld

\* An improvement counts the attempts and gives up after the last.
LEMMA ImproveGoes ==
  ASSUME now \in Nat, NEW r, NEW e, InTime(e), e.fillTs \in Int, e.start2 \in Int,
         ImproveLeg2(r, e)
  PROVE  GoesOn(r, e) \/ Ends(r)
<1> DEFINE cap == Leg2MaxPrice(e.avg1)
           e2  == [e EXCEPT !.attempt2 = @ + 1, !.improved2 = now]
           e3  == [e2 EXCEPT !.max2 = cap]
           f   == [e3 EXCEPT !.quote2 =
                     Max2(@, Leg2Quote(Other(e, r), Leg2ImproveStepTicks, cap))]
<1>1. \/ AbandonLeg2(r, e2, "leg2_improves_exhausted")
      \/ AbandonLeg2(r, e3, "leg2_max_price_below_bid")
      \/ e2.attempt2 <= Leg2MaxImproves /\ Keep(r, f)
  BY Zenon DEF ImproveLeg2
<1>2. /\ HasFields(e2) /\ e2.state = e.state /\ e2.start2 = e.start2
      /\ e2.fillTs = e.fillTs /\ e2.binding = e.binding /\ e2.forced = e.forced
  BY Fields DEF HasFields, InTime
<1> HIDE DEF e2
<1>3. /\ HasFields(e3) /\ e3.state = e.state /\ e3.start2 = e.start2
      /\ e3.fillTs = e.fillTs /\ e3.binding = e.binding /\ e3.forced = e.forced
      /\ e3.attempt2 = e2.attempt2
  BY <1>2, Fields DEF HasFields
<1> HIDE DEF e3
<1>4. /\ HasFields(f) /\ f.state = e.state /\ f.start2 = e.start2
      /\ f.fillTs = e.fillTs /\ f.binding = e.binding /\ f.forced = e.forced
      /\ f.attempt2 = e2.attempt2
  BY <1>3, Fields DEF HasFields
<1> HIDE DEF f
<1>5. ASSUME NEW g, HasFields(g), g.binding = e.binding, g.forced = e.forced,
             NEW reason, AbandonLeg2(r, g, reason)
      PROVE  GoesOn(r, e) \/ Ends(r)
  <2>1. ~ g.forced BY <1>5 DEF InTime
  <2>2. GoesOn(r, g) \/ Ends(r) BY <1>5, <2>1, AbandonGoes
  <2> QED BY <1>5, <2>2 DEF GoesOn
<1>6. CASE e2.attempt2 <= Leg2MaxImproves /\ Keep(r, f)
  <2>1. InTime(f) /\ f.fillTs \in Int /\ f.start2 \in Int
    BY <1>4, <1>6 DEF InTime, OrphanTooOld
  <2>2. Worked(f) /\ Timely(f) BY <2>1, InTimeKept
  <2> QED BY <1>4, <1>6, <2>2 DEF GoesOn
<1> QED BY <1>1, <1>2, <1>3, <1>5, <1>6

\* One evaluation of the second leg.
LEMMA Leg2WorkingGoes ==
  ASSUME now \in Nat, NEW r, NEW e \in Episode, e.state = "LEG2_WORKING", ~ e.forced,
         Worked(e), Leg2Working(r, e)
  PROVE  GoesOn(r, e) \/ Ends(r)
<1> DEFINE f == FillLeg2(e, r)
<1>1. \/ EmergencyFlatten(r, e, "orphan_loss_limit_exceeded")
      \/ AbandonLeg2(r, e, WhyTooOld(e))
      \/ ~ OrphanTooOld(e) /\ \/ CompleteMaker(r, f, "maker_complete", "pair_completed", 0)
                              \/ Keep(r, f)
                              \/ ImproveLeg2(r, f)
  BY Zenon DEF Leg2Working
<1>2. HasFields(e) BY TypedHasFields
<1>3. /\ HasFields(f) /\ f.state = e.state /\ f.start2 = e.start2 /\ f.fillTs = e.fillTs
      /\ f.attempt2 = e.attempt2 /\ f.binding = e.binding /\ f.forced = e.forced
  BY <1>2, Fields DEF HasFields, FillLeg2
<1> HIDE DEF f
<1>4. CASE EmergencyFlatten(r, e, "orphan_loss_limit_exceeded")
  BY <1>4, FinalizeEnds
<1>5. CASE AbandonLeg2(r, e, WhyTooOld(e))
  BY <1>2, <1>5, AbandonGoes
<1>6. CASE CompleteMaker(r, f, "maker_complete", "pair_completed", 0)
  BY <1>6, FinalizeEnds
<1>7. ASSUME ~ OrphanTooOld(e)
      PROVE  InTime(f) /\ f.fillTs \in Int /\ f.start2 \in Int
  BY <1>3, <1>7 DEF InTime, Worked, OrphanTooOld, Episode, Unset
<1>8. CASE ~ OrphanTooOld(e) /\ Keep(r, f)
  <2>1. Worked(f) /\ Timely(f) BY <1>7, <1>8, InTimeKept
  <2> QED BY <1>3, <1>8, <2>1 DEF GoesOn
<1>9. CASE ~ OrphanTooOld(e) /\ ImproveLeg2(r, f)
  <2>1. GoesOn(r, f) \/ Ends(r) BY <1>7, <1>9, ImproveGoes
  <2> QED BY <1>3, <2>1 DEF GoesOn
<1> QED BY <1>1, <1>4, <1>5, <1>6, <1>8, <1>9

\* One evaluation of an exit order.
LEMMA DirectionalExitGoes ==
  ASSUME now \in Nat, NEW r, NEW e \in Episode, e.state = "HEDGING_DIRECTIONAL_EXIT",
         ~ e.forced, Worked(e), DirectionalExit(r, e)
  PROVE  GoesOn(r, e) \/ Ends(r)
<1>1. \/ FlattenTaker(r, e, "directional_exit_timeout", "directional_exit")
      \/ CloseWithLoss(r, e, "directional_exit", e.reason, e.exitQuote, 0)
      \/ now - e.exitStart <= DirectionalExitTimeout /\ Keep(r, e)
  BY Zenon DEF DirectionalExit
<1>2. CASE now - e.exitStart <= DirectionalExitTimeout /\ Keep(r, e)
  <2>1. Timely(e) BY <1>2 DEF Timely
  <2> QED BY <1>2, <2>1 DEF GoesOn
<1> QED BY <1>1, <1>2, FinalizeEnds

\* One evaluation of a working first leg.
LEMMA Leg1WorkingGoes ==
  ASSUME now \in Nat, NEW r, NEW e \in Episode, e.state = "LEG1_WORKING", Worked(e),
         Leg1Working(r, e)
  PROVE  GoesOn(r, e) \/ Ends(r)
<1>1. \/ CancelLeg1(r, e, "leg1_timeout") \/ Keep(r, e) \/ RequoteLeg1(r, e)
      \/ CancelLeg1(r, e, "expected_margin_below_threshold") \/ TryFillLeg1(r, e)
  BY Zenon DEF Leg1Working
<1>2. HasFields(e) /\ ~ e.forced BY DEF Worked
<1>3. ASSUME NEW f, HasFields(f), f.state = "LEG1_WORKING", f.forced = e.forced,
             f.binding = e.binding, Keep(r, f)
      PROVE  GoesOn(r, e)
  <2>1. Worked(f) /\ Timely(f) BY <1>2, <1>3 DEF Worked, Timely
  <2> QED BY <1>3, <2>1 DEF GoesOn
<1>4. CASE RequoteLeg1(r, e)
  <2> DEFINE f == [e EXCEPT !.quote1 = Leg1Quote(Own(e, r)), !.placed = now,
                            !.pending = FALSE]
  <2>1. \/ CancelLeg1(r, e, "leg1_no_improve_room")
        \/ CancelLeg1(r, e, "expected_margin_below_threshold") \/ Keep(r, f)
    BY <1>4, Zenon DEF RequoteLeg1
  <2>2. /\ HasFields(f) /\ f.state = e.state /\ f.forced = e.forced
        /\ f.binding = e.binding
    BY <1>2, Fields DEF HasFields
  <2> HIDE DEF f
  <2> QED BY <1>3, <2>1, <2>2, FinalizeEnds
<1>5. CASE TryFillLeg1(r, e)
  <2> DEFINE f == FillLeg1(e, Leg1FillSize(e, r))
             g == [f EXCEPT !.state = "LEG1_FILLED", !.fillTs = now]
  <2>1. Keep(r, e) \/ Keep(r, f) \/ OpenLeg2(r, g)
    BY <1>5, Zenon DEF TryFillLeg1
  <2>2. /\ HasFields(f) /\ f.state = e.state /\ f.forced = e.forced
        /\ f.binding = e.binding
    BY <1>2, Fields DEF HasFields, FillLeg1
  <2> HIDE DEF f
  <2>3. /\ HasFields(g) /\ g.fillTs = now /\ g.forced = e.forced
        /\ g.binding = e.binding
    BY <2>2, Fields DEF HasFields
  <2> HIDE DEF g
  <2>4. CASE OpenLeg2(r, g)
    <3>1. GoesOn(r, g) \/ Ends(r) BY <1>2, <2>3, <2>4, OpenLeg2Goes
    <3> QED BY <2>3, <3>1 DEF GoesOn
  <2> QED BY <1>2, <1>3, <2>1, <2>2, <2>4
<1> QED BY <1>1, <1>2, <1>3, <1>4, <1>5, FinalizeEnds

\* A rebound episode carries the new session, and its deadlines stand.
LEMMA RebindWorked ==
  ASSUME NEW e, Worked(e), e.state # "IDLE", NEW b
  PROVE  /\ Worked(Rebind(e, b)) /\ Rebind(e, b).binding = b
         /\ Rebind(e, b).state # "IDLE"
         /\ Rebind(e, b).filled1 = e.filled1 /\ Rebind(e, b).filled2 = e.filled2
         /\ IF e.state = "LEG1_WORKING" /\ ~ (e.filled1 > 0)
            THEN Rebind(e, b).state = "LEG1_WORKING" /\ Rebind(e, b).pending
            ELSE Rebind(e, b).state # "LEG1_WORKING" /\ Rebind(e, b).forced
<1> DEFINE f1 == [e EXCEPT !.forced = TRUE, !.binding = b, !.state = "LEG1_FILLED"]
           f2 == [e EXCEPT !.binding = b, !.requotes = @ + 1, !.pending = TRUE]
           f3 == [e EXCEPT !.forced = TRUE, !.binding = b]
<1>1. HasFields(e) BY DEF Worked
<1>2. /\ HasFields(f1) /\ f1.forced = TRUE /\ f1.binding = b /\ f1.state = "LEG1_FILLED"
      /\ f1.filled1 = e.filled1 /\ f1.filled2 = e.filled2
  BY <1>1, Fields DEF HasFields
<1>3. /\ HasFields(f2) /\ f2.forced = e.forced /\ f2.binding = b /\ f2.state = e.state
      /\ f2.filled1 = e.filled1 /\ f2.filled2 = e.filled2 /\ f2.pending = TRUE
  BY <1>1, Fields DEF HasFields
<1>4. /\ HasFields(f3) /\ f3.forced = TRUE /\ f3.binding = b /\ f3.state = e.state
      /\ f3.filled1 = e.filled1 /\ f3.filled2 = e.filled2 /\ f3.attempt2 = e.attempt2
  BY <1>1, Fields DEF HasFields
<1>5. CASE e.state = "LEG1_WORKING" /\ e.filled1 > 0
  <2>1. Rebind(e, b) = f1 BY <1>5 DEF Rebind
  <2> HIDE DEF f1
  <2> QED BY <1>2, <1>5, <2>1 DEF Worked
<1>6. CASE e.state = "LEG1_WORKING" /\ ~ (e.filled1 > 0)
  <2>1. Rebind(e, b) = f2 BY <1>6 DEF Rebind
  <2> HIDE DEF f2
  <2> QED BY <1>3, <1>6, <2>1 DEF Worked
<1>7. CASE e.state # "LEG1_WORKING"
  <2>1. Rebind(e, b) = f3 BY <1>7 DEF Rebind
  <2> HIDE DEF f3
  <2> QED BY <1>4, <1>7, <2>1 DEF Worked
<1> QED BY <1>5, <1>6, <1>7

\* The episode a row is evaluated against carries the row's own session.
LEMMA CurrentAttached ==
  ASSUME IInv, Attached, NEW r \in Row, Current(r).state # "IDLE"
  PROVE  /\ ep[r.cond].state # "IDLE" /\ Worked(Current(r))
         /\ Current(r).binding = r.binding /\ lastBinding[r.cond] \in Bindings
         /\ BindingChanged(r) => Rebinds(r) /\ Current(r) = Rebind(ep[r.cond], r.binding)
<1> DEFINE c == r.cond
<1>1. c \in Conditions /\ r.binding \in Bindings /\ ep[c] \in Episode
  BY DEF Row, IInv, TypeOK
<1>2. Worked(ep[c]) /\ BoundToLast(c) BY <1>1 DEF Attached
<1>3. ep[c].state # "IDLE" BY <1>2 DEF Current, Rebinds
<1>4. ep[c].binding = lastBinding[c] /\ lastBinding[c] \in Bindings
  BY <1>2, <1>3 DEF BoundToLast
<1>5. lastBinding[c] # NoBinding BY <1>4, FeedAssumption DEF NoBinding
<1>6. CASE r.binding # lastBinding[c]
  <2>1. Rebinds(r) BY <1>3, <1>4, <1>5, <1>6 DEF Rebinds, BindingChanged
  <2>2. Current(r) = Rebind(ep[c], r.binding) BY <2>1 DEF Current
  <2> QED BY <1>2, <1>3, <1>4, <2>1, <2>2, RebindWorked
<1>7. CASE r.binding = lastBinding[c]
  <2>1. ~ BindingChanged(r) /\ Current(r) = ep[c]
    BY <1>7 DEF BindingChanged, Rebinds, Current
  <2> QED BY <1>2, <1>3, <1>4, <1>7, <2>1
<1> QED BY <1>6, <1>7

\* An evaluation of an active episode ends it or lets it go on in the row's
\* session.
LEMMA EvaluationGoes ==
  ASSUME IInv, Attached, NEW r \in Row, EvaluatesEpisode(r)
  PROVE  /\ ~ Late(r) /\ NoteBinding(r) /\ ep[r.cond].state # "IDLE"
         /\ \/ Ends(r)
            \/ Current(r).binding = r.binding /\ GoesOn(r, Current(r))
<1> DEFINE e == Current(r)
<1>1. now \in Nat /\ e \in Episode BY CurrentOK DEF IInv, TypeOK
<1>2. CASE RequoteLimitExceeded(r)
  <2>1. Ends(r) BY <1>2, FinalizeEnds DEF RequoteLimitExceeded
  <2> QED BY <1>2, <2>1 DEF RequoteLimitExceeded, RequoteLimitHit
<1>3. ASSUME NEW states, Evaluates(r, states), "IDLE" \notin states,
             Ends(r) \/ (Worked(e) => GoesOn(r, e) \/ Ends(r))
      PROVE  /\ ~ Late(r) /\ NoteBinding(r) /\ ep[r.cond].state # "IDLE"
             /\ Ends(r) \/ (e.binding = r.binding /\ GoesOn(r, e))
  <2>1. e.state # "IDLE" BY <1>3 DEF Evaluates
  <2>2. /\ ep[r.cond].state # "IDLE" /\ Worked(e) /\ e.binding = r.binding
    BY <2>1, CurrentAttached
  <2> QED BY <1>3, <2>2 DEF Evaluates
<1>4. ASSUME Keep(r, e), ~ Evaluable(r), Worked(e)
      PROVE  GoesOn(r, e)
  BY <1>4 DEF GoesOn
<1>5. CASE EvaluateLeg1(r)
  <2>1. /\ Evaluates(r, {"LEG1_WORKING"}) /\ e.state = "LEG1_WORKING"
        /\ \/ CancelLeg1(r, e, "market_expired_mid_episode")
           \/ CancelLeg1(r, e, "emergency_flatten_window")
           \/ Leg1Working(r, e)
    BY <1>5, Zenon DEF EvaluateLeg1, Evaluates
  <2> HIDE DEF e
  <2>2. Worked(e) => GoesOn(r, e) \/ Ends(r)
    BY <1>1, <2>1, FinalizeEnds, Leg1WorkingGoes
  <2> QED BY <1>3, <2>1, <2>2 DEF e
<1>6. CASE EvaluateLeg2(r)
  <2>1. /\ Evaluates(r, {"LEG1_FILLED", "LEG2_WORKING"})
        /\ e.state \in {"LEG1_FILLED", "LEG2_WORKING"} /\ LegOK(e)
        /\ \/ EmergencyFlatten(r, e, "market_expired_mid_episode")
           \/ EmergencyFlatten(r, e, "books_lost_mid_episode")
           \/ EmergencyFlatten(r, e, "emergency_flatten_window")
           \/ ~ Evaluable(r) /\ Keep(r, e)
           \/ ~ e.forced /\ Leg2Working(r, e)
    BY <1>6, CurrentOK, Zenon DEF EvaluateLeg2, Evaluates
  <2> HIDE DEF e
  <2>2. ASSUME Worked(e), ~ e.forced, Leg2Working(r, e) PROVE GoesOn(r, e) \/ Ends(r)
    <3>1. e.state = "LEG2_WORKING" BY <2>1, <2>2 DEF LegOK
    <3> QED BY <1>1, <2>2, <3>1, Leg2WorkingGoes
  <2>3. Worked(e) => GoesOn(r, e) \/ Ends(r)
    BY <1>4, <2>1, <2>2, FinalizeEnds
  <2> QED BY <1>3, <2>1, <2>3 DEF e
<1>7. CASE EvaluateDirectionalExit(r)
  <2>1. /\ Evaluates(r, {"HEDGING_DIRECTIONAL_EXIT"})
        /\ e.state = "HEDGING_DIRECTIONAL_EXIT"
        /\ \/ EmergencyFlatten(r, e, "market_expired_mid_episode")
           \/ EmergencyFlatten(r, e, "books_lost_mid_episode")
           \/ EmergencyFlatten(r, e, "emergency_flatten_window")
           \/ ~ Evaluable(r) /\ Keep(r, e)
           \/ ~ e.forced /\ DirectionalExit(r, e)
    BY <1>7, Zenon DEF EvaluateDirectionalExit, Evaluates
  <2> HIDE DEF e
  <2>2. Worked(e) => GoesOn(r, e) \/ Ends(r)
    BY <1>1, <1>4, <2>1, FinalizeEnds, DirectionalExitGoes
  <2> QED BY <1>3, <2>1, <2>2 DEF e
<1> QED BY <1>2, <1>5, <1>6, <1>7 DEF EvaluatesEpisode

\* The episode of a market not evaluated, and its session, stay as they are.
LEMMA OthersStand ==
  ASSUME IInv, NEW r \in Row, NEW f, ep' = [ep EXCEPT ![r.cond] = f], NoteBinding(r)
  PROVE  /\ ep'[r.cond] = f /\ lastBinding'[r.cond] = r.binding
         /\ \A c \in Conditions \ {r.cond} :
              ep'[c] = ep[c] /\ lastBinding'[c] = lastBinding[c]
BY DEF IInv, TypeOK, NoteBinding, Row

\* What is kept when the market of a row gets an episode in the row's session.
LEMMA AttachedStep ==
  ASSUME IInv, Attached, NEW r \in Row, NoteBinding(r), NEW f, Worked(f),
         f.state # "IDLE" => f.binding = r.binding, ep' = [ep EXCEPT ![r.cond] = f]
  PROVE  Attached'
<1> SUFFICES ASSUME NEW c \in Conditions PROVE (Worked(ep[c]) /\ BoundToLast(c))'
  BY DEF Attached
<1>1. r.binding \in Bindings BY DEF Row
<1>2. CASE c = r.cond
  <2>1. ep'[c] = f /\ lastBinding'[c] = r.binding BY <1>2, OthersStand
  <2> QED BY <1>1, <2>1 DEF BoundToLast, Worked, HasFields
<1>3. CASE c # r.cond
  <2>1. ep'[c] = ep[c] /\ lastBinding'[c] = lastBinding[c] BY <1>3, OthersStand
  <2>2. Worked(ep[c]) /\ BoundToLast(c) BY DEF Attached
  <2> QED BY <2>1, <2>2 DEF BoundToLast, Worked, HasFields
<1> QED BY <1>2, <1>3

\* The idle episode has all its fields and no deadline.
LEMMA IdleWorked == Worked(IdleEpisode) /\ IdleEpisode.state = "IDLE"
BY DEF IdleEpisode, Worked, HasFields

\* A new episode works its first leg in the session of its row.
LEMMA OpenAttached ==
  ASSUME IInv, Attached, NEW r \in Row, NEW o \in Outcomes, OpenEpisode(r, o)
  PROVE  Attached'
<1> DEFINE e == [IdleEpisode EXCEPT !.state = "LEG1_WORKING", !.binding = r.binding,
                   !.side = o, !.quote1 = Leg1Quote(r.book[o]),
                   !.size1 = OrderSize(Leg1Quote(r.book[o])), !.placed = now]
<1>1. ep' = [ep EXCEPT ![r.cond] = e] /\ NoteBinding(r)
  BY Zenon DEF OpenEpisode
<1>2. HasFields(e) /\ e.state = "LEG1_WORKING" /\ ~ e.forced /\ e.binding = r.binding
  BY DEF HasFields, IdleEpisode
<1> HIDE DEF e
<1>3. Worked(e) BY <1>2 DEF Worked
<1> QED BY <1>1, <1>2, <1>3, AttachedStep

\* Every step keeps sessions and deadlines attached.
LEMMA AttachedKept == IInv /\ Attached /\ [Next]_vars => Attached'
<1> SUFFICES ASSUME IInv, Attached, [Next]_vars PROVE Attached'
  OBVIOUS
<1>1. CASE UNCHANGED <<ep, lastBinding>>
  BY <1>1 DEF Attached, BoundToLast, Worked, HasFields
<1>2. ASSUME NEW r \in Row, Evaluate(r) PROVE Attached'
  <2>1. CASE DropLateRow(r)
    BY <1>1, <2>1 DEF DropLateRow, feed
  <2>2. ASSUME NEW o \in Outcomes, OpenEpisode(r, o) PROVE Attached'
    BY <2>2, OpenAttached
  <2>3. CASE RejectOpen(r)
    <3>1. r.cond \in Conditions /\ ep' = [ep EXCEPT ![r.cond] = ep[r.cond]]
      BY <2>3 DEF RejectOpen, Row, IInv, TypeOK
    <3>2. Worked(ep[r.cond]) /\ ep[r.cond].state = "IDLE" /\ NoteBinding(r)
      BY <2>3, <3>1 DEF RejectOpen, Attached
    <3> QED BY <3>1, <3>2, AttachedStep
  <2>4. CASE EvaluatesEpisode(r)
    <3>1. NoteBinding(r) BY <2>4, EvaluationGoes
    <3>2. CASE Ends(r)
      BY <3>1, <3>2, IdleWorked, AttachedStep DEF Ends
    <3>3. CASE Current(r).binding = r.binding /\ GoesOn(r, Current(r))
      <4>1. PICK f : Keep(r, f) /\ f.binding = r.binding /\ Worked(f)
        BY <3>3 DEF GoesOn
      <4> QED BY <3>1, <4>1, AttachedStep DEF Keep
    <3> QED BY <2>4, <3>2, <3>3, EvaluationGoes
  <2> QED BY <1>2, <2>1, <2>2, <2>3, <2>4 DEF Evaluate, EvaluatesEpisode
<1>3. CASE Tick BY <1>1, <1>3 DEF Tick, feed
<1>4. CASE UNCHANGED vars BY <1>1, <1>4 DEF vars
<1> QED BY <1>2, <1>3, <1>4 DEF Next

\* In every reachable state each episode is bound to the last session of its
\* market, unforced while its first leg works, and improved within its limit.
THEOREM SessionsAttached == Spec => []Attached
<1>1. Init => Attached
  BY IdleWorked DEF Init, Attached, BoundToLast
<1> QED BY <1>1, AttachedKept, Inductive, PTL DEF Spec

\* A row that is not late brings a session its market has not had, and no
\* older generation.
LEMMA NewSession ==
  ASSUME IInv, NEW r \in Row, ~ Late(r), NoteBinding(r),
         lastBinding[r.cond] \in Bindings \union {NoBinding},
         r.binding # lastBinding[r.cond]
  PROVE  /\ r.binding \notin seenBindings[r.cond]
         /\ r.binding[1] >= lastBinding[r.cond][1]
<1> DEFINE b == r.binding
           l == lastBinding[r.cond]
<1>1. b[1] \in Nat /\ l[1] \in Nat /\ (l = NoBinding => l[1] = 0)
  BY FeedAssumption DEF Row, NoBinding
<1>2. ~ BindingIsStale(b, l, seenBindings[r.cond]) BY DEF Late
<1> QED BY <1>1, <1>2 DEF BindingIsStale

\* Every step that evaluates a row either leaves the sessions alone or notes
\* the session of a row that is not late.
LEMMA NotesOrStands ==
  ASSUME IInv, Attached, NEW r \in Row, Evaluate(r)
  PROVE  \/ UNCHANGED <<lastBinding, ep>>
         \/ ~ Late(r) /\ NoteBinding(r)
<1>1. CASE DropLateRow(r) BY <1>1 DEF DropLateRow, feed
<1>2. CASE \E o \in Outcomes : OpenEpisode(r, o) BY <1>2 DEF OpenEpisode
<1>3. CASE RejectOpen(r) BY <1>3 DEF RejectOpen
<1>4. CASE EvaluatesEpisode(r) BY <1>4, EvaluationGoes
<1> QED BY <1>1, <1>2, <1>3, <1>4 DEF Evaluate, EvaluatesEpisode

\* _binding_is_stale and _note_binding: no market goes back to a session or a
\* generation it has left, and its episode follows it.
THEOREM SessionsSafe == Spec => SessionsOnlyAdvance
<1> DEFINE A == \A c \in Conditions :
                  /\ ep'[c].state # "IDLE" => ep'[c].binding = lastBinding'[c]
                  /\ lastBinding'[c] # lastBinding[c] =>
                       /\ lastBinding'[c] \notin seenBindings[c]
                       /\ lastBinding'[c][1] >= lastBinding[c][1]
<1>1. IInv /\ Attached /\ Attached' /\ [Next]_vars => [A]_vars
  <2> SUFFICES ASSUME IInv, Attached, Attached', Next, NEW c \in Conditions,
                      lastBinding'[c] # lastBinding[c]
               PROVE  /\ lastBinding'[c] \notin seenBindings[c]
                      /\ lastBinding'[c][1] >= lastBinding[c][1]
    BY DEF Attached, BoundToLast
  <2>1. PICK r \in Row : Evaluate(r) BY DEF Next, Tick, feed
  <2>2. ~ Late(r) /\ NoteBinding(r) BY <2>1, NotesOrStands
  <2>3. c = r.cond /\ lastBinding'[c] = r.binding
    BY <2>2 DEF NoteBinding, Row, IInv, TypeOK
  <2>4. lastBinding[r.cond] \in Bindings \union {NoBinding}
    BY <2>3 DEF IInv, TypeOK
  <2> QED BY <2>2, <2>3, <2>4, NewSession
<1>2. Spec => [][A]_vars
  BY <1>1, Inductive, SessionsAttached, PTL DEF Spec
<1> QED BY <1>2 DEF SessionsOnlyAdvance

\* What the row of a new session may do to the episode of its market.
Unfilled(c) ==
  IF ep'[c].state # "IDLE"
  THEN /\ ep'[c].filled1 = ep[c].filled1
       /\ ep'[c].filled2 = ep[c].filled2
       /\ \/ ep'[c].forced \/ ep'[c].pending
          \/ ep'[c].placed = now /\ ep'[c].filled1 = 0
  ELSE /\ result'.path \in {"none", "emergency_flatten"}
       /\ result'.filled1 = ep[c].filled1
       /\ result'.filled2 = ep[c].filled2

\* An episode cancelled or flattened with the shares it had.
LEMMA GivenUpUnfilled ==
  ASSUME IInv, NEW r \in Row, NEW e, NEW reason,
         e.filled1 = ep[r.cond].filled1, e.filled2 = ep[r.cond].filled2,
         CancelLeg1(r, e, reason) \/ EmergencyFlatten(r, e, reason)
  PROVE  Unfilled(r.cond)
<1>1. ep'[r.cond].state = "IDLE" BY FinalizeClears
<1>2. ASSUME NEW path, NEW terminal, NEW pnl, path \in {"none", "emergency_flatten"},
             Finalize(r, e, terminal, path, reason, pnl)
      PROVE  Unfilled(r.cond)
  <2>1. result' = [decision |-> "COMPLETE", cond |-> r.cond, books |-> Books(r),
                   terminal |-> terminal, path |-> path, reason |-> reason,
                   pnl |-> pnl, avg1 |-> e.avg1, filled1 |-> e.filled1,
                   filled2 |-> e.filled2]
    BY <1>2, Zenon DEF Finalize
  <2>2. /\ result'.path = path /\ result'.filled1 = e.filled1
        /\ result'.filled2 = e.filled2
    BY <2>1
  <2> QED BY <1>1, <1>2, <2>2 DEF Unfilled
<1>3. CASE CancelLeg1(r, e, reason)
  <2>1. Finalize(r, e, "LEG1_CANCELLED", "none", reason, 0)
    BY <1>3 DEF CancelLeg1
  <2> QED BY <1>2, <2>1
<1>4. CASE EmergencyFlatten(r, e, reason)
  <2> DEFINE price == Own(e, r).bid
             fee   == TakerFee(price, Orphan(e))
             pnl   == e.filled2 * (Payout - e.avg1) - e.cost2
                        + Orphan(e) * (price - e.avg1) - fee
                        - (e.filled1 + e.filled2) * GasPerShare
  <2>1. Finalize(r, e, "CLOSED_WITH_LOSS", "emergency_flatten", reason, pnl)
    BY <1>4, Zenon DEF EmergencyFlatten, FlattenTaker, CloseWithLoss
  <2> HIDE DEF pnl
  <2> QED BY <1>2, <2>1
<1> QED BY <1>3, <1>4

\* An episode kept with the shares it had.
LEMMA KeptUnfilled ==
  ASSUME IInv, NEW r \in Row, NEW f, Keep(r, f), f.state # "IDLE",
         f.filled1 = ep[r.cond].filled1, f.filled2 = ep[r.cond].filled2,
         f.forced \/ f.pending \/ (f.placed = now /\ f.filled1 = 0)
  PROVE  Unfilled(r.cond)
<1>1. r.cond \in Conditions /\ ep \in [Conditions -> Episode]
  BY DEF Row, IInv, TypeOK
<1>2. ep'[r.cond] = f BY <1>1 DEF Keep
<1> QED BY <1>2 DEF Unfilled

\* The row of a new session fills nothing, whatever its books offer.
LEMMA NewSessionUnfilled ==
  ASSUME IInv, Attached, NEW r \in Row, EvaluatesEpisode(r), BindingChanged(r),
         ep[r.cond].state # "IDLE"
  PROVE  Unfilled(r.cond)
<1> DEFINE e == Current(r)
<1>1. /\ r.cond \in Conditions /\ ep[r.cond] \in Episode /\ Worked(ep[r.cond])
      /\ LegOK(ep[r.cond])
  BY DEF Row, IInv, TypeOK, Attached
<1>2. CASE RequoteLimitExceeded(r)
  BY <1>2, GivenUpUnfilled DEF RequoteLimitExceeded
<1>3. ASSUME e.state # "IDLE"
      PROVE  /\ HasFields(e) /\ e.filled1 = ep[r.cond].filled1
             /\ e.filled2 = ep[r.cond].filled2
             /\ e.state = "LEG1_WORKING" => e.pending /\ e.filled1 = 0
             /\ e.state # "LEG1_WORKING" => e.forced
  <2>1. e = Rebind(ep[r.cond], r.binding) BY <1>3, CurrentAttached
  <2>2. ep[r.cond].filled1 \in Nat BY <1>1 DEF Episode
  <2> QED BY <1>1, <2>1, <2>2, RebindWorked DEF Worked
<1>4. CASE EvaluateLeg1(r)
  <2> DEFINE f == [e EXCEPT !.quote1 = Leg1Quote(Own(e, r)), !.placed = now,
                            !.pending = FALSE]
  <2>1. e.state = "LEG1_WORKING" BY <1>4, Zenon DEF EvaluateLeg1, Evaluates
  <2>2. e.pending /\ e.filled1 = 0 /\ HasFields(e) BY <1>3, <2>1
  <2>3. \/ \E reason : CancelLeg1(r, e, reason)
        \/ Keep(r, e) \/ Keep(r, f)
    BY <1>4, <2>2, Zenon DEF EvaluateLeg1, Leg1Working, RequoteLeg1
  <2>4. /\ f.filled1 = e.filled1 /\ f.filled2 = e.filled2 /\ f.placed = now
        /\ f.state = e.state
    BY <2>2, Fields DEF HasFields
  <2> HIDE DEF e, f
  <2> QED BY <1>3, <2>1, <2>2, <2>3, <2>4, GivenUpUnfilled, KeptUnfilled
<1>5. CASE EvaluateLeg2(r) \/ EvaluateDirectionalExit(r)
  <2>1. e.state \in {"LEG1_FILLED", "LEG2_WORKING", "HEDGING_DIRECTIONAL_EXIT"}
    BY <1>5 DEF EvaluateLeg2, EvaluateDirectionalExit, Evaluates
  <2>2. e.forced BY <1>3, <2>1
  <2>3. (\E reason : EmergencyFlatten(r, e, reason)) \/ Keep(r, e)
    BY <1>5, <2>2, Zenon DEF EvaluateLeg2, EvaluateDirectionalExit
  <2> HIDE DEF e
  <2> QED BY <1>3, <2>1, <2>2, <2>3, GivenUpUnfilled, KeptUnfilled
<1> QED BY <1>2, <1>4, <1>5 DEF EvaluatesEpisode

\* _note_binding and _episode_path: a quote of one session never fills on the
\* row that reports another.
THEOREM NoFillSafe == Spec => NoFillAcrossSessions
<1> DEFINE A == \A c \in Conditions :
                  /\ lastBinding[c] # NoBinding /\ lastBinding'[c] # lastBinding[c]
                  /\ ep[c].state # "IDLE"
                  => IF ep'[c].state # "IDLE"
                     THEN /\ ep'[c].filled1 = ep[c].filled1
                          /\ ep'[c].filled2 = ep[c].filled2
                          /\ \/ ep'[c].forced \/ ep'[c].pending
                             \/ ep'[c].placed = now /\ ep'[c].filled1 = 0
                     ELSE /\ result'.path \in {"none", "emergency_flatten"}
                          /\ result'.filled1 = ep[c].filled1
                          /\ result'.filled2 = ep[c].filled2
<1>1. IInv /\ Attached /\ [Next]_vars => [A]_vars
  <2> SUFFICES ASSUME IInv, Attached, Next, NEW c \in Conditions,
                      lastBinding[c] # NoBinding, lastBinding'[c] # lastBinding[c],
                      ep[c].state # "IDLE"
               PROVE  Unfilled(c)
    BY DEF Unfilled
  <2>1. PICK r \in Row : Evaluate(r) BY DEF Next, Tick, feed
  <2>2. NoteBinding(r) BY <2>1, NotesOrStands
  <2>3. c = r.cond /\ lastBinding'[c] = r.binding
    BY <2>2 DEF NoteBinding, Row, IInv, TypeOK
  <2>4. BindingChanged(r) BY <2>3 DEF BindingChanged
  <2>5. EvaluatesEpisode(r)
    BY <2>1, <2>3 DEF Evaluate, EvaluatesEpisode, DropLateRow, feed, OpenEpisode,
                      RejectOpen
  <2> QED BY <2>3, <2>4, <2>5, NewSessionUnfilled
<1>2. Spec => [][A]_vars
  BY <1>1, Inductive, SessionsAttached, PTL DEF Spec
<1> QED BY <1>2 DEF NoFillAcrossSessions

\* _leg2_working and _directional_exit: an episode left working by a row with
\* fresh books is unforced and within every deadline of its state.
THEOREM OrphanSafe == Spec => []OrphanBoundedWhenEvaluated
<1>1. Init => OrphanBoundedWhenEvaluated
  BY DEF Init, NoResult, OrphanBoundedWhenEvaluated
<1>2. IInv /\ Attached /\ OrphanBoundedWhenEvaluated /\ [Next]_vars
        => OrphanBoundedWhenEvaluated'
  <2> SUFFICES ASSUME IInv, Attached, OrphanBoundedWhenEvaluated, [Next]_vars,
                      result'.decision = "WORKING", result'.books = "fresh"
               PROVE  (~ ep[result.cond].forced /\ Timely(ep[result.cond]))'
    BY DEF OrphanBoundedWhenEvaluated, Timely
  <2>1. CASE UNCHANGED vars
    BY <2>1 DEF vars, OrphanBoundedWhenEvaluated, Timely
  <2>2. ~ Tick BY DEF Tick, NoResult
  <2>3. ASSUME NEW r \in Row, Evaluate(r)
        PROVE  (~ ep[result.cond].forced /\ Timely(ep[result.cond]))'
    <3>1. ~ DropLateRow(r) /\ ~ RejectOpen(r) /\ \A o \in Outcomes : ~ OpenEpisode(r, o)
      <4>1. ASSUME NEW d, result' = Answer(r, d) PROVE d = "WORKING"
        BY <4>1 DEF Answer
      <4>2. /\ DropLateRow(r) => result' = Answer(r, "DROPPED")
            /\ RejectOpen(r) => result' = Answer(r, "REJECT")
            /\ \A o \in Outcomes : OpenEpisode(r, o) => result' = Answer(r, "ACCEPT")
        BY Zenon DEF DropLateRow, RejectOpen, OpenEpisode
      <4> QED BY <4>1, <4>2
    <3>2. EvaluatesEpisode(r) BY <2>3, <3>1 DEF Evaluate, EvaluatesEpisode
    <3>3. GoesOn(r, Current(r)) /\ now' = now
      BY <3>2, EvaluationGoes, EvaluatesEpisodeStep DEF Ends
    <3>4. PICK f : Keep(r, f) /\ (Evaluable(r) => Timely(f)) BY <3>3 DEF GoesOn
    <3>5. result'.cond = r.cond /\ Evaluable(r)
      BY <3>4 DEF Keep, Answer, Books
    <3>6. ep'[r.cond] = f BY <3>4 DEF Keep, Row, IInv, TypeOK
    <3> QED BY <3>3, <3>4, <3>5, <3>6 DEF Timely
  <2> QED BY <2>1, <2>2, <2>3 DEF Next
<1> QED BY <1>1, <1>2, Inductive, SessionsAttached, PTL DEF Spec
================================================================================
