---------------------------- MODULE EvShadowProofs ----------------------------
(***************************************************************************)
(* Proofs about the expected-value evaluator, for every market file, every *)
(* order of messages, every calibration log and every configuration.       *)
(*                                                                         *)
(* What a row says was decided by the poll that wrote it, so the invariant *)
(* keeps, beside the types of the files, that the rows at hand are those   *)
(* the poll makes of the present files (AuditIsPolled); what those files   *)
(* promise was built up by many steps: the order of the settlement prices  *)
(* (FeedOrdered), where the anchor came from (AnchorIsOpening) and the log *)
(* the map was built from, which has only grown since (MapIsBuilt).        *)
(***************************************************************************)
EXTENDS EvShadow, InductionLemmas, SequenceTheorems

Modes    == {"gamma", "live_boundary", "restart_backfill"}
Openings == SourcePrices[MarketInfo.source] \cup ({m.open : m \in ScanResults} \ {None})

VenueOK ==
  /\ venue \in [updated : Nat, stats : AssetStats,
                sources : [Sources -> [price : OptionalNat, at : OptionalNat,
                                       status : SourceStatuses]]]
  /\ venue.updated <= now
  /\ \A s \in Sources :
       /\ venue.sources[s].at # None => venue.sources[s].at <= venue.updated
       /\ venue.sources[s].price # None => venue.sources[s].price \in SourcePrices[s]

\* Of two settlement prices the later came a tick later for each one between
\* them; a price is made before it is received.
FeedOrdered ==
  /\ feed \in Seq([stamp : Nat, at : Nat, price : SourcePrices[MarketInfo.source]])
  /\ \A i \in DOMAIN feed : feed[i].stamp <= feed[i].at /\ feed[i].at <= now
  /\ \A i, j \in DOMAIN feed : i <= j => feed[i].at + (j - i) <= feed[j].at

AnchorTyped ==
  anchor # None => /\ anchor.mode \in Modes /\ anchor.price \in Openings
                   /\ anchor.at \in Nat /\ anchor.at <= now

\* The map was built from the log of one configuration at an earlier time, and
\* predictions have only been added since.
MapIsBuilt ==
  map # None =>
    \E logged \in [Predictions -> Nat], made \in {1, 2}, at \in Nat :
      /\ map = BuildMap(logged, made, at) /\ at <= now
      /\ \A k \in Predictions : logged[k] <= log[k]

\* The rows at hand are those a poll makes of the files as they are.
AuditIsPolled ==
  \A a \in audit : \E e \in Events :
    a.rows = EventRows(e, Context(anchor)) /\ a.hedges = TerminalHedge(a.rows, e)

\* The inductive invariant.
IInv ==
  /\ now \in 0..Horizon /\ inputs \in 0..MaxInputs /\ cohort \in {1, 2}
  /\ market \in ScanResults
  /\ log \in [Predictions -> Nat]
  /\ VenueOK /\ FeedOrdered /\ AnchorTyped /\ AnchorIsOpening /\ MapIsBuilt
  /\ AuditIsPolled
-----------------------------------------------------------------------------
(* Numbers and checks.                                                     *)

\* The least of some natural numbers.
LEMMA MinNat ==
  ASSUME NEW S \in SUBSET Nat, S # {}
  PROVE  Min(S) \in S /\ \A n \in S : Min(S) <= n
<1>1. PICK m \in S : \A n \in S : m <= n
  BY LeastNat
<1> QED BY <1>1 DEF Min

\* The greatest of some bounded natural numbers.
LEMMA MaxNat ==
  ASSUME NEW n \in Nat, NEW S \in SUBSET (0..n), S # {}
  PROVE  Max(S) \in S /\ \A m \in S : m <= Max(S)
<1> DEFINE T == {k \in 0..n : n - k \in S}
<1>1. T \in SUBSET Nat /\ T # {}
  <2>1. PICK m \in S : TRUE OBVIOUS
  <2>2. n - m \in 0..n /\ n - (n - m) = m OBVIOUS
  <2>3. n - m \in T BY <2>2
  <2> QED BY <2>3
<1>2. PICK t \in T : \A u \in T : t <= u
  <2> HIDE DEF T
  <2> QED BY <1>1, LeastNat
<1>3. t \in 0..n /\ n - t \in S BY <1>2
<1>4. ASSUME NEW k \in S PROVE k <= n - t
  <2>1. n - k \in T
    <3>1. k \in 0..n OBVIOUS
    <3>2. n - k \in 0..n /\ n - (n - k) = k BY <3>1
    <3> QED BY <3>2
  <2> QED BY <1>2, <1>3, <2>1
<1> QED BY <1>3, <1>4 DEF Max

\* The first reason of some checks is one of their reasons.
LEMMA FirstIsReason ==
  ASSUME NEW checks, DOMAIN checks \in SUBSET Nat, NEW default
  PROVE  /\ Held(checks) = {} => FirstOr(checks, default) = default
         /\ Held(checks) # {} => FirstOr(checks, default) \in Reasons(checks)
         /\ Held(checks) = {} <=> Reasons(checks) = {}
<1>1. Held(checks) \in SUBSET Nat
  BY DEF Held
<1>2. Held(checks) # {} => Min(Held(checks)) \in Held(checks)
  BY <1>1, MinNat
<1> QED BY <1>2 DEF FirstOr, Reasons

\* An absent value is no number, status or reason.
LEMMA NoneDistinct ==
  None \notin Int /\ None \notin SourceRejections /\ None \notin ReferenceBlocks
BY ConfigAssumption

\* The parameters are natural numbers.
LEMMA ConfigTypes ==
  /\ Config.minNetEv \in Nat /\ Config.minProbability \in Nat
  /\ Config.latencyFloor \in Nat /\ Config.latencyCap \in Nat
  /\ Config.settlementBuffer \in Nat /\ Config.modelBuffer \in Nat
  /\ Config.executionBuffer \in Nat /\ Config.lotteryMin \in Nat /\ Config.lotteryMax \in Nat
  /\ Config.blend \in Nat /\ Config.minLiquidity \in Nat /\ Config.maxSlippage \in Nat
  /\ Config.maxBookAge \in Nat /\ Config.maxSkew \in Nat /\ Config.maxDivergence \in Nat
  /\ Config.minModelSamples \in Nat /\ Config.minModelSpan \in Nat
  /\ Config.mapMaxAge \in Nat /\ Config.minSamples \in Nat
  /\ Config.priorWeight \in Nat /\ Config.priorWeight > 0
  /\ Config.maxReversalLoss \in Nat /\ Config.minHedgePnl \in Nat
  /\ Config.maxHedgeRatio \in Nat
BY ConfigAssumption DEF ConfigFields
-----------------------------------------------------------------------------
(* The reference.                                                          *)

\* The age of a source that counts as fresh is how long ago it was heard of.
LEMMA FreshIsHeard ==
  ASSUME now \in Nat, VenueOK, NEW s \in Sources, EffectiveStatus(venue, now, s) = "FRESH"
  PROVE  /\ Heard(s)
         /\ EffectiveAge(venue, now, s) \in 0..now
         /\ EffectiveAge(venue, now, s) <= SourceInfo[s].limit
<1> DEFINE row == venue.sources[s]
<1>1. /\ row.at \in OptionalNat /\ (row.at # None => row.at <= venue.updated)
      /\ venue.updated \in Nat /\ venue.updated <= now
  BY DEF VenueOK
<1>2. row.status = "FRESH" /\ EffectiveAge(venue, now, s) # None
      /\ ~(EffectiveAge(venue, now, s) > SourceInfo[s].limit)
  BY DEF EffectiveStatus
<1>3. row.at # None /\ EffectiveAge(venue, now, s)
        = (venue.updated - row.at) + Greatest(0, now - venue.updated)
  BY <1>2 DEF EffectiveAge
<1>4. EffectiveAge(venue, now, s) = now - row.at
  BY <1>1, <1>3 DEF Greatest, OptionalNat
<1>5. SourceInfo[s].limit \in Nat BY ConfigAssumption
<1> QED BY <1>1, <1>2, <1>3, <1>4, <1>5 DEF Heard, OptionalNat

\* A row's valid sources are those that may be used for the quorum or for settlement.
LEMMA ValidMeansUsable ==
  ASSUME now \in Nat, VenueOK, NEW s \in Sources
  PROVE  SourceRole(venue, now, s).rejection = None <=>
           /\ s \in FreshSources(venue, now) \ Outliers(venue, now)
           /\ SourceInfo[s].spot \/ s = MarketInfo.source
<1> DEFINE price  == venue.sources[s].price
           status == NormalizedStatus(venue, now, s)
           usable == status = "FRESH" /\ price # None
           checks == << <<status # "FRESH", status>>, <<price = None, "missing_price">> >>
           other  == FirstOr(checks, "wrong_market_type")
<1>1. venue.sources[s].status \in SourceStatuses
  BY DEF VenueOK
<1>2. EffectiveStatus(venue, now, s) \in SourceStatuses \cup {"STALE"}
  BY <1>1 DEF EffectiveStatus, SourceStatuses
<1>3. status \in SourceRejections
  BY <1>2 DEF NormalizedStatus, SourceStatuses, SourceRejections
<1>4. usable <=> s \in FreshSources(venue, now) \ Outliers(venue, now)
  BY <1>2 DEF NormalizedStatus, FreshSources, Outliers, SourceStatuses
<1>5. other # None
  <2>1. DOMAIN checks \in SUBSET Nat OBVIOUS
  <2>2. \A r \in Reasons(checks) : r \in SourceRejections
    <3>1. Reasons(checks) \subseteq {status, "missing_price"}
      BY DEF Reasons, Held
    <3> HIDE DEF checks, status
    <3> QED BY <1>3, <3>1 DEF SourceRejections
  <2>3. other \in Reasons(checks) \cup {"wrong_market_type"}
    <3> HIDE DEF checks
    <3> QED BY <2>1, FirstIsReason
  <2> HIDE DEF checks, other
  <2> QED BY <2>2, <2>3, NoneDistinct DEF SourceRejections
<1>6. SourceRole(venue, now, s).rejection
        = IF usable /\ (SourceInfo[s].spot \/ s = MarketInfo.source) THEN None ELSE other
  BY DEF SourceRole
<1> HIDE DEF usable, other
<1> QED BY <1>4, <1>5, <1>6

\* What the reference of a row says of the sources.
LEMMA ReferenceSays ==
  ASSUME now \in Nat, VenueOK
  PROVE  LET ref    == Reference(venue, now)
             usable == FreshSources(venue, now) \ Outliers(venue, now)
             spot   == {s \in usable : SourceInfo[s].spot}
         IN  /\ ref.block \in ReferenceBlocks \cup {None}
             /\ ref.block = None => /\ ~(Cardinality(spot) < 2)
                                    /\ \E s \in spot : SourceInfo[s].usd
                                    /\ ~Diverges(venue, spot)
             /\ ref.verified => MarketInfo.source \in usable
             /\ ref.age \in (0..now) \cup {None}
             /\ ref.roles = [s \in Sources |-> SourceRole(venue, now, s)]
<1> DEFINE ref    == Reference(venue, now)
           usable == FreshSources(venue, now) \ Outliers(venue, now)
           spot   == {s \in usable : SourceInfo[s].spot}
           fresh  == MarketInfo.source \in FreshSources(venue, now)
           checks == << <<Cardinality(spot) < 2, "insufficient_reference_sources">>,
                        <<\A s \in spot : ~SourceInfo[s].usd,
                          "required_usd_spot_source_unavailable">>,
                        <<~fresh, "settlement_reference_unavailable">>,
                        <<Diverges(venue, spot), "cross_source_divergence_exceeded">> >>
           aged   == spot \cup (usable \cap {MarketInfo.source})
           ages   == {EffectiveAge(venue, now, s) : s \in aged}
<1>1. /\ ref.block = FirstOr(checks, None)
      /\ ref.verified = (MarketInfo.verified /\ MarketInfo.source \in usable)
      /\ ref.age = IF aged = {} THEN None ELSE Max(ages)
      /\ ref.roles = [s \in Sources |-> SourceRole(venue, now, s)]
  BY DEF Reference
<1>2. DOMAIN checks \in SUBSET Nat /\ Reasons(checks) \subseteq ReferenceBlocks
  <2>1. DOMAIN checks = 1..4 OBVIOUS
  <2>2. \A i \in 1..4 : checks[i][2] \in ReferenceBlocks BY DEF ReferenceBlocks
  <2> HIDE DEF checks
  <2> QED BY <2>1, <2>2 DEF Reasons, Held
<1>3. ASSUME Held(checks) = {}
      PROVE  /\ ~(Cardinality(spot) < 2) /\ \E s \in spot : SourceInfo[s].usd
             /\ ~Diverges(venue, spot)
  <2>1. checks[1][1] = (Cardinality(spot) < 2) OBVIOUS
  <2>2. checks[2][1] = (\A s \in spot : ~SourceInfo[s].usd) OBVIOUS
  <2>3. checks[4][1] = Diverges(venue, spot) OBVIOUS
  <2>4. DOMAIN checks = 1..4 OBVIOUS
  <2> HIDE DEF checks, spot
  <2>5. ~checks[1][1] /\ ~checks[2][1] /\ ~checks[4][1] BY <1>3, <2>4 DEF Held
  <2> QED BY <2>1, <2>2, <2>3, <2>5
<1> HIDE DEF checks
<1>4. FirstOr(checks, None) \in ReferenceBlocks \cup {None}
  BY <1>2, FirstIsReason
<1>5. FirstOr(checks, None) = None => Held(checks) = {}
  BY <1>2, FirstIsReason, NoneDistinct
<1>7. ref.age \in (0..now) \cup {None}
  <2>1. \A s \in aged : s \in Sources /\ EffectiveStatus(venue, now, s) = "FRESH"
    BY DEF FreshSources
  <2>2. ages \in SUBSET (0..now)
    BY <2>1, FreshIsHeard
  <2>3. aged # {} => ages # {} OBVIOUS
  <2> HIDE DEF ages, aged
  <2>4. aged # {} => Max(ages) \in 0..now
    BY <2>2, <2>3, MaxNat
  <2> QED BY <1>1, <2>4
<1> HIDE DEF ages, aged, fresh
<1> QED BY <1>1, <1>3, <1>4, <1>5, <1>7 DEF ref, usable, spot

\* A reference without a reason against it, and verified, names live evidence
\* for a decision.
LEMMA QuorumMet ==
  ASSUME now \in Nat, VenueOK,
         Reference(venue, now).block = None, Reference(venue, now).verified
  PROVE  LET valid == ValidSources(Reference(venue, now).roles)
             spot  == {s \in valid : SourceInfo[s].spot}
         IN  /\ Settlement \in valid
             /\ Cardinality(spot) >= 2 /\ \E s \in spot : SourceInfo[s].usd
             /\ ~Diverges(venue, spot)
<1> DEFINE valid  == ValidSources(Reference(venue, now).roles)
           usable == FreshSources(venue, now) \ Outliers(venue, now)
           spot   == {s \in usable : SourceInfo[s].spot}
<1>1. valid = {s \in Sources : /\ s \in usable
                               /\ SourceInfo[s].spot \/ s = MarketInfo.source}
  BY ReferenceSays, ValidMeansUsable DEF ValidSources
<1>2. usable \subseteq Sources BY DEF FreshSources
<1>3. {s \in valid : SourceInfo[s].spot} = spot
  BY <1>1, <1>2
<1>4. IsFiniteSet(spot) /\ Cardinality(spot) \in Nat
  <2>1. IsFiniteSet(Sources) BY ConfigAssumption
  <2>2. spot \in SUBSET Sources BY <1>2
  <2> HIDE DEF spot
  <2> QED BY <2>1, <2>2, FS_Subset, FS_CardinalityType
<1>5. /\ ~(Cardinality(spot) < 2) /\ \E s \in spot : SourceInfo[s].usd
      /\ ~Diverges(venue, spot) /\ MarketInfo.source \in usable
  BY ReferenceSays
<1>6. Settlement \in valid BY <1>1, <1>2, <1>5 DEF Settlement
<1>7. Cardinality(spot) >= 2 BY <1>4, <1>5
<1> QED BY <1>3, <1>5, <1>6, <1>7

\* A valid source was heard within its limit and is connected.
LEMMA ValidIsHeard ==
  ASSUME now \in Nat, VenueOK, NEW s \in ValidSources(Reference(venue, now).roles)
  PROVE  Heard(s)
<1>1. s \in Sources /\ SourceRole(venue, now, s).rejection = None
  BY ReferenceSays DEF ValidSources
<1>2. s \in FreshSources(venue, now) BY <1>1, ValidMeansUsable
<1> QED BY <1>1, <1>2, FreshIsHeard DEF FreshSources
-----------------------------------------------------------------------------
(* Decisions.                                                              *)

LowEv    == "net_ev_below_threshold"
Taken    == "terminal_hedged_opportunity"
Verdicts == {LowEv, Taken}

\* Where no common check blocks, except perhaps for the expected value, the
\* reference, the price to beat and the probability are there.
LEMMA NothingElseBlocks ==
  ASSUME NEW x, x.reference.block \in ReferenceBlocks \cup {None},
         None \in {x.model.beat, x.probability} => x.modelBlock \notin Verdicts,
         Reasons(CommonRejections(x)) \subseteq {LowEv}
  PROVE  /\ x.reference.block = None /\ x.reference.verified
         /\ x.model.beat # None /\ x.probability # None
<1> DEFINE checks == CommonRejections(x)
<1>0. Reasons(checks) \subseteq {LowEv} OBVIOUS
<1>1. DOMAIN checks = 1..13 BY DEF CommonRejections
<1>2. checks[5][1] = (x.reference.block # None) BY DEF CommonRejections
<1>3. checks[5][2] = x.reference.block BY DEF CommonRejections
<1>4. checks[6][1] = (~x.reference.verified) BY DEF CommonRejections
<1>5. checks[6][2] = "settlement_reference_unverified" BY DEF CommonRejections
<1>6. checks[8][1] = (None \in {x.model.beat, x.probability}) BY DEF CommonRejections
<1>7. checks[8][2] = x.modelBlock BY DEF CommonRejections
<1> HIDE DEF checks
<1>8. \A i \in 1..13 : checks[i][1] => checks[i][2] = LowEv
  BY <1>0, <1>1 DEF Reasons, Held
<1>9. checks[5][1] => checks[5][2] = LowEv BY <1>8
<1>10. checks[6][1] => checks[6][2] = LowEv BY <1>8
<1>11. checks[8][1] => checks[8][2] = LowEv BY <1>8
<1>12. ~checks[5][1] BY <1>2, <1>3, <1>9 DEF ReferenceBlocks, LowEv
<1>13. ~checks[6][1] BY <1>5, <1>10 DEF LowEv
<1>14. ~checks[8][1] BY <1>6, <1>7, <1>11 DEF Verdicts
<1>15. x.reference.block = None BY <1>2, <1>12
<1>16. x.reference.verified BY <1>4, <1>13
<1>17. None \notin {x.model.beat, x.probability} BY <1>6, <1>14
<1> QED BY <1>15, <1>16, <1>17

\* What is accepted has the expected value it must have.
LEMMA AcceptHasEv ==
  ASSUME NEW strategy, NEW x, NetEv(strategy, x) # None,
         Reasons(OwnRejections(strategy, x)) = {}
  PROVE  ~(NetEv(strategy, x) < Config.minNetEv)
<1> DEFINE checks == OwnRejections(strategy, x)
           net    == NetEv(strategy, x)
<1>0. Reasons(checks) = {} OBVIOUS
<1>1. DOMAIN checks = 1..3 BY DEF OwnRejections
<1>2. checks[3][1] = (net # None /\ net < Config.minNetEv)
  <2>1. CASE strategy = Directional BY <2>1 DEF OwnRejections
  <2>2. CASE strategy # Directional BY <2>2 DEF OwnRejections
  <2> QED BY <2>1, <2>2
<1> HIDE DEF checks
<1>3. ~checks[3][1] BY <1>0, <1>1 DEF Reasons, Held
<1> HIDE DEF net
<1>4. ~(net # None /\ net < Config.minNetEv) BY <1>2, <1>3
<1> QED BY <1>4 DEF net

\* Why there is no probability is never the expected value or a hedge that is taken.
LEMMA ModelBlockIsOther ==
  ASSUME NEW x, NEW t, NEW delay, ~ModelReady(x)
  PROVE  ModelBlock(x, t, delay) \notin Verdicts
<1> DEFINE checks == <<
    <<x.beat = None /\ t > MarketInfo.start + delay, "price_to_beat_capture_missed">>,
    <<x.beat = None, "price_to_beat_pending">>,
    <<x.reference = None, "settlement_reference_unavailable">>,
    <<x.stats.volatility = None, "volatility_unavailable">>,
    <<x.stats.samples < Config.minModelSamples, "insufficient_model_samples">>,
    <<x.stats.span < Config.minModelSpan, "model_sample_span_insufficient">>,
    <<x.stats.momentum = None, "momentum_unavailable">>,
    <<x.imbalance = None, "order_book_imbalance_unavailable">> >>
<1>1. ModelBlock(x, t, delay) = FirstOr(checks, "probability_model_unavailable")
  BY DEF ModelBlock
<1>2. DOMAIN checks = 1..8 OBVIOUS
<1>3. \A i \in 1..8 : checks[i][2] \notin Verdicts BY DEF Verdicts, LowEv, Taken
<1> HIDE DEF checks
<1>4. \A q \in Verdicts : q \notin Reasons(checks) BY <1>2, <1>3 DEF Reasons, Held
<1>5. DOMAIN checks \in SUBSET Nat BY <1>2
<1>6. "probability_model_unavailable" \notin Verdicts BY DEF Verdicts, LowEv, Taken
<1> QED BY <1>1, <1>4, <1>5, <1>6, FirstIsReason

\* A hedge that is taken is no reason to reject a row.
LEMMA NeverTaken ==
  ASSUME NEW strategy, NEW x, x.reference.block \in ReferenceBlocks \cup {None},
         None \in {x.model.beat, x.probability} => x.modelBlock \notin Verdicts
  PROVE  Taken \notin Reasons(CommonRejections(x)) \cup Reasons(OwnRejections(strategy, x))
<1> DEFINE common == CommonRejections(x)
           own == OwnRejections(strategy, x)
<1>1. DOMAIN common = 1..13 BY DEF CommonRejections
<1>2. common[5][1] = (x.reference.block # None) /\ common[5][2] = x.reference.block
  BY DEF CommonRejections
<1>3. common[8][1] = (None \in {x.model.beat, x.probability}) /\ common[8][2] = x.modelBlock
  BY DEF CommonRejections
<1>4. \A i \in 1..13 : i # 5 /\ i # 8 => common[i][2] # Taken
  BY DEF CommonRejections, Taken
<1>5. DOMAIN own = 1..3 /\ \A i \in 1..3 : own[i][2] # Taken
  <2>1. CASE strategy = Directional BY <2>1 DEF OwnRejections, Taken
  <2>2. CASE strategy # Directional BY <2>2 DEF OwnRejections, Taken
  <2> QED BY <2>1, <2>2
<1> HIDE DEF common, own
<1>6. common[5][1] => common[5][2] # Taken BY <1>2 DEF ReferenceBlocks, Taken
<1>7. common[8][1] => common[8][2] # Taken BY <1>3 DEF Verdicts
<1>8. Taken \notin Reasons(common) BY <1>1, <1>4, <1>6, <1>7 DEF Reasons, Held
<1>9. Taken \notin Reasons(own) BY <1>5 DEF Reasons, Held
<1> QED BY <1>8, <1>9 DEF common, own
-----------------------------------------------------------------------------
(* The calibration map.                                                    *)

Probability == (1..999) \cup {None}

\* The predictions of a strategy, made with one configuration, that fall in a bucket.
Alike(strategy, made, b) ==
  {k \in Predictions : /\ k.strategy = strategy /\ k.cohort = made
                       /\ Bucket(k.probability) = b}

\* The bucket views a strategy's probability may be calibrated with.
ViewsFor(strategy) ==
  {map.overall[strategy]} \cup
  (IF MarketInfo.interval \in DOMAIN map.timeframes[strategy]
   THEN {map.timeframes[strategy][MarketInfo.interval]} ELSE {})

\* A clamped number is a probability.
LEMMA ClampType ==
  ASSUME NEW p \in Int
  PROVE  Clamp(p) \in 1..999
BY DEF Clamp, Greatest, Least

\* Counted predictions are a number, and more of them a larger one.
LEMMA SamplesGrow ==
  ASSUME NEW l \in [Predictions -> Nat], NEW more \in [Predictions -> Nat],
         NEW S \in SUBSET Predictions, NEW T \in SUBSET S, \A k \in T : l[k] <= more[k]
  PROVE  Samples(l, T) \in Nat /\ Samples(l, T) <= Samples(more, S)
<1>1. IsFiniteSet(S) /\ IsFiniteSet(T) /\ IsFiniteSet({})
  <2>1. IsFiniteSet(Predictions) BY InputAssumption
  <2> QED BY <2>1, FS_Subset, FS_EmptySet
<1>2. \A k \in S : more[k] \in Nat OBVIOUS
<1>3. \A k \in T : l[k] \in Int /\ l[k] \in Nat /\ l[k] <= more[k] OBVIOUS
<1>4. SumFunctionOnSet(l, T) <= SumFunctionOnSet(more, S)
  BY <1>1, <1>2, <1>3, SumMonotone
<1>5. SumFunctionOnSet(l, {}) <= SumFunctionOnSet(l, T)
  <2>1. {} \in SUBSET T /\ \A k \in {} : l[k] \in Int /\ l[k] <= l[k] OBVIOUS
  <2> QED BY <1>1, <1>3, <2>1, SumMonotone
<1>6. SumFunctionOnSet(l, T) \in Int
  <2>1. \A k \in T : l[k] \in Int BY <1>3
  <2>2. T \in SUBSET T OBVIOUS
  <2> QED BY <1>1, <2>1, <2>2, SumType
<1> QED BY <1>4, <1>5, <1>6, SumEmpty DEF Samples

\* A bucket's view counts its logged predictions, of which there are some.
LEMMA ViewCounts ==
  ASSUME NEW l \in [Predictions -> Nat], NEW kinds \in SUBSET Predictions,
         NEW b \in DOMAIN BucketViews(l, kinds)
  PROVE  LET view == BucketViews(l, kinds)[b]
             mine == {k \in kinds : l[k] > 0 /\ Bucket(k.probability) = b}
         IN  /\ view.samples = Samples(l, mine) /\ view.samples \in Nat /\ view.samples > 0
             /\ view.expected \in Int /\ view.up \in Int
<1> DEFINE logged == {k \in kinds : l[k] > 0}
           mine   == {k \in logged : Bucket(k.probability) = b}
           weight == [k \in mine |-> l[k] * k.probability]
           ups    == {k \in mine : k.up}
           view   == BucketViews(l, kinds)[b]
<1>1. b \in {Bucket(k.probability) : k \in logged}
  BY DEF BucketViews
<1>2. view = [samples |-> Samples(l, mine),
              expected |-> SumFunctionOnSet(weight, mine) \div Samples(l, mine),
              up |-> Samples(l, ups)]
  BY <1>1 DEF BucketViews
<1>3. PICK first \in mine : TRUE BY <1>1
<1>4. mine \in SUBSET Predictions /\ ups \in SUBSET Predictions OBVIOUS
<1>5. IsFiniteSet(mine)
  <2>1. IsFiniteSet(Predictions) BY InputAssumption
  <2> HIDE DEF mine
  <2> QED BY <1>4, <2>1, FS_Subset
<1>6. Samples(l, mine) \in Nat /\ Samples(l, ups) \in Nat /\ Samples(l, mine \ {first}) \in Nat
  <2> HIDE DEF mine, ups
  <2>1. mine \ {first} \in SUBSET Predictions BY <1>4
  <2>2. \A k \in Predictions : l[k] <= l[k] OBVIOUS
  <2>3. \A T \in SUBSET Predictions : Samples(l, T) \in Nat BY <2>2, SamplesGrow
  <2> QED BY <1>4, <2>1, <2>3
<1>7. Samples(l, mine) = l[first] + Samples(l, mine \ {first})
  <2>1. \A k \in mine : l[k] \in Int OBVIOUS
  <2> HIDE DEF mine
  <2> QED BY <1>5, <2>1, SumRemove DEF Samples
<1>8. l[first] \in Nat /\ l[first] > 0 BY <1>3
<1>9. SumFunctionOnSet(weight, mine) \in Int
  <2>1. \A k \in mine : weight[k] \in Int
    <3> TAKE k \in mine
    <3>0. k \in Predictions OBVIOUS
    <3>1. l[k] \in Int /\ k.probability \in Int
      <4> HIDE DEF mine, logged, weight, ups, view
      <4>1. \A q \in Predictions : q.probability \in 1..999 BY InputAssumption
      <4>2. l[k] \in Nat BY <3>0
      <4>3. k.probability \in 1..999 BY <3>0, <4>1
      <4> QED BY <4>2, <4>3
    <3>2. l[k] * k.probability \in Int
      <4> HIDE DEF mine, logged, weight, ups, view
      <4> QED BY <3>1
    <3> QED BY <3>2
  <2>2. mine \in SUBSET mine OBVIOUS
  <2> HIDE DEF mine, weight
  <2> QED BY <1>5, <2>1, <2>2, SumType
<1>10. /\ view.samples = Samples(l, mine)
       /\ view.expected = SumFunctionOnSet(weight, mine) \div Samples(l, mine)
       /\ view.up = Samples(l, ups)
  <2> HIDE DEF mine, weight, ups, view
  <2> QED BY <1>2
<1>11. mine = {k \in kinds : l[k] > 0 /\ Bucket(k.probability) = b} OBVIOUS
<1>12. Samples(l, mine) > 0
  <2> HIDE DEF mine
  <2> QED BY <1>6, <1>7, <1>8
<1>13. SumFunctionOnSet(weight, mine) \div Samples(l, mine) \in Int
  <2> HIDE DEF mine, weight
  <2> QED BY <1>6, <1>9, <1>12
<1>14. /\ view.samples = Samples(l, mine) /\ view.samples \in Nat /\ view.samples > 0
       /\ view.expected \in Int /\ view.up \in Int
  <2> HIDE DEF mine, weight, ups, view
  <2> QED BY <1>6, <1>10, <1>12, <1>13
<1> HIDE DEF ups, weight
<1> QED BY <1>11, <1>14

\* A bucket that has enough samples in the map vouches for the log: the map was
\* built from predictions it still has.
LEMMA EnoughInLog ==
  ASSUME now \in Nat, log \in [Predictions -> Nat], MapIsBuilt, cohort \in {1, 2},
         NEW strategy \in Strategies, NEW b,
         MapUsable(map, cohort, now),
         NEW views \in ViewsFor(strategy), Enough(views, b)
  PROVE  /\ map # None /\ now - map.at <= Config.mapMaxAge
         /\ Samples(log, Alike(strategy, cohort, b)) >= Config.minSamples
         /\ Shrunk(views[b]) \in 1..999
<1>1. map # None /\ now - map.at <= Config.mapMaxAge /\ map.cohort = cohort
  BY DEF MapUsable
<1>2. PICK l \in [Predictions -> Nat], made \in {1, 2}, at \in Nat :
        map = BuildMap(l, made, at) /\ \A k \in Predictions : l[k] <= log[k]
  BY <1>1 DEF MapIsBuilt
<1> DEFINE of(t) == {k \in DOMAIN l : k.strategy = t /\ k.cohort = made}
           within(tf) == {k \in of(strategy) : k.timeframe = tf}
<1>3. made = cohort BY <1>1, <1>2 DEF BuildMap
<1>4. map.overall[strategy] = BucketViews(l, of(strategy)) BY <1>2 DEF BuildMap
<1>5. map.timeframes[strategy] = [tf \in {k.timeframe : k \in of(strategy)} |->
                                    BucketViews(l, within(tf))]
  BY <1>2 DEF BuildMap
<1>6. PICK kinds \in SUBSET of(strategy) : views = BucketViews(l, kinds)
  <2>1. CASE views = map.overall[strategy] BY <1>4, <2>1
  <2>2. CASE /\ MarketInfo.interval \in DOMAIN map.timeframes[strategy]
             /\ views = map.timeframes[strategy][MarketInfo.interval]
    <3>1. views = BucketViews(l, within(MarketInfo.interval)) BY <1>5, <2>2
    <3>2. within(MarketInfo.interval) \in SUBSET of(strategy) OBVIOUS
    <3> QED BY <3>1, <3>2
  <2> QED BY <2>1, <2>2 DEF ViewsFor
<1>7. of(strategy) = {k \in Predictions : k.strategy = strategy /\ k.cohort = cohort}
  BY <1>3
<1> DEFINE mine == {k \in kinds : l[k] > 0 /\ Bucket(k.probability) = b}
<1>8. b \in DOMAIN views /\ views[b].samples >= Config.minSamples
  BY DEF Enough
<1>9. kinds \in SUBSET Predictions BY <1>6, <1>7
<1>10. /\ views[b].samples = Samples(l, mine) /\ views[b].samples \in Nat
       /\ views[b].samples > 0 /\ views[b].expected \in Int /\ views[b].up \in Int
  BY <1>6, <1>8, <1>9, ViewCounts
<1>11. Samples(l, mine) \in Nat /\ Samples(l, mine) <= Samples(log, Alike(strategy, cohort, b))
  <2>1. Alike(strategy, cohort, b) \in SUBSET Predictions BY DEF Alike
  <2>2. mine \in SUBSET Alike(strategy, cohort, b) BY <1>6, <1>7 DEF Alike
  <2>3. \A k \in mine : l[k] <= log[k] BY <1>2, <1>9
  <2> HIDE DEF mine
  <2> QED BY <2>1, <2>2, <2>3, SamplesGrow
<1>12. Samples(log, Alike(strategy, cohort, b)) \in Nat
  <2>1. Alike(strategy, cohort, b) \in SUBSET Predictions BY DEF Alike
  <2>2. \A k \in Predictions : log[k] <= log[k] OBVIOUS
  <2> QED BY <2>1, <2>2, SamplesGrow
<1>13. Shrunk(views[b]) \in 1..999
  <2> DEFINE above == 1000 * views[b].up + Config.priorWeight * views[b].expected
             below == views[b].samples + Config.priorWeight
  <2>1. Config.priorWeight * views[b].expected \in Int BY <1>10, ConfigTypes
  <2>2. above \in Int BY <1>10, <2>1
  <2>3. below \in Nat /\ below > 0 BY <1>10, ConfigTypes
  <2>4. above \div below \in Int
    <3> HIDE DEF above, below
    <3> QED BY <2>2, <2>3
  <2> QED BY <2>4, ClampType DEF Shrunk
<1> HIDE DEF mine
<1>14. Samples(log, Alike(strategy, cohort, b)) >= Config.minSamples
  BY <1>8, <1>10, <1>11, <1>12, ConfigTypes
<1> QED BY <1>1, <1>13, <1>14

\* What calibration makes of a probability, and what it promises where a map is
\* required.
LEMMA CalibrateSays ==
  ASSUME now \in Nat, log \in [Predictions -> Nat], MapIsBuilt, cohort \in {1, 2},
         NEW strategy \in Strategies, NEW up \in Probability
  PROVE  LET c == Calibrate(map, strategy, up, now, cohort)
         IN  /\ c.input = up /\ c.up \in Probability
             /\ c.scope \in {"none", "raw", "timeframe", "strategy"}
             /\ up = None => c.up = None
             /\ Config.requireMap /\ c.up # None =>
                  /\ map # None /\ now - map.at <= Config.mapMaxAge
                  /\ Samples(log, Alike(strategy, cohort, Bucket(up))) >= Config.minSamples
<1> DEFINE c   == Calibrate(map, strategy, up, now, cohort)
           own == IF MarketInfo.interval \in DOMAIN map.timeframes[strategy]
                  THEN map.timeframes[strategy][MarketInfo.interval] ELSE <<>>
           all == map.overall[strategy]
           b   == Bucket(up)
           vouches(views) == MapUsable(map, cohort, now) /\ Enough(views, b)
           Goal == /\ map # None /\ now - map.at <= Config.mapMaxAge
                   /\ Samples(log, Alike(strategy, cohort, b)) >= Config.minSamples
<1>1. CASE up = None
  <2>1. c = [input |-> None, up |-> None, scope |-> "none"]
    BY <1>1 DEF Calibrate
  <2> HIDE DEF c
  <2>2. c.input = None /\ c.up = None /\ c.scope = "none" BY <2>1
  <2> QED BY <1>1, <2>2 DEF c, Probability
<1>2. CASE up # None /\ vouches(own)
  <2>1. c = [input |-> up, up |-> Shrunk(own[b]), scope |-> "timeframe"]
    BY <1>2 DEF Calibrate
  <2>2. b \in DOMAIN own BY <1>2 DEF Enough
  <2>3. MarketInfo.interval \in DOMAIN map.timeframes[strategy]
        /\ own = map.timeframes[strategy][MarketInfo.interval]
    BY <2>2
  <2>4. Goal /\ Shrunk(own[b]) \in 1..999
    <3>1. own \in ViewsFor(strategy) BY <2>3 DEF ViewsFor
    <3>2. MapUsable(map, cohort, now) /\ Enough(own, b) BY <1>2
    <3> HIDE DEF own, b
    <3> QED BY <3>1, <3>2, EnoughInLog
  <2> HIDE DEF c, own
  <2>5. c.input = up /\ c.up = Shrunk(own[b]) /\ c.scope = "timeframe" BY <2>1
  <2> QED BY <1>2, <2>4, <2>5 DEF c, Probability
<1>3. CASE up # None /\ ~vouches(own) /\ vouches(all)
  <2>1. c = [input |-> up, up |-> Shrunk(all[b]), scope |-> "strategy"]
    BY <1>3 DEF Calibrate
  <2>2. Goal /\ Shrunk(all[b]) \in 1..999
    <3>1. all \in ViewsFor(strategy) BY DEF ViewsFor
    <3>2. MapUsable(map, cohort, now) /\ Enough(all, b) BY <1>3
    <3> HIDE DEF all, b
    <3> QED BY <3>1, <3>2, EnoughInLog
  <2> HIDE DEF c, all
  <2>3. c.input = up /\ c.up = Shrunk(all[b]) /\ c.scope = "strategy" BY <2>1
  <2> QED BY <1>3, <2>2, <2>3 DEF c, Probability
<1>4. CASE up # None /\ ~vouches(own) /\ ~vouches(all)
  <2>1. c = [input |-> up, up |-> IF Config.requireMap THEN None ELSE up,
             scope |-> IF Config.requireMap THEN "none" ELSE "raw"]
    BY <1>4 DEF Calibrate
  <2> HIDE DEF c
  <2>2. c.input = up /\ (c.up = IF Config.requireMap THEN None ELSE up)
        /\ (c.scope = IF Config.requireMap THEN "none" ELSE "raw")
    BY <2>1
  <2> QED BY <1>4, <2>2 DEF c, Probability
<1> QED BY <1>1, <1>2, <1>3, <1>4
-----------------------------------------------------------------------------
(* The rows of a poll.                                                     *)

Polled(e) == View(e, Context(anchor))

\* The model input of an event is of the files as they are.
LEMMA ModelInputSays ==
  ASSUME IInv, NEW e \in Events
  PROVE  LET x == ModelInput(e, Context(anchor))
         IN  /\ x.stats = ModelStats(venue.stats) /\ venue.stats \in AssetStats
             /\ ModelReady(x) => x \in Questions
<1> DEFINE x == ModelInput(e, Context(anchor))
<1>1. x = [reference |-> venue.sources[MarketInfo.source].price,
           beat |-> PriceToBeat(Context(anchor)),
           seconds |-> Greatest(0, MarketInfo.close - now),
           stats |-> ModelStats(venue.stats), imbalance |-> PairedImbalance(e)]
  BY DEF ModelInput, Context
<1>2. venue.stats \in AssetStats BY DEF IInv, VenueOK
<1> HIDE DEF x
<1>3. x.stats = ModelStats(venue.stats) BY <1>1
<1>4. ASSUME ModelReady(x) PROVE x \in Questions
  <2>1. x.reference # None /\ x.beat # None /\ x.seconds > 0
    BY <1>4 DEF ModelReady
  <2>2. x.reference \in SourcePrices[MarketInfo.source]
    <3>1. x.reference = venue.sources[MarketInfo.source].price BY <1>1
    <3>2. MarketInfo.source \in Sources BY ConfigAssumption
    <3> QED BY <2>1, <3>1, <3>2 DEF IInv, VenueOK
  <2>3. x.beat \in SourcePrices[MarketInfo.source] \cup {m.open : m \in ScanResults}
    <3>1. x.beat = IF market.open # None THEN market.open
                   ELSE IF anchor # None THEN anchor.price ELSE None
      BY <1>1 DEF PriceToBeat, Context
    <3>2. market \in ScanResults /\ (anchor # None => anchor.price \in Openings)
      BY DEF IInv, AnchorTyped
    <3> QED BY <2>1, <3>1, <3>2 DEF Openings
  <2>4. x.seconds \in 1..MarketInfo.close
    <3>1. x.seconds = Greatest(0, MarketInfo.close - now) BY <1>1
    <3>2. now \in Nat /\ MarketInfo.close \in Nat BY ConfigAssumption DEF IInv
    <3> QED BY <2>1, <3>1, <3>2 DEF Greatest
  <2>5. x.stats \in {ModelStats(stats) : stats \in AssetStats} BY <1>2, <1>3
  <2>6. x.imbalance \in {PairedImbalance(o) : o \in Events} BY <1>1
  <2>7. x = [reference |-> x.reference, beat |-> x.beat, seconds |-> x.seconds,
             stats |-> x.stats, imbalance |-> x.imbalance]
    BY <1>1
  <2> QED BY <1>4, <2>2, <2>3, <2>4, <2>5, <2>6, <2>7 DEF Questions
<1> QED BY <1>2, <1>3, <1>4 DEF x

\* A model's probability lies strictly between zero and one, where it is ready.
LEMMA ModelProbability ==
  ASSUME IInv, NEW e \in Events, NEW strategy \in Strategies
  PROVE  LET x == ModelInput(e, Context(anchor))
         IN  /\ UpProbability(strategy, x) \in Probability
             /\ UpProbability(strategy, x) = None <=> ~ModelReady(x)
<1> DEFINE x == ModelInput(e, Context(anchor))
           answer == IF strategy = Directional THEN DirectionalUp(x) ELSE LotteryUp(x)
<1>1. ModelReady(x) => answer \in Int
  BY ModelInputSays, ModelAssumption
<1>2. ModelReady(x) => Clamp(answer) \in 1..999
  <2> HIDE DEF x, answer
  <2> QED BY <1>1, ClampType
<1>3. UpProbability(strategy, x) = IF ~ModelReady(x) THEN None ELSE Clamp(answer)
  BY DEF UpProbability
<1>4. None \notin 1..999 BY NoneDistinct
<1> HIDE DEF x, answer
<1>5. /\ UpProbability(strategy, x) \in Probability
      /\ UpProbability(strategy, x) = None <=> ~ModelReady(x)
  BY <1>2, <1>3, <1>4 DEF Probability
<1> QED BY <1>5 DEF x

\* What the rows of an event share.
LEMMA ViewSays ==
  ASSUME IInv, NEW e \in Events
  PROVE  LET v == Polled(e)
         IN  /\ v.event = e /\ v.now = now /\ v.map = map /\ v.cohort = cohort
             /\ v.reference = Reference(venue, now)
             /\ v.model.stats = ModelStats(venue.stats) /\ venue.stats \in AssetStats
             /\ \A s \in Enabled : /\ v.up[s] \in Probability
                                   /\ v.up[s] # None => v.model.beat # None
                                   /\ v.up[s] = None => v.modelBlock \notin Verdicts
<1> DEFINE v == Polled(e)
           x == ModelInput(e, Context(anchor))
<1>1. v = [event |-> e, now |-> now, map |-> map, cohort |-> cohort,
           tradable |-> market.accepting, skew |-> venue.stats.skew, model |-> x,
           up |-> [s \in Enabled |-> UpProbability(s, x)],
           modelBlock |-> ModelBlock(x, now, CaptureDelay),
           reference |-> Reference(venue, now)]
  BY DEF Polled, View, Context
<1> HIDE DEF v, x
<1>2. /\ v.event = e /\ v.now = now /\ v.map = map /\ v.cohort = cohort
      /\ v.reference = Reference(venue, now) /\ v.model = x
      /\ v.up = [s \in Enabled |-> UpProbability(s, x)]
      /\ v.modelBlock = ModelBlock(x, now, CaptureDelay)
  BY <1>1
<1>3. x.stats = ModelStats(venue.stats) /\ venue.stats \in AssetStats
  BY ModelInputSays DEF x
<1>4. ASSUME NEW s \in Enabled
      PROVE  /\ v.up[s] \in Probability
             /\ v.up[s] # None => v.model.beat # None
             /\ v.up[s] = None => v.modelBlock \notin Verdicts
  <2>1. s \in Strategies BY ConfigAssumption
  <2>2. v.up[s] \in Probability /\ (v.up[s] = None <=> ~ModelReady(x))
    <3>1. v.up[s] = UpProbability(s, x) BY <1>2
    <3> QED BY <2>1, <3>1, ModelProbability DEF x
  <2>3. ModelReady(x) => x.beat # None BY DEF ModelReady
  <2> QED BY <1>2, <2>2, <2>3, ModelBlockIsOther
<1>5. v.model.stats = ModelStats(venue.stats) BY <1>2, <1>3
<1> QED BY <1>2, <1>3, <1>4, <1>5 DEF v

\* What one outcome's shares would cost is a number.
LEMMA InputSays ==
  ASSUME IInv, NEW e \in Events, NEW o \in Outcomes, NEW p
  PROVE  LET x == Input(o, Polled(e), p)
         IN  /\ x.probability = p /\ x.model = Polled(e).model
             /\ x.modelBlock = Polled(e).modelBlock
             /\ x.reference = Reference(venue, now)
             /\ x.fill \in Nat /\ x.fee \in Nat /\ x.slippage \in Int /\ x.latency \in Int
<1> DEFINE v == Polled(e)
           x == Input(o, v, p)
           side == e.book[o]
           slippage == IF side.ask = None THEN Config.maxSlippage + 1
                       ELSE Greatest(0, side.fill - side.ask)
           volatility == ModelStats(venue.stats).volatility
           age == Reference(venue, now).age
           latency == LatencyBuffer(side.fill, volatility, age)
<1>1. /\ v.event = e /\ v.now = now /\ v.reference = Reference(venue, now)
      /\ v.model.stats = ModelStats(venue.stats) /\ venue.stats \in AssetStats
  BY ViewSays
<1>2. side \in [ask : OptionalNat, fill : Nat, fee : Nat, depth : Nat,
                filled : BOOLEAN, imbalance : OptionalInt]
  BY InputAssumption
<1>3. slippage \in Int
  <2>1. side.fill \in Nat /\ side.ask \in OptionalNat BY <1>2
  <2> HIDE DEF side
  <2> QED BY <2>1, ConfigTypes DEF Greatest, OptionalNat
<1>4. latency \in Int
  <2>1. now \in Nat /\ now <= Horizon /\ VenueOK BY TimeAssumption DEF IInv
  <2>2. age \in (0..now) \cup {None} BY <2>1, ReferenceSays
  <2>3. Horizon \in Nat BY TimeAssumption
  <2>4. None \notin {volatility, age} => LatencyRisk(side.fill, volatility, age) \in Int
    <3> SUFFICES ASSUME volatility # None, age # None
                 PROVE  LatencyRisk(side.fill, volatility, age) \in Int
      OBVIOUS
    <3>1. age \in 0..Horizon BY <2>1, <2>2, <2>3
    <3> HIDE DEF age
    <3> QED BY <1>1, <3>1, ModelAssumption
  <2> HIDE DEF side, volatility, age
  <2> QED BY <2>4, ConfigTypes DEF LatencyBuffer, Least, Greatest
<1>5. /\ x.probability = p /\ x.model = v.model /\ x.modelBlock = v.modelBlock
      /\ x.reference = v.reference /\ x.fill = v.event.book[o].fill
      /\ x.fee = v.event.book[o].fee
      /\ x.slippage = IF v.event.book[o].ask = None THEN Config.maxSlippage + 1
                      ELSE Greatest(0, v.event.book[o].fill - v.event.book[o].ask)
      /\ x.latency = LatencyBuffer(v.event.book[o].fill, v.model.stats.volatility,
                                   v.reference.age)
  <2> HIDE DEF v
  <2> QED BY DEF Input
<1>6. x.slippage = slippage /\ x.latency = latency
  <2> HIDE DEF v, x
  <2> QED BY <1>1, <1>5
<1>7. x.fill \in Nat /\ x.fee \in Nat
  <2> HIDE DEF v, x
  <2> QED BY <1>1, <1>2, <1>5
<1> HIDE DEF slippage, latency
<1> QED BY <1>1, <1>3, <1>4, <1>5, <1>6, <1>7

\* What the map is asked for is a probability, where the model has one.
LEMMA CalibrationInputType ==
  ASSUME IInv, NEW e \in Events, NEW s \in Enabled
  PROVE  /\ CalibrationInput(s, Polled(e)) \in Probability
         /\ CalibrationInput(s, Polled(e)) = None <=> Polled(e).up[s] = None
<1> DEFINE v  == Polled(e)
           up == v.up[s]
           side == e.book["Up"]
           blended == Quoted(side) + (Config.blend * (up - Quoted(side))) \div 1000
<1>1. up \in Probability /\ v.event = e
  BY ViewSays
<1>2. Quoted(side) \in Int
  <2>1. side \in [ask : OptionalNat, fill : Nat, fee : Nat, depth : Nat,
                  filled : BOOLEAN, imbalance : OptionalInt]
    BY InputAssumption DEF Outcomes
  <2> QED BY <2>1 DEF Quoted, OptionalNat
<1>3. CalibrationInput(s, v)
        = IF s = Lottery THEN IF up = None THEN None ELSE Clamp(blended) ELSE up
  <2> HIDE DEF v
  <2> QED BY <1>1 DEF CalibrationInput, Blend
<1>4. None \notin 1..999 BY NoneDistinct
<1>5. up # None => Clamp(blended) \in 1..999
  <2> SUFFICES ASSUME up # None PROVE Clamp(blended) \in 1..999
    OBVIOUS
  <2> HIDE DEF up, side
  <2>1. up \in Int
    <3> HIDE DEF v
    <3> QED BY <1>1 DEF Probability
  <2> DEFINE part == Config.blend * (up - Quoted(side))
  <2>2. part \in Int BY <1>2, <2>1, ConfigTypes
  <2>3. part \div 1000 \in Int
    <3> HIDE DEF part
    <3> QED BY <2>2
  <2>4. blended \in Int BY <1>2, <2>3
  <2> QED BY <2>4, ClampType
<1> HIDE DEF blended, v
<1> QED BY <1>1, <1>3, <1>4, <1>5 DEF Probability, v

\* The probability of an outcome, or of its complement.
LEMMA OutcomeType ==
  ASSUME NEW o, NEW up \in Probability
  PROVE  /\ ForOutcome(o, up) \in Probability
         /\ ForOutcome(o, up) = None <=> up = None
BY NoneDistinct DEF ForOutcome, Complement, Probability

\* A decision names its reasons, and nothing is accepted that has one.
LEMMA EvaluateSays ==
  ASSUME NEW strategy, NEW x
  PROVE  LET result == Evaluate(strategy, x)
         IN  /\ result.blocking = Reasons(CommonRejections(x))
                                    \cup Reasons(OwnRejections(strategy, x))
             /\ result.net = NetEv(strategy, x)
             /\ result.blocking = {} => /\ result.decision = "ACCEPT"
                                        /\ result.reason = "positive_net_ev"
             /\ result.blocking # {} => /\ result.decision = "REJECT"
                                        /\ result.reason \in result.blocking
             /\ result = [decision |-> result.decision, reason |-> result.reason,
                          blocking |-> result.blocking, net |-> result.net]
<1> DEFINE common == CommonRejections(x)
           own    == OwnRejections(strategy, x)
           blocking == Reasons(common) \cup Reasons(own)
           reason == FirstOr(common, FirstOr(own, "positive_net_ev"))
           result == Evaluate(strategy, x)
<1>1. DOMAIN common \in SUBSET Nat
  <2>1. DOMAIN common = 1..13 BY DEF CommonRejections
  <2> HIDE DEF common
  <2> QED BY <2>1
<1>2. DOMAIN own \in SUBSET Nat
  <2>1. DOMAIN own = 1..3
    <3>1. CASE strategy = Directional BY <3>1 DEF OwnRejections
    <3>2. CASE strategy # Directional BY <3>2 DEF OwnRejections
    <3> QED BY <3>1, <3>2
  <2> HIDE DEF own
  <2> QED BY <2>1
<1>3. result = [decision |-> IF blocking = {} THEN "ACCEPT" ELSE "REJECT",
                reason |-> reason, blocking |-> blocking, net |-> NetEv(strategy, x)]
  BY DEF Evaluate
<1> HIDE DEF common, own, result
<1>4. blocking = {} => reason = "positive_net_ev"
  BY <1>1, <1>2, FirstIsReason
<1>5. blocking # {} => reason \in blocking
  BY <1>1, <1>2, FirstIsReason
<1> HIDE DEF blocking, reason
<1>6. /\ result.blocking = blocking /\ result.net = NetEv(strategy, x)
      /\ result.decision = IF blocking = {} THEN "ACCEPT" ELSE "REJECT"
      /\ result.reason = reason
  BY <1>3
<1> QED BY <1>3, <1>4, <1>5, <1>6 DEF blocking, result, common, own

\* What a row's decision says, after the calibration had its say.
LEMMA FailClosedSays ==
  ASSUME NEW strategy, NEW x, NEW calibration
  PROVE  LET result == FailClosed(Evaluate(strategy, x), calibration)
             closed == Config.requireMap /\ calibration.input # None /\ calibration.up = None
         IN  /\ result.net = NetEv(strategy, x)
             /\ result.decision \in {"ACCEPT", "REJECT"}
             /\ result.decision = "ACCEPT" => result.reason = "positive_net_ev"
             /\ result.blocking \subseteq Reasons(CommonRejections(x))
                  \cup Reasons(OwnRejections(strategy, x))
                  \cup {"probability_calibration_unavailable"}
             /\ (result.decision = "REJECT") <=> (result.reason \in result.blocking)
             /\ result.decision = "ACCEPT" =>
                  /\ Reasons(CommonRejections(x)) = {}
                  /\ Reasons(OwnRejections(strategy, x)) = {} /\ ~closed
             /\ result.blocking \subseteq {LowEv} =>
                  Reasons(CommonRejections(x)) \subseteq {LowEv} /\ ~closed
<1> DEFINE before == Evaluate(strategy, x)
           result == FailClosed(before, calibration)
           closed == Config.requireMap /\ calibration.input # None /\ calibration.up = None
           missing == "probability_calibration_unavailable"
<1>1. /\ before.blocking = Reasons(CommonRejections(x))
                             \cup Reasons(OwnRejections(strategy, x))
      /\ before.net = NetEv(strategy, x)
      /\ before.blocking = {} => before.decision = "ACCEPT" /\ before.reason = "positive_net_ev"
      /\ before.blocking # {} => before.decision = "REJECT" /\ before.reason \in before.blocking
      /\ before = [decision |-> before.decision, reason |-> before.reason,
                   blocking |-> before.blocking, net |-> before.net]
  BY EvaluateSays
<1>2. CASE ~closed
  <2>1. result = before BY <1>2 DEF FailClosed
  <2> HIDE DEF before, result, closed
  <2> QED BY <1>1, <1>2, <2>1 DEF result, closed, before
<1>3. CASE closed
  <2>1. result = [before EXCEPT !.decision = "REJECT",
                                !.reason = IF @ = "positive_net_ev" THEN missing ELSE @,
                                !.blocking = @ \cup {missing}]
    BY <1>3 DEF FailClosed
  <2> HIDE DEF before, result
  <2>2. /\ result.decision = "REJECT"
        /\ result.reason = IF before.reason = "positive_net_ev" THEN missing ELSE before.reason
        /\ result.blocking = before.blocking \cup {missing} /\ result.net = before.net
    BY <1>1, <2>1
  <2>3. result.reason \in result.blocking BY <1>1, <2>2
  <2>4. ~(result.blocking \subseteq {LowEv}) BY <2>2 DEF LowEv
  <2> QED BY <1>1, <1>3, <2>2, <2>3, <2>4 DEF result, closed, before
<1> QED BY <1>2, <1>3

\* What every row of a poll says.
LEMMA RowSays ==
  ASSUME IInv, NEW e \in Events, NEW s \in Enabled, NEW o \in Outcomes
  PROVE  LET r == EventRow(s, o, Polled(e))
             c == r.calibration
             closed == Config.requireMap /\ c.input # None /\ c.up = None
         IN  /\ r.strategy = s /\ r.outcome = o
             /\ r.input = Input(o, Polled(e), r.input.probability)
             /\ r.input.probability = ForOutcome(o, IF c.up = None THEN Polled(e).up[s]
                                                    ELSE c.up)
             /\ r.input.probability \in Probability
             /\ r.input.probability # None => c.input # None
             /\ r.input.probability # None => Polled(e).model.beat # None
             /\ r.input.probability = None => Polled(e).modelBlock \notin Verdicts
             /\ c.input \in Probability
             /\ c.scope \in {"none", "raw", "timeframe", "strategy"}
             /\ Config.requireMap /\ c.up # None =>
                  /\ map # None /\ now - map.at <= Config.mapMaxAge
                  /\ Samples(log, Alike(s, cohort, Bucket(c.input))) >= Config.minSamples
             /\ r.result = FailClosed(Evaluate(s, r.input), c)
<1> DEFINE v == Polled(e)
           r == EventRow(s, o, v)
           asked == CalibrationInput(s, v)
           c == Calibrate(map, s, asked, now, cohort)
           p == ForOutcome(o, IF c.up = None THEN v.up[s] ELSE c.up)
<1>1. /\ v.now = now /\ v.map = map /\ v.cohort = cohort /\ v.up[s] \in Probability
      /\ v.up[s] # None => v.model.beat # None
      /\ v.up[s] = None => v.modelBlock \notin Verdicts
  BY ViewSays
<1>2. asked \in Probability /\ (asked = None <=> v.up[s] = None)
  BY CalibrationInputType
<1>3. s \in Strategies BY ConfigAssumption
<1>4. /\ c.input = asked /\ c.up \in Probability
      /\ c.scope \in {"none", "raw", "timeframe", "strategy"}
      /\ asked = None => c.up = None
      /\ Config.requireMap /\ c.up # None =>
           /\ map # None /\ now - map.at <= Config.mapMaxAge
           /\ Samples(log, Alike(s, cohort, Bucket(asked))) >= Config.minSamples
  <2> HIDE DEF asked
  <2>1. now \in Nat /\ log \in [Predictions -> Nat] /\ MapIsBuilt /\ cohort \in {1, 2}
    BY DEF IInv
  <2> QED BY <1>2, <1>3, <2>1, CalibrateSays
<1>5. r = [strategy |-> s, outcome |-> o, input |-> Input(o, v, p), calibration |-> c,
           result |-> FailClosed(Evaluate(s, Input(o, v, p)), c)]
  <2>1. r = LET calibration == Calibrate(v.map, s, asked, v.now, v.cohort)
                input == Input(o, v, IF calibration.up = None THEN ForOutcome(o, v.up[s])
                                     ELSE ForOutcome(o, calibration.up))
            IN  [strategy |-> s, outcome |-> o, input |-> input, calibration |-> calibration,
                 result |-> FailClosed(Evaluate(s, input), calibration)]
    BY DEF EventRow, DecisionAudit
  <2>2. Calibrate(v.map, s, asked, v.now, v.cohort) = c BY <1>1
  <2>3. p = IF c.up = None THEN ForOutcome(o, v.up[s]) ELSE ForOutcome(o, c.up)
    OBVIOUS
  <2> HIDE DEF v, r, asked, c, p
  <2> QED BY <2>1, <2>2, <2>3
<1> HIDE DEF c, asked
<1>6. p \in Probability /\ (p = None <=> v.up[s] = None /\ c.up = None)
  <2> DEFINE q == IF c.up = None THEN v.up[s] ELSE c.up
  <2>1. q \in Probability /\ (q = None <=> v.up[s] = None /\ c.up = None) BY <1>1, <1>4
  <2> HIDE DEF q
  <2>2. ForOutcome(o, q) \in Probability /\ (ForOutcome(o, q) = None <=> q = None)
    BY <2>1, OutcomeType
  <2> QED BY <2>1, <2>2 DEF q
<1>7. Input(o, v, p).probability = p BY InputSays
<1> HIDE DEF v, r, p
<1>8. /\ r.strategy = s /\ r.outcome = o /\ r.input = Input(o, v, p) /\ r.calibration = c
      /\ r.result = FailClosed(Evaluate(s, Input(o, v, p)), c)
  BY <1>5
<1>9. r.input.probability = p BY <1>7, <1>8
<1>10. p = None <=> v.up[s] = None BY <1>2, <1>4, <1>6
<1>11. p # None => c.input # None BY <1>2, <1>4, <1>10
<1> QED BY <1>1, <1>2, <1>4, <1>6, <1>8, <1>9, <1>10, <1>11 DEF r, v, p
-----------------------------------------------------------------------------
(* The rows that are acted on.                                             *)

\* What is common to accepted rows and to the hedges taken beside them.
Trusted(r) ==
  /\ r.input.reference = Reference(venue, now)
  /\ r.input.reference.block = None /\ r.input.reference.verified
  /\ Config.requireMap =>
       /\ map # None /\ now - map.at <= Config.mapMaxAge
       /\ Samples(log, Alike(r.strategy, cohort, Bucket(r.calibration.input)))
            >= Config.minSamples

\* A row that nothing blocks, except perhaps its expected value, is to be trusted.
LEMMA UnblockedTrusted ==
  ASSUME IInv, NEW e \in Events, NEW s \in Enabled, NEW o \in Outcomes,
         EventRow(s, o, Polled(e)).result.blocking \subseteq {LowEv}
         \/ EventRow(s, o, Polled(e)).result.decision = "ACCEPT"
  PROVE  /\ Trusted(EventRow(s, o, Polled(e)))
         /\ EventRow(s, o, Polled(e)).input.probability # None
<1> DEFINE r == EventRow(s, o, Polled(e))
           c == r.calibration
           x == r.input
           closed == Config.requireMap /\ c.input # None /\ c.up = None
<1>1. /\ r.strategy = s
      /\ r.input = Input(o, Polled(e), r.input.probability)
      /\ x.probability # None => c.input # None
      /\ x.probability # None => Polled(e).model.beat # None
      /\ x.probability = None => Polled(e).modelBlock \notin Verdicts
      /\ Config.requireMap /\ c.up # None =>
           /\ map # None /\ now - map.at <= Config.mapMaxAge
           /\ Samples(log, Alike(s, cohort, Bucket(c.input))) >= Config.minSamples
      /\ r.result = FailClosed(Evaluate(s, x), c)
  BY RowSays
<1>2. /\ x.model = Polled(e).model /\ x.modelBlock = Polled(e).modelBlock
      /\ x.reference = Reference(venue, now)
  <2> HIDE DEF r
  <2> QED BY <1>1, InputSays
<1>3. Reasons(CommonRejections(x)) \subseteq {LowEv} /\ ~closed
  <2> HIDE DEF r
  <2>1. r.result.blocking \subseteq {LowEv} \/ r.result.decision = "ACCEPT" BY DEF r
  <2> QED BY <1>1, <2>1, FailClosedSays
<1> HIDE DEF r
<1>4. x.reference.block \in ReferenceBlocks \cup {None}
  <2>1. now \in Nat /\ VenueOK BY DEF IInv
  <2> QED BY <1>2, <2>1, ReferenceSays
<1>5. None \in {x.model.beat, x.probability} => x.modelBlock \notin Verdicts
  BY <1>1, <1>2
<1> HIDE DEF x
<1>6. /\ x.reference.block = None /\ x.reference.verified
      /\ x.model.beat # None /\ x.probability # None
  BY <1>3, <1>4, <1>5, NothingElseBlocks
<1>7. Config.requireMap => c.up # None
  BY <1>1, <1>3, <1>6 DEF x
<1> QED BY <1>1, <1>2, <1>6, <1>7 DEF Trusted, r, x

\* What a row that has a probability costs and is worth is a number.
LEMMA RowNumbers ==
  ASSUME IInv, NEW e \in Events, NEW s \in Enabled, NEW o \in Outcomes
  PROVE  LET r == EventRow(s, o, Polled(e))
         IN  /\ UnitCost(s, r.input) \in Int
             /\ r.input.probability \in Probability
             /\ r.input.probability # None =>
                  /\ r.result.net = r.input.probability - UnitCost(s, r.input)
                  /\ r.result.net \in Int
<1> DEFINE r == EventRow(s, o, Polled(e))
<1>1. /\ r.input = Input(o, Polled(e), r.input.probability)
      /\ r.input.probability \in Probability
      /\ r.result = FailClosed(Evaluate(s, r.input), r.calibration)
  BY RowSays
<1> HIDE DEF r
<1>2. /\ r.input.fill \in Nat /\ r.input.fee \in Nat /\ r.input.slippage \in Int
      /\ r.input.latency \in Int
  BY <1>1, InputSays
<1>3. UnitCost(s, r.input) \in Int
  BY <1>2, ConfigTypes DEF UnitCost
<1>4. r.result.net = NetEv(s, r.input)
  BY <1>1, FailClosedSays
<1>5. r.input.probability # None => r.input.probability \in Int
  BY <1>1 DEF Probability
<1> QED BY <1>1, <1>3, <1>4, <1>5 DEF NetEv, r

\* Rows that max() can compare: typed, and one for each outcome.
Comparable(C) ==
  /\ C # {}
  /\ \A r \in C : /\ r.outcome \in Outcomes /\ r.input.probability \in Probability
                  /\ r.input.probability # None => r.result.net \in Int
  /\ \A r, q \in C : r.outcome = q.outcome => r = q

\* The row max() finds is one of those it is given.
LEMMA MainIsCandidate ==
  ASSUME NEW C, Comparable(C)
  PROVE  Main(C) \in C
<1> DEFINE first(r) == IF r.input.probability = None THEN -1000 ELSE r.result.net
           second(r) == IF r.input.probability = None THEN 0 ELSE r.input.probability
           above(r, q) == \/ first(r) > first(q)
                          \/ first(r) = first(q) /\ second(r) > second(q)
                          \/ first(r) = first(q) /\ second(r) = second(q) /\ r.outcome = "Up"
<1>1. ASSUME NEW r \in C PROVE first(r) \in Int /\ second(r) \in Int
  <2>1. /\ r.input.probability \in Probability
        /\ r.input.probability # None => r.result.net \in Int
    BY DEF Comparable
  <2>2. r.input.probability # None => r.input.probability \in Int
    <3> DEFINE p == r.input.probability
    <3>1. p \in Probability BY <2>1
    <3> HIDE DEF p
    <3>2. p # None => p \in Int BY <3>1 DEF Probability
    <3> QED BY <3>2 DEF p
  <2>3. first(r) \in Int BY <2>1
  <2>4. second(r) \in Int BY <2>2
  <2> HIDE DEF first, second
  <2> QED BY <2>3, <2>4
<1>2. \A r, q \in C : r # q => above(r, q) \/ above(q, r)
  <2> SUFFICES ASSUME NEW r \in C, NEW q \in C, r # q PROVE above(r, q) \/ above(q, r)
    OBVIOUS
  <2>1. first(r) \in Int /\ second(r) \in Int /\ first(q) \in Int /\ second(q) \in Int
    BY <1>1
  <2>2. r.outcome = "Up" \/ q.outcome = "Up" BY DEF Comparable, Outcomes
  <2> HIDE DEF first, second
  <2> QED BY <2>1, <2>2
<1>3. \E r \in C : \A q \in C \ {r} : above(r, q)
  <2>1. PICK r \in C : TRUE BY DEF Comparable
  <2>2. CASE C = {r} BY <2>2
  <2>3. CASE C # {r}
    <3>1. PICK q \in C : q # r BY <2>3
    <3>2. C = {r, q} BY <3>1 DEF Comparable, Outcomes
    <3>3. above(r, q) \/ above(q, r) BY <1>2, <3>1
    <3> HIDE DEF above
    <3> QED BY <3>2, <3>3
  <2> QED BY <2>2, <2>3
<1>4. Main(C) = CHOOSE r \in C : \A q \in C \ {r} : above(r, q)
  BY DEF Main
<1> HIDE DEF above
<1> QED BY <1>3, <1>4

\* An accepted hedge joins two rows of one event: an accepted directional row
\* and a lottery row of the other outcome that nothing but its expected value
\* may block; and it passed every limit.
LEMMA HedgeSays ==
  ASSUME IInv, NEW e \in Events,
         NEW h \in TerminalHedge(EventRows(e, Context(anchor)), e), h.decision = "ACCEPT"
  PROVE  LET sums == HedgeSums(h.main, h.hedge, e.size)
         IN  \E o \in Outcomes, p \in Outcomes :
               /\ o # p /\ Directional \in Enabled /\ Lottery \in Enabled
               /\ h.main = EventRow(Directional, o, Polled(e))
               /\ h.main.result.decision = "ACCEPT"
               /\ h.hedge = EventRow(Lottery, p, Polled(e))
               /\ h.hedge.result.blocking \subseteq {LowEv}
               /\ h.size = e.size /\ h.units = sums.units /\ h.scale = sums.scale
               /\ ~(sums.scale <= 0) /\ ~(sums.win <= 0)
               /\ ~(sums.reversal < -Config.maxReversalLoss * sums.scale)
<1> DEFINE rows == EventRows(e, Context(anchor))
           row(s, o) == EventRow(s, o, Polled(e))
           directional == {r \in rows : r.strategy = Directional}
           accepted == {r \in directional : r.result.decision = "ACCEPT"}
           some == IF accepted = {} THEN directional ELSE accepted
           main == Main(some)
           others == {r \in rows : r.strategy = Lottery /\ r.outcome # main.outcome}
           hedge == CHOOSE r \in others : TRUE
           blockers == hedge.result.blocking \ {"net_ev_below_threshold"}
           sums == HedgeSums(main, hedge, e.size)
           first == << <<accepted = {}, main.result.reason>>,
                       <<others = {}, "hedge_quote_unavailable">>,
                       <<accepted # {} /\ others # {} /\ blockers # {}, "hedge_blocked">> >>
           limits == <<
             <<hedge.input.fill > Config.lotteryMax, "hedge_price_above_limit">>,
             <<sums.scale <= 0, "hedge_unit_cost_invalid">>,
             <<sums.units = 0, "hedge_not_required">>,
             <<1000 * sums.units > e.size * Config.maxHedgeRatio * sums.scale,
               "hedge_size_above_limit">>,
             <<sums.win <= 0, "main_win_pnl_not_positive">>,
             <<sums.reversal < -Config.maxReversalLoss * sums.scale,
               "reversal_loss_above_limit">>,
             <<sums.expected < 1000 * Config.minHedgePnl * sums.scale,
               "portfolio_ev_below_threshold">> >>
           reason == FirstOr(first, FirstOr(limits, Taken))
           takes == reason = Taken
<1>1. h = [main |-> main, hedge |-> IF others = {} THEN None ELSE hedge, reason |-> reason,
           decision |-> IF takes THEN "ACCEPT" ELSE "REJECT", size |-> e.size,
           units |-> IF takes THEN sums.units ELSE 0, scale |-> IF takes THEN sums.scale ELSE 1]
      /\ directional # {}
  BY DEF TerminalHedge, Taken
<1>2. rows = {row(s, o) : s \in Enabled, o \in Outcomes}
  BY DEF EventRows, Polled
<1>3. \A s \in Enabled, o \in Outcomes : row(s, o).strategy = s /\ row(s, o).outcome = o
  BY RowSays
<1> HIDE DEF row
<1>4. \A r \in rows : \E s \in Enabled, o \in Outcomes :
        r = row(s, o) /\ r.strategy = s /\ r.outcome = o
  BY <1>2, <1>3
<1> HIDE DEF rows
<1>5. main \in some
  <2>1. some # {} BY <1>1
  <2>2. \A r \in some : r \in rows /\ r.strategy = Directional OBVIOUS
  <2>3. ASSUME NEW r \in some
        PROVE  /\ r.outcome \in Outcomes /\ r.input.probability \in Probability
               /\ r.input.probability # None => r.result.net \in Int
    <3>1. PICK s \in Enabled, o \in Outcomes :
            r = EventRow(s, o, Polled(e)) /\ r.strategy = s /\ r.outcome = o
      BY <1>4, <2>2 DEF row
    <3> QED BY <3>1, RowNumbers
  <2>4. \A r, q \in some : r.outcome = q.outcome => r = q
    BY <1>4, <2>2
  <2> HIDE DEF some
  <2>5. Comparable(some) BY <2>1, <2>3, <2>4 DEF Comparable
  <2> QED BY <2>5, MainIsCandidate
<1> HIDE DEF main
<1>6. takes
  <2> HIDE DEF reason, some, others, hedge, sums, directional
  <2> QED BY <1>1
<1>7. Held(first) = {} /\ Held(limits) = {}
  <2>1. main.result.reason # Taken
    <3>1. main \in rows BY <1>5
    <3>2. PICK s \in Enabled, o \in Outcomes : main = EventRow(s, o, Polled(e))
      BY <1>4, <3>1 DEF row
    <3>3. /\ main.input = Input(o, Polled(e), main.input.probability)
          /\ main.input.probability # None => Polled(e).model.beat # None
          /\ main.input.probability = None => Polled(e).modelBlock \notin Verdicts
          /\ main.result = FailClosed(Evaluate(s, main.input), main.calibration)
      BY <3>2, RowSays
    <3>4. /\ main.input.model = Polled(e).model
          /\ main.input.modelBlock = Polled(e).modelBlock
          /\ main.input.reference = Reference(venue, now)
      BY <3>3, InputSays
    <3>5. main.input.reference.block \in ReferenceBlocks \cup {None}
      <4>1. now \in Nat /\ VenueOK BY DEF IInv
      <4> QED BY <3>4, <4>1, ReferenceSays
    <3>6. None \in {main.input.model.beat, main.input.probability}
            => main.input.modelBlock \notin Verdicts
      BY <3>3, <3>4
    <3>7. Taken \notin Reasons(CommonRejections(main.input))
                         \cup Reasons(OwnRejections(s, main.input))
      BY <3>5, <3>6, NeverTaken
    <3>8. CASE main.result.decision = "ACCEPT"
      <4>1. main.result.reason = "positive_net_ev"
        BY <3>3, <3>8, FailClosedSays
      <4> QED BY <4>1 DEF Taken
    <3>9. CASE main.result.decision = "REJECT"
      <4>1. main.result.reason \in main.result.blocking
        BY <3>3, <3>9, FailClosedSays
      <4>2. main.result.blocking \subseteq Reasons(CommonRejections(main.input))
              \cup Reasons(OwnRejections(s, main.input))
              \cup {"probability_calibration_unavailable"}
        BY <3>3, FailClosedSays
      <4> QED BY <3>7, <4>1, <4>2 DEF Taken
    <3>10. main.result.decision \in {"ACCEPT", "REJECT"} BY <3>3, FailClosedSays
    <3> QED BY <3>8, <3>9, <3>10
  <2>2. DOMAIN first = 1..3 /\ \A i \in 1..3 : first[i][2] # Taken
    <3>1. first[1][2] = main.result.reason /\ first[2][2] = "hedge_quote_unavailable"
          /\ first[3][2] = "hedge_blocked" /\ DOMAIN first = 1..3
      OBVIOUS
    <3> HIDE DEF first
    <3> QED BY <2>1, <3>1 DEF Taken
  <2>3. DOMAIN limits = 1..7 /\ \A i \in 1..7 : limits[i][2] # Taken
    BY DEF Taken
  <2> HIDE DEF first, limits
  <2>4. Taken \notin Reasons(first) /\ Taken \notin Reasons(limits)
    BY <2>2, <2>3 DEF Reasons, Held
  <2>5. DOMAIN first \in SUBSET Nat /\ DOMAIN limits \in SUBSET Nat
    BY <2>2, <2>3
  <2> QED BY <1>6, <2>4, <2>5, FirstIsReason
<1>8. accepted # {} /\ others # {} /\ ~(accepted # {} /\ others # {} /\ blockers # {})
  <2>1. first[1][1] = (accepted = {}) /\ first[2][1] = (others = {})
    OBVIOUS
  <2>2. first[3][1] = (accepted # {} /\ others # {} /\ blockers # {})
    OBVIOUS
  <2>3. DOMAIN first = 1..3 OBVIOUS
  <2> HIDE DEF first, accepted, others, blockers
  <2>4. ~first[1][1] /\ ~first[2][1] /\ ~first[3][1] BY <1>7, <2>3 DEF Held
  <2> QED BY <2>1, <2>2, <2>4
<1>9. /\ ~(sums.scale <= 0) /\ ~(sums.win <= 0)
      /\ ~(sums.reversal < -Config.maxReversalLoss * sums.scale)
  <2> HIDE DEF sums, hedge
  <2>1. limits[2][1] = (sums.scale <= 0) /\ limits[5][1] = (sums.win <= 0)
    OBVIOUS
  <2>2. limits[6][1] = (sums.reversal < -Config.maxReversalLoss * sums.scale)
    OBVIOUS
  <2>3. DOMAIN limits = 1..7 OBVIOUS
  <2> HIDE DEF limits
  <2>4. ~limits[2][1] /\ ~limits[5][1] /\ ~limits[6][1] BY <1>7, <2>3 DEF Held
  <2> QED BY <2>1, <2>2, <2>4
<1>10. hedge \in others BY <1>8
<1>11. PICK o \in Outcomes : /\ main = row(Directional, o) /\ main.outcome = o
                             /\ Directional \in Enabled
  BY <1>4, <1>5, <1>8
<1>12. main.result.decision = "ACCEPT" BY <1>5, <1>8
<1> HIDE DEF hedge
<1>13. PICK p \in Outcomes : /\ hedge = row(Lottery, p) /\ hedge.outcome = p
                             /\ Lottery \in Enabled
  BY <1>4, <1>10
<1>14. o # p BY <1>10, <1>11, <1>13
<1>15. hedge.result.blocking \subseteq {LowEv} BY <1>8 DEF LowEv
<1>16. /\ h.main = main /\ h.hedge = hedge /\ h.size = e.size
       /\ h.units = sums.units /\ h.scale = sums.scale
  <2>1. others # {} BY <1>8
  <2> HIDE DEF reason, some, others, sums, directional
  <2> QED BY <1>1, <1>6, <2>1
<1> HIDE DEF others, accepted, blockers
<1>17. HedgeSums(h.main, h.hedge, e.size) = sums BY <1>16
<1> HIDE DEF sums
<1> QED BY <1>9, <1>11, <1>12, <1>13, <1>14, <1>15, <1>16, <1>17 DEF row
\* The rows of an observed event are those of its two strategies and outcomes.
LEMMA RowsOf ==
  ASSUME IInv, NEW a \in audit
  PROVE  \E e \in Events :
           /\ a.rows = EventRows(e, Context(anchor))
           /\ a.hedges = TerminalHedge(EventRows(e, Context(anchor)), e)
           /\ \A r \in a.rows : \E s \in Enabled, o \in Outcomes :
                r = EventRow(s, o, Polled(e)) /\ r.strategy = s /\ r.outcome = o
<1>1. PICK e \in Events :
        a.rows = EventRows(e, Context(anchor)) /\ a.hedges = TerminalHedge(a.rows, e)
  BY DEF IInv, AuditIsPolled
<1>2. \A r \in EventRows(e, Context(anchor)) : \E s \in Enabled, o \in Outcomes :
        r = EventRow(s, o, Polled(e))
  BY DEF EventRows, Polled
<1>3. \A s \in Enabled, o \in Outcomes :
        EventRow(s, o, Polled(e)).strategy = s /\ EventRow(s, o, Polled(e)).outcome = o
  BY RowSays
<1> QED BY <1>1, <1>2, <1>3

\* An accepted row of an event is to be trusted.
LEMMA AcceptedTrusted ==
  ASSUME IInv, NEW a \in audit, NEW r \in Accepted(a)
  PROVE  Trusted(r)
<1>1. r \in a.rows /\ r.result.decision = "ACCEPT"
  BY DEF Accepted
<1>2. PICK e \in Events, s \in Enabled, o \in Outcomes : r = EventRow(s, o, Polled(e))
  BY <1>1, RowsOf
<1> QED BY <1>1, <1>2, UnblockedTrusted

\* So is every row that is acted on.
LEMMA ActedOnTrusted ==
  ASSUME IInv, NEW r \in ActedOn
  PROVE  Trusted(r)
<1>1. CASE \E a \in audit : r \in Accepted(a)
  BY <1>1, AcceptedTrusted
<1>2. CASE \E h \in AcceptedHedges : r = h.main \/ r = h.hedge
  <2>1. PICK h \in AcceptedHedges : r = h.main \/ r = h.hedge BY <1>2
  <2>2. PICK a \in audit : h \in a.hedges /\ h.decision = "ACCEPT"
    BY <2>1 DEF AcceptedHedges
  <2>3. PICK e \in Events : a.hedges = TerminalHedge(EventRows(e, Context(anchor)), e)
    BY RowsOf
  <2>4. PICK o \in Outcomes, p \in Outcomes :
          /\ Directional \in Enabled /\ Lottery \in Enabled
          /\ h.main = EventRow(Directional, o, Polled(e))
          /\ h.main.result.decision = "ACCEPT"
          /\ h.hedge = EventRow(Lottery, p, Polled(e))
          /\ h.hedge.result.blocking \subseteq {LowEv}
    BY <2>2, <2>3, HedgeSays
  <2>5. Trusted(h.main) /\ Trusted(h.hedge)
    BY <2>4, UnblockedTrusted
  <2> QED BY <2>1, <2>5
<1>3. (\E a \in audit : r \in Accepted(a)) \/ (\E h \in AcceptedHedges : r = h.main \/ r = h.hedge)
  <2> DEFINE rows == UNION {Accepted(a) : a \in audit}
             hedged == UNION {{h.main, h.hedge} : h \in AcceptedHedges}
  <2>0. ActedOn = rows \cup hedged BY DEF ActedOn
  <2>1. r \in rows \/ r \in hedged
    <3> HIDE DEF rows, hedged
    <3> QED BY <2>0
  <2>2. r \in rows => \E a \in audit : r \in Accepted(a)
    OBVIOUS
  <2>3. r \in hedged => \E h \in AcceptedHedges : r = h.main \/ r = h.hedge
    OBVIOUS
  <2> QED BY <2>1, <2>2, <2>3
<1> QED BY <1>1, <1>2, <1>3

LEMMA TypesKept ==
  ASSUME IInv
  PROVE  TypeOK
<1>1. \A s \in Sources : venue.sources[s].status \in SourceStatuses
  BY DEF IInv, VenueOK
<1>2. anchor = None \/ anchor.mode \in {"gamma", "live_boundary", "restart_backfill"}
  BY DEF IInv, AnchorTyped, Modes
<1>3. ASSUME NEW r \in Rows
      PROVE  /\ r.input.probability \in 1..999 \cup {None}
             /\ r.calibration.scope \in {"none", "raw", "timeframe", "strategy"}
             /\ (r.result.decision = "REJECT") <=> (r.result.reason \in r.result.blocking)
  <2>1. PICK a \in audit : r \in a.rows BY DEF Rows
  <2>2. PICK e \in Events, s \in Enabled, o \in Outcomes : r = EventRow(s, o, Polled(e))
    BY <2>1, RowsOf
  <2>3. /\ r.input.probability \in Probability
        /\ r.calibration.scope \in {"none", "raw", "timeframe", "strategy"}
        /\ r.result = FailClosed(Evaluate(s, r.input), r.calibration)
    BY <2>2, RowSays
  <2>4. (r.result.decision = "REJECT") <=> (r.result.reason \in r.result.blocking)
    BY <2>3, FailClosedSays
  <2> QED BY <2>3, <2>4 DEF Probability
<1> QED BY <1>1, <1>2, <1>3 DEF TypeOK, IInv

LEMMA VouchedKept ==
  ASSUME IInv, Config.requireMap
  PROVE  AcceptIsVouched
<1> SUFFICES ASSUME NEW r \in ActedOn
             PROVE  /\ map # None /\ now - map.at <= Config.mapMaxAge
                    /\ Samples(log, {k \in Predictions :
                         /\ k.strategy = r.strategy /\ k.cohort = cohort
                         /\ Bucket(k.probability) = Bucket(r.calibration.input)})
                         >= Config.minSamples
  BY DEF AcceptIsVouched
<1>1. Trusted(r) BY ActedOnTrusted
<1> QED BY <1>1 DEF Trusted, Alike

LEMMA EvidenceKept ==
  ASSUME IInv
  PROVE  RowNamesItsEvidence
<1>1. now \in Nat /\ VenueOK BY DEF IInv
<1>2. ASSUME NEW r \in Rows, NEW s \in ValidSources(r.input.reference.roles)
      PROVE  Heard(s)
  <2>1. PICK a \in audit : r \in a.rows BY DEF Rows
  <2>2. PICK e \in Events, t \in Enabled, o \in Outcomes : r = EventRow(t, o, Polled(e))
    BY <2>1, RowsOf
  <2>3. r.input = Input(o, Polled(e), r.input.probability) BY <2>2, RowSays
  <2>4. r.input.reference = Reference(venue, now) BY <2>3, InputSays
  <2> QED BY <1>1, <1>2, <2>4, ValidIsHeard
<1>3. ASSUME NEW r \in ActedOn
      PROVE  LET valid == ValidSources(r.input.reference.roles)
                 spot  == {s \in valid : SourceInfo[s].spot}
             IN  /\ Settlement \in valid
                 /\ Cardinality(spot) >= 2 /\ \E s \in spot : SourceInfo[s].usd
                 /\ ~Diverges(venue, spot)
  <2>1. /\ r.input.reference = Reference(venue, now)
        /\ r.input.reference.block = None /\ r.input.reference.verified
    BY ActedOnTrusted DEF Trusted
  <2>2. Reference(venue, now).block = None /\ Reference(venue, now).verified BY <2>1
  <2> QED BY <1>1, <2>1, <2>2, QuorumMet
<1> QED BY <1>2, <1>3 DEF RowNamesItsEvidence

\* A row's cost of a share is what the property says is paid for it.
LEMMA PaidIsCost ==
  ASSUME NEW r
  PROVE  /\ r.strategy = Directional => PaidPerShare(r) = UnitCost(Directional, r.input)
         /\ r.strategy = Lottery => PaidPerShare(r) = UnitCost(Lottery, r.input)
BY DEF PaidPerShare, UnitCost, Directional, Lottery

\* An accepted row that has a probability is worth its cost and the minimum.
LEMMA AcceptedWorth ==
  ASSUME IInv, NEW e \in Events, NEW s \in Enabled, NEW o \in Outcomes,
         EventRow(s, o, Polled(e)).result.decision = "ACCEPT"
  PROVE  LET r == EventRow(s, o, Polled(e))
         IN  /\ r.input.probability \in 1..999 /\ UnitCost(s, r.input) \in Int
             /\ r.input.probability - UnitCost(s, r.input) >= Config.minNetEv
<1> DEFINE r == EventRow(s, o, Polled(e))
<1>1. r.result = FailClosed(Evaluate(s, r.input), r.calibration)
  BY RowSays
<1>2. r.input.probability # None BY UnblockedTrusted
<1>3. /\ UnitCost(s, r.input) \in Int /\ r.input.probability \in Probability
      /\ r.result.net = r.input.probability - UnitCost(s, r.input)
  BY <1>2, RowNumbers
<1>4. r.result.decision = "ACCEPT" OBVIOUS
<1> HIDE DEF r
<1>5. Reasons(OwnRejections(s, r.input)) = {} /\ r.result.net = NetEv(s, r.input)
  BY <1>1, <1>4, FailClosedSays
<1>6. r.input.probability \in 1..999 BY <1>2, <1>3 DEF Probability
<1>7. NetEv(s, r.input) # None
  <2>1. r.result.net \in Int BY <1>2, RowNumbers DEF r
  <2> QED BY <1>5, <2>1, NoneDistinct
<1>8. ~(NetEv(s, r.input) < Config.minNetEv) BY <1>5, <1>7, AcceptHasEv
<1> DEFINE worth == r.input.probability - UnitCost(s, r.input)
<1>9. ~(worth < Config.minNetEv) BY <1>3, <1>5, <1>8
<1>10. worth >= Config.minNetEv
  <2> DEFINE p == r.input.probability  cost == UnitCost(s, r.input)
  <2>1. p - cost \in Int
    <3>1. p \in Int /\ cost \in Int BY <1>3, <1>6
    <3> HIDE DEF p, cost
    <3> QED BY <3>1
  <2> HIDE DEF worth
  <2> QED BY <1>9, <2>1, ConfigTypes DEF worth
<1> QED BY <1>3, <1>6, <1>10 DEF r

LEMMA ArbitrageKept ==
  ASSUME IInv
  PROVE  BothSidesIsArbitrage
<1> SUFFICES ASSUME NEW a \in audit, NEW u \in Accepted(a), NEW d \in Accepted(a),
                    u.strategy = Directional, d.strategy = Directional,
                    u.outcome # d.outcome
             PROVE  PaidPerShare(u) + PaidPerShare(d) <= 1000 - 2 * Config.minNetEv
  BY DEF BothSidesIsArbitrage
<1>1. /\ u \in a.rows /\ u.result.decision = "ACCEPT"
      /\ d \in a.rows /\ d.result.decision = "ACCEPT"
  BY DEF Accepted
<1>2. PICK e \in Events : \A r \in a.rows : \E s \in Enabled, o \in Outcomes :
        r = EventRow(s, o, Polled(e)) /\ r.strategy = s /\ r.outcome = o
  BY RowsOf
<1> DEFINE D == Directional
<1>3. D \in Enabled /\ u.outcome \in Outcomes /\ d.outcome \in Outcomes
      /\ u = EventRow(D, u.outcome, Polled(e)) /\ d = EventRow(D, d.outcome, Polled(e))
  BY <1>1, <1>2
<1> HIDE DEF D
<1>4. /\ u.input.probability \in 1..999 /\ UnitCost(D, u.input) \in Int
      /\ u.input.probability - UnitCost(D, u.input) >= Config.minNetEv
      /\ d.input.probability \in 1..999 /\ UnitCost(D, d.input) \in Int
      /\ d.input.probability - UnitCost(D, d.input) >= Config.minNetEv
  BY <1>1, <1>3, AcceptedWorth
<1>5. u.calibration = d.calibration
  <2>1. \A o \in Outcomes : EventRow(D, o, Polled(e)).calibration =
          Calibrate(Polled(e).map, D, CalibrationInput(D, Polled(e)), Polled(e).now,
                    Polled(e).cohort)
    BY DEF EventRow, DecisionAudit
  <2> QED BY <1>3, <2>1
<1>6. PICK q : /\ u.input.probability = ForOutcome(u.outcome, q)
               /\ d.input.probability = ForOutcome(d.outcome, q)
  <2> DEFINE p == IF u.calibration.up = None THEN Polled(e).up[D] ELSE u.calibration.up
  <2>1. u.input.probability = ForOutcome(u.outcome, p) BY <1>3, RowSays
  <2>2. d.input.probability = ForOutcome(d.outcome, p) BY <1>3, <1>5, RowSays
  <2> QED BY <2>1, <2>2
<1>7. q # None /\ q \in 1..999
  <2>1. CASE u.outcome = "Up" BY <1>4, <1>6, <2>1, NoneDistinct DEF ForOutcome
  <2>2. CASE d.outcome = "Up" BY <1>4, <1>6, <2>2, NoneDistinct DEF ForOutcome
  <2> QED BY <1>3, <2>1, <2>2 DEF Outcomes
<1>8. u.input.probability + d.input.probability = 1000
  <2>1. CASE u.outcome = "Up"
    <3>1. u.input.probability = q /\ d.input.probability = 1000 - q
      BY <1>6, <1>7, <2>1 DEF ForOutcome, Complement
    <3> QED BY <1>7, <3>1
  <2>2. CASE d.outcome = "Up"
    <3>1. d.input.probability = q /\ u.input.probability = 1000 - q
      BY <1>6, <1>7, <2>2 DEF ForOutcome, Complement
    <3> QED BY <1>7, <3>1
  <2> QED BY <1>3, <2>1, <2>2 DEF Outcomes
<1>9. PaidPerShare(u) = UnitCost(D, u.input) /\ PaidPerShare(d) = UnitCost(D, d.input)
  BY PaidIsCost DEF D
<1> DEFINE up == u.input.probability  down == d.input.probability
           this == UnitCost(D, u.input)  that == UnitCost(D, d.input)
           least == Config.minNetEv
<1>10. this + that <= 1000 - 2 * least
  <2>1. up \in Int /\ down \in Int /\ this \in Int /\ that \in Int
    <3>1. up \in 1..999 /\ down \in 1..999 /\ this \in Int /\ that \in Int BY <1>4
    <3> HIDE DEF up, down, this, that
    <3> QED BY <3>1
  <2>3. up - this >= least BY <1>4
  <2>4. down - that >= least BY <1>4
  <2>5. up + down = 1000 BY <1>8
  <2>2. least \in Nat BY ConfigTypes
  <2> HIDE DEF up, down, this, that, least
  <2> QED BY <2>1, <2>2, <2>3, <2>4, <2>5
<1> QED BY <1>9, <1>10

LEMMA HedgeLossKept ==
  ASSUME IInv
  PROVE  HedgeBoundsLoss
<1> SUFFICES ASSUME NEW h \in AcceptedHedges
             PROVE  LET cost == h.scale * h.size * PaidPerShare(h.main)
                                  + h.units * PaidPerShare(h.hedge)
                    IN  /\ h.main.outcome # h.hedge.outcome
                        /\ 1000 * h.size * h.scale > cost
                        /\ 1000 * h.units - cost >= -Config.maxReversalLoss * h.scale
  BY DEF HedgeBoundsLoss
<1>1. PICK a \in audit : h \in a.hedges /\ h.decision = "ACCEPT"
  BY DEF AcceptedHedges
<1>2. PICK e \in Events : a.hedges = TerminalHedge(EventRows(e, Context(anchor)), e)
  BY RowsOf
<1> DEFINE sums == HedgeSums(h.main, h.hedge, e.size)
<1>3. PICK o \in Outcomes, p \in Outcomes :
        /\ o # p /\ Directional \in Enabled /\ Lottery \in Enabled
        /\ h.main = EventRow(Directional, o, Polled(e))
        /\ h.hedge = EventRow(Lottery, p, Polled(e))
        /\ h.size = e.size /\ h.units = sums.units /\ h.scale = sums.scale
        /\ ~(sums.scale <= 0) /\ ~(sums.win <= 0)
        /\ ~(sums.reversal < -Config.maxReversalLoss * sums.scale)
  BY <1>1, <1>2, HedgeSays
<1>4. h.main.strategy = Directional /\ h.hedge.strategy = Lottery
      /\ h.main.outcome = o /\ h.hedge.outcome = p
  BY <1>3, RowSays
<1> DEFINE paid == UnitCost(Directional, h.main.input)
           back == UnitCost(Lottery, h.hedge.input)
           size == e.size
           scale == 1000 - back
           units == Greatest(0, size * paid - Config.maxReversalLoss)
           total == (size * paid) * scale + units * back
<1>5. PaidPerShare(h.main) = paid /\ PaidPerShare(h.hedge) = back
  BY <1>4, PaidIsCost
<1>6. paid \in Int /\ back \in Int BY <1>3, RowNumbers
<1>7. size \in Nat /\ Config.maxReversalLoss \in Nat BY InputAssumption, ConfigTypes
<1>8. /\ sums.scale = scale /\ sums.units = units
      /\ sums.win = 1000 * size * scale - total /\ sums.reversal = 1000 * units - total
  BY DEF HedgeSums, HedgeScale
<1> HIDE DEF sums, paid, back, size
<1>9. size * paid \in Int BY <1>6, <1>7
<1>10. scale \in Int /\ units \in Int BY <1>6, <1>7, <1>9 DEF Greatest
<1> HIDE DEF scale, units
<1>11. /\ (size * paid) * scale \in Int /\ units * back \in Int /\ 1000 * size * scale \in Int
       /\ Config.maxReversalLoss * scale \in Int
  BY <1>6, <1>7, <1>9, <1>10
<1>12. scale * size * paid = (size * paid) * scale BY <1>6, <1>7, <1>10
<1>13. h.scale * h.size * PaidPerShare(h.main) + h.units * PaidPerShare(h.hedge) = total
  BY <1>3, <1>5, <1>8, <1>12 DEF size
<1>14. /\ ~(1000 * size * scale - total <= 0)
       /\ ~(1000 * units - total < -Config.maxReversalLoss * scale)
  BY <1>3, <1>8
<1>15. 1000 * size * scale > total
  <2> DEFINE A == 1000 * size * scale
  <2>1. A \in Int /\ total \in Int BY <1>11
  <2> HIDE DEF A, total
  <2> QED BY <1>14, <2>1 DEF A
<1>16. 1000 * units - total >= -Config.maxReversalLoss * scale
  <2> DEFINE B == -Config.maxReversalLoss * scale
  <2>1. B \in Int /\ total \in Int BY <1>11
  <2>2. 1000 * units \in Int BY <1>10
  <2> HIDE DEF B, total
  <2> QED BY <1>14, <2>1, <2>2 DEF B
<1> HIDE DEF total
<1>17. h.main.outcome # h.hedge.outcome BY <1>3, <1>4
<1>18. 1000 * h.size * h.scale = 1000 * size * scale BY <1>3, <1>8 DEF size
<1>19. 1000 * h.units = 1000 * units /\ h.scale = scale BY <1>3, <1>8
<1> QED BY <1>13, <1>15, <1>16, <1>17, <1>18, <1>19

LEMMA Initial ==
  ASSUME Init
  PROVE  IInv
<1> USE DEF Init
<1>1. now \in 0..Horizon /\ inputs \in 0..MaxInputs /\ cohort \in {1, 2}
  BY TimeAssumption
<1>2. market \in ScanResults /\ log \in [Predictions -> Nat]
  BY InputAssumption
<1>3. VenueOK
  <2>1. PICK stats \in AssetStats, heard \in InitiallyHeard :
          venue = [updated |-> 0, stats |-> stats,
                   sources |-> [s \in Sources |->
                     IF s \in heard
                     THEN [price |-> Min(SourcePrices[s]), at |-> 0, status |-> "FRESH"]
                     ELSE [price |-> None, at |-> None, status |-> "NOT_RECEIVED"]]]
    OBVIOUS
  <2>2. /\ venue.updated = 0 /\ venue.stats = stats
        /\ venue.sources = [s \in Sources |->
                     IF s \in heard
                     THEN [price |-> Min(SourcePrices[s]), at |-> 0, status |-> "FRESH"]
                     ELSE [price |-> None, at |-> None, status |-> "NOT_RECEIVED"]]
    BY <2>1
  <2>3. ASSUME NEW s \in Sources PROVE Min(SourcePrices[s]) \in SourcePrices[s]
                                       /\ Min(SourcePrices[s]) \in Nat
    <3>1. SourcePrices[s] \in SUBSET Nat /\ SourcePrices[s] # {}
      BY InputAssumption DEF Range
    <3> QED BY <3>1, MinNat
  <2>4. ASSUME NEW s \in Sources
        PROVE  /\ venue.sources[s] \in [price : OptionalNat, at : OptionalNat,
                                         status : SourceStatuses]
               /\ venue.sources[s].at # None => venue.sources[s].at <= 0
               /\ venue.sources[s].price # None => venue.sources[s].price \in SourcePrices[s]
    <3>1. CASE s \in heard
      <4>1. venue.sources[s] = [price |-> Min(SourcePrices[s]), at |-> 0, status |-> "FRESH"]
        BY <2>2, <3>1
      <4> QED BY <2>3, <4>1 DEF OptionalNat, SourceStatuses
    <3>2. CASE s \notin heard
      <4>1. venue.sources[s] = [price |-> None, at |-> None, status |-> "NOT_RECEIVED"]
        BY <2>2, <3>2
      <4> QED BY <4>1 DEF OptionalNat, SourceStatuses
    <3> QED BY <3>1, <3>2
  <2>5. venue.sources \in [Sources -> [price : OptionalNat, at : OptionalNat,
                                       status : SourceStatuses]]
    BY <2>2, <2>4
  <2> QED BY <2>2, <2>4, <2>5 DEF VenueOK
<1>4. FeedOrdered
  BY DEF FeedOrdered
<1>5. AnchorTyped /\ AnchorIsOpening /\ MapIsBuilt /\ AuditIsPolled
  BY DEF AnchorTyped, AnchorIsOpening, MapIsBuilt, AuditIsPolled
<1> QED BY <1>1, <1>2, <1>3, <1>4, <1>5 DEF IInv

\* The settlement prices received, and when.
FeedPrices == [stamp : Nat, at : Nat, price : SourcePrices[MarketInfo.source]]

LEMMA FeedTyped ==
  ASSUME FeedOrdered
  PROVE  /\ Len(feed) \in Nat /\ DOMAIN feed = 1..Len(feed)
         /\ \A i \in DOMAIN feed : feed[i] \in FeedPrices
         /\ \A i \in DOMAIN feed : feed[i].at \in Nat /\ feed[i].stamp \in Nat
<1>1. feed \in Seq(FeedPrices) BY DEF FeedOrdered, FeedPrices
<1>2. Len(feed) \in Nat /\ DOMAIN feed = 1..Len(feed) BY <1>1
<1>3. \A i \in DOMAIN feed : feed[i] \in FeedPrices BY <1>1, <1>2
<1> QED BY <1>2, <1>3 DEF FeedPrices

\* The clock ticks.
LEMMA TickStep ==
  ASSUME IInv, Tick
  PROVE  IInv'
<1> USE DEF Tick, files
<1>0. now' = now + 1 /\ now \in Nat /\ Horizon \in Nat BY TimeAssumption DEF IInv
<1>1. /\ now' \in 0..Horizon /\ inputs' \in 0..MaxInputs /\ cohort' \in {1, 2}
      /\ market' \in ScanResults /\ log' \in [Predictions -> Nat]
  BY <1>0 DEF IInv
<1>2. VenueOK'
  BY <1>0 DEF IInv, VenueOK
<1>3. FeedOrdered'
  <2>1. ASSUME NEW i \in DOMAIN feed PROVE feed[i].at <= now'
    <3>2. feed[i].at \in Nat /\ feed[i].at <= now BY FeedTyped DEF IInv, FeedOrdered
    <3> QED BY <1>0, <3>2
  <2> QED BY <2>1 DEF IInv, FeedOrdered
<1>4. AnchorTyped'
  BY <1>0 DEF IInv, AnchorTyped
<1>5. AnchorIsOpening'
  BY DEF IInv, AnchorIsOpening
<1>6. MapIsBuilt'
  <2> SUFFICES ASSUME map # None
               PROVE  \E logged \in [Predictions -> Nat], made \in {1, 2}, at \in Nat :
                        /\ map = BuildMap(logged, made, at) /\ at <= now'
                        /\ \A k \in Predictions : logged[k] <= log[k]
    BY DEF MapIsBuilt
  <2>1. PICK logged \in [Predictions -> Nat], made \in {1, 2}, at \in Nat :
          /\ map = BuildMap(logged, made, at) /\ at <= now
          /\ \A k \in Predictions : logged[k] <= log[k]
    BY DEF IInv, MapIsBuilt
  <2>2. at <= now' BY <1>0, <2>1
  <2> QED BY <2>1, <2>2
<1>7. AuditIsPolled'
  BY DEF AuditIsPolled
<1> QED BY <1>1, <1>2, <1>3, <1>4, <1>5, <1>6, <1>7 DEF IInv

LEMMA InputType ==
  ASSUME IInv, InputMade
  PROVE  inputs' \in 0..MaxInputs /\ audit' = {}
BY TimeAssumption DEF IInv, InputMade

\* The scanner, the log and the deployment leave the prices alone.
LEMMA ScanStep ==
  ASSUME IInv, Scan
  PROVE  IInv'
<1>1. /\ inputs' \in 0..MaxInputs /\ audit' = {} /\ market' \in ScanResults
      /\ UNCHANGED <<now, venue, feed, anchor, log, map, cohort>>
  BY InputType DEF Scan
<1> QED
  BY <1>1 DEF IInv, VenueOK, FeedOrdered, AnchorTyped, AnchorIsOpening, MapIsBuilt,
              AuditIsPolled

LEMMA RedeployStep ==
  ASSUME IInv, Redeploy
  PROVE  IInv'
<1>1. /\ inputs' \in 0..MaxInputs /\ audit' = {} /\ cohort' \in {1, 2}
      /\ UNCHANGED <<now, market, venue, feed, anchor, log, map>>
  BY InputType DEF Redeploy
<1> QED
  BY <1>1 DEF IInv, VenueOK, FeedOrdered, AnchorTyped, AnchorIsOpening, MapIsBuilt,
              AuditIsPolled

LEMMA ScoreStep ==
  ASSUME IInv, Score
  PROVE  IInv'
<1>1. PICK k \in Predictions :
        /\ InputMade /\ log' = [log EXCEPT ![k] = @ + 1]
        /\ UNCHANGED <<now, market, venue, feed, anchor, map, cohort>>
  BY DEF Score
<1>2. inputs' \in 0..MaxInputs /\ audit' = {}
  BY <1>1, InputType
<1>3. log' \in [Predictions -> Nat] /\ \A q \in Predictions : log[q] <= log'[q]
  BY <1>1 DEF IInv
<1>4. MapIsBuilt'
  <2> SUFFICES ASSUME map # None
               PROVE  \E logged \in [Predictions -> Nat], made \in {1, 2}, at \in Nat :
                        /\ map = BuildMap(logged, made, at) /\ at <= now
                        /\ \A q \in Predictions : logged[q] <= log'[q]
    BY <1>1 DEF MapIsBuilt
  <2>1. PICK logged \in [Predictions -> Nat], made \in {1, 2}, at \in Nat :
          /\ map = BuildMap(logged, made, at) /\ at <= now
          /\ \A q \in Predictions : logged[q] <= log[q]
    BY DEF IInv, MapIsBuilt
  <2>2. ASSUME NEW q \in Predictions PROVE logged[q] <= log'[q]
    <3>1. logged[q] \in Nat /\ log[q] \in Nat /\ log'[q] \in Nat BY <1>3 DEF IInv
    <3> QED BY <1>3, <2>1, <3>1
  <2> QED BY <2>1, <2>2
<1> QED
  BY <1>1, <1>2, <1>3, <1>4
  DEF IInv, VenueOK, FeedOrdered, AnchorTyped, AnchorIsOpening, AuditIsPolled

LEMMA PublishStep ==
  ASSUME IInv, Publish
  PROVE  IInv'
<1>1. /\ map' = BuildMap(log, cohort, now) /\ audit' = {}
      /\ UNCHANGED <<now, market, venue, feed, anchor, log, cohort, inputs>>
  BY DEF Publish
<1>2. MapIsBuilt'
  <2>1. log \in [Predictions -> Nat] /\ cohort \in {1, 2} /\ now \in Nat BY DEF IInv
  <2>2. /\ map' = BuildMap(log, cohort, now) /\ now <= now'
        /\ \A k \in Predictions : log[k] <= log'[k]
    BY <1>1, <2>1
  <2> QED BY <2>1, <2>2 DEF MapIsBuilt
<1> QED
  BY <1>1, <1>2
  DEF IInv, VenueOK, FeedOrdered, AnchorTyped, AnchorIsOpening, AuditIsPolled

\* The engine rewrites one source's row of its file.
LEMMA VenueWritten ==
  ASSUME now \in Nat, VenueOK, now' = now, NEW s \in Sources,
         NEW row \in [price : OptionalNat, at : OptionalNat, status : SourceStatuses],
         row.at # None => row.at <= now, row.price # None => row.price \in SourcePrices[s],
         venue' = [venue EXCEPT !.updated = now, !.sources[s] = row]
  PROVE  VenueOK'
<1> DEFINE Row == [price : OptionalNat, at : OptionalNat, status : SourceStatuses]
<1>1. venue \in [updated : Nat, stats : AssetStats, sources : [Sources -> Row]]
      /\ venue.updated <= now
  BY DEF VenueOK
<1> HIDE DEF Row
<1>2. /\ venue'.updated = now /\ venue'.stats = venue.stats
      /\ venue'.sources = [venue.sources EXCEPT ![s] = row]
      /\ venue' \in [updated : Nat, stats : AssetStats, sources : [Sources -> Row]]
  BY <1>1 DEF Row
<1>3. ASSUME NEW t \in Sources
      PROVE  /\ venue'.sources[t].at # None => venue'.sources[t].at <= now
             /\ venue'.sources[t].price # None => venue'.sources[t].price \in SourcePrices[t]
  <2>1. CASE t = s
    <3>1. venue'.sources[t] = row BY <1>1, <1>2, <2>1
    <3> QED BY <2>1, <3>1
  <2>2. CASE t # s
    <3>1. venue'.sources[t] = venue.sources[t] /\ venue.sources[t] \in Row
      BY <1>1, <1>2, <2>2
    <3>2. venue.sources[t].at # None => venue.sources[t].at \in Nat
                                        /\ venue.sources[t].at <= venue.updated
      BY <3>1 DEF VenueOK, Row, OptionalNat
    <3>3. venue.updated \in Nat BY <1>1
    <3>4. venue.sources[t].price # None => venue.sources[t].price \in SourcePrices[t]
      BY DEF VenueOK
    <3> QED BY <1>1, <3>1, <3>2, <3>3, <3>4
  <2> QED BY <2>1, <2>2
<1> QED BY <1>2, <1>3 DEF VenueOK, Row

LEMMA DisconnectStep ==
  ASSUME IInv, NEW s \in Sources, Disconnect(s)
  PROVE  IInv'
<1>1. /\ inputs' \in 0..MaxInputs /\ audit' = {}
      /\ venue' = [venue EXCEPT !.updated = now, !.sources[s].status = "DISCONNECTED"]
      /\ UNCHANGED <<now, market, feed, anchor, log, map, cohort>>
  BY InputType DEF Disconnect
<1>2. VenueOK'
  <2> DEFINE row == [venue.sources[s] EXCEPT !.status = "DISCONNECTED"]
  <2>1. now \in Nat /\ VenueOK /\ now' = now BY <1>1 DEF IInv
  <2>2. venue.sources[s] \in [price : OptionalNat, at : OptionalNat, status : SourceStatuses]
    BY <2>1 DEF VenueOK
  <2>3. /\ row \in [price : OptionalNat, at : OptionalNat, status : SourceStatuses]
        /\ row.price = venue.sources[s].price /\ row.at = venue.sources[s].at
    BY <2>2 DEF SourceStatuses
  <2>4. venue.sources[s].at # None => venue.sources[s].at <= now
    <3>1. venue.sources[s].at # None => venue.sources[s].at \in Nat BY <2>2 DEF OptionalNat
    <3>2. venue.updated \in Nat /\ venue.updated <= now BY <2>1 DEF VenueOK
    <3>3. venue.sources[s].at # None => venue.sources[s].at <= venue.updated
      BY <2>1 DEF VenueOK
    <3> QED BY <2>1, <3>1, <3>2, <3>3
  <2>5. row.price # None => row.price \in SourcePrices[s] BY <2>1, <2>3 DEF VenueOK
  <2>6. venue' = [venue EXCEPT !.updated = now, !.sources[s] = row] BY <1>1
  <2> HIDE DEF row
  <2> QED BY <2>1, <2>3, <2>4, <2>5, <2>6, VenueWritten
<1> QED
  BY <1>1, <1>2
  DEF IInv, FeedOrdered, AnchorTyped, AnchorIsOpening, MapIsBuilt, AuditIsPolled

LEMMA ReceiveStep ==
  ASSUME IInv, NEW s \in Sources, Receive(s)
  PROVE  IInv'
<1>1. PICK price \in SourcePrices[s], lag \in 0..Least(MaxLag, now) :
        /\ InputMade
        /\ venue' = [venue EXCEPT !.updated = now,
                                  !.sources[s] = [price |-> price, at |-> now,
                                                  status |-> "FRESH"]]
        /\ IF s = Settlement
           THEN /\ \A q \in Range(feed) : q.at < now
                /\ feed' = Append(feed, [stamp |-> now - lag, at |-> now, price |-> price])
           ELSE lag = 0 /\ UNCHANGED feed
        /\ UNCHANGED <<now, market, anchor, log, map, cohort>>
  BY DEF Receive
<1>2. inputs' \in 0..MaxInputs /\ audit' = {} BY <1>1, InputType
<1>3. now \in Nat BY DEF IInv
<1>4. price \in Nat BY InputAssumption
<1>5. VenueOK'
  <2> DEFINE row == [price |-> price, at |-> now, status |-> "FRESH"]
  <2>1. row \in [price : OptionalNat, at : OptionalNat, status : SourceStatuses]
    BY <1>3, <1>4 DEF OptionalNat, SourceStatuses
  <2>2. row.at <= now /\ row.price \in SourcePrices[s] BY <1>3
  <2>3. venue' = [venue EXCEPT !.updated = now, !.sources[s] = row] BY <1>1
  <2> HIDE DEF row
  <2> QED BY <1>1, <1>3, <2>1, <2>2, <2>3, VenueWritten DEF IInv
<1>6. CASE s # Settlement
  <2>1. UNCHANGED feed BY <1>1, <1>6
  <2> QED
    BY <1>1, <1>2, <1>5, <2>1
    DEF IInv, FeedOrdered, AnchorTyped, AnchorIsOpening, MapIsBuilt, AuditIsPolled
<1>7. CASE s = Settlement
  <2> DEFINE last == [stamp |-> now - lag, at |-> now, price |-> price]
             n == Len(feed)
  <2>0. FeedOrdered BY DEF IInv
  <2>1. feed' = Append(feed, last) /\ \A q \in Range(feed) : q.at < now
    BY <1>1, <1>7
  <2>2. last \in FeedPrices /\ last.at = now /\ last.stamp <= now
    <3>1. lag \in Nat /\ lag <= now
      <4>1. MaxLag \in Nat BY TimeAssumption
      <4> QED BY <1>3, <4>1 DEF Least
    <3>2. now - lag \in Nat /\ now - lag <= now BY <1>3, <3>1
    <3> QED BY <1>3, <1>7, <3>2 DEF FeedPrices, Settlement
  <2> HIDE DEF last
  <2>3. feed \in Seq(FeedPrices) /\ n \in Nat /\ DOMAIN feed = 1..n
        /\ \A i \in 1..n : feed[i].at \in Nat
    BY <2>0, FeedTyped DEF FeedOrdered, FeedPrices
  <2>4. /\ feed' \in Seq(FeedPrices) /\ DOMAIN feed' = 1..(n + 1)
        /\ feed'[n + 1] = last /\ \A i \in 1..n : feed'[i] = feed[i]
    BY <2>1, <2>2, <2>3
  <2>5. \A i \in 1..n : feed[i].at < now
    <3>1. \A i \in 1..n : feed[i] \in Range(feed) BY <2>3 DEF Range
    <3> QED BY <2>1, <3>1
  <2>6. FeedOrdered'
    <3>1. \A i \in DOMAIN feed' : feed'[i].stamp <= feed'[i].at /\ feed'[i].at <= now
      <4> TAKE i \in DOMAIN feed'
      <4>1. CASE i \in 1..n
        BY <2>0, <2>3, <2>4, <4>1 DEF FeedOrdered
      <4>2. CASE i = n + 1
        BY <1>3, <2>2, <2>4, <4>2
      <4> QED BY <2>3, <2>4, <4>1, <4>2
    <3>2. ASSUME NEW i \in DOMAIN feed', NEW j \in DOMAIN feed', i <= j
          PROVE  feed'[i].at + (j - i) <= feed'[j].at
      <4>1. CASE j \in 1..n
        <5>1. i \in 1..n BY <2>3, <2>4, <3>2, <4>1
        <5> QED BY <2>0, <2>3, <2>4, <3>2, <4>1, <5>1 DEF FeedOrdered
      <4>2. CASE j = n + 1 /\ i = n + 1
        BY <1>3, <2>2, <2>3, <2>4, <4>2
      <4>3. CASE j = n + 1 /\ i \in 1..n
        <5>1. n \in 1..n /\ i <= n BY <2>3, <4>3
        <5>2. feed[i].at + (n - i) <= feed[n].at
          BY <2>0, <2>3, <4>3, <5>1 DEF FeedOrdered
        <5>3. feed[n].at < now /\ feed[n].at \in Nat /\ feed[i].at \in Nat
          BY <2>3, <2>5, <4>3, <5>1
        <5>4. feed'[i] = feed[i] /\ feed'[j].at = now BY <2>2, <2>4, <4>3
        <5> DEFINE x == feed[i].at  y == feed[n].at
        <5>5. x + (n - i) <= y /\ y < now /\ x \in Nat /\ y \in Nat BY <5>2, <5>3
        <5>6. x + ((n + 1) - i) <= now
          <6> HIDE DEF x, y
          <6> QED BY <1>3, <2>3, <4>3, <5>5
        <5> QED BY <4>3, <5>4, <5>6
      <4> QED BY <2>3, <2>4, <4>1, <4>2, <4>3
    <3> QED BY <1>1, <2>4, <3>1, <3>2 DEF FeedOrdered, FeedPrices
  <2>7. AnchorIsOpening'
    <3> SUFFICES ASSUME anchor # None, anchor.mode # "gamma"
                 PROVE  \E q \in Range(feed') :
                          /\ q.price = anchor.price /\ q.stamp = anchor.stamp
                          /\ q.stamp \in MarketInfo.start..(MarketInfo.start + CaptureDelay)
                          /\ anchor.mode = "live_boundary" =>
                               ~\E o \in Range(feed') : /\ o.at < anchor.at
                                                        /\ o.stamp < q.stamp
                                                        /\ o.stamp >= MarketInfo.start
      BY <1>1 DEF AnchorIsOpening
    <3>1. PICK q \in Range(feed) :
            /\ q.price = anchor.price /\ q.stamp = anchor.stamp
            /\ q.stamp \in MarketInfo.start..(MarketInfo.start + CaptureDelay)
            /\ anchor.mode = "live_boundary" =>
                 ~\E o \in Range(feed) : /\ o.at < anchor.at /\ o.stamp < q.stamp
                                         /\ o.stamp >= MarketInfo.start
      BY DEF IInv, AnchorIsOpening
    <3>2. Range(feed') = Range(feed) \cup {last}
      BY <2>3, <2>4 DEF Range
    <3>3. ~(last.at < anchor.at)
      BY <1>3, <2>2 DEF IInv, AnchorTyped
    <3>4. q \in Range(feed') BY <3>1, <3>2
    <3> QED BY <3>1, <3>2, <3>3, <3>4
  <2> QED
    BY <1>1, <1>2, <1>5, <2>6, <2>7 DEF IInv, AnchorTyped, MapIsBuilt, AuditIsPolled
<1> QED BY <1>6, <1>7

\* The engine retains the last prices it received.
LEMMA RetainedSays ==
  ASSUME FeedOrdered
  PROVE  Range(Retained) = {feed[i] : i \in {j \in 1..Len(feed) : j > Len(feed) - Retain}}
<1> DEFINE n == Len(feed)
           m == Greatest(1, n - Retain + 1)
           kept == {j \in 1..n : j > n - Retain}
<1>1. feed \in Seq(FeedPrices) /\ n \in Nat /\ DOMAIN feed = 1..n
  BY FeedTyped DEF FeedOrdered, FeedPrices
<1>2. m \in Nat /\ m >= 1 /\ \A j \in 1..n : j \in kept <=> j >= m
  BY <1>1, TimeAssumption DEF Greatest
<1>3. Retained = SubSeq(feed, m, n) BY DEF Retained
<1> HIDE DEF m, n, kept
<1>4. \A i \in m..n : feed[i] \in FeedPrices BY <1>1, <1>2
<1>5. /\ Retained \in Seq(FeedPrices)
      /\ Len(Retained) = IF m <= n THEN n - m + 1 ELSE 0
      /\ \A i \in 1..(n - m + 1) : Retained[i] = feed[m + i - 1]
  <2>1. m \in Int /\ n \in Int BY <1>1, <1>2
  <2> QED BY <1>3, <1>4, <2>1, SubSeqProperties
<1>6. DOMAIN Retained = 1..Len(Retained) BY <1>5
<1>7. DOMAIN Retained = 1..(n - m + 1)
  BY <1>1, <1>2, <1>5, <1>6
<1>8. ASSUME NEW i \in DOMAIN Retained PROVE \E j \in kept : Retained[i] = feed[j]
  <2>1. m + i - 1 \in 1..n /\ m + i - 1 >= m BY <1>1, <1>2, <1>7
  <2> QED BY <1>2, <1>5, <1>7, <2>1
<1>9. ASSUME NEW j \in kept PROVE \E i \in DOMAIN Retained : Retained[i] = feed[j]
  <2>1. j \in 1..n /\ j >= m BY <1>2 DEF kept
  <2>2. j - m + 1 \in DOMAIN Retained /\ m + (j - m + 1) - 1 = j BY <1>1, <1>2, <1>7, <2>1
  <2> QED BY <1>5, <1>7, <2>2
<1>10. Range(Retained) = {feed[j] : j \in kept}
  BY <1>8, <1>9 DEF Range
<1> QED BY <1>10 DEF kept, n

\* The opening price is one the engine received, stamped while the market opened,
\* and no other eligible price is stamped earlier.
LEMMA OpeningSays ==
  ASSUME FeedOrdered, Eligible # {}
  PROVE  /\ Opening \in Range(feed) /\ Opening \in FeedPrices
         /\ Opening.stamp \in MarketInfo.start..(MarketInfo.start + CaptureDelay)
         /\ \A q \in Eligible : Opening.stamp <= q.stamp
<1> DEFINE stamps == {q.stamp : q \in Eligible}
<1>1. Len(feed) \in Nat /\ DOMAIN feed = 1..Len(feed)
      /\ \A i \in DOMAIN feed : feed[i] \in FeedPrices
  BY FeedTyped
<1>2. Range(Retained) \subseteq Range(feed) /\ \A q \in Range(feed) : q \in FeedPrices
  BY <1>1, RetainedSays DEF Range
<1>3. \A q \in Eligible :
        /\ q \in Range(feed) /\ q \in FeedPrices
        /\ MarketInfo.start <= q.stamp /\ q.stamp <= MarketInfo.start + CaptureDelay
  BY <1>2 DEF Eligible
<1>4. stamps \in SUBSET Nat /\ stamps # {}
  BY <1>3 DEF FeedPrices
<1>5. PICK first \in stamps : \A t \in stamps : first <= t
  <2> HIDE DEF stamps
  <2> QED BY <1>4, LeastNat
<1>6. PICK q \in Eligible : q.stamp = first BY <1>5
<1>7. \A o \in Eligible : q.stamp <= o.stamp BY <1>5, <1>6
<1>8. Opening \in Eligible /\ \A o \in Eligible : Opening.stamp <= o.stamp
  BY <1>6, <1>7 DEF Opening
<1>9. MarketInfo.start \in Nat /\ CaptureDelay \in Nat
  BY ConfigAssumption, TimeAssumption
<1>10. Opening.stamp \in MarketInfo.start..(MarketInfo.start + CaptureDelay)
  BY <1>3, <1>8, <1>9 DEF FeedPrices
<1> QED BY <1>3, <1>8, <1>10

\* While the market opens nothing stamped after its start is forgotten: the
\* retained prices reach further back than the delay.
LEMMA OpeningIsFirst ==
  ASSUME FeedOrdered, now \in Nat, Eligible # {}, now <= MarketInfo.start + CaptureDelay,
         NEW o \in Range(feed), o.stamp >= MarketInfo.start
  PROVE  ~(o.stamp < Opening.stamp)
<1> DEFINE n == Len(feed)
<1>1. n \in Nat /\ DOMAIN feed = 1..n
      /\ \A i \in 1..n : feed[i].at \in Nat /\ feed[i].stamp \in Nat
  BY FeedTyped
<1>2. PICK i \in 1..n : o = feed[i] BY <1>1 DEF Range
<1>3. MarketInfo.start \in Nat /\ CaptureDelay \in Nat /\ Retain \in Nat /\ CaptureDelay < Retain
  BY ConfigAssumption, TimeAssumption
<1>4. /\ feed[i].stamp <= feed[i].at /\ feed[n].at <= now
      /\ feed[i].at + (n - i) <= feed[n].at
  <2>1. n \in DOMAIN feed /\ i \in DOMAIN feed /\ i <= n BY <1>1
  <2> QED BY <2>1 DEF FeedOrdered
<1> DEFINE x == feed[i].stamp  y == feed[i].at  z == feed[n].at
<1>5. x \in Nat /\ y \in Nat /\ z \in Nat /\ x <= y /\ z <= now /\ y + (n - i) <= z
      /\ x >= MarketInfo.start
  <2>1. n \in 1..n BY <1>1
  <2> QED BY <1>1, <1>2, <1>4, <2>1
<1>6. i > n - Retain /\ x <= MarketInfo.start + CaptureDelay
  <2> HIDE DEF x, y, z, n
  <2> QED BY <1>1, <1>3, <1>5
<1>7. o \in Eligible
  <2>1. o \in Range(Retained) BY <1>2, <1>6, RetainedSays
  <2> QED BY <1>2, <1>6, <2>1 DEF Eligible
<1>8. Opening.stamp <= o.stamp /\ Opening.stamp \in Int
  BY <1>3, <1>7, OpeningSays
<1> QED BY <1>1, <1>2, <1>8

\* A poll captures the price to beat and answers the pending events.
LEMMA PollStep ==
  ASSUME IInv, Poll
  PROVE  IInv'
<1>1. /\ anchor' = CapturedAnchor
      /\ UNCHANGED <<now, market, venue, feed, log, map, cohort, inputs>>
  BY DEF Poll
<1>2. now \in Nat /\ FeedOrdered /\ market \in ScanResults BY DEF IInv
<1>3. AuditIsPolled'
  <2> DEFINE rows(e) == EventRows(e, Context(anchor'))
  <2>1. audit' = IF market.listed
                 THEN {[rows |-> rows(e), hedges |-> TerminalHedge(rows(e), e)] : e \in Events}
                 ELSE {}
    BY DEF Poll
  <2>2. Context(anchor)' = Context(anchor') BY <1>1 DEF Context
  <2>3. \A e \in Events : EventRows(e, Context(anchor))' = rows(e)
    BY <2>2
  <2> HIDE DEF rows
  <2>4. ASSUME NEW a \in audit'
        PROVE  \E e \in Events : a.rows = rows(e) /\ a.hedges = TerminalHedge(a.rows, e)
    BY <2>1
  <2> QED BY <2>3, <2>4 DEF AuditIsPolled
<1>4. CASE anchor' = None
  BY <1>1, <1>2, <1>3, <1>4
  DEF IInv, VenueOK, FeedOrdered, AnchorTyped, AnchorIsOpening, MapIsBuilt
<1>5. CASE anchor' = anchor
  BY <1>1, <1>2, <1>3, <1>5
  DEF IInv, VenueOK, FeedOrdered, AnchorTyped, AnchorIsOpening, MapIsBuilt
<1>6. CASE /\ market.open # None
           /\ anchor' = Anchor(market.open, "gamma", MarketInfo.start, "gamma")
  <2>1. market.open \in Openings BY <1>2, <1>6 DEF Openings
  <2>2. anchor'.mode = "gamma" /\ anchor'.price = market.open /\ anchor'.at = now
    BY <1>6 DEF Anchor
  <2>3. AnchorTyped' /\ AnchorIsOpening'
    BY <1>1, <1>2, <2>1, <2>2 DEF AnchorTyped, AnchorIsOpening, Modes
  <2> QED
    BY <1>1, <1>3, <2>3 DEF IInv, VenueOK, FeedOrdered, MapIsBuilt
<1>7. CASE /\ Eligible # {}
           /\ anchor' = Anchor(Opening.price, Settlement, Opening.stamp,
                               IF now <= MarketInfo.start + CaptureDelay
                               THEN "live_boundary" ELSE "restart_backfill")
  <2>1. /\ Opening \in Range(feed) /\ Opening \in FeedPrices
        /\ Opening.stamp \in MarketInfo.start..(MarketInfo.start + CaptureDelay)
    BY <1>2, <1>7, OpeningSays
  <2>2. /\ anchor'.price = Opening.price /\ anchor'.stamp = Opening.stamp /\ anchor'.at = now
        /\ anchor'.mode = IF now <= MarketInfo.start + CaptureDelay
                          THEN "live_boundary" ELSE "restart_backfill"
    BY <1>7 DEF Anchor
  <2>3. Opening.price \in Openings BY <2>1 DEF FeedPrices, Openings
  <2>4. AnchorTyped'
    BY <1>1, <1>2, <2>2, <2>3 DEF AnchorTyped, Modes
  <2>5. anchor'.mode = "live_boundary" =>
          ~\E o \in Range(feed) : /\ o.at < anchor'.at /\ o.stamp < Opening.stamp
                                  /\ o.stamp >= MarketInfo.start
    BY <1>2, <1>7, <2>2, OpeningIsFirst
  <2>6. AnchorIsOpening'
    BY <1>1, <2>1, <2>2, <2>5 DEF AnchorIsOpening
  <2> QED
    BY <1>1, <1>3, <2>4, <2>6 DEF IInv, VenueOK, FeedOrdered, MapIsBuilt
<1> QED BY <1>1, <1>4, <1>5, <1>6, <1>7 DEF CapturedAnchor

\* What happens in a step keeps the invariant.
LEMMA NextStep ==
  ASSUME IInv, [Next]_vars
  PROVE  IInv'
<1>1. CASE Tick BY <1>1, TickStep
<1>2. CASE Scan BY <1>2, ScanStep
<1>3. CASE Score BY <1>3, ScoreStep
<1>4. CASE Publish BY <1>4, PublishStep
<1>5. CASE Redeploy BY <1>5, RedeployStep
<1>6. CASE Poll BY <1>6, PollStep
<1>7. ASSUME NEW s \in Sources, Receive(s) PROVE IInv'
  BY <1>7, ReceiveStep
<1>8. ASSUME NEW s \in Sources, Disconnect(s) PROVE IInv'
  BY <1>8, DisconnectStep
<1>9. CASE UNCHANGED vars
  <2>1. UNCHANGED <<now, market, venue, feed, anchor, log, map, cohort, audit, inputs>>
    BY <1>9 DEF vars, files
  <2>2. \A e \in Events : EventRows(e, Context(anchor))' = EventRows(e, Context(anchor))
    BY <2>1 DEF Context
  <2>3. AuditIsPolled' BY <2>1, <2>2 DEF IInv, AuditIsPolled
  <2> QED
    BY <2>1, <2>3 DEF IInv, VenueOK, FeedOrdered, AnchorTyped, AnchorIsOpening, MapIsBuilt
<1> QED BY <1>1, <1>2, <1>3, <1>4, <1>5, <1>6, <1>7, <1>8, <1>9 DEF Next
-----------------------------------------------------------------------------
(* The theorems.                                                           *)

\* In every reachable state the invariant holds.
THEOREM Inductive == Spec => []IInv
<1>1. Init => IInv BY Initial
<1>2. IInv /\ [Next]_vars => IInv' BY NextStep
<1> QED BY <1>1, <1>2, PTL DEF Spec

\* Probabilities stay inside (0, 1) whatever the models answer, a calibrated row
\* names its scope, and a row is rejected exactly when it names a reason against it.
THEOREM TypeCorrect == Spec => []TypeOK
<1>1. IInv => TypeOK BY TypesKept
<1> QED BY <1>1, Inductive, PTL

\* With a map required, no row is acted on that the log does not vouch for: the
\* published map never counts more than the log holds, and of no other
\* configuration (calibrate_probability, build_calibration_map).
THEOREM VouchedSafe ==
  ASSUME Config.requireMap
  PROVE  Spec => []AcceptIsVouched
<1>1. IInv => AcceptIsVouched BY VouchedKept
<1> QED BY <1>1, Inductive, PTL

\* The sources a row lists as valid were heard within their limits by the clock
\* of the reader, and those of a row that is acted on bear its decision out
\* (reference_state_for_asset, aggregate_reference, decision_audit).
THEOREM EvidenceSafe == Spec => []RowNamesItsEvidence
<1>1. IInv => RowNamesItsEvidence BY EvidenceKept
<1> QED BY <1>1, Inductive, PTL

\* A captured anchor is a price the settlement source made while the market
\* opened, at the boundary the first of them: the engine retains more prices
\* than an opening may be late (capture_opening_prices).
THEOREM OpeningSafe == Spec => []AnchorIsOpening
<1>1. IInv => AnchorIsOpening BY DEF IInv
<1> QED BY <1>1, Inductive, PTL

\* Both outcomes of an event are worth buying only when together they cost less
\* than the dollar one of them pays (evaluate_market_event).
THEOREM ArbitrageSafe == Spec => []BothSidesIsArbitrage
<1>1. IInv => BothSidesIsArbitrage BY ArbitrageKept
<1> QED BY <1>1, Inductive, PTL

\* An accepted hedge bounds the loss of a reversal and keeps a profit otherwise,
\* whatever the prices (_terminal_hedge_audit).
THEOREM HedgeLossSafe == Spec => []HedgeBoundsLoss
<1>1. IInv => HedgeBoundsLoss BY HedgeLossKept
<1> QED BY <1>1, Inductive, PTL

\* A captured anchor does not move while its market is listed, and only the
\* metadata's own price replaces it (capture_opening_prices).
THEOREM AnchorSafe == Spec => AnchorStands
<1> DEFINE Stands == anchor # None /\ anchor' # None /\ anchor'.mode # "gamma"
                       => anchor' = anchor
<1>1. ASSUME [Next]_vars PROVE Stands
  <2>1. CASE Poll
    <3>1. anchor' = CapturedAnchor BY <2>1 DEF Poll
    <3>2. CASE market.listed /\ market.open # None
      <4>1. anchor' = Anchor(market.open, "gamma", MarketInfo.start, "gamma")
        BY <3>1, <3>2 DEF CapturedAnchor
      <4> QED BY <4>1 DEF Anchor
    <3>3. CASE ~(market.listed /\ market.open # None)
      BY <3>1, <3>3 DEF CapturedAnchor
    <3> QED BY <3>2, <3>3
  <2>2. CASE ~Poll
    <3>1. anchor' = anchor
      BY <1>1, <2>2 DEF Next, Tick, Scan, Score, Publish, Redeploy, Receive, Disconnect,
                       vars, files
    <3> QED BY <3>1
  <2> QED BY <2>1, <2>2
<1>2. [Next]_vars => Stands BY <1>1
<1> QED BY <1>2, PTL DEF Spec, AnchorStands
===============================================================================
