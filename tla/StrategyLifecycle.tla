-------------------------- MODULE StrategyLifecycle --------------------------
(***************************************************************************)
(* StrategyShadowLifecycle and the loop that feeds it                      *)
(* (strategy_shadow_lifecycle.py, shadow_execution.run).  The follower     *)
(* tails the strategy audit, opens simulated positions under the portfolio *)
(* limits, closes them by profit exit or settlement, scores predictions,   *)
(* and keeps three things: its memory (mem), the checkpoint file (disk)    *)
(* and the execution log, which is written through.  A crash loses mem;    *)
(* the restart loads disk and backfills trades from the log.               *)
(*                                                                         *)
(* Prices, sizes and costs are small integers; the fields a row carries    *)
(* for reports are left out.  Lists trimmed to their last 20000 entries    *)
(* are untrimmed: no bound of a run comes near.                            *)
(***************************************************************************)
EXTENDS AuditFile, Integers, FiniteSets, SequencesExt

CONSTANTS
  Rows,              \* the audit rows an engine may write, each once, ts set when it is
  Markets, Close,    \* Close[m]: the close time of market m
  Listings,          \* the sets of markets the scanner may have published
  Limits,            \* per probability strategy: the limits of PortfolioLimits
  CombinedPerClose,  \* COMBINED_MAX_PER_CLOSE_WINDOW
  CalibrationMode,   \* SHADOW_CALIBRATION_MODE: count blocks instead of enforcing
  ExitMode, ExitMinPnl, ExitMargin,   \* SHADOW_PROFIT_EXIT_*
  OrphanAfter,       \* SHADOW_SETTLEMENT_ORPHAN_AFTER_SECONDS
  DayLength,         \* 86400
  MaxTime, MaxLines, MaxCrashes, MaxRotations, MaxTorn   \* bounds of the runs

Probability == {"directional", "lottery"}
Keys == (Probability \cup {"paired"}) \X Markets \X {"Up", "Down", "Both"}

\* An event's id is no market's name and no word of Trade's "by"; what predicts
\* is a probability strategy.
Ids == {row.id : row \in Rows}
AuditRow ==
  [id : Ids, market : Markets, strategy : Probability \cup {"paired"},
   outcome : {"Up", "Down", "Both"}, accept : BOOLEAN, predicts : BOOLEAN, ts : Nat,
   type : {"eval", "hedged", "paired", "split", "inventory_eval", "inventory_action", "maker"},
   size : Nat, cost : Nat, hedge : Nat, hold : Int, proceeds : Nat, locked : Nat,
   up : Nat, down : Nat]
ASSUME RowsAssumption ==
  /\ Rows \subseteq AuditRow /\ Ids \cap (Markets \cup {"complete", "settled", "reject"}) = {}
  /\ \A row \in Rows : row.predicts => row.strategy \in Probability
ASSUME WorldAssumption ==
  /\ IsFiniteSet(Markets) /\ Close \in [Markets -> Nat]
  /\ \A strategy \in Probability : Limits[strategy].daily \in Int
  /\ Listings \subseteq SUBSET Markets
  /\ MaxTime \in Nat /\ MaxCrashes \in Nat
  /\ NoFile \notin Nat

VARIABLES
  now, emitted, audit, rotations, torns,   \* environment: clock, engine, logrotate
  pc,                \* "down", "poll", "read" or "settle": where run() is
  listed,            \* markets of data/live_markets.json, read once per round
  mem, dirty,        \* self.data and self._dirty
  disk,              \* state/strategy-shadow.json
  log,               \* logs/shadow-execution.jsonl
  cursor, counted,   \* file position; opened or captured something in this round
  crashes

environment == <<now, emitted, audit, rotations, torns>>
vars == <<now, emitted, audit, rotations, torns, pc, listed, mem, dirty, disk,
          log, cursor, counted, crashes>>

NoMap == <<>>
Without(f, keys) == Restrict(f, DOMAIN f \ keys)
With(f, key, value) == [k \in DOMAIN f \cup {key} |-> IF k = key THEN value ELSE f[k]]

Fresh == [positions |-> NoMap, completed |-> <<>>, rejections |-> NoMap,
          predictions |-> {}, scored |-> <<>>, orphaned |-> {},
          processed |-> {}, inventory |-> NoMap, offset |-> 0, inode |-> NoFile]

Trade(of, by, strategy, pnl, ts) ==
  [of |-> of, by |-> by, strategy |-> strategy, pnl |-> pnl, ts |-> ts]

\* The log records of the lifecycle; only "complete" is read back.
Logged(kind, trade) == [kind |-> kind, trade |-> trade]
LoggedTrades(l) == {l[i].trade : i \in {j \in DOMAIN l : l[j].kind = "complete"}}

-----------------------------------------------------------------------------
(* Loss limits and portfolio limits *)

DayLoss(trades, strategy, day) ==
  LET lost == {i \in DOMAIN trades : /\ trades[i].strategy = strategy /\ trades[i].pnl < 0
                                     /\ trades[i].ts \div DayLength = day}
  IN  SumFunctionOnSet([i \in DOMAIN trades |-> -trades[i].pnl], lost)

TradesOf(trades, strategy) == SelectSeq(trades, LAMBDA t : t.strategy = strategy)

Streak(trades, strategy) ==
  LET own == TradesOf(trades, strategy)
  IN  Len(own) - SelectLastInSeq(own, LAMBDA t : t.pnl >= 0)

\* Mutant: only the streak is looked at.
LossBlockedByStreak(s, strategy) == Streak(s.completed, strategy) >= Limits[strategy].streak
LossBlocked(s, strategy) ==
  \/ DayLoss(s.completed, strategy, now \div DayLength) >= Limits[strategy].daily
  \/ Streak(s.completed, strategy) >= Limits[strategy].streak

\* Mutant: the parts of the key in another order.
KeySwapped(row) == <<row.outcome, row.market, row.strategy>>
Key(row) == <<row.strategy, row.market, row.outcome>>

PortfolioBlocks(s, row) ==
  LET limit  == Limits[row.strategy]
      open   == DOMAIN s.positions
      own    == {k \in open : k[1] = row.strategy}
      window == {k \in open : Close[k[2]] = Close[row.market]}
  IN  /\ row.strategy \in Probability
      /\ \/ \E k \in open : k[2] = row.market /\ k[3] = row.outcome
         \/ Cardinality({k \in window : k[1] # "paired"}) >= CombinedPerClose
         \/ row.size > limit.size
         \/ Cardinality(own) >= limit.open
         \/ Cardinality(own \cap window) >= limit.close
         \/ MapThenSumSet(LAMBDA k : s.positions[k].cost, own) + row.cost > limit.notional
         \/ LossBlocked(s, row.strategy)

-----------------------------------------------------------------------------
(* The row handlers.  Each gives the memory it leaves, the records it logs, *)
(* how it saves ("none", "timer": if five seconds have passed, "forced")   *)
(* and whether the round counts it as an opening.                          *)

Result(s, records, save, counts) ==
  [s |-> s, log |-> records, save |-> save, counts |-> counts]
Ignored(s) == Result(s, <<>>, "none", FALSE)

\* Mutant: what was scored is captured again.
CaptureAgain(s, row) ==
  IF row.type = "eval" /\ row.predicts /\ row.outcome = "Up" /\ row.market \in listed
  THEN [s EXCEPT !.predictions = @ \cup {<<row.strategy, row.market>>}] ELSE s

CapturePrediction(s, row) ==
  LET id == <<row.strategy, row.market>>
  IN  IF /\ row.type = "eval" /\ row.predicts /\ row.outcome = "Up"
         /\ row.market \in listed
         /\ id \notin s.predictions /\ ~Contains(s.scored, id)
      THEN [s EXCEPT !.predictions = @ \cup {id}]
      ELSE s

ExitsAt(s, row) ==
  /\ row.type = "eval" /\ row.proceeds > 0
  /\ Key(row) \in DOMAIN s.positions
  /\ LET p == s.positions[Key(row)]
     IN  /\ ~p.hedged
         /\ row.ts > p.ts
         /\ row.proceeds - p.cost >= ExitMinPnl
         /\ ExitMode = "ev" => row.proceeds >= p.hold + ExitMargin

\* Mutant: the position stays open.
ProfitExitOpen(s, row) ==
  LET t == Trade(s.positions[Key(row)].event, row.id, row.strategy, row.proceeds, row.ts)
  IN  Result([s EXCEPT !.completed = Append(@, t)], <<Logged("complete", t)>>, "forced", TRUE)

ProfitExit(s, row) ==
  LET p == s.positions[Key(row)]
      t == Trade(p.event, row.id, row.strategy, row.proceeds - p.cost, row.ts)
  IN  Result([s EXCEPT !.positions = Without(@, {Key(row)}),
                       !.completed = Append(@, t)],
             <<Logged("complete", t)>>, "forced", TRUE)

\* A split sale, and an inventory action that locks a quantity, complete at once.
ConsumeSplitSell(s, row) ==
  LET t == Trade(row.id, "complete", "split", row.locked, row.ts)
  IN  IF row.id \in s.processed THEN Ignored(s)
      ELSE Result([s EXCEPT !.processed = @ \cup {row.id}, !.completed = Append(@, t)],
                  <<Logged("complete", t)>>, "forced", TRUE)

\* Mutant: a row that was processed is applied again.
ConsumeInventoryAgain(s, row) ==
  Result([s EXCEPT !.processed = @ \cup {row.id},
                   !.inventory = With(@, row.market, [up |-> row.up, down |-> row.down,
                                                      cost |-> row.cost, pending |-> FALSE])],
         <<>>, "timer", FALSE)

ConsumeInventory(s, row) ==
  LET t      == Trade(row.id, "complete", "inventory", row.locked, row.ts)
      locks  == row.accept /\ row.locked > 0
      filled == [up |-> row.up, down |-> row.down, cost |-> row.cost, pending |-> FALSE]
      after  == [s EXCEPT
                   !.processed = @ \cup {row.id},
                   !.completed = IF locks THEN Append(@, t) ELSE @,
                   !.inventory = IF row.up = 0 /\ row.down = 0
                                 THEN Without(@, {row.market})
                                 ELSE With(@, row.market, filled)]
  IN  IF row.id \in s.processed THEN Ignored(s)
      ELSE Result(after, IF locks THEN <<Logged("complete", t)>> ELSE <<>>,
                  IF row.locked > 0 THEN "forced" ELSE "timer",
                  row.type = "inventory_action")

ConsumeMakerQuote(s, row) ==
  IF row.id \in s.processed THEN Ignored(s)
  ELSE Result([s EXCEPT !.processed = @ \cup {row.id}], <<>>, "timer", FALSE)

\* Rejected once per key until it is accepted: the log says it once.
Reject(s, row) ==
  Result([s EXCEPT !.rejections = With(@, Key(row), "limit")],
         IF Key(row) \in DOMAIN s.rejections THEN <<>>
         ELSE <<Logged("reject", Trade(row.id, "reject", row.strategy, 0, row.ts))>>,
         "timer", FALSE)

OpenPosition(s, row) ==
  LET p == [event |-> row.id, ts |-> row.ts, cost |-> row.cost, size |-> row.size,
            hedge |-> row.hedge, hedged |-> row.type = "hedged", hold |-> row.hold,
            pending |-> FALSE]
  IN  Result([s EXCEPT !.positions = With(@, Key(row), p),
                       !.rejections = Without(@, {Key(row)})],
             <<>>, "timer", TRUE)

ConsumeEntry(s, row) ==
  IF ~row.accept \/ row.market \notin listed \/ Key(row) \in DOMAIN s.positions
  THEN Ignored(s)
  ELSE IF PortfolioBlocks(s, row) /\ ~CalibrationMode THEN Reject(s, row)
  ELSE OpenPosition(s, row)

Consume(s, row) ==
  CASE ExitsAt(s, row)           -> ProfitExit(s, row)
    [] row.type = "split"        -> ConsumeSplitSell(s, row)
    [] row.type \in {"inventory_eval", "inventory_action"} -> ConsumeInventory(s, row)
    [] row.type = "maker"        -> ConsumeMakerQuote(s, row)
    [] OTHER                     -> ConsumeEntry(s, row)

-----------------------------------------------------------------------------
(* settle(): the sample of a market is what venue-status.json holds: none, *)
(* or the side that won.                                                    *)

Due(m) == now >= Close[m]
\* Mutant: the orphan delay starts over with the clock of the run.
TooOldNever(m) == now - Close[m] >= OrphanAfter + MaxTime
TooOld(m) == now - Close[m] >= OrphanAfter

Payout(k, p, sample) ==
  CASE k[1] = "paired"       -> p.size
    [] k[3] = sample[k[2]]   -> p.size
    [] OTHER                 -> IF p.hedged THEN p.hedge ELSE 0

SettledTrade(s, k, sample) ==
  LET p == s.positions[k]
  IN  Trade(p.event, "complete", k[1], Payout(k, p, sample) - p.cost, now)

InventoryTrade(s, m, sample) ==
  LET i == s.inventory[m]
  IN  Trade(m, "settled", "inventory",
            (IF sample[m] = "Up" THEN i.up ELSE i.down) - i.cost, now)

\* The samples settle() may find; "none" also stands for a missing anchor.
Samples == [Markets -> {"none", "Up", "Down"}]

\* The three parts of settle(): what each keeps, ends and logs, and whether it
\* forces a save.
SettlePositions(s, sample, order) ==
  LET due    == {k \in DOMAIN s.positions : Due(k[2])}
      ready  == ToSet(order)
      gone   == {k \in due \ ready : TooOld(k[2])}
      trades == [i \in DOMAIN order |-> SettledTrade(s, order[i], sample)]
  IN  [kept |-> [k \in DOMAIN s.positions \ (ready \cup gone) |->
                   [s.positions[k] EXCEPT !.pending = @ \/ k \in due]],
       trades |-> trades,
       orphaned |-> {s.positions[k].event : k \in gone},
       log |-> [i \in DOMAIN trades |-> Logged("complete", trades[i])]
                 \o SetToSeq({Logged("orphaned", SettledTrade(s, k, sample)) : k \in gone}),
       durable |-> ready \cup gone # {}]

\* An inventory that is orphaned leaves no record.
SettleInventory(s, sample) ==
  LET due    == {m \in DOMAIN s.inventory : Due(m)}
      sold   == {m \in due : sample[m] # "none"}
      lost   == {m \in due \ sold : TooOld(m)}
      trades == SetToSeq({InventoryTrade(s, m, sample) : m \in sold})
  IN  [kept |-> [m \in DOMAIN s.inventory \ (sold \cup lost) |->
                   [s.inventory[m] EXCEPT !.pending = @ \/ m \in due]],
       trades |-> trades,
       orphaned |-> lost,
       log |-> [i \in DOMAIN trades |-> Logged("complete", trades[i])],
       durable |-> sold \cup lost # {} \/ \E m \in due : ~s.inventory[m].pending]

SettlePredictions(s, sample) ==
  LET due     == {id \in s.predictions : Due(id[2])}
      scored  == {id \in due : sample[id[2]] # "none"}
      dropped == {id \in due \ scored : TooOld(id[2])}
  IN  [kept |-> s.predictions \ (scored \cup dropped),
       scored |-> SetToSeq(scored),
       durable |-> scored \cup dropped # {}]

\* What one call of settle() does, for a sample and an order of the positions
\* it has one for.
Settlement(s, sample, order) ==
  LET positions   == SettlePositions(s, sample, order)
      inventory   == SettleInventory(s, sample)
      predictions == SettlePredictions(s, sample)
  IN  [s |-> [s EXCEPT
         !.positions = positions.kept, !.inventory = inventory.kept,
         !.predictions = predictions.kept, !.scored = @ \o predictions.scored,
         !.completed = @ \o positions.trades \o inventory.trades,
         !.orphaned = @ \cup positions.orphaned \cup inventory.orphaned],
       log |-> positions.log \o inventory.log,
       durable |-> positions.durable \/ inventory.durable \/ predictions.durable]

-----------------------------------------------------------------------------
(* Persistence *)

\* Mutant: a save that the timer skips clears the mark.
CheckpointLosesMark(s, d, kind) ==
  /\ mem' = s /\ dirty' = FALSE
  /\ \/ kind # "none" /\ disk' = s
     \/ kind # "forced" /\ UNCHANGED disk

\* _save(): d says whether there is something to save.
Checkpoint(s, d, kind) ==
  /\ mem' = s
  /\ \/ d /\ kind # "none" /\ disk' = s /\ dirty' = FALSE
     \/ ~(d /\ kind = "forced") /\ UNCHANGED disk /\ dirty' = d

SameTrade(t, u) == t.of = u.of /\ t.by = u.by

\* Mutant: the log is not read on a restart.
BackfillNothing(s) == s

\* On a restart, trades the log has and the checkpoint has not are added.
Backfill(s) ==
  LET next(known, r) ==
        IF r.kind # "complete" \/ \E i \in DOMAIN known : SameTrade(known[i], r.trade)
        THEN known ELSE Append(known, r.trade)
      after[n \in 0..Len(log)] == IF n = 0 THEN s.completed ELSE next(after[n - 1], log[n])
  IN  [s EXCEPT !.completed = after[Len(log)]]

-----------------------------------------------------------------------------
(* The environment: the clock, the engine that writes rows, logrotate *)

Tick == /\ now < MaxTime
        /\ now' = now + 1
        /\ UNCHANGED <<emitted, audit, rotations, torns>>

\* A row is written whole, or its first half is flushed before the rest.
Emit == /\ ~audit.torn /\ Cardinality(emitted) < MaxLines
        /\ \E row \in Rows :
             /\ row.id \notin emitted
             /\ emitted' = emitted \cup {row.id}
             /\ \/ audit' = AppendLine(audit, [row EXCEPT !.ts = now]) /\ UNCHANGED torns
                \/ /\ torns < MaxTorn
                   /\ audit' = AppendHalf(audit, [row EXCEPT !.ts = now])
                   /\ torns' = torns + 1
        /\ UNCHANGED <<now, rotations>>

Flush == /\ audit.torn
         /\ audit' = FinishLine(audit)
         /\ UNCHANGED <<now, emitted, rotations, torns>>

\* A rotation takes effect between two polls: a reader keeps its open file.
Rotate == /\ rotations < MaxRotations /\ ~audit.torn /\ pc # "read"
          /\ rotations' = rotations + 1
          /\ audit' \in {Truncated(audit), Replaced(audit)}
          /\ UNCHANGED <<now, emitted, torns>>

Environment == /\ Tick \/ Emit \/ Flush \/ Rotate
               /\ UNCHANGED <<pc, listed, mem, dirty, disk, log, cursor, counted, crashes>>

-----------------------------------------------------------------------------
(* The process *)

Down == pc' = "down" /\ mem' = Fresh /\ dirty' = FALSE /\ cursor' = 0 /\ counted' = FALSE
        /\ listed' = {} /\ crashes' = crashes + 1
Running == pc # "down"

\* __init__: load, backfill, save.
Restart ==
  /\ pc = "down"
  /\ pc' = "poll" /\ mem' = Backfill(disk) /\ disk' = mem' /\ dirty' = FALSE
  /\ UNCHANGED <<environment, listed, log, cursor, counted, crashes>>

\* SIGTERM, a power loss: nothing is flushed.
Crash ==
  /\ Running /\ crashes < MaxCrashes
  /\ Down
  /\ UNCHANGED <<environment, disk, log>>

\* An exception unwinds run(): its finally saves the memory as it stands.
Abort ==
  /\ Running /\ crashes < MaxCrashes
  /\ disk' = mem
  /\ Down
  /\ UNCHANGED <<environment, log>>

OpenAudit ==
  /\ pc = "poll"
  /\ pc' = "read"
  /\ listed' \in Listings
  /\ cursor' = StartAt(audit, mem.offset, mem.inode)
  /\ mem' = [mem EXCEPT !.offset = IF cursor' = 0 THEN 0 ELSE @, !.inode = audit.inode]
  /\ dirty' = (dirty \/ mem' # mem)
  /\ counted' = FALSE
  /\ UNCHANGED <<environment, disk, log, crashes>>

\* Capture, then consume; the process may die once the records are logged.
ReadRow ==
  /\ pc = "read" /\ ~AtEnd(audit, cursor) /\ Whole(audit, cursor)
  /\ LET row  == LineAt(audit, cursor)
         held == CapturePrediction(mem, row)
         done == Consume(held, row)
     IN  /\ log' = log \o done.log
         /\ \/ /\ Checkpoint(done.s, dirty \/ held # mem \/ done.save # "none", done.save)
               /\ counted' = (counted \/ held # mem \/ done.counts)
               /\ cursor' = AfterLine(audit, cursor)
               /\ UNCHANGED <<pc, listed, crashes>>
            \/ /\ done.log # <<>> /\ crashes < MaxCrashes
               /\ Down /\ UNCHANGED disk
  /\ UNCHANGED environment

SkipLine ==
  /\ pc = "read" /\ ~AtEnd(audit, cursor) /\ ~Whole(audit, cursor)
  /\ cursor' = AfterLine(audit, cursor)
  /\ UNCHANGED <<environment, pc, listed, mem, dirty, disk, log, counted, crashes>>

\* The offset moves only here, whatever was saved on the way.
EndAudit ==
  /\ pc = "read" /\ AtEnd(audit, cursor)
  /\ pc' = "settle"
  /\ Checkpoint([mem EXCEPT !.offset = cursor], dirty \/ mem.offset # cursor,
                IF counted THEN "forced" ELSE "timer")
  /\ UNCHANGED <<environment, listed, log, cursor, counted, crashes>>

Settle ==
  /\ pc = "settle"
  /\ \E sample \in Samples :
     \E order \in SetToSeqs({k \in DOMAIN mem.positions : Due(k[2]) /\ sample[k[2]] # "none"}) :
       LET after == Settlement(mem, sample, order)
       IN  \/ /\ log' = log \o after.log
              /\ pc' = "poll"
              /\ Checkpoint(after.s, dirty \/ after.s # mem,
                            IF after.durable THEN "forced"
                            ELSE IF after.s # mem THEN "timer" ELSE "none")
              /\ UNCHANGED <<listed, cursor, counted, crashes>>
           \/ /\ crashes < MaxCrashes
              /\ \E n \in DOMAIN after.log : log' = log \o SubSeq(after.log, 1, n)
              /\ Down /\ UNCHANGED disk
  /\ UNCHANGED environment

Init ==
  /\ now = 0 /\ emitted = {} /\ audit = EmptyFile(1) /\ rotations = 0 /\ torns = 0
  /\ pc = "down" /\ listed = {} /\ mem = Fresh /\ dirty = FALSE /\ disk = Fresh
  /\ log = <<>> /\ cursor = 0 /\ counted = FALSE /\ crashes = 0

Round == OpenAudit \/ ReadRow \/ SkipLine \/ EndAudit \/ Settle

Next == Environment \/ Restart \/ Crash \/ Abort \/ Round

Spec == Init /\ [][Next]_vars

\* The loop runs, the process is started again, and the clock goes on.
FairSpec == /\ Spec
            /\ WF_vars(Restart) /\ WF_vars(Round)
            /\ WF_vars(Tick /\ UNCHANGED <<pc, listed, mem, dirty, disk, log, cursor, counted, crashes>>)

-----------------------------------------------------------------------------
(* Properties *)

MemoryOK(s) ==
  /\ DOMAIN s.positions \subseteq Keys /\ DOMAIN s.rejections \subseteq Keys
  /\ DOMAIN s.inventory \subseteq Markets
  /\ s.predictions \subseteq Probability \X Markets
  /\ s.processed \subseteq emitted
  /\ s.orphaned \subseteq emitted \cup Markets
  /\ s.offset \in Nat /\ s.inode \in Nat \cup {NoFile}

\* The types of the process's memory and of its checkpoint.
TypeOK ==
  /\ pc \in {"down", "poll", "read", "settle"}
  /\ dirty \in BOOLEAN /\ counted \in BOOLEAN
  /\ listed \subseteq Markets /\ cursor \in Nat /\ crashes \in 0..MaxCrashes
  /\ MemoryOK(mem) /\ MemoryOK(disk)

\* Whatever crashed between the log and the checkpoint: a running process
\* counts every trade its log has (_backfill_completed_trades).
LoggedTradesCounted ==
  Running => \A t \in LoggedTrades(log) :
               \E i \in DOMAIN mem.completed : SameTrade(mem.completed[i], t)

\* The memory differs from the checkpoint only while _dirty says so: no handler
\* forgets to mark what it changed, so that a later save is skipped.  A
\* completed or orphaned position is in the checkpoint once its handler is
\* over, "immediately for completed lifecycle transitions".
CheckpointKeepsUp ==
  Running => /\ ~dirty => mem = disk
             /\ mem.completed = disk.completed /\ mem.orphaned = disk.orphaned

\* No position of a limited strategy opens on a day whose logged losses have
\* reached the daily limit, even when the trades were logged by a process
\* that died before it saved them.
OpensRespectLosses ==
  [][\A k \in DOMAIN mem'.positions \ DOMAIN mem.positions :
       pc = "read" /\ k[1] \in Probability /\ ~CalibrationMode
         => DayLoss(Backfill(Fresh).completed, k[1], now \div DayLength) < Limits[k[1]].daily]_vars

\* A prediction is scored at most once and never asked again after that,
\* however often its rows are read.
ScoredOnce ==
  /\ \A i, j \in DOMAIN mem.scored : mem.scored[i] = mem.scored[j] => i = j
  /\ mem.predictions \cap ToSet(mem.scored) = {}

\* The inventory of a market is what the last row read about it said: reading
\* older rows again, from an offset that was not saved, does not bring it back.
InventoryIsLatest == torns = 0 =>
  \A m \in DOMAIN mem.inventory :
    LET read == {i \in DOMAIN audit.lines :
                   /\ audit.lines[i].type \in {"inventory_eval", "inventory_action"}
                   /\ audit.lines[i].market = m /\ audit.lines[i].id \in mem.processed}
        last == audit.lines[CHOOSE i \in read : \A j \in read : j <= i]
    IN  read # {} => /\ mem.inventory[m].up = last.up
                     /\ mem.inventory[m].down = last.down

\* An entry, a split sale or an inventory action ends once.
EndsOnce ==
  \A i, j \in DOMAIN mem.completed :
    mem.completed[i].of = mem.completed[j].of /\ mem.completed[i].by # "settled" => i = j

\* While the process does not die, torn lines, truncations and replaced
\* files make nothing end twice, and no entry both complete and orphaned.
CrashFreeEndsOnce ==
  crashes = 0 => EndsOnce /\ \A i \in DOMAIN mem.completed :
                               mem.completed[i].by # "settled" =>
                                 mem.completed[i].of \notin mem.orphaned

\* A position is eventually closed: settled, exited or, when no settlement
\* sample arrives, orphaned, across crashes and restarts.
PositionsEnd ==
  \A k \in {Key(row) : row \in Rows} : k \in DOMAIN mem.positions ~> Running /\ k \notin DOMAIN mem.positions
==============================================================================
