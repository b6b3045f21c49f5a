------------------------ MODULE StrategyLifecycleProofs ------------------------
(***************************************************************************)
(* Proofs about the strategy shadow lifecycle, for every audit file, every *)
(* interleaving of the engine, the rotation and the clock with the reading *)
(* process, and crashes at every step.                                     *)
(*                                                                         *)
(* The checkpoint is always an earlier memory, so what is invariant of the *)
(* memory alone is stated once and kept of both (MemoryTyped, Ordered).    *)
(***************************************************************************)
EXTENDS StrategyLifecycle, FiniteSetTheorems, InductionLemmas

\* The memory's fields, and a memory that differs from another only in some.
Fields == {"positions", "completed", "rejections", "predictions", "scored", "orphaned",
           "processed", "inventory", "offset", "inode"}
Shape(s) == s = [f \in Fields |-> s[f]]
Same(s, u, F) == Shape(u) /\ \A f \in Fields \ F : u[f] = s[f]

\* A row of the audit file, a trade, a record of the log, a position.
Line == {row \in AuditRow : row.predicts => row.strategy \in Probability}
Trades == [of : Ids \cup Markets, by : Ids \cup {"complete", "settled"},
           strategy : Probability \cup {"paired", "split", "inventory"}, pnl : Int, ts : Nat]
Records ==
  {r \in [kind : {"complete", "reject", "orphaned"},
          trade : [of : Ids \cup Markets, by : Ids \cup {"complete", "settled", "reject"},
                   strategy : Probability \cup {"paired", "split", "inventory"},
                   pnl : Int, ts : Nat]] :
     r.kind = "complete" => r.trade \in Trades}
Position == [event : Ids, ts : Nat, cost : Nat, size : Nat, hedge : Nat, hedged : BOOLEAN,
             hold : Int, pending : BOOLEAN]
Stock == [up : Nat, down : Nat, cost : Nat, pending : BOOLEAN]

\* The audit file holds rows that were emitted, each once.
FileOK ==
  /\ audit \in [inode : Nat, lines : Seq(Line), torn : BOOLEAN]
  /\ audit.torn => Len(audit.lines) > 0
  /\ \A i \in DOMAIN audit.lines : audit.lines[i].id \in emitted
  /\ \A i, j \in DOMAIN audit.lines : audit.lines[i].id = audit.lines[j].id => i = j

MemoryTyped(s) ==
  /\ Shape(s)
  /\ DOMAIN s.positions \subseteq Keys
  /\ \A k \in DOMAIN s.positions : s.positions[k] \in Position
                                   /\ s.positions[k].event \in emitted
  /\ s.completed \in Seq(Trades)
  /\ DOMAIN s.rejections \subseteq Keys
  /\ s.predictions \subseteq Probability \X Markets
  /\ s.scored \in Seq(Probability \X Markets)
  /\ s.orphaned \subseteq emitted \cup Markets
  /\ s.processed \subseteq emitted
  /\ DOMAIN s.inventory \subseteq Markets
  /\ \A m \in DOMAIN s.inventory : s.inventory[m] \in Stock
  /\ s.offset \in Nat /\ s.inode \in Nat \cup {NoFile}

\* A scored prediction is in the list once and no longer waited for.
ScoredApart(s) ==
  /\ \A i, j \in DOMAIN s.scored : s.scored[i] = s.scored[j] => i = j
  /\ \A i \in DOMAIN s.scored : s.scored[i] \notin s.predictions
-----------------------------------------------------------------------------
(* What the row handlers change.                                           *)

Exited(s, row, r) ==
  LET k == Key(row)
      t == Trade(s.positions[k].event, row.id, row.strategy,
                 row.proceeds - s.positions[k].cost, row.ts)
  IN  /\ row.type = "eval" /\ k \in DOMAIN s.positions
      /\ Same(s, r.s, {"positions", "completed"})
      /\ r.s.positions = Without(s.positions, {k}) /\ r.s.completed = Append(s.completed, t)
      /\ r.log = <<Logged("complete", t)>> /\ r.save = "forced"

SplitSold(s, row, r) ==
  LET t == Trade(row.id, "complete", "split", row.locked, row.ts)
  IN  /\ row.type = "split" /\ row.id \notin s.processed
      /\ Same(s, r.s, {"processed", "completed"})
      /\ r.s.processed = s.processed \cup {row.id} /\ r.s.completed = Append(s.completed, t)
      /\ r.log = <<Logged("complete", t)>> /\ r.save = "forced"

Stocked(s, row, r) ==
  LET t == Trade(row.id, "complete", "inventory", row.locked, row.ts)
      locks == row.accept /\ row.locked > 0
  IN  /\ row.type \in {"inventory_eval", "inventory_action"} /\ row.id \notin s.processed
      /\ Same(s, r.s, {"processed", "completed", "inventory"})
      /\ r.s.processed = s.processed \cup {row.id}
      /\ r.s.completed = IF locks THEN Append(s.completed, t) ELSE s.completed
      /\ r.s.inventory = IF row.up = 0 /\ row.down = 0
                         THEN Without(s.inventory, {row.market})
                         ELSE With(s.inventory, row.market,
                                   [up |-> row.up, down |-> row.down, cost |-> row.cost,
                                    pending |-> FALSE])
      /\ r.log = (IF locks THEN <<Logged("complete", t)>> ELSE <<>>)
      /\ r.save \in {"forced", "timer"} /\ (locks => r.save = "forced")

Quoted(s, row, r) ==
  /\ row.type = "maker" /\ row.id \notin s.processed
  /\ Same(s, r.s, {"processed"}) /\ r.s.processed = s.processed \cup {row.id}
  /\ r.log = <<>> /\ r.save = "timer"

Rejected(s, row, r) ==
  /\ row.type \in {"eval", "hedged", "paired"}
  /\ Same(s, r.s, {"rejections"}) /\ r.s.rejections = With(s.rejections, Key(row), "limit")
  /\ \/ r.log = <<>>
     \/ r.log = <<Logged("reject", Trade(row.id, "reject", row.strategy, 0, row.ts))>>
  /\ r.save = "timer"

Opened(s, row, r) ==
  /\ row.type \in {"eval", "hedged", "paired"}
  /\ Key(row) \notin DOMAIN s.positions
  /\ Same(s, r.s, {"positions", "rejections"})
  /\ r.s.positions = With(s.positions, Key(row),
       [event |-> row.id, ts |-> row.ts, cost |-> row.cost, size |-> row.size,
        hedge |-> row.hedge, hedged |-> row.type = "hedged", hold |-> row.hold,
        pending |-> FALSE])
  /\ r.s.rejections = Without(s.rejections, {Key(row)})
  /\ r.log = <<>> /\ r.save = "timer"

Untouched(s, row, r) ==
  /\ r.s = s /\ r.log = <<>> /\ r.save = "none"
  /\ row.type \in {"inventory_eval", "inventory_action"} => row.id \in s.processed

LEMMA ConsumeSays ==
  ASSUME NEW s, Shape(s), NEW row \in Line
  PROVE  LET r == Consume(s, row)
         IN  \/ Exited(s, row, r) \/ SplitSold(s, row, r) \/ Stocked(s, row, r)
             \/ Quoted(s, row, r) \/ Rejected(s, row, r) \/ Opened(s, row, r)
             \/ Untouched(s, row, r)
<1> DEFINE r == Consume(s, row)
<1> USE DEF Result, Ignored
<1>1. CASE ExitsAt(s, row)
  <2>1. r = ProfitExit(s, row) /\ Key(row) \in DOMAIN s.positions /\ row.type = "eval"
    BY <1>1 DEF Consume, ExitsAt
  <2> HIDE DEF r
  <2>2. Exited(s, row, r)
    BY <2>1 DEF ProfitExit, Exited, Same, Shape, Fields
  <2> QED BY <2>2 DEF r
<1>2. CASE ~ExitsAt(s, row) /\ row.type = "split"
  <2>1. r = ConsumeSplitSell(s, row)
    BY <1>2 DEF Consume
  <2> HIDE DEF r
  <2>2. CASE row.id \in s.processed
    BY <1>2, <2>1, <2>2 DEF ConsumeSplitSell, Untouched, r
  <2>3. CASE row.id \notin s.processed
    <3>1. SplitSold(s, row, r)
      BY <1>2, <2>1, <2>3 DEF ConsumeSplitSell, SplitSold, Same, Shape, Fields
    <3> QED BY <3>1 DEF r
  <2> QED BY <2>2, <2>3
<1>3. CASE ~ExitsAt(s, row) /\ row.type \in {"inventory_eval", "inventory_action"}
  <2>1. r = ConsumeInventory(s, row)
    BY <1>3 DEF Consume
  <2> HIDE DEF r
  <2>2. CASE row.id \in s.processed
    BY <1>3, <2>1, <2>2 DEF ConsumeInventory, Untouched, r
  <2>3. CASE row.id \notin s.processed
    <3> DEFINE t == Trade(row.id, "complete", "inventory", row.locked, row.ts)
               locks == row.accept /\ row.locked > 0
               stock == IF row.up = 0 /\ row.down = 0
                        THEN Without(s.inventory, {row.market})
                        ELSE With(s.inventory, row.market,
                                  [up |-> row.up, down |-> row.down, cost |-> row.cost,
                                   pending |-> FALSE])
               done == IF locks THEN Append(s.completed, t) ELSE s.completed
    <3>1. /\ r.s = [s EXCEPT !.processed = @ \cup {row.id}, !.completed = done,
                             !.inventory = stock]
          /\ r.log = (IF locks THEN <<Logged("complete", t)>> ELSE <<>>)
          /\ r.save = IF row.locked > 0 THEN "forced" ELSE "timer"
      BY <2>1, <2>3 DEF ConsumeInventory
    <3> HIDE DEF stock, done
    <3>2. /\ Same(s, r.s, {"processed", "completed", "inventory"})
          /\ r.s.processed = s.processed \cup {row.id} /\ r.s.completed = done
          /\ r.s.inventory = stock
      BY <3>1 DEF Same, Shape, Fields
    <3>3. r.save \in {"forced", "timer"} /\ (locks => r.save = "forced")
      BY <3>1
    <3>4. Stocked(s, row, r)
      BY <1>3, <2>3, <3>1, <3>2, <3>3 DEF Stocked, stock, done
    <3> QED BY <3>4 DEF r
  <2> QED BY <2>2, <2>3
<1>4. CASE ~ExitsAt(s, row) /\ row.type = "maker"
  <2>1. r = ConsumeMakerQuote(s, row)
    BY <1>4 DEF Consume
  <2> HIDE DEF r
  <2>2. CASE row.id \in s.processed
    BY <1>4, <2>1, <2>2 DEF ConsumeMakerQuote, Untouched, r
  <2>3. CASE row.id \notin s.processed
    <3>1. Quoted(s, row, r)
      BY <1>4, <2>1, <2>3 DEF ConsumeMakerQuote, Quoted, Same, Shape, Fields
    <3> QED BY <3>1 DEF r
  <2> QED BY <2>2, <2>3
<1>5. CASE ~ExitsAt(s, row) /\ row.type \in {"eval", "hedged", "paired"}
  <2>1. r = ConsumeEntry(s, row)
    BY <1>5 DEF Consume
  <2> HIDE DEF r
  <2>2. CASE r = Ignored(s)
    BY <1>5, <2>2 DEF Untouched, r
  <2>3. CASE r = Reject(s, row)
    <3>1. Rejected(s, row, r)
      BY <1>5, <2>3 DEF Reject, Rejected, Same, Shape, Fields
    <3> QED BY <3>1 DEF r
  <2>4. CASE Key(row) \notin DOMAIN s.positions /\ r = OpenPosition(s, row)
    <3>1. Opened(s, row, r)
      BY <1>5, <2>4 DEF OpenPosition, Opened, Same, Shape, Fields
    <3> QED BY <3>1 DEF r
  <2> QED BY <2>1, <2>2, <2>3, <2>4 DEF ConsumeEntry
<1>6. row.type \in {"eval", "hedged", "paired", "split", "inventory_eval",
                    "inventory_action", "maker"}
  BY DEF Line, AuditRow
<1> QED BY <1>1, <1>2, <1>3, <1>4, <1>5, <1>6
-----------------------------------------------------------------------------
(* The inductive invariant. *)

Stocks(f, i) == f.lines[i].type \in {"inventory_eval", "inventory_action"}
Start(f, s) == StartAt(f, s.offset, s.inode)

\* Every row of an inventory that s has not processed and would still read from
\* the file f is younger than the ones it has.
Ordered(f, s) ==
  \A i, j \in DOMAIN f.lines :
    /\ Stocks(f, i) /\ f.lines[i].id \notin s.processed
    /\ Stocks(f, j) /\ f.lines[j].id \in s.processed
    /\ Start(f, s) <= 2 * (i - 1)
    => j < i

\* The rows of f about the inventory of m that s has processed.
Applied(f, s, m) ==
  {i \in DOMAIN f.lines : Stocks(f, i) /\ f.lines[i].market = m /\ f.lines[i].id \in s.processed}

\* InventoryIsLatest of a memory, by a row that is the last one.
Latest(f, s) ==
  \A m \in DOMAIN s.inventory : \A i \in Applied(f, s, m) :
    (\A j \in Applied(f, s, m) : j <= i)
      => s.inventory[m].up = f.lines[i].up /\ s.inventory[m].down = f.lines[i].down

\* A file without torn lines is read line by line, and what was passed is processed.
WholeLines ==
  /\ ~audit.torn /\ mem.offset % 2 = 0 /\ disk.offset % 2 = 0
  /\ pc = "read" =>
       /\ cursor % 2 = 0
       /\ \A i \in DOMAIN audit.lines :
            Stocks(audit, i) /\ mem.offset <= 2 * (i - 1) /\ 2 * (i - 1) < cursor
              => audit.lines[i].id \in mem.processed
  /\ Ordered(audit, mem) /\ Ordered(audit, disk) /\ Latest(audit, mem) /\ Latest(audit, disk)

\* Where the process reads on, and the events it has already seen the end of,
\* or holds open.
Ahead == IF pc = "read" THEN cursor ELSE Start(audit, mem)
Ends(s) == {i \in DOMAIN s.completed : s.completed[i].by # "settled"}
Ended(s) == {s.completed[i].of : i \in Ends(s)}
Met(s) == Ended(s) \cup {s.positions[k].event : k \in DOMAIN s.positions}
          \cup s.orphaned \cup s.processed

\* An event is open, completed or orphaned, and that once.
Apart(s) ==
  /\ \A k \in DOMAIN s.positions :
       /\ s.positions[k].event \notin s.orphaned \cup Ended(s)
       /\ \A j \in DOMAIN s.positions : s.positions[k].event = s.positions[j].event => k = j
  /\ Ended(s) \subseteq Ids \ s.orphaned
  /\ \A i, j \in Ends(s) : s.completed[i].of = s.completed[j].of => i = j
  /\ \A i \in DOMAIN s.completed \ Ends(s) : s.completed[i].of \in Markets

\* No row of the file from a position on is one s has met.
Unmet(f, s, pos) ==
  \A i \in DOMAIN f.lines : pos <= 2 * (i - 1) => f.lines[i].id \notin Met(s)

\* As long as the process lives.
LivesOnce ==
  /\ pc = "down" => disk = Fresh /\ log = <<>>
  /\ Apart(mem) /\ Unmet(audit, mem, Ahead) /\ Met(mem) \subseteq emitted \cup Markets

Reading ==
  pc = "read" => mem.inode = audit.inode /\ mem.offset <= cursor /\ cursor <= Size(audit)

Typed ==
  /\ pc \in {"down", "poll", "read", "settle"}
  /\ dirty \in BOOLEAN /\ counted \in BOOLEAN
  /\ listed \subseteq Markets /\ cursor \in Nat /\ crashes \in 0..MaxCrashes
  /\ now \in Nat /\ emitted \subseteq Ids /\ torns \in Nat /\ FileOK
  /\ MemoryTyped(mem) /\ MemoryTyped(disk) /\ log \in Seq(Records)

Core == /\ Typed /\ Reading /\ LoggedTradesCounted /\ CheckpointKeepsUp
        /\ ScoredApart(mem) /\ ScoredApart(disk)

IInv ==
  /\ Core
  /\ torns = 0 => WholeLines
  /\ crashes = 0 => LivesOnce
-----------------------------------------------------------------------------
(* Sets and sequences. *)

LEMMA KeysFinite == IsFiniteSet(Keys) /\ \A S \in SUBSET Keys : IsFiniteSet(S)
<1> DEFINE A == {"directional", "lottery", "paired"}  B == {"Up", "Down", "Both"}
<1>1. IsFiniteSet(A) /\ IsFiniteSet(B)
  <2>1. IsFiniteSet({"directional"}) /\ IsFiniteSet({"Up"})
    BY FS_Singleton
  <2>2. IsFiniteSet({"directional"} \cup {"lottery"}) /\ IsFiniteSet({"Up"} \cup {"Down"})
    BY <2>1, FS_AddElement
  <2>3. IsFiniteSet(({"directional"} \cup {"lottery"}) \cup {"paired"})
        /\ IsFiniteSet(({"Up"} \cup {"Down"}) \cup {"Both"})
    BY <2>2, FS_AddElement
  <2>4. /\ ({"directional"} \cup {"lottery"}) \cup {"paired"} = A
        /\ ({"Up"} \cup {"Down"}) \cup {"Both"} = B
    OBVIOUS
  <2> QED BY <2>3, <2>4
<1>2. IsFiniteSet(Markets)
  BY WorldAssumption
<1>3. IsFiniteSet(Markets \X B)
  BY <1>1, <1>2, FS_Product
<1>4. IsFiniteSet(A \X (Markets \X B))
  BY <1>1, <1>3, FS_Product
<1> DEFINE f == [p \in A \X (Markets \X B) |-> <<p[1], p[2][1], p[2][2]>>]
<1>5. f \in Surjection(A \X (Markets \X B), Keys)
  <2>0. Keys = A \X Markets \X B BY DEF Keys, Probability
  <2>1. ASSUME NEW k \in A \X Markets \X B
        PROVE  \E p \in A \X (Markets \X B) : f[p] = k
    <3>1. <<k[1], <<k[2], k[3]>>>> \in A \X (Markets \X B) OBVIOUS
    <3>2. f[<<k[1], <<k[2], k[3]>>>>] = k BY <3>1
    <3> QED BY <3>1, <3>2
  <2>2. f \in [A \X (Markets \X B) -> A \X Markets \X B] OBVIOUS
  <2> HIDE DEF f
  <2>3. f \in Surjection(A \X (Markets \X B), A \X Markets \X B)
    BY <2>1, <2>2 DEF Surjection
  <2> QED BY <2>0, <2>3
<1>6. IsFiniteSet(Keys)
  BY <1>4, <1>5, FS_Surjection
<1> QED BY <1>6, FS_Subset

\* The trades a step completes: each record "complete" of the log is one of them.
Counts(s, u, records) ==
  \E T \in Seq(Trades) :
    /\ u.completed = s.completed \o T
    /\ \A i \in DOMAIN records :
         records[i].kind = "complete" => \E j \in DOMAIN T : T[j] = records[i].trade

LEMMA KeyOfLine ==
  ASSUME NEW row \in Line
  PROVE  Key(row) \in Keys /\ row.id \in Ids /\ row.ts \in Nat
BY DEF Line, AuditRow, Key, Keys

\* What every handler leaves alone or keeps true.
Handled(s, r) ==
  /\ MemoryTyped(r.s) /\ r.log \in Seq(Records) /\ Counts(s, r.s, r.log)
  /\ r.save \in {"none", "timer", "forced"}
  /\ r.save = "none" => r.s = s
  /\ r.save # "forced" => r.s.completed = s.completed
  /\ Same(s, r.s, {"positions", "completed", "rejections", "processed", "inventory"})

LEMMA LoggedOne ==
  ASSUME NEW t \in Trades
  PROVE  /\ <<Logged("complete", t)>> \in Seq(Records)
         /\ <<t>> \in Seq(Trades)
         /\ \A i \in DOMAIN <<Logged("complete", t)>> :
              \E j \in DOMAIN <<t>> : <<t>>[j] = <<Logged("complete", t)>>[i].trade
<1>1. Logged("complete", t) \in Records /\ Logged("complete", t).trade = t
  BY DEF Logged, Records, Trades
<1> DEFINE g == Logged("complete", t)
<1> HIDE DEF g
<1>2. g \in Records /\ g.trade = t BY <1>1 DEF g
<1>3. DOMAIN <<g>> = {1} /\ DOMAIN <<t>> = {1} /\ <<t>>[1] = t /\ <<g>>[1] = g
  OBVIOUS
<1>4. \A i \in DOMAIN <<g>> : \E j \in DOMAIN <<t>> : <<t>>[j] = <<g>>[i].trade
  BY <1>2, <1>3
<1> QED BY <1>2, <1>4 DEF g

LEMMA CountsOne ==
  ASSUME NEW s, s.completed \in Seq(Trades), NEW u, NEW t \in Trades,
         u.completed = Append(s.completed, t)
  PROVE  Counts(s, u, <<Logged("complete", t)>>) /\ u.completed \in Seq(Trades)
<1>1. Append(s.completed, t) = s.completed \o <<t>>
  OBVIOUS
<1>2. u.completed \in Seq(Trades)
  OBVIOUS
<1> DEFINE T == <<t>>  q == <<Logged("complete", t)>>
<1>3. /\ T \in Seq(Trades) /\ u.completed = s.completed \o T
      /\ \A i \in DOMAIN q : \E j \in DOMAIN T : T[j] = q[i].trade
  BY <1>1, LoggedOne
<1> HIDE DEF T, q
<1>4. Counts(s, u, q)
  BY <1>3 DEF Counts
<1> QED BY <1>2, <1>4 DEF q

LEMMA CountsNone ==
  ASSUME NEW s, s.completed \in Seq(Trades), NEW u, u.completed = s.completed,
         NEW records, \A i \in DOMAIN records : records[i].kind # "complete"
  PROVE  Counts(s, u, records)
<1>1. s.completed = s.completed \o <<>> /\ <<>> \in Seq(Trades)
  OBVIOUS
<1> QED BY <1>1 DEF Counts

LEMMA ConsumeKeeps ==
  ASSUME NEW s, MemoryTyped(s), NEW row \in Line, row.id \in emitted
  PROVE  Handled(s, Consume(s, row))
<1> DEFINE r == Consume(s, row)
<1> SUFFICES Handled(s, r)
  OBVIOUS
<1> HIDE DEF r
<1>0. /\ Shape(s) /\ s.completed \in Seq(Trades) /\ DOMAIN s.positions \subseteq Keys
      /\ \A k \in DOMAIN s.positions : s.positions[k] \in Position
                                       /\ s.positions[k].event \in emitted
  BY DEF MemoryTyped
<1>k. Key(row) \in Keys /\ row.id \in Ids /\ row.ts \in Nat
  BY KeyOfLine
<1>1. CASE Exited(s, row, r)
  <2> DEFINE k == Key(row)
             t == Trade(s.positions[k].event, row.id, row.strategy,
                        row.proceeds - s.positions[k].cost, row.ts)
  <2>1. /\ k \in DOMAIN s.positions
        /\ Same(s, r.s, {"positions", "completed"})
        /\ r.s.positions = Without(s.positions, {k}) /\ r.s.completed = Append(s.completed, t)
        /\ r.log = <<Logged("complete", t)>> /\ r.save = "forced"
    BY <1>1 DEF Exited
  <2>2. t \in Trades
    BY <1>0, <1>k, <2>1 DEF Trade, Trades, Line, AuditRow, Position
  <2> HIDE DEF t, k
  <2>3. Counts(s, r.s, r.log) /\ r.s.completed \in Seq(Trades) /\ r.log \in Seq(Records)
    <3>1. r.log \in Seq(Records)
      BY <2>1, <2>2, LoggedOne
    <3>2. Counts(s, r.s, <<Logged("complete", t)>>) /\ r.s.completed \in Seq(Trades)
      BY <1>0, <2>1, <2>2, CountsOne
    <3> QED BY <2>1, <3>1, <3>2
  <2>4. DOMAIN r.s.positions \subseteq DOMAIN s.positions
        /\ \A j \in DOMAIN r.s.positions : r.s.positions[j] = s.positions[j]
    BY <2>1 DEF Without, Restrict
  <2>5. MemoryTyped(r.s)
    BY <2>1, <2>3, <2>4 DEF MemoryTyped, Same, Fields
  <2> QED BY <2>1, <2>3, <2>5 DEF Handled, Same
<1>2. CASE SplitSold(s, row, r)
  <2> DEFINE t == Trade(row.id, "complete", "split", row.locked, row.ts)
  <2>1. /\ row.id \notin s.processed
        /\ Same(s, r.s, {"processed", "completed"})
        /\ r.s.processed = s.processed \cup {row.id} /\ r.s.completed = Append(s.completed, t)
        /\ r.log = <<Logged("complete", t)>> /\ r.save = "forced"
    BY <1>2 DEF SplitSold
  <2>2. t \in Trades
    BY <1>k DEF Trade, Trades, Line, AuditRow
  <2> HIDE DEF t
  <2>3. Counts(s, r.s, r.log) /\ r.s.completed \in Seq(Trades) /\ r.log \in Seq(Records)
    <3>1. r.log \in Seq(Records)
      BY <2>1, <2>2, LoggedOne
    <3>2. Counts(s, r.s, <<Logged("complete", t)>>) /\ r.s.completed \in Seq(Trades)
      BY <1>0, <2>1, <2>2, CountsOne
    <3> QED BY <2>1, <3>1, <3>2
  <2>5. MemoryTyped(r.s)
    BY <2>1, <2>3 DEF MemoryTyped, Same, Fields
  <2> QED BY <2>1, <2>3, <2>5 DEF Handled, Same
<1>3. CASE Stocked(s, row, r)
  <2> DEFINE t == Trade(row.id, "complete", "inventory", row.locked, row.ts)
             locks == row.accept /\ row.locked > 0
             filled == [up |-> row.up, down |-> row.down, cost |-> row.cost, pending |-> FALSE]
             stock == IF row.up = 0 /\ row.down = 0 THEN Without(s.inventory, {row.market})
                      ELSE With(s.inventory, row.market, filled)
  <2>1. /\ Same(s, r.s, {"processed", "completed", "inventory"})
        /\ r.s.processed = s.processed \cup {row.id}
        /\ r.s.completed = IF locks THEN Append(s.completed, t) ELSE s.completed
        /\ r.s.inventory = stock
        /\ r.log = (IF locks THEN <<Logged("complete", t)>> ELSE <<>>)
        /\ r.save \in {"forced", "timer"} /\ (locks => r.save = "forced")
    BY <1>3 DEF Stocked
  <2>2. t \in Trades
    BY <1>k DEF Trade, Trades, Line, AuditRow
  <2>3. filled \in Stock /\ row.market \in Markets
    BY DEF Stock, Line, AuditRow
  <2> HIDE DEF t, filled, locks
  <2>4. DOMAIN stock \subseteq DOMAIN s.inventory \cup {row.market}
        /\ \A m \in DOMAIN stock : \/ stock[m] = s.inventory[m] /\ m \in DOMAIN s.inventory
                                 \/ stock[m] = filled
    BY DEF Without, With, Restrict
  <2> HIDE DEF stock
  <2>5. Counts(s, r.s, r.log) /\ r.s.completed \in Seq(Trades) /\ r.log \in Seq(Records)
    <3>1. CASE locks
      <4>1. r.s.completed = Append(s.completed, t) /\ r.log = <<Logged("complete", t)>>
        BY <2>1, <3>1
      <4>2. Counts(s, r.s, <<Logged("complete", t)>>) /\ r.s.completed \in Seq(Trades)
        BY <1>0, <4>1, <2>2, CountsOne
      <4>3. r.log \in Seq(Records)
        BY <4>1, <2>2, LoggedOne
      <4> QED BY <4>1, <4>2, <4>3
    <3>2. CASE ~locks
      <4>1. r.s.completed = s.completed /\ r.log = <<>>
        BY <2>1, <3>2
      <4> QED BY <1>0, <4>1, CountsNone
    <3> QED BY <3>1, <3>2
  <2>6. DOMAIN r.s.inventory \subseteq Markets
        /\ \A m \in DOMAIN r.s.inventory : r.s.inventory[m] \in Stock
    BY <2>1, <2>3, <2>4 DEF MemoryTyped
  <2>7. MemoryTyped(r.s)
    BY <2>1, <2>5, <2>6 DEF MemoryTyped, Same, Fields
  <2> QED BY <2>1, <2>5, <2>7 DEF Handled, Same
<1>4. CASE Quoted(s, row, r)
  <2>1. /\ Same(s, r.s, {"processed"}) /\ r.s.processed = s.processed \cup {row.id}
        /\ r.log = <<>> /\ r.save = "timer" /\ r.s.completed = s.completed
    BY <1>4 DEF Quoted, Same, Fields
  <2>2. Counts(s, r.s, r.log)
    BY <1>0, <2>1, CountsNone
  <2>3. MemoryTyped(r.s)
    BY <2>1 DEF MemoryTyped, Same, Fields
  <2> QED BY <2>1, <2>2, <2>3 DEF Handled, Same
<1>5. CASE Rejected(s, row, r)
  <2> DEFINE g == Logged("reject", Trade(row.id, "reject", row.strategy, 0, row.ts))
  <2>1. /\ Same(s, r.s, {"rejections"})
        /\ r.s.rejections = With(s.rejections, Key(row), "limit")
        /\ r.log = <<>> \/ r.log = <<g>>
        /\ r.save = "timer" /\ r.s.completed = s.completed
    BY <1>5 DEF Rejected, Same, Fields
  <2>2. g \in Records /\ g.kind = "reject"
    BY <1>k DEF Logged, Trade, Records, Line, AuditRow
  <2> HIDE DEF g
  <2>3. r.log \in Seq(Records) /\ \A i \in DOMAIN r.log : r.log[i].kind # "complete"
    <3>1. CASE r.log = <<>>
      BY <3>1
    <3>2. CASE r.log = <<g>>
      <4>1. DOMAIN r.log = {1} /\ r.log[1] = g
        BY <3>2
      <4>2. r.log \in Seq(Records)
        BY <3>2, <2>2
      <4> QED BY <4>1, <4>2, <2>2
    <3> QED BY <2>1, <3>1, <3>2
  <2>4. Counts(s, r.s, r.log)
    BY <1>0, <2>1, <2>3, CountsNone
  <2>5. DOMAIN r.s.rejections \subseteq Keys
    BY <1>k, <2>1 DEF With, MemoryTyped
  <2>6. MemoryTyped(r.s)
    BY <2>1, <2>5 DEF MemoryTyped, Same, Fields
  <2> QED BY <2>1, <2>3, <2>4, <2>6 DEF Handled, Same
<1>6. CASE Opened(s, row, r)
  <2> DEFINE p == [event |-> row.id, ts |-> row.ts, cost |-> row.cost, size |-> row.size,
                   hedge |-> row.hedge, hedged |-> row.type = "hedged", hold |-> row.hold,
                   pending |-> FALSE]
  <2>1. /\ Same(s, r.s, {"positions", "rejections"})
        /\ r.s.positions = With(s.positions, Key(row), p)
        /\ r.s.rejections = Without(s.rejections, {Key(row)})
        /\ r.log = <<>> /\ r.save = "timer" /\ r.s.completed = s.completed
    BY <1>6 DEF Opened, Same, Fields
  <2>2. p \in Position /\ p.event \in emitted
    BY <1>k DEF Position, Line, AuditRow
  <2> HIDE DEF p
  <2>3. Counts(s, r.s, r.log)
    BY <1>0, <2>1, CountsNone
  <2>4. /\ DOMAIN r.s.positions \subseteq Keys /\ DOMAIN r.s.rejections \subseteq Keys
        /\ \A k \in DOMAIN r.s.positions : r.s.positions[k] \in Position
                                           /\ r.s.positions[k].event \in emitted
    BY <1>0, <1>k, <2>1, <2>2 DEF With, Without, Restrict, MemoryTyped
  <2>5. MemoryTyped(r.s)
    BY <2>1, <2>4 DEF MemoryTyped, Same, Fields
  <2> QED BY <2>1, <2>3, <2>5 DEF Handled, Same
<1>7. CASE Untouched(s, row, r)
  <2>1. r.s = s /\ r.log = <<>> /\ r.save = "none"
    BY <1>7 DEF Untouched
  <2>2. Counts(s, r.s, r.log)
    BY <1>0, <2>1, CountsNone
  <2> QED BY <1>0, <2>1, <2>2 DEF Handled, Same
<1> QED BY <1>0, <1>1, <1>2, <1>3, <1>4, <1>5, <1>6, <1>7, ConsumeSays DEF r

LEMMA PredictionCaptured ==
  ASSUME NEW s, MemoryTyped(s), ScoredApart(s), NEW row \in Line
  PROVE  LET u == CapturePrediction(s, row)
         IN  MemoryTyped(u) /\ ScoredApart(u) /\ Same(s, u, {"predictions"})
<1> DEFINE u == CapturePrediction(s, row)
           id == <<row.strategy, row.market>>
<1>0. Shape(s) BY DEF MemoryTyped
<1>1. CASE u = s
  BY <1>0, <1>1 DEF Same, Fields
<1>2. CASE u # s
  <2>1. /\ row.predicts /\ ~Contains(s.scored, id)
        /\ u = [s EXCEPT !.predictions = @ \cup {id}]
    BY <1>2 DEF CapturePrediction
  <2>2. id \in Probability \X Markets
    BY <2>1 DEF Line, AuditRow
  <2>3. \A i \in DOMAIN s.scored : s.scored[i] # id
    <3>1. DOMAIN s.scored = 1..Len(s.scored)
      BY DEF MemoryTyped
    <3>2. ~ \E i \in 1..Len(s.scored) : s.scored[i] = id
      BY <2>1 DEF Contains
    <3> QED BY <3>1, <3>2
  <2> HIDE DEF u, id
  <2>4. Same(s, u, {"predictions"}) /\ u.predictions = s.predictions \cup {id}
    BY <1>0, <2>1 DEF Same, Shape, Fields
  <2>5. MemoryTyped(u)
    BY <2>2, <2>4 DEF MemoryTyped, Same, Fields
  <2>6. ScoredApart(u)
    BY <2>3, <2>4 DEF ScoredApart, Same, Fields
  <2> QED BY <2>4, <2>5, <2>6 DEF u
<1> QED BY <1>1, <1>2

\* A settlement with an order of the positions that have a sample.
Orders(s, sample) ==
  SetToSeqs({k \in DOMAIN s.positions : Due(k[2]) /\ sample[k[2]] # "none"})

LEMMA OrderSays ==
  ASSUME NEW s, MemoryTyped(s), NEW sample, NEW order \in Orders(s, sample)
  PROVE  /\ order \in Seq(DOMAIN s.positions)
         /\ \A i \in DOMAIN order : order[i] \in DOMAIN s.positions
         /\ \A i, j \in DOMAIN order : order[i] = order[j] => i = j
         /\ ToSet(order) \subseteq DOMAIN s.positions
         /\ \A i \in DOMAIN order : order[i] \in ToSet(order)
         /\ \A i \in DOMAIN order : sample[order[i][2]] # "none"
         /\ \A k \in ToSet(order) : \E i \in DOMAIN order : order[i] = k
<1> DEFINE R == {k \in DOMAIN s.positions : Due(k[2]) /\ sample[k[2]] # "none"}
           D == 1..Cardinality(R)
<1>1. order \in [D -> R] /\ \A i, j \in D : i # j => order[i] # order[j]
  BY DEF Orders, SetToSeqs
<1>2. \A k \in R : k \in DOMAIN s.positions /\ sample[k[2]] # "none"
  OBVIOUS
<1>3. R \in SUBSET Keys
  BY DEF MemoryTyped
<1> HIDE DEF R
<1>4. Cardinality(R) \in Nat
  BY <1>3, KeysFinite, FS_CardinalityType
<1>5. order \in Seq(R) /\ DOMAIN order = D
  BY <1>1, <1>4
<1>6. \A i \in D : order[i] \in R
  BY <1>1
<1>7. order \in Seq(DOMAIN s.positions)
  BY <1>2, <1>5
<1> HIDE DEF D
<1> QED BY <1>1, <1>2, <1>5, <1>6, <1>7 DEF ToSet

\* What settle() does to the positions.
PositionsDone(s, order, P) ==
  /\ DOMAIN P.kept \subseteq DOMAIN s.positions \ ToSet(order)
  /\ \A k \in DOMAIN P.kept : P.kept[k] \in Position /\ P.kept[k].event = s.positions[k].event
  /\ P.trades \in Seq(Trades) /\ DOMAIN P.trades = DOMAIN order
  /\ \A i \in DOMAIN order : /\ P.trades[i].of = s.positions[order[i]].event
                             /\ P.trades[i].by = "complete"
  /\ P.orphaned \subseteq {s.positions[k].event :
                             k \in DOMAIN s.positions \ (DOMAIN P.kept \cup ToSet(order))}
  /\ P.log \in Seq(Records)
  /\ \A i \in DOMAIN P.log :
       P.log[i].kind = "complete" => \E j \in DOMAIN P.trades : P.trades[j] = P.log[i].trade
  /\ \A j \in DOMAIN P.trades :
       \E i \in DOMAIN P.log : P.log[i].kind = "complete" /\ P.trades[j] = P.log[i].trade
  /\ ~P.durable => P.trades = <<>> /\ P.orphaned = {}

LEMMA ImageIsFinite ==
  ASSUME NEW S, IsFiniteSet(S), NEW f
  PROVE  IsFiniteSet({f[x] : x \in S})
<1> DEFINE g == [x \in S |-> f[x]]  T == {f[x] : x \in S}
<1>1. g \in [S -> T] /\ \A y \in T : \E x \in S : g[x] = y
  OBVIOUS
<1> HIDE DEF g, T
<1>2. g \in Surjection(S, T)
  BY <1>1 DEF Surjection
<1>3. IsFiniteSet(T)
  BY <1>2, FS_Surjection
<1> QED BY <1>3 DEF T

LEMMA LogOf ==
  ASSUME NEW T \in Seq(Trades)
  PROVE  LET g == [i \in DOMAIN T |-> Logged("complete", T[i])]
         IN  /\ g \in Seq(Records) /\ DOMAIN g = DOMAIN T
             /\ \A i \in DOMAIN g : g[i].kind = "complete" /\ T[i] = g[i].trade
<1> DEFINE g == [i \in DOMAIN T |-> Logged("complete", T[i])]
<1>1. \A t \in Trades : /\ Logged("complete", t) \in Records
                         /\ Logged("complete", t).kind = "complete"
                         /\ Logged("complete", t).trade = t
  BY DEF Logged, Trades, Records
<1>2. \A i \in DOMAIN T : T[i] \in Trades
  OBVIOUS
<1>3. DOMAIN T = 1..Len(T) /\ Len(T) \in Nat
  OBVIOUS
<1>4. g \in [1..Len(T) -> Records]
  BY <1>1, <1>2, <1>3
<1>5. g \in Seq(Records)
  BY <1>3, <1>4
<1> QED BY <1>1, <1>2, <1>5

LEMMA PositionTrade ==
  ASSUME NEW s, MemoryTyped(s), NEW sample, NEW k \in DOMAIN s.positions, now \in Nat
  PROVE  LET t == SettledTrade(s, k, sample)
         IN  t \in Trades /\ t.of = s.positions[k].event /\ t.by = "complete"
<1> DEFINE p == s.positions[k]
<1>1. p \in Position /\ p.event \in Ids /\ k \in Keys
  BY DEF MemoryTyped, Position
<1>2. Payout(k, p, sample) \in Nat
  BY <1>1 DEF Payout, Position
<1>3. Payout(k, p, sample) - p.cost \in Int
  BY <1>1, <1>2 DEF Position
<1>4. k[1] \in Probability \cup {"paired"}
  BY <1>1 DEF Keys
<1> DEFINE q == Payout(k, p, sample) - p.cost
<1>5. SettledTrade(s, k, sample) = [of |-> p.event, by |-> "complete", strategy |-> k[1],
                                    pnl |-> q, ts |-> now]
  BY DEF SettledTrade, Trade
<1> HIDE DEF q, p
<1>6. q \in Int BY <1>3 DEF q
<1> QED BY <1>1, <1>4, <1>5, <1>6 DEF Trades, p

LEMMA PositionsSettled ==
  ASSUME NEW s, MemoryTyped(s), NEW sample, NEW order \in Orders(s, sample), now \in Nat
  PROVE  PositionsDone(s, order, SettlePositions(s, sample, order))
<1> DEFINE due == {k \in DOMAIN s.positions : Due(k[2])}
           ready == ToSet(order)
           gone == {k \in due \ ready : TooOld(k[2])}
           trades == [i \in DOMAIN order |-> SettledTrade(s, order[i], sample)]
           S1 == [i \in DOMAIN trades |-> Logged("complete", trades[i])]
           L == {Logged("orphaned", SettledTrade(s, k, sample)) : k \in gone}
           S2 == SetToSeq(L)
           kept == [k \in DOMAIN s.positions \ (ready \cup gone) |->
                      [s.positions[k] EXCEPT !.pending = @ \/ k \in due]]
           P == SettlePositions(s, sample, order)
<1> SUFFICES PositionsDone(s, order, P)
  OBVIOUS
<1>1. /\ P.kept = kept /\ P.trades = trades /\ P.orphaned = {s.positions[k].event : k \in gone}
      /\ P.log = S1 \o S2 /\ P.durable = (ready \cup gone # {})
  BY DEF SettlePositions
<1>2. /\ gone \subseteq DOMAIN s.positions /\ gone \cap ready = {}
      /\ DOMAIN kept = DOMAIN s.positions \ (ready \cup gone)
  OBVIOUS
<1>3. \A k \in DOMAIN s.positions : s.positions[k] \in Position
  BY DEF MemoryTyped
<1>4. \A k \in DOMAIN kept : kept[k] \in Position /\ kept[k].event = s.positions[k].event
  <2> SUFFICES ASSUME NEW k \in DOMAIN kept
               PROVE  kept[k] \in Position /\ kept[k].event = s.positions[k].event
    OBVIOUS
  <2> DEFINE p == s.positions[k]
  <2>1. p \in Position BY <1>3
  <2>2. kept[k] = [p EXCEPT !.pending = @ \/ k \in due]
    OBVIOUS
  <2> HIDE DEF kept, p
  <2>3. kept[k] \in Position /\ kept[k].event = p.event
    BY <2>1, <2>2 DEF Position
  <2> QED BY <2>3 DEF p
<1>5. /\ order \in Seq(DOMAIN s.positions) /\ ready \subseteq DOMAIN s.positions
      /\ \A i \in DOMAIN order : order[i] \in DOMAIN s.positions /\ order[i] \in ready
  BY OrderSays
<1>6. \A i \in DOMAIN order : /\ trades[i] \in Trades
                              /\ trades[i].of = s.positions[order[i]].event
                              /\ trades[i].by = "complete"
  BY <1>5, PositionTrade
<1>7. trades \in Seq(Trades) /\ DOMAIN trades = DOMAIN order
  <2>1. DOMAIN order = 1..Len(order) /\ Len(order) \in Nat
    BY <1>5
  <2>2. trades \in [1..Len(order) -> Trades]
    BY <1>6, <2>1
  <2> QED BY <2>1, <2>2
<1> HIDE DEF trades
<1>8. /\ S1 \in Seq(Records) /\ DOMAIN S1 = DOMAIN trades
      /\ \A i \in DOMAIN S1 : S1[i].kind = "complete" /\ trades[i] = S1[i].trade
  BY <1>7, LogOf
<1>9. \A k \in gone : Logged("orphaned", SettledTrade(s, k, sample)) \in Records
                      /\ Logged("orphaned", SettledTrade(s, k, sample)).kind = "orphaned"
  <2> SUFFICES ASSUME NEW k \in gone
               PROVE  Logged("orphaned", SettledTrade(s, k, sample)) \in Records
                      /\ Logged("orphaned", SettledTrade(s, k, sample)).kind = "orphaned"
    OBVIOUS
  <2>1. SettledTrade(s, k, sample) \in Trades
    BY <1>2, PositionTrade
  <2> QED BY <2>1 DEF Logged, Records, Trades
<1>10. IsFiniteSet(L)
  <2>1. gone \in SUBSET Keys BY <1>2 DEF MemoryTyped
  <2>2. IsFiniteSet(gone) BY <2>1, KeysFinite
  <2> HIDE DEF gone
  <2> DEFINE f == [k \in gone |-> Logged("orphaned", SettledTrade(s, k, sample))]
  <2>3. L = {f[k] : k \in gone}
    OBVIOUS
  <2> HIDE DEF f, L
  <2> QED BY <2>2, <2>3, ImageIsFinite
<1>11. \A x \in L : x \in Records /\ x.kind = "orphaned"
  BY <1>9
<1> HIDE DEF L
<1>12. S2 \in Seq(L)
  BY <1>10, SetToSeqSays
<1>13. S2 \in Seq(Records) /\ \A i \in DOMAIN S2 : S2[i].kind = "orphaned"
  <2>1. \A i \in DOMAIN S2 : S2[i] \in L
    BY <1>12
  <2>2. S2 \in Seq(Records)
    BY <1>11, <1>12
  <2> QED BY <1>11, <2>1, <2>2
<1> HIDE DEF S1, S2
<1>14. S1 \o S2 \in Seq(Records)
  BY <1>8, <1>13
<1>15. \A i \in DOMAIN (S1 \o S2) :
         (S1 \o S2)[i].kind = "complete" => \E j \in DOMAIN trades : trades[j] = (S1 \o S2)[i].trade
  <2> SUFFICES ASSUME NEW i \in DOMAIN (S1 \o S2), (S1 \o S2)[i].kind = "complete"
               PROVE  \E j \in DOMAIN trades : trades[j] = (S1 \o S2)[i].trade
    OBVIOUS
  <2>1. /\ i \in 1..(Len(S1) + Len(S2))
        /\ (S1 \o S2)[i] = IF i <= Len(S1) THEN S1[i] ELSE S2[i - Len(S1)]
    BY <1>8, <1>13
  <2>2. CASE i <= Len(S1)
    <3>1. i \in DOMAIN S1 /\ (S1 \o S2)[i] = S1[i]
      BY <1>8, <2>1, <2>2
    <3> QED BY <1>8, <3>1
  <2>3. CASE ~(i <= Len(S1))
    <3>1. i - Len(S1) \in DOMAIN S2 /\ (S1 \o S2)[i] = S2[i - Len(S1)]
      BY <1>8, <1>13, <2>1, <2>3
    <3>2. S2[i - Len(S1)].kind = "orphaned"
      BY <1>13, <3>1
    <3> QED BY <3>1, <3>2
  <2> QED BY <2>2, <2>3
<1>16. \A j \in DOMAIN trades : \E i \in DOMAIN (S1 \o S2) :
         (S1 \o S2)[i].kind = "complete" /\ trades[j] = (S1 \o S2)[i].trade
  BY <1>8, <1>13, Concatenated
<1>17. ready \cup gone = {} => trades = <<>> /\ {s.positions[k].event : k \in gone} = {}
  <2> SUFFICES ASSUME ready = {}
               PROVE  trades = <<>>
    OBVIOUS
  <2>1. DOMAIN order = {}
    BY <1>5
  <2> QED BY <1>7, <2>1
<1> HIDE DEF P, kept
<1>18. /\ DOMAIN P.kept \subseteq DOMAIN s.positions \ ready
       /\ \A k \in DOMAIN P.kept : P.kept[k] \in Position /\ P.kept[k].event = s.positions[k].event
  BY <1>1, <1>2, <1>4
<1>19. P.orphaned \subseteq {s.positions[k].event :
                               k \in DOMAIN s.positions \ (DOMAIN P.kept \cup ready)}
  <2>1. gone \subseteq DOMAIN s.positions \ (DOMAIN P.kept \cup ready)
    BY <1>1, <1>2
  <2> HIDE DEF gone, ready
  <2> QED BY <1>1, <2>1
<1> HIDE DEF gone
<1>20. /\ P.trades \in Seq(Trades) /\ DOMAIN P.trades = DOMAIN order
       /\ \A i \in DOMAIN order : /\ P.trades[i].of = s.positions[order[i]].event
                                  /\ P.trades[i].by = "complete"
  BY <1>1, <1>6, <1>7
<1>21. /\ P.log \in Seq(Records)
       /\ \A i \in DOMAIN P.log :
            P.log[i].kind = "complete" => \E j \in DOMAIN P.trades : P.trades[j] = P.log[i].trade
       /\ \A j \in DOMAIN P.trades :
            \E i \in DOMAIN P.log : P.log[i].kind = "complete" /\ P.trades[j] = P.log[i].trade
  <2> DEFINE g == S1 \o S2
  <2>1. P.log = g /\ P.trades = trades BY <1>1
  <2>2. /\ g \in Seq(Records)
        /\ \A i \in DOMAIN g :
             g[i].kind = "complete" => \E j \in DOMAIN trades : trades[j] = g[i].trade
        /\ \A j \in DOMAIN trades :
             \E i \in DOMAIN g : g[i].kind = "complete" /\ trades[j] = g[i].trade
    BY <1>14, <1>15, <1>16
  <2> HIDE DEF g
  <2> QED BY <2>1, <2>2
<1>22. ~P.durable => P.trades = <<>> /\ P.orphaned = {}
  BY <1>1, <1>17
<1> HIDE DEF ready
<1> QED BY <1>18, <1>19, <1>20, <1>21, <1>22 DEF PositionsDone, ready

\* What settle() does to the inventory.
InventoryDone(s, I) ==
  /\ DOMAIN I.kept \subseteq DOMAIN s.inventory
  /\ \A m \in DOMAIN I.kept : /\ I.kept[m] \in Stock
                              /\ I.kept[m].up = s.inventory[m].up
                              /\ I.kept[m].down = s.inventory[m].down
  /\ I.trades \in Seq(Trades)
  /\ \A i \in DOMAIN I.trades : I.trades[i].of \in Markets /\ I.trades[i].by = "settled"
  /\ I.orphaned \subseteq Markets
  /\ I.log \in Seq(Records)
  /\ \A i \in DOMAIN I.log : \E j \in DOMAIN I.trades : I.trades[j] = I.log[i].trade
  /\ \A j \in DOMAIN I.trades :
       \E i \in DOMAIN I.log : I.log[i].kind = "complete" /\ I.trades[j] = I.log[i].trade
  /\ ~I.durable => I.trades = <<>> /\ I.orphaned = {}

LEMMA InventoryTraded ==
  ASSUME NEW s, MemoryTyped(s), NEW sample, NEW m \in DOMAIN s.inventory, now \in Nat
  PROVE  LET t == InventoryTrade(s, m, sample)
         IN  t \in Trades /\ t.of \in Markets /\ t.by = "settled"
<1> DEFINE i == s.inventory[m]
           q == (IF sample[m] = "Up" THEN i.up ELSE i.down) - i.cost
<1>1. i \in Stock /\ m \in Markets
  BY DEF MemoryTyped
<1>2. q \in Int
  BY <1>1 DEF Stock
<1>3. InventoryTrade(s, m, sample) = [of |-> m, by |-> "settled", strategy |-> "inventory",
                                      pnl |-> q, ts |-> now]
  BY DEF InventoryTrade, Trade
<1> HIDE DEF q, i
<1> QED BY <1>1, <1>2, <1>3 DEF Trades

LEMMA InventorySettled ==
  ASSUME NEW s, MemoryTyped(s), NEW sample, now \in Nat
  PROVE  InventoryDone(s, SettleInventory(s, sample))
<1> DEFINE due == {m \in DOMAIN s.inventory : Due(m)}
           sold == {m \in due : sample[m] # "none"}
           lost == {m \in due \ sold : TooOld(m)}
           L == {InventoryTrade(s, m, sample) : m \in sold}
           trades == SetToSeq(L)
           g == [i \in DOMAIN trades |-> Logged("complete", trades[i])]
           kept == [m \in DOMAIN s.inventory \ (sold \cup lost) |->
                      [s.inventory[m] EXCEPT !.pending = @ \/ m \in due]]
           I == SettleInventory(s, sample)
<1> SUFFICES InventoryDone(s, I)
  OBVIOUS
<1>1. I.kept = kept /\ I.trades = trades /\ I.orphaned = lost /\ I.log = g
  BY DEF SettleInventory
<1>2. ~I.durable => sold \cup lost = {}
  BY DEF SettleInventory
<1>3. sold \subseteq DOMAIN s.inventory /\ lost \subseteq DOMAIN s.inventory
      /\ DOMAIN s.inventory \subseteq Markets
  BY DEF MemoryTyped
<1>4. DOMAIN kept = DOMAIN s.inventory \ (sold \cup lost)
  OBVIOUS
<1>5. \A m \in DOMAIN kept : /\ kept[m] \in Stock
                             /\ kept[m].up = s.inventory[m].up
                             /\ kept[m].down = s.inventory[m].down
  <2> SUFFICES ASSUME NEW m \in DOMAIN kept
               PROVE  /\ kept[m] \in Stock
                      /\ kept[m].up = s.inventory[m].up
                      /\ kept[m].down = s.inventory[m].down
    OBVIOUS
  <2> DEFINE p == s.inventory[m]
  <2>1. p \in Stock BY DEF MemoryTyped
  <2>2. kept[m] = [p EXCEPT !.pending = @ \/ m \in due]
    OBVIOUS
  <2> HIDE DEF kept, p
  <2>3. kept[m] \in Stock /\ kept[m].up = p.up /\ kept[m].down = p.down
    BY <2>1, <2>2 DEF Stock
  <2> QED BY <2>3 DEF p
<1>6. IsFiniteSet(L)
  <2>1. IsFiniteSet(sold)
    BY <1>3, WorldAssumption, FS_Subset
  <2> HIDE DEF sold
  <2> DEFINE f == [m \in sold |-> InventoryTrade(s, m, sample)]
  <2>2. L = {f[m] : m \in sold}
    OBVIOUS
  <2> HIDE DEF f, L
  <2> QED BY <2>1, <2>2, ImageIsFinite
<1>7. \A x \in L : x \in Trades /\ x.of \in Markets /\ x.by = "settled"
  BY <1>3, InventoryTraded
<1>8. sold = {} => L = {}
  OBVIOUS
<1> HIDE DEF L
<1>9. trades \in Seq(L) /\ \A i \in DOMAIN trades : trades[i] \in L
  BY <1>6, SetToSeqSays
<1> HIDE DEF trades
<1>10. trades \in Seq(Trades)
  BY <1>7, <1>9
<1>11. \A i \in DOMAIN trades : trades[i].of \in Markets /\ trades[i].by = "settled"
  BY <1>7, <1>9
<1>12. L = {} => trades = <<>>
  BY <1>9
<1>13. /\ g \in Seq(Records) /\ \A i \in DOMAIN g : \E j \in DOMAIN trades : trades[j] = g[i].trade
       /\ \A j \in DOMAIN trades :
            \E i \in DOMAIN g : g[i].kind = "complete" /\ trades[j] = g[i].trade
  BY <1>10, LogOf
<1> HIDE DEF I, g, kept
<1>14. ~I.durable => I.trades = <<>> /\ I.orphaned = {}
  BY <1>1, <1>2, <1>8, <1>12
<1> HIDE DEF sold, lost
<1> QED BY <1>1, <1>3, <1>4, <1>5, <1>10, <1>11, <1>13, <1>14 DEF InventoryDone

\* What settle() does to the predictions.
PredictionsDone(s, P) ==
  /\ P.kept \subseteq s.predictions
  /\ P.scored \in Seq(s.predictions \ P.kept)
  /\ \A i, j \in DOMAIN P.scored : P.scored[i] = P.scored[j] => i = j

LEMMA PredictionsSettled ==
  ASSUME NEW s, MemoryTyped(s), NEW sample
  PROVE  PredictionsDone(s, SettlePredictions(s, sample))
<1> DEFINE due == {id \in s.predictions : Due(id[2])}
           scored == {id \in due : sample[id[2]] # "none"}
           dropped == {id \in due \ scored : TooOld(id[2])}
           P == SettlePredictions(s, sample)
<1> SUFFICES PredictionsDone(s, P)
  OBVIOUS
<1>1. P.kept = s.predictions \ (scored \cup dropped) /\ P.scored = SetToSeq(scored)
  BY DEF SettlePredictions
<1>2. scored \subseteq s.predictions
  OBVIOUS
<1>3. IsFiniteSet(scored)
  <2>1. IsFiniteSet({"directional"}) /\ IsFiniteSet({"directional"} \cup {"lottery"})
    BY FS_Singleton, FS_AddElement
  <2>2. Probability = {"directional"} \cup {"lottery"}
    BY DEF Probability
  <2>3. IsFiniteSet(Probability \X Markets)
    BY <2>1, <2>2, WorldAssumption, FS_Product
  <2>4. scored \in SUBSET (Probability \X Markets)
    BY <1>2 DEF MemoryTyped
  <2> HIDE DEF scored
  <2> QED BY <2>3, <2>4, FS_Subset
<1> HIDE DEF P, scored, dropped
<1>4. /\ P.scored \in Seq(scored)
      /\ \A i, j \in DOMAIN P.scored : P.scored[i] = P.scored[j] => i = j
  BY <1>1, <1>3, SetToSeqSays
<1>5. scored \subseteq s.predictions \ P.kept
  BY <1>1, <1>2
<1>6. P.scored \in Seq(s.predictions \ P.kept)
  BY <1>4, <1>5
<1> QED BY <1>1, <1>4, <1>6 DEF PredictionsDone

LEMMA ConcatenatedTwice ==
  ASSUME NEW S, NEW a \in Seq(S), NEW b \in Seq(S), NEW c \in Seq(S)
  PROVE  a \o b \o c = a \o (b \o c)
OBVIOUS

\* What the three parts of settle() make of the memory together.
Settled(s, r, P, I, Q) ==
  /\ Same(s, r.s, {"positions", "inventory", "predictions", "scored", "completed", "orphaned"})
  /\ r.s.positions = P.kept /\ r.s.inventory = I.kept /\ r.s.predictions = Q.kept
  /\ r.s.completed = s.completed \o (P.trades \o I.trades)
  /\ r.s.scored = s.scored \o Q.scored
  /\ r.s.orphaned = s.orphaned \cup P.orphaned \cup I.orphaned
  /\ r.log = P.log \o I.log
  /\ ~r.durable => ~P.durable /\ ~I.durable

LEMMA SettlementSays ==
  ASSUME NEW s, MemoryTyped(s), NEW sample, NEW order \in Orders(s, sample), now \in Nat
  PROVE  \E P, I, Q : /\ PositionsDone(s, order, P) /\ InventoryDone(s, I)
                      /\ PredictionsDone(s, Q)
                      /\ Settled(s, Settlement(s, sample, order), P, I, Q)
<1> DEFINE P == SettlePositions(s, sample, order)
           I == SettleInventory(s, sample)
           Q == SettlePredictions(s, sample)
           r == Settlement(s, sample, order)
<1>1. PositionsDone(s, order, P) /\ InventoryDone(s, I) /\ PredictionsDone(s, Q)
  BY PositionsSettled, InventorySettled, PredictionsSettled
<1>2. /\ r.s = [s EXCEPT
                  !.positions = P.kept, !.inventory = I.kept,
                  !.predictions = Q.kept, !.scored = @ \o Q.scored,
                  !.completed = @ \o P.trades \o I.trades,
                  !.orphaned = @ \cup P.orphaned \cup I.orphaned]
      /\ r.log = P.log \o I.log /\ r.durable = (P.durable \/ I.durable \/ Q.durable)
  BY DEF Settlement
<1> HIDE DEF P, I, Q, r
<1>3. /\ Same(s, r.s, {"positions", "inventory", "predictions", "scored", "completed", "orphaned"})
      /\ r.s.positions = P.kept /\ r.s.inventory = I.kept /\ r.s.predictions = Q.kept
      /\ r.s.completed = s.completed \o P.trades \o I.trades
      /\ r.s.scored = s.scored \o Q.scored
      /\ r.s.orphaned = s.orphaned \cup P.orphaned \cup I.orphaned
  BY <1>2 DEF MemoryTyped, Same, Shape, Fields
<1>4. s.completed \o P.trades \o I.trades = s.completed \o (P.trades \o I.trades)
  <2>1. s.completed \in Seq(Trades) /\ P.trades \in Seq(Trades) /\ I.trades \in Seq(Trades)
    BY <1>1 DEF MemoryTyped, PositionsDone, InventoryDone
  <2> DEFINE a == s.completed  b == P.trades  c == I.trades
  <2>2. a \in Seq(Trades) /\ b \in Seq(Trades) /\ c \in Seq(Trades)
    BY <2>1
  <2> HIDE DEF a, b, c
  <2>3. a \o b \o c = a \o (b \o c)
    BY <2>2, ConcatenatedTwice
  <2> QED BY <2>3 DEF a, b, c
<1>5. Settled(s, r, P, I, Q)
  BY <1>2, <1>3, <1>4 DEF Settled
<1> QED BY <1>1, <1>5 DEF r

LEMMA SettlementKeeps ==
  ASSUME NEW s, MemoryTyped(s), ScoredApart(s), now \in Nat,
         NEW sample, NEW order \in Orders(s, sample)
  PROVE  LET r == Settlement(s, sample, order)
         IN  /\ MemoryTyped(r.s) /\ ScoredApart(r.s) /\ r.log \in Seq(Records)
             /\ Counts(s, r.s, r.log)
             /\ ~r.durable => r.s.completed = s.completed /\ r.s.orphaned = s.orphaned
<1> DEFINE r == Settlement(s, sample, order)
<1>1. PICK P, I, Q : /\ PositionsDone(s, order, P) /\ InventoryDone(s, I)
                     /\ PredictionsDone(s, Q) /\ Settled(s, r, P, I, Q)
  BY SettlementSays
<1> SUFFICES /\ MemoryTyped(r.s) /\ ScoredApart(r.s) /\ r.log \in Seq(Records)
             /\ Counts(s, r.s, r.log)
             /\ ~r.durable => r.s.completed = s.completed /\ r.s.orphaned = s.orphaned
  OBVIOUS
<1> HIDE DEF r
<1> DEFINE T == P.trades \o I.trades  g == P.log \o I.log
<1>2. /\ s.completed \in Seq(Trades) /\ P.trades \in Seq(Trades) /\ I.trades \in Seq(Trades)
      /\ P.log \in Seq(Records) /\ I.log \in Seq(Records)
  BY <1>1 DEF MemoryTyped, PositionsDone, InventoryDone
<1>3. T \in Seq(Trades) /\ g \in Seq(Records) /\ s.completed \o T \in Seq(Trades)
  BY <1>2
<1>4. \A i \in DOMAIN g : g[i].kind = "complete" => \E j \in DOMAIN T : T[j] = g[i].trade
  <2> SUFFICES ASSUME NEW i \in DOMAIN g, g[i].kind = "complete"
               PROVE  \E j \in DOMAIN T : T[j] = g[i].trade
    OBVIOUS
  <2>1. \/ i \in DOMAIN P.log /\ g[i] = P.log[i]
        \/ i - Len(P.log) \in DOMAIN I.log /\ g[i] = I.log[i - Len(P.log)]
    <3> DEFINE a == P.log  b == I.log
    <3>1. a \in Seq(Records) /\ b \in Seq(Records) /\ i \in DOMAIN (a \o b) /\ g[i] = (a \o b)[i]
      BY <1>2
    <3> HIDE DEF a, b, g
    <3>2. \/ i \in DOMAIN a /\ g[i] = a[i]
          \/ i - Len(a) \in DOMAIN b /\ g[i] = b[i - Len(a)]
      BY <3>1, Concatenated
    <3> QED BY <3>2 DEF a, b
  <2>2. CASE i \in DOMAIN P.log /\ g[i] = P.log[i]
    <3>1. PICK j \in DOMAIN P.trades : P.trades[j] = g[i].trade
      BY <1>1, <2>2 DEF PositionsDone
    <3>2. j \in DOMAIN T /\ T[j] = P.trades[j]
      <4> DEFINE a == P.trades  b == I.trades
      <4>1. a \in Seq(Trades) /\ b \in Seq(Trades) /\ j \in DOMAIN a
        BY <1>2, <3>1
      <4> HIDE DEF a, b
      <4>2. j \in DOMAIN (a \o b) /\ (a \o b)[j] = a[j]
        BY <4>1, Concatenated
      <4> QED BY <4>2 DEF a, b
    <3> QED BY <3>1, <3>2
  <2>3. CASE i - Len(P.log) \in DOMAIN I.log /\ g[i] = I.log[i - Len(P.log)]
    <3>1. PICK j \in DOMAIN I.trades : I.trades[j] = g[i].trade
      BY <1>1, <2>3 DEF InventoryDone
    <3>2. j + Len(P.trades) \in DOMAIN T /\ T[j + Len(P.trades)] = I.trades[j]
      <4> DEFINE a == P.trades  b == I.trades
      <4>1. a \in Seq(Trades) /\ b \in Seq(Trades) /\ j \in DOMAIN b
        BY <1>2, <3>1
      <4> HIDE DEF a, b
      <4>2. j + Len(a) \in DOMAIN (a \o b) /\ (a \o b)[j + Len(a)] = b[j]
        BY <4>1, Concatenated
      <4> QED BY <4>2 DEF a, b
    <3> QED BY <3>1, <3>2
  <2> QED BY <2>1, <2>2, <2>3
<1>5. r.s.completed = s.completed \o T /\ r.log = g
  BY <1>1 DEF Settled
<1>6. ~r.durable => r.s.completed = s.completed /\ r.s.orphaned = s.orphaned
  <2> SUFFICES ASSUME ~r.durable
               PROVE  r.s.completed = s.completed /\ r.s.orphaned = s.orphaned
    OBVIOUS
  <2>1. P.trades = <<>> /\ I.trades = <<>> /\ P.orphaned = {} /\ I.orphaned = {}
    BY <1>1 DEF Settled, PositionsDone, InventoryDone
  <2>2. s.completed \o T = s.completed
    BY <1>2, <2>1
  <2> QED BY <1>1, <1>5, <2>1, <2>2 DEF Settled
<1> HIDE DEF T, g
<1>7. Counts(s, r.s, r.log) /\ r.s.completed \in Seq(Trades)
  BY <1>3, <1>4, <1>5 DEF Counts
<1>8. /\ DOMAIN r.s.positions \subseteq Keys
      /\ \A k \in DOMAIN r.s.positions : r.s.positions[k] \in Position
                                         /\ r.s.positions[k].event \in emitted
  BY <1>1 DEF Settled, PositionsDone, MemoryTyped
<1>9. DOMAIN r.s.inventory \subseteq Markets /\ \A m \in DOMAIN r.s.inventory : r.s.inventory[m] \in Stock
  BY <1>1 DEF Settled, InventoryDone, MemoryTyped
<1>10. r.s.orphaned \subseteq emitted \cup Markets
  <2>1. P.orphaned \subseteq emitted
    <3>1. \A k \in DOMAIN s.positions : s.positions[k].event \in emitted
      BY DEF MemoryTyped
    <3>2. P.orphaned \subseteq {s.positions[k].event :
                                 k \in DOMAIN s.positions \ (DOMAIN P.kept \cup ToSet(order))}
      BY <1>1 DEF PositionsDone
    <3> QED BY <3>1, <3>2
  <2>2. I.orphaned \subseteq Markets /\ s.orphaned \subseteq emitted \cup Markets
    BY <1>1 DEF InventoryDone, MemoryTyped
  <2> QED BY <1>1, <2>1, <2>2 DEF Settled
<1>11. s.scored \in Seq(Probability \X Markets) /\ s.predictions \subseteq Probability \X Markets
  BY DEF MemoryTyped
<1>12. Q.scored \in Seq(s.predictions \ Q.kept) /\ Q.kept \subseteq s.predictions
  BY <1>1 DEF PredictionsDone
<1>13. Q.scored \in Seq(Probability \X Markets) /\ r.s.scored \in Seq(Probability \X Markets)
       /\ r.s.predictions \subseteq Probability \X Markets
  <2>1. Q.scored \in Seq(Probability \X Markets)
    BY <1>11, <1>12
  <2> QED BY <1>1, <1>11, <1>12, <2>1 DEF Settled
<1>14. MemoryTyped(r.s)
  BY <1>1, <1>7, <1>8, <1>9, <1>10, <1>13 DEF Settled, Same, Fields, MemoryTyped
<1>15. ScoredApart(r.s)
  <2> DEFINE a == s.scored  b == Q.scored  c == r.s.scored
  <2>1. /\ \A i, j \in DOMAIN a : a[i] = a[j] => i = j
        /\ \A i, j \in DOMAIN b : b[i] = b[j] => i = j
        /\ \A i \in DOMAIN a : a[i] \notin s.predictions
    BY <1>1 DEF ScoredApart, PredictionsDone
  <2>2. \A i \in DOMAIN b : b[i] \in s.predictions /\ b[i] \notin r.s.predictions
    BY <1>1, <1>12 DEF Settled
  <2>3. c = a \o b /\ r.s.predictions \subseteq s.predictions
    BY <1>1, <1>12 DEF Settled
  <2>4. a \in Seq(Probability \X Markets) /\ b \in Seq(Probability \X Markets)
    BY <1>11, <1>13
  <2> HIDE DEF a, b, c
  <2>5. \A i \in DOMAIN c : \/ i \in DOMAIN a /\ c[i] = a[i]
                            \/ i - Len(a) \in DOMAIN b /\ c[i] = b[i - Len(a)] /\ i > Len(a)
    BY <2>3, <2>4, Concatenated
  <2>6. DOMAIN a = 1..Len(a) /\ Len(a) \in Nat /\ DOMAIN c \subseteq Nat
    BY <2>3, <2>4
  <2>7. \A i, j \in DOMAIN c : c[i] = c[j] => i = j
    <3> SUFFICES ASSUME NEW i \in DOMAIN c, NEW j \in DOMAIN c, c[i] = c[j]
                 PROVE  i = j
      OBVIOUS
    <3>1. CASE i \in DOMAIN a /\ c[i] = a[i] /\ j \in DOMAIN a /\ c[j] = a[j]
      BY <2>1, <3>1
    <3>2. CASE i - Len(a) \in DOMAIN b /\ c[i] = b[i - Len(a)]
               /\ j - Len(a) \in DOMAIN b /\ c[j] = b[j - Len(a)]
      <4>1. i - Len(a) = j - Len(a) BY <2>1, <3>2
      <4> QED BY <4>1, <2>6
    <3>3. CASE i \in DOMAIN a /\ c[i] = a[i] /\ j - Len(a) \in DOMAIN b /\ c[j] = b[j - Len(a)]
      BY <2>1, <2>2, <3>3
    <3>4. CASE j \in DOMAIN a /\ c[j] = a[j] /\ i - Len(a) \in DOMAIN b /\ c[i] = b[i - Len(a)]
      BY <2>1, <2>2, <3>4
    <3> QED BY <2>5, <3>1, <3>2, <3>3, <3>4
  <2>8. \A i \in DOMAIN c : c[i] \notin r.s.predictions
    BY <2>1, <2>2, <2>3, <2>5
  <2> QED BY <2>7, <2>8 DEF ScoredApart, c
<1> QED BY <1>3, <1>5, <1>6, <1>7, <1>14, <1>15

\* Every trade of the log's first n records is in a list.
Knows(known, n) ==
  \A i \in 1..n : log[i].kind = "complete" =>
    \E j \in DOMAIN known : SameTrade(known[j], log[i].trade)

\* A record that is read back adds its trade, unless the list has it.
Added(known, r) ==
  IF r.kind # "complete" \/ \E i \in DOMAIN known : SameTrade(known[i], r.trade)
  THEN known ELSE Append(known, r.trade)

\* The log is read back record by record.
LEMMA BackfillSteps ==
  ASSUME NEW s, log \in Seq(Records)
  PROVE  \E after : /\ after[0] = s.completed
                    /\ \A n \in 1..Len(log) : after[n] = Added(after[n - 1], log[n])
                    /\ Backfill(s) = [s EXCEPT !.completed = after[Len(log)]]
<1> DEFINE next(known, r) ==
             IF r.kind # "complete" \/ \E i \in DOMAIN known : SameTrade(known[i], r.trade)
             THEN known ELSE Append(known, r.trade)
           N == Len(log)
           F(f, m) == f = [n \in 0..m |-> IF n = 0 THEN s.completed ELSE next(f[n - 1], log[n])]
           after == CHOOSE f : F(f, N)
<1>1. N \in Nat
  OBVIOUS
<1>2. \E f : F(f, N)
  <2> DEFINE G == {m \in Nat : \E f : F(f, m)}
  <2> HIDE DEF next
  <2>1. 0 \in G
    <3>1. F([n \in 0..0 |-> s.completed], 0)
      OBVIOUS
    <3> QED BY <3>1
  <2>2. ASSUME NEW m \in Nat, m \in G PROVE m + 1 \in G
    <3>1. PICK f : F(f, m)
      BY <2>2
    <3> DEFINE g == [n \in 0..(m + 1) |-> IF n <= m THEN f[n] ELSE next(f[m], log[m + 1])]
    <3>2. \A n \in 0..(m + 1) :
            g[n] = IF n = 0 THEN s.completed ELSE next(g[n - 1], log[n])
      <4> SUFFICES ASSUME NEW n \in 0..(m + 1)
                   PROVE  g[n] = IF n = 0 THEN s.completed ELSE next(g[n - 1], log[n])
        OBVIOUS
      <4>1. CASE n = 0
        <5>1. g[n] = f[0] BY <4>1
        <5>2. f[0] = s.completed BY <3>1
        <5> QED BY <4>1, <5>1, <5>2
      <4>2. CASE n # 0 /\ n <= m
        <5>1. g[n] = f[n] /\ g[n - 1] = f[n - 1] /\ n \in 0..m BY <4>2
        <5>2. f[n] = next(f[n - 1], log[n]) BY <3>1, <4>2, <5>1
        <5> HIDE DEF g
        <5> QED BY <4>2, <5>1, <5>2
      <4>3. CASE n = m + 1
        <5>1. g[n] = next(f[m], log[m + 1]) /\ g[n - 1] = f[m] /\ n # 0 BY <4>3
        <5> HIDE DEF g
        <5> QED BY <4>3, <5>1
      <4> QED BY <4>1, <4>2, <4>3
    <3>3. DOMAIN g = 0..(m + 1) /\ g = [n \in 0..(m + 1) |-> g[n]]
      OBVIOUS
    <3> HIDE DEF g
    <3>4. F(g, m + 1)
      BY <3>2, <3>3
    <3> QED BY <3>4
  <2> HIDE DEF G
  <2>3. \A m \in Nat : m \in G
    BY <2>1, <2>2, NatSetInduction
  <2>4. N \in G BY <1>1, <2>3
  <2> QED BY <2>4 DEF G
<1>3. F(after, N)
  BY <1>2
<1>4. Backfill(s) = [s EXCEPT !.completed = after[N]]
  BY DEF Backfill
<1> HIDE DEF after
<1>5. after[0] = s.completed /\ \A n \in 1..N : after[n] = next(after[n - 1], log[n])
  <2> HIDE DEF next
  <2>1. \A n \in 0..N : after[n] = IF n = 0 THEN s.completed ELSE next(after[n - 1], log[n])
    BY <1>3
  <2>2. 0 \in 0..N /\ \A n \in 1..N : n \in 0..N /\ n # 0
    BY <1>1
  <2> QED BY <2>1, <2>2
<1>6. \A known, r : next(known, r) = Added(known, r)
  BY DEF Added
<1> HIDE DEF next
<1> QED BY <1>4, <1>5, <1>6

LEMMA BackfillSays ==
  ASSUME NEW s, MemoryTyped(s), log \in Seq(Records)
  PROVE  LET u == Backfill(s)
         IN  /\ MemoryTyped(u) /\ Same(s, u, {"completed"})
             /\ \A t \in LoggedTrades(log) :
                  \E i \in DOMAIN u.completed : SameTrade(u.completed[i], t)
             /\ log = <<>> => u = s
<1> DEFINE N == Len(log)
           u == Backfill(s)
<1>1. N \in Nat /\ DOMAIN log = 1..N /\ \A i \in 1..N : log[i] \in Records
  OBVIOUS
<1>2. PICK after : /\ after[0] = s.completed
                   /\ \A n \in 1..N : after[n] = Added(after[n - 1], log[n])
                   /\ u = [s EXCEPT !.completed = after[N]]
  BY BackfillSteps
<1> HIDE DEF u
<1>4. u = [s EXCEPT !.completed = after[N]]
  BY <1>2
<1>5. after[0] = s.completed /\ \A n \in 1..N : after[n] = Added(after[n - 1], log[n])
  BY <1>2
<1> DEFINE H == {m \in Nat : m <= N => after[m] \in Seq(Trades) /\ Knows(after[m], m)}
<1>6. \A m \in Nat : m \in H
  <2>1. 0 \in H
    <3>1. Knows(after[0], 0) BY DEF Knows
    <3> QED BY <1>5, <3>1 DEF MemoryTyped
  <2>2. ASSUME NEW m \in Nat, m \in H PROVE m + 1 \in H
    <3> SUFFICES ASSUME m + 1 <= N
                 PROVE  after[m + 1] \in Seq(Trades) /\ Knows(after[m + 1], m + 1)
      OBVIOUS
    <3>1. after[m] \in Seq(Trades) /\ Knows(after[m], m)
      BY <1>1, <2>2
    <3> DEFINE a == after[m]  b == after[m + 1]  r == log[m + 1]
    <3>2. b = Added(a, r) /\ r \in Records
      <4>1. m + 1 \in 1..N /\ (m + 1) - 1 = m BY <1>1
      <4> QED BY <1>1, <1>5, <4>1
    <3>3. a \in Seq(Trades) /\ Knows(a, m) BY <3>1
    <3> HIDE DEF a, b
    <3>4. CASE r.kind # "complete"
      <4>1. b = a BY <3>2, <3>4 DEF Added
      <4> QED BY <3>3, <3>4, <4>1 DEF Knows, b
    <3>5. CASE r.kind = "complete" /\ \E i \in DOMAIN a : SameTrade(a[i], r.trade)
      <4>1. b = a BY <3>2, <3>5 DEF Added
      <4> QED BY <3>3, <3>5, <4>1 DEF Knows, b
    <3>6. CASE r.kind = "complete" /\ ~ \E i \in DOMAIN a : SameTrade(a[i], r.trade)
      <4>1. b = Append(a, r.trade) /\ r.trade \in Trades
        BY <3>2, <3>6 DEF Records, Added
      <4> HIDE DEF r
      <4>2. /\ b \in Seq(Trades) /\ Len(a) + 1 \in DOMAIN b /\ b[Len(a) + 1] = r.trade
            /\ \A j \in DOMAIN a : j \in DOMAIN b /\ b[j] = a[j]
        BY <3>3, <4>1
      <4>3. ASSUME NEW i \in 1..(m + 1), log[i].kind = "complete"
            PROVE  \E j \in DOMAIN b : SameTrade(b[j], log[i].trade)
        <5>1. CASE i \in 1..m
          <6>1. PICK j \in DOMAIN a : SameTrade(a[j], log[i].trade)
            BY <3>3, <4>3, <5>1 DEF Knows
          <6> QED BY <4>2, <6>1
        <5>2. CASE i = m + 1
          BY <4>2, <5>2 DEF SameTrade, r
        <5> QED BY <5>1, <5>2
      <4>4. Knows(b, m + 1) BY <4>3 DEF Knows
      <4> QED BY <4>2, <4>4 DEF b
    <3> QED BY <3>4, <3>5, <3>6
  <2> HIDE DEF H
  <2> QED BY <2>1, <2>2, NatSetInduction
<1>7. after[N] \in Seq(Trades) /\ Knows(after[N], N)
  BY <1>1, <1>6
<1> HIDE DEF H
<1>8. Same(s, u, {"completed"}) /\ u.completed = after[N]
  BY <1>4 DEF MemoryTyped, Same, Shape, Fields
<1>9. MemoryTyped(u)
  BY <1>7, <1>8 DEF MemoryTyped, Same, Fields
<1>10. ASSUME NEW t \in LoggedTrades(log)
       PROVE  \E i \in DOMAIN u.completed : SameTrade(u.completed[i], t)
  <2>1. PICK i \in DOMAIN log : log[i].kind = "complete" /\ log[i].trade = t
    BY DEF LoggedTrades
  <2> QED BY <1>1, <1>7, <1>8, <2>1 DEF Knows
<1>11. log = <<>> => u = s
  <2> SUFFICES ASSUME log = <<>> PROVE u = s
    OBVIOUS
  <2>1. N = 0 OBVIOUS
  <2>2. u = [s EXCEPT !.completed = s.completed]
    BY <1>4, <1>5, <2>1
  <2> QED BY <2>2 DEF MemoryTyped, Shape, Fields
<1> QED BY <1>8, <1>9, <1>10, <1>11 DEF u

LEMMA FreshIs == MemoryTyped(Fresh) /\ ScoredApart(Fresh)
<1>1. DOMAIN <<>> = {} /\ \A S : <<>> \in Seq(S)
  OBVIOUS
<1>2. 0 \in Nat /\ NoFile \in Nat \cup {NoFile}
  OBVIOUS
<1>3. Shape(Fresh)
  BY DEF Fresh, Shape, Fields
<1>4. MemoryTyped(Fresh)
  BY <1>1, <1>2, <1>3 DEF MemoryTyped, Fresh, NoMap
<1> QED BY <1>1, <1>4 DEF ScoredApart, Fresh

LEMMA TradesStayCounted ==
  ASSUME NEW s, s.completed \in Seq(Trades), log \in Seq(Records),
         \A t \in LoggedTrades(log) :
           \E i \in DOMAIN s.completed : SameTrade(s.completed[i], t),
         NEW u, NEW records \in Seq(Records), Counts(s, u, records)
  PROVE  \A t \in LoggedTrades(log \o records) :
           \E i \in DOMAIN u.completed : SameTrade(u.completed[i], t)
<1> SUFFICES ASSUME NEW t \in LoggedTrades(log \o records)
             PROVE  \E i \in DOMAIN u.completed : SameTrade(u.completed[i], t)
  OBVIOUS
<1> DEFINE l == log \o records  c == s.completed
<1>1. PICK i \in DOMAIN l : l[i].kind = "complete" /\ l[i].trade = t
  BY DEF LoggedTrades
<1>2. PICK T \in Seq(Trades) :
        /\ u.completed = c \o T
        /\ \A k \in DOMAIN records :
             records[k].kind = "complete" => \E j \in DOMAIN T : T[j] = records[k].trade
  BY DEF Counts
<1>3. c \in Seq(Trades)
  OBVIOUS
<1>4. \/ i \in DOMAIN log /\ l[i] = log[i]
      \/ i - Len(log) \in DOMAIN records /\ l[i] = records[i - Len(log)]
  BY <1>1, Concatenated
<1> HIDE DEF l, c
<1>5. CASE i \in DOMAIN log /\ l[i] = log[i]
  <2>1. t \in LoggedTrades(log)
    BY <1>1, <1>5 DEF LoggedTrades
  <2>2. PICK j \in DOMAIN c : SameTrade(c[j], t)
    BY <2>1 DEF c
  <2>3. j \in DOMAIN (c \o T) /\ (c \o T)[j] = c[j]
    BY <1>3, <2>2, Concatenated
  <2> QED BY <1>2, <2>2, <2>3
<1>6. CASE i - Len(log) \in DOMAIN records /\ l[i] = records[i - Len(log)]
  <2>1. PICK j \in DOMAIN T : T[j] = t
    BY <1>1, <1>2, <1>6
  <2>2. j + Len(c) \in DOMAIN (c \o T) /\ (c \o T)[j + Len(c)] = T[j]
    BY <1>3, <2>1, Concatenated
  <2>3. SameTrade(t, t) BY DEF SameTrade
  <2> QED BY <1>2, <2>1, <2>2, <2>3
<1> QED BY <1>4, <1>5, <1>6

Files == [inode : Nat, lines : Seq(Line), torn : BOOLEAN]

LEMMA EmptyFileIs ==
  ASSUME NEW n \in Nat
  PROVE  /\ EmptyFile(n) \in Files /\ EmptyFile(n).lines = <<>> /\ EmptyFile(n).inode = n
         /\ EmptyFile(n).torn = FALSE /\ DOMAIN EmptyFile(n).lines = {}
         /\ Len(EmptyFile(n).lines) = 0
<1>1. <<>> \in Seq(Line) /\ DOMAIN <<>> = {} /\ Len(<<>>) = 0
  OBVIOUS
<1> DEFINE e == <<>>
<1> HIDE DEF e
<1>2. e \in Seq(Line) /\ DOMAIN e = {} /\ Len(e) = 0
  BY <1>1 DEF e
<1>3. EmptyFile(n) = [inode |-> n, lines |-> e, torn |-> FALSE]
  BY DEF EmptyFile, e
<1> QED BY <1>2, <1>3 DEF Files, e

LEMMA AppendedIs ==
  ASSUME NEW f \in Files, NEW line \in Line, ~f.torn,
         NEW g \in {AppendLine(f, line), AppendHalf(f, line)}
  PROVE  /\ g \in Files /\ g.lines = Append(f.lines, line) /\ g.inode = f.inode
         /\ g = AppendLine(f, line) => ~g.torn
         /\ Len(g.lines) = Len(f.lines) + 1 /\ DOMAIN g.lines = 1..(Len(f.lines) + 1)
         /\ Len(f.lines) \in Nat /\ DOMAIN f.lines = 1..Len(f.lines)
         /\ g.lines[Len(f.lines) + 1] = line
         /\ \A i \in DOMAIN f.lines : i \in DOMAIN g.lines /\ g.lines[i] = f.lines[i]
         /\ Size(f) = 2 * Len(f.lines) /\ Size(f) <= Size(g)
<1> DEFINE q == f.lines  a == Append(q, line)
<1>1. /\ q \in Seq(Line) /\ a \in Seq(Line) /\ Len(q) \in Nat /\ DOMAIN q = 1..Len(q)
      /\ Len(a) = Len(q) + 1 /\ DOMAIN a = 1..(Len(q) + 1) /\ a[Len(q) + 1] = line
      /\ \A i \in DOMAIN q : i \in DOMAIN a /\ a[i] = q[i]
  <2>1. q \in Seq(Line) BY DEF Files
  <2> HIDE DEF q
  <2> QED BY <2>1
<1>2. /\ AppendLine(f, line) = [f EXCEPT !.lines = a]
      /\ AppendHalf(f, line) = [f EXCEPT !.lines = a, !.torn = TRUE]
  BY DEF AppendLine, AppendHalf
<1> HIDE DEF a
<1>3. /\ g \in Files /\ g.lines = a /\ g.inode = f.inode
      /\ g = AppendLine(f, line) => ~g.torn
  BY <1>1, <1>2 DEF Files
<1>4. Size(f) = 2 * Len(q)
  BY <1>1 DEF Size
<1>5. Size(g) \in {2 * (Len(q) + 1), 2 * (Len(q) + 1) - 1}
  <2> DEFINE n == Len(g.lines)  k == Len(q)
  <2>1. n = k + 1 /\ k \in Nat
    BY <1>1, <1>3
  <2>2. Size(g) = 2 * n - (IF g.torn THEN 1 ELSE 0)
    BY DEF Size
  <2> HIDE DEF n, k
  <2>3. Size(g) \in {2 * (k + 1), 2 * (k + 1) - 1}
    BY <2>1, <2>2
  <2> QED BY <2>3 DEF k
<1> QED BY <1>1, <1>3, <1>4, <1>5 DEF a

LEMMA InitCore == Init => Core
<1> SUFFICES ASSUME Init PROVE Core
  OBVIOUS
<1> USE DEF Init
<1>1. FileOK
  <2>1. audit = EmptyFile(1) /\ 1 \in Nat
    OBVIOUS
  <2> QED BY <2>1, EmptyFileIs DEF FileOK, Files
<1>2. Typed
  <2>1. <<>> \in Seq(Records)
    OBVIOUS
  <2>2. crashes \in 0..MaxCrashes
    BY WorldAssumption
  <2> QED BY <1>1, <2>1, <2>2, FreshIs DEF Typed
<1> QED BY <1>2, FreshIs DEF Core, Reading, LoggedTradesCounted, CheckpointKeepsUp, Running

\* What may happen to the audit file.
LEMMA FileKept ==
  ASSUME Typed, Environment
  PROVE  /\ FileOK' /\ now' \in Nat /\ emitted \subseteq emitted' /\ emitted' \subseteq Ids
         /\ torns' \in Nat /\ torns <= torns'
         /\ pc = "read" =>
              /\ audit'.inode = audit.inode /\ Size(audit) <= Size(audit')
<1> USE DEF Typed
<1>0. /\ audit \in [inode : Nat, lines : Seq(Line), torn : BOOLEAN]
      /\ audit.torn => Len(audit.lines) > 0
      /\ \A i \in DOMAIN audit.lines : audit.lines[i].id \in emitted
      /\ \A i, j \in DOMAIN audit.lines : audit.lines[i].id = audit.lines[j].id => i = j
  BY DEF FileOK
<1> DEFINE q == audit.lines
<1>z. q \in Seq(Line) /\ DOMAIN q = 1..Len(q) /\ Len(q) \in Nat
  BY <1>0
<1>1. CASE Tick
  BY <1>0, <1>1, <1>z DEF Tick, FileOK, Size
<1>2. CASE Emit
  <2>1. PICK row \in Rows :
          /\ ~audit.torn /\ row.id \notin emitted /\ emitted' = emitted \cup {row.id}
          /\ now' = now
          /\ \/ audit' = AppendLine(audit, [row EXCEPT !.ts = now]) /\ UNCHANGED torns
             \/ audit' = AppendHalf(audit, [row EXCEPT !.ts = now]) /\ torns' = torns + 1
    BY <1>2 DEF Emit
  <2> DEFINE line == [row EXCEPT !.ts = now]
  <2>2. line \in Line /\ line.id = row.id /\ row.id \in Ids
    BY <2>1, RowsAssumption DEF AuditRow, Line, Ids
  <2> HIDE DEF line
  <2>3. audit \in Files /\ audit' \in {AppendLine(audit, line), AppendHalf(audit, line)}
    BY <1>0, <2>1 DEF line, Files
  <2>4. /\ audit' \in Files /\ audit'.inode = audit.inode
        /\ DOMAIN audit'.lines = 1..(Len(q) + 1) /\ Len(audit'.lines) = Len(q) + 1
        /\ audit'.lines[Len(q) + 1] = line
        /\ \A i \in DOMAIN q : audit'.lines[i] = q[i]
        /\ Size(audit) <= Size(audit')
    <3> DEFINE g == audit'
    <3>1. g \in {AppendLine(audit, line), AppendHalf(audit, line)} BY <2>3
    <3> HIDE DEF g
    <3>2. /\ g \in Files /\ g.inode = audit.inode
          /\ DOMAIN g.lines = 1..(Len(q) + 1) /\ Len(g.lines) = Len(q) + 1
          /\ g.lines[Len(q) + 1] = line
          /\ \A i \in DOMAIN q : g.lines[i] = q[i]
          /\ Size(audit) <= Size(g)
      BY <2>1, <2>2, <2>3, <3>1, AppendedIs
    <3> QED BY <3>2 DEF g
  <2>5. \A i \in DOMAIN audit'.lines : audit'.lines[i].id \in emitted'
    BY <1>0, <1>z, <2>1, <2>2, <2>4
  <2>6. \A i, j \in DOMAIN audit'.lines : audit'.lines[i].id = audit'.lines[j].id => i = j
    <3> SUFFICES ASSUME NEW i \in 1..(Len(q) + 1), NEW j \in 1..(Len(q) + 1),
                        audit'.lines[i].id = audit'.lines[j].id
                 PROVE  i = j
      BY <2>4
    <3>1. \A k \in 1..(Len(q) + 1) : k \in DOMAIN q \/ k = Len(q) + 1
      BY <1>z
    <3>2. \A k \in DOMAIN q : audit'.lines[k].id # row.id
      BY <1>0, <2>1, <2>4
    <3> HIDE DEF q
    <3>3. audit'.lines[Len(q) + 1].id = row.id
      BY <2>2, <2>4
    <3>4. CASE i \in DOMAIN q /\ j \in DOMAIN q
      BY <1>0, <2>4, <3>4 DEF q
    <3> QED BY <3>1, <3>2, <3>3, <3>4
  <2>7. FileOK'
    BY <1>z, <2>4, <2>5, <2>6 DEF FileOK, Files
  <2> QED BY <2>1, <2>2, <2>4, <2>7
<1>3. CASE Flush
  <2>1. audit.torn /\ audit' = [audit EXCEPT !.torn = FALSE]
        /\ UNCHANGED <<now, emitted, rotations, torns>>
    BY <1>3 DEF Flush, FinishLine
  <2>2. audit'.lines = audit.lines /\ audit'.inode = audit.inode /\ audit'.torn = FALSE
        /\ audit' \in [inode : Nat, lines : Seq(Line), torn : BOOLEAN]
    BY <1>0, <2>1
  <2>3. FileOK'
    BY <1>0, <2>1, <2>2 DEF FileOK
  <2>4. Size(audit) <= Size(audit')
    BY <1>z, <2>1, <2>2 DEF Size
  <2> QED BY <2>1, <2>2, <2>3, <2>4
<1>4. CASE Rotate
  <2>1. /\ audit' \in {EmptyFile(audit.inode), EmptyFile(audit.inode + 1)} /\ pc # "read"
        /\ UNCHANGED <<now, emitted, torns>>
    BY <1>4 DEF Rotate, Truncated, Replaced
  <2>2. audit.inode \in Nat /\ audit.inode + 1 \in Nat
    BY <1>0
  <2>3. FileOK'
    BY <2>1, <2>2, EmptyFileIs DEF FileOK, Files
  <2> QED BY <2>1, <2>3
<1> QED BY <1>1, <1>2, <1>3, <1>4 DEF Environment

LEMMA CheckpointKeeps ==
  ASSUME NEW s, NEW d \in BOOLEAN, NEW kind \in {"none", "timer", "forced"},
         Checkpoint(s, d, kind), ~d => s = disk,
         kind # "forced" => s.completed = disk.completed /\ s.orphaned = disk.orphaned
  PROVE  /\ mem' = s /\ disk' \in {s, disk} /\ dirty' \in BOOLEAN
         /\ ~dirty' => mem' = disk'
         /\ mem'.completed = disk'.completed /\ mem'.orphaned = disk'.orphaned
BY DEF Checkpoint

\* A step of the process that leaves the file and the clock alone.
LEMMA ProcessCore ==
  ASSUME Core, UNCHANGED environment,
         pc' \in {"down", "poll", "read", "settle"}, dirty' \in BOOLEAN, counted' \in BOOLEAN,
         listed' \subseteq Markets, cursor' \in Nat, crashes' \in 0..MaxCrashes,
         MemoryTyped(mem'), MemoryTyped(disk'), ScoredApart(mem'), ScoredApart(disk'),
         log' \in Seq(Records),
         pc' # "down" =>
           /\ \A t \in LoggedTrades(log') :
                \E i \in DOMAIN mem'.completed : SameTrade(mem'.completed[i], t)
           /\ ~dirty' => mem' = disk'
           /\ mem'.completed = disk'.completed /\ mem'.orphaned = disk'.orphaned,
         pc' = "read" =>
           mem'.inode = audit.inode /\ mem'.offset <= cursor' /\ cursor' <= Size(audit)
  PROVE  Core'
<1>1. /\ audit' = audit /\ emitted' = emitted /\ now' = now /\ torns' = torns
  BY DEF environment
<1>2. FileOK' BY <1>1 DEF Core, Typed, FileOK
<1>3. MemoryTyped(mem)' /\ MemoryTyped(disk)'
  BY <1>1 DEF MemoryTyped
<1>4. Typed' BY <1>1, <1>2, <1>3 DEF Core, Typed
<1>5. Reading' BY <1>1 DEF Reading
<1>6. LoggedTradesCounted' /\ CheckpointKeepsUp'
  BY DEF LoggedTradesCounted, CheckpointKeepsUp, Running
<1>7. ScoredApart(mem)' /\ ScoredApart(disk)'
  BY DEF ScoredApart
<1> QED BY <1>4, <1>5, <1>6, <1>7 DEF Core

LEMMA EnvironmentCore ==
  ASSUME Core, Environment
  PROVE  Core'
<1>1. /\ UNCHANGED <<pc, listed, mem, dirty, disk, log, cursor, counted, crashes>>
  BY DEF Environment
<1>2. /\ FileOK' /\ now' \in Nat /\ emitted \subseteq emitted' /\ emitted' \subseteq Ids
      /\ torns' \in Nat
      /\ pc = "read" => audit'.inode = audit.inode /\ Size(audit) <= Size(audit')
  BY FileKept DEF Core
<1>3. MemoryTyped(mem)' /\ MemoryTyped(disk)'
  BY <1>1, <1>2 DEF MemoryTyped, Core, Typed, Shape
<1>4. Typed' BY <1>1, <1>2, <1>3 DEF Core, Typed
<1>5. Reading'
  <2>1. /\ \A f \in Files : Size(f) \in Int
        /\ audit \in Files /\ audit' \in Files
    <3>1. audit \in Files /\ audit' \in Files BY <1>2 DEF Core, Typed, FileOK, Files
    <3>2. ASSUME NEW f \in Files PROVE Size(f) \in Int
      <4>1. f.lines \in Seq(Line) BY DEF Files
      <4>2. Len(f.lines) \in Nat BY <4>1
      <4> QED BY <4>2 DEF Size
    <3> QED BY <3>1, <3>2
  <2>2. cursor \in Nat BY DEF Core, Typed
  <2> QED BY <1>1, <1>2, <2>1, <2>2 DEF Core, Reading
<1>6. LoggedTradesCounted' /\ CheckpointKeepsUp'
  BY <1>1 DEF Core, LoggedTradesCounted, CheckpointKeepsUp, Running
<1>7. ScoredApart(mem)' /\ ScoredApart(disk)'
  BY <1>1 DEF Core, ScoredApart
<1> QED BY <1>4, <1>5, <1>6, <1>7 DEF Core

LEMMA DownCore ==
  ASSUME Core, UNCHANGED environment, Down, crashes < MaxCrashes, disk' \in {disk, mem},
         log' \in Seq(Records)
  PROVE  Core'
<1>1. /\ pc' = "down" /\ mem' = Fresh /\ dirty' = FALSE /\ cursor' = 0 /\ counted' = FALSE
      /\ listed' = {} /\ crashes' = crashes + 1
  BY DEF Down
<1>2. crashes' \in 0..MaxCrashes
  BY <1>1, WorldAssumption DEF Core, Typed
<1>3. MemoryTyped(disk') /\ ScoredApart(disk') /\ MemoryTyped(mem') /\ ScoredApart(mem')
  BY <1>1, FreshIs DEF Core, Typed
<1> QED BY <1>1, <1>2, <1>3, ProcessCore

LEMMA RestartCore ==
  ASSUME Core, Restart
  PROVE  Core'
<1>1. /\ pc' = "poll" /\ mem' = Backfill(disk) /\ disk' = mem' /\ dirty' = FALSE
      /\ UNCHANGED <<listed, log, cursor, counted, crashes>> /\ UNCHANGED environment
  BY DEF Restart
<1>2. /\ MemoryTyped(disk) /\ log \in Seq(Records) /\ ScoredApart(disk)
  BY DEF Core, Typed
<1>3. /\ MemoryTyped(mem') /\ Same(disk, mem', {"completed"})
      /\ \A t \in LoggedTrades(log) :
           \E i \in DOMAIN mem'.completed : SameTrade(mem'.completed[i], t)
  BY <1>1, <1>2, BackfillSays
<1>4. ScoredApart(mem')
  BY <1>2, <1>3 DEF ScoredApart, Same, Fields
<1> QED BY <1>1, <1>3, <1>4, ProcessCore DEF Core, Typed

LEMMA SizeIs ==
  ASSUME NEW f \in Files
  PROVE  /\ Size(f) \in Int /\ Len(f.lines) \in Nat /\ DOMAIN f.lines = 1..Len(f.lines)
         /\ ~f.torn => Size(f) = 2 * Len(f.lines)
         /\ Size(f) <= 2 * Len(f.lines)
<1>1. f.lines \in Seq(Line) BY DEF Files
<1>2. Len(f.lines) \in Nat /\ DOMAIN f.lines = 1..Len(f.lines) BY <1>1
<1> DEFINE n == Len(f.lines)
<1>3. Size(f) = 2 * n - (IF f.torn THEN 1 ELSE 0) BY DEF Size
<1>4. n \in Nat /\ DOMAIN f.lines = 1..n BY <1>2
<1> HIDE DEF n
<1>5. Size(f) \in Int /\ (~f.torn => Size(f) = 2 * n) /\ Size(f) <= 2 * n
  BY <1>3, <1>4
<1> QED BY <1>4, <1>5 DEF n

LEMMA OpenCore ==
  ASSUME Core, OpenAudit
  PROVE  Core' /\ Same(mem, mem', {"offset", "inode"})
         /\ cursor' = Start(audit, mem) /\ cursor' = Start(audit, mem')
         /\ mem'.offset \in {0, mem.offset}
<1>1. /\ pc' = "read" /\ listed' \in Listings
      /\ cursor' = StartAt(audit, mem.offset, mem.inode)
      /\ mem' = [mem EXCEPT !.offset = IF cursor' = 0 THEN 0 ELSE @, !.inode = audit.inode]
      /\ dirty' = (dirty \/ mem' # mem) /\ counted' = FALSE
      /\ UNCHANGED <<disk, log, crashes>> /\ UNCHANGED environment
  BY DEF OpenAudit
<1>2. /\ MemoryTyped(mem) /\ audit.inode \in Nat /\ audit \in Files
      /\ ScoredApart(mem) /\ dirty \in BOOLEAN
  BY DEF Core, Typed, FileOK, Files
<1>3. /\ Same(mem, mem', {"offset", "inode"}) /\ mem'.inode = audit.inode
      /\ mem'.offset = IF cursor' = 0 THEN 0 ELSE mem.offset
  BY <1>1, <1>2 DEF MemoryTyped, Same, Shape, Fields
<1>4. mem.offset \in Nat /\ Size(audit) \in Int /\ Size(audit) >= 0
  <2>1. audit.torn => Len(audit.lines) > 0 BY DEF Core, Typed, FileOK
  <2>2. Len(audit.lines) \in Nat /\ Size(audit) \in Int BY <1>2, SizeIs
  <2>3. Size(audit) >= 0 BY <2>1, <2>2 DEF Size
  <2> QED BY <1>2, <2>2, <2>3 DEF MemoryTyped
<1>5. /\ cursor' \in Nat /\ mem'.offset \in Nat
      /\ mem'.offset <= cursor' /\ cursor' <= Size(audit)
  BY <1>1, <1>3, <1>4 DEF StartAt
<1>6. MemoryTyped(mem')
  BY <1>2, <1>3, <1>5 DEF MemoryTyped, Same, Fields
<1>7. ScoredApart(mem')
  BY <1>2, <1>3 DEF ScoredApart, Same, Fields
<1>8. /\ \A t \in LoggedTrades(log') :
           \E i \in DOMAIN mem'.completed : SameTrade(mem'.completed[i], t)
      /\ ~dirty' => mem' = disk'
      /\ mem'.completed = disk'.completed /\ mem'.orphaned = disk'.orphaned
  <2>1. Running BY DEF OpenAudit, Running
  <2>2. mem'.completed = mem.completed /\ mem'.orphaned = mem.orphaned
    BY <1>3 DEF Same, Fields
  <2> QED BY <1>1, <2>1, <2>2 DEF Core, LoggedTradesCounted, CheckpointKeepsUp
<1>9. listed' \subseteq Markets
  BY <1>1, WorldAssumption
<1>10. Core'
  BY <1>1, <1>2, <1>3, <1>5, <1>6, <1>7, <1>8, <1>9, ProcessCore DEF Core, Typed
<1>11. cursor' = Start(audit, mem) /\ cursor' = Start(audit, mem')
  BY <1>1, <1>3, <1>4, <1>5 DEF Start, StartAt
<1> QED BY <1>3, <1>10, <1>11

LEMMA SkipCore ==
  ASSUME Core, SkipLine
  PROVE  Core'
<1>1. /\ pc = "read" /\ ~AtEnd(audit, cursor) /\ ~Whole(audit, cursor)
      /\ cursor' = AfterLine(audit, cursor)
      /\ UNCHANGED <<pc, listed, mem, dirty, disk, log, counted, crashes>>
      /\ UNCHANGED environment
  BY DEF SkipLine
<1>2. audit \in Files /\ cursor \in Nat /\ mem.offset \in Nat
  BY DEF Core, Typed, FileOK, Files, MemoryTyped
<1>3. Size(audit) \in Int BY <1>2, SizeIs
<1>4. cursor' = cursor + 1 /\ cursor' \in Nat /\ cursor' <= Size(audit)
  BY <1>1, <1>2, <1>3 DEF AfterLine, AtEnd
<1>5. mem'.inode = audit.inode /\ mem'.offset <= cursor'
  BY <1>1, <1>2, <1>4 DEF Core, Reading
<1>6. Running BY <1>1 DEF Running
<1>7. /\ \A t \in LoggedTrades(log') :
           \E i \in DOMAIN mem'.completed : SameTrade(mem'.completed[i], t)
      /\ ~dirty' => mem' = disk'
      /\ mem'.completed = disk'.completed /\ mem'.orphaned = disk'.orphaned
  BY <1>1, <1>6 DEF Core, LoggedTradesCounted, CheckpointKeepsUp
<1> QED BY <1>1, <1>4, <1>5, <1>7, ProcessCore DEF Core, Typed

\* The line a whole read returns.
LEMMA LineRead ==
  ASSUME Core, Whole(audit, cursor)
  PROVE  \E i \in DOMAIN audit.lines :
           /\ cursor = 2 * (i - 1) /\ i \in Nat /\ LineAt(audit, cursor) = audit.lines[i]
           /\ AfterLine(audit, cursor) = 2 * i /\ 2 * i <= Size(audit)
           /\ audit.lines[i] \in Line /\ audit.lines[i].id \in emitted
<1> DEFINE i == cursor \div 2 + 1
<1>1. audit \in Files /\ cursor \in Nat
  BY DEF Core, Typed, FileOK, Files
<1>2. cursor % 2 = 0 /\ cursor + 2 <= Size(audit)
  BY DEF Whole
<1>3. cursor = 2 * (i - 1) /\ i \in Nat /\ i >= 1
  BY <1>1, <1>2
<1>4. LineAt(audit, cursor) = audit.lines[i] /\ AfterLine(audit, cursor) = cursor + 2
  BY DEF LineAt, AfterLine
<1> HIDE DEF i
<1>5. 2 * i <= 2 * Len(audit.lines) /\ Len(audit.lines) \in Nat
      /\ DOMAIN audit.lines = 1..Len(audit.lines)
  BY <1>1, <1>2, <1>3, SizeIs
<1>6. i \in DOMAIN audit.lines
  BY <1>3, <1>5
<1>7. audit.lines[i] \in Line /\ audit.lines[i].id \in emitted
  <2>1. audit.lines \in Seq(Line) BY <1>1 DEF Files
  <2> QED BY <1>6, <2>1 DEF Core, Typed, FileOK
<1> QED BY <1>2, <1>3, <1>4, <1>6, <1>7

\* A row is read: the memory with its prediction, and what its handler made of it.
LEMMA ReadSays ==
  ASSUME Core, ReadRow
  PROVE  \E held, done :
    LET row == LineAt(audit, cursor)
    IN  /\ held = CapturePrediction(mem, row) /\ done = Consume(held, row)
        /\ MemoryTyped(held) /\ ScoredApart(held) /\ Same(mem, held, {"predictions"})
        /\ Handled(held, done) /\ ScoredApart(done.s)
        /\ log' = log \o done.log /\ UNCHANGED environment
        /\ \/ /\ mem' = done.s /\ disk' \in {done.s, disk} /\ dirty' \in BOOLEAN
              /\ ~dirty' => mem' = disk'
              /\ mem'.completed = disk'.completed /\ mem'.orphaned = disk'.orphaned
              /\ counted' \in BOOLEAN /\ cursor' = AfterLine(audit, cursor)
              /\ UNCHANGED <<pc, listed, crashes>>
           \/ crashes < MaxCrashes /\ Down /\ UNCHANGED disk
<1> DEFINE row == LineAt(audit, cursor)
           held == CapturePrediction(mem, row)
           done == Consume(held, row)
<1>1. /\ pc = "read" /\ Whole(audit, cursor)
      /\ log' = log \o done.log /\ UNCHANGED environment
      /\ \/ /\ Checkpoint(done.s, dirty \/ held # mem \/ done.save # "none", done.save)
            /\ counted' = (counted \/ held # mem \/ done.counts)
            /\ cursor' = AfterLine(audit, cursor)
            /\ UNCHANGED <<pc, listed, crashes>>
         \/ /\ crashes < MaxCrashes
            /\ Down /\ UNCHANGED disk
  BY DEF ReadRow
<1>2. row \in Line /\ row.id \in emitted
  BY <1>1, LineRead
<1>3. MemoryTyped(mem) /\ ScoredApart(mem) /\ dirty \in BOOLEAN
  BY DEF Core, Typed
<1> HIDE DEF row
<1>4. MemoryTyped(held) /\ ScoredApart(held) /\ Same(mem, held, {"predictions"})
  BY <1>2, <1>3, PredictionCaptured
<1> HIDE DEF held
<1>5. Handled(held, done)
  BY <1>2, <1>4, ConsumeKeeps
<1> HIDE DEF done
<1>6. ScoredApart(done.s)
  BY <1>4, <1>5 DEF Handled, Same, ScoredApart, Fields
<1>7. CASE /\ Checkpoint(done.s, dirty \/ held # mem \/ done.save # "none", done.save)
           /\ counted' = (counted \/ held # mem \/ done.counts)
           /\ cursor' = AfterLine(audit, cursor)
           /\ UNCHANGED <<pc, listed, crashes>>
  <2> DEFINE d == (dirty \/ held # mem \/ done.save # "none")
  <2>1. d \in BOOLEAN /\ done.save \in {"none", "timer", "forced"}
    BY <1>3, <1>5 DEF Handled
  <2>2. Running BY <1>1 DEF Running
  <2>3. ~d => done.s = disk
    BY <1>5, <2>2 DEF Core, CheckpointKeepsUp, Handled
  <2>4. done.save # "forced" => done.s.completed = disk.completed /\ done.s.orphaned = disk.orphaned
    BY <1>4, <1>5, <2>2 DEF Core, CheckpointKeepsUp, Handled, Same, Fields
  <2>5. /\ mem' = done.s /\ disk' \in {done.s, disk} /\ dirty' \in BOOLEAN
        /\ ~dirty' => mem' = disk'
        /\ mem'.completed = disk'.completed /\ mem'.orphaned = disk'.orphaned
    <3>1. Checkpoint(done.s, d, done.save) BY <1>7
    <3> HIDE DEF d
    <3> QED BY <2>1, <2>3, <2>4, <3>1, CheckpointKeeps
  <2>6. counted' \in BOOLEAN BY <1>7
  <2>7. /\ mem' = done.s /\ disk' \in {done.s, disk} /\ dirty' \in BOOLEAN
        /\ ~dirty' => mem' = disk'
        /\ mem'.completed = disk'.completed /\ mem'.orphaned = disk'.orphaned
        /\ counted' \in BOOLEAN /\ cursor' = AfterLine(audit, cursor)
        /\ UNCHANGED <<pc, listed, crashes>>
    BY <1>7, <2>5, <2>6
  <2> HIDE DEF d
  <2> QED BY <1>1, <1>4, <1>5, <1>6, <2>7 DEF row, held, done
<1>8. CASE crashes < MaxCrashes /\ Down /\ UNCHANGED disk
  BY <1>1, <1>4, <1>5, <1>6, <1>8 DEF row, held, done
<1> QED BY <1>1, <1>7, <1>8

LEMMA ReadCore ==
  ASSUME Core, ReadRow
  PROVE  Core'
<1>1. PICK held, done :
        /\ MemoryTyped(held) /\ ScoredApart(held) /\ Same(mem, held, {"predictions"})
        /\ Handled(held, done) /\ ScoredApart(done.s)
        /\ log' = log \o done.log /\ UNCHANGED environment
        /\ \/ /\ mem' = done.s /\ disk' \in {done.s, disk} /\ dirty' \in BOOLEAN
              /\ ~dirty' => mem' = disk'
              /\ mem'.completed = disk'.completed /\ mem'.orphaned = disk'.orphaned
              /\ counted' \in BOOLEAN /\ cursor' = AfterLine(audit, cursor)
              /\ UNCHANGED <<pc, listed, crashes>>
           \/ crashes < MaxCrashes /\ Down /\ UNCHANGED disk
  BY ReadSays
<1>2. /\ pc = "read" /\ Running /\ Whole(audit, cursor)
  BY DEF ReadRow, Running
<1>3. /\ MemoryTyped(done.s) /\ done.log \in Seq(Records) /\ Counts(held, done.s, done.log)
      /\ log \in Seq(Records) /\ log' \in Seq(Records)
  BY <1>1 DEF Handled, Core, Typed
<1>4. CASE crashes < MaxCrashes /\ Down /\ UNCHANGED disk
  BY <1>1, <1>3, <1>4, DownCore
<1>5. CASE /\ mem' = done.s /\ disk' \in {done.s, disk} /\ dirty' \in BOOLEAN
           /\ ~dirty' => mem' = disk'
           /\ mem'.completed = disk'.completed /\ mem'.orphaned = disk'.orphaned
           /\ counted' \in BOOLEAN /\ cursor' = AfterLine(audit, cursor)
           /\ UNCHANGED <<pc, listed, crashes>>
  <2>1. \A t \in LoggedTrades(log \o done.log) :
          \E i \in DOMAIN done.s.completed : SameTrade(done.s.completed[i], t)
    <3>1. held.completed = mem.completed /\ held.completed \in Seq(Trades)
      BY <1>1 DEF Same, Fields, MemoryTyped
    <3>2. \A t \in LoggedTrades(log) :
            \E i \in DOMAIN held.completed : SameTrade(held.completed[i], t)
      BY <1>2, <3>1 DEF Core, LoggedTradesCounted
    <3> DEFINE u == done.s  records == done.log
    <3>3. Counts(held, u, records) /\ records \in Seq(Records) BY <1>3
    <3> HIDE DEF u, records
    <3>4. \A t \in LoggedTrades(log \o records) :
            \E i \in DOMAIN u.completed : SameTrade(u.completed[i], t)
      BY <1>3, <3>1, <3>2, <3>3, TradesStayCounted
    <3> QED BY <3>4 DEF u, records
  <2>2. PICK i \in DOMAIN audit.lines :
          cursor = 2 * (i - 1) /\ i \in Nat /\ cursor' = 2 * i /\ 2 * i <= Size(audit)
    BY <1>2, <1>5, LineRead
  <2>3. mem'.inode = mem.inode /\ mem'.offset = mem.offset
    BY <1>1, <1>5 DEF Handled, Same, Fields
  <2>4. mem.offset \in Nat
    BY DEF Core, Typed, MemoryTyped
  <2>5. mem'.inode = audit.inode /\ mem'.offset <= cursor' /\ cursor' <= Size(audit) /\ cursor' \in Nat
    BY <1>2, <2>2, <2>3, <2>4 DEF Core, Reading
  <2>6. MemoryTyped(disk') /\ ScoredApart(disk')
    BY <1>1, <1>3, <1>5 DEF Core, Typed
  <2> QED BY <1>1, <1>2, <1>3, <1>5, <2>1, <2>5, <2>6, ProcessCore DEF Core, Typed
<1> QED BY <1>1, <1>4, <1>5

LEMMA EndCore ==
  ASSUME Core, EndAudit
  PROVE  /\ Core' /\ Same(mem, mem', {"offset"}) /\ mem'.offset = cursor /\ cursor' = cursor
         /\ cursor = Size(audit) /\ Start(audit, mem') = cursor /\ disk' \in {mem', disk}
         /\ UNCHANGED environment /\ pc' = "settle" /\ UNCHANGED <<log, crashes>>
<1> DEFINE u == [mem EXCEPT !.offset = cursor]
           d == dirty \/ mem.offset # cursor
           kind == IF counted THEN "forced" ELSE "timer"
<1>1. /\ pc = "read" /\ AtEnd(audit, cursor) /\ pc' = "settle" /\ Checkpoint(u, d, kind)
      /\ UNCHANGED <<listed, log, cursor, counted, crashes>> /\ UNCHANGED environment
  BY DEF EndAudit
<1>2. /\ MemoryTyped(mem) /\ dirty \in BOOLEAN /\ cursor \in Nat /\ audit \in Files
      /\ ScoredApart(mem) /\ Size(audit) \in Int
  BY SizeIs DEF Core, Typed, FileOK, Files
<1>3. Same(mem, u, {"offset"}) /\ u.offset = cursor
  BY <1>2 DEF MemoryTyped, Same, Shape, Fields
<1>4. u.completed = mem.completed /\ u.orphaned = mem.orphaned
      /\ (mem.offset = cursor => u = mem)
  BY <1>2, <1>3 DEF Same, Shape, Fields, MemoryTyped
<1>5. Running BY <1>1 DEF Running
<1>6. /\ d \in BOOLEAN /\ kind \in {"none", "timer", "forced"}
      /\ ~d => u = disk
      /\ u.completed = disk.completed /\ u.orphaned = disk.orphaned
  BY <1>2, <1>4, <1>5 DEF Core, CheckpointKeepsUp
<1> HIDE DEF u, d, kind
<1>7. /\ mem' = u /\ disk' \in {u, disk} /\ dirty' \in BOOLEAN
      /\ ~dirty' => mem' = disk'
      /\ mem'.completed = disk'.completed /\ mem'.orphaned = disk'.orphaned
  BY <1>1, <1>6, CheckpointKeeps
<1>8. MemoryTyped(u) /\ ScoredApart(u)
  BY <1>2, <1>3 DEF MemoryTyped, ScoredApart, Same, Fields
<1>9. /\ MemoryTyped(mem') /\ ScoredApart(mem') /\ MemoryTyped(disk') /\ ScoredApart(disk')
  BY <1>7, <1>8 DEF Core, Typed
<1>10. \A t \in LoggedTrades(log') :
         \E i \in DOMAIN mem'.completed : SameTrade(mem'.completed[i], t)
  BY <1>1, <1>4, <1>5, <1>7 DEF Core, LoggedTradesCounted
<1>11. Core'
  BY <1>1, <1>7, <1>9, <1>10, ProcessCore DEF Core, Typed
<1>12. cursor = Size(audit) /\ mem'.inode = audit.inode
  BY <1>1, <1>2, <1>3, <1>7 DEF Core, Reading, AtEnd, Same, Fields
<1>13. Start(audit, mem') = cursor
  BY <1>2, <1>3, <1>7, <1>12 DEF Start, StartAt
<1> QED BY <1>1, <1>3, <1>7, <1>11, <1>12, <1>13

\* A settlement, finished or cut short by a crash after some of its records.
LEMMA SettleSays ==
  ASSUME Core, Settle
  PROVE  \E sample, order, after :
    /\ order \in Orders(mem, sample) /\ after = Settlement(mem, sample, order)
    /\ MemoryTyped(after.s) /\ ScoredApart(after.s) /\ after.log \in Seq(Records)
    /\ Counts(mem, after.s, after.log) /\ UNCHANGED environment
    /\ \/ /\ mem' = after.s /\ disk' \in {after.s, disk} /\ dirty' \in BOOLEAN
          /\ ~dirty' => mem' = disk'
          /\ mem'.completed = disk'.completed /\ mem'.orphaned = disk'.orphaned
          /\ log' = log \o after.log /\ pc' = "poll"
          /\ UNCHANGED <<listed, cursor, counted, crashes>>
       \/ /\ crashes < MaxCrashes /\ Down /\ UNCHANGED disk /\ log' \in Seq(Records)
          /\ \E n \in DOMAIN after.log : log' = log \o SubSeq(after.log, 1, n)
<1>1. PICK sample \in Samples :
      \E order \in SetToSeqs({k \in DOMAIN mem.positions : Due(k[2]) /\ sample[k[2]] # "none"}) :
       LET after == Settlement(mem, sample, order)
       IN  \/ /\ log' = log \o after.log
              /\ pc' = "poll"
              /\ Checkpoint(after.s, dirty \/ after.s # mem,
                            IF after.durable THEN "forced"
                            ELSE IF after.s # mem THEN "timer" ELSE "none")
              /\ UNCHANGED <<listed, cursor, counted, crashes>>
           \/ /\ crashes < MaxCrashes
              /\ \E n \in DOMAIN after.log : log' = log \o SubSeq(after.log, 1, n)
              /\ Down /\ UNCHANGED disk
  BY DEF Settle
<1>2. PICK order \in Orders(mem, sample) :
       LET after == Settlement(mem, sample, order)
       IN  \/ /\ log' = log \o after.log
              /\ pc' = "poll"
              /\ Checkpoint(after.s, dirty \/ after.s # mem,
                            IF after.durable THEN "forced"
                            ELSE IF after.s # mem THEN "timer" ELSE "none")
              /\ UNCHANGED <<listed, cursor, counted, crashes>>
           \/ /\ crashes < MaxCrashes
              /\ \E n \in DOMAIN after.log : log' = log \o SubSeq(after.log, 1, n)
              /\ Down /\ UNCHANGED disk
  BY <1>1 DEF Orders
<1> DEFINE after == Settlement(mem, sample, order)
           d == dirty \/ after.s # mem
           kind == IF after.durable THEN "forced"
                   ELSE IF after.s # mem THEN "timer" ELSE "none"
<1>3. UNCHANGED environment /\ pc = "settle" /\ Running
  BY DEF Settle, Running
<1>4. MemoryTyped(mem) /\ ScoredApart(mem) /\ now \in Nat /\ dirty \in BOOLEAN
      /\ log \in Seq(Records)
  BY DEF Core, Typed
<1>5. /\ MemoryTyped(after.s) /\ ScoredApart(after.s) /\ after.log \in Seq(Records)
      /\ Counts(mem, after.s, after.log)
      /\ ~after.durable => after.s.completed = mem.completed /\ after.s.orphaned = mem.orphaned
  BY <1>4, SettlementKeeps
<1>6. \/ /\ log' = log \o after.log /\ pc' = "poll" /\ Checkpoint(after.s, d, kind)
         /\ UNCHANGED <<listed, cursor, counted, crashes>>
      \/ /\ crashes < MaxCrashes
         /\ \E n \in DOMAIN after.log : log' = log \o SubSeq(after.log, 1, n)
         /\ Down /\ UNCHANGED disk
  BY <1>2
<1>7. /\ d \in BOOLEAN /\ kind \in {"none", "timer", "forced"}
      /\ ~d => after.s = disk
      /\ kind # "forced" => after.s.completed = disk.completed /\ after.s.orphaned = disk.orphaned
  BY <1>3, <1>4, <1>5 DEF Core, CheckpointKeepsUp
<1> HIDE DEF d, kind
<1>8. after = Settlement(mem, sample, order) OBVIOUS
<1> HIDE DEF after
<1>9. CASE /\ log' = log \o after.log /\ pc' = "poll" /\ Checkpoint(after.s, d, kind)
           /\ UNCHANGED <<listed, cursor, counted, crashes>>
  <2>1. /\ mem' = after.s /\ disk' \in {after.s, disk} /\ dirty' \in BOOLEAN
        /\ ~dirty' => mem' = disk'
        /\ mem'.completed = disk'.completed /\ mem'.orphaned = disk'.orphaned
    <3> DEFINE u == after.s
    <3>1. /\ Checkpoint(u, d, kind) /\ ~d => u = disk
          /\ kind # "forced" => u.completed = disk.completed /\ u.orphaned = disk.orphaned
      BY <1>7, <1>9
    <3>2. /\ ~d => u = disk
      BY <1>7
    <3>3. Checkpoint(u, d, kind) BY <1>9
    <3> HIDE DEF u
    <3> QED BY <1>7, <3>1, <3>2, <3>3, CheckpointKeeps DEF u
  <2> QED BY <1>2, <1>3, <1>5, <1>8, <1>9, <2>1
<1>10. CASE /\ crashes < MaxCrashes
            /\ \E n \in DOMAIN after.log : log' = log \o SubSeq(after.log, 1, n)
            /\ Down /\ UNCHANGED disk
  <2>1. PICK n \in DOMAIN after.log : log' = log \o SubSeq(after.log, 1, n)
    BY <1>10
  <2>2. log' \in Seq(Records)
    <3> DEFINE g == after.log
    <3>1. g \in Seq(Records) /\ n \in DOMAIN g BY <1>5, <2>1
    <3> HIDE DEF g
    <3>2. SubSeq(g, 1, n) \in Seq(Records) BY <3>1
    <3>3. log \o SubSeq(g, 1, n) \in Seq(Records) BY <1>4, <3>2
    <3> QED BY <2>1, <3>3 DEF g
  <2> QED BY <1>2, <1>3, <1>5, <1>8, <1>10, <2>2
<1> QED BY <1>6, <1>9, <1>10

LEMMA SettleCore ==
  ASSUME Core, Settle
  PROVE  Core'
<1>1. PICK sample, order, after :
    /\ MemoryTyped(after.s) /\ ScoredApart(after.s) /\ after.log \in Seq(Records)
    /\ Counts(mem, after.s, after.log) /\ UNCHANGED environment
    /\ \/ /\ mem' = after.s /\ disk' \in {after.s, disk} /\ dirty' \in BOOLEAN
          /\ ~dirty' => mem' = disk'
          /\ mem'.completed = disk'.completed /\ mem'.orphaned = disk'.orphaned
          /\ log' = log \o after.log /\ pc' = "poll"
          /\ UNCHANGED <<listed, cursor, counted, crashes>>
       \/ crashes < MaxCrashes /\ Down /\ UNCHANGED disk /\ log' \in Seq(Records)
  BY SettleSays
<1>2. pc = "settle" /\ Running /\ log \in Seq(Records) /\ MemoryTyped(mem)
  BY DEF Settle, Running, Core, Typed
<1>3. CASE crashes < MaxCrashes /\ Down /\ UNCHANGED disk /\ log' \in Seq(Records)
  BY <1>1, <1>3, DownCore
<1>4. CASE /\ mem' = after.s /\ disk' \in {after.s, disk} /\ dirty' \in BOOLEAN
           /\ ~dirty' => mem' = disk'
           /\ mem'.completed = disk'.completed /\ mem'.orphaned = disk'.orphaned
           /\ log' = log \o after.log /\ pc' = "poll"
           /\ UNCHANGED <<listed, cursor, counted, crashes>>
  <2>1. /\ mem.completed \in Seq(Trades)
        /\ \A t \in LoggedTrades(log) :
             \E i \in DOMAIN mem.completed : SameTrade(mem.completed[i], t)
    BY <1>2 DEF Core, LoggedTradesCounted, MemoryTyped
  <2>2. \A t \in LoggedTrades(log \o after.log) :
          \E i \in DOMAIN after.s.completed : SameTrade(after.s.completed[i], t)
    <3> DEFINE u == after.s  records == after.log
    <3>1. Counts(mem, u, records) /\ records \in Seq(Records) BY <1>1
    <3> HIDE DEF u, records
    <3>2. \A t \in LoggedTrades(log \o records) :
            \E i \in DOMAIN u.completed : SameTrade(u.completed[i], t)
      BY <1>2, <2>1, <3>1, TradesStayCounted
    <3> QED BY <3>2 DEF u, records
  <2>3. log' \in Seq(Records)
    <3> DEFINE g == after.log
    <3>1. g \in Seq(Records) /\ log' = log \o g BY <1>1, <1>4
    <3> HIDE DEF g
    <3> QED BY <1>2, <3>1
  <2>4. MemoryTyped(disk') /\ ScoredApart(disk')
    BY <1>1, <1>4 DEF Core, Typed
  <2> QED BY <1>1, <1>4, <2>2, <2>3, <2>4, ProcessCore DEF Core, Typed
<1> QED BY <1>1, <1>3, <1>4

LEMMA StutterCore ==
  ASSUME Core, UNCHANGED vars
  PROVE  Core'
BY DEF vars, Core, Typed, FileOK, MemoryTyped, Shape, Reading, LoggedTradesCounted,
       CheckpointKeepsUp, Running, ScoredApart

LEMMA CoreKept ==
  ASSUME Core, [Next]_vars
  PROVE  Core'
<1>1. CASE Environment
  BY <1>1, EnvironmentCore
<1>2. CASE Restart
  BY <1>2, RestartCore
<1>3. CASE Crash \/ Abort
  <2>1. /\ Down /\ UNCHANGED environment /\ crashes < MaxCrashes
        /\ disk' \in {disk, mem} /\ log' = log
    BY <1>3 DEF Crash, Abort
  <2>2. log' \in Seq(Records)
    BY <2>1 DEF Core, Typed
  <2> QED BY <2>1, <2>2, DownCore
<1>4. CASE OpenAudit
  BY <1>4, OpenCore
<1>5. CASE ReadRow
  BY <1>5, ReadCore
<1>6. CASE SkipLine
  BY <1>6, SkipCore
<1>7. CASE EndAudit
  BY <1>7, EndCore
<1>8. CASE Settle
  BY <1>8, SettleCore
<1>9. CASE UNCHANGED vars
  BY <1>9, StutterCore
<1> QED BY <1>1, <1>2, <1>3, <1>4, <1>5, <1>6, <1>7, <1>8, <1>9 DEF Next, Round
-----------------------------------------------------------------------------
(* Whole lines: the inventory is the last row's. *)

\* Ordered and Latest look at the processed rows, the inventory and the position.
LEMMA SameOrdered ==
  ASSUME NEW f, NEW s, NEW u, u.processed = s.processed, Start(f, u) = Start(f, s), Ordered(f, s)
  PROVE  Ordered(f, u)
BY DEF Ordered

\* Settlement and restart leave an inventory smaller, never other.
LEMMA SameLatest ==
  ASSUME NEW f, NEW s, NEW u, u.processed = s.processed, Latest(f, s),
         DOMAIN u.inventory \subseteq DOMAIN s.inventory,
         \A m \in DOMAIN u.inventory : /\ u.inventory[m].up = s.inventory[m].up
                                       /\ u.inventory[m].down = s.inventory[m].down
  PROVE  Latest(f, u)
<1>1. \A m : Applied(f, u, m) = Applied(f, s, m)
  BY DEF Applied
<1> QED BY <1>1 DEF Latest

LEMMA EmptyWhole ==
  ASSUME NEW f, DOMAIN f.lines = {}, NEW s
  PROVE  Ordered(f, s) /\ Latest(f, s)
<1>1. \A m : Applied(f, s, m) = {}
  BY DEF Applied
<1> QED BY <1>1 DEF Ordered, Latest

LEMMA FreshWhole ==
  ASSUME NEW f
  PROVE  Ordered(f, Fresh) /\ Latest(f, Fresh)
<1>1. Fresh.processed = {} /\ Fresh.inventory = <<>> /\ DOMAIN <<>> = {}
  BY DEF Fresh, NoMap
<1> QED BY <1>1 DEF Ordered, Latest

\* A whole line is appended: it is younger than all, and nobody has processed it.
LEMMA AppendWhole ==
  ASSUME NEW f \in Files, ~f.torn, NEW line \in Line, NEW s, s.offset \in Nat,
         line.id \notin s.processed, Ordered(f, s), Latest(f, s)
  PROVE  Ordered(AppendLine(f, line), s) /\ Latest(AppendLine(f, line), s)
<1> DEFINE g == AppendLine(f, line)  n == Len(f.lines)
<1>1. /\ g.inode = f.inode /\ n \in Nat
      /\ DOMAIN g.lines = 1..(n + 1) /\ DOMAIN f.lines = 1..n
      /\ g.lines[n + 1] = line
      /\ \A i \in 1..n : g.lines[i] = f.lines[i]
      /\ Size(f) <= Size(g) /\ Size(f) \in Int /\ Size(g) \in Int
  <2>1. g \in {AppendLine(f, line), AppendHalf(f, line)} OBVIOUS
  <2> HIDE DEF g
  <2>2. g \in Files BY <2>1, AppendedIs
  <2>3. Size(f) \in Int /\ Size(g) \in Int
    BY <2>2, SizeIs
  <2>4. /\ g.inode = f.inode /\ n \in Nat
        /\ DOMAIN g.lines = 1..(n + 1) /\ DOMAIN f.lines = 1..n
        /\ g.lines[n + 1] = line
        /\ \A i \in DOMAIN f.lines : g.lines[i] = f.lines[i]
        /\ Size(f) <= Size(g)
    BY <2>1, AppendedIs
  <2> HIDE DEF n
  <2> QED BY <2>3, <2>4
<1> HIDE DEF g, n
<1>2. Start(f, s) <= Start(g, s) /\ Start(f, s) \in Int /\ Start(g, s) \in Int
  BY <1>1 DEF Start, StartAt
<1>3. \A i \in 1..(n + 1) : g.lines[i].id \in s.processed => i \in 1..n
  <2>1. \A i \in 1..(n + 1) : i \in 1..n \/ i = n + 1 BY <1>1
  <2> QED BY <1>1, <2>1
<1>4. Ordered(g, s)
  <2> SUFFICES ASSUME NEW i \in 1..(n + 1), NEW j \in 1..(n + 1),
                      Stocks(g, i), g.lines[i].id \notin s.processed,
                      Stocks(g, j), g.lines[j].id \in s.processed,
                      Start(g, s) <= 2 * (i - 1)
               PROVE  j < i
    BY <1>1 DEF Ordered
  <2>1. j \in 1..n /\ f.lines[j] = g.lines[j] BY <1>1, <1>3
  <2>2. CASE i = n + 1
    BY <1>1, <2>1, <2>2
  <2>3. CASE i \in 1..n
    <3>1. f.lines[i] = g.lines[i] BY <1>1, <2>3
    <3>2. Start(f, s) <= 2 * (i - 1) BY <1>2
    <3>3. Stocks(f, i) /\ Stocks(f, j) BY <2>1, <3>1 DEF Stocks
    <3> QED BY <1>1, <2>1, <2>3, <3>1, <3>2, <3>3 DEF Ordered
  <2> QED BY <1>1, <2>2, <2>3
<1>5. \A m : Applied(g, s, m) = Applied(f, s, m)
  BY <1>1, <1>3 DEF Applied, Stocks
<1>6. Latest(g, s)
  <2>1. \A m : \A i \in Applied(f, s, m) : g.lines[i] = f.lines[i]
    BY <1>1 DEF Applied
  <2> QED BY <1>5, <2>1 DEF Latest
<1> QED BY <1>4, <1>6 DEF g

StockRow(row) == row.type \in {"inventory_eval", "inventory_action"}

\* What a row makes of the processed rows and of the inventory.
Applies(s, row, u) ==
  /\ u.offset = s.offset /\ u.inode = s.inode
  /\ \/ /\ ~StockRow(row)
        /\ u.processed \in {s.processed, s.processed \cup {row.id}} /\ u.inventory = s.inventory
     \/ /\ StockRow(row) /\ row.id \in s.processed
        /\ u.processed = s.processed /\ u.inventory = s.inventory
     \/ /\ StockRow(row) /\ row.id \notin s.processed
        /\ u.processed = s.processed \cup {row.id}
        /\ \A m \in DOMAIN u.inventory :
             /\ m = row.market => u.inventory[m].up = row.up /\ u.inventory[m].down = row.down
             /\ m # row.market => m \in DOMAIN s.inventory /\ u.inventory[m] = s.inventory[m]

LEMMA ConsumeApplies ==
  ASSUME NEW s, Shape(s), NEW row \in Line
  PROVE  Applies(s, row, Consume(s, row).s)
<1> DEFINE r == Consume(s, row)
<1> SUFFICES Applies(s, row, r.s)
  OBVIOUS
<1>0. \/ Exited(s, row, r) \/ SplitSold(s, row, r) \/ Stocked(s, row, r)
      \/ Quoted(s, row, r) \/ Rejected(s, row, r) \/ Opened(s, row, r)
      \/ Untouched(s, row, r)
  BY ConsumeSays
<1> HIDE DEF r
<1>1. CASE Exited(s, row, r)
  BY <1>1 DEF Exited, Applies, Same, Fields, StockRow
<1>2. CASE SplitSold(s, row, r)
  BY <1>2 DEF SplitSold, Applies, Same, Fields, StockRow
<1>3. CASE Stocked(s, row, r)
  <2> DEFINE filled == [up |-> row.up, down |-> row.down, cost |-> row.cost, pending |-> FALSE]
             v == r.s.inventory
  <2>1. v = IF row.up = 0 /\ row.down = 0 THEN Without(s.inventory, {row.market})
            ELSE With(s.inventory, row.market, filled)
    BY <1>3 DEF Stocked
  <2>2. filled.up = row.up /\ filled.down = row.down
    OBVIOUS
  <2> HIDE DEF v, filled
  <2>3. \A m \in DOMAIN v : /\ m = row.market => v[m] = filled
                            /\ m # row.market => m \in DOMAIN s.inventory /\ v[m] = s.inventory[m]
    <3>1. CASE row.up = 0 /\ row.down = 0
      BY <2>1, <3>1 DEF Without, Restrict
    <3>2. CASE ~(row.up = 0 /\ row.down = 0)
      BY <2>1, <3>2 DEF With
    <3> QED BY <3>1, <3>2
  <2>4. /\ StockRow(row) /\ row.id \notin s.processed
        /\ r.s.processed = s.processed \cup {row.id}
        /\ r.s.offset = s.offset /\ r.s.inode = s.inode
    BY <1>3 DEF Stocked, StockRow, Same, Fields
  <2> QED BY <2>2, <2>3, <2>4 DEF Applies, v
<1>4. CASE Quoted(s, row, r)
  BY <1>4 DEF Quoted, Applies, Same, Fields, StockRow
<1>5. CASE Rejected(s, row, r)
  BY <1>5 DEF Rejected, Applies, Same, Fields, StockRow
<1>6. CASE Opened(s, row, r)
  BY <1>6 DEF Opened, Applies, Same, Fields, StockRow
<1>7. CASE Untouched(s, row, r)
  BY <1>7 DEF Untouched, Applies, StockRow
<1> QED BY <1>0, <1>1, <1>2, <1>3, <1>4, <1>5, <1>6, <1>7

\* The rows before the position pos that s would read again are processed.
Passed(f, s, pos) ==
  \A i \in DOMAIN f.lines :
    Stocks(f, i) /\ s.offset <= 2 * (i - 1) /\ 2 * (i - 1) < pos => f.lines[i].id \in s.processed

LEMMA ReadWhole ==
  ASSUME NEW f \in Files, \A i, j \in DOMAIN f.lines : f.lines[i].id = f.lines[j].id => i = j,
         NEW n \in DOMAIN f.lines, NEW s, NEW u, s.offset \in Nat,
         Start(f, s) = s.offset, s.offset <= 2 * (n - 1),
         Ordered(f, s), Latest(f, s), Passed(f, s, 2 * (n - 1)), Applies(s, f.lines[n], u)
  PROVE  Ordered(f, u) /\ Latest(f, u) /\ Passed(f, u, 2 * n)
<1> DEFINE row == f.lines[n]
<1>0. n \in Nat /\ DOMAIN f.lines \subseteq Nat
  BY SizeIs
<1>1. Stocks(f, n) <=> StockRow(row)
  BY DEF Stocks, StockRow
<1>2. u.offset = s.offset /\ Start(f, u) = s.offset
  BY DEF Applies, Start
<1>3. \A i \in DOMAIN f.lines : i # n => (f.lines[i].id \in u.processed <=> f.lines[i].id \in s.processed)
  <2>1. u.processed \in {s.processed, s.processed \cup {row.id}}
    BY DEF Applies
  <2>2. \A i \in DOMAIN f.lines : i # n => f.lines[i].id # row.id
    OBVIOUS
  <2> HIDE DEF row
  <2> QED BY <2>1, <2>2
<1>4. Stocks(f, n) => row.id \in u.processed
  BY <1>1 DEF Applies
<1>5. s.processed \subseteq u.processed
  BY DEF Applies
<1>6. Passed(f, u, 2 * n)
  <2> SUFFICES ASSUME NEW i \in DOMAIN f.lines, Stocks(f, i), u.offset <= 2 * (i - 1),
                      2 * (i - 1) < 2 * n
               PROVE  f.lines[i].id \in u.processed
    BY DEF Passed
  <2>1. CASE i = n
    BY <1>4, <2>1
  <2>2. CASE i # n
    <3>1. 2 * (i - 1) < 2 * (n - 1) BY <1>0, <2>2
    <3> QED BY <1>2, <1>5, <3>1 DEF Passed
  <2> QED BY <2>1, <2>2
<1>7. Ordered(f, u)
  <2> SUFFICES ASSUME NEW i \in DOMAIN f.lines, NEW j \in DOMAIN f.lines,
                      Stocks(f, i), f.lines[i].id \notin u.processed,
                      Stocks(f, j), f.lines[j].id \in u.processed,
                      s.offset <= 2 * (i - 1)
               PROVE  j < i
    BY <1>2 DEF Ordered
  <2>1. i # n /\ f.lines[i].id \notin s.processed
    BY <1>4, <1>5
  <2>2. CASE j # n
    BY <1>3, <2>1, <2>2 DEF Ordered
  <2>3. CASE j = n
    <3>1. ~(2 * (i - 1) < 2 * (n - 1))
      BY <2>1 DEF Passed
    <3> QED BY <1>0, <2>1, <2>3, <3>1
  <2> QED BY <2>2, <2>3
<1>8. Latest(f, u)
  <2> SUFFICES ASSUME NEW m \in DOMAIN u.inventory, NEW i \in Applied(f, u, m),
                      \A j \in Applied(f, u, m) : j <= i
               PROVE  u.inventory[m].up = f.lines[i].up /\ u.inventory[m].down = f.lines[i].down
    BY DEF Latest
  <2>1. CASE Stocks(f, n) /\ row.id \notin s.processed /\ m = row.market
    <3>1. n \in Applied(f, u, m)
      BY <1>4, <2>1 DEF Applied
    <3>2. \A j \in Applied(f, u, m) : j <= n
      <4> SUFFICES ASSUME NEW j \in Applied(f, u, m), j # n PROVE j <= n
        BY <1>0
      <4>1. j \in DOMAIN f.lines /\ Stocks(f, j) /\ f.lines[j].id \in s.processed
        BY <1>3 DEF Applied
      <4>2. j < n
        BY <2>1, <4>1 DEF Ordered
      <4> QED BY <1>0, <4>1, <4>2
    <3>3. i = n
      <4>1. i \in DOMAIN f.lines BY DEF Applied
      <4> QED BY <1>0, <3>1, <3>2, <4>1
    <3> QED BY <1>1, <2>1, <3>3 DEF Applies
  <2>2. CASE ~(Stocks(f, n) /\ row.id \notin s.processed /\ m = row.market)
    <3>1. m \in DOMAIN s.inventory /\ u.inventory[m] = s.inventory[m]
      BY <1>1, <2>2 DEF Applies
    <3>2. Applied(f, u, m) = Applied(f, s, m)
      <4>1. n \in Applied(f, u, m) => n \in Applied(f, s, m)
        BY <2>2 DEF Applied
      <4>2. \A k : k \in Applied(f, u, m) => k \in Applied(f, s, m)
        BY <1>3, <4>1 DEF Applied
      <4>3. \A k : k \in Applied(f, s, m) => k \in Applied(f, u, m)
        BY <1>5 DEF Applied
      <4> QED BY <4>2, <4>3
    <3> QED BY <3>1, <3>2 DEF Latest
  <2> QED BY <2>1, <2>2
<1> QED BY <1>6, <1>7, <1>8

\* WholeLines with the rows passed as a named predicate.
LEMMA WholeIs ==
  WholeLines <=>
    /\ ~audit.torn /\ mem.offset % 2 = 0 /\ disk.offset % 2 = 0
    /\ pc = "read" => cursor % 2 = 0 /\ Passed(audit, mem, cursor)
    /\ Ordered(audit, mem) /\ Ordered(audit, disk) /\ Latest(audit, mem) /\ Latest(audit, disk)
BY DEF WholeLines, Passed

LEMMA WholeEnvironment ==
  ASSUME Core, WholeLines, Environment, torns' = 0, torns = 0
  PROVE  WholeLines'
<1>0. /\ UNCHANGED <<pc, listed, mem, dirty, disk, log, cursor, counted, crashes>>
  BY DEF Environment
<1>1. /\ audit \in Files /\ ~audit.torn /\ mem.offset \in Nat /\ disk.offset \in Nat
      /\ mem.processed \subseteq emitted /\ disk.processed \subseteq emitted
      /\ cursor \in Nat /\ now \in Nat
  BY DEF Core, Typed, FileOK, Files, MemoryTyped, WholeLines
<1>2. CASE Tick
  <2>1. audit' = audit BY <1>2 DEF Tick
  <2> QED BY <1>0, <2>1 DEF WholeLines, Ordered, Latest, Start, StartAt, Applied, Stocks, Size
<1>3. CASE Emit
  <2>1. PICK row \in Rows :
          /\ row.id \notin emitted
          /\ \/ audit' = AppendLine(audit, [row EXCEPT !.ts = now]) /\ UNCHANGED torns
             \/ audit' = AppendHalf(audit, [row EXCEPT !.ts = now]) /\ torns' = torns + 1
    BY <1>3 DEF Emit
  <2> DEFINE line == [row EXCEPT !.ts = now]  f == audit  g == AppendLine(f, line)
  <2>2. line \in Line /\ line.id = row.id
    BY <1>1, <2>1, RowsAssumption DEF AuditRow, Line, Ids
  <2> HIDE DEF line
  <2>3. audit' = g BY <2>1 DEF line
  <2>4. line.id \notin mem.processed /\ line.id \notin disk.processed
    BY <1>1, <2>1, <2>2
  <2>5. /\ Ordered(f, mem) /\ Latest(f, mem) /\ Ordered(f, disk) /\ Latest(f, disk)
    BY DEF WholeLines
  <2>6. Ordered(g, mem) /\ Latest(g, mem)
    BY <1>1, <2>2, <2>4, <2>5, AppendWhole
  <2>7. Ordered(g, disk) /\ Latest(g, disk)
    BY <1>1, <2>2, <2>4, <2>5, AppendWhole
  <2>8. /\ ~g.torn /\ Len(f.lines) \in Nat /\ DOMAIN f.lines = 1..Len(f.lines)
        /\ DOMAIN g.lines = 1..(Len(f.lines) + 1)
        /\ \A i \in DOMAIN f.lines : g.lines[i] = f.lines[i]
        /\ Size(f) = 2 * Len(f.lines)
    <3>1. g \in {AppendLine(f, line), AppendHalf(f, line)} OBVIOUS
    <3> HIDE DEF g
    <3>2. g = AppendLine(f, line) BY DEF g
    <3> QED BY <1>1, <2>2, <3>1, <3>2, AppendedIs
  <2> HIDE DEF g, f
  <2>9. pc = "read" => cursor % 2 = 0 /\ Passed(g, mem, cursor)
    <3> SUFFICES ASSUME pc = "read" PROVE cursor % 2 = 0 /\ Passed(g, mem, cursor)
      OBVIOUS
    <3>1. cursor % 2 = 0 /\ Passed(f, mem, cursor) /\ cursor <= Size(f)
      BY WholeIs DEF f, Core, Reading
    <3>2. \A i \in DOMAIN g.lines : 2 * (i - 1) < cursor => i \in DOMAIN f.lines
      <4> DEFINE n == Len(f.lines)
      <4>1. /\ n \in Nat /\ cursor \in Nat /\ cursor <= 2 * n
            /\ DOMAIN g.lines = 1..(n + 1) /\ DOMAIN f.lines = 1..n
        BY <1>1, <2>8, <3>1
      <4> HIDE DEF n
      <4> QED BY <4>1
    <3> QED BY <2>8, <3>1, <3>2 DEF Passed, Stocks
  <2> QED BY <1>0, <2>3, <2>6, <2>7, <2>8, <2>9, WholeIs DEF WholeLines, Passed
<1>4. CASE Flush
  BY <1>1, <1>4 DEF Flush
<1>5. CASE Rotate
  <2>1. /\ audit' \in {EmptyFile(audit.inode), EmptyFile(audit.inode + 1)} /\ pc # "read"
    BY <1>5 DEF Rotate, Truncated, Replaced
  <2>2. audit.inode \in Nat /\ audit.inode + 1 \in Nat
    BY <1>1 DEF Files
  <2> DEFINE g == audit'
  <2>3. DOMAIN g.lines = {} /\ g.torn = FALSE
    BY <2>1, <2>2, EmptyFileIs
  <2> HIDE DEF g
  <2>4. Ordered(g, mem) /\ Ordered(g, disk) /\ Latest(g, mem) /\ Latest(g, disk)
    BY <2>3, EmptyWhole
  <2> QED BY <1>0, <2>1, <2>3, <2>4 DEF WholeLines, g
<1> QED BY <1>2, <1>3, <1>4, <1>5 DEF Environment

\* Whole lines, of a step of the process.
LEMMA WholeProcess ==
  ASSUME Core, WholeLines, UNCHANGED environment,
         mem'.offset % 2 = 0, disk' \in {disk, mem, mem'},
         pc' = "read" => cursor' % 2 = 0 /\ Passed(audit, mem', cursor'),
         Ordered(audit, mem'), Latest(audit, mem')
  PROVE  WholeLines'
<1>1. audit' = audit /\ ~audit.torn /\ mem.offset % 2 = 0 /\ disk.offset % 2 = 0
  BY DEF environment, WholeLines
<1>2. Ordered(audit, disk') /\ Latest(audit, disk') /\ disk'.offset % 2 = 0
  BY <1>1 DEF WholeLines
<1> QED BY <1>1, <1>2 DEF WholeLines, Passed

LEMMA WholeDown ==
  ASSUME Core, WholeLines, UNCHANGED environment, Down, disk' \in {disk, mem}
  PROVE  WholeLines'
<1>1. mem' = Fresh /\ pc' = "down" /\ Fresh.offset = 0
  BY DEF Down, Fresh
<1> QED BY <1>1, FreshWhole, WholeProcess

LEMMA WholeRestart ==
  ASSUME Core, WholeLines, Restart
  PROVE  WholeLines'
<1>1. /\ pc' = "poll" /\ mem' = Backfill(disk) /\ disk' = mem' /\ UNCHANGED environment
  BY DEF Restart
<1>2. Same(disk, mem', {"completed"})
  BY <1>1, BackfillSays DEF Core, Typed
<1>3. /\ mem'.processed = disk.processed /\ mem'.offset = disk.offset /\ mem'.inode = disk.inode
      /\ mem'.inventory = disk.inventory
  BY <1>2 DEF Same, Fields
<1>4. Ordered(audit, disk) /\ Latest(audit, disk) /\ disk.offset % 2 = 0
  BY DEF WholeLines
<1> DEFINE u == mem'
<1>5. u.processed = disk.processed /\ Start(audit, u) = Start(audit, disk)
      /\ u.inventory = disk.inventory
  BY <1>3 DEF Start
<1> HIDE DEF u
<1>6. Ordered(audit, u) /\ Latest(audit, u)
  BY <1>4, <1>5, SameOrdered, SameLatest
<1> QED BY <1>1, <1>3, <1>4, <1>6, WholeProcess DEF u

LEMMA WholeOpen ==
  ASSUME Core, WholeLines, OpenAudit
  PROVE  WholeLines'
<1>1. /\ Same(mem, mem', {"offset", "inode"})
      /\ cursor' = Start(audit, mem) /\ cursor' = Start(audit, mem')
      /\ mem'.offset \in {0, mem.offset}
  BY OpenCore
<1>2. UNCHANGED environment /\ disk' = disk
  BY DEF OpenAudit
<1>3. mem'.processed = mem.processed /\ mem'.inventory = mem.inventory
  BY <1>1 DEF Same, Fields
<1>4. Ordered(audit, mem) /\ Latest(audit, mem) /\ mem.offset % 2 = 0 /\ mem.offset \in Nat
  BY DEF WholeLines, Core, Typed, MemoryTyped
<1> DEFINE u == mem'
<1>5. u.processed = mem.processed /\ Start(audit, u) = Start(audit, mem)
      /\ u.inventory = mem.inventory
  BY <1>1, <1>3
<1> HIDE DEF u
<1>6. Ordered(audit, u) /\ Latest(audit, u)
  BY <1>4, <1>5, SameOrdered, SameLatest
<1>7. mem'.offset % 2 = 0
  BY <1>1, <1>4
<1>8. cursor' = 0 \/ cursor' = mem'.offset
  BY <1>1 DEF Start, StartAt
<1>9. cursor' % 2 = 0 /\ Passed(audit, mem', cursor')
  <2>1. mem'.offset \in Nat /\ cursor' \in Nat BY <1>1, <1>4, <1>8
  <2>2. audit \in Files BY DEF Core, Typed, FileOK, Files
  <2>3. DOMAIN audit.lines = 1..Len(audit.lines) /\ Len(audit.lines) \in Nat
    BY <2>2, SizeIs
  <2>4. \A i \in DOMAIN audit.lines : ~(mem'.offset <= 2 * (i - 1) /\ 2 * (i - 1) < cursor')
    BY <1>8, <2>1, <2>3
  <2> QED BY <1>7, <1>8, <2>4 DEF Passed
<1> QED BY <1>2, <1>6, <1>7, <1>9, WholeProcess DEF u

LEMMA WholeRead ==
  ASSUME Core, WholeLines, ReadRow
  PROVE  WholeLines'
<1>1. PICK held, done :
        LET row == LineAt(audit, cursor)
        IN  /\ done = Consume(held, row)
            /\ MemoryTyped(held) /\ Same(mem, held, {"predictions"})
            /\ UNCHANGED environment
            /\ \/ /\ mem' = done.s /\ disk' \in {done.s, disk}
                  /\ cursor' = AfterLine(audit, cursor)
               \/ crashes < MaxCrashes /\ Down /\ UNCHANGED disk
  BY ReadSays
<1>2. CASE Down /\ UNCHANGED disk
  BY <1>1, <1>2, WholeDown
<1>3. CASE mem' = done.s /\ disk' \in {done.s, disk} /\ cursor' = AfterLine(audit, cursor)
  <2>1. pc = "read" /\ Whole(audit, cursor)
    BY DEF ReadRow
  <2>2. PICK n \in DOMAIN audit.lines :
          /\ cursor = 2 * (n - 1) /\ n \in Nat /\ LineAt(audit, cursor) = audit.lines[n]
          /\ cursor' = 2 * n /\ audit.lines[n] \in Line
    BY <1>3, <2>1, LineRead
  <2> DEFINE f == audit  u == mem'
  <2>3. u = Consume(held, f.lines[n]).s
    BY <1>1, <1>3, <2>2
  <2>4. Shape(held) /\ held.processed = mem.processed /\ held.inventory = mem.inventory
        /\ held.offset = mem.offset /\ held.inode = mem.inode
    BY <1>1 DEF Same, Fields
  <2>5. Applies(held, f.lines[n], u)
    BY <2>2, <2>3, <2>4, ConsumeApplies
  <2>6. /\ f \in Files /\ \A i, j \in DOMAIN f.lines : f.lines[i].id = f.lines[j].id => i = j
        /\ mem.offset \in Nat /\ mem.inode = f.inode /\ mem.offset <= cursor
        /\ cursor <= Size(f)
    BY <2>1 DEF Core, Typed, Reading, FileOK, Files, MemoryTyped
  <2>7. Start(f, held) = held.offset
    <3>1. Size(f) \in Int BY <2>6, SizeIs
    <3> QED BY <2>2, <2>4, <2>6, <3>1 DEF Start, StartAt
  <2>8. Ordered(f, held) /\ Latest(f, held) /\ Passed(f, held, 2 * (n - 1))
    <3>1. Ordered(f, mem) /\ Latest(f, mem) /\ Passed(f, mem, cursor)
      BY <2>1, WholeIs
    <3>2. Start(f, held) = Start(f, mem)
      BY <2>4 DEF Start
    <3>3. Passed(f, held, cursor)
      BY <2>4, <3>1 DEF Passed
    <3> HIDE DEF f
    <3>4. Ordered(f, held) /\ Latest(f, held)
      BY <2>4, <3>1, <3>2, SameOrdered, SameLatest
    <3> QED BY <2>2, <3>3, <3>4
  <2>9. mem.offset % 2 = 0 BY DEF WholeLines
  <2> HIDE DEF f, u
  <2>10. Ordered(f, u) /\ Latest(f, u) /\ Passed(f, u, 2 * n)
    <3>1. held.offset \in Nat /\ held.offset <= 2 * (n - 1) /\ n \in DOMAIN f.lines
      BY <2>2, <2>4, <2>6 DEF f
    <3> QED BY <2>5, <2>6, <2>7, <2>8, <3>1, ReadWhole
  <2>11. u.offset % 2 = 0 /\ (2 * n) % 2 = 0
    BY <2>2, <2>4, <2>5, <2>9 DEF Applies
  <2> QED BY <1>1, <1>3, <2>2, <2>10, <2>11, WholeProcess DEF f, u
<1> QED BY <1>1, <1>2, <1>3

LEMMA WholeSkip ==
  ASSUME Core, WholeLines, SkipLine
  PROVE  FALSE
<1>1. pc = "read" /\ cursor < Size(audit) /\ ~Whole(audit, cursor) /\ cursor % 2 = 0
  <2>1. audit \in Files /\ cursor \in Nat BY DEF Core, Typed, FileOK, Files
  <2>2. Size(audit) \in Int BY <2>1, SizeIs
  <2> QED BY <2>1, <2>2 DEF SkipLine, AtEnd, WholeLines
<1>2. Size(audit) = 2 * Len(audit.lines) /\ Len(audit.lines) \in Nat /\ cursor \in Nat
  BY SizeIs DEF Core, Typed, FileOK, Files, WholeLines
<1>3. cursor + 2 <= Size(audit)
  BY <1>1, <1>2
<1> QED BY <1>1, <1>3 DEF Whole

LEMMA WholeEnd ==
  ASSUME Core, WholeLines, EndAudit
  PROVE  WholeLines'
<1>1. /\ Same(mem, mem', {"offset"}) /\ mem'.offset = cursor
      /\ cursor = Size(audit) /\ Start(audit, mem') = cursor /\ disk' \in {mem', disk}
      /\ UNCHANGED environment /\ pc' = "settle"
  BY EndCore
<1>2. mem'.processed = mem.processed /\ mem'.inventory = mem.inventory
  BY <1>1 DEF Same, Fields
<1>3. Size(audit) = 2 * Len(audit.lines) /\ Len(audit.lines) \in Nat
      /\ DOMAIN audit.lines = 1..Len(audit.lines)
  BY SizeIs DEF Core, Typed, FileOK, Files, WholeLines
<1>4. Ordered(audit, mem')
  <2>1. \A i \in DOMAIN audit.lines : ~(cursor <= 2 * (i - 1))
    BY <1>1, <1>3
  <2> QED BY <1>1, <2>1 DEF Ordered
<1> DEFINE u == mem'
<1>5. u.processed = mem.processed /\ u.inventory = mem.inventory /\ Latest(audit, mem)
  BY <1>2 DEF WholeLines
<1> HIDE DEF u
<1>6. Latest(audit, u)
  BY <1>5, SameLatest
<1>7. mem'.offset % 2 = 0
  <2> DEFINE n == Len(audit.lines)
  <2>1. mem'.offset = 2 * n /\ n \in Nat BY <1>1, <1>3
  <2> HIDE DEF n
  <2> QED BY <2>1
<1> QED BY <1>1, <1>4, <1>6, <1>7, WholeProcess DEF u

LEMMA WholeSettle ==
  ASSUME Core, WholeLines, Settle
  PROVE  WholeLines'
<1>1. PICK sample, order, after :
    /\ order \in Orders(mem, sample) /\ after = Settlement(mem, sample, order)
    /\ UNCHANGED environment
    /\ \/ mem' = after.s /\ disk' \in {after.s, disk} /\ pc' = "poll"
       \/ Down /\ UNCHANGED disk
  BY SettleSays
<1>2. CASE Down /\ UNCHANGED disk
  BY <1>1, <1>2, WholeDown
<1>3. CASE mem' = after.s /\ disk' \in {after.s, disk} /\ pc' = "poll"
  <2>1. MemoryTyped(mem) /\ now \in Nat
    BY DEF Core, Typed
  <2>2. PICK P, I, Q : /\ InventoryDone(mem, I)
                       /\ Settled(mem, after, P, I, Q)
    BY <1>1, <2>1, SettlementSays
  <2> DEFINE u == mem'
  <2>3. /\ u.processed = mem.processed /\ u.offset = mem.offset /\ u.inode = mem.inode
        /\ u.inventory = I.kept
    BY <1>3, <2>2 DEF Settled, Same, Fields
  <2>4. /\ DOMAIN u.inventory \subseteq DOMAIN mem.inventory
        /\ \A m \in DOMAIN u.inventory : /\ u.inventory[m].up = mem.inventory[m].up
                                         /\ u.inventory[m].down = mem.inventory[m].down
    BY <2>2, <2>3 DEF InventoryDone
  <2>5. Ordered(audit, mem) /\ Latest(audit, mem) /\ mem.offset % 2 = 0
    BY DEF WholeLines
  <2>6. Start(audit, u) = Start(audit, mem)
    BY <2>3 DEF Start
  <2> HIDE DEF u
  <2>7. Ordered(audit, u) /\ Latest(audit, u) /\ u.offset % 2 = 0
    BY <2>3, <2>4, <2>5, <2>6, SameOrdered, SameLatest
  <2> QED BY <1>1, <1>3, <2>7, WholeProcess DEF u
<1> QED BY <1>1, <1>2, <1>3

LEMMA WholeKept ==
  ASSUME Core, torns = 0 => WholeLines, [Next]_vars
  PROVE  torns' = 0 => WholeLines'
<1> SUFFICES ASSUME torns' = 0 PROVE WholeLines'
  OBVIOUS
<1>1. CASE Environment
  <2>1. torns <= torns' BY <1>1, FileKept DEF Core
  <2>2. torns = 0 BY <2>1 DEF Core, Typed
  <2> QED BY <1>1, <2>2, WholeEnvironment
<1>2. CASE Restart \/ Crash \/ Abort \/ Round
  <2>1. UNCHANGED environment
    BY <1>2 DEF Restart, Crash, Abort, Round, OpenAudit, ReadRow, SkipLine, EndAudit, Settle
  <2>2. WholeLines BY <2>1 DEF environment
  <2>3. CASE Restart BY <2>2, <2>3, WholeRestart
  <2>4. CASE Crash \/ Abort
    <3>1. Down /\ disk' \in {disk, mem} BY <2>4 DEF Crash, Abort
    <3> QED BY <2>1, <2>2, <3>1, WholeDown
  <2>5. CASE OpenAudit BY <2>2, <2>5, WholeOpen
  <2>6. CASE ReadRow BY <2>2, <2>6, WholeRead
  <2>7. CASE SkipLine BY <2>2, <2>7, WholeSkip
  <2>8. CASE EndAudit BY <2>2, <2>8, WholeEnd
  <2>9. CASE Settle BY <2>2, <2>9, WholeSettle
  <2> QED BY <1>2, <2>3, <2>4, <2>5, <2>6, <2>7, <2>8, <2>9 DEF Round
<1>3. CASE UNCHANGED vars
  <2>1. /\ UNCHANGED environment /\ mem' = mem /\ disk' = disk /\ pc' = pc /\ cursor' = cursor
    BY <1>3 DEF vars, environment
  <2>2. WholeLines BY <2>1 DEF environment
  <2>3. /\ mem.offset % 2 = 0 /\ Ordered(audit, mem) /\ Latest(audit, mem)
        /\ pc = "read" => cursor % 2 = 0 /\ Passed(audit, mem, cursor)
    BY <2>2, WholeIs
  <2>4. Ordered(audit, mem') /\ Latest(audit, mem') /\ mem'.offset % 2 = 0
    BY <2>1, <2>3
  <2>5. pc' = "read" => cursor' % 2 = 0 /\ Passed(audit, mem', cursor')
    BY <2>1, <2>3
  <2> QED BY <2>1, <2>2, <2>4, <2>5, WholeProcess
<1> QED BY <1>1, <1>2, <1>3 DEF Next
-----------------------------------------------------------------------------
(* As long as the process lives, an event ends once. *)

\* What is completed, orphaned or opened in a step was not before, and is apart.
Adds(s, u, T) ==
  /\ u.completed = s.completed \o T
  /\ \A i \in DOMAIN T :
       \/ T[i].by = "settled" /\ T[i].of \in Markets
       \/ T[i].by # "settled" /\ T[i].of \in Ids \ (Ended(s) \cup u.orphaned)
  /\ \A i, j \in DOMAIN T :
       T[i].by # "settled" /\ T[j].by # "settled" /\ T[i].of = T[j].of => i = j
  /\ Ended(s) \cap u.orphaned = {}
  /\ \A k \in DOMAIN u.positions :
       /\ u.positions[k].event \notin u.orphaned \cup Ended(s)
       /\ \A i \in DOMAIN T : T[i].by # "settled" => T[i].of # u.positions[k].event
       /\ \A j \in DOMAIN u.positions : u.positions[k].event = u.positions[j].event => k = j

LEMMA StaysApart ==
  ASSUME NEW s, s.completed \in Seq(Trades), Apart(s), NEW u, NEW T \in Seq(Trades),
         Adds(s, u, T)
  PROVE  /\ Apart(u)
         /\ Ended(u) \subseteq
              Ended(s) \cup {T[i].of : i \in {j \in DOMAIN T : T[j].by # "settled"}}
<1> DEFINE a == s.completed  c == u.completed
<1> USE DEF Adds
<1>0. a \in Seq(Trades) /\ c = a \o T
  OBVIOUS
<1>a. /\ Ends(s) = {i \in DOMAIN a : a[i].by # "settled"}
      /\ Ends(u) = {i \in DOMAIN c : c[i].by # "settled"}
      /\ Ended(s) = {a[i].of : i \in Ends(s)} /\ Ended(u) = {c[i].of : i \in Ends(u)}
  BY DEF Ends, Ended
<1>b. /\ Ended(s) \subseteq Ids \ s.orphaned
      /\ \A i, j \in Ends(s) : a[i].of = a[j].of => i = j
      /\ \A i \in DOMAIN a \ Ends(s) : a[i].of \in Markets
  BY DEF Apart
<1> HIDE DEF a, c
<1>1. \A i \in DOMAIN c : \/ i \in DOMAIN a /\ c[i] = a[i]
                          \/ i - Len(a) \in DOMAIN T /\ c[i] = T[i - Len(a)]
  BY <1>0, Concatenated
<1>2. DOMAIN c \subseteq Int /\ Len(a) \in Int
  BY <1>0
<1>3. \A i \in Ends(u) : \/ i \in Ends(s) /\ c[i] = a[i]
                         \/ /\ i - Len(a) \in DOMAIN T /\ c[i] = T[i - Len(a)]
                            /\ T[i - Len(a)].by # "settled"
  BY <1>1, <1>a
<1>4. Ended(u) \subseteq Ended(s) \cup {T[i].of : i \in {j \in DOMAIN T : T[j].by # "settled"}}
  BY <1>3, <1>a
<1>5. Ended(u) \subseteq Ids \ u.orphaned
  BY <1>4, <1>b
<1>6. ASSUME NEW i \in Ends(u), NEW j \in Ends(u), c[i].of = c[j].of PROVE i = j
  <2>1. CASE i \in Ends(s) /\ c[i] = a[i] /\ j \in Ends(s) /\ c[j] = a[j]
    BY <1>6, <1>b, <2>1
  <2>2. CASE /\ i - Len(a) \in DOMAIN T /\ c[i] = T[i - Len(a)] /\ T[i - Len(a)].by # "settled"
             /\ j - Len(a) \in DOMAIN T /\ c[j] = T[j - Len(a)] /\ T[j - Len(a)].by # "settled"
    <3>1. i - Len(a) = j - Len(a) BY <1>6, <2>2
    <3>2. i \in Int /\ j \in Int BY <1>2, <1>a
    <3> QED BY <1>2, <3>1, <3>2
  <2>3. ASSUME NEW m \in Ends(u), NEW n \in Ends(u), c[m].of = c[n].of,
               m \in Ends(s), c[m] = a[m],
               n - Len(a) \in DOMAIN T, c[n] = T[n - Len(a)], T[n - Len(a)].by # "settled"
        PROVE  FALSE
    <3>1. a[m].of \in Ended(s) BY <1>a, <2>3
    <3>2. T[n - Len(a)].of \notin Ended(s) BY <2>3
    <3> QED BY <2>3, <3>1, <3>2
  <2> QED BY <1>3, <1>6, <2>1, <2>2, <2>3
<1>7. \A i \in DOMAIN c \ Ends(u) : c[i].of \in Markets
  BY <1>1, <1>a, <1>b
<1>8. \A k \in DOMAIN u.positions : u.positions[k].event \notin u.orphaned \cup Ended(u)
  <2> SUFFICES ASSUME NEW k \in DOMAIN u.positions
               PROVE  u.positions[k].event \notin u.orphaned \cup Ended(u)
    OBVIOUS
  <2> DEFINE e == u.positions[k].event
  <2>1. e \notin u.orphaned \cup Ended(s) /\ \A i \in DOMAIN T : T[i].by # "settled" => T[i].of # e
    OBVIOUS
  <2> HIDE DEF e
  <2>2. e \notin u.orphaned \cup Ended(u)
    BY <1>4, <2>1
  <2> QED BY <2>2 DEF e
<1>9. Apart(u)
  BY <1>5, <1>6, <1>7, <1>8 DEF Apart, c
<1> QED BY <1>4, <1>9

\* An event opens, or nothing completes: the lists stay apart.
LEMMA OpensApart ==
  ASSUME NEW s, s.completed \in Seq(Trades), Apart(s), NEW u,
         u.completed = s.completed, u.orphaned = s.orphaned,
         \A k \in DOMAIN u.positions :
           /\ u.positions[k].event \notin s.orphaned \cup Ended(s)
           /\ \A j \in DOMAIN u.positions : u.positions[k].event = u.positions[j].event => k = j
  PROVE  Apart(u) /\ Ended(u) = Ended(s)
<1>1. Ends(u) = Ends(s) /\ Ended(u) = Ended(s)
  BY DEF Ends, Ended
<1> QED BY <1>1 DEF Apart

\* One event completes that was met as a position or never.
LEMMA CompletesApart ==
  ASSUME NEW s, s.completed \in Seq(Trades), Apart(s), NEW u, NEW t \in Trades,
         t.by # "settled", t.of \in Ids \ (Ended(s) \cup s.orphaned),
         u.completed = Append(s.completed, t), u.orphaned = s.orphaned,
         DOMAIN u.positions \subseteq DOMAIN s.positions,
         \A k \in DOMAIN u.positions :
           u.positions[k].event = s.positions[k].event /\ u.positions[k].event # t.of
  PROVE  Apart(u) /\ Ended(u) \subseteq Ended(s) \cup {t.of}
<1> DEFINE T == <<t>>
<1>1. T \in Seq(Trades) /\ DOMAIN T = {1} /\ T[1] = t /\ u.completed = s.completed \o T
  OBVIOUS
<1>2. Ended(s) \cap u.orphaned = {}
  BY DEF Apart
<1>3. \A k \in DOMAIN u.positions :
        /\ u.positions[k].event \notin u.orphaned \cup Ended(s)
        /\ \A i \in DOMAIN T : T[i].by # "settled" => T[i].of # u.positions[k].event
        /\ \A j \in DOMAIN u.positions : u.positions[k].event = u.positions[j].event => k = j
  BY <1>1 DEF Apart
<1>4. /\ \A i \in DOMAIN T :
           \/ T[i].by = "settled" /\ T[i].of \in Markets
           \/ T[i].by # "settled" /\ T[i].of \in Ids \ (Ended(s) \cup u.orphaned)
      /\ \A i, j \in DOMAIN T :
           T[i].by # "settled" /\ T[j].by # "settled" /\ T[i].of = T[j].of => i = j
  BY <1>1
<1>e. Adds(s, u, T)
  BY <1>1, <1>2, <1>3, <1>4 DEF Adds
<1> HIDE DEF T
<1>5. Apart(u) /\ Ended(u) \subseteq
        Ended(s) \cup {T[i].of : i \in {j \in DOMAIN T : T[j].by # "settled"}}
  BY <1>1, <1>e, StaysApart
<1> QED BY <1>1, <1>5

\* A row nobody has met keeps its memory apart, and is all that is met in addition.
LEMMA ConsumeOnce ==
  ASSUME NEW s, MemoryTyped(s), Apart(s), emitted \subseteq Ids, NEW row \in Line,
         row.id \notin Met(s), row.id \in emitted
  PROVE  LET u == Consume(s, row).s IN Apart(u) /\ Met(u) \subseteq Met(s) \cup {row.id}
<1> DEFINE r == Consume(s, row)
<1> SUFFICES Apart(r.s) /\ Met(r.s) \subseteq Met(s) \cup {row.id}
  OBVIOUS
<1>0. \/ Exited(s, row, r) \/ SplitSold(s, row, r) \/ Stocked(s, row, r)
      \/ Quoted(s, row, r) \/ Rejected(s, row, r) \/ Opened(s, row, r)
      \/ Untouched(s, row, r)
  BY ConsumeSays DEF MemoryTyped
<1> HIDE DEF r
<1>a. /\ s.completed \in Seq(Trades) /\ row.id \in Ids /\ row.id \notin s.orphaned \cup Ended(s)
      /\ \A k \in DOMAIN s.positions : s.positions[k].event # row.id
      /\ \A k \in DOMAIN s.positions : s.positions[k] \in Position /\ s.positions[k].event \in Ids
      /\ row.id \notin {"complete", "settled"}
  BY RowsAssumption DEF MemoryTyped, Met, Position
<1>b. /\ \A k \in DOMAIN s.positions :
           /\ s.positions[k].event \notin s.orphaned \cup Ended(s)
           /\ \A j \in DOMAIN s.positions : s.positions[k].event = s.positions[j].event => k = j
  BY DEF Apart
<1>k. Key(row) \in Keys /\ row.ts \in Nat
  BY KeyOfLine
<1>1. CASE Exited(s, row, r)
  <2> DEFINE k == Key(row)
             t == Trade(s.positions[k].event, row.id, row.strategy,
                        row.proceeds - s.positions[k].cost, row.ts)
             u == r.s
  <2>1. /\ k \in DOMAIN s.positions
        /\ Same(s, u, {"positions", "completed"})
        /\ u.positions = Without(s.positions, {k}) /\ u.completed = Append(s.completed, t)
    BY <1>1 DEF Exited
  <2>2. /\ t \in Trades /\ t.of = s.positions[k].event /\ t.by = row.id
    BY <1>a, <1>k, <2>1 DEF Trade, Trades, Line, AuditRow, Position
  <2> HIDE DEF t, k, u
  <2>3. DOMAIN u.positions = DOMAIN s.positions \ {k}
        /\ \A j \in DOMAIN u.positions : u.positions[j] = s.positions[j]
    BY <2>1 DEF Without, Restrict
  <2>4. u.orphaned = s.orphaned /\ u.processed = s.processed
    BY <2>1 DEF Same, Fields
  <2>5. \A j \in DOMAIN u.positions : u.positions[j].event # t.of
    BY <1>b, <2>1, <2>2, <2>3
  <2>6. Apart(u) /\ Ended(u) \subseteq Ended(s) \cup {t.of}
    <3>1. t.by # "settled" /\ t.of \in Ids \ (Ended(s) \cup s.orphaned)
      BY <1>a, <1>b, <2>1, <2>2
    <3>2. DOMAIN u.positions \subseteq DOMAIN s.positions
          /\ \A j \in DOMAIN u.positions :
               u.positions[j].event = s.positions[j].event /\ u.positions[j].event # t.of
      BY <2>3, <2>5
    <3> QED BY <1>a, <2>1, <2>2, <2>4, <3>1, <3>2, CompletesApart
  <2>7. t.of \in Met(s)
    BY <2>1, <2>2 DEF Met
  <2>8. Met(u) \subseteq Met(s)
    BY <2>3, <2>4, <2>6, <2>7 DEF Met
  <2> QED BY <2>6, <2>8 DEF u
<1>2. ASSUME NEW t \in Trades, t.of = row.id, t.by = "complete",
             r.s.completed = Append(s.completed, t), r.s.orphaned = s.orphaned,
             r.s.positions = s.positions, r.s.processed = s.processed \cup {row.id}
      PROVE  Apart(r.s) /\ Met(r.s) \subseteq Met(s) \cup {row.id}
  <2> DEFINE u == r.s
  <2>1. /\ u.completed = Append(s.completed, t) /\ u.orphaned = s.orphaned
        /\ DOMAIN u.positions \subseteq DOMAIN s.positions
        /\ \A k \in DOMAIN u.positions :
             u.positions[k].event = s.positions[k].event /\ u.positions[k].event # t.of
    BY <1>2, <1>a
  <2>2. t.by # "settled" /\ t.of \in Ids \ (Ended(s) \cup s.orphaned)
    BY <1>2, <1>a
  <2> HIDE DEF u
  <2>3. Apart(u) /\ Ended(u) \subseteq Ended(s) \cup {t.of}
    BY <1>a, <2>1, <2>2, CompletesApart
  <2>4. Met(u) \subseteq Met(s) \cup {row.id}
    BY <1>2, <2>3 DEF Met, u
  <2> QED BY <2>3, <2>4 DEF u
<1>3. ASSUME r.s.completed = s.completed, r.s.orphaned = s.orphaned,
             r.s.positions = s.positions, r.s.processed \subseteq s.processed \cup {row.id}
      PROVE  Apart(r.s) /\ Met(r.s) \subseteq Met(s) \cup {row.id}
  <2> DEFINE u == r.s
  <2>1. /\ u.completed = s.completed /\ u.orphaned = s.orphaned
        /\ \A k \in DOMAIN u.positions :
             /\ u.positions[k].event \notin s.orphaned \cup Ended(s)
             /\ \A j \in DOMAIN u.positions : u.positions[k].event = u.positions[j].event => k = j
    BY <1>3, <1>b
  <2> HIDE DEF u
  <2>2. Apart(u) /\ Ended(u) = Ended(s)
    BY <1>a, <2>1, OpensApart
  <2>3. Met(u) \subseteq Met(s) \cup {row.id}
    BY <1>3, <2>2 DEF Met, u
  <2> QED BY <2>2, <2>3 DEF u
<1>4. CASE SplitSold(s, row, r)
  <2> DEFINE t == Trade(row.id, "complete", "split", row.locked, row.ts)
  <2>1. t \in Trades /\ t.of = row.id /\ t.by = "complete"
    BY <1>a, <1>k DEF Trade, Trades, Line, AuditRow
  <2> HIDE DEF t
  <2>2. /\ r.s.completed = Append(s.completed, t) /\ r.s.orphaned = s.orphaned
        /\ r.s.positions = s.positions /\ r.s.processed = s.processed \cup {row.id}
    BY <1>4 DEF SplitSold, Same, Fields, t
  <2> QED BY <1>2, <2>1, <2>2
<1>5. CASE Stocked(s, row, r)
  <2> DEFINE t == Trade(row.id, "complete", "inventory", row.locked, row.ts)
  <2>1. t \in Trades /\ t.of = row.id /\ t.by = "complete"
    BY <1>a, <1>k DEF Trade, Trades, Line, AuditRow
  <2> HIDE DEF t
  <2>2. /\ \/ r.s.completed = Append(s.completed, t)
           \/ r.s.completed = s.completed
        /\ r.s.orphaned = s.orphaned
        /\ r.s.positions = s.positions /\ r.s.processed = s.processed \cup {row.id}
    BY <1>5 DEF Stocked, Same, Fields, t
  <2> QED BY <1>2, <1>3, <2>1, <2>2
<1>6. CASE Quoted(s, row, r)
  BY <1>3, <1>6 DEF Quoted, Same, Fields
<1>7. CASE Rejected(s, row, r)
  <2>1. /\ r.s.completed = s.completed /\ r.s.orphaned = s.orphaned
        /\ r.s.positions = s.positions /\ r.s.processed = s.processed
    BY <1>7 DEF Rejected, Same, Fields
  <2> QED BY <1>3, <2>1
<1>8. CASE Opened(s, row, r)
  <2> DEFINE p == [event |-> row.id, ts |-> row.ts, cost |-> row.cost, size |-> row.size,
                   hedge |-> row.hedge, hedged |-> row.type = "hedged", hold |-> row.hold,
                   pending |-> FALSE]
             u == r.s
  <2>1. /\ Key(row) \notin DOMAIN s.positions
        /\ Same(s, u, {"positions", "rejections"})
        /\ u.positions = With(s.positions, Key(row), p)
    BY <1>8 DEF Opened
  <2>2. p.event = row.id OBVIOUS
  <2> HIDE DEF p, u
  <2>3. u.completed = s.completed /\ u.orphaned = s.orphaned /\ u.processed = s.processed
    BY <2>1 DEF Same, Fields
  <2>4. /\ DOMAIN u.positions = DOMAIN s.positions \cup {Key(row)}
        /\ \A k \in DOMAIN u.positions :
             u.positions[k].event = IF k = Key(row) THEN row.id ELSE s.positions[k].event
    BY <2>1, <2>2 DEF With
  <2>5. \A k \in DOMAIN u.positions :
          /\ u.positions[k].event \notin s.orphaned \cup Ended(s)
          /\ \A j \in DOMAIN u.positions : u.positions[k].event = u.positions[j].event => k = j
    BY <1>a, <1>b, <2>4
  <2>6. Apart(u) /\ Ended(u) = Ended(s)
    BY <1>a, <2>3, <2>5, OpensApart
  <2>7. Met(u) \subseteq Met(s) \cup {row.id}
    BY <2>3, <2>4, <2>6 DEF Met
  <2> QED BY <2>6, <2>7 DEF u
<1>9. CASE Untouched(s, row, r)
  BY <1>9 DEF Untouched
<1> QED BY <1>0, <1>1, <1>4, <1>5, <1>6, <1>7, <1>8, <1>9

\* A settlement ends positions it holds, each once, and inventories of markets.
LEMMA SettlementOnce ==
  ASSUME NEW s, MemoryTyped(s), Apart(s), emitted \subseteq Ids, now \in Nat,
         NEW sample, NEW order \in Orders(s, sample)
  PROVE  LET u == Settlement(s, sample, order).s
         IN  Apart(u) /\ Met(u) \subseteq Met(s) \cup Markets
<1> DEFINE r == Settlement(s, sample, order)
<1> SUFFICES Apart(r.s) /\ Met(r.s) \subseteq Met(s) \cup Markets
  OBVIOUS
<1>0. PICK P, I, Q : PositionsDone(s, order, P) /\ InventoryDone(s, I) /\ Settled(s, r, P, I, Q)
  BY SettlementSays
<1> HIDE DEF r
<1> DEFINE A == P.trades  B == I.trades  T == A \o B  u == r.s
           e == [k \in DOMAIN s.positions |-> s.positions[k].event]
<1>1. /\ s.completed \in Seq(Trades) /\ A \in Seq(Trades) /\ B \in Seq(Trades)
      /\ T \in Seq(Trades)
  <2>1. A \in Seq(Trades) /\ B \in Seq(Trades) /\ s.completed \in Seq(Trades)
    BY <1>0 DEF PositionsDone, InventoryDone, MemoryTyped
  <2> HIDE DEF A, B
  <2> QED BY <2>1
<1>2. /\ u.completed = s.completed \o T /\ u.positions = P.kept
      /\ u.orphaned = s.orphaned \cup P.orphaned \cup I.orphaned /\ u.processed = s.processed
  BY <1>0 DEF Settled, Same, Fields
<1>3. /\ \A i \in DOMAIN order : order[i] \in DOMAIN s.positions /\ order[i] \in ToSet(order)
      /\ \A i, j \in DOMAIN order : order[i] = order[j] => i = j
  BY OrderSays
<1>4. /\ DOMAIN A = DOMAIN order
      /\ \A i \in DOMAIN A : A[i].of = e[order[i]] /\ A[i].by = "complete"
  BY <1>0, <1>3 DEF PositionsDone
<1>5. \A i \in DOMAIN B : B[i].of \in Markets /\ B[i].by = "settled"
  BY <1>0 DEF InventoryDone
<1>6. /\ DOMAIN u.positions \subseteq DOMAIN s.positions \ ToSet(order)
      /\ \A k \in DOMAIN u.positions : u.positions[k].event = e[k]
  BY <1>0, <1>2 DEF PositionsDone
<1>7. P.orphaned \subseteq {e[k] : k \in DOMAIN s.positions \ (DOMAIN u.positions \cup ToSet(order))}
  BY <1>0, <1>2 DEF PositionsDone
<1>8. I.orphaned \subseteq Markets
  BY <1>0 DEF InventoryDone
<1>9. /\ \A k \in DOMAIN s.positions : /\ e[k] \in Ids /\ e[k] \notin s.orphaned \cup Ended(s)
                                       /\ \A j \in DOMAIN s.positions : e[k] = e[j] => k = j
      /\ Ended(s) \subseteq Ids \ s.orphaned
  BY DEF Apart, MemoryTyped, Position
<1>10. Ids \cap Markets = {}
  BY RowsAssumption
<1>11. \A i \in DOMAIN T : \/ i \in DOMAIN A /\ T[i] = A[i]
                           \/ T[i].by = "settled" /\ T[i].of \in Markets
  <2> HIDE DEF A, B
  <2>1. \A i \in DOMAIN T : \/ i \in DOMAIN A /\ T[i] = A[i]
                            \/ i - Len(A) \in DOMAIN B /\ T[i] = B[i - Len(A)]
    BY <1>1, Concatenated
  <2> QED BY <1>5, <2>1
<1> HIDE DEF A, B, T, u, e
<1>12. \A k \in DOMAIN s.positions : k \in ToSet(order) \cup DOMAIN u.positions => e[k] \notin u.orphaned
  <2> SUFFICES ASSUME NEW k \in DOMAIN s.positions, k \in ToSet(order) \cup DOMAIN u.positions
               PROVE  e[k] \notin u.orphaned
    OBVIOUS
  <2>1. e[k] \notin s.orphaned /\ e[k] \notin I.orphaned BY <1>8, <1>9, <1>10
  <2>2. e[k] \notin P.orphaned BY <1>7, <1>9
  <2> QED BY <1>2, <2>1, <2>2
<1>13. \A i \in DOMAIN T : T[i].by # "settled" =>
         /\ i \in DOMAIN order /\ T[i].of = e[order[i]]
         /\ T[i].of \in Ids \ (Ended(s) \cup u.orphaned)
  BY <1>3, <1>4, <1>9, <1>11, <1>12
<1>14. \A i, j \in DOMAIN T :
         T[i].by # "settled" /\ T[j].by # "settled" /\ T[i].of = T[j].of => i = j
  BY <1>3, <1>9, <1>13
<1>15. Ended(s) \cap u.orphaned = {}
  <2>1. Ended(s) \cap P.orphaned = {} BY <1>7, <1>9
  <2>2. Ended(s) \cap I.orphaned = {} BY <1>8, <1>9, <1>10
  <2> QED BY <1>2, <1>9, <2>1, <2>2
<1>16. \A k \in DOMAIN u.positions :
         /\ u.positions[k].event \notin u.orphaned \cup Ended(s)
         /\ \A i \in DOMAIN T : T[i].by # "settled" => T[i].of # u.positions[k].event
         /\ \A j \in DOMAIN u.positions : u.positions[k].event = u.positions[j].event => k = j
  <2> SUFFICES ASSUME NEW k \in DOMAIN u.positions
               PROVE  /\ e[k] \notin u.orphaned \cup Ended(s)
                      /\ \A i \in DOMAIN T : T[i].by # "settled" => T[i].of # e[k]
                      /\ \A j \in DOMAIN u.positions : e[k] = e[j] => k = j
    BY <1>6
  <2>1. k \in DOMAIN s.positions /\ k \notin ToSet(order) BY <1>6
  <2>2. \A i \in DOMAIN T : T[i].by # "settled" => T[i].of # e[k]
    BY <1>3, <1>9, <1>13, <2>1
  <2>3. \A j \in DOMAIN u.positions : e[k] = e[j] => k = j
    BY <1>6, <1>9, <2>1
  <2> QED BY <1>9, <1>12, <2>1, <2>2, <2>3
<1>17. Adds(s, u, T)
  <2>1. \A i \in DOMAIN T :
          \/ T[i].by = "settled" /\ T[i].of \in Markets
          \/ T[i].by # "settled" /\ T[i].of \in Ids \ (Ended(s) \cup u.orphaned)
    <3> SUFFICES ASSUME NEW i \in DOMAIN T, T[i].by = "settled" PROVE T[i].of \in Markets
      BY <1>13
    <3>1. i \in DOMAIN A /\ T[i] = A[i] => T[i].by = "complete"
      BY <1>4
    <3> QED BY <1>11, <3>1
  <2>2. u.completed = s.completed \o T
    BY <1>2
  <2>3. /\ Ended(s) \cap u.orphaned = {}
        /\ \A i, j \in DOMAIN T :
             T[i].by # "settled" /\ T[j].by # "settled" /\ T[i].of = T[j].of => i = j
    BY <1>14, <1>15
  <2> QED BY <1>16, <2>1, <2>2, <2>3 DEF Adds
<1>18. /\ Apart(u)
       /\ Ended(u) \subseteq
            Ended(s) \cup {T[i].of : i \in {j \in DOMAIN T : T[j].by # "settled"}}
  BY <1>1, <1>17, StaysApart
<1>19. Met(u) \subseteq Met(s) \cup Markets
  <2> DEFINE E == {e[k] : k \in DOMAIN s.positions}
  <2>1. Met(s) = Ended(s) \cup E \cup s.orphaned \cup s.processed
    BY DEF Met, e
  <2>2. Ended(u) \subseteq Ended(s) \cup E
    BY <1>3, <1>13, <1>18
  <2>3. {u.positions[k].event : k \in DOMAIN u.positions} \subseteq E
    BY <1>6
  <2>4. u.orphaned \subseteq s.orphaned \cup E \cup Markets
    <3>1. P.orphaned \subseteq E BY <1>7
    <3> QED BY <1>2, <1>8, <3>1
  <2> HIDE DEF E
  <2> QED BY <1>2, <2>1, <2>2, <2>3, <2>4 DEF Met
<1> QED BY <1>18, <1>19 DEF u

LEMMA UnmetFurther ==
  ASSUME NEW f, NEW s, NEW pos \in Int, NEW next \in Int, pos <= next,
         DOMAIN f.lines \subseteq Int, Unmet(f, s, pos)
  PROVE  Unmet(f, s, next)
BY DEF Unmet

LEMMA OnceEnvironment ==
  ASSUME Core, LivesOnce, Environment
  PROVE  LivesOnce'
<1>0. /\ UNCHANGED <<pc, listed, mem, dirty, disk, log, cursor, counted, crashes>>
  BY DEF Environment
<1>1. /\ audit \in Files /\ mem.offset \in Nat /\ cursor \in Nat /\ emitted \subseteq Ids
      /\ now \in Nat
  BY DEF Core, Typed, FileOK, Files, MemoryTyped
<1>2. emitted \subseteq emitted' /\ audit' \in Files
  BY FileKept DEF Core, FileOK, Files
<1>3. Apart(mem') /\ Met(mem') \subseteq emitted' \cup Markets
      /\ (pc' = "down" => disk' = Fresh /\ log' = <<>>)
  BY <1>0, <1>2 DEF LivesOnce
<1>4. Ahead \in Int
  BY <1>1 DEF Ahead, Start, StartAt
<1> DEFINE g == audit'
<1>5. CASE audit'.inode = audit.inode /\ Size(audit) <= Size(audit')
           /\ \A i \in DOMAIN g.lines : \/ i \in DOMAIN audit.lines /\ g.lines[i] = audit.lines[i]
                                        \/ g.lines[i].id \notin Met(mem)
  <2>1. Size(audit) \in Int /\ Size(g) \in Int
    BY <1>1, <1>2, SizeIs
  <2>2. Ahead <= Ahead' /\ Ahead' \in Int
    BY <1>0, <1>1, <1>5, <2>1 DEF Ahead, Start, StartAt
  <2>3. Unmet(g, mem, Ahead)
    BY <1>5 DEF LivesOnce, Unmet
  <2>4. DOMAIN g.lines \subseteq Int
    BY <1>2, SizeIs
  <2> HIDE DEF g
  <2> DEFINE a == Ahead'
  <2>5. a \in Int /\ Ahead <= a BY <2>2
  <2> HIDE DEF a
  <2>6. Unmet(g, mem, a)
    BY <1>4, <2>3, <2>4, <2>5, UnmetFurther
  <2>7. Unmet(audit, mem, Ahead)'
    BY <1>0, <2>6 DEF g, a, Unmet, Met, Ended, Ends
  <2> QED BY <1>3, <2>7 DEF LivesOnce
<1>6. CASE Tick
  <2>1. audit' = audit BY <1>6 DEF Tick
  <2>2. Size(audit) \in Int BY <1>1, SizeIs
  <2> QED BY <1>5, <2>1, <2>2
<1>7. CASE Emit
  <2>1. PICK row \in Rows :
          /\ ~audit.torn /\ row.id \notin emitted
          /\ \/ audit' = AppendLine(audit, [row EXCEPT !.ts = now])
             \/ audit' = AppendHalf(audit, [row EXCEPT !.ts = now])
    BY <1>7 DEF Emit
  <2> DEFINE line == [row EXCEPT !.ts = now]
  <2>2. line \in Line /\ line.id = row.id /\ row.id \in Ids
    BY <1>1, <2>1, RowsAssumption DEF AuditRow, Line, Ids
  <2>3. line.id \notin Met(mem)
    BY <2>1, <2>2, RowsAssumption DEF LivesOnce
  <2>4. g \in {AppendLine(audit, line), AppendHalf(audit, line)}
    BY <2>1
  <2> HIDE DEF line, g
  <2> DEFINE n == Len(audit.lines)
  <2>5. /\ g.inode = audit.inode /\ Size(audit) <= Size(g) /\ n \in Nat
        /\ DOMAIN g.lines = 1..(n + 1) /\ DOMAIN audit.lines = 1..n
        /\ g.lines[n + 1] = line
        /\ \A i \in DOMAIN audit.lines : g.lines[i] = audit.lines[i]
    BY <1>1, <2>1, <2>2, <2>4, AppendedIs
  <2> HIDE DEF n
  <2>6. \A i \in DOMAIN g.lines : i \in DOMAIN audit.lines \/ i = n + 1
    BY <2>5
  <2>7. \A i \in DOMAIN g.lines : \/ i \in DOMAIN audit.lines /\ g.lines[i] = audit.lines[i]
                                  \/ g.lines[i].id \notin Met(mem)
    BY <2>3, <2>5, <2>6
  <2> QED BY <1>5, <2>5, <2>7 DEF g
<1>8. CASE Flush
  <2>1. audit.torn /\ audit' = [audit EXCEPT !.torn = FALSE]
    BY <1>8 DEF Flush, FinishLine
  <2>2. audit'.lines = audit.lines /\ audit'.inode = audit.inode /\ audit'.torn = FALSE
    BY <1>1, <2>1 DEF Files
  <2>3. Size(audit) <= Size(audit')
    <3>1. Len(audit.lines) \in Nat BY <1>1, SizeIs
    <3> QED BY <2>1, <2>2, <3>1 DEF Size
  <2> QED BY <1>5, <2>2, <2>3
<1>9. CASE Rotate
  <2>1. /\ audit' \in {EmptyFile(audit.inode), EmptyFile(audit.inode + 1)}
    BY <1>9 DEF Rotate, Truncated, Replaced
  <2>2. audit.inode \in Nat /\ audit.inode + 1 \in Nat
    BY <1>1 DEF Files
  <2>3. DOMAIN g.lines = {}
    BY <2>1, <2>2, EmptyFileIs
  <2>4. Unmet(audit, mem, Ahead)'
    BY <2>3 DEF Unmet
  <2> QED BY <1>3, <2>4 DEF LivesOnce
<1> QED BY <1>6, <1>7, <1>8, <1>9 DEF Environment

\* What an event's end is told from stays as it is.
LEMMA SameOnce ==
  ASSUME NEW s, NEW u, Apart(s), u.positions = s.positions, u.completed = s.completed,
         u.orphaned = s.orphaned, u.processed = s.processed
  PROVE  /\ Apart(u) /\ Met(u) = Met(s)
         /\ \A f, pos : Unmet(f, s, pos) => Unmet(f, u, pos)
<1>1. Ends(u) = Ends(s) /\ Ended(u) = Ended(s)
  BY DEF Ends, Ended
<1>2. Apart(u) /\ Met(u) = Met(s)
  BY <1>1 DEF Apart, Met
<1> QED BY <1>2 DEF Unmet

\* Events end once, of a step of the process.
LEMMA OnceProcess ==
  ASSUME Core, LivesOnce, UNCHANGED environment, pc' # "down",
         Apart(mem'), Met(mem') \subseteq emitted \cup Markets, Unmet(audit, mem', Ahead')
  PROVE  LivesOnce'
<1>1. audit' = audit /\ emitted' = emitted
  BY DEF environment
<1> DEFINE a == Ahead'  u == mem'
<1>2. Apart(u) /\ Met(u) \subseteq emitted' \cup Markets /\ Unmet(audit', u, a)
  BY <1>1
<1> HIDE DEF a, u
<1>3. Unmet(audit, mem, Ahead)'
  BY <1>2 DEF a, u
<1> QED BY <1>2, <1>3 DEF LivesOnce, u

LEMMA OnceRestart ==
  ASSUME Core, LivesOnce, Restart
  PROVE  LivesOnce'
<1>1. /\ pc' = "poll" /\ mem' = Backfill(disk) /\ UNCHANGED environment
      /\ disk = Fresh /\ log = <<>>
  BY DEF Restart, LivesOnce
<1>2. mem' = Fresh
  BY <1>1, BackfillSays DEF Core, Typed
<1>3. Met(Fresh) = {} /\ Apart(Fresh)
  <2>1. Fresh.completed = <<>> /\ DOMAIN Fresh.positions = {} /\ Fresh.orphaned = {}
        /\ Fresh.processed = {} /\ DOMAIN Fresh.completed = {}
    BY DEF Fresh, NoMap
  <2>2. Ends(Fresh) = {} /\ Ended(Fresh) = {}
    BY <2>1 DEF Ends, Ended
  <2> QED BY <2>1, <2>2 DEF Met, Apart
<1>4. Unmet(audit, mem', Ahead')
  BY <1>2, <1>3 DEF Unmet
<1> QED BY <1>1, <1>2, <1>3, <1>4, OnceProcess

LEMMA OnceOpen ==
  ASSUME Core, LivesOnce, OpenAudit
  PROVE  LivesOnce'
<1>1. /\ Same(mem, mem', {"offset", "inode"})
      /\ cursor' = Start(audit, mem) /\ cursor' = Start(audit, mem')
  BY OpenCore
<1>2. pc = "poll" /\ pc' = "read" /\ UNCHANGED environment
  BY DEF OpenAudit
<1> DEFINE u == mem'
<1>3. /\ u.positions = mem.positions /\ u.completed = mem.completed
      /\ u.orphaned = mem.orphaned /\ u.processed = mem.processed
  BY <1>1 DEF Same, Fields
<1> HIDE DEF u
<1>4. Apart(u) /\ Met(u) = Met(mem) /\ Unmet(audit, u, Ahead)
  BY <1>3, SameOnce DEF LivesOnce
<1>5. Ahead' = Ahead
  BY <1>1, <1>2 DEF Ahead
<1>6. Met(u) \subseteq emitted \cup Markets
  BY <1>4 DEF LivesOnce
<1> QED BY <1>2, <1>4, <1>5, <1>6, OnceProcess DEF u

LEMMA OnceRead ==
  ASSUME Core, LivesOnce, ReadRow, crashes' = crashes
  PROVE  LivesOnce'
<1>1. PICK held, done :
        LET row == LineAt(audit, cursor)
        IN  /\ done = Consume(held, row)
            /\ MemoryTyped(held) /\ Same(mem, held, {"predictions"})
            /\ UNCHANGED environment
            /\ \/ mem' = done.s /\ cursor' = AfterLine(audit, cursor) /\ UNCHANGED pc
               \/ Down
  BY ReadSays
<1>2. mem' = done.s /\ cursor' = AfterLine(audit, cursor) /\ UNCHANGED <<pc, environment>>
  <2>1. ~Down BY DEF Down, Core, Typed
  <2> QED BY <1>1, <2>1
<1>3. pc = "read" /\ Whole(audit, cursor)
  BY DEF ReadRow
<1>4. PICK n \in DOMAIN audit.lines :
        /\ cursor = 2 * (n - 1) /\ n \in Nat /\ LineAt(audit, cursor) = audit.lines[n]
        /\ cursor' = 2 * n /\ audit.lines[n] \in Line /\ audit.lines[n].id \in emitted
  BY <1>2, <1>3, LineRead
<1> DEFINE f == audit  row == f.lines[n]  u == mem'
<1>5. /\ held.positions = mem.positions /\ held.completed = mem.completed
      /\ held.orphaned = mem.orphaned /\ held.processed = mem.processed
  BY <1>1 DEF Same, Fields
<1>6. /\ Apart(held) /\ Met(held) = Met(mem) /\ Unmet(f, mem, cursor)
  <2>1. Ahead = cursor BY <1>3 DEF Ahead
  <2> QED BY <1>5, <2>1, SameOnce DEF LivesOnce
<1>7. row.id \notin Met(mem) /\ row \in Line /\ row.id \in emitted
  BY <1>4, <1>6 DEF Unmet
<1>8. u = Consume(held, row).s
  BY <1>1, <1>2, <1>4
<1>9. /\ emitted \subseteq Ids /\ f \in Files
      /\ \A i, j \in DOMAIN f.lines : f.lines[i].id = f.lines[j].id => i = j
  BY DEF Core, Typed, FileOK, Files
<1>10. DOMAIN f.lines \subseteq Int
  BY <1>9, SizeIs
<1>11. \A i \in DOMAIN f.lines : i # n => f.lines[i].id # row.id
  BY <1>9
<1> HIDE DEF f, row, u
<1>12. Apart(u) /\ Met(u) \subseteq Met(mem) \cup {row.id}
  BY <1>1, <1>6, <1>7, <1>8, <1>9, ConsumeOnce
<1>13. Unmet(f, u, 2 * n)
  <2> SUFFICES ASSUME NEW i \in DOMAIN f.lines, 2 * n <= 2 * (i - 1)
               PROVE  f.lines[i].id \notin Met(u)
    BY DEF Unmet
  <2>1. i # n /\ cursor <= 2 * (i - 1)
    BY <1>4, <1>10
  <2> QED BY <1>6, <1>11, <1>12, <2>1 DEF Unmet
<1>14. Ahead' = 2 * n
  BY <1>2, <1>3, <1>4 DEF Ahead
<1>15. Met(u) \subseteq emitted \cup Markets
  BY <1>7, <1>12 DEF LivesOnce
<1> QED BY <1>2, <1>3, <1>12, <1>13, <1>14, <1>15, OnceProcess DEF f, u

LEMMA OnceSkip ==
  ASSUME Core, LivesOnce, SkipLine
  PROVE  LivesOnce'
<1>1. /\ pc = "read" /\ pc' = pc /\ mem' = mem /\ cursor' = AfterLine(audit, cursor)
      /\ ~Whole(audit, cursor) /\ UNCHANGED environment
  BY DEF SkipLine
<1>2. cursor \in Nat /\ audit \in Files
  BY DEF Core, Typed, FileOK, Files
<1>3. Ahead = cursor /\ Ahead' = cursor + 1
  BY <1>1 DEF Ahead, AfterLine
<1>4. DOMAIN audit.lines \subseteq Int
  BY <1>2, SizeIs
<1>5. Unmet(audit, mem, cursor + 1)
  BY <1>2, <1>3, <1>4, UnmetFurther DEF LivesOnce
<1>6. Apart(mem') /\ Met(mem') \subseteq emitted \cup Markets /\ Unmet(audit, mem', Ahead')
  BY <1>1, <1>3, <1>5 DEF LivesOnce
<1> QED BY <1>1, <1>6, OnceProcess

LEMMA OnceEnd ==
  ASSUME Core, LivesOnce, EndAudit
  PROVE  LivesOnce'
<1>1. /\ Same(mem, mem', {"offset"}) /\ Start(audit, mem') = cursor
      /\ UNCHANGED environment /\ pc' = "settle" /\ pc = "read"
  BY EndCore DEF EndAudit
<1> DEFINE u == mem'
<1>2. /\ u.positions = mem.positions /\ u.completed = mem.completed
      /\ u.orphaned = mem.orphaned /\ u.processed = mem.processed
  BY <1>1 DEF Same, Fields
<1> HIDE DEF u
<1>3. Apart(u) /\ Met(u) = Met(mem) /\ Unmet(audit, u, Ahead)
  BY <1>2, SameOnce DEF LivesOnce
<1>4. Ahead' = Ahead
  <2>1. audit' = audit BY <1>1 DEF environment
  <2>2. Ahead' = Start(audit', mem') BY <1>1 DEF Ahead
  <2> QED BY <1>1, <2>1, <2>2 DEF Ahead
<1>5. Met(u) \subseteq emitted \cup Markets
  BY <1>3 DEF LivesOnce
<1> QED BY <1>1, <1>3, <1>4, <1>5, OnceProcess DEF u

LEMMA OnceSettle ==
  ASSUME Core, LivesOnce, Settle, crashes' = crashes
  PROVE  LivesOnce'
<1>1. PICK sample, order, after :
    /\ order \in Orders(mem, sample) /\ after = Settlement(mem, sample, order)
    /\ UNCHANGED environment
    /\ \/ mem' = after.s /\ pc' = "poll"
       \/ Down
  BY SettleSays
<1>2. mem' = after.s /\ pc' = "poll"
  <2>1. ~Down BY DEF Down, Core, Typed
  <2> QED BY <1>1, <2>1
<1>3. MemoryTyped(mem) /\ now \in Nat /\ emitted \subseteq Ids /\ audit \in Files
      /\ Apart(mem) /\ pc = "settle"
  BY DEF Core, Typed, LivesOnce, FileOK, Files, Settle
<1> DEFINE u == mem'
<1>4. u = Settlement(mem, sample, order).s
  BY <1>1, <1>2
<1>5. u.offset = mem.offset /\ u.inode = mem.inode
  <2>1. PICK P, I, Q : Settled(mem, after, P, I, Q)
    BY <1>1, <1>3, SettlementSays
  <2> QED BY <1>2, <2>1 DEF Settled, Same, Fields
<1> HIDE DEF u
<1>6. Apart(u) /\ Met(u) \subseteq Met(mem) \cup Markets
  BY <1>1, <1>3, <1>4, SettlementOnce
<1>7. Ahead' = Ahead
  <2>1. audit' = audit BY <1>1 DEF environment
  <2>2. Ahead' = Start(audit', mem') /\ Ahead = Start(audit, mem)
    BY <1>2, <1>3 DEF Ahead
  <2> QED BY <1>5, <2>1, <2>2 DEF Start, u
<1>8. Unmet(audit, u, Ahead)
  <2>1. \A i \in DOMAIN audit.lines : audit.lines[i].id \notin Markets
    <3>1. \A i \in DOMAIN audit.lines : audit.lines[i].id \in Ids
      BY <1>3 DEF Core, Typed, FileOK
    <3> QED BY <3>1, RowsAssumption
  <2>2. Unmet(audit, mem, Ahead) BY DEF LivesOnce
  <2> QED BY <1>6, <2>1, <2>2 DEF Unmet
<1>9. Met(u) \subseteq emitted \cup Markets
  BY <1>6 DEF LivesOnce
<1> QED BY <1>1, <1>2, <1>6, <1>7, <1>8, <1>9, OnceProcess DEF u

LEMMA OnceKept ==
  ASSUME Core, crashes = 0 => LivesOnce, [Next]_vars
  PROVE  crashes' = 0 => LivesOnce'
<1> SUFFICES ASSUME crashes' = 0 PROVE LivesOnce'
  OBVIOUS
<1>0. crashes \in Nat /\ (Down => crashes' = crashes + 1)
  BY WorldAssumption DEF Core, Typed, Down
<1>1. ~Down
  BY <1>0
<1>2. crashes = 0 => LivesOnce
  OBVIOUS
<1>3. CASE Environment
  <2>1. crashes' = crashes BY <1>3 DEF Environment
  <2> QED BY <1>2, <1>3, <2>1, OnceEnvironment
<1>4. CASE Restart
  <2>1. crashes' = crashes BY <1>4 DEF Restart
  <2> QED BY <1>2, <1>4, <2>1, OnceRestart
<1>5. CASE Crash \/ Abort
  BY <1>1, <1>5 DEF Crash, Abort
<1>6. CASE OpenAudit
  <2>1. crashes' = crashes BY <1>6 DEF OpenAudit
  <2> QED BY <1>2, <1>6, <2>1, OnceOpen
<1>7. CASE ReadRow
  <2>1. crashes' = crashes BY <1>1, <1>7 DEF ReadRow
  <2> QED BY <1>2, <1>7, <2>1, OnceRead
<1>8. CASE SkipLine
  <2>1. crashes' = crashes BY <1>8 DEF SkipLine
  <2> QED BY <1>2, <1>8, <2>1, OnceSkip
<1>9. CASE EndAudit
  <2>1. crashes' = crashes BY <1>9 DEF EndAudit
  <2> QED BY <1>2, <1>9, <2>1, OnceEnd
<1>10. CASE Settle
  <2>1. crashes' = crashes BY <1>1, <1>10 DEF Settle
  <2> QED BY <1>2, <1>10, <2>1, OnceSettle
<1>11. CASE UNCHANGED vars
  <2>1. UNCHANGED <<pc, mem, disk, log, cursor, audit, emitted, crashes>>
    BY <1>11 DEF vars
  <2>2. LivesOnce BY <1>2, <2>1
  <2>3. Ahead' = Ahead
    BY <2>1 DEF Ahead
  <2> DEFINE a == Ahead'  u == mem'
  <2>4. /\ Apart(u) /\ Met(u) \subseteq emitted' \cup Markets /\ Unmet(audit', u, a)
        /\ pc' = "down" => disk' = Fresh /\ log' = <<>>
    BY <2>1, <2>2, <2>3 DEF LivesOnce
  <2> HIDE DEF a, u
  <2>5. Unmet(audit, mem, Ahead)'
    BY <2>4 DEF a, u
  <2> QED BY <2>4, <2>5 DEF LivesOnce, u
<1> QED BY <1>3, <1>4, <1>5, <1>6, <1>7, <1>8, <1>9, <1>10, <1>11 DEF Next, Round
-----------------------------------------------------------------------------
(* The theorems. *)

LEMMA InitInv == Init => IInv
<1> SUFFICES ASSUME Init PROVE IInv
  OBVIOUS
<1>1. Core
  BY InitCore
<1>2. /\ audit = EmptyFile(1) /\ mem = Fresh /\ disk = Fresh /\ log = <<>> /\ pc = "down"
      /\ emitted = {} /\ cursor = 0
  BY DEF Init
<1>3. DOMAIN audit.lines = {} /\ audit.torn = FALSE
  BY <1>2, EmptyFileIs
<1>4. WholeLines
  <2>1. Ordered(audit, Fresh) /\ Latest(audit, Fresh)
    BY FreshWhole
  <2>2. Fresh.offset % 2 = 0
    BY DEF Fresh
  <2> QED BY <1>2, <1>3, <2>1, <2>2 DEF WholeLines
<1>5. LivesOnce
  <2>1. Fresh.completed = <<>> /\ DOMAIN Fresh.positions = {} /\ Fresh.orphaned = {}
        /\ Fresh.processed = {} /\ DOMAIN Fresh.completed = {}
    BY DEF Fresh, NoMap
  <2>2. Ends(Fresh) = {} /\ Ended(Fresh) = {}
    BY <2>1 DEF Ends, Ended
  <2>3. Met(Fresh) = {} /\ Apart(Fresh)
    BY <2>1, <2>2 DEF Met, Apart
  <2>4. Unmet(audit, mem, Ahead)
    BY <1>3 DEF Unmet
  <2> QED BY <1>2, <2>3, <2>4 DEF LivesOnce
<1> QED BY <1>1, <1>4, <1>5 DEF IInv

\* The memory, its checkpoint, the log and the audit file keep their types; what
\* the log holds is counted, what is unsaved is marked; a file without torn lines
\* is read in order; and while the process lives, what it met it meets no more.
THEOREM Inductive == Spec => []IInv
<1>1. IInv /\ [Next]_vars => IInv'
  <2> SUFFICES ASSUME IInv, [Next]_vars PROVE IInv'
    OBVIOUS
  <2>1. Core /\ (torns = 0 => WholeLines) /\ (crashes = 0 => LivesOnce)
    BY DEF IInv
  <2> QED BY <2>1, CoreKept, WholeKept, OnceKept DEF IInv
<1> QED BY <1>1, InitInv, PTL DEF Spec

\* StrategyShadowLifecycle.data and the checkpoint keep the types of TypeOK,
\* whatever the engine writes and wherever the process dies.
THEOREM TypeCorrect == Spec => []TypeOK
<1>1. IInv => TypeOK
  BY DEF IInv, Core, Typed, TypeOK, MemoryOK, MemoryTyped
<1> QED BY <1>1, Inductive, PTL

\* _backfill_completed_trades: a running process counts every trade its log has.
THEOREM TradesCounted == Spec => []LoggedTradesCounted
<1>1. IInv => LoggedTradesCounted
  BY DEF IInv, Core
<1> QED BY <1>1, Inductive, PTL

\* _save and _dirty: what is not in the checkpoint is marked, and what ended is in it.
THEOREM CheckpointSafe == Spec => []CheckpointKeepsUp
<1>1. IInv => CheckpointKeepsUp
  BY DEF IInv, Core
<1> QED BY <1>1, Inductive, PTL

\* _capture_prediction and settle: a prediction is scored once.
THEOREM ScoredSafe == Spec => []ScoredOnce
<1>1. IInv => ScoredOnce
  <2> SUFFICES ASSUME IInv PROVE ScoredOnce
    OBVIOUS
  <2>1. ScoredApart(mem)
    BY DEF IInv, Core
  <2>2. ToSet(mem.scored) = {mem.scored[i] : i \in DOMAIN mem.scored}
    BY DEF ToSet
  <2> QED BY <2>1, <2>2 DEF ScoredOnce, ScoredApart
<1> QED BY <1>1, Inductive, PTL

\* _consume_inventory: no row read again undoes a younger one.
THEOREM InventorySafe == Spec => []InventoryIsLatest
<1>1. IInv => InventoryIsLatest
  <2> SUFFICES ASSUME IInv, torns = 0, NEW m \in DOMAIN mem.inventory
               PROVE  LET read == {i \in DOMAIN audit.lines :
                                     /\ audit.lines[i].type \in {"inventory_eval", "inventory_action"}
                                     /\ audit.lines[i].market = m
                                     /\ audit.lines[i].id \in mem.processed}
                          last == audit.lines[CHOOSE i \in read : \A j \in read : j <= i]
                      IN  read # {} => /\ mem.inventory[m].up = last.up
                                       /\ mem.inventory[m].down = last.down
    BY DEF InventoryIsLatest
  <2> DEFINE read == {i \in DOMAIN audit.lines :
                        /\ audit.lines[i].type \in {"inventory_eval", "inventory_action"}
                        /\ audit.lines[i].market = m
                        /\ audit.lines[i].id \in mem.processed}
             at == CHOOSE i \in read : \A j \in read : j <= i
             last == audit.lines[at]
  <2> SUFFICES ASSUME read # {}
               PROVE  mem.inventory[m].up = last.up /\ mem.inventory[m].down = last.down
    OBVIOUS
  <2>0. read = Applied(audit, mem, m)
    BY DEF Applied, Stocks
  <2>1. Latest(audit, mem) /\ audit \in Files
    BY DEF IInv, WholeLines, Core, Typed, FileOK, Files
  <2>2. read \subseteq 1..Len(audit.lines) /\ Len(audit.lines) \in Nat
    BY <2>1, SizeIs
  <2>3. \E i \in read : \A j \in read : j <= i
    <3> DEFINE n == Len(audit.lines)
    <3>1. read \subseteq 0..n /\ n \in Nat
      BY <2>2
    <3> HIDE DEF read, n
    <3> QED BY <3>1, LargestOf
  <2> HIDE DEF read
  <2>4. at \in read /\ \A j \in read : j <= at
    BY <2>3
  <2> HIDE DEF at
  <2> QED BY <2>0, <2>1, <2>4 DEF Latest
<1> QED BY <1>1, Inductive, PTL

\* consume and settle: while the process lives, torn lines, truncations and
\* replaced files make no entry complete twice, or complete and be orphaned.
THEOREM EndsOnceSafe == Spec => []CrashFreeEndsOnce
<1>1. IInv => CrashFreeEndsOnce
  <2> SUFFICES ASSUME IInv, crashes = 0
               PROVE  EndsOnce /\ \A i \in DOMAIN mem.completed :
                                    mem.completed[i].by # "settled" =>
                                      mem.completed[i].of \notin mem.orphaned
    BY DEF CrashFreeEndsOnce
  <2> DEFINE c == mem.completed  E == Ends(mem)
  <2>1. Apart(mem)
    BY DEF IInv, LivesOnce
  <2>2. E = {i \in DOMAIN c : c[i].by # "settled"}
    BY DEF Ends
  <2>3. Ended(mem) = {c[i].of : i \in E}
    BY DEF Ended
  <2>4. /\ Ended(mem) \subseteq Ids \ mem.orphaned
        /\ \A i, j \in E : c[i].of = c[j].of => i = j
        /\ \A i \in DOMAIN c \ E : c[i].of \in Markets
    BY <2>1 DEF Apart
  <2>5. Ids \cap Markets = {}
    BY RowsAssumption
  <2> HIDE DEF c, E
  <2>6. \A i \in E : c[i].of \in Ids \ mem.orphaned
    BY <2>3, <2>4
  <2>7. \A i \in DOMAIN c : c[i].by # "settled" => i \in E
    BY <2>2
  <2>8. \A i, j \in DOMAIN c : c[i].of = c[j].of /\ c[i].by # "settled" => i = j
    <3> SUFFICES ASSUME NEW i \in DOMAIN c, NEW j \in DOMAIN c,
                        c[i].of = c[j].of, c[i].by # "settled"
                 PROVE  i = j
      OBVIOUS
    <3>1. i \in E BY <2>7
    <3>2. j \in E BY <2>4, <2>5, <2>6, <3>1
    <3> QED BY <2>4, <3>1, <3>2
  <2> QED BY <2>6, <2>7, <2>8 DEF EndsOnce, c
<1> QED BY <1>1, Inductive, PTL
==============================================================================
