---------------------------- MODULE LossLimitProofs ----------------------------
(***************************************************************************)
(* The daily loss limit of the strategy shadow lifecycle holds against the *)
(* log: whatever a process logged and did not live to save, the next one   *)
(* has it before it opens a position.                                      *)
(*                                                                         *)
(* A crash may leave a position open whose trade is logged, so that it is  *)
(* completed again and the log holds two trades of one identity, maybe     *)
(* with different results.  The first of them is what a restart reads      *)
(* back; the invariant is that the memory has that very trade.             *)
(***************************************************************************)
EXTENDS StrategyLifecycleProofs

Completes(l) == {i \in DOMAIN l : l[i].kind = "complete"}
First(l) == {i \in Completes(l) :
               \A j \in Completes(l) : SameTrade(l[j].trade, l[i].trade) => i <= j}
Has(s, t) == \E j \in DOMAIN s.completed : s.completed[j] = t

\* A memory has the first trade of each identity in the log.
Full(s, l) == \A i \in First(l) : Has(s, l[i].trade)

\* A memory has no trade the log has not, nor a later one without the first.
Known(s, l) == \A j \in DOMAIN s.completed : \E i \in First(l) :
                 SameTrade(l[i].trade, s.completed[j]) /\ Has(s, l[i].trade)

FirstsCounted == /\ Known(disk, log)
                 /\ Running => Full(mem, log) /\ Known(mem, log)

\* A step completes the trades it logs.
Completed(s, u, records) ==
  \E T \in Seq(Trades) :
    /\ u.completed = s.completed \o T
    /\ \A i \in Completes(records) : \E j \in DOMAIN T : T[j] = records[i].trade
    /\ \A j \in DOMAIN T : \E i \in Completes(records) : T[j] = records[i].trade
-----------------------------------------------------------------------------
(* The first records of each trade. *)

LEMMA SameIsAlike ==
  ASSUME NEW t, NEW u, NEW v
  PROVE  /\ SameTrade(t, t) /\ (SameTrade(t, u) => SameTrade(u, t))
         /\ SameTrade(t, u) /\ SameTrade(u, v) => SameTrade(t, v)
BY DEF SameTrade

LEMMA FirstOf ==
  ASSUME NEW l \in Seq(Records), NEW i \in Completes(l)
  PROVE  \E f \in First(l) : f <= i /\ SameTrade(l[f].trade, l[i].trade)
<1> DEFINE Alike == {j \in Completes(l) : SameTrade(l[j].trade, l[i].trade)}
<1>1. DOMAIN l = 1..Len(l) /\ Len(l) \in Nat
  OBVIOUS
<1>2. Completes(l) \subseteq Nat
  BY <1>1 DEF Completes
<1>3. Alike \in SUBSET Nat /\ i \in Alike
  BY <1>2, SameIsAlike
<1> HIDE DEF Alike
<1>4. PICK f \in Alike : \A j \in Alike : f <= j
  BY <1>3, LeastNat
<1>5. f \in Completes(l) /\ SameTrade(l[f].trade, l[i].trade)
  BY DEF Alike
<1>6. ASSUME NEW j \in Completes(l), SameTrade(l[j].trade, l[f].trade) PROVE f <= j
  <2>1. j \in Alike
    BY <1>5, <1>6, SameIsAlike DEF Alike
  <2> QED BY <1>4, <2>1
<1>7. f \in First(l)
  BY <1>5, <1>6 DEF First
<1> QED BY <1>3, <1>4, <1>5, <1>7

\* One trade has one first record.
LEMMA FirstIsOne ==
  ASSUME NEW l \in Seq(Records), NEW i \in First(l), NEW f \in First(l),
         SameTrade(l[i].trade, l[f].trade)
  PROVE  i = f
<1>1. i \in Completes(l) /\ f \in Completes(l) /\ Completes(l) \subseteq Nat
  <2>1. DOMAIN l = 1..Len(l) /\ Len(l) \in Nat OBVIOUS
  <2> QED BY <2>1 DEF First, Completes
<1>2. i <= f /\ f <= i
  BY <1>1, SameIsAlike DEF First
<1> QED BY <1>1, <1>2

\* A first record remains one, and a new one is among the records added.
LEMMA FirstExtends ==
  ASSUME NEW l \in Seq(Records), NEW r \in Seq(Records)
  PROVE  /\ l \o r \in Seq(Records)
         /\ \A i \in First(l) : i \in First(l \o r) /\ (l \o r)[i] = l[i]
         /\ \A i \in Completes(l \o r) :
              \/ i \in Completes(l) /\ (l \o r)[i] = l[i]
              \/ i - Len(l) \in Completes(r) /\ (l \o r)[i] = r[i - Len(l)]
         /\ \A i \in First(l \o r) \cap Completes(l) : i \in First(l) /\ (l \o r)[i] = l[i]
         /\ \A i \in Completes(r) : /\ i + Len(l) \in Completes(l \o r)
                                    /\ (l \o r)[i + Len(l)] = r[i]
<1> DEFINE m == l \o r
<1>1. /\ m \in Seq(Records) /\ DOMAIN m = 1..(Len(l) + Len(r))
      /\ \A i \in DOMAIN m : \/ i \in DOMAIN l /\ m[i] = l[i]
                             \/ i - Len(l) \in DOMAIN r /\ i > Len(l) /\ m[i] = r[i - Len(l)]
      /\ \A i \in DOMAIN l : i \in DOMAIN m /\ m[i] = l[i]
      /\ \A i \in DOMAIN r : i + Len(l) \in DOMAIN m /\ m[i + Len(l)] = r[i]
  BY Concatenated
<1>2. DOMAIN l = 1..Len(l) /\ Len(l) \in Nat /\ Len(r) \in Nat
  OBVIOUS
<1> HIDE DEF m
<1>3. \A i \in Completes(m) :
        \/ i \in Completes(l) /\ m[i] = l[i]
        \/ i - Len(l) \in Completes(r) /\ m[i] = r[i - Len(l)] /\ i > Len(l)
  BY <1>1 DEF Completes
<1>4. \A i \in Completes(l) : i \in Completes(m) /\ m[i] = l[i] /\ i <= Len(l)
  BY <1>1, <1>2 DEF Completes
<1>5. \A i \in Completes(r) : i + Len(l) \in Completes(m) /\ m[i + Len(l)] = r[i]
  BY <1>1 DEF Completes
<1>6. Completes(m) \subseteq Nat
  BY <1>1, <1>2 DEF Completes
<1>7. ASSUME NEW i \in First(l) PROVE i \in First(m) /\ m[i] = l[i]
  <2>1. i \in Completes(l) /\ i \in Completes(m) /\ m[i] = l[i] /\ i <= Len(l)
    BY <1>4 DEF First
  <2>2. ASSUME NEW j \in Completes(m), SameTrade(m[j].trade, m[i].trade) PROVE i <= j
    <3>1. CASE j \in Completes(l) /\ m[j] = l[j]
      BY <2>1, <2>2, <3>1 DEF First
    <3>2. CASE j > Len(l)
      BY <1>2, <1>6, <2>1, <3>2
    <3> QED BY <1>3, <3>1, <3>2
  <2> QED BY <2>1, <2>2 DEF First
<1>8. ASSUME NEW i \in First(m) \cap Completes(l) PROVE i \in First(l) /\ m[i] = l[i]
  BY <1>4 DEF First
<1> QED BY <1>1, <1>3, <1>5, <1>7, <1>8 DEF m

\* What a memory has of the log it has of a longer one, as long as its trades stay.
LEMMA KnownGrows ==
  ASSUME NEW s, NEW l \in Seq(Records), NEW r \in Seq(Records), Known(s, l)
  PROVE  Known(s, l \o r)
<1> DEFINE m == l \o r
<1>1. \A i \in First(l) : i \in First(m) /\ m[i] = l[i]
  BY FirstExtends
<1> HIDE DEF m
<1>2. Known(s, m)
  BY <1>1 DEF Known
<1> QED BY <1>2 DEF m

\* A step that completes what it logs keeps both.
LEMMA CompletedKeeps ==
  ASSUME NEW s, s.completed \in Seq(Trades), NEW u, NEW l \in Seq(Records),
         NEW r \in Seq(Records), Completed(s, u, r), Full(s, l), Known(s, l)
  PROVE  Full(u, l \o r) /\ Known(u, l \o r)
<1> DEFINE m == l \o r  c == s.completed  d == u.completed
<1>1. PICK T \in Seq(Trades) :
        /\ d = c \o T
        /\ \A i \in Completes(r) : \E j \in DOMAIN T : T[j] = r[i].trade
        /\ \A j \in DOMAIN T : \E i \in Completes(r) : T[j] = r[i].trade
  BY DEF Completed
<1>2. /\ m \in Seq(Records)
      /\ \A i \in First(l) : i \in First(m) /\ m[i] = l[i]
      /\ \A i \in Completes(m) : \/ i \in Completes(l) /\ m[i] = l[i]
                                 \/ i - Len(l) \in Completes(r) /\ m[i] = r[i - Len(l)]
      /\ \A i \in First(m) \cap Completes(l) : i \in First(l) /\ m[i] = l[i]
      /\ \A i \in Completes(r) : i + Len(l) \in Completes(m) /\ m[i + Len(l)] = r[i]
  BY FirstExtends
<1>c. c \in Seq(Trades) OBVIOUS
<1> HIDE DEF m, c, d
<1>3. /\ \A j \in DOMAIN c : j \in DOMAIN d /\ d[j] = c[j]
      /\ \A j \in DOMAIN T : j + Len(c) \in DOMAIN d /\ d[j + Len(c)] = T[j]
      /\ \A j \in DOMAIN d : \/ j \in DOMAIN c /\ d[j] = c[j]
                             \/ j - Len(c) \in DOMAIN T /\ d[j] = T[j - Len(c)]
  BY <1>1, <1>c, Concatenated
<1>4. \A t : Has(s, t) => Has(u, t)
  BY <1>3 DEF Has, c, d
<1>5. \A j \in DOMAIN T : Has(u, T[j])
  BY <1>3 DEF Has, d
<1>6. ASSUME NEW i \in First(m) PROVE Has(u, m[i].trade)
  <2>1. i \in Completes(m) BY DEF First
  <2>2. CASE i \in Completes(l)
    BY <1>2, <1>4, <2>2 DEF Full
  <2>3. CASE i - Len(l) \in Completes(r) /\ m[i] = r[i - Len(l)]
    BY <1>1, <1>5, <2>3
  <2> QED BY <1>2, <2>1, <2>2, <2>3
<1>7. ASSUME NEW j \in DOMAIN d
      PROVE  \E i \in First(m) : SameTrade(m[i].trade, d[j]) /\ Has(u, m[i].trade)
  <2>1. CASE j \in DOMAIN c /\ d[j] = c[j]
    <3>1. PICK i \in First(l) : SameTrade(l[i].trade, c[j]) /\ Has(s, l[i].trade)
      BY <2>1 DEF Known, c
    <3> QED BY <1>2, <1>4, <2>1, <3>1
  <2>2. CASE j - Len(c) \in DOMAIN T /\ d[j] = T[j - Len(c)]
    <3>1. PICK i \in Completes(r) : d[j] = r[i].trade
      BY <1>1, <2>2
    <3>2. i + Len(l) \in Completes(m) /\ m[i + Len(l)].trade = d[j]
      BY <1>2, <3>1
    <3>3. PICK f \in First(m) : SameTrade(m[f].trade, d[j])
      BY <1>2, <3>2, FirstOf
    <3> QED BY <1>6, <3>3
  <2> QED BY <1>3, <2>1, <2>2
<1>8. Full(u, m) BY <1>6 DEF Full
<1>9. Known(u, m) BY <1>7 DEF Known, d
<1> QED BY <1>8, <1>9 DEF m
-----------------------------------------------------------------------------
(* The steps that complete trades. *)

LEMMA CompletesNothing ==
  ASSUME NEW s, s.completed \in Seq(Trades), NEW u, u.completed = s.completed,
         NEW r, Completes(r) = {}
  PROVE  Completed(s, u, r)
<1>1. s.completed = s.completed \o <<>> /\ <<>> \in Seq(Trades) /\ DOMAIN <<>> = {}
  OBVIOUS
<1> QED BY <1>1 DEF Completed

LEMMA CompletesOne ==
  ASSUME NEW s, s.completed \in Seq(Trades), NEW u, NEW t \in Trades,
         u.completed = Append(s.completed, t)
  PROVE  Completed(s, u, <<Logged("complete", t)>>)
<1> DEFINE g == Logged("complete", t)  T == <<t>>
<1>1. g.kind = "complete" /\ g.trade = t
  BY DEF Logged
<1>2. u.completed = s.completed \o T /\ T \in Seq(Trades) /\ DOMAIN T = {1} /\ T[1] = t
  OBVIOUS
<1> HIDE DEF g, T
<1>3. DOMAIN <<g>> = {1} /\ <<g>>[1] = g
  OBVIOUS
<1>4. Completes(<<g>>) = {1}
  BY <1>1, <1>3 DEF Completes
<1>5. Completed(s, u, <<g>>)
  BY <1>1, <1>2, <1>3, <1>4 DEF Completed
<1> QED BY <1>5 DEF g

\* A row's handler completes what it logs.
LEMMA ConsumeCompletes ==
  ASSUME NEW s, MemoryTyped(s), NEW row \in Line
  PROVE  Completed(s, Consume(s, row).s, Consume(s, row).log)
<1> DEFINE r == Consume(s, row)
<1>0. /\ Shape(s) /\ s.completed \in Seq(Trades)
      /\ \A k \in DOMAIN s.positions : s.positions[k] \in Position
      /\ row.id \in Ids /\ row.ts \in Nat /\ row.market \in Markets
      /\ row.strategy \in Probability \cup {"paired"}
      /\ row.locked \in Nat /\ row.proceeds \in Nat
  BY DEF MemoryTyped, Line, AuditRow
<1>1. \/ Exited(s, row, r) \/ SplitSold(s, row, r) \/ Stocked(s, row, r)
      \/ Quoted(s, row, r) \/ Rejected(s, row, r) \/ Opened(s, row, r)
      \/ Untouched(s, row, r)
  BY <1>0, ConsumeSays
<1> SUFFICES Completed(s, r.s, r.log)
  OBVIOUS
<1> HIDE DEF r
<1>2. Completes(<<>>) = {}
  BY DEF Completes
<1>3. CASE Exited(s, row, r)
  <2> DEFINE p == s.positions[Key(row)]
             t == Trade(p.event, row.id, row.strategy, row.proceeds - p.cost, row.ts)
  <2>1. p \in Position
    BY <1>0, <1>3 DEF Exited
  <2>2. p.event \in Ids /\ row.proceeds - p.cost \in Int
    BY <1>0, <2>1 DEF Position
  <2>3. r.s.completed = Append(s.completed, t) /\ r.log = <<Logged("complete", t)>>
    BY <1>3 DEF Exited
  <2> HIDE DEF p
  <2>4. t \in Trades
    BY <1>0, <2>2 DEF Trade, Trades
  <2> HIDE DEF t
  <2> QED BY <1>0, <2>3, <2>4, CompletesOne
<1>4. CASE SplitSold(s, row, r)
  <2> DEFINE t == Trade(row.id, "complete", "split", row.locked, row.ts)
  <2>1. r.s.completed = Append(s.completed, t) /\ r.log = <<Logged("complete", t)>>
    BY <1>4 DEF SplitSold
  <2>2. t \in Trades
    BY <1>0 DEF Trade, Trades
  <2> HIDE DEF t
  <2> QED BY <1>0, <2>1, <2>2, CompletesOne
<1>5. CASE Stocked(s, row, r)
  <2> DEFINE t == Trade(row.id, "complete", "inventory", row.locked, row.ts)
             locks == row.accept /\ row.locked > 0
  <2>1. /\ r.s.completed = IF locks THEN Append(s.completed, t) ELSE s.completed
        /\ r.log = IF locks THEN <<Logged("complete", t)>> ELSE <<>>
    BY <1>5 DEF Stocked
  <2>2. t \in Trades
    BY <1>0 DEF Trade, Trades
  <2> HIDE DEF t, locks
  <2>3. CASE locks
    BY <1>0, <2>1, <2>2, <2>3, CompletesOne
  <2>4. CASE ~locks
    BY <1>0, <1>2, <2>1, <2>4, CompletesNothing
  <2> QED BY <2>3, <2>4
<1>6. CASE Quoted(s, row, r) \/ Opened(s, row, r) \/ Untouched(s, row, r)
  <2>1. r.s.completed = s.completed /\ r.log = <<>>
    BY <1>6 DEF Quoted, Opened, Untouched, Same, Fields
  <2> QED BY <1>0, <1>2, <2>1, CompletesNothing
<1>7. CASE Rejected(s, row, r)
  <2>1. r.s.completed = s.completed
    BY <1>7 DEF Rejected, Same, Fields
  <2>2. Completes(r.log) = {}
    <3> DEFINE t == Trade(row.id, "reject", row.strategy, 0, row.ts)  g == Logged("reject", t)
    <3>1. r.log = <<>> \/ r.log = <<g>>
      BY <1>7 DEF Rejected
    <3>2. g.kind # "complete"
      BY DEF Logged
    <3> HIDE DEF g
    <3>3. DOMAIN <<g>> = {1} /\ <<g>>[1] = g
      OBVIOUS
    <3>4. Completes(<<g>>) = {}
      BY <3>2, <3>3 DEF Completes
    <3> QED BY <1>2, <3>1, <3>4
  <2> QED BY <1>0, <2>1, <2>2, CompletesNothing
<1> QED BY <1>1, <1>3, <1>4, <1>5, <1>6, <1>7

\* So does a settlement.
LEMMA SettlementCompletes ==
  ASSUME NEW s, MemoryTyped(s), NEW sample, NEW order \in Orders(s, sample), now \in Nat
  PROVE  Completed(s, Settlement(s, sample, order).s, Settlement(s, sample, order).log)
<1> DEFINE r == Settlement(s, sample, order)
<1>1. PICK P, I, Q : /\ PositionsDone(s, order, P) /\ InventoryDone(s, I)
                     /\ PredictionsDone(s, Q) /\ Settled(s, r, P, I, Q)
  BY SettlementSays
<1> SUFFICES Completed(s, r.s, r.log)
  OBVIOUS
<1> HIDE DEF r
<1> DEFINE a == P.trades  b == I.trades  c == P.log  d == I.log
<1>2. /\ r.s.completed = s.completed \o (a \o b) /\ r.log = c \o d
      /\ a \in Seq(Trades) /\ b \in Seq(Trades) /\ c \in Seq(Records) /\ d \in Seq(Records)
  BY <1>1 DEF Settled, PositionsDone, InventoryDone
<1>3. /\ \A i \in Completes(c) : \E j \in DOMAIN a : a[j] = c[i].trade
      /\ \A j \in DOMAIN a : \E i \in Completes(c) : a[j] = c[i].trade
  BY <1>1 DEF PositionsDone, Completes
<1>4. /\ \A i \in Completes(d) : \E j \in DOMAIN b : b[j] = d[i].trade
      /\ \A j \in DOMAIN b : \E i \in Completes(d) : b[j] = d[i].trade
  BY <1>1 DEF InventoryDone, Completes
<1> HIDE DEF a, b, c, d
<1> DEFINE T == a \o b  g == c \o d
<1>5. /\ T \in Seq(Trades)
      /\ \A j \in DOMAIN T : \/ j \in DOMAIN a /\ T[j] = a[j]
                             \/ j - Len(a) \in DOMAIN b /\ T[j] = b[j - Len(a)]
      /\ \A j \in DOMAIN a : j \in DOMAIN T /\ T[j] = a[j]
      /\ \A j \in DOMAIN b : j + Len(a) \in DOMAIN T /\ T[j + Len(a)] = b[j]
  BY <1>2, Concatenated
<1>6. /\ \A i \in Completes(g) :
           \/ i \in Completes(c) /\ g[i] = c[i]
           \/ i - Len(c) \in Completes(d) /\ g[i] = d[i - Len(c)]
      /\ \A i \in Completes(d) : i + Len(c) \in Completes(g) /\ g[i + Len(c)] = d[i]
  <2> HIDE DEF T
  <2> QED BY <1>2, FirstExtends
<1>7. \A i \in Completes(c) : i \in Completes(g) /\ g[i] = c[i]
  <2>1. \A i \in DOMAIN c : i \in DOMAIN g /\ g[i] = c[i]
    BY <1>2, Concatenated
  <2> HIDE DEF g
  <2> QED BY <2>1 DEF Completes
<1> HIDE DEF T, g
<1>8. ASSUME NEW i \in Completes(g) PROVE \E j \in DOMAIN T : T[j] = g[i].trade
  <2>1. CASE i \in Completes(c) /\ g[i] = c[i]
    BY <1>3, <1>5, <2>1
  <2>2. CASE i - Len(c) \in Completes(d) /\ g[i] = d[i - Len(c)]
    BY <1>4, <1>5, <2>2
  <2> QED BY <1>6, <2>1, <2>2
<1>9. ASSUME NEW j \in DOMAIN T PROVE \E i \in Completes(g) : T[j] = g[i].trade
  <2>1. CASE j \in DOMAIN a /\ T[j] = a[j]
    BY <1>3, <1>7, <2>1
  <2>2. CASE j - Len(a) \in DOMAIN b /\ T[j] = b[j - Len(a)]
    <3>1. PICK i \in Completes(d) : T[j] = d[i].trade
      BY <1>4, <2>2
    <3> QED BY <1>6, <3>1
  <2> QED BY <1>5, <2>1, <2>2
<1>10. r.s.completed = s.completed \o T /\ r.log = g
  BY <1>2 DEF T, g
<1> QED BY <1>5, <1>8, <1>9, <1>10 DEF Completed
-----------------------------------------------------------------------------
(* The restart reads the first trades back. *)

\* A list read back from the log's first n records, after what s had.
ReadBack(s, known, n) ==
  /\ known \in Seq(Trades) /\ Knows(known, n)
  /\ \A j \in DOMAIN s.completed : j \in DOMAIN known /\ known[j] = s.completed[j]
  /\ \A j \in DOMAIN known : \/ j \in DOMAIN s.completed /\ known[j] = s.completed[j]
                             \/ \E i \in First(log) : known[j] = log[i].trade
  /\ s.completed = <<>> => \A i, j \in DOMAIN known : known[i] = known[j] => i = j

LEMMA ReadsBack ==
  ASSUME NEW s, s.completed \in Seq(Trades), log \in Seq(Records)
  PROVE  \E known : /\ ReadBack(s, known, Len(log))
                    /\ Backfill(s) = [s EXCEPT !.completed = known]
<1> DEFINE N == Len(log)
<1>1. N \in Nat /\ DOMAIN log = 1..N /\ \A i \in 1..N : log[i] \in Records
  OBVIOUS
<1>2. PICK after : /\ after[0] = s.completed
                   /\ \A n \in 1..N : after[n] = Added(after[n - 1], log[n])
                   /\ Backfill(s) = [s EXCEPT !.completed = after[N]]
  BY BackfillSteps
<1> DEFINE H == {m \in Nat : m <= N => ReadBack(s, after[m], m)}
<1>3. 0 \in H
  BY <1>2 DEF ReadBack, Knows
<1>4. ASSUME NEW m \in Nat, m \in H, m + 1 <= N PROVE ReadBack(s, after[m + 1], m + 1)
  <2> DEFINE a == after[m]  b == after[m + 1]  r == log[m + 1]
  <2>1. ReadBack(s, a, m)
    BY <1>1, <1>4
  <2>2. b = Added(a, r) /\ r \in Records
    <3>1. m + 1 \in 1..N /\ (m + 1) - 1 = m BY <1>1, <1>4
    <3> QED BY <1>1, <1>2, <3>1
  <2> HIDE DEF a, b
  <2>3. CASE r.kind # "complete" \/ \E i \in DOMAIN a : SameTrade(a[i], r.trade)
    <3>1. b = a BY <2>2, <2>3 DEF Added
    <3>2. Knows(a, m + 1)
      BY <2>1, <2>3 DEF ReadBack, Knows
    <3>3. ReadBack(s, b, m + 1)
      BY <2>1, <3>1, <3>2 DEF ReadBack
    <3> QED BY <3>3 DEF b
  <2>4. CASE r.kind = "complete" /\ ~ \E i \in DOMAIN a : SameTrade(a[i], r.trade)
    <3>1. b = Append(a, r.trade) /\ r.trade \in Trades
      BY <2>2, <2>4 DEF Records, Added
    <3>2. m + 1 \in Completes(log)
      BY <1>1, <1>4, <2>4 DEF Completes
    <3>3. ASSUME NEW j \in Completes(log), SameTrade(log[j].trade, log[m + 1].trade)
          PROVE  m + 1 <= j
      <4>1. j \in 1..N /\ log[j].kind = "complete"
        BY <1>1 DEF Completes
      <4>2. CASE j \in 1..m
        <5>1. PICK i \in DOMAIN a : SameTrade(a[i], log[j].trade)
          BY <2>1, <4>1, <4>2 DEF ReadBack, Knows
        <5> QED BY <2>4, <3>3, <5>1, SameIsAlike
      <4> QED BY <1>1, <1>4, <4>1, <4>2
    <3>4. m + 1 \in First(log)
      BY <3>2, <3>3 DEF First
    <3>5. a \in Seq(Trades) /\ Knows(a, m)
      BY <2>1 DEF ReadBack
    <3> HIDE DEF r
    <3>6. /\ b \in Seq(Trades) /\ DOMAIN b = DOMAIN a \cup {Len(a) + 1}
          /\ b[Len(a) + 1] = r.trade /\ Len(a) + 1 \notin DOMAIN a
          /\ \A j \in DOMAIN a : j \in DOMAIN b /\ b[j] = a[j]
      BY <3>1, <3>5
    <3>7. ASSUME NEW i \in 1..(m + 1), log[i].kind = "complete"
          PROVE  \E j \in DOMAIN b : SameTrade(b[j], log[i].trade)
      <4>1. CASE i \in 1..m
        <5>1. PICK j \in DOMAIN a : SameTrade(a[j], log[i].trade)
          BY <3>5, <3>7, <4>1 DEF Knows
        <5> QED BY <3>6, <5>1
      <4>2. CASE i = m + 1
        BY <3>6, <4>2, SameIsAlike DEF r
      <4> QED BY <4>1, <4>2
    <3>8. Knows(b, m + 1) BY <3>7 DEF Knows
    <3>9. \A j \in DOMAIN b : \/ j \in DOMAIN s.completed /\ b[j] = s.completed[j]
                              \/ \E i \in First(log) : b[j] = log[i].trade
      <4>1. \A j \in DOMAIN a : \/ j \in DOMAIN s.completed /\ a[j] = s.completed[j]
                                \/ \E i \in First(log) : a[j] = log[i].trade
        BY <2>1 DEF ReadBack
      <4>2. b[Len(a) + 1] = log[m + 1].trade BY <3>6 DEF r
      <4> QED BY <3>4, <3>6, <4>1, <4>2
    <3>10. \A j \in DOMAIN s.completed : j \in DOMAIN b /\ b[j] = s.completed[j]
      BY <2>1, <3>6 DEF ReadBack
    <3>11. \A j \in DOMAIN a : a[j] # r.trade
      BY <2>4, SameIsAlike DEF r
    <3>12. s.completed = <<>> => \A i, j \in DOMAIN b : b[i] = b[j] => i = j
      <4> SUFFICES ASSUME s.completed = <<>> PROVE \A i, j \in DOMAIN b : b[i] = b[j] => i = j
        OBVIOUS
      <4>1. \A i, j \in DOMAIN a : a[i] = a[j] => i = j
        BY <2>1 DEF ReadBack
      <4> QED BY <3>6, <3>11, <4>1
    <3>13. ReadBack(s, b, m + 1)
      BY <3>6, <3>8, <3>9, <3>10, <3>12 DEF ReadBack
    <3> QED BY <3>13 DEF b
  <2> QED BY <2>3, <2>4
<1>5. \A m \in Nat : m \in H => m + 1 \in H
  BY <1>4
<1> HIDE DEF H
<1>6. N \in H
  BY <1>1, <1>3, <1>5, NatSetInduction
<1>7. ReadBack(s, after[N], N)
  BY <1>1, <1>6 DEF H
<1> QED BY <1>2, <1>7

\* A checkpoint that knows no later trade without the first has, once the log is
\* read back, all the first ones.
LEMMA BackfillKeeps ==
  ASSUME NEW s, MemoryTyped(s), log \in Seq(Records), Known(s, log)
  PROVE  Full(Backfill(s), log) /\ Known(Backfill(s), log)
<1> DEFINE u == Backfill(s)
<1>1. PICK known : ReadBack(s, known, Len(log)) /\ u = [s EXCEPT !.completed = known]
  BY ReadsBack DEF MemoryTyped
<1> HIDE DEF u
<1>2. u.completed = known
  BY <1>1 DEF MemoryTyped, Shape, Fields
<1>3. \A t : Has(s, t) => Has(u, t)
  BY <1>1, <1>2 DEF Has, ReadBack
<1>4. ASSUME NEW j \in DOMAIN known
      PROVE  \E f \in First(log) : SameTrade(log[f].trade, known[j]) /\ Has(u, log[f].trade)
  <2>1. CASE j \in DOMAIN s.completed /\ known[j] = s.completed[j]
    <3>1. PICK f \in First(log) : SameTrade(log[f].trade, s.completed[j]) /\ Has(s, log[f].trade)
      BY <2>1 DEF Known
    <3> QED BY <1>3, <2>1, <3>1
  <2>2. CASE \E i \in First(log) : known[j] = log[i].trade
    BY <1>2, <2>2, SameIsAlike DEF Has
  <2> QED BY <1>1, <2>1, <2>2 DEF ReadBack
<1>5. Known(u, log)
  BY <1>2, <1>4 DEF Known
<1>6. ASSUME NEW i \in First(log) PROVE Has(u, log[i].trade)
  <2>1. i \in 1..Len(log) /\ log[i].kind = "complete"
    <3>1. DOMAIN log = 1..Len(log) OBVIOUS
    <3> QED BY <3>1 DEF First, Completes
  <2>2. PICK j \in DOMAIN known : SameTrade(known[j], log[i].trade)
    BY <1>1, <2>1 DEF ReadBack, Knows
  <2>3. PICK f \in First(log) : SameTrade(log[f].trade, known[j]) /\ Has(u, log[f].trade)
    BY <1>4
  <2>4. SameTrade(log[f].trade, log[i].trade)
    BY <2>2, <2>3, SameIsAlike
  <2>5. f = i
    BY <2>4, FirstIsOne
  <2> QED BY <2>3, <2>5
<1> QED BY <1>5, <1>6 DEF Full, u
-----------------------------------------------------------------------------
(* What the loss of a day is. *)

LEMMA LossAtMost ==
  ASSUME NEW a \in Seq(Trades), NEW b \in Seq(Trades), NEW strategy, NEW day,
         \A i, j \in DOMAIN a : a[i] = a[j] => i = j,
         \A j \in DOMAIN a : \E i \in DOMAIN b : b[i] = a[j]
  PROVE  /\ DayLoss(a, strategy, day) \in Int /\ DayLoss(b, strategy, day) \in Int
         /\ DayLoss(a, strategy, day) <= DayLoss(b, strategy, day)
<1> DEFINE Lost(c) == {i \in DOMAIN c : /\ c[i].strategy = strategy /\ c[i].pnl < 0
                                        /\ c[i].ts \div DayLength = day}
           Loss(c) == [i \in DOMAIN c |-> -c[i].pnl]
           S == Lost(a)  T == Lost(b)  f == Loss(a)  g == Loss(b)
           h == [j \in S |-> CHOOSE i \in DOMAIN b : b[i] = a[j]]
<1>1. DayLoss(a, strategy, day) = SumFunctionOnSet(f, S)
      /\ DayLoss(b, strategy, day) = SumFunctionOnSet(g, T)
  BY DEF DayLoss
<1>2. ASSUME NEW c \in Seq(Trades)
      PROVE  IsFiniteSet(Lost(c)) /\ \A i \in Lost(c) : Loss(c)[i] \in Nat
  <2> DEFINE D == Lost(c)  n == Len(c)
  <2>1. D \subseteq 1..n /\ n \in Nat
    OBVIOUS
  <2>2. ASSUME NEW i \in D PROVE Loss(c)[i] \in Nat
    <3> DEFINE t == c[i]
    <3>1. t \in Trades /\ t.pnl < 0 /\ Loss(c)[i] = -t.pnl OBVIOUS
    <3>2. t.pnl \in Int BY <3>1 DEF Trades
    <3> QED BY <3>1, <3>2
  <2> HIDE DEF D, n
  <2>3. IsFiniteSet(1..n)
    BY <2>1, FS_Interval
  <2>4. IsFiniteSet(D)
    BY <2>1, <2>3, FS_Subset
  <2> QED BY <2>2, <2>4 DEF D
<1>3. \A j \in S : h[j] \in DOMAIN b /\ b[h[j]] = a[j]
  OBVIOUS
<1>4. h \in [S -> T] /\ \A x \in S : f[x] = g[h[x]]
  BY <1>3
<1>5. \A x, y \in S : h[x] = h[y] => x = y
  BY <1>3
<1>6. /\ IsFiniteSet(S) /\ IsFiniteSet(T) /\ \A x \in S : f[x] \in Int
      /\ \A y \in T : g[y] \in Nat /\ g[y] \in Int
  <2> HIDE DEF Lost, Loss
  <2> QED BY <1>2
<1> HIDE DEF S, T, f, g, h
<1>7. SumFunctionOnSet(f, S) <= SumFunctionOnSet(g, T)
  BY <1>4, <1>5, <1>6, SumInjected
<1>8. SumFunctionOnSet(f, S) \in Int /\ SumFunctionOnSet(g, T) \in Int
  BY <1>6, SumType
<1> QED BY <1>1, <1>7, <1>8

\* What a log alone says was lost, a full memory has lost too.
LEMMA LogLossAtMost ==
  ASSUME NEW s, s.completed \in Seq(Trades), log \in Seq(Records), Full(s, log),
         NEW strategy, NEW day
  PROVE  LET a == Backfill(Fresh).completed
         IN  /\ DayLoss(a, strategy, day) \in Int /\ DayLoss(s.completed, strategy, day) \in Int
             /\ DayLoss(a, strategy, day) <= DayLoss(s.completed, strategy, day)
<1>1. Fresh.completed = <<>> /\ <<>> \in Seq(Trades) /\ DOMAIN <<>> = {}
  BY DEF Fresh
<1>2. PICK a : ReadBack(Fresh, a, Len(log)) /\ Backfill(Fresh) = [Fresh EXCEPT !.completed = a]
  BY <1>1, ReadsBack
<1>3. Backfill(Fresh).completed = a
  BY <1>2 DEF Fresh
<1>4. /\ a \in Seq(Trades) /\ \A i, j \in DOMAIN a : a[i] = a[j] => i = j
      /\ \A j \in DOMAIN a : \E i \in First(log) : a[j] = log[i].trade
  BY <1>1, <1>2 DEF ReadBack
<1>5. \A j \in DOMAIN a : \E i \in DOMAIN s.completed : s.completed[i] = a[j]
  BY <1>4 DEF Full, Has
<1> DEFINE b == s.completed
<1>6. b \in Seq(Trades) /\ \A j \in DOMAIN a : \E i \in DOMAIN b : b[i] = a[j]
  BY <1>5
<1> HIDE DEF b
<1>7. /\ DayLoss(a, strategy, day) \in Int /\ DayLoss(b, strategy, day) \in Int
      /\ DayLoss(a, strategy, day) <= DayLoss(b, strategy, day)
  BY <1>4, <1>6, LossAtMost
<1> QED BY <1>3, <1>7 DEF b
-----------------------------------------------------------------------------
(* The invariant, and what it says when a position opens. *)

\* Both look at nothing but the completed trades.
LEMMA SameTrades ==
  ASSUME NEW s, NEW u, u.completed = s.completed, NEW l
  PROVE  (Full(s, l) => Full(u, l)) /\ (Known(s, l) => Known(u, l))
BY DEF Full, Known, Has

LEMMA DownFirsts ==
  ASSUME log \in Seq(Records), FirstsCounted, Running, Down, disk' \in {disk, mem},
         NEW r \in Seq(Records), log' = log \o r
  PROVE  FirstsCounted'
<1>1. Known(disk', log')
  BY KnownGrows DEF FirstsCounted
<1>2. ~Running'
  BY DEF Down, Running
<1> QED BY <1>1, <1>2 DEF FirstsCounted, Known, Has, First, Completes

\* A step that completes what it logs and lives.
LEMMA StepFirsts ==
  ASSUME log \in Seq(Records), mem.completed \in Seq(Trades), FirstsCounted, Running,
         NEW r \in Seq(Records), log' = log \o r, Completed(mem, mem', r),
         mem'.completed = disk'.completed
  PROVE  FirstsCounted'
<1>1. Full(mem, log) /\ Known(mem, log)
  BY DEF FirstsCounted
<1>2. Full(mem', log') /\ Known(mem', log')
  BY <1>1, CompletedKeeps
<1>3. Known(disk', log')
  BY <1>2, SameTrades
<1> QED BY <1>2, <1>3 DEF FirstsCounted, Full, Known, Has, First, Completes

LEMMA ReadFirsts ==
  ASSUME Core, FirstsCounted, ReadRow
  PROVE  FirstsCounted'
<1>1. PICK held, done :
        /\ held = CapturePrediction(mem, LineAt(audit, cursor))
        /\ done = Consume(held, LineAt(audit, cursor))
        /\ MemoryTyped(held) /\ Same(mem, held, {"predictions"}) /\ Handled(held, done)
        /\ log' = log \o done.log
        /\ \/ mem' = done.s /\ mem'.completed = disk'.completed
           \/ Down /\ UNCHANGED disk
  BY ReadSays
<1>2. /\ Running /\ Whole(audit, cursor) /\ log \in Seq(Records)
      /\ mem.completed \in Seq(Trades)
  BY DEF ReadRow, Running, Core, Typed, MemoryTyped
<1>3. LineAt(audit, cursor) \in Line
  BY <1>2, LineRead
<1> DEFINE r == done.log
<1>4. r \in Seq(Records) /\ Completed(held, done.s, r)
  BY <1>1, <1>3, ConsumeCompletes DEF Handled
<1>5. held.completed = mem.completed
  BY <1>1 DEF Same, Fields
<1>6. Completed(mem, done.s, r)
  BY <1>4, <1>5 DEF Completed
<1>7. log' = log \o r BY <1>1
<1> HIDE DEF r
<1>8. CASE mem' = done.s /\ mem'.completed = disk'.completed
  BY <1>2, <1>4, <1>6, <1>7, <1>8, StepFirsts
<1>9. CASE Down /\ UNCHANGED disk
  BY <1>2, <1>4, <1>7, <1>9, DownFirsts
<1> QED BY <1>1, <1>8, <1>9

LEMMA SettleFirsts ==
  ASSUME Core, FirstsCounted, Settle
  PROVE  FirstsCounted'
<1>0. /\ Running /\ log \in Seq(Records) /\ MemoryTyped(mem) /\ mem.completed \in Seq(Trades)
      /\ now \in Nat
  BY DEF Settle, Running, Core, Typed, MemoryTyped
<1>1. CASE Down /\ UNCHANGED disk
           /\ \E sample, order : /\ order \in Orders(mem, sample)
                                 /\ \E n \in DOMAIN Settlement(mem, sample, order).log :
                                      log' = log \o SubSeq(Settlement(mem, sample, order).log, 1, n)
  <2>1. PICK sample, order : /\ order \in Orders(mem, sample)
                             /\ \E n \in DOMAIN Settlement(mem, sample, order).log :
                                  log' = log \o SubSeq(Settlement(mem, sample, order).log, 1, n)
    BY <1>1
  <2> DEFINE g == Settlement(mem, sample, order).log
  <2>2. g \in Seq(Records)
    BY <1>0, <2>1, SettlementKeeps DEF Core
  <2>3. PICK n \in DOMAIN g : log' = log \o SubSeq(g, 1, n)
    BY <2>1
  <2> HIDE DEF g
  <2> DEFINE r == SubSeq(g, 1, n)
  <2>4. r \in Seq(Records)
    BY <2>2, <2>3
  <2>5. log' = log \o r BY <2>3
  <2> HIDE DEF r
  <2> QED BY <1>0, <1>1, <2>4, <2>5, DownFirsts
<1>2. CASE \E sample, order :
             /\ order \in Orders(mem, sample)
             /\ log' = log \o Settlement(mem, sample, order).log
             /\ mem' = Settlement(mem, sample, order).s
             /\ mem'.completed = disk'.completed
  <2>1. PICK sample, order :
             /\ order \in Orders(mem, sample)
             /\ log' = log \o Settlement(mem, sample, order).log
             /\ mem' = Settlement(mem, sample, order).s
             /\ mem'.completed = disk'.completed
    BY <1>2
  <2> DEFINE r == Settlement(mem, sample, order).log
  <2>2. r \in Seq(Records) /\ Completed(mem, mem', r)
    BY <1>0, <2>1, SettlementKeeps, SettlementCompletes DEF Core
  <2>3. log' = log \o r BY <2>1
  <2> HIDE DEF r
  <2> QED BY <1>0, <2>1, <2>2, <2>3, StepFirsts
<1>3. \/ \E sample, order :
           /\ order \in Orders(mem, sample)
           /\ log' = log \o Settlement(mem, sample, order).log
           /\ mem' = Settlement(mem, sample, order).s
           /\ mem'.completed = disk'.completed
      \/ /\ Down /\ UNCHANGED disk
         /\ \E sample, order : /\ order \in Orders(mem, sample)
                               /\ \E n \in DOMAIN Settlement(mem, sample, order).log :
                                    log' = log \o SubSeq(Settlement(mem, sample, order).log, 1, n)
  <2>1. PICK sample, order, after :
          /\ order \in Orders(mem, sample) /\ after = Settlement(mem, sample, order)
          /\ \/ mem' = after.s /\ mem'.completed = disk'.completed /\ log' = log \o after.log
             \/ /\ Down /\ UNCHANGED disk
                /\ \E n \in DOMAIN after.log : log' = log \o SubSeq(after.log, 1, n)
    BY SettleSays
  <2> QED BY <2>1
<1> QED BY <1>1, <1>2, <1>3

LEMMA FirstsKept ==
  ASSUME Core, FirstsCounted, [Next]_vars
  PROVE  FirstsCounted'
<1>1. CASE /\ log' = log /\ disk' = disk /\ mem' = mem /\ pc' = pc
  BY <1>1 DEF FirstsCounted, Running, Full, Known, Has, First, Completes
<1>2. CASE Restart
  <2>1. /\ MemoryTyped(disk) /\ log \in Seq(Records) /\ Known(disk, log)
        /\ mem' = Backfill(disk) /\ disk' = mem' /\ log' = log
    BY <1>2 DEF Core, Typed, FirstsCounted, Restart
  <2>2. Full(mem', log') /\ Known(mem', log') /\ Known(disk', log')
    BY <2>1, BackfillKeeps
  <2> QED BY <2>2 DEF FirstsCounted, Full, Known, Has, First, Completes
<1>3. CASE Crash \/ Abort
  <2>1. /\ log \in Seq(Records) /\ <<>> \in Seq(Records) /\ Running /\ Down
        /\ disk' \in {disk, mem} /\ log' = log
    BY <1>3 DEF Core, Typed, Crash, Abort
  <2> DEFINE e == <<>>
  <2>2. e \in Seq(Records) /\ log' = log \o e
    BY <2>1
  <2> HIDE DEF e
  <2> QED BY <2>1, <2>2, DownFirsts
<1>4. CASE OpenAudit \/ EndAudit
  <2>0. /\ log \in Seq(Records) /\ <<>> \in Seq(Records) /\ Running /\ MemoryTyped(mem)
        /\ mem.completed = disk.completed /\ log' = log
    BY <1>4 DEF Core, Typed, CheckpointKeepsUp, Running, OpenAudit, EndAudit
  <2>1. ASSUME OpenAudit PROVE mem'.completed = mem.completed /\ disk' \in {disk, mem'}
    <3>1. mem'.completed = mem.completed /\ disk' = disk
      BY <2>0, <2>1 DEF OpenAudit, MemoryTyped, Shape, Fields
    <3> QED BY <3>1
  <2>2. ASSUME EndAudit PROVE mem'.completed = mem.completed /\ disk' \in {disk, mem'}
    <3>1. mem' = [mem EXCEPT !.offset = cursor] /\ disk' \in {disk, mem'}
      BY <2>2 DEF EndAudit, Checkpoint
    <3>2. mem'.completed = mem.completed
      BY <2>0, <3>1 DEF MemoryTyped, Shape, Fields
    <3> QED BY <3>1, <3>2
  <2>3. mem'.completed = mem.completed /\ disk' \in {disk, mem'}
    BY <1>4, <2>1, <2>2
  <2> DEFINE e == <<>>
  <2>4. e \in Seq(Records) /\ log' = log \o e /\ Completes(e) = {}
    BY <2>0 DEF Completes
  <2>5. mem.completed \in Seq(Trades) BY <2>0 DEF MemoryTyped
  <2> HIDE DEF e
  <2>6. Completed(mem, mem', e)
    BY <2>3, <2>4, <2>5, CompletesNothing
  <2> QED BY <2>0, <2>3, <2>4, <2>5, <2>6, StepFirsts
<1>5. CASE ReadRow
  BY <1>5, ReadFirsts
<1>6. CASE Settle
  BY <1>6, SettleFirsts
<1>7. CASE Environment \/ SkipLine \/ UNCHANGED vars
  BY <1>1, <1>7 DEF Environment, SkipLine, vars
<1> QED BY <1>2, <1>3, <1>4, <1>5, <1>6, <1>7 DEF Next, Round

\* A row opens its own key, under the portfolio limits.
LEMMA OpensWithin ==
  ASSUME NEW s, MemoryTyped(s), NEW row \in Line,
         NEW k \in DOMAIN Consume(s, row).s.positions \ DOMAIN s.positions
  PROVE  k = Key(row) /\ (PortfolioBlocks(s, row) => CalibrationMode)
<1> DEFINE r == Consume(s, row)
<1>1. \/ Exited(s, row, r) \/ SplitSold(s, row, r) \/ Stocked(s, row, r)
      \/ Quoted(s, row, r) \/ Rejected(s, row, r) \/ Opened(s, row, r)
      \/ Untouched(s, row, r)
  BY ConsumeSays DEF MemoryTyped
<1>2. CASE Opened(s, row, r)
  <2>1. /\ row.type \in {"eval", "hedged", "paired"} /\ Key(row) \notin DOMAIN s.positions
        /\ DOMAIN r.s.positions = DOMAIN s.positions \cup {Key(row)}
    BY <1>2 DEF Opened, With
  <2>2. r = ConsumeEntry(s, row)
    BY <2>1 DEF Consume, ExitsAt
  <2>3. ASSUME PortfolioBlocks(s, row), ~CalibrationMode PROVE FALSE
    <3>1. r \in {Ignored(s), Reject(s, row)}
      BY <2>2, <2>3 DEF ConsumeEntry
    <3>2. r.s.positions = s.positions
      BY <3>1 DEF Ignored, Reject, Result, MemoryTyped, Shape, Fields
    <3> QED BY <2>1, <3>2
  <2> QED BY <2>1, <2>3
<1> HIDE DEF r
<1>3. CASE Exited(s, row, r)
  <2>1. DOMAIN r.s.positions \subseteq DOMAIN s.positions
    BY <1>3 DEF Exited, Without, Restrict
  <2> QED BY <2>1 DEF r
<1>4. CASE \/ SplitSold(s, row, r) \/ Stocked(s, row, r) \/ Quoted(s, row, r)
           \/ Rejected(s, row, r) \/ Untouched(s, row, r)
  <2>1. r.s.positions = s.positions
    BY <1>4 DEF SplitSold, Stocked, Quoted, Rejected, Untouched, Same, Fields
  <2> QED BY <2>1 DEF r
<1> QED BY <1>1, <1>2, <1>3, <1>4

\* PortfolioLimits and _backfill_completed_trades: no position of a limited
\* strategy opens on a day whose logged losses have reached the daily limit,
\* whichever process logged them and whether or not it lived to save them.
THEOREM LossesLimited == Spec => OpensRespectLosses
<1> DEFINE Within(k) ==
             pc = "read" /\ k[1] \in Probability /\ ~CalibrationMode
               => DayLoss(Backfill(Fresh).completed, k[1], now \div DayLength)
                    < Limits[k[1]].daily
<1>1. Init => FirstsCounted
  BY DEF Init, FirstsCounted, Running, Known, Fresh
<1>2. IInv /\ FirstsCounted /\ [Next]_vars => FirstsCounted'
  BY FirstsKept DEF IInv
<1>3. ASSUME IInv, FirstsCounted, [Next]_vars,
             NEW k \in DOMAIN mem'.positions \ DOMAIN mem.positions,
             pc = "read", k[1] \in Probability, ~CalibrationMode
      PROVE  DayLoss(Backfill(Fresh).completed, k[1], now \div DayLength) < Limits[k[1]].daily
  <2>0. Core /\ log \in Seq(Records) /\ MemoryTyped(mem)
    BY <1>3 DEF IInv, Core, Typed
  <2>1. ReadRow /\ ~Down
    <3>1. ~Down
      BY <1>3 DEF Down, Fresh, NoMap
    <3>2. /\ ~Restart /\ ~OpenAudit /\ ~Settle
      BY <1>3 DEF Restart, OpenAudit, Settle
    <3>3. mem'.positions # mem.positions
      BY <1>3
    <3>4. ~Environment /\ ~SkipLine /\ ~UNCHANGED vars
      BY <3>3 DEF Environment, SkipLine, vars
    <3>5. ~EndAudit
      BY <2>0, <3>3 DEF EndAudit, Checkpoint, MemoryTyped, Shape, Fields
    <3> QED BY <1>3, <3>1, <3>2, <3>4, <3>5 DEF Next, Round, Crash, Abort
  <2>2. PICK held, done :
          /\ held = CapturePrediction(mem, LineAt(audit, cursor))
          /\ done = Consume(held, LineAt(audit, cursor))
          /\ MemoryTyped(held) /\ Same(mem, held, {"predictions"})
          /\ mem' = done.s
    BY <2>0, <2>1, ReadSays
  <2> DEFINE row == LineAt(audit, cursor)
  <2>3. row \in Line
    <3>1. Whole(audit, cursor) BY <2>1 DEF ReadRow
    <3> QED BY <2>0, <3>1, LineRead
  <2>4. held.completed = mem.completed /\ held.positions = mem.positions
    BY <2>2 DEF Same, Fields
  <2>5. done = Consume(held, row)
    BY <2>2
  <2> HIDE DEF row
  <2>6. k = Key(row) /\ ~PortfolioBlocks(held, row)
    BY <1>3, <2>2, <2>3, <2>4, <2>5, OpensWithin
  <2>7. k[1] = row.strategy
    BY <2>6 DEF Key
  <2>8. ~LossBlocked(held, row.strategy)
    BY <1>3, <2>6, <2>7 DEF PortfolioBlocks
  <2> DEFINE x == DayLoss(Backfill(Fresh).completed, row.strategy, now \div DayLength)
             y == DayLoss(mem.completed, row.strategy, now \div DayLength)
             z == Limits[row.strategy].daily
  <2>9. ~(y >= z)
    BY <2>4, <2>8 DEF LossBlocked
  <2>10. x \in Int /\ y \in Int /\ x <= y
    <3>1. Full(mem, log) BY <1>3 DEF FirstsCounted, Running
    <3>2. mem.completed \in Seq(Trades) BY <2>0 DEF MemoryTyped
    <3> QED BY <2>0, <3>1, <3>2, LogLossAtMost
  <2>11. z \in Int
    BY <1>3, <2>7, WorldAssumption
  <2> HIDE DEF x, y, z
  <2>12. x < z
    BY <2>9, <2>10, <2>11
  <2> QED BY <2>7, <2>12 DEF x, z
<1>4. /\ IInv /\ FirstsCounted /\ [Next]_vars
      => [\A k \in DOMAIN mem'.positions \ DOMAIN mem.positions : Within(k)]_vars
  BY <1>3
<1> QED BY <1>1, <1>2, <1>4, Inductive, PTL DEF Spec, OpensRespectLosses
=============================================================================
