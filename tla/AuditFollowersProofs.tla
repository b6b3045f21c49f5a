-------------------------- MODULE AuditFollowersProofs --------------------------
(***************************************************************************)
(* Proofs about the programs that follow an audit file, for all eight of   *)
(* them at once, for every file, every torn line, truncation, replacement  *)
(* and crash.                                                              *)
(*                                                                         *)
(* A follower's memory and its checkpoint are the same kind of state: the  *)
(* checkpoint is judged by what is in the output file, the memory also by  *)
(* what is still in the buffer of that file.                               *)
(***************************************************************************)
EXTENDS AuditFollowers, FiniteSetTheorems, InductionLemmas

Run == [market : Markets, start : Nat, end : Nat, events : Nat \ {0}]
Tally == [total : Nat, valid : Nat, accepts : Nat, rejections : Nat,
          excluded : [Reasons -> Nat], opportunities : Nat, nearMisses : Nat, last : Nat,
          runs : Seq(Run), open : [Markets -> Run \cup {NoRun}]]
Memory == [offset : Nat, inode : Nat \cup {NoFile}, seen : Seq(Rows), counted : [Rows -> Nat],
           sent : [mark : {row.mark : row \in Rows} \cup {"none"}, ts : Int], tally : Tally]
Files == [inode : Nat, lines : Seq(Rows), torn : BOOLEAN]

\* Every id is remembered once, and no more than the window of them; the
\* followers that forget when they save may hold more while they read.
Remembers(s, reading) ==
  /\ \A i, j \in DOMAIN s.seen : s.seen[i] = s.seen[j] => i = j
  /\ (reading /\ Its.forgets = "any") \/ Len(s.seen) <= Window

Typed ==
  /\ follower \in Followers /\ (follower = "paired" => evaluation \in [Rows -> Evaluations])
  /\ pc \in {"idle", "read", "write", "save"} /\ pos \in Nat
  /\ dirty \in BOOLEAN /\ due \in BOOLEAN /\ listed \in BOOLEAN /\ handled \in BOOLEAN
  /\ file \in Files /\ (file.torn => Len(file.lines) > 0)
  /\ emitted \in 0..MaxLines /\ Len(file.lines) <= emitted
  /\ torns \in Nat /\ truncations \in Nat /\ rotations \in Nat /\ crashes \in Nat
  /\ mem \in Memory /\ saved \in Memory
  /\ Remembers(mem, pc = "read") /\ Remembers(saved, FALSE)
  /\ pos <= 2 * emitted /\ mem.offset <= 2 * emitted /\ saved.offset <= 2 * emitted
  /\ buffer \in [Rows -> Nat] /\ output \in [Rows -> Nat] /\ passedOver \subseteq Rows
  /\ (pc \in {"idle", "save"} \/ Its.writes # "buffered") => buffer = Silent
  /\ pc = "write" => Its.writes = "buffered"
  /\ ~listed => follower = "evaluator"
  /\ \A row \in Rows : saved.counted[row] <= mem.counted[row]
  /\ pc = "idle" /\ Its.rereads /\ Its.saves = "always" => mem = saved

\* What is, or will be, in the output file.
Coming == [row \in Rows |-> output[row] + buffer[row]]

CoveredBy(w, row) ==
  /\ follower = "evaluator"
  /\ \E other \in Rows : /\ other.mark = row.mark /\ w[other] > 0
                         /\ row.ts - other.ts < Heartbeat
HandledBy(s, w, row) ==
  /\ follower \in Counters => s.counted[row] > 0
  /\ follower \in TextReaders => w[row] > 0 \/ CoveredBy(w, row)

\* What a state remembers was handled, what it says was sent is written.
Honest(s, w) ==
  /\ \A i \in DOMAIN s.seen : HandledBy(s, w, s.seen[i])
  /\ follower = "evaluator" /\ s.sent.mark # "none" =>
       \E other \in Rows : other.mark = s.sent.mark /\ other.ts = s.sent.ts /\ w[other] > 0

\* The rows of a file before a position, the one it stops inside of too, are
\* handled, or the text reader had to leave them.
Passed(s, w, f, left, upto) ==
  \A i \in DOMAIN f.lines : 2 * i <= upto + 1 =>
    \/ HandledBy(s, w, f.lines[i])
    \/ follower \in TextReaders /\ f.lines[i] \in left

\* No state is ahead of the file it follows, or of its own work there, unless
\* the file was cut.
Follows(s, w, f, left, cut) ==
  /\ s.inode = NoFile => s.offset = 0
  /\ s.inode # NoFile => s.inode <= f.inode
  /\ s.inode = f.inode /\ cut = 0 =>
       s.offset <= Size(f) /\ Passed(s, w, f, left, s.offset)
Reads(s, w, f, left, cut, at) ==
  /\ s.inode = f.inode
  /\ cut = 0 => at <= Size(f) /\ Passed(s, w, f, left, at)

Behind ==
  /\ Honest(mem, Coming) /\ Honest(saved, output)
  /\ Follows(mem, Coming, file, passedOver, truncations)
  /\ Follows(saved, output, file, passedOver, truncations)
  /\ pc = "read" => Reads(mem, Coming, file, passedOver, truncations, pos)

\* While few ids have been counted, each was counted once and is remembered.
CountedOnce(s) ==
  follower \in Counters /\ Cardinality({row \in Rows : s.counted[row] > 0}) <= Window =>
    \A row \in Rows : s.counted[row] > 0 =>
      s.counted[row] = 1 /\ \E i \in DOMAIN s.seen : s.seen[i] = row

\* The same of what was written, as long as the process lives.
Reached(w) == {row \in Rows : w[row] > 0 \/ CoveredBy(w, row)}
WrittenOnce(s, w) ==
  /\ follower \in {"observations", "maker", "evaluator"} /\ crashes = 0
  /\ Cardinality(Reached(w)) <= Window
  => \A row \in Rows : w[row] > 0 => w[row] = 1 /\ \E i \in DOMAIN s.seen : s.seen[i] = row

Once == CountedOnce(mem) /\ CountedOnce(saved) /\ WrittenOnce(mem, Coming)

\* The runs of a tally, closed and open, and its sums.
RunsOf(tally) == Range(tally.runs) \cup OpenRuns(tally)
Events(tally) == SumFunction([i \in DOMAIN tally.runs |-> tally.runs[i].events]) +
                 SumFunction([market \in Markets |-> tally.open[market].events])

\* RunsHoldOpportunities of a tally and the set of rows it has counted.
Balanced(tally, counted) ==
  LET hits  == {row \in counted : Opportunity(evaluation[row])}
      timed == {row \in hits : evaluation[row].ts > 0}
      at(row, run) == /\ evaluation[row].market = run.market
                      /\ run.start <= evaluation[row].ts /\ evaluation[row].ts <= run.end
  IN  /\ tally.total = Cardinality(counted)
      /\ tally.total = tally.valid + SumFunction(tally.excluded)
      /\ tally.opportunities = Cardinality(hits)
      /\ Cardinality(timed) = Events(tally)
      /\ \A row \in timed : \E run \in RunsOf(tally) : at(row, run)
      /\ \A run \in RunsOf(tally) : \A end \in {run.start, run.end} :
           \E row \in timed : evaluation[row].ts = end /\ at(row, run)

Balances(s) ==
  follower = "paired" /\ (\A row \in Rows : s.counted[row] <= 1)
    => Balanced(s.tally, {row \in Rows : s.counted[row] = 1})
\* An open run is its market's.
RunsAtHome(tally) ==
  \A market \in Markets : tally.open[market] # NoRun => tally.open[market].market = market
Books == /\ Balances(mem) /\ Balances(saved)
         /\ RunsAtHome(mem.tally) /\ RunsAtHome(saved.tally)

IInv == Typed /\ Behind /\ Once /\ Books
-----------------------------------------------------------------------------
(* Sequences without repetition. *)

\* A sequence that has each of its elements once is no longer than their set.
LEMMA LenAtMost ==
  ASSUME NEW S, IsFiniteSet(S), NEW q \in Seq(S), \A i, j \in DOMAIN q : q[i] = q[j] => i = j
  PROVE  Len(q) <= Cardinality(S)
<1> DEFINE n == Len(q)
<1>1. n \in Nat /\ DOMAIN q = 1..n /\ q \in [1..n -> S]
  OBVIOUS
<1> HIDE DEF n
<1>2. q \in Injection(1..n, S)
  BY <1>1 DEF Injection, IsInjective
<1>3. Cardinality(1..n) <= Cardinality(S)
  BY <1>2, FS_Injection
<1>4. Cardinality(1..n) = n
  BY <1>1, FS_Interval
<1> QED BY <1>3, <1>4 DEF n

LEMMA RememberIs ==
  ASSUME NEW seen \in Seq(Rows), \A i, j \in DOMAIN seen : seen[i] = seen[j] => i = j,
         NEW row \in Rows, \A i \in DOMAIN seen : seen[i] # row
  PROVE  LET q == Remember(seen, row)
         IN  /\ q \in Seq(Rows) /\ \A i, j \in DOMAIN q : q[i] = q[j] => i = j
             /\ \A i \in DOMAIN q : q[i] = row \/ \E j \in DOMAIN seen : q[i] = seen[j]
             /\ Its.forgets = "oldest" /\ Len(seen) <= Window => Len(q) <= Window
             /\ Len(seen) < Window \/ Its.forgets # "oldest" =>
                  /\ \A j \in DOMAIN seen : \E i \in DOMAIN q : q[i] = seen[j]
                  /\ \E i \in DOMAIN q : q[i] = row
<1> DEFINE all == Append(seen, row)  q == Remember(seen, row)  n == Len(seen)
<1>1. /\ n \in Nat /\ DOMAIN seen = 1..n /\ all \in Seq(Rows) /\ Len(all) = n + 1
      /\ DOMAIN all = 1..(n + 1) /\ all[n + 1] = row /\ \A i \in 1..n : all[i] = seen[i]
  OBVIOUS
<1>2. Window \in Nat \ {0}
  BY FollowersAssumption
<1>3. q = IF Its.forgets = "oldest" /\ Len(all) > Window THEN Tail(all) ELSE all
  BY DEF Remember
<1>4. /\ Tail(all) \in Seq(Rows) /\ DOMAIN Tail(all) = 1..n /\ Len(Tail(all)) = n
      /\ \A i \in 1..n : Tail(all)[i] = all[i + 1]
  BY <1>1
<1> HIDE DEF all, q, n
<1>5. \A i, j \in 1..(n + 1) : all[i] = all[j] => i = j
  <2> SUFFICES ASSUME NEW i \in 1..(n + 1), NEW j \in 1..(n + 1), all[i] = all[j]
               PROVE  i = j
    OBVIOUS
  <2>1. i \in 1..n \/ i = n + 1 BY <1>1
  <2>2. j \in 1..n \/ j = n + 1 BY <1>1
  <2> QED BY <1>1, <2>1, <2>2
<1>6. \A i \in 1..(n + 1) : all[i] = row \/ \E j \in DOMAIN seen : all[i] = seen[j]
  <2> SUFFICES ASSUME NEW i \in 1..(n + 1)
               PROVE  all[i] = row \/ \E j \in DOMAIN seen : all[i] = seen[j]
    OBVIOUS
  <2>1. i \in 1..n \/ i = n + 1 BY <1>1
  <2> QED BY <1>1, <2>1
<1>7. CASE q = all
  <2>1. Its.forgets = "oldest" => Len(q) <= Window
    BY <1>1, <1>2, <1>3, <1>7
  <2>2. n + 1 \in 1..(n + 1) /\ \A j \in 1..n : j \in 1..(n + 1)
    BY <1>1
  <2> QED BY <1>1, <1>5, <1>6, <1>7, <2>1, <2>2 DEF q
<1>8. CASE q = Tail(all) /\ Its.forgets = "oldest" /\ Len(all) > Window
  <2>1. ~(n < Window)
    BY <1>1, <1>2, <1>8
  <2>2. \A i \in 1..n : i + 1 \in 1..(n + 1)
    BY <1>1
  <2>3. \A i, j \in DOMAIN q : q[i] = q[j] => i = j
    <3> SUFFICES ASSUME NEW i \in 1..n, NEW j \in 1..n, all[i + 1] = all[j + 1] PROVE i = j
      BY <1>4, <1>8
    <3>1. i + 1 = j + 1 BY <1>5, <2>2
    <3> QED BY <1>1, <3>1
  <2>4. \A i \in DOMAIN q : q[i] = row \/ \E j \in DOMAIN seen : q[i] = seen[j]
    BY <1>4, <1>6, <1>8, <2>2
  <2> QED BY <1>4, <1>8, <2>1, <2>3, <2>4 DEF q, n
<1> QED BY <1>3, <1>7, <1>8

LEMMA TrimmedIs ==
  ASSUME NEW seen \in Seq(Rows), \A i, j \in DOMAIN seen : seen[i] = seen[j] => i = j,
         NEW q \in Trimmed(seen)
  PROVE  /\ q \in Seq(Rows) /\ \A i, j \in DOMAIN q : q[i] = q[j] => i = j
         /\ \A i \in DOMAIN q : \E j \in DOMAIN seen : q[i] = seen[j]
         /\ Len(q) <= Window
         /\ Len(seen) <= Window => q = seen
<1>1. Window \in Nat /\ IsFiniteSet(Rows) /\ Len(seen) \in Nat
  BY FollowersAssumption
<1>2. CASE Len(seen) <= Window
  BY <1>2 DEF Trimmed
<1>3. CASE ~(Len(seen) <= Window)
  <2>1. PICK kept \in SUBSET ToSet(seen) : Cardinality(kept) = Window /\ q = SetToSeq(kept)
    BY <1>3 DEF Trimmed, kSubset
  <2>2. kept \subseteq Rows /\ \A x \in kept : \E j \in DOMAIN seen : x = seen[j]
    BY <2>1 DEF ToSet
  <2>3. IsFiniteSet(kept)
    BY <1>1, <2>2, FS_Subset
  <2>4. q \in Seq(kept) /\ \A i, j \in DOMAIN q : q[i] = q[j] => i = j
    BY <2>1, <2>3, SetToSeqSays
  <2>5. Len(q) <= Window
    BY <2>1, <2>3, <2>4, LenAtMost
  <2>6. q \in Seq(Rows) /\ \A i \in DOMAIN q : q[i] \in kept
    BY <2>2, <2>4
  <2> QED BY <1>3, <2>2, <2>4, <2>5, <2>6
<1> QED BY <1>2, <1>3
-----------------------------------------------------------------------------
(* The file and the variants. *)

LEMMA ItsIs ==
  ASSUME follower \in Followers
  PROVE  /\ Its.dedupes <=> follower # "verifier"
         /\ Its.counts <=> follower \in Counters
         /\ Its.writes \in {"nothing", "buffered", "through"}
         /\ Its.writes = "nothing" <=> follower \notin TextReaders
         /\ Its.writes = "through" <=> follower = "observations"
         /\ Its.halves = (IF follower \in TextReaders THEN "passed" ELSE "left")
         /\ Its.forgets \in {"any", "oldest"} /\ (follower = "observations" => Its.forgets = "oldest")
         /\ Its.keepsMark \in BOOLEAN
         /\ Its.saves \in {"always", "if changed", "if due", "if due or counted"}
         /\ Its.rereads <=> follower \in {"maker", "evaluator", "verifier", "paired"}
         /\ Its.rereads => (Its.saves = "always" <=> follower # "verifier")
<1>1. follower \in {"observations", "maker", "evaluator", "verifier", "panel", "report",
                    "research", "paired"}
  BY DEF Followers, Programs
<1>2. CASE follower = "observations"
  <2>1. Its = Observations BY <1>2 DEF Its, Programs
  <2> QED BY <1>2, <2>1 DEF Observations, TextReaders, Counters
<1>3. CASE follower = "maker"
  <2>1. Its = MakerBridge BY <1>3 DEF Its, Programs
  <2> QED BY <1>3, <2>1 DEF MakerBridge, TextReaders, Counters
<1>4. CASE follower = "evaluator"
  <2>1. Its = Evaluator BY <1>4 DEF Its, Programs
  <2> QED BY <1>4, <2>1 DEF Evaluator, TextReaders, Counters
<1>5. CASE follower = "verifier"
  <2>1. Its = Verifier BY <1>5 DEF Its, Programs
  <2> QED BY <1>5, <2>1 DEF Verifier, TextReaders, Counters
<1>6. CASE follower = "panel"
  <2>1. Its = Panel BY <1>6 DEF Its, Programs
  <2> QED BY <1>6, <2>1 DEF Panel, TextReaders, Counters
<1>7. CASE follower = "report"
  <2>1. Its = Report BY <1>7 DEF Its, Programs
  <2> QED BY <1>7, <2>1 DEF Report, TextReaders, Counters
<1>8. CASE follower = "research"
  <2>1. Its = Research BY <1>8 DEF Its, Programs
  <2> QED BY <1>8, <2>1 DEF Research, TextReaders, Counters
<1>9. CASE follower = "paired"
  <2>1. Its = Paired BY <1>9 DEF Its, Programs
  <2> QED BY <1>9, <2>1 DEF Paired, TextReaders, Counters
<1> QED BY <1>1, <1>2, <1>3, <1>4, <1>5, <1>6, <1>7, <1>8, <1>9

LEMMA SizeIs ==
  ASSUME NEW f \in Files, f.torn => Len(f.lines) > 0
  PROVE  /\ Size(f) \in Nat /\ Len(f.lines) \in Nat /\ DOMAIN f.lines = 1..Len(f.lines)
         /\ Size(f) <= 2 * Len(f.lines) /\ 2 * Len(f.lines) <= Size(f) + 1
         /\ ~f.torn => Size(f) = 2 * Len(f.lines)
         /\ \A i \in DOMAIN f.lines : f.lines[i] \in Rows
<1>1. f.lines \in Seq(Rows) /\ f.torn \in BOOLEAN BY DEF Files
<1>2. Len(f.lines) \in Nat /\ DOMAIN f.lines = 1..Len(f.lines)
      /\ \A i \in DOMAIN f.lines : f.lines[i] \in Rows
  BY <1>1
<1> DEFINE n == Len(f.lines)
<1>3. Size(f) = 2 * n - (IF f.torn THEN 1 ELSE 0) BY DEF Size
<1>4. n \in Nat /\ (f.torn => n > 0) BY <1>2
<1> HIDE DEF n
<1>5. Size(f) \in Nat /\ Size(f) <= 2 * n /\ 2 * n <= Size(f) + 1 /\ (~f.torn => Size(f) = 2 * n)
  BY <1>1, <1>3, <1>4
<1> QED BY <1>2, <1>5 DEF n

\* The line at an even position before the end, and where the next read begins.
LEMMA LineIs ==
  ASSUME NEW f \in Files, f.torn => Len(f.lines) > 0, NEW at \in Nat, ~AtEnd(f, at)
  PROVE  /\ AfterLine(f, at) \in Nat /\ at < AfterLine(f, at) /\ AfterLine(f, at) <= at + 2
         /\ AfterLine(f, at) <= Size(f)
         /\ at % 2 = 1 => AfterLine(f, at) = at + 1
         /\ at % 2 = 0 => \E i \in DOMAIN f.lines :
                            i \in Nat /\ at = 2 * (i - 1) /\ LineAt(f, at) = f.lines[i]
<1> DEFINE n == Len(f.lines)
<1>1. /\ Size(f) \in Nat /\ n \in Nat /\ DOMAIN f.lines = 1..n /\ Size(f) <= 2 * n
      /\ at < Size(f)
  BY SizeIs DEF AtEnd
<1> HIDE DEF n
<1>2. /\ AfterLine(f, at) \in Nat /\ at < AfterLine(f, at) /\ AfterLine(f, at) <= at + 2
      /\ AfterLine(f, at) <= Size(f)
  BY <1>1 DEF AfterLine, Whole
<1>3. at % 2 = 1 => AfterLine(f, at) = at + 1
  BY DEF AfterLine, Whole
<1>4. ASSUME at % 2 = 0
      PROVE  \E i \in DOMAIN f.lines :
               i \in Nat /\ at = 2 * (i - 1) /\ LineAt(f, at) = f.lines[i]
  <2> DEFINE i == at \div 2 + 1
  <2>1. i \in Nat /\ at = 2 * (i - 1) /\ i >= 1 /\ i <= n
    BY <1>1, <1>4
  <2>2. LineAt(f, at) = f.lines[i]
    BY DEF LineAt
  <2> HIDE DEF i
  <2> QED BY <1>1, <2>1, <2>2
<1> QED BY <1>2, <1>3, <1>4
-----------------------------------------------------------------------------
(* The paired report's tally. *)

LEMMA SumCongruent ==
  ASSUME NEW S, IsFiniteSet(S), NEW f, NEW g, \A x \in S : f[x] \in Nat /\ f[x] = g[x]
  PROVE  SumFunctionOnSet(f, S) = SumFunctionOnSet(g, S)
<1>1. S \in SUBSET S
  OBVIOUS
<1>2. \A x \in S : f[x] \in Int /\ g[x] \in Int /\ f[x] <= g[x] /\ g[x] <= f[x] /\ g[x] \in Nat
  OBVIOUS
<1>3. SumFunctionOnSet(f, S) \in Int /\ SumFunctionOnSet(g, S) \in Int
  BY <1>1, <1>2, SumType
<1>4. SumFunctionOnSet(f, S) <= SumFunctionOnSet(g, S)
  BY <1>1, <1>2, SumMonotone
<1>5. SumFunctionOnSet(g, S) <= SumFunctionOnSet(f, S)
  BY <1>1, <1>2, SumMonotone
<1> QED BY <1>3, <1>4, <1>5

\* A sum of which one term changes.
LEMMA SumChange ==
  ASSUME NEW S, IsFiniteSet(S), NEW x \in S, NEW f, NEW g,
         \A y \in S : f[y] \in Nat, g[x] \in Nat, \A y \in S \ {x} : g[y] = f[y]
  PROVE  /\ SumFunctionOnSet(f, S) \in Int
         /\ SumFunctionOnSet(g, S) = SumFunctionOnSet(f, S) - f[x] + g[x]
<1> DEFINE T == S \ {x}
<1>1. IsFiniteSet(T) BY FS_RemoveElement
<1>2. SumFunctionOnSet(f, T) = SumFunctionOnSet(g, T)
  BY <1>1, SumCongruent
<1>3. SumFunctionOnSet(f, S) = f[x] + SumFunctionOnSet(f, T)
  BY SumRemove
<1>4. SumFunctionOnSet(g, S) = g[x] + SumFunctionOnSet(g, T)
  BY SumRemove
<1>5. SumFunctionOnSet(f, T) \in Int
  BY <1>1, SumType
<1> QED BY <1>2, <1>3, <1>4, <1>5

LEMMA MaxOfTwo ==
  ASSUME NEW a \in Nat, NEW b \in Nat
  PROVE  Max({a, b}) \in {a, b} /\ a <= Max({a, b}) /\ b <= Max({a, b})
<1> DEFINE good(x) == x \in {a, b} /\ \A y \in {a, b} : x >= y
<1>1. \E x : good(x)
  <2>1. a >= b \/ b >= a
    OBVIOUS
  <2> QED BY <2>1
<1>2. good(CHOOSE x : good(x)) BY <1>1
<1>3. Max({a, b}) = CHOOSE x \in {a, b} : \A y \in {a, b} : x >= y BY DEF Max
<1> QED BY <1>1, <1>3

\* What an evaluation that is an opportunity does to the runs.
Extends(tally, u, e) ==
  LET run   == tally.open[e.market]
      fresh == [market |-> e.market, start |-> e.ts, end |-> e.ts, events |-> 1]
  IN  \/ /\ run # NoRun /\ run.end <= e.ts /\ e.ts - run.end <= MaxRunGap
         /\ u.runs = tally.runs
         /\ u.open = [tally.open EXCEPT ![e.market] =
                        [run EXCEPT !.end = e.ts, !.events = @ + 1]]
      \/ /\ run # NoRun /\ ~(e.ts - run.end \in 0..MaxRunGap)
         /\ u.runs = Append(tally.runs, run)
         /\ u.open = [tally.open EXCEPT ![e.market] = fresh]
      \/ /\ run = NoRun
         /\ u.runs = tally.runs
         /\ u.open = [tally.open EXCEPT ![e.market] = fresh]

Counts(tally, u, e) ==
  /\ u.total = tally.total + 1 /\ tally.last <= u.last /\ e.ts <= u.last
  /\ \/ /\ ~Valid(e) /\ u.valid = tally.valid /\ u.opportunities = tally.opportunities
        /\ \E reason \in Reasons :
             u.excluded = [tally.excluded EXCEPT ![reason] = @ + 1]
     \/ /\ Valid(e) /\ u.valid = tally.valid + 1 /\ u.excluded = tally.excluded
        /\ u.opportunities = tally.opportunities + (IF Opportunity(e) THEN 1 ELSE 0)
  /\ \/ Opportunity(e) /\ e.ts > 0 /\ Extends(tally, u, e)
     \/ ~(Opportunity(e) /\ e.ts > 0) /\ u.runs = tally.runs /\ u.open = tally.open

LEMMA CountIs ==
  ASSUME NEW tally \in Tally, NEW e \in Evaluations
  PROVE  Count(tally, e) \in Tally /\ Counts(tally, Count(tally, e), e)
<1> DEFINE seen == Seen(tally, e)
           counted == [seen EXCEPT
             !.valid = @ + 1,
             !.accepts = IF e.accepted THEN @ + 1 ELSE @,
             !.opportunities = IF Opportunity(e) THEN @ + 1 ELSE @,
             !.nearMisses = IF ~Opportunity(e) /\ CostsBelow(e, NearMissThreshold)
                            THEN @ + 1 ELSE @]
           last == Max({tally.last, e.ts})
           u == Count(tally, e)
<1>0. /\ e.ts \in Nat /\ e.market \in Markets /\ e.accepted \in BOOLEAN
      /\ tally.last \in Nat
  BY DEF Evaluations, Tally
<1>1. last \in Nat /\ tally.last <= last /\ e.ts <= last
  BY <1>0, MaxOfTwo
<1> DEFINE total == tally.total + 1
           rejections == IF e.accepted THEN tally.rejections ELSE tally.rejections + 1
<1>a. total \in Nat /\ rejections \in Nat
  BY <1>0 DEF Tally
<1>2. seen = [tally EXCEPT !.total = total, !.last = last, !.rejections = rejections]
  BY DEF Seen, Tally
<1> HIDE DEF last, rejections
<1>3. /\ seen \in Tally /\ seen.total = tally.total + 1 /\ seen.last = last
      /\ seen.valid = tally.valid /\ seen.opportunities = tally.opportunities
      /\ seen.excluded = tally.excluded /\ seen.runs = tally.runs /\ seen.open = tally.open
  <2> HIDE DEF total
  <2>1. seen \in Tally
    BY <1>1, <1>2, <1>a DEF Tally
  <2>2. seen.total = total /\ seen.last = last
    BY <1>2 DEF Tally
  <2> QED BY <1>2, <2>1, <2>2 DEF Tally, total
<1> HIDE DEF seen, total
<1> DEFINE valid == seen.valid + 1
           accepts == IF e.accepted THEN seen.accepts + 1 ELSE seen.accepts
           opportunities == IF Opportunity(e) THEN seen.opportunities + 1
                            ELSE seen.opportunities
           nearMisses == IF ~Opportunity(e) /\ CostsBelow(e, NearMissThreshold)
                         THEN seen.nearMisses + 1 ELSE seen.nearMisses
<1>b. seen.valid \in Nat /\ seen.accepts \in Nat /\ seen.opportunities \in Nat
      /\ seen.nearMisses \in Nat
  BY <1>3 DEF Tally
<1>c. valid \in Nat /\ accepts \in Nat /\ opportunities \in Nat /\ nearMisses \in Nat
  BY <1>b
<1>4. counted = [seen EXCEPT !.valid = valid, !.accepts = accepts,
                             !.opportunities = opportunities, !.nearMisses = nearMisses]
  BY <1>3 DEF Tally
<1>d. /\ valid = tally.valid + 1
      /\ opportunities = tally.opportunities + (IF Opportunity(e) THEN 1 ELSE 0)
  BY <1>3, <1>b
<1> HIDE DEF valid, accepts, opportunities, nearMisses
<1>5. /\ counted \in Tally /\ counted.total = tally.total + 1 /\ counted.last = last
      /\ counted.valid = tally.valid + 1
      /\ counted.opportunities = tally.opportunities + (IF Opportunity(e) THEN 1 ELSE 0)
      /\ counted.excluded = tally.excluded /\ counted.runs = tally.runs
      /\ counted.open = tally.open
  <2> HIDE DEF counted
  <2>1. counted \in Tally
    BY <1>3, <1>4, <1>c DEF Tally
  <2> QED BY <1>3, <1>4, <1>d, <2>1 DEF Tally
<1>6. u = IF ~Valid(e) THEN [seen EXCEPT !.excluded[Exclusion(e)] = @ + 1]
          ELSE IF Opportunity(e) /\ e.ts > 0 THEN ExtendRun(counted, e)
          ELSE counted
  BY DEF Count, seen
<1> HIDE DEF u
<1> HIDE DEF counted
<1>7. CASE ~Valid(e)
  <2>1. Exclusion(e) \in Reasons
    BY <1>7 DEF Exclusion, Reasons, Valid
  <2> DEFINE reason == Exclusion(e)
  <2> HIDE DEF reason
  <2>2. u = [seen EXCEPT !.excluded[reason] = @ + 1] /\ reason \in Reasons
    BY <1>6, <1>7, <2>1 DEF reason
  <2>3. u \in Tally
    <3>1. seen.excluded \in [Reasons -> Nat] BY <1>3 DEF Tally
    <3> DEFINE excluded == [seen.excluded EXCEPT ![reason] = @ + 1]
    <3>2. excluded \in [Reasons -> Nat]
      BY <2>2, <3>1
    <3>3. u = [seen EXCEPT !.excluded = excluded]
      BY <1>3, <2>2 DEF Tally
    <3> HIDE DEF excluded
    <3> QED BY <1>3, <3>2, <3>3 DEF Tally
  <2>4. /\ u.total = seen.total /\ u.last = seen.last /\ u.valid = seen.valid
        /\ u.opportunities = seen.opportunities
        /\ u.excluded = [seen.excluded EXCEPT ![reason] = @ + 1]
        /\ u.runs = seen.runs /\ u.open = seen.open
    BY <1>3, <2>2 DEF Tally
  <2>5. ~Opportunity(e) BY <1>7 DEF Opportunity
  <2> QED BY <1>1, <1>3, <1>7, <2>2, <2>3, <2>4, <2>5 DEF Counts, u
<1>8. CASE Valid(e) /\ ~(Opportunity(e) /\ e.ts > 0)
  <2>1. u = counted BY <1>6, <1>8
  <2> QED BY <1>1, <1>5, <1>8, <2>1 DEF Counts, u
<1>9. CASE Valid(e) /\ Opportunity(e) /\ e.ts > 0
  <2> DEFINE run == counted.open[e.market]
             fresh == [market |-> e.market, start |-> e.ts, end |-> e.ts, events |-> 1]
             more == [run EXCEPT !.end = e.ts, !.events = @ + 1]
  <2>1. u = IF Joins(run, e) THEN [counted EXCEPT !.open[e.market] = more]
            ELSE [CloseRun(counted, run) EXCEPT !.open[e.market] = fresh]
    BY <1>6, <1>9 DEF ExtendRun
  <2>2. /\ run \in Run \cup {NoRun} /\ fresh \in Run /\ counted.open \in [Markets -> Run \cup {NoRun}]
        /\ counted.runs \in Seq(Run)
      <3>1. fresh \in Run BY <1>0 DEF Run
    <3>2. counted.open \in [Markets -> Run \cup {NoRun}] /\ counted.runs \in Seq(Run)
      BY <1>5 DEF Tally
    <3> QED BY <1>0, <3>1, <3>2
  <2>3. run # NoRun => more \in Run /\ run \in Run
    <3> SUFFICES ASSUME run # NoRun PROVE more \in Run /\ run \in Run
      OBVIOUS
    <3>1. run \in Run BY <2>2
    <3> HIDE DEF run
    <3>2. run.events \in Nat \ {0} /\ run.events + 1 \in Nat \ {0} /\ e.ts \in Nat
      BY <1>0, <3>1 DEF Run
    <3> DEFINE events == run.events + 1
    <3>3. more = [run EXCEPT !.end = e.ts, !.events = events]
      BY <3>1 DEF Run
    <3> HIDE DEF events, more
    <3>4. events \in Nat \ {0} BY <3>2 DEF events
    <3> QED BY <3>1, <3>2, <3>3, <3>4 DEF Run
  <2>e. run = tally.open[e.market] BY <1>5
  <2> HIDE DEF run, fresh, more
  <2>4. CASE Joins(run, e)
    <3>1. run # NoRun /\ run.end \in Nat /\ e.ts - run.end \in 0..MaxRunGap
      BY <2>2, <2>4 DEF Joins, Run
    <3>2. u = [counted EXCEPT !.open[e.market] = more] BY <2>1, <2>4
    <3>3. /\ u \in Tally /\ u.total = counted.total /\ u.last = counted.last
          /\ u.valid = counted.valid /\ u.opportunities = counted.opportunities
          /\ u.excluded = counted.excluded /\ u.runs = counted.runs
          /\ u.open = [counted.open EXCEPT ![e.market] = more]
      BY <1>0, <1>5, <2>3, <3>1, <3>2 DEF Tally
    <3>4. run.end <= e.ts /\ e.ts - run.end <= MaxRunGap
      BY <1>0, <3>1, RunsAssumption
    <3>5. Extends(tally, u, e)
      BY <1>5, <2>e, <3>1, <3>3, <3>4 DEF Extends, more
    <3> QED BY <1>1, <1>5, <1>9, <3>3, <3>5 DEF Counts, u
  <2>5. CASE ~Joins(run, e) /\ run # NoRun
    <3>1. u = [[counted EXCEPT !.runs = Append(@, run)] EXCEPT !.open[e.market] = fresh]
      BY <2>1, <2>5 DEF CloseRun
    <3>2. Append(counted.runs, run) \in Seq(Run)
      BY <2>2, <2>3, <2>5
    <3>3. /\ u \in Tally /\ u.total = counted.total /\ u.last = counted.last
          /\ u.valid = counted.valid /\ u.opportunities = counted.opportunities
          /\ u.excluded = counted.excluded /\ u.runs = Append(counted.runs, run)
          /\ u.open = [counted.open EXCEPT ![e.market] = fresh]
      BY <1>0, <1>5, <2>2, <3>1, <3>2 DEF Tally
    <3>4. Extends(tally, u, e)
      BY <1>5, <2>e, <2>5, <3>3 DEF Extends, fresh, Joins
    <3> QED BY <1>1, <1>5, <1>9, <3>3, <3>4 DEF Counts, u
  <2>6. CASE ~Joins(run, e) /\ run = NoRun
    <3>1. u = [counted EXCEPT !.open[e.market] = fresh]
      BY <2>1, <2>6 DEF CloseRun
    <3>3. /\ u \in Tally /\ u.total = counted.total /\ u.last = counted.last
          /\ u.valid = counted.valid /\ u.opportunities = counted.opportunities
          /\ u.excluded = counted.excluded /\ u.runs = counted.runs
          /\ u.open = [counted.open EXCEPT ![e.market] = fresh]
      BY <1>0, <1>5, <2>2, <3>1 DEF Tally
    <3>4. Extends(tally, u, e)
      BY <1>5, <2>e, <2>6, <3>3 DEF Extends, fresh
    <3> QED BY <1>1, <1>5, <1>9, <3>3, <3>4 DEF Counts, u
  <2> QED BY <2>4, <2>5, <2>6
<1> QED BY <1>7, <1>8, <1>9

ClosedEvents(runs) == SumFunction([i \in DOMAIN runs |-> runs[i].events])
OpenEvents(open) == SumFunction([market \in Markets |-> open[market].events])

LEMMA ClosedEventsAppend ==
  ASSUME NEW runs \in Seq(Run), NEW run \in Run
  PROVE  /\ ClosedEvents(runs) \in Int
         /\ ClosedEvents(Append(runs, run)) = ClosedEvents(runs) + run.events
<1> DEFINE n == Len(runs)
           all == Append(runs, run)
           f == [i \in DOMAIN runs |-> runs[i].events]
           g == [i \in DOMAIN all |-> all[i].events]
<1>1. /\ n \in Nat /\ DOMAIN runs = 1..n /\ DOMAIN all = 1..(n + 1) /\ all[n + 1] = run
      /\ \A i \in 1..n : all[i] = runs[i] /\ runs[i] \in Run
  OBVIOUS
<1> HIDE DEF n, all
<1>2. n + 1 \notin 1..n /\ 1..(n + 1) = 1..n \cup {n + 1}
  BY <1>1
<1>f. IsFiniteSet(1..n)
  BY <1>1, FS_Interval
<1>3. /\ DOMAIN f = 1..n /\ DOMAIN g = 1..(n + 1) /\ g[n + 1] = run.events
      /\ \A i \in 1..n : f[i] = runs[i].events /\ g[i] = runs[i].events
  BY <1>1, <1>2
<1> HIDE DEF f, g
<1>4. \A i \in 1..n : runs[i].events \in Nat
  BY <1>1 DEF Run
<1>5. run.events \in Nat
  BY DEF Run
<1>6. SumFunctionOnSet(f, 1..n) = SumFunctionOnSet(g, 1..n) /\ SumFunctionOnSet(f, 1..n) \in Int
  <2>1. \A i \in 1..n : f[i] \in Nat /\ f[i] = g[i]
    BY <1>3, <1>4
  <2>2. SumFunctionOnSet(f, 1..n) = SumFunctionOnSet(g, 1..n)
    BY <1>f, <2>1, SumCongruent
  <2>3. 1..n \in SUBSET (1..n) /\ \A i \in 1..n : f[i] \in Int
    BY <2>1
  <2> QED BY <1>f, <2>2, <2>3, SumType
<1>7. SumFunctionOnSet(g, 1..n \cup {n + 1}) = g[n + 1] + SumFunctionOnSet(g, 1..n)
  <2>1. \A i \in 1..n \cup {n + 1} : g[i] \in Int
    BY <1>3, <1>4, <1>5
  <2> QED BY <1>2, <1>f, <2>1, SumAdd
<1>8. ClosedEvents(runs) = SumFunctionOnSet(f, 1..n)
      /\ ClosedEvents(all) = SumFunctionOnSet(g, 1..(n + 1))
  BY <1>3 DEF ClosedEvents, SumFunction, f, g
<1>9. ClosedEvents(all) = ClosedEvents(runs) + run.events /\ ClosedEvents(runs) \in Int
  <2>1. ClosedEvents(all) = SumFunctionOnSet(g, 1..n \cup {n + 1})
    BY <1>2, <1>8
  <2>2. ClosedEvents(all) = run.events + ClosedEvents(runs)
    BY <1>3, <1>6, <1>7, <1>8, <2>1
  <2> QED BY <1>5, <1>6, <1>8, <2>2
<1> QED BY <1>9 DEF all

LEMMA OpenEventsChange ==
  ASSUME NEW open \in [Markets -> Run \cup {NoRun}], NEW market \in Markets, NEW run \in Run
  PROVE  /\ OpenEvents(open) \in Int /\ open[market].events \in Nat
         /\ OpenEvents([open EXCEPT ![market] = run]) =
              OpenEvents(open) - open[market].events + run.events
<1> DEFINE u == [open EXCEPT ![market] = run]
           f == [m \in Markets |-> open[m].events]
           g == [m \in Markets |-> u[m].events]
<1>1. \A m \in Markets : open[m].events \in Nat
  <2>1. \A r \in Run \cup {NoRun} : r.events \in Nat
    BY DEF Run, NoRun
  <2> QED BY <2>1
<1>2. run.events \in Nat BY DEF Run
<1>3. u[market] = run /\ \A m \in Markets \ {market} : u[m] = open[m]
  OBVIOUS
<1> HIDE DEF u
<1>4. /\ DOMAIN f = Markets /\ DOMAIN g = Markets /\ g[market] = run.events
      /\ f[market] = open[market].events
      /\ \A m \in Markets \ {market} : g[m] = f[m]
      /\ \A m \in Markets : f[m] \in Nat
  BY <1>1, <1>3
<1> HIDE DEF f, g
<1>5. /\ SumFunctionOnSet(f, Markets) \in Int
      /\ SumFunctionOnSet(g, Markets) = SumFunctionOnSet(f, Markets) - f[market] + g[market]
  BY <1>2, <1>4, SumChange, RunsAssumption
<1>6. OpenEvents(open) = SumFunctionOnSet(f, Markets)
      /\ OpenEvents(u) = SumFunctionOnSet(g, Markets)
  BY <1>4 DEF OpenEvents, SumFunction, f, g
<1> QED BY <1>1, <1>4, <1>5, <1>6 DEF u

\* What Extends comes to: one run ends with the evaluation; it is the market's
\* open run, which it replaces, or a new one.
Moved(tally, u, e, r) ==
  /\ r \in Run /\ r.market = e.market /\ r.end = e.ts /\ r.start <= e.ts
  /\ r \in RunsOf(u) /\ RunsOf(u) \subseteq RunsOf(tally) \cup {r}
  /\ Events(u) = Events(tally) + 1
  /\ \/ r.start = e.ts /\ RunsOf(tally) \subseteq RunsOf(u)
     \/ \E old \in RunsOf(tally) :
          /\ r.start = old.start /\ old.market = e.market /\ old.end <= e.ts
          /\ RunsOf(tally) \subseteq RunsOf(u) \cup {old}

LEMMA RunsMove ==
  ASSUME NEW tally \in Tally, NEW u \in Tally, NEW e \in Evaluations, Extends(tally, u, e),
         RunsAtHome(tally), \A run \in RunsOf(tally) : run.start <= run.end
  PROVE  RunsAtHome(u) /\ \E r : Moved(tally, u, e, r)
<1> DEFINE m == e.market
           run == tally.open[m]
           fresh == [market |-> m, start |-> e.ts, end |-> e.ts, events |-> 1]
           more == [run EXCEPT !.end = e.ts, !.events = @ + 1]
<1>1. /\ e.ts \in Nat /\ m \in Markets /\ tally.open \in [Markets -> Run \cup {NoRun}]
      /\ tally.runs \in Seq(Run) /\ u.runs \in Seq(Run)
  BY DEF Evaluations, Tally
<1>2. fresh \in Run /\ fresh.market = m /\ fresh.start = e.ts /\ fresh.end = e.ts
      /\ fresh.events = 1 /\ fresh # NoRun
  BY <1>1 DEF Run, NoRun
<1>3. Events(tally) = ClosedEvents(tally.runs) + OpenEvents(tally.open)
      /\ Events(u) = ClosedEvents(u.runs) + OpenEvents(u.open)
  BY DEF Events, ClosedEvents, OpenEvents
<1>4. ClosedEvents(tally.runs) \in Int
  BY <1>1, <1>2, ClosedEventsAppend
<1>5. RunsOf(tally) = Range(tally.runs) \cup ({tally.open[k] : k \in Markets} \ {NoRun})
      /\ RunsOf(u) = Range(u.runs) \cup ({u.open[k] : k \in Markets} \ {NoRun})
  BY DEF RunsOf, OpenRuns
<1>6. run # NoRun => /\ run \in Run /\ run \in RunsOf(tally) /\ run.market = m
                     /\ run.start <= run.end
  BY <1>1, <1>5 DEF RunsAtHome
<1> DEFINE opened(r) == /\ r \in Run /\ r # NoRun /\ r.market = m
                        /\ u.open = [tally.open EXCEPT ![m] = r]
<1>7. ASSUME NEW r, opened(r)
      PROVE  /\ RunsAtHome(u)
             /\ OpenEvents(u.open) = OpenEvents(tally.open) - run.events + r.events
             /\ OpenEvents(tally.open) \in Int /\ run.events \in Nat
             /\ u.open[m] = r /\ \A k \in Markets \ {m} : u.open[k] = tally.open[k]
  <2>1. u.open[m] = r /\ \A k \in Markets \ {m} : u.open[k] = tally.open[k]
    BY <1>1, <1>7
  <2>2. RunsAtHome(u)
    BY <1>1, <1>7, <2>1 DEF RunsAtHome
  <2> QED BY <1>1, <1>7, <2>1, <2>2, OpenEventsChange
<1>8. CASE /\ run # NoRun /\ run.end <= e.ts /\ e.ts - run.end <= MaxRunGap
           /\ u.runs = tally.runs /\ u.open = [tally.open EXCEPT ![m] = more]
  <2>1. /\ more \in Run /\ more # NoRun /\ more.market = m /\ more.start = run.start
        /\ more.end = e.ts /\ more.events = run.events + 1 /\ run.start \in Nat /\ run.end \in Nat
    <3>1. run \in Run /\ run # NoRun /\ run.market = m BY <1>6, <1>8
    <3> HIDE DEF run
    <3> DEFINE events == run.events + 1
    <3>2. more = [run EXCEPT !.end = e.ts, !.events = events]
      BY <3>1 DEF Run
    <3>3. events \in Nat \ {0}
      BY <3>1 DEF Run
    <3> HIDE DEF events, more, m
    <3>4. more \in Run /\ more.market = run.market /\ more.start = run.start
          /\ more.end = e.ts /\ more.events = events
      BY <1>1, <3>1, <3>2, <3>3 DEF Run
    <3>5. more # NoRun BY <3>4 DEF Run, NoRun
    <3> QED BY <3>1, <3>4, <3>5 DEF events, Run
  <2> HIDE DEF more
  <2>2. opened(more) BY <1>8, <2>1
  <2>3. /\ RunsAtHome(u) /\ u.open[m] = more /\ \A k \in Markets \ {m} : u.open[k] = tally.open[k]
        /\ OpenEvents(u.open) = OpenEvents(tally.open) - run.events + more.events
        /\ OpenEvents(tally.open) \in Int /\ run.events \in Nat
    BY <1>7, <2>2
  <2> HIDE DEF opened
  <2>4. Events(u) = Events(tally) + 1
    BY <1>3, <1>4, <1>8, <2>1, <2>3
  <2>5. /\ more \in RunsOf(u) /\ RunsOf(u) \subseteq RunsOf(tally) \cup {more}
        /\ RunsOf(tally) \subseteq RunsOf(u) \cup {run}
    BY <1>1, <1>5, <1>8, <2>1, <2>3
  <2>6. run \in RunsOf(tally) /\ run.market = m /\ run.start <= run.end BY <1>6, <1>8
  <2>7. more.start <= e.ts
    BY <1>1, <1>8, <2>1, <2>6
  <2>8. Moved(tally, u, e, more)
    BY <1>8, <2>1, <2>4, <2>5, <2>6, <2>7 DEF Moved
  <2> QED BY <2>3, <2>8
<1>9. ASSUME u.open = [tally.open EXCEPT ![m] = fresh],
             \/ run = NoRun /\ u.runs = tally.runs
             \/ run # NoRun /\ u.runs = Append(tally.runs, run)
      PROVE  RunsAtHome(u) /\ \E r : Moved(tally, u, e, r)
  <2> HIDE DEF fresh
  <2>2. opened(fresh) BY <1>2, <1>9
  <2>3. /\ RunsAtHome(u) /\ u.open[m] = fresh /\ \A k \in Markets \ {m} : u.open[k] = tally.open[k]
        /\ OpenEvents(u.open) = OpenEvents(tally.open) - run.events + fresh.events
        /\ OpenEvents(tally.open) \in Int /\ run.events \in Nat
    BY <1>7, <2>2
  <2> HIDE DEF opened
  <2>4. ClosedEvents(u.runs) = ClosedEvents(tally.runs) + run.events
    <3>1. CASE run = NoRun
      <4>1. run.events = 0 BY <3>1 DEF NoRun
      <4> QED BY <1>4, <1>9, <3>1, <4>1
    <3>2. CASE run # NoRun
      BY <1>1, <1>6, <1>9, <3>2, ClosedEventsAppend
    <3> QED BY <3>1, <3>2
  <2>5. Events(u) = Events(tally) + 1
    BY <1>2, <1>3, <1>4, <2>3, <2>4
  <2>6. Range(u.runs) = Range(tally.runs) \cup (IF run = NoRun THEN {} ELSE {run})
    <3>1. CASE run = NoRun BY <1>9, <3>1
    <3>2. CASE run # NoRun
      <4> DEFINE n == Len(tally.runs)
      <4> HIDE DEF run
      <4>1. /\ n \in Nat /\ DOMAIN tally.runs = 1..n /\ u.runs = Append(tally.runs, run)
            /\ DOMAIN u.runs = 1..(n + 1) /\ u.runs[n + 1] = run
            /\ \A i \in 1..n : u.runs[i] = tally.runs[i]
        BY <1>1, <1>9, <3>2
      <4> HIDE DEF n
      <4>2. 1..(n + 1) = 1..n \cup {n + 1} BY <4>1
      <4> QED BY <3>2, <4>1, <4>2 DEF Range
    <3> QED BY <3>1, <3>2
  <2>7. /\ fresh \in RunsOf(u) /\ RunsOf(u) \subseteq RunsOf(tally) \cup {fresh}
        /\ RunsOf(tally) \subseteq RunsOf(u)
    BY <1>1, <1>2, <1>5, <2>3, <2>6
  <2>8. Moved(tally, u, e, fresh)
    BY <1>1, <1>2, <2>5, <2>7 DEF Moved
  <2> QED BY <2>3, <2>8
<1> QED
  <2>1. \/ run # NoRun /\ run.end <= e.ts /\ e.ts - run.end <= MaxRunGap
           /\ u.runs = tally.runs /\ u.open = [tally.open EXCEPT ![m] = more]
        \/ run # NoRun /\ u.runs = Append(tally.runs, run)
           /\ u.open = [tally.open EXCEPT ![m] = fresh]
        \/ run = NoRun /\ u.runs = tally.runs /\ u.open = [tally.open EXCEPT ![m] = fresh]
    BY DEF Extends
  <2> QED BY <1>8, <1>9, <2>1

\* Counting a row that was not counted keeps the books balanced.
LEMMA CountBalances ==
  ASSUME NEW tally \in Tally, NEW u \in Tally, NEW C \in SUBSET Rows, NEW row \in Rows \ C,
         evaluation \in [Rows -> Evaluations], Counts(tally, u, evaluation[row]),
         RunsAtHome(tally), Balanced(tally, C)
  PROVE  RunsAtHome(u) /\ Balanced(u, C \cup {row})
<1> DEFINE e == evaluation[row]
           D == C \cup {row}
           hits(S) == {x \in S : Opportunity(evaluation[x])}
           timed(S) == {x \in hits(S) : evaluation[x].ts > 0}
           at(x, run) == /\ evaluation[x].market = run.market
                         /\ run.start <= evaluation[x].ts /\ evaluation[x].ts <= run.end
           ends(run, S) == \A end \in {run.start, run.end} :
                             \E x \in timed(S) : evaluation[x].ts = end /\ at(x, run)
<1>1. /\ tally.total = Cardinality(C)
      /\ tally.total = tally.valid + SumFunction(tally.excluded)
      /\ tally.opportunities = Cardinality(hits(C))
      /\ Cardinality(timed(C)) = Events(tally)
      /\ \A x \in timed(C) : \E run \in RunsOf(tally) : at(x, run)
      /\ \A run \in RunsOf(tally) : ends(run, C)
  BY DEF Balanced
<1>2. \A x \in Rows : evaluation[x] \in Evaluations /\ evaluation[x].ts \in Nat
  BY DEF Evaluations
<1>3. e \in Evaluations /\ e.ts \in Nat
  BY <1>2
<1>f. IsFiniteSet(C) /\ IsFiniteSet(hits(C)) /\ IsFiniteSet(timed(C))
  <2>1. IsFiniteSet(Rows) BY FollowersAssumption
  <2> QED BY <2>1, FS_Subset
<1>g. /\ Cardinality(C) \in Nat /\ Cardinality(hits(C)) \in Nat /\ Cardinality(timed(C)) \in Nat
      /\ Cardinality(D) = Cardinality(C) + 1
      /\ Cardinality(hits(C) \cup {row}) = Cardinality(hits(C)) + 1
      /\ Cardinality(timed(C) \cup {row}) = Cardinality(timed(C)) + 1
  BY <1>f, FS_CardinalityType, FS_AddElement
<1>4. hits(D) = IF Opportunity(e) THEN hits(C) \cup {row} ELSE hits(C)
  OBVIOUS
<1>5. timed(D) = IF Opportunity(e) /\ e.ts > 0 THEN timed(C) \cup {row} ELSE timed(C)
  OBVIOUS
<1>6. \A x \in timed(C) : x \in Rows
  OBVIOUS
<1>7. \A run \in RunsOf(tally) : run.start <= run.end
  <2> TAKE run \in RunsOf(tally)
  <2>1. PICK x \in timed(C) : evaluation[x].ts = run.end /\ at(x, run)
    BY <1>1
  <2> QED BY <2>1
<1> SUFFICES /\ RunsAtHome(u)
             /\ u.total = Cardinality(D)
             /\ u.total = u.valid + SumFunction(u.excluded)
             /\ u.opportunities = Cardinality(hits(D))
             /\ Cardinality(timed(D)) = Events(u)
             /\ \A x \in timed(D) : \E run \in RunsOf(u) : at(x, run)
             /\ \A run \in RunsOf(u) : ends(run, D)
  BY DEF Balanced
<1> HIDE DEF D, hits, e
<1>8. u.total = Cardinality(D) /\ u.opportunities = Cardinality(hits(D))
  <2>1. u.total = tally.total + 1
    BY DEF Counts, e
  <2>2. u.opportunities = tally.opportunities + (IF Opportunity(e) THEN 1 ELSE 0)
    <3>1. ~Valid(e) => ~Opportunity(e) BY DEF Opportunity
    <3>2. tally.opportunities \in Nat BY DEF Tally
    <3> QED BY <3>1, <3>2 DEF Counts, e
  <2>3. u.total = Cardinality(D) BY <1>1, <1>g, <2>1
  <2>4. u.opportunities = Cardinality(hits(D))
    <3>1. CASE Opportunity(e) BY <1>1, <1>4, <1>g, <2>2, <3>1
    <3>2. CASE ~Opportunity(e) BY <1>1, <1>4, <1>g, <2>2, <3>2
    <3> QED BY <3>1, <3>2
  <2> QED BY <2>3, <2>4
<1>9. u.total = u.valid + SumFunction(u.excluded)
  <2>1. tally.excluded \in [Reasons -> Nat] /\ tally.total \in Nat /\ tally.valid \in Nat
    BY DEF Tally
  <2>2. IsFiniteSet(Reasons)
    <3>1. Reasons = {"closing_window"} \cup {"empty_book"} \cup {"incomplete_data"}
      BY DEF Reasons
    <3> QED BY <3>1, FS_Singleton, FS_Union
  <2>3. SumFunction(tally.excluded) = SumFunctionOnSet(tally.excluded, Reasons)
    BY <2>1 DEF SumFunction
  <2>4. u.total = tally.total + 1
    BY DEF Counts, e
  <2>5. CASE Valid(e)
    <3>1. u.valid = tally.valid + 1 /\ u.excluded = tally.excluded
      BY <2>5 DEF Counts, e
    <3>2. SumFunctionOnSet(tally.excluded, Reasons) \in Int
      BY <2>1, <2>2, SumType
    <3> QED BY <1>1, <2>1, <2>3, <2>4, <3>1, <3>2
  <2>6. CASE ~Valid(e)
    <3>1. PICK reason \in Reasons : u.excluded = [tally.excluded EXCEPT ![reason] = @ + 1]
      BY <2>6 DEF Counts, e
    <3>2. u.valid = tally.valid BY <2>6 DEF Counts, e
    <3> DEFINE f == tally.excluded  g == u.excluded
    <3>3. /\ g \in [Reasons -> Nat] /\ g[reason] = f[reason] + 1 /\ f[reason] \in Nat
          /\ \A y \in Reasons \ {reason} : g[y] = f[y]
          /\ \A y \in Reasons : f[y] \in Nat
      BY <2>1, <3>1
    <3>4. SumFunction(g) = SumFunctionOnSet(g, Reasons) BY <3>3 DEF SumFunction
    <3> HIDE DEF f, g
    <3>5. /\ SumFunctionOnSet(f, Reasons) \in Int
          /\ SumFunctionOnSet(g, Reasons) = SumFunctionOnSet(f, Reasons) - f[reason] + g[reason]
      BY <2>2, <3>3, SumChange
    <3>6. SumFunctionOnSet(g, Reasons) = SumFunctionOnSet(f, Reasons) + 1
      BY <3>3, <3>5
    <3> QED BY <1>1, <2>1, <2>3, <2>4, <3>2, <3>4, <3>5, <3>6 DEF f, g
  <2> QED BY <2>5, <2>6
<1>10. CASE ~(Opportunity(e) /\ e.ts > 0)
  <2>1. u.runs = tally.runs /\ u.open = tally.open
    BY <1>10 DEF Counts, e
  <2>2. RunsOf(u) = RunsOf(tally) /\ Events(u) = Events(tally) /\ RunsAtHome(u)
    BY <2>1 DEF RunsOf, OpenRuns, Events, RunsAtHome
  <2>3. timed(D) = timed(C) BY <1>5, <1>10
  <2> HIDE DEF timed
  <2> QED BY <1>1, <1>8, <1>9, <2>2, <2>3
<1>11. CASE Opportunity(e) /\ e.ts > 0
  <2>1. Extends(tally, u, e) BY <1>11 DEF Counts, e
  <2>2. RunsAtHome(u) /\ \E r : Moved(tally, u, e, r)
    BY <1>3, <1>7, <2>1, RunsMove
  <2>3. PICK r : Moved(tally, u, e, r) BY <2>2
  <2>4. timed(D) = timed(C) \cup {row} BY <1>5, <1>11
  <2>5. \A x \in timed(C) \cup {row} : x \in Rows BY <1>6
  <2> HIDE DEF timed
  <2>6. r.market = e.market /\ r.start <= e.ts /\ r.end = e.ts /\ r \in RunsOf(u)
        /\ RunsOf(u) \subseteq RunsOf(tally) \cup {r} /\ Events(u) = Events(tally) + 1
        /\ r.start \in Nat
    BY <2>3 DEF Moved, Run
  <2>7. at(row, r) /\ evaluation[row].ts = r.end
    BY <1>3, <2>6 DEF e
  <2>8. ASSUME r.start = e.ts, RunsOf(tally) \subseteq RunsOf(u)
        PROVE  /\ \A x \in timed(D) : \E run \in RunsOf(u) : at(x, run)
               /\ \A run \in RunsOf(u) : ends(run, D)
    <3>1. \A x \in timed(D) : \E run \in RunsOf(u) : at(x, run)
      BY <1>1, <2>4, <2>6, <2>7, <2>8
    <3>2. \A run \in RunsOf(tally) : ends(run, D)
      BY <1>1, <2>4
    <3>3. ends(r, D)
      BY <2>4, <2>7, <2>8 DEF e
    <3>4. \A run \in RunsOf(u) : ends(run, D)
      <4> HIDE DEF ends
      <4> QED BY <2>6, <3>2, <3>3
    <3> QED BY <3>1, <3>4
  <2>9. ASSUME NEW old \in RunsOf(tally), r.start = old.start, old.market = e.market,
               old.end <= e.ts, RunsOf(tally) \subseteq RunsOf(u) \cup {old}
        PROVE  /\ \A x \in timed(D) : \E run \in RunsOf(u) : at(x, run)
               /\ \A run \in RunsOf(u) : ends(run, D)
    <3>0. old.end \in Nat
      <4>1. PICK x \in timed(C) : evaluation[x].ts = old.end
        BY <1>1
      <4> QED BY <1>2, <1>6, <4>1
    <3>1. \A x \in timed(C) : at(x, old) => at(x, r)
      BY <1>2, <1>3, <1>6, <2>6, <2>9, <3>0
    <3>2. \A x \in timed(D) : \E run \in RunsOf(u) : at(x, run)
      <4> HIDE DEF at
      <4> QED BY <1>1, <2>4, <2>6, <2>7, <2>9, <3>1
    <3>3. \A run \in RunsOf(tally) : ends(run, D)
      BY <1>1, <2>4
    <3>4. ends(r, D)
      <4>1. PICK x \in timed(C) : evaluation[x].ts = old.start /\ at(x, old)
        BY <1>1
      <4>2. at(x, r) BY <3>1, <4>1
      <4> QED BY <2>4, <2>7, <2>9, <4>1, <4>2
    <3>5. \A run \in RunsOf(u) : ends(run, D)
      <4> HIDE DEF ends
      <4> QED BY <2>6, <3>3, <3>4
    <3> QED BY <3>2, <3>5
  <2>10. \/ r.start = e.ts /\ RunsOf(tally) \subseteq RunsOf(u)
         \/ \E old \in RunsOf(tally) :
              /\ r.start = old.start /\ old.market = e.market /\ old.end <= e.ts
              /\ RunsOf(tally) \subseteq RunsOf(u) \cup {old}
    BY <2>3 DEF Moved
  <2>11. /\ \A x \in timed(D) : \E run \in RunsOf(u) : at(x, run)
         /\ \A run \in RunsOf(u) : ends(run, D)
    <3>1. CASE r.start = e.ts /\ RunsOf(tally) \subseteq RunsOf(u)
      BY <2>8, <3>1
    <3> QED BY <2>9, <2>10, <3>1
  <2> QED BY <1>1, <1>8, <1>9, <1>g, <2>2, <2>4, <2>6, <2>11
<1> QED BY <1>10, <1>11

-----------------------------------------------------------------------------
(* What is handled stays handled. *)

LEMMA StaysHandled ==
  ASSUME NEW s, NEW t, NEW w, NEW v,
         \A row \in Rows : /\ s.counted[row] \in Nat /\ t.counted[row] \in Nat
                           /\ w[row] \in Nat /\ v[row] \in Nat
                           /\ s.counted[row] <= t.counted[row] /\ w[row] <= v[row]
  PROVE  /\ \A row \in Rows : CoveredBy(w, row) => CoveredBy(v, row)
         /\ \A row \in Rows : HandledBy(s, w, row) => HandledBy(t, v, row)
<1>1. \A row \in Rows : (w[row] > 0 => v[row] > 0) /\ (s.counted[row] > 0 => t.counted[row] > 0)
  OBVIOUS
<1>2. \A row \in Rows : CoveredBy(w, row) => CoveredBy(v, row)
  BY <1>1 DEF CoveredBy
<1> QED BY <1>1, <1>2 DEF HandledBy

LEMMA StaysPassed ==
  ASSUME NEW s, NEW t, NEW w, NEW v,
         \A row \in Rows : HandledBy(s, w, row) => HandledBy(t, v, row),
         NEW f \in Files, NEW left, NEW more, left \subseteq more, NEW at, Passed(s, w, f, left, at)
  PROVE  Passed(t, v, f, more, at)
<1>1. \A i \in DOMAIN f.lines : f.lines[i] \in Rows
  BY DEF Files
<1> QED BY <1>1 DEF Passed

LEMMA StaysFollowed ==
  ASSUME NEW s, NEW t, NEW w, NEW v,
         \A row \in Rows : HandledBy(s, w, row) => HandledBy(t, v, row),
         NEW f \in Files, NEW left, NEW more, left \subseteq more, NEW cut,
         Follows(s, w, f, left, cut), t.offset = s.offset, t.inode = s.inode
  PROVE  Follows(t, v, f, more, cut)
<1>1. Passed(s, w, f, left, s.offset) => Passed(t, v, f, more, s.offset)
  BY StaysPassed
<1> QED BY <1>1 DEF Follows

LEMMA ComingIs ==
  ASSUME buffer \in [Rows -> Nat], output \in [Rows -> Nat]
  PROVE  /\ Coming \in [Rows -> Nat]
         /\ \A row \in Rows : Coming[row] = output[row] + buffer[row] /\ output[row] <= Coming[row]
         /\ buffer = Silent => Coming = output
<1>1. Coming \in [Rows -> Nat]
  BY DEF Coming
<1>2. \A row \in Rows : Coming[row] = output[row] + buffer[row] /\ output[row] <= Coming[row]
  BY DEF Coming
<1>3. buffer = Silent => Coming = output
  <2> SUFFICES ASSUME buffer = Silent PROVE \A row \in Rows : Coming[row] = output[row]
    BY <1>1
  <2>1. \A row \in Rows : buffer[row] = 0 BY DEF Silent
  <2> QED BY <1>2, <2>1
<1> QED BY <1>1, <1>2, <1>3
-----------------------------------------------------------------------------
(* Acting on a row. *)

Writes(row) == Its.writes # "nothing" /\ ~Throttled(row)

LEMMA ActIs ==
  ASSUME Typed, NEW row \in Rows, Act(row), ~Known(row)
  PROVE  /\ mem' \in Memory /\ mem'.offset = mem.offset /\ mem'.inode = mem.inode
         /\ IF Its.dedupes
            THEN /\ mem'.seen = Remember(mem.seen, row)
                 /\ \A i \in DOMAIN mem.seen : mem.seen[i] # row
            ELSE mem'.seen = mem.seen
         /\ mem'.counted = IF Its.counts THEN [mem.counted EXCEPT ![row] = @ + 1] ELSE mem.counted
         /\ mem'.tally = IF follower = "paired" THEN Count(mem.tally, evaluation[row])
                         ELSE mem.tally
         /\ mem'.sent = IF Writes(row) /\ follower = "evaluator"
                        THEN [mark |-> row.mark, ts |-> row.ts] ELSE mem.sent
         /\ Coming' = IF Writes(row) THEN [Coming EXCEPT ![row] = @ + 1] ELSE Coming
         /\ buffer' \in [Rows -> Nat] /\ output' \in [Rows -> Nat]
         /\ Its.writes # "buffered" => buffer' = buffer
         /\ \A x \in Rows : output[x] <= output'[x]
<1> DEFINE seen == IF Its.dedupes THEN Remember(mem.seen, row) ELSE mem.seen
           counted == IF Its.counts THEN [mem.counted EXCEPT ![row] = @ + 1] ELSE mem.counted
           tally == IF follower = "paired" THEN Count(mem.tally, evaluation[row]) ELSE mem.tally
           sent == IF Writes(row) /\ follower = "evaluator"
                   THEN [mark |-> row.mark, ts |-> row.ts] ELSE mem.sent
<1>1. /\ mem \in Memory /\ buffer \in [Rows -> Nat] /\ output \in [Rows -> Nat]
      /\ follower \in Followers /\ (follower = "paired" => evaluation \in [Rows -> Evaluations])
      /\ \A i, j \in DOMAIN mem.seen : mem.seen[i] = mem.seen[j] => i = j
  BY DEF Typed, Remembers
<1>2. /\ mem.seen \in Seq(Rows) /\ mem.counted \in [Rows -> Nat] /\ mem.tally \in Tally
      /\ mem.sent \in [mark : {r.mark : r \in Rows} \cup {"none"}, ts : Int]
  BY <1>1 DEF Memory
<1>3. mem' = [mem EXCEPT !.seen = seen, !.counted = counted, !.tally = tally, !.sent = sent]
  <2>1. mem' = [mem EXCEPT
           !.seen = IF Its.dedupes THEN Remember(@, row) ELSE @,
           !.counted[row] = IF Its.counts THEN @ + 1 ELSE @,
           !.tally = IF follower = "paired" THEN Count(@, evaluation[row]) ELSE @,
           !.sent = IF Writes(row) /\ follower = "evaluator"
                    THEN [mark |-> row.mark, ts |-> row.ts] ELSE @]
    BY DEF Act, Writes
  <2>2. counted = [mem.counted EXCEPT ![row] = IF Its.counts THEN @ + 1 ELSE @]
    BY <1>2
  <2> QED BY <1>1, <2>1, <2>2 DEF Memory
<1>4. Its.dedupes => \A i \in DOMAIN mem.seen : mem.seen[i] # row
  BY DEF Known
<1>5. seen \in Seq(Rows)
  <2>1. Its.dedupes => Remember(mem.seen, row) \in Seq(Rows)
    BY <1>1, <1>2, <1>4, RememberIs
  <2> QED BY <1>2, <2>1
<1>6. counted \in [Rows -> Nat]
  BY <1>2
<1>7. tally \in Tally
  BY <1>1, <1>2, CountIs
<1>8. sent \in [mark : {r.mark : r \in Rows} \cup {"none"}, ts : Int]
  BY <1>2, FollowersAssumption
<1> HIDE DEF seen, counted, tally, sent
<1>9. /\ mem' \in Memory /\ mem'.offset = mem.offset /\ mem'.inode = mem.inode
      /\ mem'.seen = seen /\ mem'.counted = counted /\ mem'.tally = tally /\ mem'.sent = sent
  BY <1>1, <1>3, <1>5, <1>6, <1>7, <1>8 DEF Memory
<1>10. /\ buffer' = IF Writes(row) /\ Its.writes = "buffered"
                    THEN [buffer EXCEPT ![row] = @ + 1] ELSE buffer
       /\ output' = IF Writes(row) /\ Its.writes = "through"
                    THEN [output EXCEPT ![row] = @ + 1] ELSE output
  BY DEF Act, Writes
<1>11. /\ buffer' \in [Rows -> Nat] /\ output' \in [Rows -> Nat]
       /\ \A x \in Rows : output[x] <= output'[x]
  BY <1>1, <1>10
<1>12. Coming' = IF Writes(row) THEN [Coming EXCEPT ![row] = @ + 1] ELSE Coming
  <2>1. Coming \in [Rows -> Nat] /\ \A x \in Rows : Coming[x] = output[x] + buffer[x]
    BY <1>1, ComingIs
  <2>2. Coming' = [x \in Rows |-> output'[x] + buffer'[x]] BY DEF Coming
  <2>3. CASE ~Writes(row)
    <3>1. buffer' = buffer /\ output' = output BY <1>10, <2>3
    <3> QED BY <2>3, <3>1 DEF Coming
  <2>4. CASE Writes(row)
    <3>1. Its.writes \in {"buffered", "through"}
      BY <1>1, <2>4, ItsIs DEF Writes
    <3>2. \A x \in Rows : output'[x] + buffer'[x] = IF x = row THEN Coming[x] + 1 ELSE Coming[x]
      <4>1. CASE Its.writes = "buffered"
        <5>1. buffer' = [buffer EXCEPT ![row] = @ + 1] /\ output' = output
          BY <1>10, <2>4, <4>1
        <5> QED BY <1>1, <2>1, <5>1
      <4>2. CASE Its.writes = "through"
        <5>1. output' = [output EXCEPT ![row] = @ + 1] /\ buffer' = buffer
          BY <1>10, <2>4, <4>2
        <5> QED BY <1>1, <2>1, <5>1
      <4> QED BY <3>1, <4>1, <4>2
    <3> QED BY <2>1, <2>2, <2>4, <3>2
  <2> QED BY <2>3, <2>4
<1> QED BY <1>4, <1>9, <1>10, <1>11, <1>12 DEF seen, counted, tally, sent

-----------------------------------------------------------------------------
(* Every step keeps the types. *)

LEMMA StartPollIs ==
  ASSUME Typed, StartPoll
  PROVE  \E state \in {mem, saved}, offset \in Nat :
           /\ IF Its.rereads THEN state = saved ELSE state = mem
           /\ offset \in {0, state.offset}
           /\ offset # 0 => state.inode \in {NoFile, file.inode} /\ ~(Size(file) < offset)
           /\ mem' = [state EXCEPT !.offset = offset, !.inode = file.inode]
           /\ mem' \in Memory /\ mem'.offset = offset /\ mem'.inode = file.inode
           /\ mem'.seen = state.seen /\ mem'.counted = state.counted
           /\ mem'.sent = state.sent /\ mem'.tally = state.tally
           /\ pos' = offset /\ offset <= 2 * emitted
<1> DEFINE state == IF Its.rereads THEN saved ELSE mem
           offset == StartAt(file, state.offset, state.inode)
<1>1. /\ mem \in Memory /\ saved \in Memory /\ file \in Files /\ emitted \in Nat
      /\ mem.offset <= 2 * emitted /\ saved.offset <= 2 * emitted
  BY DEF Typed
<1>2. mem' = [state EXCEPT !.offset = offset, !.inode = file.inode] /\ pos' = offset
  BY DEF StartPoll
<1>3. /\ state \in {mem, saved} /\ state \in Memory /\ state.offset \in Nat
      /\ state.offset <= 2 * emitted
      /\ (IF Its.rereads THEN state = saved ELSE state = mem)
  BY <1>1 DEF Memory
<1> HIDE DEF state
<1>4. /\ offset \in {0, state.offset} /\ offset \in Nat
      /\ offset # 0 => state.inode \in {NoFile, file.inode} /\ ~(Size(file) < offset)
  BY <1>3 DEF StartAt
<1>5. file.inode \in Nat BY <1>1 DEF Files
<1> HIDE DEF offset
<1>6. /\ mem' \in Memory /\ mem'.offset = offset /\ mem'.inode = file.inode
      /\ mem'.seen = state.seen /\ mem'.counted = state.counted
      /\ mem'.sent = state.sent /\ mem'.tally = state.tally
  BY <1>2, <1>3, <1>4, <1>5 DEF Memory
<1>7. offset <= 2 * emitted BY <1>1, <1>3, <1>4
<1> QED BY <1>2, <1>3, <1>4, <1>6, <1>7

LEMMA TypedAtStart ==
  ASSUME Typed, StartPoll
  PROVE  Typed'
<1>1. PICK state \in {mem, saved}, offset \in Nat :
           /\ mem' \in Memory /\ mem'.offset = offset
           /\ mem'.seen = state.seen /\ mem'.counted = state.counted
           /\ pos' = offset /\ offset <= 2 * emitted
  BY StartPollIs
<1>2. /\ pc = "idle" /\ pc' = "read" /\ follower' = follower /\ evaluation' = evaluation
      /\ file' = file /\ emitted' = emitted /\ torns' = torns /\ truncations' = truncations
      /\ rotations' = rotations /\ crashes' = crashes /\ saved' = saved /\ output' = output
      /\ buffer' = buffer /\ due' = due /\ passedOver' = passedOver /\ handled' = FALSE
  BY DEF StartPoll, environment
<1>3. listed' \in BOOLEAN /\ (~listed' => follower = "evaluator")
  BY DEF StartPoll
<1>4. dirty' \in BOOLEAN
  <2> DEFINE marked == (Its.keepsMark /\ dirty) \/
                       (follower # "research" /\ mem' # (IF Its.rereads THEN saved ELSE mem))
  <2>1. dirty' = marked BY DEF StartPoll
  <2>2. marked \in BOOLEAN OBVIOUS
  <2> HIDE DEF marked
  <2> QED BY <2>1, <2>2
<1>5. Its' = Its BY <1>2 DEF Its
<1>6. Remembers(mem, FALSE) /\ Remembers(saved, FALSE)
  BY <1>2 DEF Typed, Remembers
<1>7. (Remembers(mem, pc = "read"))' /\ (Remembers(saved, FALSE))'
  BY <1>1, <1>2, <1>5, <1>6 DEF Remembers
<1>8. \A row \in Rows : saved'.counted[row] <= mem'.counted[row]
  <2>1. \A row \in Rows : saved.counted[row] \in Nat BY DEF Typed, Memory
  <2> QED BY <1>1, <1>2, <2>1 DEF Typed
<1>9. buffer' = Silent BY <1>2 DEF Typed
<1> QED BY <1>1, <1>2, <1>3, <1>4, <1>5, <1>7, <1>8, <1>9 DEF Typed, Silent

LEMMA TypedAtRow ==
  ASSUME Typed, ReadRow
  PROVE  /\ Typed' /\ LineAt(file, pos) \in Rows /\ AfterLine(file, pos) \in Nat
         /\ pos' <= Size(file)
<1> DEFINE row == LineAt(file, pos)
<1>1. /\ pc = "read" /\ pc' = pc /\ follower' = follower /\ evaluation' = evaluation
      /\ file' = file /\ emitted' = emitted /\ torns' = torns /\ truncations' = truncations
      /\ rotations' = rotations /\ crashes' = crashes /\ saved' = saved
      /\ due' = due /\ listed' = listed
      /\ pos' = AfterLine(file, pos) /\ ~AtEnd(file, pos) /\ pos % 2 = 0
  BY DEF ReadRow, environment
<1>2. file \in Files /\ (file.torn => Len(file.lines) > 0) /\ pos \in Nat
      /\ emitted \in 0..MaxLines /\ Len(file.lines) <= emitted
  BY DEF Typed
<1>3. /\ row \in Rows /\ pos' \in Nat /\ pos' <= Size(file) /\ pos' <= 2 * emitted
  <2>1. Size(file) \in Nat /\ Len(file.lines) \in Nat /\ Size(file) <= 2 * Len(file.lines)
        /\ \A i \in DOMAIN file.lines : file.lines[i] \in Rows
    BY <1>2, SizeIs
  <2>2. pos' \in Nat /\ pos' <= Size(file) /\ \E i \in DOMAIN file.lines : row = file.lines[i]
    BY <1>1, <1>2, LineIs
  <2>3. MaxLines \in Nat BY FollowersAssumption
  <2> QED BY <1>2, <2>1, <2>2, <2>3
<1> HIDE DEF row
<1>4. Its' = Its BY <1>1 DEF Its
<1>5. CASE UNCHANGED <<mem, buffer, output, dirty, handled, passedOver>>
  <2>1. (Remembers(mem, pc = "read"))' /\ (Remembers(saved, FALSE))'
    BY <1>1, <1>4, <1>5 DEF Typed, Remembers
  <2>2. Typed' BY <1>1, <1>3, <1>4, <1>5, <2>1 DEF Typed, Silent
  <2> QED BY <1>1, <1>3, <2>2 DEF row
<1>6. CASE PassOver(row)
  <2>1. UNCHANGED <<mem, buffer, output, dirty, handled>> /\ passedOver' \subseteq Rows
    BY <1>3, <1>6 DEF PassOver, Typed
  <2>2. (Remembers(mem, pc = "read"))' /\ (Remembers(saved, FALSE))'
    BY <1>1, <1>4, <2>1 DEF Typed, Remembers
  <2>3. Typed' BY <1>1, <1>3, <1>4, <2>1, <2>2 DEF Typed, Silent
  <2> QED BY <1>1, <1>3, <2>3 DEF row
<1>7. CASE Act(row) /\ ~Known(row) /\ UNCHANGED passedOver
  <2>1. /\ mem' \in Memory /\ mem'.offset = mem.offset
        /\ mem'.counted = IF Its.counts THEN [mem.counted EXCEPT ![row] = @ + 1] ELSE mem.counted
        /\ buffer' \in [Rows -> Nat] /\ output' \in [Rows -> Nat]
        /\ Its.writes # "buffered" => buffer' = buffer
        /\ IF Its.dedupes
           THEN /\ mem'.seen = Remember(mem.seen, row)
                /\ \A i \in DOMAIN mem.seen : mem.seen[i] # row
           ELSE mem'.seen = mem.seen
    BY <1>3, <1>7, ActIs
  <2>2. dirty' \in BOOLEAN /\ handled' \in BOOLEAN
    BY <1>7 DEF Act
  <2>3. Remembers(mem, TRUE) /\ mem.seen \in Seq(Rows)
    BY <1>1 DEF Typed, Memory
  <2>4. Remembers(mem', TRUE)
    <3> DEFINE q == Remember(mem.seen, row)
    <3>1. CASE Its.dedupes
      <4>1. /\ \A i, j \in DOMAIN q : q[i] = q[j] => i = j
            /\ Its.forgets = "oldest" /\ Len(mem.seen) <= Window => Len(q) <= Window
        BY <1>3, <2>1, <2>3, <3>1, RememberIs DEF Remembers
      <4>2. Its.forgets \in {"any", "oldest"} BY ItsIs DEF Typed
      <4>3. mem'.seen = q BY <2>1, <3>1
      <4> HIDE DEF q
      <4> QED BY <2>3, <4>1, <4>2, <4>3 DEF Remembers
    <3>2. CASE ~Its.dedupes
      BY <2>1, <2>3, <3>2 DEF Remembers
    <3> QED BY <3>1, <3>2
  <2>5. (Remembers(mem, pc = "read"))' /\ (Remembers(saved, FALSE))'
    BY <1>1, <1>4, <2>4 DEF Typed, Remembers
  <2>6. \A r \in Rows : saved'.counted[r] <= mem'.counted[r]
    <3>1. \A r \in Rows : /\ saved.counted[r] \in Nat /\ mem.counted[r] \in Nat
                          /\ saved.counted[r] <= mem.counted[r]
      BY DEF Typed, Memory
    <3>2. mem.counted \in [Rows -> Nat] BY DEF Typed, Memory
    <3>3. \A r \in Rows : mem.counted[r] <= mem'.counted[r] /\ mem'.counted[r] \in Nat
      BY <1>3, <2>1, <3>2
    <3> QED BY <1>1, <3>1, <3>3
  <2>7. Typed' BY <1>1, <1>3, <1>4, <1>7, <2>1, <2>2, <2>5, <2>6 DEF Typed, Silent
  <2> QED BY <1>1, <1>3, <2>7 DEF row
<1>8. \/ UNCHANGED <<mem, buffer, output, dirty, handled, passedOver>>
      \/ PassOver(row)
      \/ Act(row) /\ ~Known(row) /\ UNCHANGED passedOver
  <2>1. CASE Known(row) BY <2>1 DEF ReadRow, row
  <2>2. CASE ~Known(row) /\ ~listed BY <2>2 DEF ReadRow, row
  <2>3. CASE ~Known(row) /\ listed BY <2>3 DEF ReadRow, row
  <2> QED BY <2>1, <2>2, <2>3
<1> QED BY <1>5, <1>6, <1>7, <1>8

LEMMA TypedAtSkip ==
  ASSUME Typed, SkipHalf \/ SkipRest
  PROVE  /\ Typed' /\ pos' = AfterLine(file, pos) /\ pos' <= Size(file)
         /\ SkipHalf => follower \in TextReaders
<1>1. /\ pc = "read" /\ pc' = pc /\ follower' = follower /\ evaluation' = evaluation
      /\ file' = file /\ emitted' = emitted /\ torns' = torns /\ truncations' = truncations
      /\ rotations' = rotations /\ crashes' = crashes /\ saved' = saved
      /\ due' = due /\ listed' = listed
      /\ pos' = AfterLine(file, pos) /\ ~AtEnd(file, pos)
      /\ UNCHANGED <<mem, buffer, output, dirty, handled>>
  BY DEF SkipHalf, SkipRest, PassOver, environment
<1>2. file \in Files /\ (file.torn => Len(file.lines) > 0) /\ pos \in Nat
      /\ emitted \in 0..MaxLines /\ Len(file.lines) <= emitted
  BY DEF Typed
<1>3. pos' \in Nat /\ pos' <= Size(file) /\ pos' <= 2 * emitted
  <2>1. Size(file) \in Nat /\ Len(file.lines) \in Nat /\ Size(file) <= 2 * Len(file.lines)
    BY <1>2, SizeIs
  <2>2. pos' \in Nat /\ pos' <= Size(file)
    BY <1>1, <1>2, LineIs
  <2>3. MaxLines \in Nat BY FollowersAssumption
  <2> QED BY <1>2, <2>1, <2>2, <2>3
<1>4. passedOver' \subseteq Rows
  <2>1. CASE SkipHalf
    <3>1. LineAt(file, pos) \in Rows
      <4>1. \A i \in DOMAIN file.lines : file.lines[i] \in Rows BY <1>2, SizeIs
      <4>2. pos % 2 = 0 BY <2>1 DEF SkipHalf
      <4> QED BY <1>1, <1>2, <4>1, <4>2, LineIs
    <3> QED BY <2>1, <3>1 DEF SkipHalf, PassOver, Typed
  <2>2. CASE SkipRest BY <2>2 DEF SkipRest, Typed
  <2> QED BY <2>1, <2>2
<1>5. Its' = Its BY <1>1 DEF Its
<1>6. (Remembers(mem, pc = "read"))' /\ (Remembers(saved, FALSE))'
  BY <1>1, <1>5 DEF Typed, Remembers
<1>7. Typed' BY <1>1, <1>3, <1>4, <1>5, <1>6 DEF Typed, Silent
<1>8. SkipHalf => follower \in TextReaders
  <2>1. SkipHalf => Its.halves = "passed" BY DEF SkipHalf
  <2>2. Its.halves = (IF follower \in TextReaders THEN "passed" ELSE "left")
    BY ItsIs DEF Typed
  <2> QED BY <2>1, <2>2
<1> QED BY <1>1, <1>3, <1>7, <1>8

LEMMA EndReadIs ==
  ASSUME Typed, EndRead
  PROVE  /\ mem' \in Memory /\ mem'.offset = pos /\ mem'.inode = mem.inode
         /\ mem'.counted = mem.counted /\ mem'.tally = mem.tally /\ mem'.sent = mem.sent
         /\ mem'.seen \in Trimmed(mem.seen)
         /\ \A i, j \in DOMAIN mem'.seen : mem'.seen[i] = mem'.seen[j] => i = j
         /\ \A i \in DOMAIN mem'.seen : \E j \in DOMAIN mem.seen : mem'.seen[i] = mem.seen[j]
         /\ Len(mem'.seen) <= Window
         /\ Len(mem.seen) <= Window => mem'.seen = mem.seen
<1>1. PICK seen \in Trimmed(mem.seen) : mem' = [mem EXCEPT !.offset = pos, !.seen = seen]
  BY DEF EndRead
<1>2. mem \in Memory /\ pos \in Nat /\ mem.seen \in Seq(Rows)
      /\ \A i, j \in DOMAIN mem.seen : mem.seen[i] = mem.seen[j] => i = j
  BY DEF Typed, Memory, Remembers
<1>3. /\ seen \in Seq(Rows) /\ \A i, j \in DOMAIN seen : seen[i] = seen[j] => i = j
      /\ \A i \in DOMAIN seen : \E j \in DOMAIN mem.seen : seen[i] = mem.seen[j]
      /\ Len(seen) <= Window
      /\ Len(mem.seen) <= Window => seen = mem.seen
  BY <1>2, TrimmedIs
<1>4. /\ mem' \in Memory /\ mem'.offset = pos /\ mem'.inode = mem.inode
      /\ mem'.counted = mem.counted /\ mem'.tally = mem.tally /\ mem'.sent = mem.sent
      /\ mem'.seen = seen
  BY <1>1, <1>2, <1>3 DEF Memory
<1> QED BY <1>3, <1>4

LEMMA TypedAtEnd ==
  ASSUME Typed, EndRead
  PROVE  Typed'
<1>1. /\ pc = "read" /\ pc' = (IF Its.writes = "buffered" THEN "write" ELSE "save")
      /\ pos' = 0 /\ listed' = TRUE /\ follower' = follower /\ evaluation' = evaluation
      /\ file' = file /\ emitted' = emitted /\ torns' = torns /\ truncations' = truncations
      /\ rotations' = rotations /\ crashes' = crashes /\ saved' = saved /\ output' = output
      /\ buffer' = buffer /\ due' = due /\ handled' = handled /\ passedOver' = passedOver
      /\ dirty' = (dirty \/ pos # mem.offset)
  BY DEF EndRead, environment
<1>2. /\ mem' \in Memory /\ mem'.offset = pos /\ mem'.counted = mem.counted
      /\ \A i, j \in DOMAIN mem'.seen : mem'.seen[i] = mem'.seen[j] => i = j
      /\ Len(mem'.seen) <= Window
  BY EndReadIs
<1>3. Its' = Its BY <1>1 DEF Its
<1>4. (Remembers(mem, pc = "read"))' /\ (Remembers(saved, FALSE))'
  BY <1>1, <1>2, <1>3 DEF Typed, Remembers
<1>5. dirty' \in BOOLEAN BY <1>1 DEF Typed
<1>6. pos' \in Nat /\ pos' <= 2 * emitted
  <2>1. emitted \in Nat BY DEF Typed
  <2> QED BY <1>1, <2>1
<1>7. pc' \in {"write", "save"} /\ (pc' = "write" => Its.writes = "buffered")
      /\ (Its.writes # "buffered" => buffer = Silent) /\ (pc' = "save" => buffer = Silent)
  BY <1>1 DEF Typed
<1> QED BY <1>1, <1>2, <1>3, <1>4, <1>5, <1>6, <1>7 DEF Typed, Silent

LEMMA WritingIs ==
  ASSUME Typed, Flush \/ Spill
  PROVE  /\ output' = Coming /\ buffer' = Silent /\ Coming' = Coming
         /\ output' \in [Rows -> Nat]
         /\ \A row \in Rows : output[row] <= output'[row]
         /\ UNCHANGED <<follower, evaluation, environment, pos, listed, mem, dirty, due,
                        handled, saved, passedOver, crashes>>
         /\ (Flush /\ pc' = "save") \/ (Spill /\ pc' = "read" /\ pc = "read")
<1>1. Coming \in [Rows -> Nat] /\ \A row \in Rows : output[row] <= Coming[row]
  BY ComingIs DEF Typed
<1>2. output' = Coming /\ buffer' = Silent
  BY DEF Flush, Spill, Coming
<1>3. Coming' = Coming
  <2>1. Coming' = [row \in Rows |-> output'[row] + buffer'[row]] BY DEF Coming
  <2>2. \A row \in Rows : output'[row] + buffer'[row] = Coming[row]
    BY <1>1, <1>2 DEF Silent
  <2> QED BY <1>1, <2>1, <2>2
<1> QED BY <1>1, <1>2, <1>3 DEF Flush, Spill

LEMMA TypedAtWriting ==
  ASSUME Typed, Flush \/ Spill
  PROVE  Typed'
<1>1. /\ buffer' = Silent /\ output' \in [Rows -> Nat]
      /\ UNCHANGED <<follower, evaluation, environment, pos, listed, mem, dirty, due,
                     handled, saved, passedOver, crashes>>
      /\ (Flush /\ pc' = "save") \/ (Spill /\ pc' = "read" /\ pc = "read")
  BY WritingIs
<1>2. Its' = Its BY <1>1 DEF Its
<1>3. Flush => pc = "write" BY DEF Flush
<1>4. (Remembers(mem, pc = "read"))' /\ (Remembers(saved, FALSE))'
  BY <1>1, <1>2, <1>3 DEF Typed, Remembers
<1>5. Silent \in [Rows -> Nat] BY DEF Silent
<1>6. Silent' = Silent BY DEF Silent
<1> QED BY <1>1, <1>2, <1>4, <1>5, <1>6 DEF Typed, environment

LEMMA TypedAtSave ==
  ASSUME Typed, Save
  PROVE  Typed'
<1>1. /\ pc = "save" /\ pc' = "idle"
      /\ UNCHANGED <<follower, evaluation, environment, pos, listed, mem, buffer, handled,
                     output, passedOver, crashes>>
      /\ \/ SavesNow /\ saved' = mem /\ dirty' = FALSE /\ due' = FALSE
         \/ ~SavesNow /\ UNCHANGED <<saved, dirty, due>>
  BY DEF Save
<1>2. Its' = Its BY <1>1 DEF Its
<1>3. Remembers(mem, FALSE) /\ Remembers(saved, FALSE)
  BY <1>1 DEF Typed, Remembers
<1>4. (Remembers(mem, pc = "read"))' /\ (Remembers(saved, FALSE))'
  BY <1>1, <1>2, <1>3 DEF Remembers
<1>5. Its.saves = "always" => saved' = mem
  BY <1>1 DEF SavesNow
<1>6. \A row \in Rows : saved'.counted[row] <= mem'.counted[row]
  <2>1. \A row \in Rows : mem.counted[row] \in Nat /\ saved.counted[row] <= mem.counted[row]
    BY DEF Typed, Memory
  <2> QED BY <1>1, <2>1
<1>7. saved' \in {mem, saved} /\ dirty' \in BOOLEAN /\ due' \in BOOLEAN
  BY <1>1 DEF Typed
<1> QED BY <1>1, <1>2, <1>4, <1>5, <1>6, <1>7 DEF Typed, environment, Silent

LEMMA RestartIs ==
  ASSUME Typed, Crash \/ Abort
  PROVE  /\ \E state \in {mem, saved} : /\ saved' = state /\ mem' = state
                                        /\ state = mem => buffer = Silent \/ mem = saved
         /\ buffer' = Silent /\ dirty' = FALSE /\ handled' = FALSE
         /\ due' = (follower # "observations") /\ crashes' = crashes + 1
         /\ pc' = "idle" /\ pos' = 0 /\ listed' = TRUE
         /\ UNCHANGED <<follower, evaluation, environment, output, passedOver>>
<1>1. CASE Crash
  BY <1>1 DEF Crash, RestartFrom
<1>2. CASE Abort
  <2>1. Its.writes # "buffered"
    <3>1. follower = "observations" BY <1>2 DEF Abort
    <3> QED BY <3>1, ItsIs DEF Typed
  <2>2. buffer = Silent BY <2>1 DEF Typed
  <2> QED BY <1>2, <2>2 DEF Abort, RestartFrom
<1> QED BY <1>1, <1>2

LEMMA TypedAtRestart ==
  ASSUME Typed, Crash \/ Abort
  PROVE  Typed'
<1>1. PICK state \in {mem, saved} : saved' = state /\ mem' = state /\ (Crash => state = saved)
  BY RestartIs DEF Crash, RestartFrom
<1>2. /\ buffer' = Silent /\ dirty' = FALSE /\ handled' = FALSE
      /\ due' = (follower # "observations") /\ crashes' = crashes + 1
      /\ pc' = "idle" /\ pos' = 0 /\ listed' = TRUE
      /\ UNCHANGED <<follower, evaluation, environment, output, passedOver>>
  BY RestartIs
<1>3. Its' = Its BY <1>2 DEF Its
<1>4. Remembers(state, FALSE)
  <2>1. Abort => Its.forgets = "oldest" /\ pc \in {"idle", "read", "write", "save"}
    BY ItsIs DEF Abort, Typed
  <2>2. Abort => Remembers(mem, FALSE)
    BY <2>1 DEF Typed, Remembers
  <2> QED BY <1>1, <2>2 DEF Typed
<1>9. /\ mem' \in Memory /\ saved' \in Memory
      /\ mem'.offset <= 2 * emitted /\ saved'.offset <= 2 * emitted
  BY <1>1 DEF Typed
<1>5. (Remembers(mem, pc = "read"))' /\ (Remembers(saved, FALSE))'
  BY <1>1, <1>2, <1>3, <1>4 DEF Remembers
<1>6. \A row \in Rows : saved'.counted[row] <= mem'.counted[row]
  <2>1. \A row \in Rows : mem.counted[row] \in Nat /\ saved.counted[row] \in Nat
    BY DEF Typed, Memory
  <2> QED BY <1>1, <2>1
<1>7. Silent \in [Rows -> Nat] /\ Silent' = Silent BY DEF Silent
<1>8. emitted \in Nat /\ crashes' \in Nat /\ due' \in BOOLEAN
  BY <1>2 DEF Typed
<1>10. emitted' = emitted /\ pos' <= 2 * emitted' /\ mem'.offset <= 2 * emitted'
       /\ saved'.offset <= 2 * emitted'
  BY <1>2, <1>8, <1>9 DEF environment
<1>11. mem' = saved' BY <1>1
<1> QED BY <1>2, <1>3, <1>5, <1>6, <1>7, <1>8, <1>9, <1>10, <1>11 DEF Typed, environment

LEMMA FileStepIs ==
  ASSUME Typed, Emit \/ FinishHalf \/ CopyTruncate \/ Replace
  PROVE  /\ UNCHANGED OwnState
         /\ file' \in Files /\ (file'.torn => Len(file'.lines) > 0)
         /\ emitted' \in 0..MaxLines /\ emitted <= emitted' /\ Len(file'.lines) <= emitted'
         /\ torns' \in Nat /\ truncations' \in Nat /\ rotations' \in Nat
         /\ \/ /\ Emit \/ FinishHalf
               /\ file'.inode = file.inode /\ truncations' = truncations
               /\ Size(file) <= Size(file')
               /\ \A i \in DOMAIN file'.lines :
                    (i \in DOMAIN file.lines /\ file'.lines[i] = file.lines[i])
                    \/ (i \in Nat /\ 2 * i > Size(file) + 1)
            \/ CopyTruncate /\ file'.inode = file.inode /\ truncations' # 0
            \/ Replace /\ file'.inode = file.inode + 1 /\ truncations' = truncations /\ pc # "read"
<1>1. /\ file \in Files /\ (file.torn => Len(file.lines) > 0)
      /\ emitted \in 0..MaxLines /\ Len(file.lines) <= emitted
      /\ torns \in Nat /\ truncations \in Nat /\ rotations \in Nat /\ MaxLines \in Nat
  BY FollowersAssumption DEF Typed
<1>2. /\ Size(file) \in Nat /\ Len(file.lines) \in Nat /\ DOMAIN file.lines = 1..Len(file.lines)
      /\ Size(file) <= 2 * Len(file.lines) /\ 2 * Len(file.lines) <= Size(file) + 1
      /\ ~file.torn => Size(file) = 2 * Len(file.lines)
  BY <1>1, SizeIs
<1>3. file.lines \in Seq(Rows) /\ file.inode \in Nat /\ file.torn \in BOOLEAN
  BY <1>1 DEF Files
<1>4. CASE Emit
  <2>1. PICK row \in Rows :
          \/ file' = AppendLine(file, row) /\ UNCHANGED torns
          \/ torns' = torns + 1 /\ file' = AppendHalf(file, row)
    BY <1>4 DEF Emit
  <2>2. /\ emitted < MaxLines /\ ~file.torn /\ emitted' = emitted + 1
        /\ UNCHANGED OwnState /\ truncations' = truncations /\ rotations' = rotations
    BY <1>4 DEF Emit
  <2> DEFINE n == Len(file.lines)  lines == Append(file.lines, row)
  <2>3. /\ lines \in Seq(Rows) /\ Len(lines) = n + 1 /\ DOMAIN lines = 1..(n + 1)
        /\ \A i \in 1..n : lines[i] = file.lines[i]
    BY <1>3
  <2>4. /\ file' \in Files /\ file'.inode = file.inode /\ file'.lines = lines
        /\ file'.torn \in BOOLEAN
    BY <1>1, <1>3, <2>1, <2>3 DEF AppendLine, AppendHalf, Files
  <2>5. Size(file') = 2 * (n + 1) - (IF file'.torn THEN 1 ELSE 0)
    BY <2>3, <2>4 DEF Size
  <2>6. n \in Nat /\ Size(file) = 2 * n /\ n <= emitted /\ DOMAIN file.lines = 1..n
    BY <1>1, <1>2, <2>2
  <2> HIDE DEF n, lines
  <2>7. Size(file) <= Size(file') BY <2>4, <2>5, <2>6
  <2>8. \A i \in DOMAIN file'.lines :
          (i \in DOMAIN file.lines /\ file'.lines[i] = file.lines[i])
          \/ (i \in Nat /\ 2 * i > Size(file) + 1)
    <3> SUFFICES ASSUME NEW i \in 1..(n + 1)
                 PROVE  (i \in 1..n /\ lines[i] = file.lines[i])
                        \/ (i \in Nat /\ 2 * i > Size(file) + 1)
      BY <2>3, <2>4, <2>6
    <3>1. i \in 1..n \/ i = n + 1 BY <2>6
    <3> QED BY <2>3, <2>6, <3>1
  <2>9. Len(file'.lines) = n + 1 BY <2>3, <2>4
  <2>10. emitted' \in 0..MaxLines /\ emitted <= emitted' /\ n + 1 <= emitted' /\ n + 1 > 0
    BY <1>1, <2>2, <2>6
  <2>11. torns' \in Nat BY <1>1, <2>1
  <2> QED BY <1>1, <1>4, <2>2, <2>4, <2>7, <2>8, <2>9, <2>10, <2>11
<1>5. CASE FinishHalf
  <2>1. /\ file.torn /\ file' = [file EXCEPT !.torn = FALSE]
        /\ UNCHANGED <<OwnState, emitted, torns, truncations, rotations>>
    BY <1>5 DEF FinishHalf, FinishLine
  <2>2. /\ file' \in Files /\ file'.lines = file.lines /\ file'.inode = file.inode
        /\ ~file'.torn
    BY <1>1, <2>1 DEF Files
  <2>3. Size(file') = 2 * Len(file.lines) BY <2>2 DEF Size
  <2> QED BY <1>1, <1>2, <1>5, <2>1, <2>2, <2>3
<1>6. CASE CopyTruncate
  <2>1. /\ file' = EmptyFile(file.inode) /\ truncations' = truncations + 1
        /\ rotations' = rotations + 1 /\ UNCHANGED <<OwnState, emitted, torns>>
    BY <1>6 DEF CopyTruncate, Truncated
  <2>2. file' \in Files /\ file'.inode = file.inode /\ file'.lines = <<>> /\ ~file'.torn
    BY <1>3, <2>1 DEF EmptyFile, Files
  <2> QED BY <1>1, <1>6, <2>1, <2>2
<1>7. CASE Replace
  <2>1. /\ file' = EmptyFile(file.inode + 1) /\ rotations' = rotations + 1 /\ pc # "read"
        /\ UNCHANGED <<OwnState, emitted, torns, truncations>>
    BY <1>7 DEF Replace, Replaced
  <2>2. file' \in Files /\ file'.inode = file.inode + 1 /\ file'.lines = <<>> /\ ~file'.torn
    BY <1>3, <2>1 DEF EmptyFile, Files
  <2> QED BY <1>1, <1>7, <2>1, <2>2
<1> QED BY <1>4, <1>5, <1>6, <1>7

LEMMA TypedAtFile ==
  ASSUME Typed, Emit \/ FinishHalf \/ CopyTruncate \/ Replace
  PROVE  Typed'
<1>1. /\ UNCHANGED OwnState
      /\ file' \in Files /\ (file'.torn => Len(file'.lines) > 0)
      /\ emitted' \in 0..MaxLines /\ emitted <= emitted' /\ Len(file'.lines) <= emitted'
      /\ torns' \in Nat /\ truncations' \in Nat /\ rotations' \in Nat
  BY FileStepIs
<1>2. Its' = Its BY <1>1 DEF Its, OwnState
<1>3. (Remembers(mem, pc = "read"))' /\ (Remembers(saved, FALSE))'
  BY <1>1, <1>2 DEF Typed, Remembers, OwnState
<1>4. pos' <= 2 * emitted' /\ mem'.offset <= 2 * emitted' /\ saved'.offset <= 2 * emitted'
  <2>1. /\ emitted \in 0..MaxLines /\ MaxLines \in Nat /\ pos \in Nat /\ mem.offset \in Nat
        /\ saved.offset \in Nat
        /\ pos <= 2 * emitted /\ mem.offset <= 2 * emitted /\ saved.offset <= 2 * emitted
    BY FollowersAssumption DEF Typed, Memory
  <2>2. mem' = mem /\ saved' = saved /\ pos' = pos BY <1>1 DEF OwnState
  <2>3. emitted' \in Nat /\ emitted <= emitted' BY <1>1, <2>1
  <2>4. pos <= 2 * emitted' /\ mem.offset <= 2 * emitted' /\ saved.offset <= 2 * emitted'
    <3> DEFINE e == emitted  d == emitted'  a == mem.offset  b == saved.offset
    <3>1. e \in Nat /\ d \in Nat /\ e <= d /\ a \in Nat /\ b \in Nat /\ pos \in Nat
          /\ a <= 2 * e /\ b <= 2 * e /\ pos <= 2 * e
      BY <2>1, <2>3
    <3> HIDE DEF a, b, d, e
    <3>2. a <= 2 * d /\ b <= 2 * d /\ pos <= 2 * d
      BY <3>1
    <3> QED BY <3>2 DEF a, b, d
  <2> QED BY <2>2, <2>4
<1>5. Silent' = Silent BY DEF Silent
<1> QED BY <1>1, <1>2, <1>3, <1>4, <1>5 DEF Typed, OwnState

LEMMA TypedAtRest ==
  ASSUME Typed, Elapse \/ UNCHANGED vars
  PROVE  Typed' /\ UNCHANGED <<follower, evaluation, environment, pc, pos, listed, mem, buffer,
                               dirty, handled, saved, output, passedOver, crashes>>
<1>1. /\ UNCHANGED <<follower, evaluation, environment, pc, pos, listed, mem, buffer,
                     dirty, handled, saved, output, passedOver, crashes>>
      /\ due' \in BOOLEAN
  BY DEF Elapse, vars, environment, Typed
<1>2. Its' = Its BY <1>1 DEF Its
<1>3. (Remembers(mem, pc = "read"))' /\ (Remembers(saved, FALSE))'
  BY <1>1, <1>2 DEF Typed, Remembers
<1>5. Silent' = Silent BY DEF Silent
<1> QED BY <1>1, <1>2, <1>3, <1>5 DEF Typed, environment

LEMMA TypedKept ==
  ASSUME Typed, [Next]_vars
  PROVE  Typed'
BY TypedAtStart, TypedAtRow, TypedAtSkip, TypedAtEnd, TypedAtWriting, TypedAtSave,
   TypedAtRestart, TypedAtFile, TypedAtRest DEF Next, Poll

LEMMA TypedAtInit ==
  ASSUME Init
  PROVE  Typed
<1> USE FollowersAssumption
<1>1. EmptyTally \in Tally
  <2>1. <<>> \in Seq(Run) /\ [reason \in Reasons |-> 0] \in [Reasons -> Nat]
        /\ [market \in Markets |-> NoRun] \in [Markets -> Run \cup {NoRun}]
    OBVIOUS
  <2> QED BY <2>1 DEF EmptyTally, Tally
<1>2. Silent \in [Rows -> Nat] BY DEF Silent
<1>3. Fresh \in Memory /\ Fresh.seen = <<>> /\ Fresh.offset = 0
  BY <1>1, <1>2 DEF Fresh, Memory, NothingSent
<1>4. EmptyFile(1) \in Files /\ EmptyFile(1).lines = <<>> /\ ~EmptyFile(1).torn
  BY DEF EmptyFile, Files
<1>6. Fresh.counted = Silent /\ \A row \in Rows : Silent[row] <= Silent[row]
  BY DEF Fresh, Silent
<1>7. follower = "paired" => evaluation \in [Rows -> Evaluations]
  BY DEF Init
<1>8. /\ mem = Fresh /\ saved = Fresh /\ file = EmptyFile(1) /\ pc = "idle" /\ pos = 0
      /\ emitted = 0 /\ torns = 0 /\ truncations = 0 /\ rotations = 0 /\ crashes = 0
      /\ buffer = Silent /\ output = Silent /\ passedOver = {} /\ listed = TRUE
      /\ dirty = FALSE /\ handled = FALSE /\ due \in BOOLEAN /\ follower \in Followers
  BY DEF Init
<1>9. Len(file.lines) <= emitted /\ (file.torn => Len(file.lines) > 0) /\ emitted \in 0..MaxLines
  BY <1>4, <1>8
<1>10. mem.offset <= 2 * emitted /\ saved.offset <= 2 * emitted /\ pos <= 2 * emitted
  BY <1>3, <1>8
<1>11. Remembers(mem, pc = "read") /\ Remembers(saved, FALSE)
  BY <1>3, <1>8 DEF Remembers
<1> QED BY <1>2, <1>3, <1>4, <1>6, <1>7, <1>8, <1>9, <1>10, <1>11 DEF Typed

-----------------------------------------------------------------------------
(* No state gets ahead of its work. *)

LEMMA BehindRestored ==
  ASSUME follower' = follower,
         Honest(mem', Coming'), Honest(saved', output'),
         Follows(mem', Coming', file', passedOver', truncations'),
         Follows(saved', output', file', passedOver', truncations'),
         pc' = "read" => Reads(mem', Coming', file', passedOver', truncations', pos')
  PROVE  Behind'
BY DEF Behind, Honest, Follows, Reads, Passed, HandledBy, CoveredBy

\* A state whose ids and last sent record are those of another is as honest.
LEMMA StaysHonest ==
  ASSUME NEW s, NEW t, NEW w, Honest(s, w), s.counted = t.counted, s.sent = t.sent,
         \A i \in DOMAIN t.seen : \E j \in DOMAIN s.seen : t.seen[i] = s.seen[j]
  PROVE  Honest(t, w) /\ \A row : HandledBy(s, w, row) => HandledBy(t, w, row)
<1>1. \A row : HandledBy(s, w, row) => HandledBy(t, w, row)
  BY DEF HandledBy
<1>2. \A i \in DOMAIN t.seen : HandledBy(t, w, t.seen[i])
  BY <1>1 DEF Honest
<1> QED BY <1>1, <1>2 DEF Honest

LEMMA BehindAtStart ==
  ASSUME Typed, Behind, StartPoll
  PROVE  Behind'
<1>1. PICK state \in {mem, saved}, offset \in Nat :
           /\ offset \in {0, state.offset}
           /\ offset # 0 => state.inode \in {NoFile, file.inode} /\ ~(Size(file) < offset)
           /\ mem' \in Memory /\ mem'.offset = offset /\ mem'.inode = file.inode
           /\ mem'.seen = state.seen /\ mem'.counted = state.counted
           /\ mem'.sent = state.sent /\ pos' = offset
  BY StartPollIs
<1>2. /\ pc = "idle" /\ pc' = "read" /\ follower' = follower /\ file' = file
      /\ truncations' = truncations /\ saved' = saved /\ output' = output
      /\ buffer' = buffer /\ passedOver' = passedOver
  BY DEF StartPoll, environment
<1>3. Coming = output /\ Coming' = Coming
  <2>1. buffer = Silent /\ buffer \in [Rows -> Nat] /\ output \in [Rows -> Nat]
    BY <1>2 DEF Typed
  <2> QED BY <1>2, <2>1, ComingIs DEF Coming
<1>4. Honest(state, Coming) /\ Follows(state, Coming, file, passedOver, truncations)
  BY <1>1, <1>3 DEF Behind
<1>5. Honest(mem', Coming) /\ \A row : HandledBy(state, Coming, row) => HandledBy(mem', Coming, row)
  BY <1>1, <1>4, StaysHonest
<1>6. /\ file \in Files /\ file.inode \in Nat /\ file.inode # NoFile /\ Size(file) \in Nat
      /\ \A i \in DOMAIN file.lines : i \in Nat /\ i > 0
  <2>1. file \in Files /\ (file.torn => Len(file.lines) > 0) BY DEF Typed
  <2>2. file.inode \in Nat BY <2>1 DEF Files
  <2>3. Size(file) \in Nat /\ DOMAIN file.lines = 1..Len(file.lines) /\ Len(file.lines) \in Nat
    BY <2>1, SizeIs
  <2> QED BY <2>1, <2>2, <2>3, FollowersAssumption
<1>7. truncations = 0 =>
        offset <= Size(file) /\ Passed(mem', Coming, file, passedOver, offset)
  <2>1. CASE offset = 0
    <3>1. \A i \in DOMAIN file.lines : ~(2 * i <= 0 + 1) BY <1>6
    <3> QED BY <1>6, <2>1, <3>1 DEF Passed
  <2>2. CASE offset # 0
    <3>1. state.inode = file.inode /\ offset = state.offset
      BY <1>1, <1>4, <2>2 DEF Follows
    <3>2. truncations = 0 =>
            offset <= Size(file) /\ Passed(state, Coming, file, passedOver, offset)
      BY <1>4, <3>1 DEF Follows
    <3>3. Passed(state, Coming, file, passedOver, offset) =>
            Passed(mem', Coming, file, passedOver, offset)
      BY <1>5, <1>6, StaysPassed
    <3> QED BY <3>2, <3>3
  <2> QED BY <2>1, <2>2
<1>8. Follows(mem', Coming, file, passedOver, truncations)
      /\ Reads(mem', Coming, file, passedOver, truncations, offset)
  <2> DEFINE u == mem'
  <2> HIDE DEF u
  <2>1. u.inode = file.inode /\ u.offset = offset /\ file.inode <= file.inode
    BY <1>1, <1>6 DEF u
  <2>2. truncations = 0 => offset <= Size(file) /\ Passed(u, Coming, file, passedOver, offset)
    BY <1>7 DEF u
  <2>3. Follows(u, Coming, file, passedOver, truncations)
        /\ Reads(u, Coming, file, passedOver, truncations, offset)
    BY <1>6, <2>1, <2>2 DEF Follows, Reads
  <2> QED BY <2>3 DEF u
<1>9. Honest(saved, output) /\ Follows(saved, output, file, passedOver, truncations)
  BY DEF Behind
<1> QED BY <1>1, <1>2, <1>3, <1>5, <1>8, <1>9, BehindRestored

\* Reading past a line, whichever way, that is handled or may be passed over.
LEMMA PassesLine ==
  ASSUME NEW s, NEW w, NEW f \in Files, f.torn => Len(f.lines) > 0, NEW left, NEW at \in Nat,
         Passed(s, w, f, left, at), ~AtEnd(f, at),
         at % 2 = 0 => \/ HandledBy(s, w, LineAt(f, at))
                       \/ follower \in TextReaders /\ LineAt(f, at) \in left
  PROVE  Passed(s, w, f, left, AfterLine(f, at))
<1> DEFINE next == AfterLine(f, at)
<1>1. /\ next \in Nat /\ next <= at + 2 /\ (at % 2 = 1 => next = at + 1)
      /\ at % 2 = 0 => \E i \in DOMAIN f.lines :
                            i \in Nat /\ at = 2 * (i - 1) /\ LineAt(f, at) = f.lines[i]
  BY LineIs
<1> HIDE DEF next
<1>2. \A i \in DOMAIN f.lines : i \in Nat
  BY SizeIs
<1>3. CASE at % 2 = 1
  <2>1. \A i \in Nat : 2 * i <= next + 1 => 2 * i <= at + 1
    <3> SUFFICES ASSUME NEW i \in Nat, 2 * i <= at + 2 PROVE 2 * i <= at + 1
      BY <1>1, <1>3
    <3>1. PICK k \in Nat : at = 2 * k + 1
      <4>1. at \div 2 \in Nat /\ at = 2 * (at \div 2) + 1 BY <1>3
      <4> QED BY <4>1
    <3> QED BY <3>1
  <2> QED BY <1>2, <2>1 DEF Passed, next
<1>4. CASE at % 2 = 0
  <2>1. PICK k \in DOMAIN f.lines : k \in Nat /\ at = 2 * (k - 1) /\ LineAt(f, at) = f.lines[k]
    BY <1>1, <1>4
  <2>2. \A i \in Nat : 2 * i <= next + 1 => 2 * i <= at + 1 \/ i = k
    BY <1>1, <2>1
  <2> QED BY <1>2, <1>4, <2>1, <2>2 DEF Passed, next
<1> QED BY <1>3, <1>4

\* Acting on a row handles it and keeps what was handled.
LEMMA ActHandles ==
  ASSUME Typed, Behind, NEW row \in Rows, Act(row), ~Known(row)
  PROVE  /\ Honest(mem', Coming') /\ HandledBy(mem', Coming', row)
         /\ \A r \in Rows : HandledBy(mem, Coming, r) => HandledBy(mem', Coming', r)
         /\ \A r \in Rows : HandledBy(saved, output, r) => HandledBy(saved, output', r)
         /\ \A r \in Rows : Coming[r] <= Coming'[r]
<1> DEFINE u == mem'  v == Coming'
<1>1. /\ IF Its.dedupes THEN u.seen = Remember(mem.seen, row)
                                /\ \A i \in DOMAIN mem.seen : mem.seen[i] # row
         ELSE u.seen = mem.seen
      /\ u.counted = IF Its.counts THEN [mem.counted EXCEPT ![row] = @ + 1] ELSE mem.counted
      /\ u.sent = IF Writes(row) /\ follower = "evaluator"
                  THEN [mark |-> row.mark, ts |-> row.ts] ELSE mem.sent
      /\ v = IF Writes(row) THEN [Coming EXCEPT ![row] = @ + 1] ELSE Coming
      /\ output' \in [Rows -> Nat] /\ \A x \in Rows : output[x] <= output'[x]
  BY ActIs
<1> HIDE DEF u, v
<1>2. /\ follower \in Followers /\ output \in [Rows -> Nat]
      /\ mem.seen \in Seq(Rows) /\ mem.counted \in [Rows -> Nat] /\ saved.counted \in [Rows -> Nat]
      /\ \A i, j \in DOMAIN mem.seen : mem.seen[i] = mem.seen[j] => i = j
  BY DEF Typed, Memory, Remembers
<1>3. Coming \in [Rows -> Nat] BY ComingIs DEF Typed
<1>4. \A r \in Rows : /\ mem.counted[r] \in Nat /\ u.counted[r] \in Nat
                      /\ Coming[r] \in Nat /\ v[r] \in Nat
                      /\ mem.counted[r] <= u.counted[r] /\ Coming[r] <= v[r]
  BY <1>1, <1>2, <1>3
<1>5. \A r \in Rows : HandledBy(mem, Coming, r) => HandledBy(u, v, r)
  BY <1>4, StaysHandled
<1>6. \A r \in Rows : HandledBy(saved, output, r) => HandledBy(saved, output', r)
  <2>1. \A r \in Rows : /\ saved.counted[r] \in Nat /\ output[r] \in Nat /\ output'[r] \in Nat
                        /\ saved.counted[r] <= saved.counted[r] /\ output[r] <= output'[r]
    BY <1>1, <1>2
  <2> QED BY <2>1, StaysHandled
<1>7. Honest(mem, Coming) BY DEF Behind
<1>8. HandledBy(u, v, row)
  <2>1. follower \in Counters => u.counted[row] > 0
    <3>1. follower \in Counters => Its.counts BY <1>2, ItsIs
    <3> QED BY <1>1, <1>2, <3>1
  <2>2. follower \in TextReaders => v[row] > 0 \/ CoveredBy(v, row)
    <3>1. CASE Writes(row)
      BY <1>1, <1>3, <3>1
    <3>2. CASE ~Writes(row) /\ follower \in TextReaders
      <4>1. Throttled(row)
        BY <1>2, <3>2, ItsIs DEF Writes
      <4>2. follower = "evaluator" /\ mem.sent.mark = row.mark /\ row.mark # "none"
            /\ row.ts - mem.sent.ts < Heartbeat
        BY <4>1, FollowersAssumption DEF Throttled
      <4>3. PICK other \in Rows : other.mark = mem.sent.mark /\ other.ts = mem.sent.ts
                                  /\ Coming[other] > 0
        BY <1>7, <4>2 DEF Honest
      <4>4. v[other] > 0 BY <1>4, <4>3
      <4> QED BY <4>2, <4>3, <4>4 DEF CoveredBy
    <3> QED BY <3>1, <3>2
  <2> QED BY <2>1, <2>2 DEF HandledBy
<1>9. \A i \in DOMAIN u.seen : u.seen[i] = row \/ \E j \in DOMAIN mem.seen : u.seen[i] = mem.seen[j]
  <2>1. CASE Its.dedupes
    <3> DEFINE q == Remember(mem.seen, row)
    <3>1. \A i \in DOMAIN q : q[i] = row \/ \E j \in DOMAIN mem.seen : q[i] = mem.seen[j]
      BY <1>1, <1>2, <2>1, RememberIs
    <3>2. u.seen = q BY <1>1, <2>1
    <3> HIDE DEF q
    <3> QED BY <3>1, <3>2
  <2>2. CASE ~Its.dedupes
    <3>1. u.seen = mem.seen BY <1>1, <2>2
    <3> QED BY <3>1
  <2> QED BY <2>1, <2>2
<1>10. \A i \in DOMAIN u.seen : HandledBy(u, v, u.seen[i])
  <2>1. \A j \in DOMAIN mem.seen : mem.seen[j] \in Rows /\ HandledBy(mem, Coming, mem.seen[j])
    BY <1>2, <1>7 DEF Honest
  <2> QED BY <1>5, <1>8, <1>9, <2>1
<1>11. ASSUME follower = "evaluator", u.sent.mark # "none"
       PROVE  \E other \in Rows : other.mark = u.sent.mark /\ other.ts = u.sent.ts /\ v[other] > 0
  <2>1. CASE Writes(row)
    <3>1. u.sent.mark = row.mark /\ u.sent.ts = row.ts BY <1>1, <1>11, <2>1
    <3>2. v[row] > 0 BY <1>1, <1>3, <2>1
    <3> QED BY <3>1, <3>2
  <2>2. CASE ~Writes(row)
    <3>1. u.sent = mem.sent BY <1>1, <2>2
    <3>2. PICK other \in Rows : other.mark = mem.sent.mark /\ other.ts = mem.sent.ts
                                /\ Coming[other] > 0
      BY <1>7, <1>11, <3>1 DEF Honest
    <3>3. v[other] > 0 BY <1>4, <3>2
    <3> QED BY <3>1, <3>2, <3>3
  <2> QED BY <2>1, <2>2
<1>12. Honest(u, v) BY <1>10, <1>11 DEF Honest
<1> QED BY <1>4, <1>5, <1>6, <1>8, <1>12 DEF u, v

LEMMA ReadsOn ==
  ASSUME Typed, NEW u, NEW v, NEW left, Reads(mem, Coming, file, passedOver, truncations, pos),
         ~AtEnd(file, pos), pos' = AfterLine(file, pos), passedOver \subseteq left,
         u.inode = mem.inode,
         \A r \in Rows : HandledBy(mem, Coming, r) => HandledBy(u, v, r),
         pos % 2 = 0 => \/ HandledBy(u, v, LineAt(file, pos))
                        \/ follower \in TextReaders /\ LineAt(file, pos) \in left
  PROVE  Reads(u, v, file, left, truncations, pos')
<1>1. file \in Files /\ (file.torn => Len(file.lines) > 0) /\ pos \in Nat
  BY DEF Typed
<1>2. AfterLine(file, pos) <= Size(file) BY <1>1, LineIs
<1>3. truncations = 0 => Passed(u, v, file, left, AfterLine(file, pos))
  <2> SUFFICES ASSUME truncations = 0 PROVE Passed(u, v, file, left, AfterLine(file, pos))
    OBVIOUS
  <2>1. Passed(mem, Coming, file, passedOver, pos) BY DEF Reads
  <2>2. Passed(u, v, file, left, pos) BY <1>1, <2>1, StaysPassed
  <2> QED BY <1>1, <2>2, PassesLine
<1> QED BY <1>2, <1>3 DEF Reads

LEMMA BehindAtRow ==
  ASSUME Typed, Behind, ReadRow
  PROVE  Behind'
<1> DEFINE row == LineAt(file, pos)
<1>1. /\ pc = "read" /\ pc' = pc /\ follower' = follower /\ file' = file
      /\ truncations' = truncations /\ saved' = saved
      /\ pos' = AfterLine(file, pos) /\ ~AtEnd(file, pos) /\ pos % 2 = 0
  BY DEF ReadRow, environment
<1>2. row \in Rows /\ file \in Files
  BY TypedAtRow DEF Typed
<1>3. /\ Honest(mem, Coming) /\ Honest(saved, output)
      /\ Follows(mem, Coming, file, passedOver, truncations)
      /\ Follows(saved, output, file, passedOver, truncations)
      /\ Reads(mem, Coming, file, passedOver, truncations, pos)
  BY <1>1 DEF Behind
<1> HIDE DEF row
<1>4. ASSUME UNCHANGED <<mem, buffer, output>>, passedOver \subseteq passedOver',
             \/ HandledBy(mem, Coming, row)
             \/ follower \in TextReaders /\ row \in passedOver'
      PROVE  Behind'
  <2>1. Coming' = Coming BY <1>4 DEF Coming
  <2>2. Reads(mem, Coming, file, passedOver', truncations, pos')
    BY <1>1, <1>3, <1>4, ReadsOn DEF row
  <2>3. /\ Follows(mem, Coming, file, passedOver', truncations)
        /\ Follows(saved, output, file, passedOver', truncations)
    BY <1>2, <1>3, <1>4, StaysFollowed
  <2> QED BY <1>1, <1>3, <1>4, <2>1, <2>2, <2>3, BehindRestored
<1>5. CASE Known(row) /\ UNCHANGED <<mem, buffer, output, dirty, handled, passedOver>>
  <2>1. HandledBy(mem, Coming, row)
    BY <1>3, <1>5 DEF Known, Honest
  <2> QED BY <1>4, <1>5, <2>1
<1>6. CASE ~listed /\ PassOver(row)
  <2>1. follower \in TextReaders
    BY <1>6 DEF Typed, TextReaders
  <2> QED BY <1>4, <1>6, <2>1 DEF PassOver
<1>7. CASE ~Known(row) /\ Act(row) /\ UNCHANGED passedOver
  <2> DEFINE u == mem'  v == Coming'
  <2>1. /\ Honest(u, v) /\ HandledBy(u, v, row)
        /\ \A r \in Rows : HandledBy(mem, Coming, r) => HandledBy(u, v, r)
        /\ \A r \in Rows : HandledBy(saved, output, r) => HandledBy(saved, output', r)
    BY <1>2, <1>7, ActHandles
  <2>2. u.offset = mem.offset /\ u.inode = mem.inode
    BY <1>2, <1>7, ActIs
  <2> HIDE DEF u, v
  <2>3. Reads(u, v, file, passedOver, truncations, pos')
    BY <1>1, <1>3, <2>1, <2>2, ReadsOn DEF row
  <2>4. /\ Follows(u, v, file, passedOver, truncations)
        /\ Follows(saved, output', file, passedOver, truncations)
    BY <1>2, <1>3, <2>1, <2>2, StaysFollowed
  <2>5. Honest(saved, output')
    <3>1. \A i \in DOMAIN saved.seen : saved.seen[i] \in Rows BY DEF Typed, Memory
    <3>2. \A r \in Rows : output[r] > 0 => output'[r] > 0
      <4>1. \A r \in Rows : output[r] <= output'[r] /\ output[r] \in Nat /\ output'[r] \in Nat
        BY <1>2, <1>7, ActIs DEF Typed
      <4> QED BY <4>1
    <3> QED BY <1>3, <2>1, <3>1, <3>2 DEF Honest
  <2> QED BY <1>1, <1>7, <2>1, <2>3, <2>4, <2>5, BehindRestored DEF u, v
<1>8. \/ Known(row) /\ UNCHANGED <<mem, buffer, output, dirty, handled, passedOver>>
      \/ ~listed /\ PassOver(row)
      \/ ~Known(row) /\ Act(row) /\ UNCHANGED passedOver
  <2>1. CASE Known(row) BY <2>1 DEF ReadRow, row
  <2>2. CASE ~Known(row) /\ ~listed BY <2>2 DEF ReadRow, row
  <2>3. CASE ~Known(row) /\ listed BY <2>3 DEF ReadRow, row
  <2> QED BY <2>1, <2>2, <2>3
<1> QED BY <1>5, <1>6, <1>7, <1>8

LEMMA BehindAtSkip ==
  ASSUME Typed, Behind, SkipHalf \/ SkipRest
  PROVE  Behind'
<1>1. /\ pc = "read" /\ pc' = pc /\ follower' = follower /\ file' = file
      /\ truncations' = truncations /\ saved' = saved /\ mem' = mem /\ buffer' = buffer
      /\ output' = output /\ pos' = AfterLine(file, pos) /\ ~AtEnd(file, pos)
      /\ passedOver \subseteq passedOver'
  BY DEF SkipHalf, SkipRest, PassOver, environment
<1>2. file \in Files BY DEF Typed
<1>3. /\ Honest(mem, Coming) /\ Honest(saved, output)
      /\ Follows(mem, Coming, file, passedOver, truncations)
      /\ Follows(saved, output, file, passedOver, truncations)
      /\ Reads(mem, Coming, file, passedOver, truncations, pos)
  BY <1>1 DEF Behind
<1>4. pos % 2 = 0 => follower \in TextReaders /\ LineAt(file, pos) \in passedOver'
  <2>1. SkipHalf => follower \in TextReaders BY TypedAtSkip
  <2>2. SkipRest => pos % 2 = 1 BY DEF SkipRest
  <2>3. SkipHalf => LineAt(file, pos) \in passedOver' BY DEF SkipHalf, PassOver
  <2> QED BY <2>1, <2>2, <2>3
<1>5. Coming' = Coming BY <1>1 DEF Coming
<1>6. Reads(mem, Coming, file, passedOver', truncations, pos')
  BY <1>1, <1>3, <1>4, ReadsOn
<1>7. /\ Follows(mem, Coming, file, passedOver', truncations)
      /\ Follows(saved, output, file, passedOver', truncations)
  BY <1>1, <1>2, <1>3, StaysFollowed
<1> QED BY <1>1, <1>3, <1>5, <1>6, <1>7, BehindRestored

LEMMA BehindAtEnd ==
  ASSUME Typed, Behind, EndRead
  PROVE  Behind'
<1>1. /\ pc = "read" /\ pc' # "read" /\ follower' = follower /\ file' = file
      /\ truncations' = truncations /\ saved' = saved /\ buffer' = buffer
      /\ output' = output /\ passedOver' = passedOver
  BY DEF EndRead, environment
<1>2. /\ Honest(mem, Coming) /\ Honest(saved, output)
      /\ Follows(saved, output, file, passedOver, truncations)
      /\ Reads(mem, Coming, file, passedOver, truncations, pos)
  BY <1>1 DEF Behind
<1> DEFINE u == mem'
<1>3. /\ u.offset = pos /\ u.inode = mem.inode /\ u.counted = mem.counted /\ u.sent = mem.sent
      /\ \A i \in DOMAIN u.seen : \E j \in DOMAIN mem.seen : u.seen[i] = mem.seen[j]
  BY EndReadIs
<1> HIDE DEF u
<1>4. Honest(u, Coming) /\ \A row : HandledBy(mem, Coming, row) => HandledBy(u, Coming, row)
  BY <1>2, <1>3, StaysHonest
<1>5. file \in Files /\ file.inode \in Nat /\ file.inode # NoFile
  BY FollowersAssumption DEF Typed, Files
<1>6. Passed(mem, Coming, file, passedOver, pos) => Passed(u, Coming, file, passedOver, pos)
  BY <1>4, <1>5, StaysPassed
<1>7. Follows(u, Coming, file, passedOver, truncations)
  BY <1>2, <1>3, <1>5, <1>6 DEF Reads, Follows
<1>8. Coming' = Coming BY <1>1 DEF Coming
<1> QED BY <1>1, <1>2, <1>4, <1>7, <1>8, BehindRestored DEF u

LEMMA BehindAtWriting ==
  ASSUME Typed, Behind, Flush \/ Spill
  PROVE  Behind'
<1>1. /\ output' = Coming /\ Coming' = Coming /\ follower' = follower /\ file' = file
      /\ truncations' = truncations /\ saved' = saved /\ mem' = mem /\ pos' = pos
      /\ passedOver' = passedOver /\ (pc' = "read" => pc = "read")
  BY WritingIs DEF environment
<1>2. /\ Honest(mem, Coming) /\ Honest(saved, output)
      /\ Follows(mem, Coming, file, passedOver, truncations)
      /\ Follows(saved, output, file, passedOver, truncations)
      /\ pc = "read" => Reads(mem, Coming, file, passedOver, truncations, pos)
  BY DEF Behind
<1>3. \A row \in Rows : /\ saved.counted[row] \in Nat /\ output[row] \in Nat
                        /\ Coming[row] \in Nat /\ output[row] <= Coming[row]
                        /\ saved.counted[row] <= saved.counted[row]
  <2>1. saved.counted \in [Rows -> Nat] /\ output \in [Rows -> Nat] /\ buffer \in [Rows -> Nat]
    BY DEF Typed, Memory
  <2>2. \A row \in Rows : Coming[row] \in Nat /\ output[row] <= Coming[row]
    BY <2>1, ComingIs
  <2> QED BY <2>1, <2>2
<1>4. \A row \in Rows : HandledBy(saved, output, row) => HandledBy(saved, Coming, row)
  BY <1>3, StaysHandled
<1>5. Honest(saved, Coming)
  <2>1. \A i \in DOMAIN saved.seen : saved.seen[i] \in Rows BY DEF Typed, Memory
  <2>2. \A row \in Rows : output[row] > 0 => Coming[row] > 0 BY <1>3
  <2> QED BY <1>2, <1>4, <2>1, <2>2 DEF Honest
<1>6. Follows(saved, Coming, file, passedOver, truncations)
  <2>1. file \in Files BY DEF Typed
  <2> QED BY <1>2, <1>4, <2>1, StaysFollowed
<1> QED BY <1>1, <1>2, <1>5, <1>6, BehindRestored

\* Saving and restarting: memory and checkpoint become one or the other, and
\* nothing is left unwritten.
LEMMA BehindAtSave ==
  ASSUME Typed, Behind, Save
  PROVE  Behind'
<1>1. /\ pc = "save" /\ pc' = "idle" /\ follower' = follower /\ file' = file
      /\ truncations' = truncations /\ saved' \in {mem, saved} /\ mem' = mem
      /\ buffer' = buffer /\ output' = output /\ passedOver' = passedOver
  BY DEF Save, environment
<1>2. Coming = output /\ Coming' = Coming
  <2>1. buffer = Silent /\ buffer \in [Rows -> Nat] /\ output \in [Rows -> Nat]
    BY <1>1 DEF Typed
  <2> QED BY <1>1, <2>1, ComingIs DEF Coming
<1>3. /\ Honest(mem, Coming) /\ Honest(saved, output)
      /\ Follows(mem, Coming, file, passedOver, truncations)
      /\ Follows(saved, output, file, passedOver, truncations)
  BY DEF Behind
<1> QED BY <1>1, <1>2, <1>3, BehindRestored

LEMMA BehindAtRestart ==
  ASSUME Typed, Behind, Crash \/ Abort
  PROVE  Behind'
<1>1. PICK state \in {mem, saved} : /\ saved' = state /\ mem' = state
                                    /\ state = mem => buffer = Silent \/ mem = saved
  BY RestartIs
<1>2. /\ buffer' = Silent /\ pc' = "idle" /\ follower' = follower /\ file' = file
      /\ truncations' = truncations /\ output' = output /\ passedOver' = passedOver
  BY RestartIs DEF environment
<1>3. /\ Honest(mem, Coming) /\ Honest(saved, output)
      /\ Follows(mem, Coming, file, passedOver, truncations)
      /\ Follows(saved, output, file, passedOver, truncations)
  BY DEF Behind
<1>4. Coming' = output
  <2>1. output \in [Rows -> Nat] BY DEF Typed
  <2>2. Coming' = [row \in Rows |-> output[row] + 0]
    BY <1>2 DEF Coming, Silent
  <2> QED BY <2>1, <2>2
<1>5. buffer = Silent => Coming = output BY ComingIs DEF Typed
<1>6. Honest(state, output) /\ Follows(state, output, file, passedOver, truncations)
  BY <1>1, <1>3, <1>5
<1> QED BY <1>1, <1>2, <1>4, <1>6, BehindRestored

LEMMA FollowsFile ==
  ASSUME Typed, NEW s \in Memory, NEW w, Follows(s, w, file, passedOver, truncations),
         Emit \/ FinishHalf \/ CopyTruncate \/ Replace
  PROVE  Follows(s, w, file', passedOver, truncations')
<1>1. /\ file \in Files /\ (file.torn => Len(file.lines) > 0) /\ file.inode \in Nat
      /\ s.offset \in Nat /\ s.inode \in Nat \cup {NoFile} /\ NoFile \notin Nat
  BY FollowersAssumption DEF Typed, Memory, Files
<1>2. Size(file) \in Nat BY <1>1, SizeIs
<1>3. CASE /\ file'.inode = file.inode /\ truncations' = truncations
           /\ Size(file) <= Size(file')
           /\ \A i \in DOMAIN file'.lines :
                (i \in DOMAIN file.lines /\ file'.lines[i] = file.lines[i])
                \/ (i \in Nat /\ 2 * i > Size(file) + 1)
  <2>1. ASSUME s.offset <= Size(file), Passed(s, w, file, passedOver, s.offset)
        PROVE  s.offset <= Size(file') /\ Passed(s, w, file', passedOver, s.offset)
    <3>1. s.offset <= Size(file')
      <4>1. Size(file') \in Int
        <5>1. file' \in Files /\ (file'.torn => Len(file'.lines) > 0) BY FileStepIs
        <5> QED BY <5>1, SizeIs
      <4> QED BY <1>1, <1>2, <1>3, <2>1, <4>1
    <3>2. \A i \in Nat : 2 * i > Size(file) + 1 => ~(2 * i <= s.offset + 1)
      BY <1>1, <1>2, <2>1
    <3> QED BY <1>3, <2>1, <3>1, <3>2 DEF Passed
  <2> QED BY <1>3, <2>1 DEF Follows
<1>4. CASE file'.inode = file.inode /\ truncations' # 0
  BY <1>4 DEF Follows
<1>5. CASE file'.inode = file.inode + 1
  <2>1. s.inode # NoFile => s.inode <= file.inode /\ s.inode # file.inode + 1
                            /\ s.inode <= file.inode + 1
    BY <1>1 DEF Follows
  <2>2. s.inode # file.inode + 1 BY <1>1, <2>1
  <2> QED BY <1>5, <2>1, <2>2 DEF Follows
<1> QED BY <1>3, <1>4, <1>5, FileStepIs

LEMMA BehindAtFile ==
  ASSUME Typed, Behind, Emit \/ FinishHalf \/ CopyTruncate \/ Replace
  PROVE  Behind'
<1>1. /\ follower' = follower /\ mem' = mem /\ saved' = saved /\ buffer' = buffer
      /\ output' = output /\ passedOver' = passedOver /\ pc' = pc /\ pos' = pos
  BY FileStepIs DEF OwnState
<1>2. /\ Honest(mem, Coming) /\ Honest(saved, output)
      /\ Follows(mem, Coming, file', passedOver, truncations')
      /\ Follows(saved, output, file', passedOver, truncations')
  BY FollowsFile DEF Behind, Typed
<1>3. Coming' = Coming BY <1>1 DEF Coming
<1>4. ASSUME pc = "read" PROVE Reads(mem, Coming, file', passedOver, truncations', pos)
  <2> DEFINE here == [mem EXCEPT !.offset = pos]
  <2>0. mem \in Memory /\ pos \in Nat BY DEF Typed
  <2>1. /\ here \in Memory /\ here.offset = pos /\ here.inode = mem.inode
        /\ here.counted = mem.counted
    BY <2>0 DEF Memory
  <2> HIDE DEF here
  <2>2. \A row : HandledBy(here, Coming, row) <=> HandledBy(mem, Coming, row)
    BY <2>1 DEF HandledBy
  <2>3. Reads(mem, Coming, file, passedOver, truncations, pos) BY <1>4 DEF Behind
  <2>4. file.inode \in Nat /\ NoFile \notin Nat
    BY FollowersAssumption DEF Typed, Files
  <2>5. Follows(here, Coming, file, passedOver, truncations)
    BY <2>1, <2>2, <2>3, <2>4 DEF Reads, Follows, Passed
  <2>6. Follows(here, Coming, file', passedOver, truncations')
    BY <2>1, <2>5, FollowsFile
  <2>7. file'.inode = file.inode \/ (file'.inode = file.inode + 1 /\ pc # "read")
    BY FileStepIs
  <2> QED BY <1>4, <2>1, <2>2, <2>3, <2>6, <2>7 DEF Reads, Follows, Passed
<1> QED BY <1>1, <1>2, <1>3, <1>4, BehindRestored

LEMMA BehindKept ==
  ASSUME Typed, Behind, [Next]_vars
  PROVE  Behind'
<1>1. ASSUME Elapse \/ UNCHANGED vars PROVE Behind'
  <2>1. UNCHANGED <<follower, file, truncations, pc, pos, mem, buffer, saved, output, passedOver>>
    BY <1>1 DEF Elapse, vars, environment
  <2>2. Coming' = Coming BY <2>1 DEF Coming
  <2> QED BY <2>1, <2>2, BehindRestored DEF Behind
<1> QED BY <1>1, BehindAtStart, BehindAtRow, BehindAtSkip, BehindAtEnd, BehindAtWriting,
           BehindAtSave, BehindAtRestart, BehindAtFile DEF Next, Poll

LEMMA BehindAtInit ==
  ASSUME Init
  PROVE  Behind
<1>1. /\ mem = Fresh /\ saved = Fresh /\ file = EmptyFile(1) /\ pc = "idle"
  BY DEF Init
<1>2. Fresh.seen = <<>> /\ Fresh.offset = 0 /\ Fresh.inode = NoFile /\ Fresh.sent.mark = "none"
  BY DEF Fresh, NothingSent
<1>3. EmptyFile(1).inode = 1 /\ NoFile # 1 BY FollowersAssumption DEF EmptyFile
<1>4. \A w : Honest(Fresh, w) BY <1>2 DEF Honest
<1>5. \A w : Follows(Fresh, w, file, passedOver, truncations)
  BY <1>1, <1>2, <1>3 DEF Follows
<1> QED BY <1>1, <1>4, <1>5 DEF Behind

-----------------------------------------------------------------------------
(* Nothing is counted or written twice. *)

\* Ids that are remembered once each and belong to a set that fits the window
\* leave room for one more of that set.
LEMMA RoomForOne ==
  ASSUME NEW seen \in Seq(Rows), \A i, j \in DOMAIN seen : seen[i] = seen[j] => i = j,
         NEW T \in SUBSET Rows, Cardinality(T) <= Window,
         \A i \in DOMAIN seen : seen[i] \in T
  PROVE  /\ Len(seen) <= Window
         /\ \A row \in T : (\A i \in DOMAIN seen : seen[i] # row) => Len(seen) < Window
<1>1. IsFiniteSet(T) /\ Cardinality(T) \in Nat /\ Window \in Nat
  BY FollowersAssumption, FS_Subset, FS_CardinalityType
<1>2. seen \in Seq(T)
  OBVIOUS
<1>3. Len(seen) <= Window
  <2>1. Len(seen) <= Cardinality(T) BY <1>1, <1>2, LenAtMost
  <2>2. Len(seen) \in Nat OBVIOUS
  <2> QED BY <1>1, <2>1, <2>2
<1>4. ASSUME NEW row \in T, \A i \in DOMAIN seen : seen[i] # row
      PROVE  Len(seen) < Window
  <2> DEFINE n == Len(seen)  all == Append(seen, row)
  <2>1. /\ n \in Nat /\ DOMAIN seen = 1..n /\ all \in Seq(T) /\ DOMAIN all = 1..(n + 1)
        /\ Len(all) = n + 1
        /\ all[n + 1] = row /\ \A i \in 1..n : all[i] = seen[i]
    BY <1>2
  <2> HIDE DEF n, all
  <2>2. \A i, j \in DOMAIN all : all[i] = all[j] => i = j
    <3> SUFFICES ASSUME NEW i \in 1..(n + 1), NEW j \in 1..(n + 1), all[i] = all[j]
                 PROVE  i = j
      BY <2>1
    <3>1. (i \in 1..n \/ i = n + 1) /\ (j \in 1..n \/ j = n + 1) BY <2>1
    <3> QED BY <1>4, <2>1, <3>1
  <2>3. Len(all) <= Cardinality(T) BY <1>1, <2>1, <2>2, LenAtMost
  <2> QED BY <1>1, <2>1, <2>3 DEF n
<1> QED BY <1>3, <1>4

Counted(s) == {row \in Rows : s.counted[row] > 0}

LEMMA OnceRestored ==
  ASSUME follower' = follower, CountedOnce(mem'), CountedOnce(saved'),
         \/ WrittenOnce(mem', Coming') /\ crashes' = crashes
         \/ crashes' # 0
  PROVE  Once'
BY DEF Once, CountedOnce, WrittenOnce, Reached, CoveredBy

LEMMA CountedOnceAtAct ==
  ASSUME Typed, Behind, Once, NEW row \in Rows, Act(row), ~Known(row)
  PROVE  CountedOnce(mem')
<1> SUFFICES ASSUME follower \in Counters, Cardinality(Counted(mem')) <= Window
             PROVE  \A x \in Rows : mem'.counted[x] > 0 =>
                      mem'.counted[x] = 1 /\ \E i \in DOMAIN mem'.seen : mem'.seen[i] = x
  BY DEF CountedOnce, Counted
<1> DEFINE u == mem'
<1>1. /\ follower \in Followers /\ mem.seen \in Seq(Rows) /\ mem.counted \in [Rows -> Nat]
      /\ \A i, j \in DOMAIN mem.seen : mem.seen[i] = mem.seen[j] => i = j
      /\ Its.forgets \in {"any", "oldest"}
  BY ItsIs DEF Typed, Memory, Remembers
<1>2. Its.dedupes /\ Its.counts
  BY <1>1, ItsIs DEF Counters
<1>3. /\ u.seen = Remember(mem.seen, row) /\ \A i \in DOMAIN mem.seen : mem.seen[i] # row
      /\ u.counted = [mem.counted EXCEPT ![row] = @ + 1]
  BY <1>2, ActIs
<1> HIDE DEF u
<1>4. /\ Counted(mem) \subseteq Counted(u) /\ row \in Counted(u) /\ Counted(u) \in SUBSET Rows
      /\ Cardinality(Counted(mem)) <= Cardinality(Counted(u))
      /\ Cardinality(Counted(mem)) \in Nat /\ Cardinality(Counted(u)) \in Nat
  <2>1. Counted(mem) \subseteq Counted(u) /\ row \in Counted(u) /\ Counted(u) \in SUBSET Rows
    BY <1>1, <1>3 DEF Counted
  <2>2. IsFiniteSet(Counted(u)) BY <2>1, FollowersAssumption, FS_Subset
  <2> QED BY <2>1, <2>2, FS_Subset, FS_CardinalityType
<1>5. Cardinality(Counted(u)) <= Window /\ Window \in Nat
  BY FollowersAssumption DEF u
<1>6. \A x \in Rows : mem.counted[x] > 0 =>
        mem.counted[x] = 1 /\ \E i \in DOMAIN mem.seen : mem.seen[i] = x
  BY <1>4, <1>5 DEF Once, CountedOnce, Counted
<1>7. \A i \in DOMAIN mem.seen : mem.seen[i] \in Counted(u)
  <2>1. \A i \in DOMAIN mem.seen : mem.seen[i] \in Rows /\ mem.counted[mem.seen[i]] > 0
    BY <1>1 DEF Behind, Honest, HandledBy
  <2> QED BY <1>4, <2>1 DEF Counted
<1>8. Len(mem.seen) < Window
  BY <1>1, <1>3, <1>4, <1>5, <1>7, RoomForOne
<1>9. /\ \A j \in DOMAIN mem.seen : \E i \in DOMAIN u.seen : u.seen[i] = mem.seen[j]
      /\ \E i \in DOMAIN u.seen : u.seen[i] = row
  BY <1>1, <1>3, <1>8, RememberIs
<1>10. mem.counted[row] = 0
  <2>1. mem.counted[row] \in Nat BY <1>1
  <2> QED BY <1>3, <1>6, <2>1
<1>11. \A x \in Rows : u.counted[x] > 0 =>
         u.counted[x] = 1 /\ \E i \in DOMAIN u.seen : u.seen[i] = x
  <2> SUFFICES ASSUME NEW x \in Rows, u.counted[x] > 0
               PROVE  u.counted[x] = 1 /\ \E i \in DOMAIN u.seen : u.seen[i] = x
    OBVIOUS
  <2>1. CASE x = row BY <1>1, <1>3, <1>9, <1>10, <2>1
  <2>2. CASE x # row
    <3>1. u.counted[x] = mem.counted[x] BY <1>1, <1>3, <2>2
    <3>2. mem.counted[x] = 1 /\ \E j \in DOMAIN mem.seen : mem.seen[j] = x BY <1>6, <3>1
    <3> QED BY <1>9, <3>1, <3>2
  <2> QED BY <2>1, <2>2
<1> QED BY <1>11 DEF u

LEMMA WrittenOnceAtAct ==
  ASSUME Typed, Behind, Once, NEW row \in Rows, Act(row), ~Known(row)
  PROVE  WrittenOnce(mem', Coming')
<1> DEFINE u == mem'  v == Coming'
<1> SUFFICES ASSUME follower \in {"observations", "maker", "evaluator"}, crashes = 0,
                    Cardinality(Reached(v)) <= Window
             PROVE  \A x \in Rows : v[x] > 0 =>
                      v[x] = 1 /\ \E i \in DOMAIN u.seen : u.seen[i] = x
  BY DEF WrittenOnce
<1>1. /\ follower \in Followers /\ mem.seen \in Seq(Rows)
      /\ \A i, j \in DOMAIN mem.seen : mem.seen[i] = mem.seen[j] => i = j
      /\ Coming \in [Rows -> Nat]
  BY ComingIs DEF Typed, Memory, Remembers
<1>2. Its.dedupes /\ follower \in TextReaders
  BY <1>1, ItsIs DEF TextReaders
<1>3. /\ u.seen = Remember(mem.seen, row) /\ \A i \in DOMAIN mem.seen : mem.seen[i] # row
      /\ v = IF Writes(row) THEN [Coming EXCEPT ![row] = @ + 1] ELSE Coming
  BY <1>2, ActIs
<1>4. /\ Honest(u, v) /\ HandledBy(u, v, row)
      /\ \A r \in Rows : HandledBy(mem, Coming, r) => HandledBy(u, v, r)
  BY ActHandles
<1> HIDE DEF u, v
<1>5. \A x \in Rows : Coming[x] \in Nat /\ v[x] \in Nat /\ Coming[x] <= v[x]
  BY <1>1, <1>3
<1>6. /\ Reached(Coming) \subseteq Reached(v) /\ Reached(v) \in SUBSET Rows
      /\ Cardinality(Reached(Coming)) <= Cardinality(Reached(v))
      /\ Cardinality(Reached(Coming)) \in Nat /\ Cardinality(Reached(v)) \in Nat
  <2>1. \A x \in Rows : CoveredBy(Coming, x) => CoveredBy(v, x)
    <3>1. \A x \in Rows : Coming[x] > 0 => v[x] > 0 BY <1>5
    <3> QED BY <3>1 DEF CoveredBy
  <2>2. Reached(Coming) \subseteq Reached(v) /\ Reached(v) \in SUBSET Rows
    BY <1>5, <2>1 DEF Reached
  <2>3. IsFiniteSet(Reached(v)) BY <2>2, FollowersAssumption, FS_Subset
  <2> QED BY <2>2, <2>3, FS_Subset, FS_CardinalityType
<1>7. Cardinality(Reached(v)) <= Window /\ Window \in Nat
  BY FollowersAssumption
<1>8. \A x \in Rows : Coming[x] > 0 =>
        Coming[x] = 1 /\ \E i \in DOMAIN mem.seen : mem.seen[i] = x
  BY <1>6, <1>7 DEF Once, WrittenOnce
<1>9. /\ \A i \in DOMAIN mem.seen : mem.seen[i] \in Reached(v)
      /\ row \in Reached(v)
  <2>1. \A r \in Rows : HandledBy(u, v, r) => r \in Reached(v)
    BY <1>2 DEF HandledBy, Reached
  <2>2. \A i \in DOMAIN mem.seen : mem.seen[i] \in Rows /\ HandledBy(mem, Coming, mem.seen[i])
    BY <1>1 DEF Behind, Honest
  <2> QED BY <1>4, <2>1, <2>2
<1>10. Len(mem.seen) < Window
  BY <1>1, <1>3, <1>6, <1>7, <1>9, RoomForOne
<1>11. /\ \A j \in DOMAIN mem.seen : \E i \in DOMAIN u.seen : u.seen[i] = mem.seen[j]
       /\ \E i \in DOMAIN u.seen : u.seen[i] = row
  BY <1>1, <1>3, <1>10, RememberIs
<1>12. Coming[row] = 0
  BY <1>3, <1>5, <1>8
<1> SUFFICES ASSUME NEW x \in Rows, v[x] > 0
             PROVE  v[x] = 1 /\ \E i \in DOMAIN u.seen : u.seen[i] = x
  OBVIOUS
<1>13. CASE x = row
  <2>1. v[x] = 1 BY <1>1, <1>3, <1>12, <1>13
  <2> QED BY <1>11, <1>13, <2>1
<1>14. CASE x # row
  <2>1. v[x] = Coming[x] BY <1>1, <1>3, <1>14
  <2>2. Coming[x] = 1 /\ \E j \in DOMAIN mem.seen : mem.seen[j] = x BY <1>8, <2>1
  <2> QED BY <1>11, <2>1, <2>2
<1> QED BY <1>13, <1>14

\* Trimming drops nothing as long as everything remembered fits the window.
LEMMA OnceAtEnd ==
  ASSUME Typed, Behind, Once, EndRead
  PROVE  Once'
<1>1. /\ follower' = follower /\ saved' = saved /\ buffer' = buffer /\ output' = output
      /\ crashes' = crashes
  BY DEF EndRead
<1> DEFINE u == mem'
<1>2. u.counted = mem.counted /\ (Len(mem.seen) <= Window => u.seen = mem.seen)
  BY EndReadIs
<1>3. /\ mem.seen \in Seq(Rows) /\ mem.counted \in [Rows -> Nat]
      /\ \A i, j \in DOMAIN mem.seen : mem.seen[i] = mem.seen[j] => i = j
      /\ \A i \in DOMAIN mem.seen : mem.seen[i] \in Rows /\ HandledBy(mem, Coming, mem.seen[i])
  BY DEF Typed, Memory, Remembers, Behind, Honest
<1> HIDE DEF u
<1>4. CountedOnce(u)
  <2> SUFFICES ASSUME follower \in Counters, Cardinality(Counted(u)) <= Window
               PROVE  \A x \in Rows : u.counted[x] > 0 =>
                        u.counted[x] = 1 /\ \E i \in DOMAIN u.seen : u.seen[i] = x
    BY DEF CountedOnce, Counted
  <2>1. \A i \in DOMAIN mem.seen : mem.seen[i] \in Counted(u)
    BY <1>2, <1>3 DEF HandledBy, Counted
  <2>2. Counted(u) \in SUBSET Rows /\ Counted(u) = Counted(mem) BY <1>2 DEF Counted
  <2>3. Len(mem.seen) <= Window BY <1>3, <2>1, <2>2, RoomForOne
  <2>4. CountedOnce(mem) BY DEF Once
  <2> QED BY <1>2, <2>2, <2>3, <2>4 DEF CountedOnce, Counted
<1>5. WrittenOnce(u, Coming)
  <2> SUFFICES ASSUME follower \in {"observations", "maker", "evaluator"}, crashes = 0,
                      Cardinality(Reached(Coming)) <= Window
               PROVE  \A x \in Rows : Coming[x] > 0 =>
                        Coming[x] = 1 /\ \E i \in DOMAIN u.seen : u.seen[i] = x
    BY DEF WrittenOnce
  <2>1. \A i \in DOMAIN mem.seen : mem.seen[i] \in Reached(Coming)
    BY <1>3 DEF HandledBy, Reached, TextReaders
  <2>2. Reached(Coming) \in SUBSET Rows BY DEF Reached
  <2>3. Len(mem.seen) <= Window BY <1>3, <2>1, <2>2, RoomForOne
  <2>4. WrittenOnce(mem, Coming) BY DEF Once
  <2> QED BY <1>2, <2>3, <2>4 DEF WrittenOnce
<1>6. Coming' = Coming BY <1>1 DEF Coming
<1> QED BY <1>1, <1>4, <1>5, <1>6, OnceRestored DEF u, Once

\* A poll that begins from the checkpoint begins from what it remembered.
LEMMA OnceAtStart ==
  ASSUME Typed, Once, StartPoll
  PROVE  Once'
<1>1. PICK state \in {mem, saved} :
           /\ IF Its.rereads THEN state = saved ELSE state = mem
           /\ mem'.seen = state.seen /\ mem'.counted = state.counted
  BY StartPollIs
<1>2. /\ pc = "idle" /\ follower' = follower /\ saved' = saved /\ output' = output
      /\ buffer' = buffer /\ crashes' = crashes
  BY DEF StartPoll
<1>3. Coming' = Coming BY <1>2 DEF Coming
<1>4. CountedOnce(mem')
  <2>1. CountedOnce(state) BY <1>1 DEF Once
  <2> DEFINE u == mem'
  <2>2. u.seen = state.seen /\ u.counted = state.counted BY <1>1
  <2> HIDE DEF u
  <2>3. CountedOnce(u) BY <2>1, <2>2 DEF CountedOnce
  <2> QED BY <2>3 DEF u
<1>5. WrittenOnce(mem', Coming)
  <2> DEFINE u == mem'
  <2>1. u.seen = state.seen BY <1>1
  <2> HIDE DEF u
  <2>2. follower \in {"observations", "maker", "evaluator"} => state = mem
    <3>1. follower \in {"maker", "evaluator"} => Its.rereads /\ Its.saves = "always"
      BY ItsIs DEF Typed
    <3>2. follower = "observations" => ~Its.rereads
      BY ItsIs DEF Typed
    <3> QED BY <1>1, <1>2, <3>1, <3>2 DEF Typed
  <2>3. WrittenOnce(mem, Coming) BY DEF Once
  <2>4. WrittenOnce(u, Coming) BY <2>1, <2>2, <2>3 DEF WrittenOnce
  <2> QED BY <2>4 DEF u
<1> QED BY <1>2, <1>3, <1>4, <1>5, OnceRestored DEF Once

LEMMA OnceAtRow ==
  ASSUME Typed, Behind, Once, ReadRow
  PROVE  Once'
<1> DEFINE row == LineAt(file, pos)
<1>1. follower' = follower /\ saved' = saved /\ crashes' = crashes
  BY DEF ReadRow
<1>2. row \in Rows BY TypedAtRow
<1> HIDE DEF row
<1>3. CASE UNCHANGED <<mem, buffer, output>>
  <2>1. Coming' = Coming BY <1>3 DEF Coming
  <2> QED BY <1>1, <1>3, <2>1, OnceRestored DEF Once
<1>4. CASE ~Known(row) /\ Act(row)
  BY <1>1, <1>2, <1>4, CountedOnceAtAct, WrittenOnceAtAct, OnceRestored DEF Once
<1>5. UNCHANGED <<mem, buffer, output>> \/ (~Known(row) /\ Act(row))
  <2>1. CASE Known(row) BY <2>1 DEF ReadRow, row
  <2>2. CASE ~Known(row) /\ ~listed BY <2>2 DEF ReadRow, PassOver, row
  <2>3. CASE ~Known(row) /\ listed BY <2>3 DEF ReadRow, row
  <2> QED BY <2>1, <2>2, <2>3
<1> QED BY <1>3, <1>4, <1>5

LEMMA OnceAtRestart ==
  ASSUME Typed, Once, Crash \/ Abort
  PROVE  Once'
<1>1. PICK state \in {mem, saved} : saved' = state /\ mem' = state
  BY RestartIs
<1>2. follower' = follower /\ crashes' = crashes + 1
  BY RestartIs
<1>3. crashes' # 0 BY <1>2 DEF Typed
<1> QED BY <1>1, <1>2, <1>3, OnceRestored DEF Once

LEMMA OnceKept ==
  ASSUME Typed, Behind, Once, [Next]_vars
  PROVE  Once'
<1>1. ASSUME follower' = follower, mem' = mem, saved' \in {mem, saved}, Coming' = Coming,
             crashes' = crashes
      PROVE  Once'
  BY <1>1, OnceRestored DEF Once
<1>2. CASE SkipHalf \/ SkipRest
  <2>1. /\ follower' = follower /\ mem' = mem /\ saved' = saved /\ crashes' = crashes
        /\ output' = output /\ buffer' = buffer
    BY <1>2 DEF SkipHalf, SkipRest, PassOver
  <2>2. Coming' = Coming BY <2>1 DEF Coming
  <2> QED BY <1>1, <2>1, <2>2
<1>3. CASE Flush \/ Spill
  BY <1>1, <1>3, WritingIs
<1>4. CASE Save
  <2>1. /\ follower' = follower /\ mem' = mem /\ saved' \in {mem, saved} /\ crashes' = crashes
        /\ output' = output /\ buffer' = buffer
    BY <1>4 DEF Save
  <2>2. Coming' = Coming BY <2>1 DEF Coming
  <2> QED BY <1>1, <2>1, <2>2
<1>5. CASE Emit \/ FinishHalf \/ CopyTruncate \/ Replace
  <2>1. UNCHANGED OwnState BY <1>5, FileStepIs
  <2>2. Coming' = Coming BY <2>1 DEF Coming, OwnState
  <2> QED BY <1>1, <2>1, <2>2 DEF OwnState
<1>6. CASE Elapse \/ UNCHANGED vars
  <2>1. UNCHANGED <<follower, mem, buffer, saved, output, crashes>>
    BY <1>6 DEF Elapse, vars
  <2>2. Coming' = Coming BY <2>1 DEF Coming
  <2> QED BY <1>1, <2>1, <2>2
<1> QED BY <1>2, <1>3, <1>4, <1>5, <1>6, OnceAtStart, OnceAtRow, OnceAtEnd, OnceAtRestart
        DEF Next, Poll

LEMMA OnceAtInit ==
  ASSUME Init
  PROVE  Once
<1>1. mem = Fresh /\ saved = Fresh /\ buffer = Silent /\ output = Silent
  BY DEF Init
<1>2. \A row \in Rows : Fresh.counted[row] = 0 /\ Silent[row] = 0
  BY DEF Fresh, Silent
<1>3. CountedOnce(Fresh) BY <1>2 DEF CountedOnce
<1>4. \A row \in Rows : Coming[row] = 0 BY <1>1, <1>2 DEF Coming
<1>5. WrittenOnce(mem, Coming) BY <1>4 DEF WrittenOnce
<1> QED BY <1>1, <1>3, <1>5 DEF Once
-----------------------------------------------------------------------------
(* The paired report's books. *)

LEMMA BooksRestored ==
  ASSUME follower' = follower, evaluation' = evaluation, Balances(mem'), Balances(saved'),
         RunsAtHome(mem'.tally), RunsAtHome(saved'.tally)
  PROVE  Books'
BY DEF Books, Balances, Balanced, RunsAtHome

LEMMA OpensAtHome ==
  ASSUME NEW tally \in Tally, NEW u, NEW e \in Evaluations, Extends(tally, u, e),
         RunsAtHome(tally)
  PROVE  RunsAtHome(u)
<1> DEFINE m == e.market  run == tally.open[m]
           fresh == [market |-> m, start |-> e.ts, end |-> e.ts, events |-> 1]
           more == [run EXCEPT !.end = e.ts, !.events = @ + 1]
<1>1. m \in Markets /\ tally.open \in [Markets -> Run \cup {NoRun}]
  BY DEF Evaluations, Tally
<1>2. fresh.market = m OBVIOUS
<1>3. run # NoRun => more.market = m
  <2> SUFFICES ASSUME run # NoRun PROVE more.market = m
    OBVIOUS
  <2>1. run.market = m /\ run \in Run BY <1>1 DEF RunsAtHome
  <2> HIDE DEF run
  <2> QED BY <2>1 DEF Run
<1>4. \/ run # NoRun /\ u.open = [tally.open EXCEPT ![m] = more]
      \/ u.open = [tally.open EXCEPT ![m] = fresh]
  BY DEF Extends
<1> HIDE DEF fresh, more
<1>5. /\ u.open[m].market = m /\ \A k \in Markets \ {m} : u.open[k] = tally.open[k]
  BY <1>1, <1>2, <1>3, <1>4
<1> QED BY <1>1, <1>5 DEF RunsAtHome

LEMMA BooksAtAct ==
  ASSUME Typed, Books, NEW row \in Rows, Act(row), ~Known(row)
  PROVE  Balances(mem') /\ RunsAtHome(mem'.tally)
<1> DEFINE u == mem'
<1>1. /\ mem.tally \in Tally /\ mem.counted \in [Rows -> Nat] /\ follower \in Followers
      /\ follower = "paired" => evaluation \in [Rows -> Evaluations]
      /\ Balances(mem) /\ RunsAtHome(mem.tally)
  BY DEF Typed, Memory, Books
<1>2. /\ u.counted = IF Its.counts THEN [mem.counted EXCEPT ![row] = @ + 1] ELSE mem.counted
      /\ u.tally = IF follower = "paired" THEN Count(mem.tally, evaluation[row]) ELSE mem.tally
  BY ActIs
<1> HIDE DEF u
<1>3. CASE follower # "paired"
  BY <1>1, <1>2, <1>3 DEF Balances, u
<1>4. CASE follower = "paired"
  <2>1. u.counted = [mem.counted EXCEPT ![row] = @ + 1]
    <3>1. Its.counts BY <1>1, <1>4, ItsIs DEF Counters
    <3> QED BY <1>2, <3>1
  <2> DEFINE next == Count(mem.tally, evaluation[row])
             C == {x \in Rows : mem.counted[x] = 1}
  <2>2. u.tally = next BY <1>2, <1>4
  <2>3. evaluation[row] \in Evaluations /\ evaluation[row].market \in Markets
    BY <1>1, <1>4 DEF Evaluations
  <2>4. next \in Tally /\ Counts(mem.tally, next, evaluation[row])
    BY <1>1, <2>3, CountIs
  <2> HIDE DEF next
  <2>5. RunsAtHome(next)
    <3>1. CASE next.open = mem.tally.open BY <1>1, <3>1 DEF RunsAtHome
    <3>2. CASE Extends(mem.tally, next, evaluation[row])
      BY <1>1, <2>3, <3>2, OpensAtHome
    <3> QED BY <2>4, <3>1, <3>2 DEF Counts
  <2>6. ASSUME \A x \in Rows : u.counted[x] <= 1
        PROVE  Balanced(next, {x \in Rows : u.counted[x] = 1})
    <3>1. \A x \in Rows : mem.counted[x] \in Nat /\ mem.counted[x] <= u.counted[x]
      BY <1>1, <2>1
    <3>2. \A x \in Rows : mem.counted[x] <= 1
      <4> TAKE x \in Rows
      <4>1. u.counted[x] \in Nat BY <1>1, <2>1
      <4> QED BY <2>6, <3>1, <4>1
    <3>3. mem.counted[row] = 0 BY <1>1, <2>1, <2>6
    <3>4. row \in Rows \ C /\ C \in SUBSET Rows BY <3>3
    <3>5. Balanced(mem.tally, C) BY <1>1, <1>4, <3>2 DEF Balances
    <3>6. {x \in Rows : u.counted[x] = 1} = C \cup {row}
      BY <1>1, <2>1, <3>3
    <3> HIDE DEF C
    <3>7. Balanced(next, C \cup {row})
      BY <1>1, <1>4, <2>4, <3>4, <3>5, CountBalances
    <3> QED BY <3>6, <3>7
  <2> QED BY <2>2, <2>5, <2>6 DEF Balances, u
<1> QED BY <1>3, <1>4

LEMMA BooksKept ==
  ASSUME Typed, Books, [Next]_vars
  PROVE  Books'
<1>1. follower' = follower /\ evaluation' = evaluation
  BY DEF Next, Poll, StartPoll, ReadRow, SkipHalf, SkipRest, EndRead, Flush, Save, Spill,
         Elapse, Crash, Abort, RestartFrom, Emit, FinishHalf, CopyTruncate, Replace, OwnState,
         vars
<1>2. \A s, t : t.tally = s.tally /\ t.counted = s.counted /\ Balances(s) => Balances(t)
  BY DEF Balances
<1>3. ASSUME NEW s \in {mem, saved}, mem'.tally = s.tally, mem'.counted = s.counted,
             saved' \in {mem, saved}
      PROVE  Books'
  <2>1. Balances(s) /\ RunsAtHome(s.tally) /\ Balances(saved') /\ RunsAtHome(saved'.tally)
    BY <1>3 DEF Books
  <2>2. Balances(mem') BY <1>2, <1>3, <2>1
  <2> QED BY <1>1, <1>3, <2>1, <2>2, BooksRestored
<1>4. CASE StartPoll
  <2>1. PICK state \in {mem, saved} : mem'.tally = state.tally /\ mem'.counted = state.counted
    BY <1>4, StartPollIs
  <2>2. saved' = saved BY <1>4 DEF StartPoll
  <2> QED BY <1>3, <2>1, <2>2
<1>5. CASE ReadRow
  <2> DEFINE row == LineAt(file, pos)
  <2>1. row \in Rows BY <1>5, TypedAtRow
  <2>2. saved' = saved BY <1>5 DEF ReadRow
  <2> HIDE DEF row
  <2>3. mem' = mem \/ (~Known(row) /\ Act(row))
    <3>1. CASE Known(row) BY <1>5, <3>1 DEF ReadRow, row
    <3>2. CASE ~Known(row) /\ ~listed BY <1>5, <3>2 DEF ReadRow, PassOver, row
    <3>3. CASE ~Known(row) /\ listed BY <1>5, <3>3 DEF ReadRow, row
    <3> QED BY <3>1, <3>2, <3>3
  <2>4. CASE mem' = mem BY <1>3, <2>2, <2>4
  <2>5. CASE ~Known(row) /\ Act(row)
    BY <1>1, <2>1, <2>2, <2>5, BooksAtAct, BooksRestored DEF Books
  <2> QED BY <2>3, <2>4, <2>5
<1>6. CASE EndRead
  <2>1. mem'.tally = mem.tally /\ mem'.counted = mem.counted
    BY <1>6, EndReadIs
  <2>2. saved' = saved BY <1>6 DEF EndRead
  <2> QED BY <1>3, <2>1, <2>2
<1>7. CASE Crash \/ Abort
  <2>1. PICK state \in {mem, saved} : saved' = state /\ mem' = state
    BY <1>7, RestartIs
  <2> QED BY <1>3, <2>1
<1>8. CASE /\ ~StartPoll /\ ~ReadRow /\ ~EndRead /\ ~Crash /\ ~Abort
  <2>1. mem' = mem /\ saved' \in {mem, saved}
    BY <1>8 DEF Next, Poll, SkipHalf, SkipRest, Flush, Save, Spill, Elapse, Emit, FinishHalf,
                CopyTruncate, Replace, OwnState, vars, PassOver
  <2> QED BY <1>3, <2>1
<1> QED BY <1>4, <1>5, <1>6, <1>7, <1>8

LEMMA SumZero ==
  ASSUME NEW S, IsFiniteSet(S), NEW f, \A x \in S : f[x] = 0
  PROVE  SumFunctionOnSet(f, S) = 0
<1> DEFINE Q == {U \in SUBSET S : SumFunctionOnSet(f, U) = 0}
<1>1. {} \in Q
  BY SumEmpty
<1>2. \A T \in SUBSET S : \A x \in S \ T : T \in Q => T \cup {x} \in Q
  <2> SUFFICES ASSUME NEW T \in SUBSET S, NEW x \in S \ T, T \in Q PROVE T \cup {x} \in Q
    OBVIOUS
  <2>1. IsFiniteSet(T) BY FS_Subset
  <2>2. \A y \in T \cup {x} : f[y] \in Int OBVIOUS
  <2>3. SumFunctionOnSet(f, T \cup {x}) = f[x] + SumFunctionOnSet(f, T)
    BY <2>1, <2>2, SumAdd
  <2>4. SumFunctionOnSet(f, T \cup {x}) = 0 + 0
    BY <2>3
  <2> QED BY <2>4
<1> HIDE DEF Q
<1>3. S \in Q BY <1>1, <1>2, FiniteSetInduction
<1> QED BY <1>3 DEF Q

LEMMA BooksAtInit ==
  ASSUME Init
  PROVE  Books
<1>1. mem = Fresh /\ saved = Fresh /\ Fresh.tally = EmptyTally /\ Fresh.counted = Silent
  BY DEF Init, Fresh
<1>2. /\ EmptyTally.total = 0 /\ EmptyTally.valid = 0 /\ EmptyTally.opportunities = 0
      /\ EmptyTally.excluded = [reason \in Reasons |-> 0] /\ EmptyTally.runs = <<>>
      /\ EmptyTally.open = [market \in Markets |-> NoRun]
  BY DEF EmptyTally
<1>3. RunsAtHome(EmptyTally) /\ RunsOf(EmptyTally) = {}
  BY <1>2 DEF RunsAtHome, RunsOf, OpenRuns, Range
<1>4. SumFunction(EmptyTally.excluded) = 0
  <2>1. IsFiniteSet(Reasons)
    <3>1. Reasons = {"closing_window"} \cup {"empty_book"} \cup {"incomplete_data"}
      BY DEF Reasons
    <3> QED BY <3>1, FS_Singleton, FS_Union
  <2> DEFINE f == EmptyTally.excluded
  <2>2. DOMAIN f = Reasons /\ \A x \in Reasons : f[x] = 0 BY <1>2
  <2> HIDE DEF f
  <2>3. SumFunctionOnSet(f, Reasons) = 0 BY <2>1, <2>2, SumZero
  <2> QED BY <2>2, <2>3 DEF SumFunction, f
<1>5. Events(EmptyTally) = 0
  <2> DEFINE f == [i \in DOMAIN EmptyTally.runs |-> EmptyTally.runs[i].events]
             g == [market \in Markets |-> EmptyTally.open[market].events]
  <2>1. DOMAIN f = {} BY <1>2
  <2>2. DOMAIN g = Markets /\ \A market \in Markets : g[market] = 0
    BY <1>2 DEF NoRun
  <2>3. Events(EmptyTally) = SumFunction(f) + SumFunction(g) BY DEF Events
  <2> HIDE DEF f, g
  <2>4. SumFunction(f) = 0 BY <2>1, SumEmpty DEF SumFunction
  <2>5. SumFunction(g) = 0 BY <2>2, SumZero, RunsAssumption DEF SumFunction
  <2> QED BY <2>3, <2>4, <2>5
<1>6. Balances(Fresh)
  <2>1. {row \in Rows : Silent[row] = 1} = {} BY DEF Silent
  <2>2. Balanced(EmptyTally, {})
    <3>1. Cardinality({}) = 0 BY FS_EmptySet
    <3> DEFINE hits == {row \in {} : Opportunity(evaluation[row])}
               timed == {row \in hits : evaluation[row].ts > 0}
    <3>2. hits = {} /\ timed = {} OBVIOUS
    <3> QED BY <1>2, <1>3, <1>4, <1>5, <3>1, <3>2 DEF Balanced
  <2> QED BY <1>1, <2>1, <2>2 DEF Balances
<1> QED BY <1>1, <1>3, <1>6 DEF Books
-----------------------------------------------------------------------------
(* The theorems. *)

\* IInv holds in every reachable state, whichever follower runs.
THEOREM Inductive == Spec => []IInv
<1>1. Init => IInv
  BY TypedAtInit, BehindAtInit, OnceAtInit, BooksAtInit DEF IInv
<1>2. IInv /\ [Next]_vars => IInv'
  BY TypedKept, BehindKept, OnceKept, BooksKept DEF IInv
<1> QED BY <1>1, <1>2, PTL DEF Spec

\* TypeOK: the types, and no more ids than the window remembered between polls.
THEOREM TypeCorrect == Spec => []TypeOK
<1>1. IInv => TypeOK
  <2> SUFFICES ASSUME Typed PROVE TypeOK
    BY DEF IInv
  <2>1. /\ emitted \in 0..MaxLines /\ MaxLines \in Nat
        /\ pos \in Nat /\ mem.offset \in Nat /\ saved.offset \in Nat
        /\ pos <= 2 * emitted /\ mem.offset <= 2 * emitted /\ saved.offset <= 2 * emitted
    BY FollowersAssumption DEF Typed, Memory
  <2>2. pos \in 0 .. 2 * MaxLines /\ mem.offset \in 0 .. 2 * MaxLines
        /\ saved.offset \in 0 .. 2 * MaxLines
    <3> DEFINE a == mem.offset  b == saved.offset
    <3>1. a \in Nat /\ b \in Nat /\ a <= 2 * emitted /\ b <= 2 * emitted BY <2>1
    <3> HIDE DEF a, b
    <3>2. pos \in 0 .. 2 * MaxLines /\ a \in 0 .. 2 * MaxLines /\ b \in 0 .. 2 * MaxLines
      BY <2>1, <3>1
    <3> QED BY <3>2 DEF a, b
  <2>3. mem.counted \in [Rows -> Nat] /\ saved.counted \in [Rows -> Nat]
    BY DEF Typed, Memory
  <2> QED BY <2>2, <2>3 DEF TypeOK, Typed, Remembers
<1> QED BY <1>1, Inductive, PTL

\* NothingBehindOffset: between polls the offset is not ahead of the output or
\* of the counts, whatever crashed and whichever checkpoint it restarted from.
THEOREM NothingBehindSafe == Spec => []NothingBehindOffset
<1>1. IInv => NothingBehindOffset
  <2> SUFFICES ASSUME Typed, Behind, pc = "idle", truncations = 0, mem.inode = file.inode,
                      NEW i \in DOMAIN file.lines, 2 * i <= mem.offset
               PROVE  LET row == file.lines[i]
                      IN  \/ Recorded(row) \/ Covered(row)
                          \/ follower \in TextReaders /\ row \in passedOver
    BY DEF IInv, NothingBehindOffset, LinesBefore
  <2> DEFINE row == file.lines[i]
  <2>1. /\ file \in Files /\ (file.torn => Len(file.lines) > 0) /\ mem.offset \in Nat
        /\ follower \in Followers
    BY DEF Typed, Memory
  <2>2. row \in Rows /\ i \in Nat BY <2>1, SizeIs
  <2>3. 2 * i <= mem.offset + 1 BY <2>1, <2>2
  <2>4. HandledBy(mem, Coming, row) \/ (follower \in TextReaders /\ row \in passedOver)
    BY <2>3 DEF Behind, Follows, Passed
  <2> HIDE DEF row
  <2>5. ASSUME HandledBy(mem, Coming, row) PROVE Recorded(row) \/ Covered(row)
    <3>1. Coming = output /\ \A x \in Rows : Coming[x] = output[x] + buffer[x]
      <4>1. buffer = Silent /\ buffer \in [Rows -> Nat] /\ output \in [Rows -> Nat]
        BY DEF Typed
      <4> QED BY <4>1, ComingIs
    <3>2. CoveredBy(Coming, row) => Covered(row)
      BY <3>1 DEF CoveredBy, Covered, Written
    <3>3. CASE follower \in TextReaders
      BY <2>5, <3>1, <3>2, <3>3 DEF HandledBy, Recorded
    <3>4. CASE follower \notin TextReaders
      <4>1. follower \in Counters
        BY <2>1, <3>4 DEF Followers, Programs, TextReaders, Counters
      <4> QED BY <2>5, <3>4, <4>1 DEF HandledBy, Recorded
    <3> QED BY <3>3, <3>4
  <2> QED BY <2>4, <2>5 DEF row
<1> QED BY <1>1, Inductive, PTL

\* HandledOnce: as long as the ids handled fit the window, none is counted or,
\* short of a crash, written twice.
THEOREM HandledSafe == Spec => []HandledOnce
<1>1. IInv => HandledOnce
  <2> SUFFICES ASSUME Typed, Once, FewIds, NEW row \in Rows
               PROVE  /\ follower \in Counters => mem.counted[row] <= 1 /\ saved.counted[row] <= 1
                      /\ follower \in {"observations", "maker", "evaluator"} /\ crashes = 0 =>
                           output[row] + buffer[row] <= 1
    BY DEF IInv, HandledOnce
  <2> DEFINE H == {x \in Rows : mem.counted[x] > 0 \/ Written(x) \/ Covered(x)}
  <2>1. Cardinality(H) <= Window BY DEF FewIds
  <2>2. /\ Coming \in [Rows -> Nat] /\ mem.counted \in [Rows -> Nat]
        /\ saved.counted \in [Rows -> Nat]
        /\ \A x \in Rows : Coming[x] = output[x] + buffer[x]
    BY ComingIs DEF Typed, Memory
  <2>3. Counted(mem) \subseteq H BY DEF Counted
  <2>4. Reached(Coming) \subseteq H
    <3>1. \A x \in Rows : CoveredBy(Coming, x) => Covered(x)
      BY <2>2 DEF CoveredBy, Covered, Written
    <3>2. \A x \in Rows : Coming[x] > 0 => Written(x) BY <2>2 DEF Written
    <3> QED BY <3>1, <3>2 DEF Reached
  <2>5. IsFiniteSet(H) /\ Cardinality(H) \in Nat /\ Window \in Nat
    <3>1. H \subseteq Rows OBVIOUS
    <3> QED BY <3>1, FollowersAssumption, FS_Subset, FS_CardinalityType
  <2> HIDE DEF H
  <2>6. Cardinality(Counted(mem)) <= Window
    <3>1. Cardinality(Counted(mem)) <= Cardinality(H) /\ Cardinality(Counted(mem)) \in Nat
      BY <2>3, <2>5, FS_Subset, FS_CardinalityType
    <3> QED BY <2>1, <2>5, <3>1
  <2>7. Cardinality(Reached(Coming)) <= Window
    <3>1. Cardinality(Reached(Coming)) <= Cardinality(H) /\ Cardinality(Reached(Coming)) \in Nat
      BY <2>4, <2>5, FS_Subset, FS_CardinalityType
    <3> QED BY <2>1, <2>5, <3>1
  <2>8. ASSUME follower \in Counters
        PROVE  mem.counted[row] <= 1 /\ saved.counted[row] <= 1
    <3>1. mem.counted[row] \in Nat /\ saved.counted[row] \in Nat
          /\ saved.counted[row] <= mem.counted[row]
      BY <2>2 DEF Typed
    <3>2. mem.counted[row] > 0 => mem.counted[row] = 1
      BY <2>6, <2>8 DEF Once, CountedOnce, Counted
    <3> QED BY <3>1, <3>2
  <2>9. ASSUME follower \in {"observations", "maker", "evaluator"}, crashes = 0
        PROVE  output[row] + buffer[row] <= 1
    <3>1. Coming[row] > 0 => Coming[row] = 1
      BY <2>7, <2>9 DEF Once, WrittenOnce
    <3>2. Coming[row] \in Nat BY <2>2
    <3> QED BY <2>2, <3>1, <3>2
  <2> QED BY <2>8, <2>9
<1> QED BY <1>1, Inductive, PTL

\* RunsHoldOpportunities: the paired report's books balance.
THEOREM RunsSafe == Spec => []RunsHoldOpportunities
<1>1. IInv => RunsHoldOpportunities
  <2> SUFFICES ASSUME Balances(mem) PROVE RunsHoldOpportunities
    BY DEF IInv, Books
  <2>1. RunsOf(mem.tally) = ReportedCompleted(mem.tally) \cup ReportedOpen(mem.tally)
    BY DEF RunsOf, ReportedCompleted, ReportedOpen
  <2> QED BY <2>1 DEF Balances, Balanced, Events, RunsHoldOpportunities
<1> QED BY <1>1, Inductive, PTL

\* Counting an evaluation that is not older than the tally leaves what was
\* reported as completed as it was.
LEMMA CompletedStays ==
  ASSUME NEW tally \in Tally, NEW u \in Tally, NEW e \in Evaluations, Counts(tally, u, e),
         e.ts >= tally.last
  PROVE  ReportedCompleted(tally) \subseteq ReportedCompleted(u)
<1>1. /\ e.ts \in Nat /\ e.market \in Markets /\ tally.last \in Nat /\ u.last \in Nat
      /\ tally.last <= u.last /\ MaxRunGap \in Nat
      /\ tally.open \in [Markets -> Run \cup {NoRun}] /\ tally.runs \in Seq(Run)
  BY RunsAssumption DEF Evaluations, Tally, Counts
<1>2. \A run \in Run \cup {NoRun} : run.end \in Nat
  BY DEF Run, NoRun
<1>3. ASSUME NEW run \in Run \cup {NoRun}, Quiet(tally, run) PROVE Quiet(u, run)
  <2> DEFINE end == run.end
  <2>1. end \in Nat /\ tally.last > 0 /\ tally.last - end > MaxRunGap
    BY <1>2, <1>3 DEF Quiet
  <2> HIDE DEF end
  <2>2. u.last > 0 /\ u.last - end > MaxRunGap
    BY <1>1, <2>1
  <2> QED BY <2>2 DEF Quiet, end
<1>4. CASE u.runs = tally.runs /\ u.open = tally.open
  BY <1>1, <1>3, <1>4 DEF ReportedCompleted, OpenRuns
<1>5. CASE Extends(tally, u, e)
  <2> DEFINE run == tally.open[e.market]
  <2>1. /\ Range(tally.runs) \subseteq Range(u.runs)
        /\ \/ /\ run # NoRun /\ run.end <= e.ts /\ e.ts - run.end <= MaxRunGap
           \/ run \in Range(u.runs) \cup {NoRun}
    <3> DEFINE n == Len(tally.runs)  all == Append(tally.runs, run)
    <3>1. run \in Run => /\ n \in Nat /\ DOMAIN tally.runs = 1..n /\ DOMAIN all = 1..(n + 1)
                         /\ all[n + 1] = run
                         /\ \A i \in 1..n : i \in 1..(n + 1) /\ all[i] = tally.runs[i]
      BY <1>1
    <3>2. run # NoRun => run \in Run BY <1>1
    <3>3. n \in Nat BY <1>1
    <3> HIDE DEF n, all
    <3>4. run # NoRun => Range(tally.runs) \cup {run} \subseteq Range(all)
      <4> SUFFICES ASSUME run # NoRun PROVE Range(tally.runs) \cup {run} \subseteq Range(all)
        OBVIOUS
      <4>1. n + 1 \in 1..(n + 1) BY <3>3
      <4> QED BY <3>1, <3>2, <4>1 DEF Range
    <3> HIDE DEF run
    <3> QED BY <1>5, <3>4 DEF Extends, all, run
  <2>2. \A k \in Markets \ {e.market} : u.open[k] = tally.open[k]
    BY <1>1, <1>5 DEF Extends
  <2>3. Quiet(tally, run) => run \in Range(u.runs) \cup {NoRun}
    <3> DEFINE end == run.end
    <3>1. end \in Nat BY <1>1, <1>2
    <3>2. Quiet(tally, run) => tally.last - end > MaxRunGap BY DEF Quiet
    <3> HIDE DEF end
    <3>3. ~(Quiet(tally, run) /\ e.ts - end <= MaxRunGap) BY <1>1, <3>1, <3>2
    <3> QED BY <2>1, <3>3 DEF end
  <2> HIDE DEF run
  <2>4. ASSUME NEW k \in Markets, tally.open[k] # NoRun, Quiet(tally, tally.open[k])
        PROVE  tally.open[k] \in ReportedCompleted(u)
    <3>1. Quiet(u, tally.open[k]) BY <1>1, <1>3, <2>4
    <3>2. CASE k = e.market
      BY <2>3, <2>4, <3>2 DEF ReportedCompleted, run
    <3>3. CASE k # e.market
      <4>1. tally.open[k] \in OpenRuns(u) BY <2>2, <2>4, <3>3 DEF OpenRuns
      <4> QED BY <3>1, <4>1 DEF ReportedCompleted
    <3> QED BY <3>2, <3>3
  <2> QED BY <2>1, <2>4 DEF ReportedCompleted, OpenRuns
<1> QED BY <1>4, <1>5 DEF Counts

\* CompletedIsFinal: a run given as completed stays as it was given.
THEOREM FinalSafe == Spec => CompletedIsFinal
<1> DEFINE A == LET row == LineAt(file, pos)
                IN  follower = "paired" /\ mem'.counted # mem.counted /\ crashes' = crashes
                      /\ pc = "read" /\ evaluation[row].ts >= mem.tally.last =>
                    ReportedCompleted(mem.tally) \subseteq ReportedCompleted(mem'.tally)
<1>1. IInv /\ [Next]_vars => [A]_vars
  <2> DEFINE row == LineAt(file, pos)
  <2> SUFFICES ASSUME Typed, Next, follower = "paired", mem'.counted # mem.counted,
                      crashes' = crashes, pc = "read", evaluation[row].ts >= mem.tally.last
               PROVE  ReportedCompleted(mem.tally) \subseteq ReportedCompleted(mem'.tally)
    BY DEF IInv
  <2>1. crashes \in Nat BY DEF Typed
  <2>2. ~(Crash \/ Abort)
    <3>1. Crash \/ Abort => crashes' = crashes + 1 BY RestartIs
    <3> QED BY <2>1, <3>1
  <2>3. ~EndRead BY EndReadIs
  <2>4. ReadRow
    BY <2>2, <2>3 DEF Next, Poll, StartPoll, SkipHalf, SkipRest, Flush, Save, Spill, Elapse, Emit,
                      FinishHalf, CopyTruncate, Replace, OwnState, PassOver
  <2>5. row \in Rows BY <2>4, TypedAtRow
  <2>6. ~Known(row) /\ Act(row)
    <3>1. CASE Known(row) BY <2>4, <3>1 DEF ReadRow
    <3>2. CASE ~Known(row) /\ ~listed BY <2>4, <3>2 DEF ReadRow, PassOver
    <3>3. CASE ~Known(row) /\ listed BY <2>4, <3>3 DEF ReadRow
    <3> QED BY <3>1, <3>2, <3>3
  <2> HIDE DEF row
  <2>7. mem'.tally = Count(mem.tally, evaluation[row]) BY <2>5, <2>6, ActIs
  <2>8. mem.tally \in Tally /\ evaluation[row] \in Evaluations
    BY <2>5 DEF Typed, Memory
  <2> DEFINE next == Count(mem.tally, evaluation[row])
  <2>9. next \in Tally /\ Counts(mem.tally, next, evaluation[row])
    BY <2>8, CountIs
  <2> HIDE DEF next
  <2>10. ReportedCompleted(mem.tally) \subseteq ReportedCompleted(next)
    BY <2>8, <2>9, CompletedStays
  <2> QED BY <2>7, <2>10 DEF next
<1> QED BY <1>1, Inductive, PTL DEF Spec, CompletedIsFinal
================================================================================
