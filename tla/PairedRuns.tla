------------------------------ MODULE PairedRuns ------------------------------
(***************************************************************************)
(* What the paired report (paired_opportunity_report.py) makes of the      *)
(* engine's paired-lock evaluations: every evaluation is excluded for a    *)
(* reason or valid; a valid one whose net cost per share is below the      *)
(* threshold is an opportunity; the opportunities of a market that follow  *)
(* each other within MaxRunGap make a run.  A tally is one pass's          *)
(* accumulated state, folded row by row.                                   *)
(*                                                                         *)
(* A row is [accepted, ts, market, seconds, fills, vwap, gross, net]:      *)
(* seconds to the close, the smaller of the two legs' fills, the sum of    *)
(* their average prices, and the costs; a missing number counts like 0.    *)
(***************************************************************************)
EXTENDS Integers, Sequences, FiniteSetsExt, Functions

CONSTANTS
  Markets,
  MinSecondsToClose, MaxRunGap,
  OpportunityThreshold, NearMissThreshold   \* cost per share, in hundredths

Evaluations ==
  [accepted : BOOLEAN, ts : Nat, market : Markets, seconds : Int, fills : Int, vwap : Int,
   gross : Int, net : Int]
ASSUME RunsAssumption ==
  /\ IsFiniteSet(Markets) /\ MaxRunGap \in Nat /\ MinSecondsToClose \in Int
  /\ OpportunityThreshold \in Int /\ NearMissThreshold \in Int

Reasons == {"closing_window", "empty_book", "incomplete_data"}

NoRun == [market |-> "none", start |-> 0, end |-> 0, events |-> 0]

EmptyTally ==
  [total |-> 0, valid |-> 0, accepts |-> 0, rejections |-> 0,
   excluded |-> [reason \in Reasons |-> 0],
   opportunities |-> 0, nearMisses |-> 0,
   last |-> 0, runs |-> <<>>, open |-> [market \in Markets |-> NoRun]]

Exclusion(row) ==
  IF row.seconds < MinSecondsToClose THEN "closing_window"
  ELSE IF row.fills <= 0 \/ row.vwap <= 0 THEN "empty_book"
  ELSE IF row.gross <= 0 \/ row.net <= 0 THEN "incomplete_data"
  ELSE "none"

\* net / (gross / vwap) is compared in hundredths, cross-multiplied.
CostsBelow(row, threshold) == row.net * row.vwap < threshold * row.gross

Valid(row) == Exclusion(row) = "none"
Opportunity(row) == Valid(row) /\ CostsBelow(row, OpportunityThreshold)

\* Mutant: an opportunity joins its market's open run however long ago that ended.
JoinsEver(run, row) == run # NoRun /\ row.ts >= run.end
Joins(run, row) == run # NoRun /\ row.ts - run.end \in 0 .. MaxRunGap

\* Mutant: the run before is replaced, not closed.
Forgotten(tally, run) == tally
CloseRun(tally, run) == IF run = NoRun THEN tally ELSE [tally EXCEPT !.runs = Append(@, run)]

ExtendRun(tally, row) ==
  LET run == tally.open[row.market]
  IN  IF Joins(run, row)
      THEN [tally EXCEPT !.open[row.market] =
              [run EXCEPT !.end = row.ts, !.events = @ + 1]]
      ELSE [CloseRun(tally, run) EXCEPT !.open[row.market] =
              [market |-> row.market, start |-> row.ts, end |-> row.ts, events |-> 1]]

Seen(tally, row) ==
  [tally EXCEPT !.total = @ + 1,
                !.last = Max({@, row.ts}),
                !.rejections = IF row.accepted THEN @ ELSE @ + 1]

Count(tally, row) ==
  LET seen    == Seen(tally, row)
      counted == [seen EXCEPT
        !.valid = @ + 1,
        !.accepts = IF row.accepted THEN @ + 1 ELSE @,
        !.opportunities = IF Opportunity(row) THEN @ + 1 ELSE @,
        !.nearMisses = IF ~Opportunity(row) /\ CostsBelow(row, NearMissThreshold)
                       THEN @ + 1 ELSE @]
  IN  IF ~Valid(row) THEN [seen EXCEPT !.excluded[Exclusion(row)] = @ + 1]
      ELSE IF Opportunity(row) /\ row.ts > 0 THEN ExtendRun(counted, row)
      ELSE counted

\* A report also gives the open runs of quiet markets as completed; the tally
\* keeps them open.
Quiet(tally, run) == tally.last > 0 /\ tally.last - run.end > MaxRunGap
OpenRuns(tally) == {tally.open[market] : market \in Markets} \ {NoRun}
ReportedOpen(tally) == {run \in OpenRuns(tally) : ~Quiet(tally, run)}
ReportedCompleted(tally) == Range(tally.runs) \cup {run \in OpenRuns(tally) : Quiet(tally, run)}

===============================================================================
