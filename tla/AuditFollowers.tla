---------------------------- MODULE AuditFollowers ----------------------------
(***************************************************************************)
(* The other processes that tail an audit file, by polling from a saved    *)
(* offset: the observation counter (shadow_execution.process_audit_once),  *)
(* the maker bridge (maker_shadow.process_once), the Python evaluator and  *)
(* the parity verifier (ev_shadow.process_once,                            *)
(* process_verification_once), the web panel's counters                    *)
(* (web_monitor._strategy_counts) and the three incremental reports        *)
(* (shadow_report, arbitrage_research, paired_opportunity_report).         *)
(* They are one program in eight variants; the initial state picks one.    *)
(*                                                                         *)
(* What they make of a row is abstracted to the fact that they did: a      *)
(* record written to their output file, a count in their checkpoint, or    *)
(* both.  The evaluator's emission throttle is kept, because it decides    *)
(* whether a record is written, and so is the paired report's accumulator  *)
(* (PairedRuns), because runs depend on the rows' order.                   *)
(***************************************************************************)
EXTENDS AuditFile, PairedRuns, SequencesExt

CONSTANTS
  Rows,        \* rows the follower acts on, as the engine appends them: [id, mark, ts]
  PairedEvaluations,   \* what paired-lock evaluations the rows may be, see PairedRuns
  Heartbeat,   \* STRATEGY_*_AUDIT_HEARTBEAT_SECONDS
  Window,      \* how many ids are remembered: 10000, 20000, 50000, MAX_SEEN_EVENTS
  MaxLines, MaxFaults   \* bounds of the runs: lines; torn lines, rotations and crashes

\* Every row has a mark, the fingerprint of its decision; ids are remembered.
ASSUME FollowersAssumption ==
  /\ IsFiniteSet(Rows) /\ \A row \in Rows : row.ts \in Int /\ row.mark # "none"
  /\ PairedEvaluations \subseteq [Rows -> Evaluations]
  /\ Heartbeat \in Nat /\ Window \in Nat \ {0} /\ MaxLines \in Nat /\ MaxFaults \in Nat
  /\ NoFile \notin Nat

VARIABLES
  follower,                     \* which program this is
  evaluation,                   \* what the rows evaluate to, for the paired report
  file, emitted, torns, truncations, rotations,   \* the audit file and its history
  pc, pos,                      \* "idle", "read", "write" or "save"; file position
  listed,                       \* the market file was readable in this poll
  mem, buffer, dirty, due,      \* memory, unflushed output, dirty mark, timer
  handled,                      \* observations: this poll counted something
  saved, output,                \* checkpoint file and output file
  passedOver,                   \* rows read torn, or while no market was listed
  crashes

environment == <<file, emitted, torns, truncations, rotations>>
vars == <<follower, evaluation, file, emitted, torns, truncations, rotations, pc, pos, listed,
          mem, buffer, dirty, due, handled, saved, output, passedOver, crashes>>

Silent == [row \in Rows |-> 0]
NothingSent == [mark |-> "none", ts |-> 0]
Fresh == [offset |-> 0, inode |-> NoFile, seen |-> <<>>, counted |-> Silent,
          sent |-> NothingSent, tally |-> EmptyTally]

\* A run sees at most MaxFaults of them, in any mixture.
Faults == torns + rotations + crashes

-----------------------------------------------------------------------------
(* How the variants differ: does a poll begin from the checkpoint file or   *)
(* from memory, does it remember ids and which does it forget, does it write *)
(* records through or buffered, does it count, is half a line read past or   *)
(* left, when does it save, and does its dirty mark outlive the poll         *)

Observations ==
  [rereads |-> FALSE, dedupes |-> TRUE,  forgets |-> "oldest", writes |-> "through",
   counts |-> TRUE,  halves |-> "passed", saves |-> "if due or counted", keepsMark |-> TRUE]

MakerBridge ==
  [rereads |-> TRUE,  dedupes |-> TRUE,  forgets |-> "any", writes |-> "buffered",
   counts |-> FALSE, halves |-> "passed", saves |-> "always", keepsMark |-> FALSE]

Evaluator ==
  [rereads |-> TRUE,  dedupes |-> TRUE,  forgets |-> "any", writes |-> "buffered",
   counts |-> FALSE, halves |-> "passed", saves |-> "always", keepsMark |-> FALSE]

Verifier ==
  [rereads |-> TRUE,  dedupes |-> FALSE, forgets |-> "any", writes |-> "buffered",
   counts |-> FALSE, halves |-> "passed", saves |-> "if changed", keepsMark |-> FALSE]

\* Mutant: a line that is still being written is read past.
PanelImpatient ==
  [rereads |-> FALSE, dedupes |-> TRUE,  forgets |-> "any", writes |-> "nothing",
   counts |-> TRUE,  halves |-> "passed", saves |-> "if due", keepsMark |-> FALSE]
Panel ==
  [rereads |-> FALSE, dedupes |-> TRUE,  forgets |-> "any", writes |-> "nothing",
   counts |-> TRUE,  halves |-> "left",  saves |-> "if due", keepsMark |-> FALSE]

Report ==
  [rereads |-> FALSE, dedupes |-> TRUE,  forgets |-> "oldest", writes |-> "nothing",
   counts |-> TRUE,  halves |-> "left",  saves |-> "if due", keepsMark |-> FALSE]

Research ==
  [rereads |-> FALSE, dedupes |-> TRUE,  forgets |-> "oldest", writes |-> "nothing",
   counts |-> TRUE,  halves |-> "left",  saves |-> "if due", keepsMark |-> TRUE]

Paired ==
  [rereads |-> TRUE,  dedupes |-> TRUE,  forgets |-> "oldest", writes |-> "nothing",
   counts |-> TRUE,  halves |-> "left",  saves |-> "always", keepsMark |-> FALSE]

Programs == [observations |-> Observations, maker |-> MakerBridge,
             evaluator |-> Evaluator, verifier |-> Verifier, panel |-> Panel,
             report |-> Report, research |-> Research, paired |-> Paired]
Followers == DOMAIN Programs
Its == Programs[follower]

Known(row) == Its.dedupes /\ \E i \in DOMAIN mem.seen : mem.seen[i] = row

Remember(seen, row) ==
  LET all == Append(seen, row)
  IN  IF Its.forgets = "oldest" /\ Len(all) > Window THEN Tail(all) ELSE all

\* Mutant: the remembered ids are never trimmed.
Untrimmed(seen) == {seen}
\* list(set)[-Window:] keeps any Window of them, in some order nobody reads.
Trimmed(seen) ==
  IF Len(seen) <= Window THEN {seen}
  ELSE {SetToSeq(kept) : kept \in kSubset(Window, ToSet(seen))}

\* The evaluator writes a row again only after a change or a heartbeat.
Throttled(row) == /\ follower = "evaluator"
                  /\ mem.sent.mark = row.mark
                  /\ row.ts - mem.sent.ts < Heartbeat

SavesNow ==
  CASE Its.saves = "always"            -> TRUE
    [] Its.saves = "if changed"        -> dirty
    [] Its.saves = "if due"            -> dirty /\ due
    [] Its.saves = "if due or counted" -> dirty /\ (due \/ handled)

HasTimer == Its.saves \in {"if due", "if due or counted"}

-----------------------------------------------------------------------------
(* A poll *)

StartPoll ==
  /\ pc = "idle"
  /\ LET state  == IF Its.rereads THEN saved ELSE mem
         offset == StartAt(file, state.offset, state.inode)
     IN  /\ mem' = [state EXCEPT !.offset = offset, !.inode = file.inode]
         /\ pos' = offset
         /\ dirty' = \/ Its.keepsMark /\ dirty
                     \/ follower # "research" /\ mem' # state
  /\ listed' \in IF follower = "evaluator" THEN BOOLEAN ELSE {TRUE}
  /\ handled' = FALSE
  /\ pc' = "read"
  /\ UNCHANGED <<follower, evaluation, environment, buffer, due, saved, output, passedOver, crashes>>

Act(row) ==
  LET writes == Its.writes # "nothing" /\ ~Throttled(row)
  IN  /\ mem' = [mem EXCEPT
           !.seen = IF Its.dedupes THEN Remember(@, row) ELSE @,
           !.counted[row] = IF Its.counts THEN @ + 1 ELSE @,
           !.tally = IF follower = "paired" THEN Count(@, evaluation[row]) ELSE @,
           !.sent = IF writes /\ follower = "evaluator"
                    THEN [mark |-> row.mark, ts |-> row.ts] ELSE @]
      /\ buffer' = IF writes /\ Its.writes = "buffered"
                   THEN [buffer EXCEPT ![row] = @ + 1] ELSE buffer
      /\ output' = IF writes /\ Its.writes = "through"
                   THEN [output EXCEPT ![row] = @ + 1] ELSE output
      /\ dirty' = TRUE
      /\ handled' = (follower = "observations")

PassOver(row) == /\ passedOver' = passedOver \cup {row}
                 /\ UNCHANGED <<mem, buffer, output, dirty, handled>>

\* A line parses when it is whole, or when only its newline is missing; the
\* research report does not try.
ReadRow ==
  /\ pc = "read" /\ ~AtEnd(file, pos) /\ pos % 2 = 0
  /\ Whole(file, pos) \/ follower # "research"
  /\ LET row == LineAt(file, pos)
     IN  CASE Known(row) -> UNCHANGED <<mem, buffer, output, dirty, handled, passedOver>>
           [] ~Known(row) /\ ~listed -> PassOver(row)
           [] ~Known(row) /\ listed  -> Act(row) /\ UNCHANGED passedOver
  /\ pos' = AfterLine(file, pos)
  /\ UNCHANGED <<follower, evaluation, environment, pc, listed, due, saved, crashes>>

\* The first half of a line, read as text, does not parse.
SkipHalf ==
  /\ pc = "read" /\ ~AtEnd(file, pos) /\ pos % 2 = 0
  /\ ~Whole(file, pos) /\ Its.halves = "passed"
  /\ PassOver(LineAt(file, pos))
  /\ pos' = AfterLine(file, pos)
  /\ UNCHANGED <<follower, evaluation, environment, pc, listed, due, saved, crashes>>

\* The rest of such a line, or the newline of one that was read without it.
SkipRest ==
  /\ pc = "read" /\ ~AtEnd(file, pos) /\ pos % 2 = 1
  /\ pos' = AfterLine(file, pos)
  /\ UNCHANGED <<follower, evaluation, environment, pc, listed, mem, buffer, dirty, due,
                 handled, saved, output, passedOver, crashes>>

\* The output file's own buffer may reach the disk at any time.
Spill ==
  /\ follower \in {"maker", "evaluator"} /\ pc = "read" /\ buffer # Silent
  /\ output' = [row \in Rows |-> output[row] + buffer[row]]
  /\ buffer' = Silent
  /\ UNCHANGED <<follower, evaluation, environment, pc, pos, listed, mem, dirty, due, handled,
                 saved, passedOver, crashes>>

EndRead ==
  /\ pc = "read"
  /\ AtEnd(file, pos) \/ (~Whole(file, pos) /\ pos % 2 = 0 /\ Its.halves = "left")
  /\ \E seen \in Trimmed(mem.seen) : mem' = [mem EXCEPT !.offset = pos, !.seen = seen]
  /\ dirty' = (dirty \/ pos # mem.offset)
  /\ pc' = IF Its.writes = "buffered" THEN "write" ELSE "save"
  /\ pos' = 0
  /\ listed' = TRUE
  /\ UNCHANGED <<follower, evaluation, environment, buffer, due, handled, saved, output,
                 passedOver, crashes>>

Flush ==
  /\ pc = "write"
  /\ output' = [row \in Rows |-> output[row] + buffer[row]]
  /\ buffer' = Silent
  /\ pc' = "save"
  /\ UNCHANGED <<follower, evaluation, environment, pos, listed, mem, dirty, due, handled,
                 saved, passedOver, crashes>>

\* Mutant: the counters are saved without the ids and the offset.
SaveCountersOnly ==
  /\ pc = "save"
  /\ IF SavesNow THEN /\ saved' = [saved EXCEPT !.counted = mem.counted]
                      /\ dirty' = FALSE /\ due' = FALSE
     ELSE UNCHANGED <<saved, dirty, due>>
  /\ pc' = "idle"
  /\ UNCHANGED <<follower, evaluation, environment, pos, listed, mem, buffer, handled, output,
                 passedOver, crashes>>
Save ==
  /\ pc = "save"
  /\ IF SavesNow THEN saved' = mem /\ dirty' = FALSE /\ due' = FALSE
     ELSE UNCHANGED <<saved, dirty, due>>
  /\ pc' = "idle"
  /\ UNCHANGED <<follower, evaluation, environment, pos, listed, mem, buffer, handled, output,
                 passedOver, crashes>>

\* The checkpoint interval passes; it matters once there is something to save.
Elapse == /\ ~due /\ dirty /\ HasTimer
          /\ due' = TRUE
          /\ UNCHANGED <<follower, evaluation, environment, pc, pos, listed, mem, buffer, dirty,
                         handled, saved, output, passedOver, crashes>>

-----------------------------------------------------------------------------
(* Restarts *)

RestartFrom(state) ==
  /\ Faults < MaxFaults
  /\ crashes' = crashes + 1
  /\ saved' = state /\ mem' = state
  /\ buffer' = Silent
  /\ dirty' = FALSE
  /\ due' = (follower # "observations")
  /\ handled' = FALSE
  /\ pc' = "idle" /\ pos' = 0 /\ listed' = TRUE
  /\ UNCHANGED <<follower, evaluation, environment, output, passedOver>>

\* SIGTERM from the supervisor's trap: no finally block runs.
Crash == RestartFrom(saved)

\* An exception or an interrupt runs shadow_execution's finally: flush.
Abort == follower = "observations" /\ RestartFrom(IF dirty THEN mem ELSE saved)

-----------------------------------------------------------------------------
(* The engine and logrotate *)

OwnState == <<follower, evaluation, pc, pos, listed, mem, buffer, dirty, due, handled, saved,
              output, passedOver, crashes>>

Emit == /\ emitted < MaxLines /\ ~file.torn
        /\ \E row \in Rows :
             \/ file' = AppendLine(file, row) /\ UNCHANGED torns
             \/ /\ Faults < MaxFaults /\ torns' = torns + 1
                /\ file' = AppendHalf(file, row)
        /\ emitted' = emitted + 1
        /\ UNCHANGED <<OwnState, truncations, rotations>>

FinishHalf == /\ file.torn
              /\ file' = FinishLine(file)
              /\ UNCHANGED <<OwnState, emitted, torns, truncations, rotations>>

CopyTruncate == /\ Faults < MaxFaults /\ file.lines # <<>>
                /\ file' = Truncated(file)
                /\ rotations' = rotations + 1
                /\ truncations' = truncations + 1
                /\ UNCHANGED <<OwnState, emitted, torns>>

\* A reader keeps its handle on the old file, so it is not replaced under it.
Replace == /\ Faults < MaxFaults /\ file.lines # <<>> /\ pc # "read"
           /\ file' = Replaced(file)
           /\ rotations' = rotations + 1
           /\ UNCHANGED <<OwnState, emitted, torns, truncations>>

-----------------------------------------------------------------------------
Init ==
  /\ follower \in Followers
  /\ evaluation \in IF follower = "paired" THEN PairedEvaluations ELSE {<<>>}
  /\ file = EmptyFile(1) /\ emitted = 0 /\ torns = 0 /\ truncations = 0 /\ rotations = 0
  /\ pc = "idle" /\ pos = 0 /\ listed = TRUE
  /\ mem = Fresh /\ saved = Fresh /\ buffer = Silent /\ output = Silent
  /\ dirty = FALSE /\ handled = FALSE /\ due = (follower # "observations")
  /\ passedOver = {} /\ crashes = 0

Poll == StartPoll \/ ReadRow \/ SkipHalf \/ SkipRest \/ EndRead \/ Flush \/ Save
Next == \/ Poll \/ Spill \/ Elapse \/ Crash \/ Abort
        \/ Emit \/ FinishHalf \/ CopyTruncate \/ Replace

Spec == Init /\ [][Next]_vars

\* A running follower polls for ever, its interval timer runs, and the engine
\* ends the line it has begun.
FairSpec == Spec /\ WF_vars(Poll) /\ WF_vars(Elapse) /\ WF_vars(FinishHalf)

-----------------------------------------------------------------------------
(* Properties *)

TextReaders == {"observations", "maker", "evaluator", "verifier"}
Counters == {"observations", "panel", "report", "research", "paired"}

\* Memory and checkpoint have their types; the ids remembered between two polls
\* never exceed the window.
TypeOK ==
  /\ pc \in {"idle", "read", "write", "save"} /\ pos \in 0 .. 2 * MaxLines
  /\ mem.offset \in 0 .. 2 * MaxLines /\ saved.offset \in 0 .. 2 * MaxLines
  /\ mem.counted \in [Rows -> Nat] /\ saved.counted \in [Rows -> Nat]
  /\ Len(saved.seen) <= Window
  /\ pc # "read" => Len(mem.seen) <= Window
  /\ pc = "idle" => buffer = Silent

LinesBefore(offset) == {file.lines[i] : i \in {j \in DOMAIN file.lines : 2 * j <= offset}}
Written(row) == output[row] + buffer[row] > 0
Recorded(row) == IF follower \in TextReaders THEN output[row] > 0 ELSE mem.counted[row] > 0

\* The evaluator's throttle: an equal record, recent enough, is there instead.
Covered(row) ==
  /\ follower = "evaluator"
  /\ \E other \in Rows : /\ other.mark = row.mark /\ Written(other)
                         /\ row.ts - other.ts < Heartbeat

\* No more ids than are remembered have been handled: counted, written, or kept
\* from being written.
FewIds ==
  Cardinality({row \in Rows : mem.counted[row] > 0 \/ Written(row) \/ Covered(row)}) <= Window

\* Between polls every row before the offset has been recorded: the offset is
\* never ahead of the output or of the counts, whatever crashed in between and
\* whichever checkpoint the follower restarted from.  Only the text readers
\* lose rows, the ones they read half written or found no market for.  (A
\* truncated file that grew past the offset before the next poll is the known
\* exception: nothing tells it from the old one.)
NothingBehindOffset ==
  pc = "idle" /\ truncations = 0 /\ mem.inode = file.inode =>
    \A row \in LinesBefore(mem.offset) :
      \/ Recorded(row) \/ Covered(row)
      \/ follower \in TextReaders /\ row \in passedOver

\* A row is handled once.  The counters in memory and in the checkpoint count
\* each row at most once, whatever a crash, a throttled save or a flush on the
\* way out left behind; records are at-least-once, and written twice only after
\* a crash.
HandledOnce ==
  FewIds =>
    \A row \in Rows :
      /\ follower \in Counters => mem.counted[row] <= 1 /\ saved.counted[row] <= 1
      /\ follower \in {"observations", "maker", "evaluator"} /\ crashes = 0 =>
           output[row] + buffer[row] <= 1

\* The paired report's books balance: a tally accounts for every counted row
\* exactly once, as valid or under its reason, and the runs it reports, closed
\* and open, hold every counted opportunity with a time of their market exactly
\* once between ends that are themselves opportunities (_consume_row,
\* _extend_run, _close_run, report).
RunsHoldOpportunities ==
  follower = "paired" /\ (\A row \in Rows : mem.counted[row] <= 1) =>
    LET tally   == mem.tally
        counted == {row \in Rows : mem.counted[row] = 1}
        hits    == {row \in counted : Opportunity(evaluation[row])}
        timed   == {row \in hits : evaluation[row].ts > 0}
        reported == ReportedCompleted(tally) \cup ReportedOpen(tally)
        at(row, run) == /\ evaluation[row].market = run.market
                        /\ run.start <= evaluation[row].ts /\ evaluation[row].ts <= run.end
    IN  /\ tally.total = Cardinality(counted)
        /\ tally.total = tally.valid + SumFunction(tally.excluded)
        /\ tally.opportunities = Cardinality(hits)
        /\ Cardinality(timed) =
             SumFunction([i \in DOMAIN tally.runs |-> tally.runs[i].events]) +
             SumFunction([market \in Markets |-> tally.open[market].events])
        /\ \A row \in timed : \E run \in reported : at(row, run)
        /\ \A run \in reported : \A end \in {run.start, run.end} :
             \E row \in timed : evaluation[row].ts = end /\ at(row, run)

\* A run the paired report has given as completed stays as it was given, as
\* long as rows arrive in the order of their times: a quiet market's next
\* opportunity opens a new run, it does not revive the old one.
CompletedIsFinal ==
  [][LET row == LineAt(file, pos)
     IN  follower = "paired" /\ mem'.counted # mem.counted /\ crashes' = crashes
           /\ pc = "read" /\ evaluation[row].ts >= mem.tally.last =>
         ReportedCompleted(mem.tally) \subseteq ReportedCompleted(mem'.tally)]_vars

\* A follower that runs reaches the end of the file again and again, and what
\* it has read reaches the checkpoint, except for the panel and the report,
\* whose throttled save is not retried until the file changes, and for the
\* research report's new start in a rotated file, which it does not save before
\* it has read a row there.
CatchesUp ==
  /\ []<>(pc = "idle" /\ mem.offset = Size(file))
  /\ []<>(\/ follower \in {"panel", "report"}
          \/ follower = "research" /\ rotations > 0
          \/ pc = "idle" /\ saved.offset = mem.offset)
===============================================================================
