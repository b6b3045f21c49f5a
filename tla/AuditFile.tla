------------------------------ MODULE AuditFile ------------------------------
(***************************************************************************)
(* The append-only JSONL files (logs/shadow-audit.jsonl,                   *)
(* logs/strategy-audit.jsonl) as the processes that follow them see them.  *)
(* A file is a record of its inode, its lines and whether the last line is *)
(* only half written.  Positions are counted in half lines, so that a      *)
(* follower can stop inside a line the writer has not finished.            *)
(***************************************************************************)
EXTENDS Naturals, Sequences

CONSTANT NoFile      \* the identity a follower has recorded before it ever polled

EmptyFile(inode) == [inode |-> inode, lines |-> <<>>, torn |-> FALSE]

Size(f) == 2 * Len(f.lines) - (IF f.torn THEN 1 ELSE 0)

\* The writer's flush may end inside a line; its next flush completes it.
AppendLine(f, row) == [f EXCEPT !.lines = Append(@, row)]
AppendHalf(f, row) == [f EXCEPT !.lines = Append(@, row), !.torn = TRUE]
FinishLine(f)      == [f EXCEPT !.torn = FALSE]

\* logrotate's copytruncate keeps the inode; a replaced file has a new one.
Truncated(f) == EmptyFile(f.inode)
Replaced(f)  == EmptyFile(f.inode + 1)

\* Mutant: a shorter file is not noticed.
StartAtByIdentity(f, offset, identity) ==
  IF identity \notin {NoFile, f.inode} THEN 0 ELSE offset
\* Where a follower with this saved offset and identity starts to read.
StartAt(f, offset, identity) ==
  IF identity \notin {NoFile, f.inode} \/ Size(f) < offset THEN 0 ELSE offset

AtEnd(f, pos) == pos >= Size(f)

\* readline() at pos returns a line that parses: it starts at a boundary and
\* its second half is there.  Everything else is skipped as invalid JSON.
Whole(f, pos)   == pos % 2 = 0 /\ pos + 2 <= Size(f)
LineAt(f, pos)  == f.lines[pos \div 2 + 1]
AfterLine(f, pos) == IF Whole(f, pos) THEN pos + 2 ELSE pos + 1
==============================================================================
