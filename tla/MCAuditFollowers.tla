--------------------------- MODULE MCAuditFollowers ---------------------------
EXTENDS AuditFollowers

First  == [id |-> 1, mark |-> "reject", ts |-> 1]
Repeat == [id |-> 2, mark |-> "reject", ts |-> 3]
Turn   == [id |-> 3, mark |-> "accept", ts |-> 3]
MCRows == {First, Repeat, Turn}

\* Paired-lock evaluations that cost 0.98 or 1.005 a share, or miss a number or a time.
Lock(row, market) ==
  [accepted |-> FALSE, ts |-> row.ts, market |-> market, seconds |-> 30,
   fills |-> 10, vwap |-> 97, gross |-> 970, net |-> 980]
Steady == [row \in MCRows |-> Lock(row, "a")]
Two    == [Steady EXCEPT ![Repeat].market = "b"]
Late   == [Steady EXCEPT ![Repeat].seconds = 10]
Poor   == [Steady EXCEPT ![First].net = 1005, ![Repeat].fills = 0, ![Turn].gross = 0]
Timeless == [Two EXCEPT ![Turn].ts = 0]
MCEvaluations == {Steady, Two, Late, Poor, Timeless}
===============================================================================
