-------------------------- MODULE MCMakerAccumulate --------------------------
(***************************************************************************)
(* Values of the constants of MakerAccumulate for TLC.  One tick is four   *)
(* price units, so that the half-tick buffer and margins of the default    *)
(* configuration keep their proportions and the gas allowance is non-zero. *)
(***************************************************************************)
EXTENDS MakerAccumulate, TLC

Side(bid, ask, size) == [bid |-> bid, ask |-> ask, askSize |-> size]
Pair(up, down) == [o \in Outcomes |-> IF o = "Up" THEN up ELSE down]

\* Both first legs can be quoted, and both orders clear the margins.
Calm == Pair(Side(12, 20, 3), Side(16, 24, 3))
\* The Up ask falls through a quoted first leg, one share deep, while the
\* other side rises: neither a maker pair nor a hedge is left.
Dip == Pair(Side(8, 12, 1), Side(20, 28, 3))
\* The same fall at full depth with the other side unmoved, and with a wide
\* other side whose first quote has room to be improved.
Sell == Pair(Side(8, 12, 3), Side(16, 24, 3))
Wide == Pair(Side(8, 12, 3), Side(8, 24, 3))
\* The Down ask falls through a quote, one share deep.
Rally == Pair(Side(20, 24, 3), Side(8, 16, 1))
\* The Up side collapses.
Crash == Pair(Side(0, 4, 3), Side(32, 36, 3))
\* The Down ask falls at full depth: a hedge or a whole second leg.
Cheap == Pair(Side(12, 20, 3), Side(8, 16, 3))
\* A bid view older than the ask it is paired with: the bid is above it.
Crossed == Pair(Side(20, 16, 3), Side(12, 20, 3))

MCBookPairs == {Calm, Dip, Sell, Wide, Rally, Crash, Cheap}
MCSessionPairs == {Calm, Sell, Cheap, Dip}
MCRiskPairs == {Calm, Sell, Crash}
MCCrossedPairs == {Calm, Sell, Crossed}

MCBindings == {<<1, 1>>, <<1, 2>>, <<2, 1>>}
MCTwoBindings == {<<1, 1>>, <<2, 1>>}
MCOneBinding == {<<1, 1>>}

MCCloseTime == [c \in Conditions |-> 8]
MCShortCloseTime == [c \in Conditions |-> 5]
MCLongCloseTime == [c \in Conditions |-> 10]
MCSymmetry == Permutations(Conditions)
MCMinHedgeExitMargin == -4

=============================================================================
