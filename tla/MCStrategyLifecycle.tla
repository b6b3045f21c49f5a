------------------------- MODULE MCStrategyLifecycle -------------------------
EXTENDS StrategyLifecycle

Blank == [id |-> "", type |-> "eval", strategy |-> "directional", market |-> "m1",
          outcome |-> "Up", accept |-> FALSE, predicts |-> FALSE, size |-> 3, cost |-> 2,
          hedge |-> 0, hold |-> 2, proceeds |-> 0, locked |-> 0, up |-> 0, down |-> 0,
          ts |-> 0]

Entry  == [Blank EXCEPT !.id = "e1", !.accept = TRUE, !.predicts = TRUE]
Again  == [Blank EXCEPT !.id = "e3", !.market = "m2", !.accept = TRUE]
Exit   == [Blank EXCEPT !.id = "x1", !.predicts = TRUE, !.proceeds = 4]
Hedge  == [Blank EXCEPT !.id = "h1", !.type = "hedged", !.market = "m2",
                        !.accept = TRUE, !.hedge = 1]
Lot    == [Blank EXCEPT !.id = "l1", !.strategy = "lottery", !.market = "m2",
                        !.outcome = "Down", !.accept = TRUE, !.cost = 1]
Paired == [Blank EXCEPT !.id = "p1", !.type = "paired", !.strategy = "paired",
                        !.outcome = "Both", !.accept = TRUE]
Split  == [Blank EXCEPT !.id = "s1", !.type = "split", !.locked = 1]
Hold   == [Blank EXCEPT !.id = "i1", !.type = "inventory_eval", !.up = 1, !.cost = 1]
Lock   == [Blank EXCEPT !.id = "i2", !.type = "inventory_action", !.accept = TRUE,
                        !.locked = 1, !.down = 1, !.cost = 1]
Flat   == [Blank EXCEPT !.id = "i3", !.type = "inventory_action", !.accept = TRUE,
                        !.locked = 1]
Quote  == [Blank EXCEPT !.id = "q1", !.type = "maker"]

PositionRows  == {Entry, Again, Exit}
AllRows       == {Entry, Exit, Hedge, Lot, Paired, Split, Hold, Lock, Quote}
CrashRows     == {Entry, Exit}

MarketSet == {"m1", "m2"}
AllListed == {MarketSet}
CloseTimes == [m \in MarketSet |-> 1]
LimitTable == [strategy \in Probability |->
                 [size |-> 3, open |-> 2, close |-> 1, notional |-> 3, daily |-> 2, streak |-> 2]]
==============================================================================
