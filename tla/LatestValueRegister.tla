------------------------- MODULE LatestValueRegister -------------------------
(***************************************************************************)
(* What the reference channel promises its consumers: one producer writes  *)
(* a register with ever newer frames, across its own restarts too, and     *)
(* each consumer sees some of them, never an older one after a newer one   *)
(* and never one that was not produced yet.  Frames may be skipped.        *)
(***************************************************************************)
EXTENDS Integers

CONSTANT Clients

VARIABLES
  produced,        \* the newest frame the producer made
  seen             \* per consumer, the newest frame delivered to it

\* A frame is named by its producer session and its sequence number there.
Frame == [session : Nat, sequence : Nat]
NoFrame == [session |-> 0, sequence |-> 0]

Newer(f, g) ==
  f.session > g.session \/ (f.session = g.session /\ f.sequence > g.sequence)

Init ==
  /\ produced = NoFrame
  /\ seen = [c \in Clients |-> NoFrame]

Produce ==
  /\ produced' \in Frame
  /\ Newer(produced', produced)
  /\ UNCHANGED seen

Observe(c) ==
  /\ seen'[c] \in Frame
  /\ Newer(seen'[c], seen[c])
  /\ ~ Newer(seen'[c], produced)
  /\ seen' = [seen EXCEPT ![c] = seen'[c]]
  /\ UNCHANGED produced

Next == Produce \/ \E c \in Clients : Observe(c)

Spec == Init /\ [][Next]_<<produced, seen>>

=============================================================================
