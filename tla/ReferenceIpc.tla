---------------------------- MODULE ReferenceIpc ----------------------------
(***************************************************************************)
(* The latest-value channel that carries reference snapshots from          *)
(* reference_price_engine to market_ws_engine over a Unix stream socket:   *)
(* publish_ipc_locked and LatestValueServer on one side, LatestValueClient *)
(* and the engine's reference_snapshot_ on the other.                      *)
(*                                                                         *)
(* A frame is a complete snapshot; the channel never tells its contents    *)
(* apart, so a frame is its producer session and its sequence number.      *)
(* Sessions are only compared for equality by the code; the model numbers  *)
(* them in the order in which the producers were started.                  *)
(*                                                                         *)
(* The server sends a client its newest frame and keeps one more, the      *)
(* newest, while a write is under way.  The client delivers the newest     *)
(* frame it has read a coalescing window later, rejects a frame that does  *)
(* not advance its session, and reconnects after every error.              *)
(***************************************************************************)
EXTENDS Integers, Sequences

CONSTANTS
  Clients,         \* client objects; each market_ws_engine session has one
  MaxSequence,     \* bound on the frames of one producer session
  MaxSessions,     \* bound on producer starts
  MaxBreaks,       \* bound on connection errors with both ends alive
  WireCapacity     \* frames the socket buffers hold

ASSUME BoundAssumption ==
  /\ MaxSequence \in Nat /\ MaxSessions \in Nat /\ MaxBreaks \in Nat
  /\ WireCapacity \in Nat \ {0}

VARIABLES
  up,              \* the producer process runs
  session,         \* producer_session of its newest start
  sequence,        \* ipc_sequence
  throttled,       \* the publish interval since the last frame has not passed
  handled,         \* sequence of latest_frame_; the publish handlers of the
                   \* frames handled+1 .. sequence are posted, in this order
  breaks           \* connection errors so far

VARIABLES          \* per client, its connection
  link,            \* where the server side of the connection stands
  active,          \* active_frame_ of the server's Client; NoFrame: not writing
  pending,         \* pending_frame_
  wire             \* frames written and not read yet

VARIABLES          \* per client, LatestValueClient and its user
  phase,           \* which handler the client waits for
  accepted,        \* producer_session_ and sequence_
  latest,          \* latest_snapshot_
  scheduled,       \* delivery_scheduled_
  timer,           \* the delivery timer is armed
  view,            \* the engine's reference_snapshot_
  aged             \* every source of that snapshot is past its maximum age

producer == <<up, session, sequence, throttled, handled>>
server == <<link, active, pending, wire>>
delivery == <<latest, scheduled, timer, view, aged>>
client == <<phase, accepted, delivery>>
vars == <<producer, breaks, server, client>>

\* The abstract register this channel implements: what was produced is the
\* newest frame published, what a consumer has seen is the engine's snapshot.
Register == INSTANCE LatestValueRegister WITH
  produced <- [session |-> session, sequence |-> sequence],
  seen <- view

Frame == [session : Nat, sequence : Nat]
NoFrame == [session |-> 0, sequence |-> 0]
Newer(f, g) ==
  f.session > g.session \/ (f.session = g.session /\ f.sequence > g.sequence)

\* "none": the client has no connection; "backlog": it connected and was not
\* accepted yet; "open": accepted; "lost": the server side is gone, what was
\* written can still be read.
Links == {"none", "backlog", "open", "lost"}

\* "new": not started; "connecting": async_connect; "reading": connected_ and
\* async_read_some; "waiting": the reconnect timer; "aborting": stopped while
\* the aborted read is still to be handled; "stopped".
Phases == {"new", "connecting", "reading", "waiting", "aborting", "stopped"}

Produced == [session |-> session, sequence |-> sequence]
LatestFrame ==
  IF handled = 0 THEN NoFrame ELSE [session |-> session, sequence |-> handled]

Connected(c) == phase[c] = "reading"

-----------------------------------------------------------------------------
(* The producer: reference_price_engine.                                   *)

Init ==
  /\ up = FALSE /\ session = 0 /\ sequence = 0 /\ throttled = FALSE
  /\ handled = 0 /\ breaks = 0
  /\ link = [c \in Clients |-> "none"]
  /\ active = [c \in Clients |-> NoFrame]
  /\ pending = [c \in Clients |-> NoFrame]
  /\ wire = [c \in Clients |-> <<>>]
  /\ phase = [c \in Clients |-> "new"]
  /\ accepted = [c \in Clients |-> NoFrame]
  /\ latest = [c \in Clients |-> NoFrame]
  /\ scheduled = [c \in Clients |-> FALSE]
  /\ timer = [c \in Clients |-> FALSE]
  /\ view = [c \in Clients |-> NoFrame]
  /\ aged = [c \in Clients |-> FALSE]

\* Mutant: a restarted producer takes its old session name.
SameSession == session
\* Every start takes a new session name from the steady clock.
NewSession == session + 1

\* main up to and including the first, forced publication.
StartProducer ==
  /\ ~ up /\ session < MaxSessions
  /\ up' = TRUE /\ session' = NewSession
  /\ sequence' = 1 /\ handled' = 0 /\ throttled' = TRUE
  /\ UNCHANGED <<breaks, server, client>>

\* The process dies: its posted handlers, its newest frame and what it had
\* not written are gone; what it had written can still be read.
Crash ==
  /\ up
  /\ up' = FALSE /\ handled' = 0 /\ throttled' = FALSE
  /\ link' = [c \in Clients |-> IF link[c] = "none" THEN "none" ELSE "lost"]
  /\ active' = [c \in Clients |-> NoFrame]
  /\ pending' = [c \in Clients |-> NoFrame]
  /\ UNCHANGED <<session, sequence, breaks, wire, client>>

\* publish_ipc_locked past its early return: the frame is numbered and its
\* handler is posted to the publisher thread.
Publish ==
  /\ up /\ sequence < MaxSequence
  /\ sequence' = sequence + 1 /\ throttled' = TRUE
  /\ UNCHANGED <<up, session, handled, breaks, server, client>>

\* publish and publish_anchor: a price or an opening anchor came in.  Within
\* the publish interval no frame is made.
Update == ~ throttled /\ Publish

\* publish_settlement and set_connected publish in any case.
ForcedUpdate == Publish

IntervalElapses ==
  /\ throttled
  /\ throttled' = FALSE
  /\ UNCHANGED <<up, session, sequence, handled, breaks, server, client>>

-----------------------------------------------------------------------------
(* The server: LatestValueServer.                                          *)

\* Mutant: a handler runs without a frame posted for it.
AlwaysPosted == up
HandlerPosted == handled < sequence

\* Mutant: of two frames that wait for a write the older is kept.
OlderWaiting(waiting, f) == IF waiting = NoFrame THEN f ELSE waiting
\* The frame that waits for the write under way is replaced by a newer one.
NewestWaiting(waiting, f) == f

\* The handler of LatestValueServer::publish: every connection is sent the
\* frame (Client::send).
HandlePublish ==
  LET f == [session |-> session, sequence |-> handled + 1]
  IN  /\ up /\ HandlerPosted
      /\ handled' = handled + 1
      /\ active' = [c \in Clients |->
           IF link[c] = "open" /\ active[c] = NoFrame THEN f ELSE active[c]]
      /\ pending' = [c \in Clients |->
           IF link[c] = "open" /\ active[c] # NoFrame
           THEN NewestWaiting(pending[c], f) ELSE pending[c]]
      /\ UNCHANGED <<up, session, sequence, throttled, breaks, link, wire, client>>

\* The handler of async_accept: the newest frame, if any, is sent at once.
Accept(c) ==
  /\ up /\ link[c] = "backlog"
  /\ link' = [link EXCEPT ![c] = "open"]
  /\ active' = [active EXCEPT ![c] = LatestFrame]
  /\ UNCHANGED <<producer, breaks, pending, wire, client>>

\* async_write is done and its handler starts the next write, if one waits.
WriteDone(c) ==
  /\ up /\ link[c] = "open" /\ active[c] # NoFrame
  /\ Len(wire[c]) < WireCapacity
  /\ wire' = [wire EXCEPT ![c] = Append(@, active[c])]
  /\ active' = [active EXCEPT ![c] = pending[c]]
  /\ pending' = [pending EXCEPT ![c] = NoFrame]
  /\ UNCHANGED <<producer, breaks, link, client>>

\* The connection fails with both ends alive; what was in flight may be lost.
\* The server removes its Client when its next write fails.
Break(c) ==
  /\ link[c] \in {"backlog", "open"} /\ breaks < MaxBreaks
  /\ breaks' = breaks + 1
  /\ link' = [link EXCEPT ![c] = "lost"]
  /\ \E w \in {wire[c], <<>>} : wire' = [wire EXCEPT ![c] = w]
  /\ active' = [active EXCEPT ![c] = NoFrame]
  /\ pending' = [pending EXCEPT ![c] = NoFrame]
  /\ UNCHANGED <<producer, client>>

-----------------------------------------------------------------------------
(* The client: LatestValueClient.                                          *)

Goto(c, p) == phase' = [phase EXCEPT ![c] = p]

\* start and connect
StartClient(c) ==
  /\ phase[c] = "new"
  /\ Goto(c, "connecting")
  /\ UNCHANGED <<producer, breaks, server, accepted, delivery>>

\* The handler of async_connect; a listening server takes the connection.
Connect(c) ==
  /\ phase[c] = "connecting" /\ up
  /\ Goto(c, "reading")
  /\ link' = [link EXCEPT ![c] = "backlog"]
  /\ UNCHANGED <<producer, breaks, active, pending, wire, accepted, delivery>>

ConnectFails(c) ==
  /\ phase[c] = "connecting" /\ ~ up
  /\ Goto(c, "waiting")
  /\ UNCHANGED <<producer, breaks, server, accepted, delivery>>

\* The reconnect timer fires.
Reconnect(c) ==
  /\ phase[c] = "waiting"
  /\ Goto(c, "connecting")
  /\ UNCHANGED <<producer, breaks, server, accepted, delivery>>

\* The socket is closed.  The server's Client of a closed connection only
\* writes to that connection until it fails, so it is dropped here.
CloseSocket(c) ==
  /\ link' = [link EXCEPT ![c] = "none"]
  /\ active' = [active EXCEPT ![c] = NoFrame]
  /\ pending' = [pending EXCEPT ![c] = NoFrame]
  /\ wire' = [wire EXCEPT ![c] = <<>>]

\* Mutant: the flag survives the timer it stands for.
CancelTimer(c) ==
  /\ timer' = [timer EXCEPT ![c] = FALSE]
  /\ UNCHANGED scheduled
CancelDelivery(c) ==
  /\ timer' = [timer EXCEPT ![c] = FALSE]
  /\ scheduled' = [scheduled EXCEPT ![c] = FALSE]

\* deliver_latest: on_reference_snapshot replaces the engine's snapshot.
DeliverLatest(c) ==
  IF latest[c] = NoFrame
  THEN UNCHANGED <<view, aged>>
  ELSE /\ view' = [view EXCEPT ![c] = latest[c]]
       /\ aged' = [aged EXCEPT ![c] = FALSE]

DropLatest(c) == latest' = [latest EXCEPT ![c] = NoFrame]

\* Mutant: a failed read only cancels the delivery.
FlushNothing(c) == CancelDelivery(c) /\ UNCHANGED <<view, aged>>
\* flush_latest: a failed read delivers without waiting for the timer.
FlushLatest(c) == CancelDelivery(c) /\ DeliverLatest(c)

\* Mutant: sequences of different sessions are compared.
RollbackOfAnySession(f, last) == f.sequence <= last.sequence
\* A frame of the session last read from that does not advance it.
Rollback(f, last) == f.session = last.session /\ f.sequence <= last.sequence

\* consume_bytes reads a complete frame and schedules its delivery.
ReadFrame(c) ==
  LET f == Head(wire[c])
  IN  /\ Connected(c) /\ wire[c] # <<>>
      /\ ~ Rollback(f, accepted[c])
      /\ wire' = [wire EXCEPT ![c] = Tail(@)]
      /\ accepted' = [accepted EXCEPT ![c] = f]
      /\ latest' = [latest EXCEPT ![c] = f]
      /\ scheduled' = [scheduled EXCEPT ![c] = TRUE]
      /\ timer' = [timer EXCEPT ![c] = timer[c] \/ ~ scheduled[c]]
      /\ UNCHANGED <<producer, breaks, link, active, pending, phase, view, aged>>

\* consume_bytes reads a frame it cannot trust: disconnect_and_reconnect.
RejectFrame(c) ==
  /\ Connected(c) /\ wire[c] # <<>>
  /\ Rollback(Head(wire[c]), accepted[c])
  /\ Goto(c, "waiting")
  /\ CloseSocket(c) /\ CancelDelivery(c) /\ DropLatest(c)
  /\ UNCHANGED <<producer, breaks, accepted, view, aged>>

\* The read fails after everything written was read: the newest frame is
\* flushed before the client disconnects.
ReadError(c) ==
  /\ Connected(c) /\ link[c] = "lost" /\ wire[c] = <<>>
  /\ FlushLatest(c) /\ DropLatest(c)
  /\ Goto(c, "waiting")
  /\ CloseSocket(c)
  /\ UNCHANGED <<producer, breaks, accepted>>

\* The delivery timer fires.
DeliveryDue(c) ==
  /\ Connected(c) /\ timer[c]
  /\ CancelDelivery(c)
  /\ DeliverLatest(c) /\ DropLatest(c)
  /\ UNCHANGED <<producer, breaks, server, phase, accepted>>

\* stop, called when the engine session fails.
StopClient(c) ==
  /\ phase[c] \in {"connecting", "reading", "waiting"}
  /\ Goto(c, IF Connected(c) THEN "aborting" ELSE "stopped")
  /\ CloseSocket(c)
  /\ timer' = [timer EXCEPT ![c] = FALSE]
  /\ UNCHANGED <<producer, breaks, accepted, latest, scheduled, view, aged>>

\* The aborted read of a stopped client still flushes its newest frame.
ReadAborted(c) ==
  /\ phase[c] = "aborting"
  /\ Goto(c, "stopped")
  /\ FlushLatest(c) /\ DropLatest(c)
  /\ UNCHANGED <<producer, breaks, server, accepted>>

\* Time passes and every source of the engine's snapshot becomes stale.
ViewAges(c) ==
  /\ view[c] # NoFrame /\ ~ aged[c]
  /\ aged' = [aged EXCEPT ![c] = TRUE]
  /\ UNCHANGED <<producer, breaks, server, phase, accepted, latest, scheduled,
                 timer, view>>

ClientStep(c) ==
  \/ StartClient(c) \/ Connect(c) \/ ConnectFails(c) \/ Reconnect(c)
  \/ ReadFrame(c) \/ RejectFrame(c) \/ ReadError(c) \/ DeliveryDue(c)
  \/ StopClient(c) \/ ReadAborted(c) \/ ViewAges(c)

Next ==
  \/ StartProducer \/ Crash \/ Update \/ ForcedUpdate \/ IntervalElapses
  \/ HandlePublish
  \/ \E c \in Clients : Accept(c) \/ WriteDone(c) \/ Break(c) \/ ClientStep(c)

Spec == Init /\ [][Next]_vars

-----------------------------------------------------------------------------
(* Type invariant.                                                         *)

\* Every variable keeps its type, and no handler runs for a frame that was
\* not published.
TypeOK ==
  /\ up \in BOOLEAN /\ throttled \in BOOLEAN
  /\ session \in Nat /\ sequence \in Nat
  /\ handled \in 0 .. sequence
  /\ breaks \in Nat
  /\ link \in [Clients -> Links]
  /\ active \in [Clients -> Frame] /\ pending \in [Clients -> Frame]
  /\ wire \in [Clients -> Seq(Frame)]
  /\ phase \in [Clients -> Phases]
  /\ accepted \in [Clients -> Frame] /\ latest \in [Clients -> Frame]
  /\ scheduled \in [Clients -> BOOLEAN] /\ timer \in [Clients -> BOOLEAN]
  /\ view \in [Clients -> Frame] /\ aged \in [Clients -> BOOLEAN]

-----------------------------------------------------------------------------
(* Safety.                                                                 *)

\* The channel implements the register: across reconnects, producer restarts
\* and dropped frames the engine's snapshot only moves forward, and never
\* past what was published.
ImplementsRegister == Register!Spec

\* A frame the client has accepted is in the engine or on its way there,
\* whatever error, rejection or stop comes between reading and delivering it:
\* sequence_ would otherwise make the client reject the frame it has lost.
AcceptedNeverLost ==
  \A c \in Clients : accepted[c] \in {latest[c], view[c]}

\* When the connection is quiet, nothing posted, written or buffered, the
\* client has the newest frame: coalescing only ever drops older ones.
QuietMeansCurrent ==
  \A c \in Clients :
    ( /\ up /\ handled = sequence
      /\ link[c] = "open" /\ active[c] = NoFrame /\ wire[c] = <<>> ) =>
      accepted[c] = Produced

\* A frame that waits for the coalescing window has its timer armed: the flag
\* that suppresses a second timer never stands for none.
AcceptedIsScheduled ==
  \A c \in Clients :
    Connected(c) /\ latest[c] # NoFrame => scheduled[c] /\ timer[c]

-----------------------------------------------------------------------------
(* What the design document says and the code does not do.                 *)

\* The latest frame sent on connecting is taken by the client: it does not
\* end the connection it came on.
ConnectReceivesLatest ==
  [][\A c \in Clients : ~ RejectFrame(c)]_vars

\* When the connection is lost the directional strategies have no reference
\* snapshot to trade on (evaluate_reference_strategies only asks for a
\* snapshot, and build_reference_view for its age).
Usable(c) ==
  /\ phase[c] \notin {"aborting", "stopped"}
  /\ view[c] # NoFrame /\ ~ aged[c]
FailsClosed == \A c \in Clients : Usable(c) => Connected(c)

-----------------------------------------------------------------------------
(* Liveness.  The handlers of a running io_context are run, a connection   *)
(* that can be made is made, and timers fire.  Nothing obliges the         *)
(* producer to publish, to start or to crash, a connection to break, or    *)
(* the engine to start or to stop its client.                              *)

Fairness ==
  /\ WF_vars(HandlePublish)
  /\ \A c \in Clients :
       /\ WF_vars(Accept(c)) /\ WF_vars(WriteDone(c))
       /\ WF_vars(Connect(c)) /\ WF_vars(ConnectFails(c))
       /\ WF_vars(Reconnect(c))
       /\ WF_vars(ReadFrame(c) \/ RejectFrame(c) \/ ReadError(c))
       /\ WF_vars(DeliveryDue(c))

FairSpec == Spec /\ Fairness

Running(c) == phase[c] \in {"connecting", "reading", "waiting"}

\* Every frame a running producer publishes, or a newer one, reaches the
\* engine of every running client, through lost connections too.
ConsumersCatchUp ==
  \A c \in Clients, s \in 1 .. MaxSessions, n \in 1 .. MaxSequence :
    LET f == [session |-> s, sequence |-> n]
    IN  up /\ Produced = f /\ Running(c) ~>
          \/ ~ up \/ session # s \/ ~ Running(c)
          \/ ~ Newer(f, view[c])

=============================================================================
