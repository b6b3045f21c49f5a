------------------------- MODULE ReferenceIpcProofs -------------------------
(***************************************************************************)
(* Proofs about the reference snapshot channel, for any number of clients  *)
(* and every bound: its inductive invariant, the safety properties, and    *)
(* that it implements LatestValueRegister.                                 *)
(*                                                                         *)
(* The argument follows a frame down the channel: what the client has      *)
(* accepted, what is buffered on the wire, what is being written, what     *)
(* waits, and what the producer has published are in this order, and one   *)
(* connection only ever carries frames of one producer session.            *)
(***************************************************************************)
EXTENDS ReferenceIpc, TLAPS

\* The newest frame any connection can have been sent.
Limit == [session |-> session, sequence |-> IF up THEN handled ELSE sequence]

\* A running producer has published its first frame.
ProducerOK == up => sequence >= 1

\* What the phase of a client says about its connection and its timer.
PhaseOK(c) ==
  /\ phase[c] = "reading" =>
       /\ link[c] # "none"
       /\ scheduled[c] = (latest[c] # NoFrame)
       /\ timer[c] = scheduled[c]
  /\ phase[c] # "reading" => link[c] = "none"
  /\ phase[c] \in {"new", "connecting", "waiting"} =>
       latest[c] = NoFrame /\ ~ scheduled[c] /\ ~ timer[c]

\* What the state of a connection says about what it carries.
LinkOK(c) ==
  /\ link[c] # "open" => active[c] = NoFrame /\ pending[c] = NoFrame
  /\ link[c] = "open" => up
  /\ link[c] \in {"none", "backlog"} => wire[c] = <<>>
  /\ link[c] = "backlog" => latest[c] = NoFrame

\* The accepted frame is in the engine, or is the one to be delivered, which
\* is newer than the engine's.
DeliveryOK(c) ==
  /\ ~ Newer(accepted[c], Limit)
  /\ latest[c] = NoFrame => view[c] = accepted[c]
  /\ latest[c] # NoFrame =>
       latest[c] = accepted[c] /\ Newer(accepted[c], view[c])

\* The frames on the wire are of one session, which is not older than the
\* accepted one, and in order; none was accepted if one is still undelivered.
WireOK(c) ==
  /\ \A i \in 1 .. Len(wire[c]) :
       /\ wire[c][i].sequence > 0
       /\ wire[c][i].session >= accepted[c].session
       /\ ~ Newer(wire[c][i], Limit)
       /\ link[c] = "open" => wire[c][i].session = session
       /\ latest[c] # NoFrame => Newer(wire[c][i], accepted[c])
  /\ \A i, j \in 1 .. Len(wire[c]) :
       /\ wire[c][i].session = wire[c][j].session
       /\ i < j => wire[c][i].sequence < wire[c][j].sequence

\* The frame being written is newer than the wire, the waiting one newer yet.
QueueOK(c) ==
  /\ active[c] # NoFrame =>
       /\ active[c].session = session
       /\ 0 < active[c].sequence /\ active[c].sequence <= handled
       /\ \A i \in 1 .. Len(wire[c]) :
            wire[c][i].sequence < active[c].sequence
       /\ latest[c] # NoFrame => Newer(active[c], accepted[c])
  /\ pending[c] # NoFrame =>
       /\ active[c] # NoFrame
       /\ pending[c].session = session
       /\ active[c].sequence < pending[c].sequence
       /\ pending[c].sequence <= handled

\* The last frame of an open connection is the server's newest one.
TailOK(c) ==
  link[c] = "open" /\ handled > 0 =>
    /\ pending[c] # NoFrame => pending[c].sequence = handled
    /\ pending[c] = NoFrame /\ active[c] # NoFrame =>
         active[c].sequence = handled
    /\ active[c] = NoFrame /\ wire[c] # <<>> =>
         wire[c][Len(wire[c])].sequence = handled
    /\ active[c] = NoFrame /\ wire[c] = <<>> =>
         accepted[c].session = session /\ accepted[c].sequence = handled

ChannelOK(c) ==
  PhaseOK(c) /\ LinkOK(c) /\ DeliveryOK(c) /\ WireOK(c) /\ QueueOK(c)
    /\ TailOK(c)

\* The inductive invariant.
IInv == TypeOK /\ ProducerOK /\ \A c \in Clients : ChannelOK(c)

-----------------------------------------------------------------------------
(* Frames and sequences of frames.                                         *)

\* A frame is its session and its sequence.
LEMMA FrameEq ==
  ASSUME NEW f \in Frame, NEW g \in Frame,
         f.session = g.session, f.sequence = g.sequence
  PROVE  f = g
BY DEF Frame

\* NoFrame is the frame numbered zero of session zero.
LEMMA NoFrameType == NoFrame \in Frame /\ NoFrame.sequence = 0 /\ NoFrame.session = 0
BY DEF Frame, NoFrame

\* Writing a frame puts it behind the others.
LEMMA AppendFrame ==
  ASSUME NEW w \in Seq(Frame), NEW f \in Frame
  PROVE  /\ Append(w, f) \in Seq(Frame)
         /\ Append(w, f) # <<>>
         /\ Len(Append(w, f)) = Len(w) + 1
         /\ \A i \in 1 .. Len(w) : Append(w, f)[i] = w[i]
         /\ Append(w, f)[Len(w) + 1] = f
OBVIOUS

\* Reading a frame takes the first.
LEMMA TailFrame ==
  ASSUME NEW w \in Seq(Frame), w # <<>>
  PROVE  /\ Len(w) \in Nat \ {0}
         /\ Head(w) = w[1]
         /\ w[1] \in Frame
         /\ Tail(w) \in Seq(Frame)
         /\ Len(Tail(w)) = Len(w) - 1
         /\ \A i \in 1 .. Len(w) - 1 : Tail(w)[i] = w[i + 1]
OBVIOUS

\* A frame on the wire is a frame.
LEMMA WireFrame ==
  ASSUME NEW w \in Seq(Frame), NEW i \in 1 .. Len(w)
  PROVE  w[i] \in Frame /\ w # <<>>
OBVIOUS

-----------------------------------------------------------------------------
(* Types.                                                                  *)

LEMMA TypeInit == Init => TypeOK
<1> SUFFICES ASSUME Init PROVE TypeOK
  OBVIOUS
<1>1. <<>> \in Seq(Frame)
  OBVIOUS
<1>2. handled \in 0 .. sequence /\ session \in Nat /\ sequence \in Nat /\ breaks \in Nat
  BY DEF Init
<1>3. link \in [Clients -> Links] /\ phase \in [Clients -> Phases]
  BY DEF Init, Links, Phases
<1> QED
  BY <1>1, <1>2, <1>3, NoFrameType DEF Init, TypeOK

\* Every step of the producer and its server keeps the types.
LEMMA TypeServer ==
  ASSUME TypeOK,
         \/ StartProducer \/ Crash \/ Update \/ ForcedUpdate
         \/ IntervalElapses \/ HandlePublish
         \/ \E c \in Clients : Accept(c) \/ WriteDone(c) \/ Break(c)
  PROVE  TypeOK'
<1> USE DEF TypeOK, Links
<1>1. CASE StartProducer
  BY <1>1 DEF StartProducer, NewSession, server, client, delivery
<1>2. CASE Crash
  <2>1. link' \in [Clients -> Links]
    BY <1>2 DEF Crash
  <2>2. handled' \in 0 .. sequence'
    BY <1>2 DEF Crash
  <2>3. active' \in [Clients -> Frame] /\ pending' \in [Clients -> Frame]
    BY <1>2, NoFrameType DEF Crash
  <2> QED
    BY <1>2, <2>1, <2>2, <2>3 DEF Crash, client, delivery
<1>3. CASE Update \/ ForcedUpdate
  <2>1. Publish
    BY <1>3 DEF Update, ForcedUpdate
  <2>2. handled' \in 0 .. sequence' /\ sequence' \in Nat
    BY <2>1 DEF Publish
  <2> QED
    BY <2>1, <2>2 DEF Publish, server, client, delivery
<1>4. CASE IntervalElapses
  BY <1>4 DEF IntervalElapses, server, client, delivery
<1>5. CASE HandlePublish
  <2> DEFINE f == [session |-> session, sequence |-> handled + 1]
  <2>1. f \in Frame
    BY DEF Frame
  <2> HIDE DEF f
  <2>2. active' = [c \in Clients |->
           IF link[c] = "open" /\ active[c] = NoFrame THEN f ELSE active[c]]
    BY <1>5 DEF HandlePublish, f
  <2>3. pending' = [c \in Clients |->
           IF link[c] = "open" /\ active[c] # NoFrame THEN f ELSE pending[c]]
    BY <1>5 DEF HandlePublish, f, NewestWaiting
  <2>4. active' \in [Clients -> Frame] /\ pending' \in [Clients -> Frame]
    BY <2>1, <2>2, <2>3
  <2>5. handled' \in 0 .. sequence'
    BY <1>5 DEF HandlePublish, HandlerPosted
  <2> QED
    BY <1>5, <2>4, <2>5 DEF HandlePublish, client, delivery
<1>6. ASSUME NEW c \in Clients, Accept(c)
      PROVE  TypeOK'
  <2>1. LatestFrame \in Frame
    BY NoFrameType DEF LatestFrame, Frame
  <2> QED
    BY <1>6, <2>1 DEF Accept, producer, client, delivery
<1>7. ASSUME NEW c \in Clients, WriteDone(c)
      PROVE  TypeOK'
  <2>1. Append(wire[c], active[c]) \in Seq(Frame)
    BY AppendFrame
  <2> QED
    BY <1>7, <2>1, NoFrameType DEF WriteDone, producer, client, delivery
<1>8. ASSUME NEW c \in Clients, Break(c)
      PROVE  TypeOK'
  <2>1. PICK w \in {wire[c], <<>>} : wire' = [wire EXCEPT ![c] = w]
    BY <1>8 DEF Break
  <2>2. wire' \in [Clients -> Seq(Frame)]
    <3>1. <<>> \in Seq(Frame)
      OBVIOUS
    <3>2. w \in Seq(Frame)
      BY <3>1
    <3> QED
      BY <2>1, <3>2
  <2>3. link' \in [Clients -> Links] /\ breaks' \in Nat
    BY <1>8 DEF Break
  <2>4. active' \in [Clients -> Frame] /\ pending' \in [Clients -> Frame]
    BY <1>8, NoFrameType DEF Break
  <2> QED
    BY <1>8, <2>2, <2>3, <2>4 DEF Break, producer, client, delivery
<1> QED
  BY <1>1, <1>2, <1>3, <1>4, <1>5, <1>6, <1>7, <1>8

\* Delivering the held frame keeps the types of what it changes.
LEMMA TypeDeliver ==
  ASSUME NEW c \in Clients, DeliverLatest(c), DropLatest(c),
         latest \in [Clients -> Frame], view \in [Clients -> Frame],
         aged \in [Clients -> BOOLEAN]
  PROVE  /\ latest' \in [Clients -> Frame]
         /\ view' \in [Clients -> Frame] /\ aged' \in [Clients -> BOOLEAN]
<1>1. latest' \in [Clients -> Frame]
  BY NoFrameType DEF DropLatest
<1>2. CASE latest[c] = NoFrame
  BY <1>1, <1>2 DEF DeliverLatest
<1>3. CASE latest[c] # NoFrame
  BY <1>1, <1>3 DEF DeliverLatest
<1> QED
  BY <1>2, <1>3

\* Every step of a client keeps the types.
LEMMA TypeClient ==
  ASSUME TypeOK, NEW c \in Clients, ClientStep(c)
  PROVE  TypeOK'
<1> USE DEF TypeOK, Links, Phases
<1> USE NoFrameType
<1>1. CASE StartClient(c)
  BY <1>1 DEF StartClient, Goto, producer, server, delivery
<1>2. CASE Connect(c)
  BY <1>2 DEF Connect, Goto, producer, delivery
<1>3. CASE ConnectFails(c)
  BY <1>3 DEF ConnectFails, Goto, producer, server, delivery
<1>4. CASE Reconnect(c)
  BY <1>4 DEF Reconnect, Goto, producer, server, delivery
<1>5. CASE ReadFrame(c)
  <2>1. Head(wire[c]) \in Frame /\ Tail(wire[c]) \in Seq(Frame)
    BY <1>5, TailFrame DEF ReadFrame
  <2> QED
    BY <1>5, <2>1 DEF ReadFrame, producer
<1>6. CASE RejectFrame(c)
  BY <1>6 DEF RejectFrame, Goto, CloseSocket, CancelDelivery, DropLatest, producer
<1>7. CASE ReadError(c)
  <2>1. /\ latest' \in [Clients -> Frame]
        /\ view' \in [Clients -> Frame] /\ aged' \in [Clients -> BOOLEAN]
    <3>1. DeliverLatest(c) /\ DropLatest(c)
      BY <1>7 DEF ReadError, FlushLatest
    <3> QED
      BY <3>1, TypeDeliver
  <2> QED
    BY <1>7, <2>1 DEF ReadError, Goto, CloseSocket, FlushLatest,
                      CancelDelivery, producer
<1>8. CASE DeliveryDue(c)
  <2>1. /\ latest' \in [Clients -> Frame]
        /\ view' \in [Clients -> Frame] /\ aged' \in [Clients -> BOOLEAN]
    <3>1. DeliverLatest(c) /\ DropLatest(c)
      BY <1>8 DEF DeliveryDue
    <3> QED
      BY <3>1, TypeDeliver
  <2> QED
    BY <1>8, <2>1 DEF DeliveryDue, CancelDelivery, producer, server
<1>9. CASE StopClient(c)
  BY <1>9 DEF StopClient, Goto, CloseSocket, producer
<1>10. CASE ReadAborted(c)
  <2>1. /\ latest' \in [Clients -> Frame]
        /\ view' \in [Clients -> Frame] /\ aged' \in [Clients -> BOOLEAN]
    <3>1. DeliverLatest(c) /\ DropLatest(c)
      BY <1>10 DEF ReadAborted, FlushLatest
    <3> QED
      BY <3>1, TypeDeliver
  <2>2. /\ phase' \in [Clients -> Phases]
        /\ scheduled' \in [Clients -> BOOLEAN] /\ timer' \in [Clients -> BOOLEAN]
    BY <1>10 DEF ReadAborted, Goto, FlushLatest, CancelDelivery
  <2> QED
    BY <1>10, <2>1, <2>2 DEF ReadAborted, producer, server
<1>11. CASE ViewAges(c)
  BY <1>11 DEF ViewAges, producer, server
<1> QED
  BY <1>1, <1>2, <1>3, <1>4, <1>5, <1>6, <1>7, <1>8, <1>9, <1>10, <1>11
     DEF ClientStep

LEMMA TypeNext == TypeOK /\ [Next]_vars => TypeOK'
<1> SUFFICES ASSUME TypeOK, [Next]_vars PROVE TypeOK'
  OBVIOUS
<1>1. CASE UNCHANGED vars
  BY <1>1 DEF TypeOK, vars, producer, server, client, delivery
<1>2. CASE Next
  BY <1>2, TypeServer, TypeClient DEF Next
<1> QED
  BY <1>1, <1>2

\* Every variable of the channel keeps its type.
THEOREM TypeCorrect == Spec => []TypeOK
BY TypeInit, TypeNext, PTL DEF Spec

-----------------------------------------------------------------------------
(* The channel of one client.                                              *)

\* The variables of client c's channel keep their values.
Unmoved(c) ==
  /\ link'[c] = link[c] /\ active'[c] = active[c] /\ pending'[c] = pending[c]
  /\ wire'[c] = wire[c] /\ phase'[c] = phase[c] /\ accepted'[c] = accepted[c]
  /\ latest'[c] = latest[c] /\ scheduled'[c] = scheduled[c]
  /\ timer'[c] = timer[c] /\ view'[c] = view[c]

\* A step that moves neither the producer's newest frame nor the client.
LEMMA UnmovedOK ==
  ASSUME TypeOK, NEW c \in Clients, ChannelOK(c), Unmoved(c),
         up' = up, session' = session, handled' = handled, Limit' = Limit
  PROVE  ChannelOK(c)'
<1> USE DEF ChannelOK, Unmoved
<1>1. PhaseOK(c)' /\ LinkOK(c)'
  BY DEF PhaseOK, LinkOK
<1>2. DeliveryOK(c)'
  BY DEF DeliveryOK
<1>3. WireOK(c)'
  BY DEF WireOK
<1>4. QueueOK(c)' /\ TailOK(c)'
  BY DEF QueueOK, TailOK
<1> QED
  BY <1>1, <1>2, <1>3, <1>4

\* The newest frame that was sent only becomes newer.
LEMMA LimitGrows ==
  ASSUME NEW f \in Frame, NEW g \in Frame, NEW h \in Frame,
         ~ Newer(f, g), ~ Newer(g, h)
  PROVE  ~ Newer(f, h)
BY DEF Newer, Frame

\* The producer counts in natural numbers.
LEMMA CountersType ==
  ASSUME TypeOK
  PROVE  session \in Nat /\ sequence \in Nat /\ handled \in Nat
<1>1. handled \in 0 .. sequence /\ session \in Nat /\ sequence \in Nat
  BY DEF TypeOK
<1> QED
  BY <1>1

\* The newest frame that was sent is a frame.
LEMMA LimitType ==
  ASSUME TypeOK PROVE Limit \in Frame
BY DEF TypeOK, Limit, Frame

LEMMA InvInit == Init => IInv
<1> SUFFICES ASSUME Init PROVE IInv
  OBVIOUS
<1>1. TypeOK
  BY TypeInit
<1>2. ASSUME NEW c \in Clients PROVE ChannelOK(c)
  <2>1. /\ link[c] = "none" /\ active[c] = NoFrame /\ pending[c] = NoFrame
        /\ wire[c] = <<>> /\ phase[c] = "new" /\ accepted[c] = NoFrame
        /\ latest[c] = NoFrame /\ scheduled[c] = FALSE /\ timer[c] = FALSE
        /\ view[c] = NoFrame
    BY DEF Init
  <2>2. ~ Newer(NoFrame, Limit)
    BY DEF Init, Newer, NoFrame, Limit
  <2>3. PhaseOK(c) /\ LinkOK(c) /\ DeliveryOK(c)
    BY <2>1, <2>2 DEF PhaseOK, LinkOK, DeliveryOK
  <2>4. WireOK(c)
    BY <2>1 DEF WireOK
  <2>5. QueueOK(c) /\ TailOK(c)
    BY <2>1 DEF QueueOK, TailOK
  <2> QED
    BY <2>3, <2>4, <2>5 DEF ChannelOK
<1> QED
  BY <1>1, <1>2 DEF IInv, ProducerOK, Init

-----------------------------------------------------------------------------
(* Steps of the producer and the server.                                   *)

LEMMA StartProducerOK ==
  ASSUME IInv, StartProducer, NEW c \in Clients
  PROVE  ChannelOK(c)' /\ ProducerOK'
<1>1. TypeOK /\ ChannelOK(c) /\ TypeOK'
  BY TypeServer DEF IInv
<1>2. Unmoved(c) /\ ~ up /\ session' = session + 1 /\ handled' = 0
  BY DEF StartProducer, NewSession, Unmoved, server, client, delivery
<1>3. link[c] # "open" /\ active[c] = NoFrame /\ pending[c] = NoFrame
  BY <1>1, <1>2 DEF ChannelOK, LinkOK
<1>4. \A f \in Frame : ~ Newer(f, Limit) => ~ Newer(f, Limit')
  <2> SUFFICES ASSUME NEW f \in Frame, ~ Newer(f, Limit)
               PROVE  ~ Newer(f, Limit')
    OBVIOUS
  <2>0. Limit.session = session
    BY DEF Limit
  <2>1. f.session <= session
    BY <1>1, <2>0 DEF Newer, Frame, TypeOK
  <2>2. Limit'.session = session + 1
    BY <1>2 DEF Limit
  <2>3. session \in Nat /\ f.session \in Nat
    BY <1>1 DEF Frame, TypeOK
  <2> QED
    BY <2>1, <2>2, <2>3 DEF Newer
<1>5. accepted[c] \in Frame /\ wire[c] \in Seq(Frame)
  BY <1>1 DEF TypeOK
<1>6. PhaseOK(c)' /\ LinkOK(c)'
  BY <1>1, <1>2, <1>3 DEF ChannelOK, PhaseOK, LinkOK, Unmoved
<1>7. DeliveryOK(c)'
  BY <1>1, <1>2, <1>4, <1>5 DEF ChannelOK, DeliveryOK, Unmoved
<1>8. WireOK(c)'
  BY <1>1, <1>2, <1>3, <1>4, <1>5, WireFrame DEF ChannelOK, WireOK, Unmoved
<1>9. QueueOK(c)' /\ TailOK(c)'
  BY <1>2, <1>3 DEF QueueOK, TailOK, Unmoved
<1>10. ProducerOK'
  BY DEF StartProducer, ProducerOK
<1> QED
  BY <1>6, <1>7, <1>8, <1>9, <1>10 DEF ChannelOK

LEMMA CrashOK ==
  ASSUME IInv, Crash, NEW c \in Clients
  PROVE  ChannelOK(c)' /\ ProducerOK'
<1>1. TypeOK /\ ChannelOK(c)
  BY DEF IInv
<1>2. /\ up /\ ~ up' /\ session' = session /\ sequence' = sequence
      /\ link'[c] = (IF link[c] = "none" THEN "none" ELSE "lost")
      /\ active'[c] = NoFrame /\ pending'[c] = NoFrame
  BY DEF Crash
<1>3. /\ wire'[c] = wire[c] /\ phase'[c] = phase[c]
      /\ accepted'[c] = accepted[c] /\ latest'[c] = latest[c]
      /\ scheduled'[c] = scheduled[c] /\ timer'[c] = timer[c]
      /\ view'[c] = view[c]
  BY DEF Crash, client, delivery
<1>4. \A f \in Frame : ~ Newer(f, Limit) => ~ Newer(f, Limit')
  <2>1. Limit.session = session /\ Limit.sequence = handled
    BY <1>2 DEF Limit
  <2>2. Limit'.session = session /\ Limit'.sequence = sequence
    BY <1>2 DEF Limit
  <2> QED
    BY <1>1, <2>1, <2>2 DEF Newer, Frame, TypeOK
<1>5. accepted[c] \in Frame /\ wire[c] \in Seq(Frame)
  BY <1>1 DEF TypeOK
<1>6. PhaseOK(c)' /\ LinkOK(c)'
  BY <1>1, <1>2, <1>3 DEF ChannelOK, PhaseOK, LinkOK
<1>7. DeliveryOK(c)'
  BY <1>1, <1>3, <1>4, <1>5 DEF ChannelOK, DeliveryOK
<1>8. WireOK(c)'
  BY <1>1, <1>2, <1>3, <1>4, <1>5, WireFrame DEF ChannelOK, WireOK
<1>9. QueueOK(c)' /\ TailOK(c)'
  BY <1>2 DEF QueueOK, TailOK
<1>10. ProducerOK'
  BY <1>2 DEF ProducerOK
<1> QED
  BY <1>6, <1>7, <1>8, <1>9, <1>10 DEF ChannelOK

LEMMA PublishOK ==
  ASSUME IInv, Update \/ ForcedUpdate \/ IntervalElapses, NEW c \in Clients
  PROVE  ChannelOK(c)' /\ ProducerOK'
<1>1. TypeOK /\ ChannelOK(c) /\ ProducerOK
  BY DEF IInv
<1>2. Unmoved(c) /\ up' = up /\ session' = session /\ handled' = handled
  BY DEF Update, ForcedUpdate, Publish, IntervalElapses, Unmoved, server,
         client, delivery
<1>3. sequence' = sequence \/ (up /\ sequence' = sequence + 1)
  BY DEF Update, ForcedUpdate, Publish, IntervalElapses
<1>4. Limit' = Limit
  BY <1>2, <1>3 DEF Limit
<1>5. ProducerOK'
  BY <1>1, <1>2, <1>3 DEF ProducerOK, TypeOK
<1> QED
  BY <1>1, <1>2, <1>4, <1>5, UnmovedOK

LEMMA HandlePublishOK ==
  ASSUME IInv, HandlePublish, NEW c \in Clients
  PROVE  ChannelOK(c)' /\ ProducerOK'
<1> DEFINE f == [session |-> session, sequence |-> handled + 1]
<1>1. TypeOK /\ ChannelOK(c) /\ ProducerOK
  BY DEF IInv
<1>2. f \in Frame /\ f.session = session /\ f.sequence = handled + 1
      /\ f # NoFrame
  BY <1>1 DEF Frame, TypeOK, NoFrame
<1>3. /\ up /\ up' /\ session' = session /\ sequence' = sequence
      /\ handled' = handled + 1
  BY DEF HandlePublish
<1>4. /\ link'[c] = link[c] /\ wire'[c] = wire[c] /\ phase'[c] = phase[c]
      /\ accepted'[c] = accepted[c] /\ latest'[c] = latest[c]
      /\ scheduled'[c] = scheduled[c] /\ timer'[c] = timer[c]
      /\ view'[c] = view[c]
  BY DEF HandlePublish, client, delivery
<1> HIDE DEF f
<1>5. /\ active'[c] = IF link[c] = "open" /\ active[c] = NoFrame
                      THEN f ELSE active[c]
      /\ pending'[c] = IF link[c] = "open" /\ active[c] # NoFrame
                       THEN f ELSE pending[c]
  BY DEF HandlePublish, NewestWaiting, f
<1>6. /\ Limit.session = session /\ Limit.sequence = handled
      /\ Limit'.session = session /\ Limit'.sequence = handled + 1
  BY <1>3 DEF Limit
<1>7. \A g \in Frame : ~ Newer(g, Limit) => ~ Newer(g, Limit')
  BY <1>1, <1>6 DEF Newer, Frame, TypeOK
<1>8. \A g \in Frame : ~ Newer(g, Limit) => Newer(f, g)
  BY <1>1, <1>2, <1>6 DEF Newer, Frame, TypeOK
<1>9. /\ accepted[c] \in Frame /\ wire[c] \in Seq(Frame)
      /\ active[c] \in Frame /\ pending[c] \in Frame
  BY <1>1 DEF TypeOK
<1>10. PhaseOK(c)' /\ LinkOK(c)'
  BY <1>1, <1>3, <1>4, <1>5 DEF ChannelOK, PhaseOK, LinkOK
<1>11. DeliveryOK(c)'
  BY <1>1, <1>4, <1>7, <1>9 DEF ChannelOK, DeliveryOK
<1>12. WireOK(c)'
  BY <1>1, <1>3, <1>4, <1>7, <1>9, WireFrame DEF ChannelOK, WireOK
<1>13. QueueOK(c)'
  <2>1. CASE link[c] = "open" /\ active[c] = NoFrame
    <3>1. active'[c] = f /\ pending'[c] = NoFrame
      BY <1>1, <1>5, <2>1 DEF ChannelOK, QueueOK
    <3>2. \A i \in 1 .. Len(wire[c]) : wire[c][i].sequence < handled + 1
      <4> SUFFICES ASSUME NEW i \in 1 .. Len(wire[c])
                   PROVE  wire[c][i].sequence < handled + 1
        OBVIOUS
      <4>1. wire[c][i] \in Frame
        BY <1>9, WireFrame
      <4>2. wire[c][i].session = session /\ ~ Newer(wire[c][i], Limit)
        BY <1>1, <2>1 DEF ChannelOK, WireOK
      <4>3. wire[c][i].sequence \in Nat /\ handled \in Nat /\ session \in Nat
        BY <1>1, <4>1, CountersType DEF Frame
      <4>4. wire[c][i].sequence <= handled
        BY <1>6, <4>2, <4>3 DEF Newer
      <4> QED
        BY <4>3, <4>4
    <3>3. Newer(f, accepted[c])
      BY <1>1, <1>8, <1>9 DEF ChannelOK, DeliveryOK
    <3>4. 0 < f.sequence /\ f.sequence <= handled'
      BY <1>1, <1>2, <1>3 DEF TypeOK
    <3>5. \A i \in 1 .. Len(wire'[c]) : wire'[c][i].sequence < f.sequence
      BY <1>2, <1>4, <3>2
    <3> QED
      BY <1>2, <1>3, <1>4, <3>1, <3>3, <3>4, <3>5 DEF QueueOK
  <2>2. CASE link[c] = "open" /\ active[c] # NoFrame
    <3>1. active'[c] = active[c] /\ pending'[c] = f
      BY <1>5, <2>2
    <3>2. active[c].sequence <= handled /\ active[c].sequence \in Nat
      BY <1>1, <1>9, <2>2 DEF ChannelOK, QueueOK, Frame
    <3>3. /\ active[c].sequence < f.sequence /\ f.sequence <= handled'
          /\ active[c].sequence <= handled'
      BY <1>1, <1>2, <1>3, <3>2 DEF TypeOK
    <3> QED
      BY <1>1, <1>2, <1>3, <1>4, <2>2, <3>1, <3>3 DEF ChannelOK, QueueOK
  <2>3. CASE link[c] # "open"
    BY <1>1, <1>5, <2>3 DEF ChannelOK, LinkOK, QueueOK
  <2> QED
    BY <2>1, <2>2, <2>3
<1>14. TailOK(c)'
  BY <1>1, <1>2, <1>3, <1>4, <1>5 DEF ChannelOK, QueueOK, TailOK
<1>15. ProducerOK'
  BY <1>1, <1>3 DEF ProducerOK
<1> QED
  BY <1>10, <1>11, <1>12, <1>13, <1>14, <1>15 DEF ChannelOK

\* A step that leaves the producer alone leaves its newest frame alone.
LEMMA ProducerStays ==
  ASSUME IInv, UNCHANGED producer
  PROVE  /\ up' = up /\ session' = session /\ handled' = handled
         /\ Limit' = Limit /\ ProducerOK'
<1>1. /\ up' = up /\ session' = session /\ handled' = handled
      /\ sequence' = sequence
  BY DEF producer
<1> QED
  BY <1>1 DEF Limit, ProducerOK, IInv

LEMMA AcceptOK ==
  ASSUME IInv, NEW d \in Clients, Accept(d), NEW c \in Clients
  PROVE  ChannelOK(c)' /\ ProducerOK'
<1>1. TypeOK /\ ChannelOK(c) /\ UNCHANGED producer
  BY DEF IInv, Accept
<1>2. /\ up' = up /\ session' = session /\ handled' = handled
      /\ Limit' = Limit /\ ProducerOK'
  BY <1>1, ProducerStays
<1>3. CASE c # d
  <2>1. Unmoved(c)
    BY <1>1, <1>3 DEF Accept, client, delivery, Unmoved, TypeOK
  <2> QED
    BY <1>1, <1>2, <2>1, UnmovedOK
<1>4. CASE c = d
  <2>1. /\ up /\ link[c] = "backlog" /\ link'[c] = "open"
        /\ active'[c] = LatestFrame /\ pending'[c] = pending[c]
        /\ wire'[c] = wire[c] /\ phase'[c] = phase[c]
        /\ accepted'[c] = accepted[c] /\ latest'[c] = latest[c]
        /\ scheduled'[c] = scheduled[c] /\ timer'[c] = timer[c]
        /\ view'[c] = view[c]
    BY <1>1, <1>4 DEF Accept, client, delivery, TypeOK
  <2>2. /\ wire[c] = <<>> /\ latest[c] = NoFrame /\ pending[c] = NoFrame
    BY <1>1, <2>1 DEF ChannelOK, LinkOK
  <2>3. PhaseOK(c)' /\ LinkOK(c)'
    BY <1>1, <1>2, <2>1, <2>2 DEF ChannelOK, PhaseOK, LinkOK
  <2>4. DeliveryOK(c)'
    BY <1>1, <1>2, <2>1 DEF ChannelOK, DeliveryOK
  <2>5. WireOK(c)'
    BY <2>1, <2>2 DEF WireOK
  <2>6. handled \in Nat /\ session \in Nat
    BY <1>1 DEF TypeOK
  <2>7. handled # 0 => /\ LatestFrame # NoFrame
                       /\ LatestFrame.session = session
                       /\ LatestFrame.sequence = handled
    BY <2>6 DEF LatestFrame, NoFrame
  <2>8. handled = 0 => LatestFrame = NoFrame
    BY DEF LatestFrame
  <2>9. QueueOK(c)'
    BY <1>2, <2>1, <2>2, <2>6, <2>7, <2>8 DEF QueueOK
  <2>10. TailOK(c)'
    BY <1>2, <2>1, <2>2, <2>6, <2>7 DEF TailOK
  <2> QED
    BY <1>2, <2>3, <2>4, <2>5, <2>9, <2>10 DEF ChannelOK
<1> QED
  BY <1>3, <1>4

LEMMA BreakOK ==
  ASSUME IInv, NEW d \in Clients, Break(d), NEW c \in Clients
  PROVE  ChannelOK(c)' /\ ProducerOK'
<1>1. TypeOK /\ ChannelOK(c) /\ UNCHANGED producer
  BY DEF IInv, Break
<1>2. /\ up' = up /\ session' = session /\ handled' = handled
      /\ Limit' = Limit /\ ProducerOK'
  BY <1>1, ProducerStays
<1>3. PICK w \in {wire[d], <<>>} : wire' = [wire EXCEPT ![d] = w]
  BY DEF Break
<1>4. CASE c # d
  <2>1. Unmoved(c)
    BY <1>1, <1>3, <1>4 DEF Break, client, delivery, Unmoved, TypeOK
  <2> QED
    BY <1>1, <1>2, <2>1, UnmovedOK
<1>5. CASE c = d
  <2>1. /\ link[c] \in {"backlog", "open"} /\ link'[c] = "lost"
        /\ active'[c] = NoFrame /\ pending'[c] = NoFrame
        /\ phase'[c] = phase[c]
        /\ accepted'[c] = accepted[c] /\ latest'[c] = latest[c]
        /\ scheduled'[c] = scheduled[c] /\ timer'[c] = timer[c]
        /\ view'[c] = view[c]
    BY <1>1, <1>5 DEF Break, client, delivery, TypeOK
  <2>2. wire'[c] = wire[c] \/ wire'[c] = <<>>
    BY <1>1, <1>3, <1>5 DEF TypeOK
  <2>3. PhaseOK(c)' /\ LinkOK(c)'
    BY <1>1, <1>2, <2>1 DEF ChannelOK, PhaseOK, LinkOK
  <2>4. DeliveryOK(c)'
    BY <1>1, <1>2, <2>1 DEF ChannelOK, DeliveryOK
  <2>5. WireOK(c)'
    <3>1. CASE wire'[c] = wire[c]
      BY <1>1, <1>2, <2>1, <3>1 DEF ChannelOK, WireOK
    <3>2. CASE wire'[c] = <<>>
      BY <3>2 DEF WireOK
    <3> QED
      BY <2>2, <3>1, <3>2
  <2>6. QueueOK(c)' /\ TailOK(c)'
    BY <2>1 DEF QueueOK, TailOK
  <2> QED
    BY <1>2, <2>3, <2>4, <2>5, <2>6 DEF ChannelOK
<1> QED
  BY <1>4, <1>5

LEMMA WriteDoneOK ==
  ASSUME IInv, NEW d \in Clients, WriteDone(d), NEW c \in Clients
  PROVE  ChannelOK(c)' /\ ProducerOK'
<1>1. TypeOK /\ ChannelOK(c) /\ UNCHANGED producer
  BY DEF IInv, WriteDone
<1>2. /\ up' = up /\ session' = session /\ handled' = handled
      /\ Limit' = Limit /\ ProducerOK'
  BY <1>1, ProducerStays
<1>3. CASE c # d
  <2>1. Unmoved(c)
    BY <1>1, <1>3 DEF WriteDone, client, delivery, Unmoved, TypeOK
  <2> QED
    BY <1>1, <1>2, <2>1, UnmovedOK
<1>4. CASE c = d
  <2> DEFINE w == Append(wire[c], active[c])
             n == Len(wire[c])
  <2>1. /\ up /\ link[c] = "open" /\ link'[c] = "open" /\ active[c] # NoFrame
        /\ active'[c] = pending[c] /\ pending'[c] = NoFrame
        /\ wire'[c] = w /\ phase'[c] = phase[c]
        /\ accepted'[c] = accepted[c] /\ latest'[c] = latest[c]
        /\ scheduled'[c] = scheduled[c] /\ timer'[c] = timer[c]
        /\ view'[c] = view[c]
    BY <1>1, <1>4 DEF WriteDone, client, delivery, TypeOK
  <2>2. /\ wire[c] \in Seq(Frame) /\ active[c] \in Frame
        /\ pending[c] \in Frame /\ accepted[c] \in Frame
    BY <1>1 DEF TypeOK
  <2>3. /\ w \in Seq(Frame) /\ w # <<>> /\ Len(w) = n + 1 /\ n \in Nat
        /\ \A i \in 1 .. n : w[i] = wire[c][i]
        /\ w[n + 1] = active[c]
    BY <2>2, AppendFrame
  <2> HIDE DEF w
  <2>4. \A i \in 1 .. Len(w) : i \in 1 .. n \/ i = n + 1
    BY <2>3
  <2>5. /\ active[c].session = session
        /\ 0 < active[c].sequence /\ active[c].sequence <= handled
        /\ \A i \in 1 .. n : wire[c][i].sequence < active[c].sequence
        /\ latest[c] # NoFrame => Newer(active[c], accepted[c])
    BY <1>1, <2>1 DEF ChannelOK, QueueOK
  <2>6. handled \in Nat /\ session \in Nat
    BY <1>1 DEF TypeOK
  <2>7. Limit.session = session /\ Limit.sequence = handled
    BY <2>1 DEF Limit
  <2>8. ~ Newer(active[c], Limit)
    BY <2>2, <2>5, <2>6, <2>7 DEF Newer, Frame
  <2>9. active[c].session >= accepted[c].session
    <3>1. ~ Newer(accepted[c], Limit)
      BY <1>1 DEF ChannelOK, DeliveryOK
    <3> QED
      BY <2>2, <2>5, <2>6, <2>7, <3>1 DEF Newer, Frame
  <2>10. PhaseOK(c)' /\ LinkOK(c)'
    BY <1>1, <1>2, <2>1 DEF ChannelOK, PhaseOK, LinkOK
  <2>11. DeliveryOK(c)'
    BY <1>1, <1>2, <2>1 DEF ChannelOK, DeliveryOK
  <2>12. WireOK(c)'
    <3>1. ASSUME NEW i \in 1 .. Len(w)
          PROVE  /\ w[i].sequence > 0
                 /\ w[i].session >= accepted[c].session
                 /\ ~ Newer(w[i], Limit)
                 /\ w[i].session = session
                 /\ latest[c] # NoFrame => Newer(w[i], accepted[c])
      <4>1. CASE i \in 1 .. n
        BY <1>1, <2>1, <2>3, <4>1 DEF ChannelOK, WireOK
      <4>2. CASE i = n + 1
        BY <2>3, <2>5, <2>8, <2>9, <4>2
      <4> QED
        BY <2>4, <4>1, <4>2
    <3>2. ASSUME NEW i \in 1 .. Len(w), NEW j \in 1 .. Len(w), i < j
          PROVE  w[i].sequence < w[j].sequence
      <4>1. i \in 1 .. n
        BY <2>3, <3>2
      <4>2. CASE j \in 1 .. n
        BY <1>1, <2>3, <3>2, <4>1, <4>2 DEF ChannelOK, WireOK
      <4>3. CASE j = n + 1
        BY <2>3, <2>5, <4>1, <4>3
      <4> QED
        BY <2>4, <4>2, <4>3
    <3> QED
      BY <1>2, <2>1, <3>1, <3>2 DEF WireOK
  <2>13. QueueOK(c)'
    <3>1. ASSUME pending[c] # NoFrame
          PROVE  /\ pending[c].session = session
                 /\ active[c].sequence < pending[c].sequence
                 /\ pending[c].sequence <= handled
      BY <1>1, <3>1 DEF ChannelOK, QueueOK
    <3>2. ASSUME pending[c] # NoFrame, NEW i \in 1 .. Len(w)
          PROVE  w[i].sequence < pending[c].sequence
      <4>1. CASE i \in 1 .. n
        <5>1. wire[c][i] \in Frame
          BY <2>2, <4>1, WireFrame
        <5>2. wire[c][i].sequence < active[c].sequence
          BY <2>5, <4>1
        <5>3. active[c].sequence < pending[c].sequence
          BY <3>1, <3>2
        <5>4. /\ wire[c][i].sequence \in Nat /\ active[c].sequence \in Nat
              /\ pending[c].sequence \in Nat
          BY <2>2, <5>1 DEF Frame
        <5>5. wire[c][i].sequence < pending[c].sequence
          BY <5>2, <5>3, <5>4
        <5> QED
          BY <2>3, <4>1, <5>5
      <4>2. CASE i = n + 1
        BY <2>3, <3>1, <3>2, <4>2
      <4> QED
        BY <2>4, <4>1, <4>2
    <3>3. pending[c] # NoFrame /\ latest[c] # NoFrame
            => Newer(pending[c], accepted[c])
      BY <2>2, <2>5, <3>1 DEF Newer, Frame
    <3>4. pending[c] # NoFrame => 0 < pending[c].sequence
      BY <2>2, <2>5, <3>1 DEF Frame
    <3> QED
      BY <1>2, <2>1, <3>1, <3>2, <3>3, <3>4 DEF QueueOK
  <2>14. TailOK(c)'
    BY <1>1, <1>2, <2>1, <2>3 DEF ChannelOK, TailOK
  <2> QED
    BY <1>2, <2>10, <2>11, <2>12, <2>13, <2>14 DEF ChannelOK
<1> QED
  BY <1>3, <1>4

-----------------------------------------------------------------------------
(* Steps of a client.                                                      *)

\* A step of client d leaves the channel of every other client alone.
LEMMA OtherClient ==
  ASSUME IInv, NEW d \in Clients, ClientStep(d), NEW c \in Clients, c # d
  PROVE  ChannelOK(c)' /\ ProducerOK'
<1>1. TypeOK /\ ChannelOK(c)
  BY DEF IInv
<1>2. UNCHANGED producer
  BY DEF ClientStep, StartClient, Connect, ConnectFails, Reconnect, ReadFrame,
         RejectFrame, ReadError, DeliveryDue, StopClient, ReadAborted, ViewAges
<1> USE <1>1 DEF Unmoved, TypeOK
<1>3. CASE StartClient(d) \/ ConnectFails(d) \/ Reconnect(d) \/ Connect(d)
  <2>1. Unmoved(c)
    BY <1>3 DEF StartClient, ConnectFails, Reconnect, Connect, Goto, server,
                delivery
  <2> QED
    BY <1>2, <2>1, UnmovedOK, ProducerStays
<1>4. CASE ReadFrame(d) \/ RejectFrame(d) \/ ReadError(d)
  <2>1. Unmoved(c)
    BY <1>4 DEF ReadFrame, RejectFrame, ReadError, Goto, CloseSocket,
                FlushLatest, CancelDelivery, DeliverLatest, DropLatest
  <2> QED
    BY <1>2, <2>1, UnmovedOK, ProducerStays
<1>5. CASE DeliveryDue(d) \/ StopClient(d) \/ ReadAborted(d) \/ ViewAges(d)
  <2>1. Unmoved(c)
    BY <1>5 DEF DeliveryDue, StopClient, ReadAborted, ViewAges, Goto,
                CloseSocket, FlushLatest, CancelDelivery, DeliverLatest,
                DropLatest, server
  <2> QED
    BY <1>2, <2>1, UnmovedOK, ProducerStays
<1> QED
  BY <1>3, <1>4, <1>5 DEF ClientStep

\* Starting, connecting, and the reconnect timer.
LEMMA ConnectOK ==
  ASSUME IInv, NEW c \in Clients,
         StartClient(c) \/ Connect(c) \/ ConnectFails(c) \/ Reconnect(c)
  PROVE  ChannelOK(c)'
<1>1. TypeOK /\ ChannelOK(c)
  BY DEF IInv
<1>2. UNCHANGED producer
  BY DEF StartClient, Connect, ConnectFails, Reconnect
<1>3. /\ up' = up /\ session' = session /\ handled' = handled /\ Limit' = Limit
  BY <1>2, ProducerStays
<1>4. /\ phase[c] \in {"new", "connecting", "waiting"}
      /\ \/ phase'[c] \in {"connecting", "waiting"} /\ link'[c] = link[c]
         \/ phase'[c] = "reading" /\ link'[c] = "backlog"
      /\ active'[c] = active[c] /\ pending'[c] = pending[c]
      /\ wire'[c] = wire[c] /\ accepted'[c] = accepted[c]
      /\ latest'[c] = latest[c] /\ scheduled'[c] = scheduled[c]
      /\ timer'[c] = timer[c] /\ view'[c] = view[c]
  BY <1>1 DEF StartClient, Connect, ConnectFails, Reconnect, Goto, server,
              delivery, TypeOK
<1>5. /\ link[c] = "none" /\ latest[c] = NoFrame /\ ~ scheduled[c] /\ ~ timer[c]
      /\ active[c] = NoFrame /\ pending[c] = NoFrame /\ wire[c] = <<>>
  BY <1>1, <1>4 DEF ChannelOK, PhaseOK, LinkOK
<1>6. PhaseOK(c)' /\ LinkOK(c)'
  <2>1. scheduled[c] = FALSE /\ timer[c] = FALSE
    BY <1>1, <1>5 DEF TypeOK
  <2> QED
    BY <1>4, <1>5, <2>1 DEF PhaseOK, LinkOK
<1>7. DeliveryOK(c)'
  BY <1>1, <1>3, <1>4 DEF ChannelOK, DeliveryOK
<1>8. WireOK(c)' /\ QueueOK(c)' /\ TailOK(c)'
  BY <1>4, <1>5 DEF WireOK, QueueOK, TailOK
<1> QED
  BY <1>6, <1>7, <1>8 DEF ChannelOK

LEMMA ReadFrameOK ==
  ASSUME IInv, NEW c \in Clients, ReadFrame(c)
  PROVE  ChannelOK(c)'
<1> DEFINE w == wire[c]
           f == Head(w)
<1>1. TypeOK /\ ChannelOK(c) /\ UNCHANGED producer
  BY DEF IInv, ReadFrame
<1>2. /\ up' = up /\ session' = session /\ handled' = handled /\ Limit' = Limit
  BY <1>1, ProducerStays
<1>3. /\ phase[c] = "reading" /\ w # <<>> /\ ~ Rollback(f, accepted[c])
      /\ wire'[c] = Tail(w) /\ accepted'[c] = f /\ latest'[c] = f
      /\ scheduled'[c] = TRUE /\ timer'[c] = (timer[c] \/ ~ scheduled[c])
      /\ link'[c] = link[c] /\ active'[c] = active[c]
      /\ pending'[c] = pending[c] /\ phase'[c] = phase[c]
      /\ view'[c] = view[c]
  BY <1>1 DEF ReadFrame, Connected, TypeOK
<1>4. /\ w \in Seq(Frame) /\ accepted[c] \in Frame /\ view[c] \in Frame
      /\ active[c] \in Frame
  BY <1>1 DEF TypeOK
<1>5. /\ Len(w) \in Nat \ {0} /\ f = w[1] /\ f \in Frame
      /\ Tail(w) \in Seq(Frame) /\ Len(Tail(w)) = Len(w) - 1
      /\ \A i \in 1 .. Len(w) - 1 : Tail(w)[i] = w[i + 1]
  BY <1>3, <1>4, TailFrame
<1>6. /\ f.sequence > 0 /\ f.session >= accepted[c].session
      /\ ~ Newer(f, Limit)
      /\ link[c] = "open" => f.session = session
  <2>1. 1 \in 1 .. Len(w)
    BY <1>5
  <2> QED
    BY <1>1, <1>5, <2>1 DEF ChannelOK, WireOK
<1>7. f # NoFrame
  BY <1>6, NoFrameType
<1>8. Newer(f, accepted[c])
  BY <1>3, <1>4, <1>5, <1>6 DEF Rollback, Newer, Frame
<1>9. Newer(f, view[c])
  <2>1. CASE latest[c] = NoFrame
    BY <1>1, <1>8, <2>1 DEF ChannelOK, DeliveryOK
  <2>2. CASE latest[c] # NoFrame
    <3>1. Newer(accepted[c], view[c])
      BY <1>1, <2>2 DEF ChannelOK, DeliveryOK
    <3> QED
      BY <1>4, <1>5, <1>8, <3>1 DEF Newer, Frame
  <2> QED
    BY <2>1, <2>2
<1>10. ASSUME NEW i \in 1 .. Len(w) - 1
       PROVE  /\ i + 1 \in 1 .. Len(w)
              /\ Tail(w)[i] = w[i + 1]
              /\ w[i + 1] \in Frame
              /\ w[i + 1].session = f.session
              /\ f.sequence < w[i + 1].sequence
  <2>1. i + 1 \in 1 .. Len(w) /\ 1 \in 1 .. Len(w) /\ 1 < i + 1
    BY <1>5
  <2>2. w[i + 1].session = w[1].session /\ w[1].sequence < w[i + 1].sequence
    BY <1>1, <2>1 DEF ChannelOK, WireOK
  <2> QED
    BY <1>4, <1>5, <2>1, <2>2, WireFrame
<1> HIDE DEF f, w
<1>11. PhaseOK(c)'
  <2>1. link[c] # "none" /\ scheduled[c] = (latest[c] # NoFrame)
        /\ timer[c] = scheduled[c]
    BY <1>1, <1>3 DEF ChannelOK, PhaseOK
  <2>2. timer'[c] = TRUE
    BY <1>1, <1>3, <2>1 DEF TypeOK
  <2> QED
    BY <1>3, <1>7, <2>1, <2>2 DEF PhaseOK
<1>12. LinkOK(c)'
  <2>1. link[c] # "none" /\ link[c] # "backlog"
    BY <1>1, <1>3 DEF ChannelOK, LinkOK, w
  <2> QED
    BY <1>1, <1>2, <1>3, <2>1 DEF ChannelOK, LinkOK
<1>13. DeliveryOK(c)'
  BY <1>2, <1>3, <1>6, <1>7, <1>9 DEF DeliveryOK
<1>14. WireOK(c)'
  <2>1. ASSUME NEW i \in 1 .. Len(Tail(w))
        PROVE  /\ Tail(w)[i].sequence > 0
               /\ Tail(w)[i].session = f.session
               /\ Tail(w)[i].session >= f.session
               /\ ~ Newer(Tail(w)[i], Limit)
               /\ link[c] = "open" => Tail(w)[i].session = session
               /\ Newer(Tail(w)[i], f)
    <3>1. i \in 1 .. Len(w) - 1
      BY <1>5
    <3>2. w[i + 1].sequence > 0 /\ ~ Newer(w[i + 1], Limit)
          /\ (link[c] = "open" => w[i + 1].session = session)
      BY <1>1, <1>10, <3>1 DEF ChannelOK, WireOK, w
    <3>3. Newer(w[i + 1], f) /\ w[i + 1].session >= f.session
      BY <1>5, <1>10, <3>1 DEF Newer, Frame
    <3> QED
      BY <1>10, <3>1, <3>2, <3>3
  <2>2. ASSUME NEW i \in 1 .. Len(Tail(w)), NEW j \in 1 .. Len(Tail(w)), i < j
        PROVE  Tail(w)[i].sequence < Tail(w)[j].sequence
    <3>1. i \in 1 .. Len(w) - 1 /\ j \in 1 .. Len(w) - 1 /\ i + 1 < j + 1
      BY <1>5, <2>2
    <3>2. w[i + 1].sequence < w[j + 1].sequence
      BY <1>1, <1>10, <3>1 DEF ChannelOK, WireOK, w
    <3> QED
      BY <1>10, <3>1, <3>2
  <2> QED
    BY <1>2, <1>3, <2>1, <2>2 DEF WireOK
<1>15. QueueOK(c)'
  <2>1. ASSUME active[c] # NoFrame
        PROVE  /\ active[c].session = session
               /\ 0 < active[c].sequence /\ active[c].sequence <= handled
               /\ f.sequence < active[c].sequence
               /\ Newer(active[c], f)
               /\ \A i \in 1 .. Len(Tail(w)) :
                    Tail(w)[i].sequence < active[c].sequence
    <3>1. /\ active[c].session = session
          /\ 0 < active[c].sequence /\ active[c].sequence <= handled
          /\ \A i \in 1 .. Len(w) : w[i].sequence < active[c].sequence
      BY <1>1, <2>1 DEF ChannelOK, QueueOK, w
    <3>2. link[c] = "open"
      BY <1>1, <2>1 DEF ChannelOK, LinkOK
    <3>3. f.sequence < active[c].sequence
      BY <1>5, <3>1
    <3>4. Newer(active[c], f)
      BY <1>4, <1>5, <1>6, <3>1, <3>2, <3>3 DEF Newer, Frame
    <3>5. \A i \in 1 .. Len(Tail(w)) :
            Tail(w)[i].sequence < active[c].sequence
      BY <1>5, <1>10, <3>1
    <3> QED
      BY <3>1, <3>3, <3>4, <3>5
  <2> QED
    BY <1>1, <1>2, <1>3, <2>1 DEF ChannelOK, QueueOK
<1>16. TailOK(c)'
  <2>1. CASE Tail(w) = <<>>
    <3>1. Len(w) = 1
      <4>0. Len(<<>>) = 0
        OBVIOUS
      <4>1. Len(Tail(w)) = 0
        BY <2>1, <4>0, Zenon
      <4>2. Len(Tail(w)) = Len(w) - 1 /\ Len(w) \in Nat
        BY <1>5
      <4> QED
        BY <4>1, <4>2
    <3>2. link[c] = "open" /\ handled > 0 /\ active[c] = NoFrame
            => f.sequence = handled /\ f.session = session
      BY <1>1, <1>3, <1>5, <1>6, <3>1 DEF ChannelOK, TailOK, w
    <3> QED
      BY <1>1, <1>2, <1>3, <2>1, <3>2 DEF ChannelOK, TailOK
  <2>2. CASE Tail(w) # <<>>
    <3>1. Len(Tail(w)) \in 1 .. Len(w) - 1
      BY <1>5, <2>2
    <3>2. Tail(w)[Len(Tail(w))] = w[Len(w)]
      <4>1. Tail(w)[Len(Tail(w))] = w[Len(Tail(w)) + 1]
        BY <1>10, <3>1
      <4>2. Len(Tail(w)) + 1 = Len(w)
        <5>1. Len(Tail(w)) = Len(w) - 1 /\ Len(w) \in Nat
          BY <1>5
        <5> QED
          BY <5>1
      <4> QED
        BY <4>1, <4>2
    <3>3. w # <<>>
      BY <1>3
    <3> QED
      BY <1>1, <1>2, <1>3, <2>2, <3>2, <3>3 DEF ChannelOK, TailOK, w
  <2> QED
    BY <2>1, <2>2
<1> QED
  BY <1>11, <1>12, <1>13, <1>14, <1>15, <1>16 DEF ChannelOK

\* A client that loses or closes its connection without an undelivered frame.
LEMMA ClosedOK ==
  ASSUME IInv, NEW c \in Clients, UNCHANGED producer,
         link'[c] = "none", active'[c] = NoFrame, pending'[c] = NoFrame,
         wire'[c] = <<>>, accepted'[c] = accepted[c], latest'[c] = NoFrame,
         view'[c] = accepted[c],
         phase'[c] \in {"waiting", "stopped"},
         phase'[c] = "waiting" => ~ scheduled'[c] /\ ~ timer'[c]
  PROVE  ChannelOK(c)'
<1>1. Limit' = Limit
  BY ProducerStays
<1>2. PhaseOK(c)' /\ LinkOK(c)'
  BY DEF PhaseOK, LinkOK
<1>3. DeliveryOK(c)'
  BY <1>1 DEF IInv, ChannelOK, DeliveryOK
<1>4. WireOK(c)' /\ QueueOK(c)' /\ TailOK(c)'
  BY DEF WireOK, QueueOK, TailOK
<1> QED
  BY <1>2, <1>3, <1>4 DEF ChannelOK

\* Whichever of the two is delivered, the accepted frame is.
LEMMA DeliverAccepted ==
  ASSUME IInv, NEW c \in Clients, DeliverLatest(c)
  PROVE  view'[c] = accepted[c]
<1>1. TypeOK /\ DeliveryOK(c)
  BY DEF IInv, ChannelOK
<1> QED
  BY <1>1 DEF DeliverLatest, DeliveryOK, TypeOK

\* A rejected frame is the first of its connection: nothing is undelivered.
LEMMA RejectFrameOK ==
  ASSUME IInv, NEW c \in Clients, RejectFrame(c)
  PROVE  ChannelOK(c)'
<1>1. TypeOK /\ ChannelOK(c) /\ UNCHANGED producer
  BY DEF IInv, RejectFrame
<1>2. latest[c] = NoFrame
  <2>1. wire[c] \in Seq(Frame) /\ wire[c] # <<>> /\ accepted[c] \in Frame
    BY <1>1 DEF RejectFrame, TypeOK
  <2>2. 1 \in 1 .. Len(wire[c]) /\ Head(wire[c]) = wire[c][1]
        /\ wire[c][1] \in Frame
    BY <2>1, TailFrame
  <2>3. ~ Newer(wire[c][1], accepted[c])
    BY <2>1, <2>2 DEF RejectFrame, Rollback, Newer, Frame
  <2> QED
    BY <1>1, <2>2, <2>3 DEF ChannelOK, WireOK
<1>3. view[c] = accepted[c]
  BY <1>1, <1>2 DEF ChannelOK, DeliveryOK
<1>4. /\ link'[c] = "none" /\ active'[c] = NoFrame /\ pending'[c] = NoFrame
      /\ wire'[c] = <<>> /\ accepted'[c] = accepted[c] /\ latest'[c] = NoFrame
      /\ view'[c] = view[c] /\ phase'[c] = "waiting"
      /\ scheduled'[c] = FALSE /\ timer'[c] = FALSE
  BY <1>1 DEF RejectFrame, Goto, CloseSocket, CancelDelivery, DropLatest, TypeOK
<1> QED
  BY <1>1, <1>3, <1>4, ClosedOK

LEMMA ReadErrorOK ==
  ASSUME IInv, NEW c \in Clients, ReadError(c)
  PROVE  ChannelOK(c)'
<1>1. TypeOK /\ UNCHANGED producer
  BY DEF IInv, ReadError
<1>2. view'[c] = accepted[c]
  BY DeliverAccepted DEF ReadError, FlushLatest
<1>3. /\ link'[c] = "none" /\ active'[c] = NoFrame /\ pending'[c] = NoFrame
      /\ wire'[c] = <<>> /\ accepted'[c] = accepted[c] /\ latest'[c] = NoFrame
      /\ phase'[c] = "waiting" /\ scheduled'[c] = FALSE /\ timer'[c] = FALSE
  BY <1>1 DEF ReadError, Goto, CloseSocket, FlushLatest, CancelDelivery,
              DropLatest, TypeOK
<1> QED
  BY <1>1, <1>2, <1>3, ClosedOK

LEMMA DeliveryDueOK ==
  ASSUME IInv, NEW c \in Clients, DeliveryDue(c)
  PROVE  ChannelOK(c)'
<1>1. TypeOK /\ ChannelOK(c) /\ UNCHANGED producer
  BY DEF IInv, DeliveryDue
<1>2. /\ up' = up /\ session' = session /\ handled' = handled /\ Limit' = Limit
  BY <1>1, ProducerStays
<1>3. view'[c] = accepted[c]
  BY DeliverAccepted DEF DeliveryDue
<1>4. /\ phase[c] = "reading" /\ phase'[c] = "reading"
      /\ link'[c] = link[c] /\ active'[c] = active[c]
      /\ pending'[c] = pending[c] /\ wire'[c] = wire[c]
      /\ accepted'[c] = accepted[c] /\ latest'[c] = NoFrame
      /\ scheduled'[c] = FALSE /\ timer'[c] = FALSE
  BY <1>1 DEF DeliveryDue, Connected, CancelDelivery, DropLatest, server, TypeOK
<1>5. PhaseOK(c)' /\ LinkOK(c)'
  BY <1>1, <1>2, <1>4 DEF ChannelOK, PhaseOK, LinkOK
<1>6. DeliveryOK(c)'
  BY <1>1, <1>2, <1>3, <1>4 DEF ChannelOK, DeliveryOK
<1>7. WireOK(c)'
  BY <1>1, <1>2, <1>4 DEF ChannelOK, WireOK
<1>8. QueueOK(c)' /\ TailOK(c)'
  BY <1>1, <1>2, <1>4 DEF ChannelOK, QueueOK, TailOK
<1> QED
  BY <1>5, <1>6, <1>7, <1>8 DEF ChannelOK

LEMMA StopClientOK ==
  ASSUME IInv, NEW c \in Clients, StopClient(c)
  PROVE  ChannelOK(c)'
<1>1. TypeOK /\ ChannelOK(c) /\ UNCHANGED producer
  BY DEF IInv, StopClient
<1>2. /\ up' = up /\ session' = session /\ handled' = handled /\ Limit' = Limit
  BY <1>1, ProducerStays
<1>3. /\ link'[c] = "none" /\ active'[c] = NoFrame /\ pending'[c] = NoFrame
      /\ wire'[c] = <<>> /\ accepted'[c] = accepted[c]
      /\ latest'[c] = latest[c] /\ view'[c] = view[c]
      /\ phase'[c] \in {"aborting", "stopped"}
  BY <1>1 DEF StopClient, Goto, CloseSocket, TypeOK
<1>4. PhaseOK(c)' /\ LinkOK(c)'
  BY <1>3 DEF PhaseOK, LinkOK
<1>5. DeliveryOK(c)'
  BY <1>1, <1>2, <1>3 DEF ChannelOK, DeliveryOK
<1>6. WireOK(c)' /\ QueueOK(c)' /\ TailOK(c)'
  BY <1>3 DEF WireOK, QueueOK, TailOK
<1> QED
  BY <1>4, <1>5, <1>6 DEF ChannelOK

LEMMA ReadAbortedOK ==
  ASSUME IInv, NEW c \in Clients, ReadAborted(c)
  PROVE  ChannelOK(c)'
<1>1. TypeOK /\ ChannelOK(c) /\ UNCHANGED producer
  BY DEF IInv, ReadAborted
<1>2. view'[c] = accepted[c]
  BY DeliverAccepted DEF ReadAborted, FlushLatest
<1>3. link[c] = "none" /\ active[c] = NoFrame /\ pending[c] = NoFrame
      /\ wire[c] = <<>>
  BY <1>1 DEF ReadAborted, ChannelOK, PhaseOK, LinkOK
<1>4. /\ link'[c] = link[c] /\ active'[c] = active[c]
      /\ pending'[c] = pending[c] /\ wire'[c] = wire[c]
      /\ accepted'[c] = accepted[c] /\ latest'[c] = NoFrame
      /\ phase'[c] = "stopped"
  BY <1>1 DEF ReadAborted, Goto, FlushLatest, DropLatest, server, TypeOK
<1> QED
  BY <1>1, <1>2, <1>3, <1>4, ClosedOK

LEMMA ClientOK ==
  ASSUME IInv, NEW c \in Clients, ClientStep(c)
  PROVE  ChannelOK(c)' /\ ProducerOK'
<1>1. UNCHANGED producer
  BY DEF ClientStep, StartClient, Connect, ConnectFails, Reconnect, ReadFrame,
         RejectFrame, ReadError, DeliveryDue, StopClient, ReadAborted, ViewAges
<1>2. ProducerOK'
  BY <1>1, ProducerStays
<1>3. ASSUME ViewAges(c) PROVE ChannelOK(c)'
  <2>1. TypeOK /\ ChannelOK(c) /\ Unmoved(c)
    BY <1>3 DEF IInv, ViewAges, Unmoved, server
  <2> QED
    BY <1>1, <2>1, UnmovedOK, ProducerStays
<1> QED
  BY <1>2, <1>3, ConnectOK, ReadFrameOK, RejectFrameOK, ReadErrorOK,
     DeliveryDueOK, StopClientOK, ReadAbortedOK DEF ClientStep

-----------------------------------------------------------------------------
(* The theorems.                                                           *)

\* Every step keeps the invariant.
LEMMA InvNext == IInv /\ [Next]_vars => IInv'
<1> SUFFICES ASSUME IInv, [Next]_vars PROVE IInv'
  OBVIOUS
<1>1. TypeOK'
  BY TypeNext DEF IInv
<1>2. CASE UNCHANGED vars
  <2>1. UNCHANGED producer /\ \A c \in Clients : Unmoved(c)
    BY <1>2 DEF vars, server, client, delivery, Unmoved
  <2>2. \A c \in Clients : ChannelOK(c)'
    BY <2>1, UnmovedOK, ProducerStays DEF IInv
  <2> QED
    BY <1>1, <2>1, <2>2, ProducerStays DEF IInv
<1>3. CASE StartProducer
  <2>1. ProducerOK'
    BY <1>3 DEF StartProducer, ProducerOK
  <2> QED
    BY <1>1, <1>3, <2>1, StartProducerOK DEF IInv
<1>4. CASE Crash
  <2>1. ProducerOK'
    BY <1>4 DEF Crash, ProducerOK
  <2> QED
    BY <1>1, <1>4, <2>1, CrashOK DEF IInv
<1>5. CASE Update \/ ForcedUpdate \/ IntervalElapses
  <2>1. ProducerOK'
    <3>1. TypeOK /\ ProducerOK
      BY DEF IInv
    <3>2. up' = up /\ (sequence' = sequence \/ sequence' = sequence + 1)
      BY <1>5 DEF Update, ForcedUpdate, Publish, IntervalElapses
    <3> QED
      BY <3>1, <3>2 DEF ProducerOK, TypeOK
  <2> QED
    BY <1>1, <1>5, <2>1, PublishOK DEF IInv
<1>6. CASE HandlePublish
  <2>1. ProducerOK'
    BY <1>6 DEF HandlePublish, ProducerOK, IInv
  <2> QED
    BY <1>1, <1>6, <2>1, HandlePublishOK DEF IInv
<1>7. ASSUME NEW d \in Clients,
             Accept(d) \/ WriteDone(d) \/ Break(d) \/ ClientStep(d)
      PROVE  IInv'
  <2>1. ASSUME NEW c \in Clients
        PROVE  ChannelOK(c)' /\ ProducerOK'
    BY <1>7, AcceptOK, WriteDoneOK, BreakOK, ClientOK, OtherClient
  <2> QED
    BY <1>1, <2>1 DEF IInv
<1> QED
  BY <1>2, <1>3, <1>4, <1>5, <1>6, <1>7 DEF Next

\* IInv holds in every reachable state.
THEOREM Inductive == Spec => []IInv
BY InvInit, InvNext, PTL DEF Spec

\* A frame the client accepted is in the engine or on its way there.
THEOREM AcceptedSafe == Spec => []AcceptedNeverLost
<1>1. IInv => AcceptedNeverLost
  BY DEF IInv, ChannelOK, DeliveryOK, AcceptedNeverLost
<1> QED
  BY <1>1, Inductive, PTL

\* A quiet connection has given its client the newest frame.
THEOREM CurrentWhenQuiet == Spec => []QuietMeansCurrent
<1>1. IInv => QuietMeansCurrent
  <2> SUFFICES ASSUME IInv, NEW c \in Clients, up, handled = sequence,
                      link[c] = "open", active[c] = NoFrame, wire[c] = <<>>
               PROVE  accepted[c] = Produced
    BY DEF QuietMeansCurrent
  <2>1. TypeOK /\ ChannelOK(c) /\ sequence >= 1
    BY DEF IInv, ProducerOK
  <2>2. accepted[c].session = session /\ accepted[c].sequence = sequence
    BY <2>1 DEF ChannelOK, TailOK, TypeOK
  <2>3. accepted[c] \in Frame /\ Produced \in Frame
        /\ Produced.session = session /\ Produced.sequence = sequence
    BY <2>1 DEF TypeOK, Produced, Frame
  <2> QED
    BY <2>2, <2>3, FrameEq
<1> QED
  BY <1>1, Inductive, PTL

\* A frame that waits for its delivery has a timer.
THEOREM ScheduledSafe == Spec => []AcceptedIsScheduled
<1>1. IInv => AcceptedIsScheduled
  BY DEF IInv, ChannelOK, PhaseOK, AcceptedIsScheduled, Connected
<1> QED
  BY <1>1, Inductive, PTL

-----------------------------------------------------------------------------
(* The refinement.                                                         *)

\* A delivery is an observation of a newer frame, or none.
LEMMA DeliverObserves ==
  ASSUME IInv, NEW c \in Clients, DeliverLatest(c), UNCHANGED producer
  PROVE  Register!Observe(c) \/ (view' = view /\ Produced' = Produced)
<1>1. TypeOK /\ DeliveryOK(c)
  BY DEF IInv, ChannelOK
<1>2. Produced' = Produced
  BY DEF Produced, producer
<1>3. CASE latest[c] = NoFrame
  BY <1>2, <1>3 DEF DeliverLatest
<1>4. CASE latest[c] # NoFrame
  <2>1. /\ view' = [view EXCEPT ![c] = latest[c]]
        /\ latest[c] = accepted[c] /\ Newer(accepted[c], view[c])
        /\ ~ Newer(accepted[c], Limit)
    BY <1>1, <1>4 DEF DeliverLatest, DeliveryOK
  <2>2. /\ accepted[c] \in Frame /\ Produced \in Frame /\ Limit \in Frame
    BY <1>1, LimitType DEF TypeOK, Produced, Frame
  <2>3. ~ Newer(Limit, Produced)
    BY <1>1 DEF Limit, Produced, Newer, TypeOK
  <2>4. ~ Newer(accepted[c], Produced)
    BY <2>1, <2>2, <2>3, LimitGrows
  <2>5. view'[c] = accepted[c]
    BY <1>1, <2>1 DEF TypeOK
  <2>6. view' = [view EXCEPT ![c] = view'[c]]
    BY <2>1, <2>5
  <2> QED
    BY <1>2, <2>1, <2>2, <2>4, <2>5, <2>6
       DEF Register!Observe, Register!Newer, Register!Frame, Newer, Frame,
           Produced
<1> QED
  BY <1>3, <1>4

LEMMA RefinesNext ==
  IInv /\ [Next]_vars => [Register!Next]_<<Produced, view>>
<1> SUFFICES ASSUME IInv, [Next]_vars
             PROVE  [Register!Next]_<<Produced, view>>
  OBVIOUS
<1>1. TypeOK
  BY DEF IInv
<1>2. CASE UNCHANGED vars
  BY <1>2 DEF vars, producer, client, delivery, Produced
<1>3. CASE StartProducer
  <2>1. view' = view /\ session' = session + 1 /\ sequence' = 1
    BY <1>3 DEF StartProducer, NewSession, client, delivery
  <2>2. Produced' \in Frame /\ Newer(Produced', Produced)
    BY <1>1, <2>1 DEF Produced, Frame, Newer, TypeOK
  <2> QED
    BY <2>1, <2>2 DEF Register!Next, Register!Produce, Register!Newer,
                      Register!Frame, Produced, Newer, Frame
<1>4. CASE Update \/ ForcedUpdate
  <2>1. view' = view /\ session' = session /\ sequence' = sequence + 1
    BY <1>4 DEF Update, ForcedUpdate, Publish, client, delivery
  <2>2. Produced' \in Frame /\ Newer(Produced', Produced)
    BY <1>1, <2>1 DEF Produced, Frame, Newer, TypeOK
  <2> QED
    BY <2>1, <2>2 DEF Register!Next, Register!Produce, Register!Newer,
                      Register!Frame, Produced, Newer, Frame
<1>5. CASE Crash \/ IntervalElapses \/ HandlePublish
  BY <1>5 DEF Crash, IntervalElapses, HandlePublish, client, delivery, Produced
<1>6. ASSUME NEW c \in Clients, Accept(c) \/ WriteDone(c) \/ Break(c)
      PROVE  UNCHANGED <<Produced, view>>
  BY <1>6 DEF Accept, WriteDone, Break, producer, client, delivery, Produced
<1>7. ASSUME NEW c \in Clients,
             ReadError(c) \/ DeliveryDue(c) \/ ReadAborted(c)
      PROVE  [Register!Next]_<<Produced, view>>
  <2>1. DeliverLatest(c) /\ UNCHANGED producer
    BY <1>7 DEF ReadError, DeliveryDue, ReadAborted, FlushLatest
  <2> QED
    BY <2>1, DeliverObserves DEF Register!Next
<1>8. ASSUME NEW c \in Clients,
             \/ StartClient(c) \/ Connect(c) \/ ConnectFails(c) \/ Reconnect(c)
             \/ ReadFrame(c) \/ RejectFrame(c) \/ StopClient(c) \/ ViewAges(c)
      PROVE  UNCHANGED <<Produced, view>>
  BY <1>8 DEF StartClient, Connect, ConnectFails, Reconnect, ReadFrame,
              RejectFrame, StopClient, ViewAges, producer, delivery, Produced
<1> QED
  BY <1>2, <1>3, <1>4, <1>5, <1>6, <1>7, <1>8 DEF Next, ClientStep

\* The channel implements the register.
THEOREM Implements == Spec => ImplementsRegister
<1>1. Init => Register!Init
  BY DEF Init, Register!Init, Register!NoFrame, NoFrame
<1>2. IInv /\ [Next]_vars => [Register!Next]_<<Produced, view>>
  BY RefinesNext
<1>3. [Register!Next]_<<Produced, view>>
        => [Register!Next]_<<[session |-> session, sequence |-> sequence], view>>
  BY DEF Produced
<1> QED
  BY <1>1, <1>2, <1>3, Inductive, PTL DEF Spec, ImplementsRegister, Register!Spec

=============================================================================
