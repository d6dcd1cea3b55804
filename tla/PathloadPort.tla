--------------------------- MODULE PathloadPort ---------------------------
(***************************************************************************)
(* The ns-3 port of Pathload: the two applications PathloadSender and      *)
(* PathloadReceiver, the TCP control connection between them, the UDP path *)
(* that carries the probe packets, and the simulator events the sender     *)
(* schedules for itself.                                                   *)
(*                                                                         *)
(* Variables keep the names of the class members they stand for. The       *)
(* members that both classes have are told apart by a prefix: s_ for the   *)
(* sender, r_ for the receiver. Every action is one event of the simulator *)
(* and runs a whole callback. Delays are not modelled here (SenderTiming   *)
(* is about them): any scheduled event may be the next one.                *)
(*                                                                         *)
(* One-way delays are abstracted to where they come from: a cell of m_owd  *)
(* holds the stream whose packet was sampled, m_pct[i] the streams whose   *)
(* samples the metric was computed from, m_pct_med[f] the provenance of    *)
(* all the metrics the summary of fleet f was computed from. m_pdt and     *)
(* m_pdt_med are written together with them, from the same data.           *)
(***************************************************************************)
EXTENDS Integers, Sequences, FiniteSets

CONSTANTS
    NumStream,       \* m_num_stream: streams of a fleet (12)
    StreamLen,       \* m_stream_len: packets of a stream (100)
    Period,          \* m_stream_period and m_period: 9*m_stream_len*80
    MaxLoss,         \* probe packets of one stream the path may lose
    InOrder,         \* the path delivers in the order of sending
    CoalesceReads,   \* one TCP read may return several control messages
    AssertsEnabled,  \* NS_ASSERT evaluates its argument (debug build)
    MayStop          \* StopApplication may run during the measurement

\* With one stream per fleet m_stream_id would run out of m_pct at once.
ASSUME NumStreamAssumption == NumStream \in Nat /\ NumStream >= 2
ASSUME StreamLenAssumption == StreamLen \in Nat \ {0}
ASSUME PeriodAssumption == Period \in Nat \ {0}
ASSUME PathAssumption ==
    /\ MaxLoss \in 0..StreamLen
    /\ {InOrder, CoalesceReads, AssertsEnabled, MayStop} \subseteq BOOLEAN

\* Control words, as the l_int32 they are compared as: CTR_CODE is the top bit,
\* so a code is negative and differs from every packet size.
CTR_CODE        == -2147483647 - 1
SEND_FLEET      == CTR_CODE + 1
CONTINUE_STREAM == CTR_CODE + 3
FINISHED_STREAM == CTR_CODE + 7

\* The "SegmentSize" both ends give their TCP socket, and the largest UDP
\* payload that goes with a segment size: an unknown one, or the usual one,
\* stands for Ethernet.
SegmentSize   == 1448
MaxPktSz(mss) == IF mss \in {0, 1448} THEN 1472 ELSE mss + 12

Words == {MaxPktSz(SegmentSize), SEND_FLEET, CONTINUE_STREAM, FINISHED_STREAM}

Min2(a, b) == IF a < b THEN a ELSE b

Streams  == 0..NumStream-1
PktIds   == 0..StreamLen-1
\* A stream as the sender numbers it in a packet header: <<fleet id, stream id>>.
Tags     == (0..Period) \X Streams
NoSample == <<>>                  \* an m_owd cell that is 0.0
NoSummary == <<>>                 \* an m_pct_med cell never written
Packets  == [stream : Tags, pkt_id : PktIds]

\* What the sender can have scheduled for itself.
Events == [op : {"SendFleet", "SendPacketStream", "SendControlMessage"},
           pkt_id : 0..StreamLen]
SendFleetEvent       == [op |-> "SendFleet", pkt_id |-> 0]
SendSamePacketEvent(k) ==                              \* mutant: pkt_id++ for ++pkt_id
    [op |-> "SendPacketStream", pkt_id |-> k - 1]
SendPacketEvent(k)   == [op |-> "SendPacketStream", pkt_id |-> k]
FinishedEvent        == [op |-> "SendControlMessage", pkt_id |-> 0]

VARIABLES
    conn,               \* progress of the two StartApplications and the connection
    s_stopped,          \* PathloadSender::StopApplication has run
    r_stopped,          \* PathloadReceiver::StopApplication has run
    m_fleet_cnt,        \* sender: fleet being sent
    m_stream_cnt,       \* sender: streams of the fleet sent so far
    m_rcv_max_pkt_sz,   \* sender: what the receiver told, 0 before
    s_max_pkt_sz,       \* sender's m_max_pkt_sz
    lost,               \* probe packets of the current stream the path lost
    stream_lost,        \* history: the path lost all packets of some stream
    agenda,             \* sender's events pending in the simulator
    m_snd_max_pkt_sz,   \* receiver: what the sender told, 0 before
    r_max_pkt_sz,       \* receiver's m_max_pkt_sz
    m_fleet_id,         \* receiver: fleet id of the last probe packet
    m_stream_id,        \* receiver: stream the next metrics are stored under
    m_owd,              \* receiver: one cell per packet of a stream
    m_pct,              \* receiver: metric per stream of the current fleet
    m_pct_med,          \* receiver: summary per fleet
    streams_measured,   \* history: number of calls of GetMetrics
    toRcv, toSnd,       \* the two directions of the TCP control stream
    probes              \* UDP probe packets in flight

senderVars   == <<m_fleet_cnt, m_stream_cnt, m_rcv_max_pkt_sz, s_max_pkt_sz>>
metricVars   == <<m_fleet_id, m_stream_id, m_owd, m_pct, m_pct_med, streams_measured>>
receiverVars == <<m_snd_max_pkt_sz, r_max_pkt_sz, metricVars>>
pathVars     == <<probes, lost, stream_lost>>
lifeVars     == <<conn, s_stopped, r_stopped>>
vars == <<lifeVars, senderVars, agenda, receiverVars, toRcv, toSnd, pathVars>>

Init ==
    /\ conn = "idle"
    /\ s_stopped = FALSE /\ r_stopped = FALSE
    /\ m_fleet_cnt = 0 /\ m_stream_cnt = 0
    /\ m_rcv_max_pkt_sz = 0 /\ s_max_pkt_sz = 0
    /\ agenda = <<>>
    /\ m_snd_max_pkt_sz = 0 /\ r_max_pkt_sz = 0
    /\ m_fleet_id = 0 /\ m_stream_id = 0
    /\ m_owd = [k \in PktIds |-> NoSample]
    /\ m_pct = [i \in Streams |-> {}]
    /\ m_pct_med = [f \in 0..Period-1 |-> NoSummary]
    /\ streams_measured = 0
    /\ toRcv = <<>> /\ toSnd = <<>>
    /\ probes = {} /\ lost = 0 /\ stream_lost = FALSE

-----------------------------------------------------------------------------
(* Starting up. The scenario starts the sender before the receiver.        *)

\* PathloadSender::StartApplication: the TCP socket listens.
SenderStart ==
    /\ conn = "idle"
    /\ conn' = "listening"
    /\ UNCHANGED <<s_stopped, r_stopped, senderVars, agenda, receiverVars,
                   toRcv, toSnd, pathVars>>

\* PathloadReceiver::StartApplication: Connect.
ReceiverStart ==
    /\ conn = "listening"
    /\ conn' = "connecting"
    /\ UNCHANGED <<s_stopped, r_stopped, senderVars, agenda, receiverVars,
                   toRcv, toSnd, pathVars>>

\* PathloadReceiver::HandleConnected: only the segment size is read.
HandleConnected ==
    /\ conn = "connecting"
    /\ conn' = "connected"
    /\ UNCHANGED <<s_stopped, r_stopped, senderVars, agenda, receiverVars,
                   toRcv, toSnd, pathVars>>

\* The channel after Send(m): nothing is sent by a build whose NS_ASSERT drops
\* its argument, nor on a socket that was closed.
AfterSendTwice(channel, m, closed) ==                   \* mutant of AfterSend
    IF AssertsEnabled /\ ~closed THEN channel \o <<m, m>> ELSE channel

AfterSend(channel, m, closed) ==
    IF AssertsEnabled /\ ~closed THEN Append(channel, m) ELSE channel

\* PathloadSender::HandleAccept and MainLoopPart1.
HandleAccept ==
    /\ conn = "connected"
    /\ conn' = "accepted"
    /\ toRcv' = AfterSend(toRcv, MaxPktSz(SegmentSize), s_stopped)
    /\ UNCHANGED <<s_stopped, r_stopped, senderVars, agenda, receiverVars,
                   toSnd, pathVars>>

-----------------------------------------------------------------------------
(* The sender.                                                             *)

\* The agenda without its i-th event.
Without(i) == [j \in 1..Len(agenda)-1 |-> agenda[IF j < i THEN j ELSE j + 1]]

\* The k-th packet of the stream goes to the path, which loses it or not; a
\* closed socket does not send it.
SendProbe(k) ==
    LET lostBefore == IF k = 0 THEN 0 ELSE lost IN
    \/ /\ s_stopped
       /\ UNCHANGED pathVars
    \/ /\ ~s_stopped
       /\ probes' = probes \cup
             {[stream |-> <<m_fleet_cnt, m_stream_cnt>>, pkt_id |-> k]}
       /\ lost' = lostBefore
       /\ UNCHANGED stream_lost
    \/ /\ ~s_stopped
       /\ lostBefore < MaxLoss
       /\ lost' = lostBefore + 1
       /\ stream_lost' = (stream_lost \/ lost' = StreamLen)
       /\ UNCHANGED probes

\* One call of SendPacketStream(pkt_buf, k), given the events that stay on the
\* agenda: the k-th packet is sent and the next call scheduled, or, when all
\* packets are out, the stream is counted and FINISHED_STREAM scheduled.
SendPacketStream(k, rest) ==
    \/ /\ k < StreamLen
       /\ SendProbe(k)
       /\ agenda' = Append(rest, SendPacketEvent(k + 1))
       /\ UNCHANGED m_stream_cnt
    \/ /\ k >= StreamLen
       /\ m_stream_cnt' = m_stream_cnt + 1
       /\ agenda' = Append(rest, FinishedEvent)
       /\ UNCHANGED pathVars

\* A fleet is followed by another one. The counter of the fleets is compared
\* with m_stream_period, the length of a stream period in microseconds.
MoreFleetsOneTooFew  == m_fleet_cnt < Period - 1        \* mutant of MoreFleets
MoreFleetsOneTooMany == m_fleet_cnt <= Period           \* mutant of MoreFleets

MoreFleets == m_fleet_cnt < Period

\* The answer to CONTINUE_STREAM: the next stream of the fleet is scheduled, or
\* the first one of the next fleet, or nothing once fleet Period was sent.
ContinueStream ==
    \/ /\ m_stream_cnt < NumStream
       /\ agenda' = Append(agenda, SendFleetEvent)
       /\ UNCHANGED <<m_stream_cnt, m_fleet_cnt>>
    \/ /\ m_stream_cnt >= NumStream
       /\ MoreFleets
       /\ m_stream_cnt' = 0
       /\ m_fleet_cnt' = m_fleet_cnt + 1
       /\ agenda' = Append(agenda, SendFleetEvent)
    \/ /\ m_stream_cnt >= NumStream
       /\ ~MoreFleets
       /\ UNCHANGED <<m_stream_cnt, m_fleet_cnt, agenda>>

\* A read takes whatever has arrived, up to a segment; HandleRecv then looks at
\* the first control word only. These are the numbers of words it may take.
MayRead(channel) == {n \in 1..Len(channel) : CoalesceReads \/ n = 1}

\* The sender's HandleRecv when the first word it reads is ctr_code.
SenderReacts(ctr_code) ==
    \/ /\ m_rcv_max_pkt_sz = 0
       /\ m_rcv_max_pkt_sz' = ctr_code
       /\ s_max_pkt_sz' = Min2(ctr_code, MaxPktSz(SegmentSize))
       /\ UNCHANGED <<m_fleet_cnt, m_stream_cnt, agenda, pathVars>>
    \/ /\ m_rcv_max_pkt_sz # 0
       /\ ctr_code = SEND_FLEET
       /\ SendPacketStream(0, agenda)
       /\ UNCHANGED <<m_fleet_cnt, m_rcv_max_pkt_sz, s_max_pkt_sz>>
    \/ /\ m_rcv_max_pkt_sz # 0
       /\ ctr_code = CONTINUE_STREAM
       /\ ContinueStream
       /\ UNCHANGED <<m_rcv_max_pkt_sz, s_max_pkt_sz, pathVars>>
    \/ /\ m_rcv_max_pkt_sz # 0
       /\ ctr_code \notin {SEND_FLEET, CONTINUE_STREAM}
       /\ UNCHANGED <<senderVars, agenda, pathVars>>

SenderHandleRecv ==
    /\ conn = "accepted" /\ ~s_stopped
    /\ \E n \in MayRead(toSnd) :
         /\ toSnd' = SubSeq(toSnd, n + 1, Len(toSnd))
         /\ SenderReacts(Head(toSnd))
    /\ UNCHANGED <<lifeVars, receiverVars, toRcv>>

\* The simulator runs an event the sender scheduled. Stopping cancels none.
RunEvent ==
    /\ \E i \in 1..Len(agenda) :
         \/ /\ agenda[i].op = "SendFleet"
            /\ SendPacketStream(0, Without(i))
            /\ UNCHANGED toRcv
         \/ /\ agenda[i].op = "SendPacketStream"
            /\ SendPacketStream(agenda[i].pkt_id, Without(i))
            /\ UNCHANGED toRcv
         \/ /\ agenda[i].op = "SendControlMessage"
            /\ toRcv' = AfterSend(toRcv, FINISHED_STREAM, s_stopped)
            /\ agenda' = Without(i)
            /\ UNCHANGED <<m_stream_cnt, pathVars>>
    /\ UNCHANGED <<lifeVars, m_fleet_cnt, m_rcv_max_pkt_sz, s_max_pkt_sz,
                   receiverVars, toSnd>>

\* PathloadSender::StopApplication closes the sockets. (The scenario stops the
\* applications long after the connection was made.)
SenderStop ==
    /\ MayStop /\ conn = "accepted"
    /\ s_stopped' = TRUE
    /\ UNCHANGED <<conn, r_stopped, senderVars, agenda, receiverVars,
                   toRcv, toSnd, pathVars>>

-----------------------------------------------------------------------------
(* The receiver.                                                           *)

\* The packet q left the sender before the packet p.
SentBefore(q, p) ==
    \/ q.stream[1] < p.stream[1]
    \/ q.stream[1] = p.stream[1] /\ q.stream[2] < p.stream[2]
    \/ q.stream = p.stream /\ q.pkt_id < p.pkt_id

\* The stream a packet makes the receiver store the next metrics under.
KeepStreamId(p) == m_stream_id                         \* mutant of StreamIdOf

StreamIdOf(p) == p.stream[2]

\* PathloadReceiver::HandleRecvfrom: a probe packet arrives, in the order of
\* sending if the path keeps it.
ReceiverHandleRecvfrom ==
    /\ ~r_stopped
    /\ \E p \in probes :
         /\ InOrder => \A q \in probes : ~SentBefore(q, p)
         /\ probes' = probes \ {p}
         /\ m_fleet_id' = p.stream[1]
         /\ m_stream_id' = StreamIdOf(p)
         /\ m_owd' = [m_owd EXCEPT ![p.pkt_id] = p.stream]
    /\ UNCHANGED <<lifeVars, senderVars, agenda, m_snd_max_pkt_sz, r_max_pkt_sz,
                   m_pct, m_pct_med, streams_measured, toRcv, toSnd,
                   lost, stream_lost>>

\* The metrics due are those of the last stream of a fleet that is summarised.
LastOfFleetEarly ==                                    \* mutant of LastOfFleet
    m_stream_id = NumStream - 1 /\ m_fleet_id < Period - 1

LastOfFleet == m_stream_id = NumStream - 1 /\ m_fleet_id < Period

\* m_stream_id after GetMetrics: the reset to 0 at the end of a fleet comes
\* before the increment.
CountOn == m_stream_id + 1                             \* mutant of NextStreamId

NextStreamId == IF LastOfFleet THEN 1 ELSE m_stream_id + 1

\* m_owd after GetMetrics.
SamplesKept == m_owd                                   \* mutant of SamplesCleared

SamplesCleared == [k \in PktIds |-> NoSample]

\* PathloadReceiver::GetMetrics(m_stream_id): the metric of the stream, the
\* summary after the last stream of a fleet, and the reset for the next stream.
GetMetrics ==
    /\ m_pct' = [m_pct EXCEPT ![m_stream_id] =
                    {m_owd[k] : k \in PktIds} \ {NoSample}]
    /\ m_pct_med' = IF LastOfFleet
                    THEN [m_pct_med EXCEPT ![m_fleet_id] = m_pct']
                    ELSE m_pct_med
    /\ m_owd' = SamplesCleared
    /\ m_stream_id' = NextStreamId
    /\ streams_measured' = streams_measured + 1
    /\ UNCHANGED m_fleet_id

\* m_max_pkt_sz once the sender told its size.
DecideTooEarly(told) ==                                \* mutant of DecidedPktSz
    Min2(m_snd_max_pkt_sz, MaxPktSz(SegmentSize))

DecidedPktSz(told) == Min2(told, MaxPktSz(SegmentSize))

\* The receiver's HandleRecv when the first word it reads is ctr_code. The size
\* and SEND_FLEET leave in one callback.
ReceiverReacts(ctr_code) ==
    \/ /\ m_snd_max_pkt_sz = 0
       /\ m_snd_max_pkt_sz' = ctr_code
       /\ r_max_pkt_sz' = DecidedPktSz(ctr_code)
       /\ toSnd' = AfterSend(AfterSend(toSnd, MaxPktSz(SegmentSize), r_stopped),
                             SEND_FLEET, r_stopped)
       /\ UNCHANGED metricVars
    \/ /\ m_snd_max_pkt_sz # 0
       /\ ctr_code = FINISHED_STREAM
       /\ GetMetrics
       /\ toSnd' = AfterSend(toSnd, CONTINUE_STREAM, r_stopped)
       /\ UNCHANGED <<m_snd_max_pkt_sz, r_max_pkt_sz>>
    \/ /\ m_snd_max_pkt_sz # 0
       /\ ctr_code # FINISHED_STREAM
       /\ UNCHANGED <<receiverVars, toSnd>>

\* When the path keeps the order, what was sent on TCP arrives after the probe
\* packets sent before it.
ReceiverHandleRecv ==
    /\ conn \in {"connected", "accepted"} /\ ~r_stopped
    /\ InOrder => probes = {}
    /\ \E n \in MayRead(toRcv) :
         /\ toRcv' = SubSeq(toRcv, n + 1, Len(toRcv))
         /\ ReceiverReacts(Head(toRcv))
    /\ UNCHANGED <<lifeVars, senderVars, agenda, pathVars>>

\* PathloadReceiver::StopApplication closes the sockets and drops the callbacks.
ReceiverStop ==
    /\ MayStop /\ conn = "accepted"
    /\ r_stopped' = TRUE
    /\ UNCHANGED <<conn, s_stopped, senderVars, agenda, receiverVars,
                   toRcv, toSnd, pathVars>>

-----------------------------------------------------------------------------
\* Every callback but the two stops, which nothing forces to happen.
Work ==
    \/ SenderStart \/ ReceiverStart \/ HandleConnected \/ HandleAccept
    \/ SenderHandleRecv \/ RunEvent
    \/ ReceiverHandleRecvfrom \/ ReceiverHandleRecv

Next == Work \/ SenderStop \/ ReceiverStop

Spec == Init /\ [][Next]_vars

\* Simulator::Run goes on while an event is left: a scheduled call, a packet or
\* a segment in flight.
FairSpec == Spec /\ WF_vars(Work)

-----------------------------------------------------------------------------
(* Properties.                                                             *)

\* Every member has a value of its kind: in particular a pending event names a
\* packet of the stream buffer and a cell of m_owd holds a sample or nothing.
TypeOK ==
    /\ conn \in {"idle", "listening", "connecting", "connected", "accepted"}
    /\ s_stopped \in BOOLEAN /\ r_stopped \in BOOLEAN
    /\ m_fleet_cnt \in 0..Period /\ m_stream_cnt \in 0..NumStream
    /\ m_rcv_max_pkt_sz \in Words \cup {0} /\ s_max_pkt_sz \in Words \cup {0}
    /\ lost \in 0..MaxLoss /\ stream_lost \in BOOLEAN
    /\ agenda \in Seq(Events)
    /\ m_snd_max_pkt_sz \in Words \cup {0} /\ r_max_pkt_sz \in Words \cup {0}
    /\ m_fleet_id \in 0..Period /\ m_stream_id \in 0..NumStream
    /\ m_owd \in [PktIds -> Tags \cup {NoSample}]
    /\ m_pct \in [Streams -> SUBSET Tags]
    /\ m_pct_med \in [0..Period-1 -> [Streams -> SUBSET Tags] \cup {NoSummary}]
    /\ streams_measured \in Nat
    /\ toRcv \in Seq(Words) /\ toSnd \in Seq(Words)
    /\ probes \subseteq Packets

\* The next control word makes the receiver compute the metrics of a stream.
MetricsDue ==
    /\ toRcv # <<>>
    /\ Head(toRcv) = FINISHED_STREAM
    /\ m_snd_max_pkt_sz # 0

\* GetMetrics writes m_pct[m_stream_id] and m_pdt[m_stream_id] without checking
\* the index, and m_stream_id can become NumStream: the sender has to stop
\* before the receiver is asked once more. Holds for every loss and reordering
\* of the probe packets.
GetMetricsIndexInBounds == MetricsDue => m_stream_id \in Streams

\* Once the packet sizes are exchanged the two applications take turns: of all
\* pending events and control words on the way there is at most one.
OneTurn ==
    m_rcv_max_pkt_sz # 0 => Len(agenda) + Len(toRcv) + Len(toSnd) <= 1

\* The assertion of HandleRecvfrom: when a probe packet arrives the receiver
\* has decided the size of the buffer it reads it into.
ProbeBufferSized == probes # {} => r_max_pkt_sz # 0

\* Where the path keeps the order: the samples a metric is computed from are
\* those of a single stream, and of the stream whose number the metric is
\* stored under, even after streams that were lost as a whole.
MetricOfOwnStream ==
    InOrder =>
        \A i \in Streams : \A s, t \in m_pct[i] : s = t /\ s[2] = i

\* Where the path keeps the order, and as long as it lost no stream as a whole:
\* the summary of a fleet is computed from all the streams of that fleet and no
\* other.
FleetSummaryComplete ==
    InOrder /\ ~stream_lost =>
        \A f \in 0..Period-1 :
            \/ m_pct_med[f] = NoSummary
            \/ m_pct_med[f] = [i \in Streams |-> {<<f, i>>}]

\* Every stream of the fleets 0..Period that is sent is measured before the next
\* one is sent out. (The history variable counts the calls of GetMetrics.)
StreamsSent == m_fleet_cnt * NumStream + m_stream_cnt
AllStreams  == (Period + 1) * NumStream
Exchange == INSTANCE FleetExchange WITH
                Total <- AllStreams,
                sent <- StreamsSent,
                measured <- streams_measured
ExchangeSpec == Exchange!Spec

\* With debug assertions, separate reads and no stop the exchange runs to its
\* end: all streams of all fleets are sent and measured, in turn.
ExchangeFairSpec == Exchange!FairSpec

\* On a path that keeps the order, and unless it loses a stream as a whole, the
\* receiver ends up with the summaries of all the fleets it has room for.
AllFleetsSummarised ==
    <>[](stream_lost \/ \A f \in 0..Period-1 : m_pct_med[f] # NoSummary)

\* If reads can return several control words, SEND_FLEET may be read together
\* with the packet size and then is ignored; a measurement that started at all
\* is not stopped by this, but only by one of the two StopApplication.
StallOnlyAtStart ==
    (StreamsSent > 0) ~> (streams_measured = AllStreams \/ s_stopped \/ r_stopped)

\* A sender that was stopped in the middle of a stream runs out of events: it
\* does not go on scheduling packets.
StoppedSenderDrains == s_stopped ~> [](agenda = <<>>)

\* "Tell receiver our max packet size." (pathload-sender.cc:286)
ReceiverToldPacketSize == (conn = "accepted") ~> (m_snd_max_pkt_sz # 0)
=============================================================================
