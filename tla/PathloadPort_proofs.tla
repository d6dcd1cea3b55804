------------------------ MODULE PathloadPort_proofs ------------------------
(***************************************************************************)
(* What holds of the ns-3 port for every number of streams, packets and    *)
(* fleets, every loss and reordering of the probe packets, with and        *)
(* without coalesced reads, debug assertions and stops; and, when the path *)
(* keeps the order of what is sent, which packets its metrics come from.   *)
(***************************************************************************)
EXTENDS PathloadPort, SequenceTheorems, TLAPS

SizeWord == MaxPktSz(SegmentSize)

\* Streams sent out whose metrics were not computed yet.
Unmeasured == StreamsSent - streams_measured

\* The number within its fleet of the stream whose metrics are due next.
Due == m_stream_cnt - Unmeasured

-----------------------------------------------------------------------------
(* The inductive invariant: who has the turn, and how far behind the       *)
(* sender the probe packets in flight and the receiver can be.             *)

\* The packet sizes are being exchanged.
Starting ==
    /\ m_rcv_max_pkt_sz = 0
    /\ m_fleet_cnt = 0 /\ m_stream_cnt = 0 /\ streams_measured = 0
    /\ agenda = <<>> /\ probes = {}
    /\ \/ /\ m_snd_max_pkt_sz = 0
          /\ toRcv \in {<<>>, <<SizeWord>>} /\ toSnd = <<>>
          /\ conn # "accepted" => toRcv = <<>>
       \/ /\ m_snd_max_pkt_sz # 0 /\ conn = "accepted"
          /\ toRcv = <<>> /\ toSnd \in {<<>>, <<SizeWord, SEND_FLEET>>}

Running ==
    /\ conn = "accepted"
    /\ m_rcv_max_pkt_sz # 0 /\ m_snd_max_pkt_sz # 0

\* The sender was or will be asked for the first stream.
Asked ==
    /\ Running
    /\ m_fleet_cnt = 0 /\ m_stream_cnt = 0 /\ streams_measured = 0
    /\ agenda = <<>> /\ probes = {}
    /\ toRcv = <<>> /\ toSnd \in {<<>>, <<SEND_FLEET>>}

\* A stream is scheduled or being sent.
Streaming ==
    /\ Running
    /\ m_stream_cnt < NumStream /\ streams_measured = StreamsSent
    /\ \/ agenda = <<SendFleetEvent>>
       \/ \E k \in 1..StreamLen : agenda = <<SendPacketEvent(k)>>
    /\ toRcv = <<>> /\ toSnd = <<>>

\* A stream was sent and its end is, or should have been, announced.
Finishing ==
    /\ Running
    /\ m_stream_cnt >= 1 /\ streams_measured = StreamsSent - 1
    /\ \/ agenda = <<FinishedEvent>> /\ toRcv = <<>>
       \/ agenda = <<>> /\ toRcv \in {<<>>, <<FINISHED_STREAM>>}
    /\ toSnd = <<>>

\* A stream was measured and the sender was asked for more, or all is done.
Continuing ==
    /\ Running
    /\ m_stream_cnt >= 1 /\ streams_measured = StreamsSent
    /\ agenda = <<>> /\ toRcv = <<>> /\ toSnd \in {<<>>, <<CONTINUE_STREAM>>}

Turn == Starting \/ Asked \/ Streaming \/ Finishing \/ Continuing

\* No packet in flight belongs to a stream after the one that is due.
ProbesNotAhead ==
    \A p \in probes :
        /\ p.stream[1] <= m_fleet_cnt
        /\ p.stream[1] = m_fleet_cnt => p.stream[2] <= Due

\* In the last fleet, where m_stream_id is not reset, it does not get ahead of
\* the stream that is due; before, the reset keeps it inside m_pct.
ReceiverNotAhead ==
    /\ m_fleet_id <= m_fleet_cnt
    /\ m_fleet_id = Period => m_stream_id <= Due
    /\ m_fleet_id # Period => m_stream_id < NumStream

IInv ==
    /\ TypeOK
    /\ Turn
    /\ ProbesNotAhead
    /\ ReceiverNotAhead
    /\ m_snd_max_pkt_sz # 0 => r_max_pkt_sz # 0

-----------------------------------------------------------------------------
(* Facts about short sequences, words and counters.                        *)

\* The one element of a control channel or agenda, as its head and as what is
\* left without it.
LEMMA OneElement ==
    \A x : /\ <<x>> # <<>> /\ Len(<<x>>) = 1 /\ Head(<<x>>) = x
           /\ Append(<<>>, x) = <<x>>
           /\ SubSeq(<<x>>, 2, Len(<<x>>)) = <<>>
    OBVIOUS

\* The empty agenda has no event to run.
LEMMA LengthZero == ASSUME NEW s, s = <<>> PROVE Len(s) = 0
    OBVIOUS

\* An agenda or channel of one element has length one.
LEMMA LengthOne == ASSUME NEW s, NEW x, s = <<x>> PROVE Len(s) = 1
    OBVIOUS

\* The packet size and SEND_FLEET, sent in one callback, and what is left when
\* the first of them is read.
LEMMA TwoElements ==
    ASSUME NEW x, NEW y
    PROVE  /\ Len(<<x, y>>) = 2 /\ Head(<<x, y>>) = x /\ <<x, y>> # <<>>
           /\ Append(Append(<<>>, x), y) = <<x, y>>
           /\ SubSeq(<<x, y>>, 2, Len(<<x, y>>)) = <<y>>
           /\ SubSeq(<<x, y>>, 3, Len(<<x, y>>)) = <<>>
<1> DEFINE a == Append(<<x>>, y)
           p == <<x, y>>
           b == SubSeq(p, 2, 2)
           q == <<y>>
<1>1. Len(a) = 2 /\ a[1] = x /\ a[2] = y
    OBVIOUS
<1>2. Len(p) = 2 /\ p[1] = x /\ p[2] = y /\ Head(p) = x /\ p # <<>>
    OBVIOUS
<1>3. a \in Seq({x, y}) /\ p \in Seq({x, y}) /\ q \in Seq({x, y})
    OBVIOUS
<1>4. b \in Seq({x, y}) /\ Len(b) = 1 /\ b[1] = y
    BY SubSeqProperties
<1>5. Len(q) = 1 /\ q[1] = y
    OBVIOUS
<1>6. Append(<<>>, x) = <<x>> /\ SubSeq(p, 3, 2) = <<>>
    OBVIOUS
<1> HIDE DEF a, p, b, q
<1>7. a = p
    BY <1>1, <1>2, <1>3, SeqEqual
<1>8. b = q
    BY <1>3, <1>4, <1>5, SeqEqual
<1> QED
    BY <1>2, <1>6, <1>7, <1>8 DEF a, p, b, q

\* Running the only event of the agenda leaves none.
LEMMA OnlyEvent ==
    ASSUME NEW e, agenda = <<e>>, NEW i \in 1..Len(agenda)
    PROVE  agenda[i] = e /\ Without(i) = <<>>
<1>1. i = 1 /\ Len(agenda) = 1
    OBVIOUS
<1> QED
    BY <1>1 DEF Without

\* Control codes differ from each other, from every packet size and from 0.
LEMMA WordFacts ==
    /\ SizeWord \in Words /\ SEND_FLEET \in Words
    /\ CONTINUE_STREAM \in Words /\ FINISHED_STREAM \in Words
    /\ SizeWord # 0 /\ SizeWord # SEND_FLEET /\ SizeWord # CONTINUE_STREAM
    /\ SEND_FLEET # CONTINUE_STREAM
    /\ SizeWord # FINISHED_STREAM
    /\ DecidedPktSz(SizeWord) = SizeWord
    /\ Min2(SizeWord, MaxPktSz(SegmentSize)) = SizeWord
    BY DEF SizeWord, MaxPktSz, SegmentSize, Words, SEND_FLEET, CONTINUE_STREAM,
           FINISHED_STREAM, CTR_CODE, DecidedPktSz, Min2

\* Channels of up to two control words have the type of a channel.
LEMMA WordSequences ==
    /\ <<>> \in Seq(Words)
    /\ \A v, w \in Words : <<v>> \in Seq(Words) /\ <<v, w>> \in Seq(Words)
    OBVIOUS

\* What the constants bound: the ranges of the counters are not empty.
LEMMA CounterFacts ==
    /\ \A a, b \in Nat : a * b \in Nat /\ (a + 1) * b = a * b + b
    /\ NumStream \in Nat /\ NumStream >= 2
    /\ StreamLen \in Nat \ {0} /\ Period \in Nat \ {0} /\ MaxLoss \in 0..StreamLen
    BY NumStreamAssumption, StreamLenAssumption, PeriodAssumption, PathAssumption

\* The number of streams sent is a natural number.
LEMMA StreamsSentNat == TypeOK => StreamsSent \in Nat
<1> SUFFICES ASSUME TypeOK PROVE StreamsSent \in Nat
    OBVIOUS
<1>1. m_fleet_cnt \in Nat /\ m_stream_cnt \in Nat /\ NumStream \in Nat
    BY CounterFacts DEF TypeOK
<1> QED
    BY <1>1, CounterFacts DEF StreamsSent

-----------------------------------------------------------------------------
(* Every action preserves the invariant.                                   *)

\* Nothing is started, nothing under way, the receiver has seen nothing.
LEMMA InitEstablishes == Init => IInv
<1> SUFFICES ASSUME Init PROVE IInv
    OBVIOUS
<1> USE CounterFacts
<1>1. TypeOK
  <2>1. m_owd \in [PktIds -> Tags \cup {NoSample}]
      BY DEF Init
  <2>2. m_pct \in [Streams -> SUBSET Tags]
      BY DEF Init
  <2>3. m_pct_med \in [0..Period-1 -> [Streams -> SUBSET Tags] \cup {NoSummary}]
      BY DEF Init
  <2>4. probes \subseteq Packets
      BY DEF Init
  <2>5. agenda \in Seq(Events) /\ toRcv \in Seq(Words) /\ toSnd \in Seq(Words)
      BY DEF Init
  <2>6. /\ m_fleet_cnt \in 0..Period /\ m_stream_cnt \in 0..NumStream
        /\ m_fleet_id \in 0..Period /\ m_stream_id \in 0..NumStream
        /\ lost \in 0..MaxLoss /\ streams_measured \in Nat
      BY DEF Init
  <2>7. stream_lost \in BOOLEAN
      BY DEF Init
  <2> QED
      BY <2>1, <2>2, <2>3, <2>4, <2>5, <2>6, <2>7 DEF Init, TypeOK
<1>2. Turn
    BY DEF Init, Turn, Starting
<1>3. ProbesNotAhead /\ ReceiverNotAhead
    BY DEF Init, ProbesNotAhead, ReceiverNotAhead
<1> QED
    BY <1>1, <1>2, <1>3 DEF IInv, Init

\* A stream goes on: one call of SendPacketStream by the side that has the turn.
LEMMA SendPacketStreamPreserves ==
    ASSUME TypeOK, ProbesNotAhead, ReceiverNotAhead, Running,
           m_snd_max_pkt_sz # 0 => r_max_pkt_sz # 0,
           m_stream_cnt < NumStream, streams_measured = StreamsSent,
           NEW k \in 0..StreamLen, SendPacketStream(k, <<>>),
           toRcv' = <<>>, toSnd' = <<>>,
           UNCHANGED <<lifeVars, m_fleet_cnt, m_rcv_max_pkt_sz, s_max_pkt_sz,
                       receiverVars>>
    PROVE  IInv'
<1> USE CounterFacts
<1>1. m_stream_cnt \in Nat /\ m_fleet_cnt \in Nat /\ StreamsSent \in Nat
      /\ m_stream_cnt \in Streams
    BY DEF TypeOK, StreamsSent, Streams
<1>2. Running'
    BY DEF Running, lifeVars, receiverVars
<1>3. CASE k < StreamLen
  <2>1. /\ agenda' = <<SendPacketEvent(k + 1)>>
        /\ m_stream_cnt' = m_stream_cnt
        /\ SendProbe(k)
      BY <1>3, OneElement DEF SendPacketStream
  <2>2. probes' \subseteq probes \cup
          {[stream |-> <<m_fleet_cnt, m_stream_cnt>>, pkt_id |-> k]}
      BY <2>1 DEF SendProbe, pathVars
  <2>3. lost' \in 0..MaxLoss /\ stream_lost' \in BOOLEAN
    <3>1. lost' \in 0..MaxLoss
        BY <2>1 DEF SendProbe, pathVars, TypeOK
    <3>2. stream_lost' \in BOOLEAN
        BY <2>1 DEF SendProbe, pathVars, TypeOK
    <3> QED
        BY <3>1, <3>2
  <2>4. [stream |-> <<m_fleet_cnt, m_stream_cnt>>, pkt_id |-> k] \in Packets
      BY <1>1, <1>3 DEF TypeOK, Packets, Tags, PktIds
  <2>5. TypeOK'
    <3>1. agenda' \in Seq(Events)
        BY <1>3, <2>1 DEF SendPacketEvent, Events
    <3>2. probes' \subseteq Packets
        BY <2>2, <2>4 DEF TypeOK
    <3> QED
        BY <2>1, <2>3, <3>1, <3>2 DEF TypeOK, lifeVars, receiverVars, metricVars
  <2>6. Turn'
    <3>1. streams_measured' = StreamsSent'
        BY <2>1 DEF StreamsSent, receiverVars, metricVars
    <3> QED
        BY <1>2, <1>3, <2>1, <3>1 DEF Turn, Streaming
  <2>7. Due = m_stream_cnt /\ Due' = m_stream_cnt
      BY <1>1, <2>1 DEF Due, Unmeasured, StreamsSent, receiverVars, metricVars
  <2>8. ProbesNotAhead'
      BY <1>1, <2>1, <2>2, <2>7 DEF ProbesNotAhead, TypeOK, Packets, Tags, Streams
  <2>9. ReceiverNotAhead'
      BY <2>1, <2>7 DEF ReceiverNotAhead, receiverVars, metricVars
  <2> QED
      BY <2>5, <2>6, <2>8, <2>9 DEF IInv, receiverVars
<1>4. CASE k >= StreamLen
  <2>1. /\ agenda' = <<FinishedEvent>>
        /\ m_stream_cnt' = m_stream_cnt + 1
        /\ probes' = probes /\ lost' = lost /\ stream_lost' = stream_lost
      BY <1>4, OneElement DEF SendPacketStream, pathVars
  <2>2. TypeOK'
    <3>1. agenda' \in Seq(Events)
        BY <2>1 DEF FinishedEvent, Events
    <3>2. m_stream_cnt' \in 0..NumStream
        BY <1>1, <2>1
    <3> QED
        BY <2>1, <3>1, <3>2 DEF TypeOK, lifeVars, receiverVars, metricVars
  <2>3. streams_measured' = StreamsSent' - 1
      BY <1>1, <2>1 DEF StreamsSent, receiverVars, metricVars
  <2>4. Turn'
      BY <1>1, <1>2, <2>1, <2>3 DEF Turn, Finishing
  <2>5. Due = m_stream_cnt /\ Due' = m_stream_cnt
      BY <1>1, <2>1, <2>3 DEF Due, Unmeasured, StreamsSent, receiverVars, metricVars
  <2>6. ProbesNotAhead'
      BY <2>1, <2>5 DEF ProbesNotAhead
  <2>7. ReceiverNotAhead'
      BY <2>5 DEF ReceiverNotAhead, receiverVars, metricVars
  <2> QED
      BY <2>2, <2>4, <2>6, <2>7 DEF IInv, receiverVars
<1> QED
    BY <1>3, <1>4

\* The steps of the start change conn only.
LEMMA StartPreserves ==
    ASSUME IInv, SenderStart \/ ReceiverStart \/ HandleConnected
    PROVE  IInv'
<1> USE DEF SenderStart, ReceiverStart, HandleConnected
<1>1. /\ conn # "accepted" /\ conn' \in {"listening", "connecting", "connected"}
      /\ UNCHANGED <<s_stopped, r_stopped, senderVars, agenda, receiverVars,
                     toRcv, toSnd, pathVars>>
    OBVIOUS
<1> USE DEF senderVars, receiverVars, metricVars, pathVars
<1>2. TypeOK'
    BY <1>1 DEF IInv, TypeOK
<1>3. Turn'
  <2>1. Starting
      BY <1>1 DEF IInv, Turn, Asked, Streaming, Finishing, Continuing, Running
  <2>2. Starting'
      BY <1>1, <2>1 DEF Starting
  <2> QED
      BY <2>2 DEF Turn
<1>4. ProbesNotAhead' /\ ReceiverNotAhead'
    BY <1>1 DEF IInv, ProbesNotAhead, ReceiverNotAhead, Due, Unmeasured, StreamsSent
<1> QED
    BY <1>1, <1>2, <1>3, <1>4 DEF IInv

\* Accepting sends the first packet size, or nothing without assertions.
LEMMA HandleAcceptPreserves ==
    ASSUME IInv, HandleAccept
    PROVE  IInv'
<1> USE DEF HandleAccept, senderVars, receiverVars, metricVars, pathVars
<1>1. Starting /\ m_snd_max_pkt_sz = 0 /\ toRcv = <<>>
    BY DEF IInv, Turn, Starting, Asked, Streaming, Finishing, Continuing, Running
<1>2. toRcv' \in {<<>>, <<SizeWord>>}
    BY <1>1, OneElement DEF AfterSend, SizeWord
<1>3. TypeOK'
  <2>1. toRcv' \in Seq(Words)
      BY <1>2, WordFacts, WordSequences
  <2> QED
      BY <2>1 DEF IInv, TypeOK
<1>4. Starting'
    BY <1>1, <1>2 DEF Starting
<1>5. ProbesNotAhead' /\ ReceiverNotAhead'
    BY DEF IInv, ProbesNotAhead, ReceiverNotAhead, Due, Unmeasured, StreamsSent
<1> QED
    BY <1>3, <1>4, <1>5 DEF IInv, Turn

\* Stopping touches nothing the invariant speaks of but two flags.
LEMMA StopPreserves ==
    ASSUME IInv, SenderStop \/ ReceiverStop
    PROVE  IInv'
<1> USE DEF SenderStop, ReceiverStop, senderVars, receiverVars, metricVars, pathVars
<1>1. TypeOK'
    BY DEF IInv, TypeOK
<1>2. Turn'
    BY DEF IInv, Turn, Starting, Asked, Streaming, Finishing, Continuing, Running,
           StreamsSent
<1>3. ProbesNotAhead' /\ ReceiverNotAhead'
    BY DEF IInv, ProbesNotAhead, ReceiverNotAhead, Due, Unmeasured, StreamsSent
<1> QED
    BY <1>1, <1>2, <1>3 DEF IInv

\* A scheduled event runs: only a sender that has the turn scheduled one.
LEMMA RunEventPreserves ==
    ASSUME IInv, RunEvent
    PROVE  IInv'
<1> USE CounterFacts
<1>1. PICK i \in 1..Len(agenda) :
         \/ /\ agenda[i].op = "SendFleet"
            /\ SendPacketStream(0, Without(i))
            /\ UNCHANGED toRcv
         \/ /\ agenda[i].op = "SendPacketStream"
            /\ SendPacketStream(agenda[i].pkt_id, Without(i))
            /\ UNCHANGED toRcv
         \/ /\ agenda[i].op = "SendControlMessage"
            /\ toRcv' = AfterSend(toRcv, FINISHED_STREAM, s_stopped)
            /\ agenda' = Without(i)
            /\ UNCHANGED <<m_stream_cnt, pathVars>>
    BY DEF RunEvent
<1>2. agenda # <<>>
    BY <1>1
<1>3. UNCHANGED <<lifeVars, m_fleet_cnt, m_rcv_max_pkt_sz, s_max_pkt_sz,
                  receiverVars, toSnd>>
    BY DEF RunEvent
<1>4. TypeOK /\ ProbesNotAhead /\ ReceiverNotAhead
      /\ (m_snd_max_pkt_sz # 0 => r_max_pkt_sz # 0)
    BY DEF IInv
<1>5. CASE Streaming
  <2>1. PICK k \in 0..StreamLen :
           \/ agenda = <<SendFleetEvent>> /\ k = 0
           \/ agenda = <<SendPacketEvent(k)>>
      BY <1>5 DEF Streaming
  <2>2. SendPacketStream(k, <<>>) /\ toRcv' = <<>> /\ toSnd' = <<>>
    <3>1. CASE agenda = <<SendFleetEvent>> /\ k = 0
      <4>1. agenda[i] = SendFleetEvent /\ Without(i) = <<>>
          BY <3>1, OnlyEvent
      <4>2. agenda[i].op = "SendFleet"
          BY <4>1 DEF SendFleetEvent
      <4> QED
          BY <1>1, <1>3, <1>5, <3>1, <4>1, <4>2 DEF Streaming
    <3>2. CASE agenda = <<SendPacketEvent(k)>>
      <4>1. agenda[i] = SendPacketEvent(k) /\ Without(i) = <<>>
          BY <3>2, OnlyEvent
      <4>2. agenda[i].op = "SendPacketStream" /\ agenda[i].pkt_id = k
          BY <4>1 DEF SendPacketEvent
      <4> QED
          BY <1>1, <1>3, <1>5, <4>1, <4>2 DEF Streaming
    <3> QED
        BY <2>1, <3>1, <3>2
  <2> QED
      BY <1>3, <1>4, <1>5, <2>2, SendPacketStreamPreserves DEF Streaming
<1>6. CASE Finishing
  <2>1. agenda = <<FinishedEvent>> /\ toRcv = <<>>
      BY <1>2, <1>6 DEF Finishing
  <2>2. agenda[i] = FinishedEvent /\ Without(i) = <<>>
      BY <2>1, OnlyEvent
  <2>3. agenda[i].op = "SendControlMessage"
      BY <2>2 DEF FinishedEvent
  <2>4. /\ agenda' = <<>> /\ toRcv' \in {<<>>, <<FINISHED_STREAM>>}
        /\ UNCHANGED <<m_stream_cnt, pathVars>>
      BY <1>1, <2>1, <2>2, <2>3, OneElement DEF AfterSend
  <2> USE DEF lifeVars, receiverVars, metricVars, pathVars
  <2>5. TypeOK'
    <3>1. toRcv' \in Seq(Words)
        BY <2>4, WordFacts, WordSequences
    <3> QED
        BY <1>3, <1>4, <2>4, <3>1 DEF TypeOK
  <2>6. Finishing'
      BY <1>3, <1>6, <2>4 DEF Finishing, Running, StreamsSent
  <2>7. ProbesNotAhead' /\ ReceiverNotAhead'
      BY <1>3, <1>4, <2>4
         DEF ProbesNotAhead, ReceiverNotAhead, Due, Unmeasured, StreamsSent
  <2> QED
      BY <1>3, <1>4, <2>5, <2>6, <2>7 DEF IInv, Turn
<1> QED
    BY <1>2, <1>5, <1>6 DEF IInv, Turn, Starting, Asked, Continuing

\* The sender reads a control word: sizes, then SEND_FLEET, then CONTINUE_STREAM.
LEMMA SenderHandleRecvPreserves ==
    ASSUME IInv, SenderHandleRecv
    PROVE  IInv'
<1> USE CounterFacts
<1>1. PICK n \in 1..Len(toSnd) : toSnd' = SubSeq(toSnd, n + 1, Len(toSnd))
    BY DEF SenderHandleRecv, MayRead
<1>2. SenderReacts(Head(toSnd)) /\ UNCHANGED <<lifeVars, receiverVars, toRcv>>
    BY DEF SenderHandleRecv
<1>3. toSnd # <<>>
    BY <1>1
<1>4. TypeOK /\ ProbesNotAhead /\ ReceiverNotAhead
      /\ (m_snd_max_pkt_sz # 0 => r_max_pkt_sz # 0)
    BY DEF IInv
<1>5. CASE Starting
  <2>1. toSnd = <<SizeWord, SEND_FLEET>> /\ conn = "accepted"
        /\ m_snd_max_pkt_sz # 0 /\ toRcv = <<>>
      BY <1>3, <1>5 DEF Starting
  <2>2. Len(toSnd) = 2 /\ Head(toSnd) = SizeWord
      BY <2>1, TwoElements
  <2>3. n = 1 \/ n = 2
      BY <2>2
  <2>4. toSnd' \in {<<>>, <<SEND_FLEET>>}
    <3>1. CASE n = 1
      <4>1. toSnd' = SubSeq(toSnd, 2, Len(toSnd))
          BY <1>1, <3>1
      <4> QED
          BY <2>1, <4>1, TwoElements
    <3>2. CASE n = 2
      <4>1. toSnd' = SubSeq(toSnd, 3, Len(toSnd))
          BY <1>1, <3>2
      <4> QED
          BY <2>1, <4>1, TwoElements
    <3> QED
        BY <2>3, <3>1, <3>2
  <2>5. /\ m_rcv_max_pkt_sz' = SizeWord /\ s_max_pkt_sz' = SizeWord
        /\ UNCHANGED <<m_fleet_cnt, m_stream_cnt, agenda, pathVars>>
      BY <1>2, <1>5, <2>2, WordFacts DEF SenderReacts, Starting
  <2> USE DEF lifeVars, receiverVars, metricVars, pathVars
  <2>6. TypeOK'
    <3>1. toSnd' \in Seq(Words)
        BY <2>4, WordFacts, WordSequences
    <3> QED
        BY <1>2, <1>4, <2>5, <3>1, WordFacts DEF TypeOK
  <2>7. Asked'
      BY <1>2, <1>5, <2>1, <2>4, <2>5, WordFacts DEF Asked, Running, Starting
  <2>8. ProbesNotAhead' /\ ReceiverNotAhead'
      BY <1>2, <1>4, <2>5
         DEF ProbesNotAhead, ReceiverNotAhead, Due, Unmeasured, StreamsSent
  <2> QED
      BY <1>2, <1>4, <2>6, <2>7, <2>8 DEF IInv, Turn
<1>6. CASE Asked
  <2>1. toSnd = <<SEND_FLEET>>
      BY <1>3, <1>6 DEF Asked
  <2>2. Len(toSnd) = 1 /\ Head(toSnd) = SEND_FLEET /\ n = 1
      BY <2>1, OneElement
  <2>3. toSnd' = <<>> /\ toRcv' = <<>>
      BY <1>1, <1>2, <1>6, <2>1, <2>2, OneElement DEF Asked
  <2>4. SendPacketStream(0, <<>>)
        /\ UNCHANGED <<m_fleet_cnt, m_rcv_max_pkt_sz, s_max_pkt_sz>>
      BY <1>2, <1>6, <2>2, WordFacts DEF SenderReacts, Asked, Running
  <2>5. m_stream_cnt < NumStream /\ streams_measured = StreamsSent
      BY <1>6 DEF Asked, StreamsSent
  <2> QED
      BY <1>2, <1>4, <1>6, <2>3, <2>4, <2>5, SendPacketStreamPreserves DEF Asked
<1>7. CASE Continuing
  <2>1. toSnd = <<CONTINUE_STREAM>>
      BY <1>3, <1>7 DEF Continuing
  <2>2. Len(toSnd) = 1 /\ Head(toSnd) = CONTINUE_STREAM /\ n = 1
      BY <2>1, OneElement
  <2>3. toSnd' = <<>> /\ toRcv' = <<>>
      BY <1>1, <1>2, <1>7, <2>1, <2>2, OneElement DEF Continuing
  <2>4. ContinueStream
        /\ UNCHANGED <<m_rcv_max_pkt_sz, s_max_pkt_sz, pathVars>>
      BY <1>2, <1>7, <2>2, WordFacts DEF SenderReacts, Continuing, Running
  <2>5. m_stream_cnt \in 0..NumStream /\ m_fleet_cnt \in 0..Period
        /\ StreamsSent \in Nat /\ agenda = <<>>
      BY <1>4, <1>7 DEF TypeOK, StreamsSent, Continuing
  <2>6. SendFleetEvent \in Events
      BY DEF SendFleetEvent, Events
  <2> USE DEF lifeVars, receiverVars, metricVars, pathVars
  <2>7. CASE m_stream_cnt < NumStream
    <3>1. agenda' = <<SendFleetEvent>> /\ UNCHANGED <<m_stream_cnt, m_fleet_cnt>>
        BY <2>4, <2>5, <2>7, OneElement DEF ContinueStream
    <3>2. TypeOK'
      <4>1. agenda' \in Seq(Events)
          BY <2>6, <3>1
      <4> QED
          BY <1>2, <1>4, <2>3, <2>4, <3>1, <4>1, WordSequences DEF TypeOK
    <3>3. Streaming'
        BY <1>2, <1>7, <2>3, <2>4, <2>7, <3>1
           DEF Streaming, Continuing, Running, StreamsSent
    <3>4. ProbesNotAhead' /\ ReceiverNotAhead'
        BY <1>2, <1>4, <2>4, <3>1
           DEF ProbesNotAhead, ReceiverNotAhead, Due, Unmeasured, StreamsSent
    <3> QED
        BY <1>2, <1>4, <3>2, <3>3, <3>4 DEF IInv, Turn
  <2>8. CASE m_stream_cnt >= NumStream /\ MoreFleets
    <3>1. /\ agenda' = <<SendFleetEvent>>
          /\ m_stream_cnt' = 0 /\ m_fleet_cnt' = m_fleet_cnt + 1
          /\ m_fleet_cnt < Period /\ m_stream_cnt = NumStream
        BY <2>4, <2>5, <2>8, OneElement DEF ContinueStream, MoreFleets
    <3>2. TypeOK'
      <4>1. agenda' \in Seq(Events)
          BY <2>6, <3>1
      <4>2. m_fleet_cnt' \in 0..Period /\ m_stream_cnt' \in 0..NumStream
          BY <2>5, <3>1
      <4> QED
          BY <1>2, <1>4, <2>3, <2>4, <4>1, <4>2, WordSequences DEF TypeOK
    <3>3. StreamsSent' = StreamsSent
      <4>1. (m_fleet_cnt + 1) * NumStream = m_fleet_cnt * NumStream + NumStream
            /\ m_fleet_cnt * NumStream \in Nat
            /\ (m_fleet_cnt + 1) * NumStream \in Nat
          BY <2>5
      <4> QED
          BY <3>1, <4>1 DEF StreamsSent
    <3>4. Streaming'
        BY <1>2, <1>7, <2>3, <2>4, <3>1, <3>3 DEF Streaming, Continuing, Running
    <3>5. ProbesNotAhead'
        BY <1>4, <2>4, <2>5, <3>1 DEF ProbesNotAhead, TypeOK, Packets, Tags
    <3>6. ReceiverNotAhead'
        BY <1>2, <1>4, <2>5, <3>1 DEF ReceiverNotAhead, TypeOK
    <3> QED
        BY <1>2, <1>4, <3>2, <3>4, <3>5, <3>6 DEF IInv, Turn
  <2>9. CASE m_stream_cnt >= NumStream /\ ~MoreFleets
    <3>1. UNCHANGED <<m_stream_cnt, m_fleet_cnt, agenda>>
        BY <2>4, <2>5, <2>9 DEF ContinueStream
    <3>2. TypeOK'
        BY <1>2, <1>4, <2>3, <2>4, <3>1, WordSequences DEF TypeOK
    <3>3. Continuing'
        BY <1>2, <1>7, <2>3, <2>4, <3>1 DEF Continuing, Running, StreamsSent
    <3>4. ProbesNotAhead' /\ ReceiverNotAhead'
        BY <1>2, <1>4, <2>4, <3>1
           DEF ProbesNotAhead, ReceiverNotAhead, Due, Unmeasured, StreamsSent
    <3> QED
        BY <1>2, <1>4, <3>2, <3>3, <3>4 DEF IInv, Turn
  <2> QED
      BY <2>5, <2>7, <2>8, <2>9
<1> QED
    BY <1>3, <1>5, <1>6, <1>7 DEF IInv, Turn, Streaming, Finishing

\* A probe packet arrives, from whatever stream up to the one that is due.
LEMMA ReceiverHandleRecvfromPreserves ==
    ASSUME IInv, ReceiverHandleRecvfrom
    PROVE  IInv'
<1> USE CounterFacts
<1>1. PICK p \in probes :
         /\ probes' = probes \ {p}
         /\ m_fleet_id' = p.stream[1] /\ m_stream_id' = p.stream[2]
         /\ m_owd' = [m_owd EXCEPT ![p.pkt_id] = p.stream]
    BY DEF ReceiverHandleRecvfrom, StreamIdOf
<1>2. UNCHANGED <<lifeVars, senderVars, agenda, m_snd_max_pkt_sz, r_max_pkt_sz,
                  m_pct, m_pct_med, streams_measured, toRcv, toSnd,
                  lost, stream_lost>>
    BY DEF ReceiverHandleRecvfrom
<1>3. TypeOK /\ ProbesNotAhead /\ Turn
    BY DEF IInv
<1>4. /\ p \in Packets /\ p.stream \in Tags /\ p.pkt_id \in PktIds
      /\ p.stream[1] \in 0..Period /\ p.stream[2] \in Streams
    BY <1>3 DEF TypeOK, Packets, Tags
<1> USE DEF lifeVars, senderVars
<1>5. TypeOK'
  <2>1. m_owd' \in [PktIds -> Tags \cup {NoSample}]
      BY <1>1, <1>3, <1>4 DEF TypeOK
  <2>2. m_stream_id' \in 0..NumStream
      BY <1>1, <1>4 DEF Streams
  <2> QED
      BY <1>1, <1>2, <1>3, <1>4, <2>1, <2>2 DEF TypeOK
<1>6. Turn'
    BY <1>1, <1>2, <1>3 DEF Turn, Starting, Asked, Streaming, Finishing, Continuing,
                            Running, StreamsSent
<1>7. ProbesNotAhead'
    BY <1>1, <1>2, <1>3 DEF ProbesNotAhead, Due, Unmeasured, StreamsSent
<1>8. ReceiverNotAhead'
  <2>1. p.stream[1] <= m_fleet_cnt
        /\ (p.stream[1] = m_fleet_cnt => p.stream[2] <= Due)
      BY <1>1, <1>3 DEF ProbesNotAhead
  <2>2. Due' = Due
      BY <1>2 DEF Due, Unmeasured, StreamsSent
  <2>3. p.stream[1] = Period => p.stream[1] = m_fleet_cnt
      BY <1>3, <2>1 DEF TypeOK
  <2>4. p.stream[2] < NumStream
      BY <1>4 DEF Streams
  <2> QED
      BY <1>1, <1>2, <2>1, <2>2, <2>3, <2>4 DEF ReceiverNotAhead
<1> QED
    BY <1>2, <1>5, <1>6, <1>7, <1>8 DEF IInv

\* While a stream is due the index of its metrics is inside m_pct.
LEMMA IndexWhenDue ==
    ASSUME IInv, Finishing
    PROVE  Due = m_stream_cnt - 1 /\ m_stream_id \in Streams
<1> USE CounterFacts
<1>1. m_stream_cnt \in 0..NumStream /\ StreamsSent \in Nat /\ m_stream_id \in 0..NumStream
    BY StreamsSentNat DEF IInv, TypeOK
<1>2. Due = m_stream_cnt - 1
    BY <1>1 DEF Finishing, Due, Unmeasured
<1> QED
    BY <1>1, <1>2 DEF IInv, ReceiverNotAhead, Streams

\* The receiver reads a control word: the size, then FINISHED_STREAM.
LEMMA ReceiverHandleRecvPreserves ==
    ASSUME IInv, ReceiverHandleRecv
    PROVE  IInv'
<1> USE CounterFacts
<1>1. PICK n \in 1..Len(toRcv) : toRcv' = SubSeq(toRcv, n + 1, Len(toRcv))
    BY DEF ReceiverHandleRecv, MayRead
<1>2. ReceiverReacts(Head(toRcv))
      /\ UNCHANGED <<lifeVars, senderVars, agenda, pathVars>>
    BY DEF ReceiverHandleRecv
<1>3. toRcv # <<>>
    BY <1>1
<1>4. TypeOK /\ ProbesNotAhead /\ ReceiverNotAhead
    BY DEF IInv
<1> USE DEF lifeVars, senderVars, pathVars
<1>5. CASE Starting
  <2>1. toRcv = <<SizeWord>> /\ m_snd_max_pkt_sz = 0 /\ toSnd = <<>>
        /\ conn = "accepted"
      BY <1>3, <1>5 DEF Starting
  <2>2. Len(toRcv) = 1 /\ Head(toRcv) = SizeWord /\ n = 1
      BY <2>1, OneElement
  <2>3. toRcv' = <<>>
      BY <1>1, <2>1, <2>2, OneElement
  <2>4. /\ m_snd_max_pkt_sz' = SizeWord /\ r_max_pkt_sz' = SizeWord
        /\ toSnd' = AfterSend(AfterSend(toSnd, SizeWord, r_stopped),
                              SEND_FLEET, r_stopped)
        /\ UNCHANGED metricVars
      BY <1>2, <2>1, <2>2, WordFacts DEF ReceiverReacts, SizeWord
  <2>5. toSnd' \in {<<>>, <<SizeWord, SEND_FLEET>>}
      BY <2>1, <2>4, TwoElements DEF AfterSend
  <2> USE DEF metricVars
  <2>6. TypeOK'
    <3>1. toSnd' \in Seq(Words) /\ toRcv' \in Seq(Words)
        BY <2>3, <2>5, WordFacts, WordSequences
    <3> QED
        BY <1>2, <1>4, <2>4, <3>1, WordFacts DEF TypeOK
  <2>7. Starting'
      BY <1>2, <1>5, <2>1, <2>3, <2>4, <2>5, WordFacts DEF Starting
  <2>8. ProbesNotAhead' /\ ReceiverNotAhead'
      BY <1>2, <1>4, <2>4
         DEF ProbesNotAhead, ReceiverNotAhead, Due, Unmeasured, StreamsSent
  <2> QED
      BY <2>4, <2>6, <2>7, <2>8, WordFacts DEF IInv, Turn
<1>6. CASE Finishing
  <2>1. toRcv = <<FINISHED_STREAM>> /\ agenda = <<>> /\ toSnd = <<>>
      BY <1>3, <1>6 DEF Finishing
  <2>2. Len(toRcv) = 1 /\ Head(toRcv) = FINISHED_STREAM /\ n = 1
      BY <2>1, OneElement
  <2>3. toRcv' = <<>>
      BY <1>1, <2>1, <2>2, OneElement
  <2>4. /\ GetMetrics
        /\ toSnd' = AfterSend(toSnd, CONTINUE_STREAM, r_stopped)
        /\ UNCHANGED <<m_snd_max_pkt_sz, r_max_pkt_sz>>
      BY <1>2, <1>6, <2>2 DEF ReceiverReacts, Finishing, Running
  <2>5. toSnd' \in {<<>>, <<CONTINUE_STREAM>>}
      BY <2>1, <2>4, OneElement DEF AfterSend
  <2>6. m_stream_cnt \in 0..NumStream /\ StreamsSent \in Nat
        /\ m_stream_id \in Streams /\ Due = m_stream_cnt - 1
      BY <1>4, <1>6, IndexWhenDue, StreamsSentNat DEF TypeOK
  <2>7. /\ streams_measured' = streams_measured + 1 /\ m_fleet_id' = m_fleet_id
        /\ m_stream_id' = NextStreamId
      BY <2>4 DEF GetMetrics
  <2>8. /\ StreamsSent' = StreamsSent /\ streams_measured' = StreamsSent
        /\ Due' = m_stream_cnt
    <3>1. StreamsSent' = StreamsSent
        BY <1>2 DEF StreamsSent
    <3>2. streams_measured' = StreamsSent
        BY <1>6, <2>6, <2>7 DEF Finishing
    <3> QED
        BY <1>2, <2>6, <3>1, <3>2 DEF Due, Unmeasured
  <2>9. ReceiverNotAhead'
    <3>1. CASE m_fleet_id = Period
      <4>1. m_stream_id' = m_stream_id + 1
          BY <1>4, <2>7, <3>1 DEF NextStreamId, LastOfFleet, TypeOK
      <4>2. m_stream_id <= m_stream_cnt - 1
          BY <1>4, <2>6, <3>1 DEF ReceiverNotAhead
      <4> QED
          BY <1>2, <1>4, <2>6, <2>7, <2>8, <3>1, <4>1, <4>2
             DEF ReceiverNotAhead, Streams
    <3>2. CASE m_fleet_id # Period
      <4>1. m_stream_id' < NumStream
          BY <1>4, <2>6, <2>7, <3>2 DEF NextStreamId, LastOfFleet, TypeOK, Streams
      <4> QED
          BY <1>2, <1>4, <2>7, <3>2, <4>1 DEF ReceiverNotAhead
    <3> QED
        BY <3>1, <3>2
  <2>10. TypeOK'
    <3>1. m_owd' \in [PktIds -> Tags \cup {NoSample}]
        BY <2>4 DEF GetMetrics, SamplesCleared
    <3>2. m_pct' \in [Streams -> SUBSET Tags]
      <4>1. {m_owd[k] : k \in PktIds} \ {NoSample} \in SUBSET Tags
          BY <1>4 DEF TypeOK
      <4> QED
          BY <1>4, <2>4, <4>1 DEF GetMetrics, TypeOK
    <3>3. m_pct_med' \in [0..Period-1 -> [Streams -> SUBSET Tags] \cup {NoSummary}]
        BY <1>4, <2>4, <3>2 DEF GetMetrics, TypeOK
    <3>4. m_stream_id' \in 0..NumStream
        BY <2>6, <2>7 DEF NextStreamId, Streams
    <3>5. toSnd' \in Seq(Words) /\ toRcv' \in Seq(Words)
        BY <2>3, <2>5, WordFacts, WordSequences
    <3>6. streams_measured' \in Nat
        BY <1>4, <2>7 DEF TypeOK
    <3> QED
        BY <1>2, <1>4, <2>4, <2>7, <3>1, <3>2, <3>3, <3>4, <3>5, <3>6 DEF TypeOK
  <2>11. Continuing'
      BY <1>2, <1>6, <2>1, <2>3, <2>4, <2>5, <2>8 DEF Continuing, Finishing, Running
  <2>12. ProbesNotAhead'
      BY <1>2, <1>4, <2>6, <2>8 DEF ProbesNotAhead, TypeOK, Packets, Tags, Streams
  <2> QED
      BY <2>4, <2>9, <2>10, <2>11, <2>12 DEF IInv, Turn
<1> QED
    BY <1>3, <1>5, <1>6 DEF IInv, Turn, Asked, Streaming, Continuing

-----------------------------------------------------------------------------
(* The theorems.                                                           *)

\* No callback of the two applications breaks the strengthened invariant.
THEOREM NextPreserves == IInv /\ [Next]_vars => IInv'
<1> SUFFICES ASSUME IInv, [Next]_vars PROVE IInv'
    OBVIOUS
<1>1. CASE SenderStart \/ ReceiverStart \/ HandleConnected
    BY <1>1, StartPreserves
<1>2. CASE HandleAccept
    BY <1>2, HandleAcceptPreserves
<1>3. CASE SenderHandleRecv
    BY <1>3, SenderHandleRecvPreserves
<1>4. CASE RunEvent
    BY <1>4, RunEventPreserves
<1>5. CASE ReceiverHandleRecvfrom
    BY <1>5, ReceiverHandleRecvfromPreserves
<1>6. CASE ReceiverHandleRecv
    BY <1>6, ReceiverHandleRecvPreserves
<1>7. CASE SenderStop \/ ReceiverStop
    BY <1>7, StopPreserves
<1>8. CASE UNCHANGED vars
  <2> USE <1>8 DEF vars, lifeVars, senderVars, receiverVars, metricVars, pathVars
  <2>1. TypeOK'
      BY DEF IInv, TypeOK
  <2>2. Turn'
      BY DEF IInv, Turn, Starting, Asked, Streaming, Finishing, Continuing, Running,
             StreamsSent
  <2>3. ProbesNotAhead' /\ ReceiverNotAhead'
      BY DEF IInv, ProbesNotAhead, ReceiverNotAhead, Due, Unmeasured, StreamsSent
  <2> QED
      BY <2>1, <2>2, <2>3 DEF IInv
<1> QED
    BY <1>1, <1>2, <1>3, <1>4, <1>5, <1>6, <1>7, <1>8 DEF Next, Work

\* The invariant holds in every state the two applications reach.
THEOREM Invariance == Spec => []IInv
<1>1. Init => IInv
    BY InitEstablishes
<1>2. IInv /\ [Next]_vars => IInv'
    BY NextPreserves
<1> QED
    BY <1>1, <1>2, PTL DEF Spec

\* Every member keeps a value of its kind.
THEOREM TypeCorrect == Spec => []TypeOK
<1>1. IInv => TypeOK
    BY DEF IInv
<1> QED
    BY <1>1, Invariance, PTL

\* GetMetrics never writes past m_pct and m_pdt, whatever the path loses or
\* delays, although m_stream_id itself is not kept inside them.
THEOREM IndexInBounds == Spec => []GetMetricsIndexInBounds
<1>1. IInv => GetMetricsIndexInBounds
  <2> SUFFICES ASSUME IInv, MetricsDue PROVE m_stream_id \in Streams
      BY DEF GetMetricsIndexInBounds
  <2>1. ~Starting
      BY WordFacts, OneElement DEF Starting, MetricsDue
  <2>2. Finishing
      BY <2>1 DEF IInv, Turn, Asked, Streaming, Continuing, MetricsDue
  <2> QED
      BY <2>2, IndexWhenDue
<1> QED
    BY <1>1, Invariance, PTL

\* At most one event or control word is under way once the sizes are known, so
\* two streams are never sent at the same time.
THEOREM OneTurnOnly == Spec => []OneTurn
<1>1. IInv => OneTurn
  <2> SUFFICES ASSUME IInv, m_rcv_max_pkt_sz # 0
               PROVE  Len(agenda) + Len(toRcv) + Len(toSnd) <= 1
      BY DEF OneTurn
  <2> DEFINE Empty(s) == Len(s) = 0
             Short(s) == Len(s) \in {0, 1}
             Lengths(a, b, c) == a + b + c <= 1
  <2> SUFFICES Lengths(Len(agenda), Len(toRcv), Len(toSnd))
      OBVIOUS
  <2>0. \A a \in {0, 1} : Lengths(a, 0, 0) /\ Lengths(0, a, 0) /\ Lengths(0, 0, a)
      OBVIOUS
  <2> HIDE DEF Lengths
  <2>1. CASE Asked
    <3>1. Empty(agenda) /\ Empty(toRcv) /\ Short(toSnd)
        BY <2>1, LengthZero, LengthOne DEF Asked
    <3> QED
        BY <2>0, <3>1
  <2>2. CASE Streaming
    <3>1. Short(agenda) /\ Empty(toRcv) /\ Empty(toSnd)
        BY <2>2, LengthZero, LengthOne DEF Streaming
    <3> QED
        BY <2>0, <3>1
  <2>3. CASE Finishing
    <3>1. CASE agenda = <<>>
      <4>1. Empty(toSnd) /\ Empty(agenda) /\ Short(toRcv)
          BY <2>3, <3>1, LengthZero, LengthOne DEF Finishing
      <4> QED
          BY <2>0, <4>1
    <3>2. CASE agenda = <<FinishedEvent>> /\ toRcv = <<>>
      <4>1. Empty(toSnd) /\ Short(agenda) /\ Empty(toRcv)
          BY <2>3, <3>2, LengthZero, LengthOne DEF Finishing
      <4> QED
          BY <2>0, <4>1
    <3> QED
        BY <2>3, <3>1, <3>2 DEF Finishing
  <2>4. CASE Continuing
    <3>1. Empty(agenda) /\ Empty(toRcv) /\ Short(toSnd)
        BY <2>4, LengthZero, LengthOne DEF Continuing
    <3> QED
        BY <2>0, <3>1
  <2> QED
      BY <2>1, <2>2, <2>3, <2>4 DEF IInv, Turn, Starting
<1> QED
    BY <1>1, Invariance, PTL

\* The assertion at the head of HandleRecvfrom never fails.
THEOREM BufferSized == Spec => []ProbeBufferSized
<1>1. IInv => ProbeBufferSized
    BY DEF IInv, Turn, Starting, Asked, Streaming, Finishing, Continuing, Running,
           ProbeBufferSized
<1> QED
    BY <1>1, Invariance, PTL

\* More fleets are not fewer streams.
LEMMA ProductMonotone == \A a, b, c \in Nat : a <= b => a * c <= b * c
<1> SUFFICES ASSUME NEW a \in Nat, NEW b \in Nat, NEW c \in Nat, a <= b
             PROVE  a * c <= b * c
    OBVIOUS
<1>1. PICK d \in Nat : b = a + d
  <2>1. b - a \in Nat /\ b = a + (b - a)
      OBVIOUS
  <2> QED
      BY <2>1
<1>2. (a + d) * c = a * c + d * c /\ a * c \in Nat /\ d * c \in Nat
    OBVIOUS
<1> QED
    BY <1>1, <1>2

\* At most one stream is unmeasured, and no more streams are sent than there are.
LEMMA SentAndMeasured ==
    IInv => /\ StreamsSent \in Nat /\ streams_measured \in Nat
            /\ StreamsSent - streams_measured \in {0, 1}
            /\ StreamsSent <= AllStreams
<1> SUFFICES ASSUME IInv
             PROVE  /\ StreamsSent \in Nat /\ streams_measured \in Nat
                    /\ StreamsSent - streams_measured \in {0, 1}
                    /\ StreamsSent <= AllStreams
    OBVIOUS
<1> USE CounterFacts
<1>1. /\ m_fleet_cnt \in 0..Period /\ m_stream_cnt \in 0..NumStream
      /\ StreamsSent \in Nat /\ streams_measured \in Nat
    BY StreamsSentNat DEF IInv, TypeOK
<1>2. StreamsSent - streams_measured \in {0, 1}
  <2>1. CASE Starting \/ Asked
    <3>1. StreamsSent = 0
        BY <2>1 DEF Starting, Asked, StreamsSent
    <3> QED
        BY <2>1, <3>1 DEF Starting, Asked
  <2>2. CASE Streaming \/ Continuing
      BY <1>1, <2>2 DEF Streaming, Continuing
  <2>3. CASE Finishing
      BY <1>1, <2>3 DEF Finishing
  <2> QED
      BY <2>1, <2>2, <2>3 DEF IInv, Turn
<1>3. StreamsSent <= AllStreams
  <2>1. m_fleet_cnt * NumStream <= Period * NumStream
      BY <1>1, ProductMonotone
  <2>2. /\ (Period + 1) * NumStream = Period * NumStream + NumStream
        /\ Period * NumStream \in Nat /\ m_fleet_cnt * NumStream \in Nat
      BY <1>1
  <2> QED
      BY <1>1, <2>1, <2>2 DEF StreamsSent, AllStreams
<1> QED
    BY <1>1, <1>2, <1>3

\* How the two counters of the exchange can move in one step.
LEMMA CounterSteps ==
    ASSUME IInv, [Next]_vars
    PROVE  \/ UNCHANGED <<StreamsSent, streams_measured>>
           \/ StreamsSent' = StreamsSent + 1 /\ UNCHANGED streams_measured
           \/ streams_measured' = streams_measured + 1 /\ UNCHANGED StreamsSent
<1> USE CounterFacts
<1>1. m_fleet_cnt \in Nat /\ m_stream_cnt \in 0..NumStream /\ m_fleet_cnt * NumStream \in Nat
    BY DEF IInv, TypeOK
<1>2. ASSUME NEW k, NEW rest, SendPacketStream(k, rest), m_fleet_cnt' = m_fleet_cnt
      PROVE  StreamsSent' = StreamsSent \/ StreamsSent' = StreamsSent + 1
    BY <1>1, <1>2 DEF SendPacketStream, StreamsSent
<1>3. CASE SenderHandleRecv
  <2>1. SenderReacts(Head(toSnd)) /\ streams_measured' = streams_measured
      BY <1>3 DEF SenderHandleRecv, receiverVars, metricVars
  <2>2. ASSUME ContinueStream PROVE StreamsSent' = StreamsSent
    <3>1. CASE UNCHANGED <<m_stream_cnt, m_fleet_cnt>>
        BY <3>1 DEF StreamsSent
    <3>2. CASE m_stream_cnt = NumStream /\ m_stream_cnt' = 0
               /\ m_fleet_cnt' = m_fleet_cnt + 1
      <4>1. (m_fleet_cnt + 1) * NumStream = m_fleet_cnt * NumStream + NumStream
            /\ (m_fleet_cnt + 1) * NumStream \in Nat
          BY <1>1
      <4> QED
          BY <1>1, <3>2, <4>1 DEF StreamsSent
    <3> QED
        BY <1>1, <2>2, <3>1, <3>2 DEF ContinueStream
  <2>3. CASE m_stream_cnt' = m_stream_cnt /\ m_fleet_cnt' = m_fleet_cnt
      BY <2>1, <2>3 DEF StreamsSent
  <2>4. CASE SendPacketStream(0, agenda) /\ m_fleet_cnt' = m_fleet_cnt
      BY <1>2, <2>1, <2>4
  <2>5. CASE ContinueStream
      BY <2>1, <2>2, <2>5
  <2> QED
      BY <2>1, <2>3, <2>4, <2>5 DEF SenderReacts, senderVars
<1>4. CASE RunEvent
  <2>1. streams_measured' = streams_measured /\ m_fleet_cnt' = m_fleet_cnt
      BY <1>4 DEF RunEvent, receiverVars, metricVars
  <2>2. m_stream_cnt' = m_stream_cnt \/ \E k, rest : SendPacketStream(k, rest)
      BY <1>4 DEF RunEvent
  <2>3. CASE m_stream_cnt' = m_stream_cnt
      BY <2>1, <2>3 DEF StreamsSent
  <2> QED
      BY <1>2, <2>1, <2>2, <2>3
<1>5. CASE ReceiverHandleRecv
  <2>1. m_stream_cnt' = m_stream_cnt /\ m_fleet_cnt' = m_fleet_cnt
      BY <1>5 DEF ReceiverHandleRecv, senderVars
  <2>2. streams_measured' \in {streams_measured, streams_measured + 1}
      BY <1>5 DEF ReceiverHandleRecv, ReceiverReacts, GetMetrics, receiverVars, metricVars
  <2> QED
      BY <2>1, <2>2 DEF StreamsSent
<1>6. CASE \/ SenderStart \/ ReceiverStart \/ HandleConnected \/ HandleAccept
           \/ ReceiverHandleRecvfrom \/ SenderStop \/ ReceiverStop \/ UNCHANGED vars
  <2>1. UNCHANGED <<m_stream_cnt, m_fleet_cnt, streams_measured>>
      BY <1>6 DEF SenderStart, ReceiverStart, HandleConnected, HandleAccept,
                  ReceiverHandleRecvfrom, SenderStop, ReceiverStop, vars, senderVars,
                  receiverVars, metricVars
  <2> QED
      BY <2>1 DEF StreamsSent
<1> QED
    BY <1>3, <1>4, <1>5, <1>6 DEF Next, Work

\* The port implements the exchange: whatever happens to packets and control
\* words, streams are sent and measured in turn and never more than there are.
THEOREM ImplementsExchange == Spec => ExchangeSpec
<1>1. Init => Exchange!Init
  <2> SUFFICES ASSUME Init PROVE Exchange!Init
      OBVIOUS
  <2>1. m_fleet_cnt = 0 /\ m_stream_cnt = 0 /\ streams_measured = 0
      BY DEF Init
  <2>2. StreamsSent = 0
      BY <2>1, CounterFacts DEF StreamsSent
  <2> QED
      BY <2>1, <2>2 DEF Exchange!Init
<1>2. IInv /\ IInv' /\ [Next]_vars => [Exchange!Next]_(Exchange!vars)
  <2> SUFFICES ASSUME IInv, IInv', [Next]_vars
               PROVE  [Exchange!Next]_(Exchange!vars)
      OBVIOUS
  <2>1. /\ StreamsSent \in Nat /\ streams_measured \in Nat
        /\ StreamsSent - streams_measured \in {0, 1}
      BY SentAndMeasured
  <2>2. /\ StreamsSent' \in Nat /\ streams_measured' \in Nat
        /\ StreamsSent' - streams_measured' \in {0, 1}
        /\ StreamsSent' <= AllStreams
    <3>1. IInv' => (/\ StreamsSent \in Nat /\ streams_measured \in Nat
                    /\ StreamsSent - streams_measured \in {0, 1}
                    /\ StreamsSent <= AllStreams)'
        BY SentAndMeasured, PTL
    <3> QED
        BY <3>1 DEF AllStreams
  <2>3. AllStreams \in Nat
      BY CounterFacts DEF AllStreams
  <2>4. CASE UNCHANGED <<StreamsSent, streams_measured>>
      BY <2>4 DEF Exchange!vars
  <2>5. CASE StreamsSent' = StreamsSent + 1 /\ UNCHANGED streams_measured
      BY <2>1, <2>2, <2>3, <2>5 DEF Exchange!Next, Exchange!SendStream
  <2>6. CASE streams_measured' = streams_measured + 1 /\ UNCHANGED StreamsSent
      BY <2>1, <2>2, <2>6 DEF Exchange!Next, Exchange!MeasureStream
  <2> QED
      BY <2>4, <2>5, <2>6, CounterSteps
<1> QED
    BY <1>1, <1>2, Invariance, PTL DEF Spec, ExchangeSpec, Exchange!Spec
-----------------------------------------------------------------------------
(* Where the metrics come from, on a path that keeps the order: which       *)
(* packets can be under way while a stream is due.                          *)

\* The stream that is being sent or whose metrics come next.
DueStream == <<m_fleet_cnt, Due>>

Sampled == \E k \in PktIds : m_owd[k] # NoSample

\* The packets in flight and the samples taken are those of the stream that is
\* due; with the first sample the receiver has taken over its numbers.
OnlyDueUnderWay ==
    /\ \A p \in probes : p.stream = DueStream
    /\ \A k \in PktIds : m_owd[k] \in {NoSample, DueStream}
    /\ Sampled => m_fleet_id = m_fleet_cnt /\ m_stream_id = Due

\* Between the metrics of a stream and its successor nothing is under way.
QuietBetween ==
    agenda = <<>> /\ streams_measured = StreamsSent => probes = {} /\ ~Sampled

OwnStream == \A i \in Streams : \A s, t \in m_pct[i] : s = t /\ s[2] = i

OrderInv == InOrder => OnlyDueUnderWay /\ QuietBetween /\ OwnStream

\* A packet of the stream that is due has arrived or is going to.
Arriving == probes # {} \/ Sampled

\* Unless the sender is stopped, either a packet of the stream gets through or
\* all packets sent so far are lost, and the latter cannot last.
StreamArrives ==
    /\ ~s_stopped =>
         /\ \A k \in 1..StreamLen :
                agenda = <<SendPacketEvent(k)>> => Arriving \/ lost >= k
         /\ agenda = <<FinishedEvent>> => Arriving
    /\ toRcv = <<FINISHED_STREAM>> => Arriving

\* The streams of the fleet before the one that is due are measured.
FleetSoFar == \A i \in Streams : i < Due => m_pct[i] = {<<m_fleet_cnt, i>>}

SummariesComplete ==
    \A f \in 0..Period-1 :
        \/ m_pct_med[f] = NoSummary
        \/ m_pct_med[f] = [i \in Streams |-> {<<f, i>>}]

\* A stream whose packets are all lost is noted.
LossNoted == stream_lost \/ lost < StreamLen

ArrivalInv ==
    /\ LossNoted
    /\ InOrder /\ ~stream_lost => StreamArrives /\ FleetSoFar /\ SummariesComplete

MInv == IInv /\ OrderInv /\ ArrivalInv

-----------------------------------------------------------------------------
(* Every action preserves OrderInv.                                        *)

\* Nothing is in flight, sampled or measured at the start.
LEMMA InitOrder == Init => OrderInv
    BY DEF Init, OrderInv, OnlyDueUnderWay, QuietBetween, OwnStream, Sampled

\* A step that touches neither the counters nor the probes nor the metrics.
LEMMA FrameOrder ==
    ASSUME OrderInv,
           UNCHANGED <<m_fleet_cnt, m_stream_cnt, agenda, metricVars, probes>>
    PROVE  OrderInv'
    BY DEF OrderInv, OnlyDueUnderWay, QuietBetween, OwnStream, Sampled, DueStream,
           Due, Unmeasured, StreamsSent, metricVars

\* The stream that is due while its packets are sent and after the last one.
LEMMA DueWhileSending ==
    ASSUME TypeOK, streams_measured = StreamsSent, UNCHANGED streams_measured,
           UNCHANGED m_fleet_cnt, m_stream_cnt' \in {m_stream_cnt, m_stream_cnt + 1}
    PROVE  Due = m_stream_cnt /\ Due' = m_stream_cnt
           /\ DueStream' = DueStream
<1>1. m_stream_cnt \in Nat /\ StreamsSent \in Nat
    BY CounterFacts, StreamsSentNat DEF TypeOK
<1>2. m_fleet_cnt * NumStream \in Nat
    BY CounterFacts DEF TypeOK
<1>3. Due = m_stream_cnt
    BY <1>1 DEF Due, Unmeasured
<1>4. Due' = m_stream_cnt
    BY <1>1, <1>2 DEF Due, Unmeasured, StreamsSent
<1> QED
    BY <1>3, <1>4 DEF DueStream

\* What one call of SendPacketStream does to the path and the agenda.
LEMMA SendPacketStreamEffect ==
    ASSUME NEW k \in 0..StreamLen, SendPacketStream(k, <<>>)
    PROVE  /\ m_stream_cnt' \in {m_stream_cnt, m_stream_cnt + 1}
           /\ agenda' # <<>>
           /\ probes' \subseteq probes \cup
                {[stream |-> <<m_fleet_cnt, m_stream_cnt>>, pkt_id |-> k]}
<1>1. CASE k < StreamLen
    BY <1>1, OneElement, CounterFacts DEF SendPacketStream, SendProbe, pathVars
<1>2. CASE k >= StreamLen
    BY <1>2, OneElement, CounterFacts DEF SendPacketStream, pathVars
<1> QED
    BY <1>1, <1>2, CounterFacts

\* The packet sent belongs to the stream that is due.
LEMMA SendOrder ==
    ASSUME TypeOK, OrderInv, streams_measured = StreamsSent,
           NEW k \in 0..StreamLen, SendPacketStream(k, <<>>),
           UNCHANGED <<m_fleet_cnt, metricVars>>
    PROVE  OrderInv'
<1> SUFFICES ASSUME InOrder PROVE (OnlyDueUnderWay /\ QuietBetween /\ OwnStream)'
    BY DEF OrderInv
<1>1. /\ m_stream_cnt' \in {m_stream_cnt, m_stream_cnt + 1}
      /\ agenda' # <<>>
      /\ probes' \subseteq probes \cup
           {[stream |-> <<m_fleet_cnt, m_stream_cnt>>, pkt_id |-> k]}
    BY SendPacketStreamEffect
<1>2. Due = m_stream_cnt /\ Due' = m_stream_cnt /\ DueStream' = DueStream
    BY <1>1, DueWhileSending DEF metricVars
<1>3. OnlyDueUnderWay /\ OwnStream
    BY DEF OrderInv
<1>4. \A p \in probes' : p.stream = DueStream'
    BY <1>1, <1>2, <1>3 DEF OnlyDueUnderWay, DueStream
<1>5. OnlyDueUnderWay'
    BY <1>2, <1>3, <1>4 DEF OnlyDueUnderWay, Sampled, metricVars
<1> QED
    BY <1>1, <1>3, <1>5 DEF QuietBetween, OwnStream, metricVars

\* The sender runs an event: it sends a packet, or announces the end of the stream.
LEMMA RunEventOrder ==
    ASSUME IInv, OrderInv, RunEvent
    PROVE  OrderInv'
<1> USE CounterFacts
<1>1. PICK i \in 1..Len(agenda) :
         \/ /\ agenda[i].op = "SendFleet"
            /\ SendPacketStream(0, Without(i))
         \/ /\ agenda[i].op = "SendPacketStream"
            /\ SendPacketStream(agenda[i].pkt_id, Without(i))
         \/ /\ agenda[i].op = "SendControlMessage"
            /\ agenda' = Without(i)
            /\ UNCHANGED <<m_stream_cnt, pathVars>>
    BY DEF RunEvent
<1>2. agenda # <<>> /\ TypeOK
    BY <1>1 DEF IInv
<1>3. UNCHANGED <<m_fleet_cnt, metricVars>>
    BY DEF RunEvent, receiverVars
<1>4. CASE Streaming
  <2>1. PICK k \in 0..StreamLen :
           \/ agenda = <<SendFleetEvent>> /\ k = 0
           \/ agenda = <<SendPacketEvent(k)>>
      BY <1>4 DEF Streaming
  <2>2. SendPacketStream(k, <<>>)
      BY <1>1, <2>1, OnlyEvent DEF SendFleetEvent, SendPacketEvent
  <2> QED
      BY <1>2, <1>3, <1>4, <2>2, SendOrder DEF Streaming
<1>5. CASE Finishing
  <2>1. agenda = <<FinishedEvent>>
      BY <1>2, <1>5 DEF Finishing
  <2>2. agenda[i].op = "SendControlMessage"
      BY <2>1, OnlyEvent DEF FinishedEvent
  <2>3. UNCHANGED <<m_stream_cnt, probes>>
      BY <1>1, <2>2 DEF pathVars
  <2>4. UNCHANGED <<Due, DueStream, StreamsSent>>
      BY <1>3, <2>3 DEF Due, Unmeasured, StreamsSent, DueStream, metricVars
  <2>5. streams_measured' # StreamsSent'
      BY <1>2, <1>3, <1>5, <2>4, StreamsSentNat DEF Finishing, metricVars
  <2> QED
      BY <1>3, <2>3, <2>4, <2>5
         DEF OrderInv, OnlyDueUnderWay, QuietBetween, OwnStream, Sampled, metricVars
<1> QED
    BY <1>2, <1>4, <1>5 DEF IInv, Turn, Starting, Asked, Continuing

\* The sender reads a control word: it starts a stream, or goes on to the next
\* one while nothing of the last one is under way.
LEMMA SenderHandleRecvOrder ==
    ASSUME IInv, OrderInv, SenderHandleRecv
    PROVE  OrderInv'
<1> USE CounterFacts
<1>1. SenderReacts(Head(toSnd)) /\ toSnd # <<>> /\ UNCHANGED metricVars
    BY DEF SenderHandleRecv, MayRead, receiverVars
<1>2. TypeOK
    BY DEF IInv
<1>3. CASE Starting
  <2>1. UNCHANGED <<m_fleet_cnt, m_stream_cnt, agenda, probes>>
      BY <1>1, <1>3 DEF SenderReacts, Starting, pathVars
  <2> QED
      BY <1>1, <2>1, FrameOrder
<1>4. CASE Asked
  <2>1. Head(toSnd) = SEND_FLEET /\ agenda = <<>>
      BY <1>1, <1>4, OneElement DEF Asked
  <2>2. SendPacketStream(0, <<>>) /\ UNCHANGED m_fleet_cnt
      BY <1>1, <1>4, <2>1, WordFacts DEF SenderReacts, Asked, Running
  <2> QED
      BY <1>1, <1>2, <1>4, <2>2, SendOrder DEF Asked, StreamsSent
<1>5. CASE Continuing
  <2>1. Head(toSnd) = CONTINUE_STREAM /\ agenda = <<>>
      BY <1>1, <1>5, OneElement DEF Continuing
  <2>2. ContinueStream /\ UNCHANGED probes
      BY <1>1, <1>5, <2>1, WordFacts DEF SenderReacts, Continuing, Running, pathVars
  <2>3. CASE agenda' = agenda
      BY <1>1, <2>2, <2>3, <2>1, OneElement, FrameOrder
         DEF ContinueStream, SendFleetEvent
  <2>4. CASE agenda' # agenda
    <3>1. agenda' # <<>>
        BY <2>1, <2>4
    <3>2. InOrder => probes = {} /\ ~Sampled /\ OwnStream
        BY <1>5, <2>1 DEF OrderInv, QuietBetween, Continuing
    <3> QED
        BY <1>1, <2>2, <3>1, <3>2
           DEF OrderInv, OnlyDueUnderWay, QuietBetween, OwnStream, Sampled, metricVars
  <2> QED
      BY <2>3, <2>4
<1> QED
    BY <1>1, <1>3, <1>4, <1>5 DEF IInv, Turn, Streaming, Finishing

\* A probe packet arrives: it belongs to the stream that is due.
LEMMA ReceiverHandleRecvfromOrder ==
    ASSUME IInv, OrderInv, ReceiverHandleRecvfrom
    PROVE  OrderInv'
<1> SUFFICES ASSUME InOrder PROVE (OnlyDueUnderWay /\ QuietBetween /\ OwnStream)'
    BY DEF OrderInv
<1>1. PICK p \in probes :
         /\ probes' = probes \ {p}
         /\ m_fleet_id' = p.stream[1] /\ m_stream_id' = p.stream[2]
         /\ m_owd' = [m_owd EXCEPT ![p.pkt_id] = p.stream]
    BY DEF ReceiverHandleRecvfrom, StreamIdOf
<1>2. UNCHANGED <<m_fleet_cnt, m_stream_cnt, agenda, m_pct, streams_measured>>
    BY DEF ReceiverHandleRecvfrom, senderVars
<1>3. UNCHANGED <<Due, DueStream, StreamsSent>>
    BY <1>2 DEF Due, Unmeasured, StreamsSent, DueStream
<1>4. OnlyDueUnderWay /\ QuietBetween /\ OwnStream
    BY DEF OrderInv
<1>5. p.stream = DueStream /\ p.pkt_id \in PktIds
    BY DEF OrderInv, OnlyDueUnderWay, IInv, TypeOK, Packets
<1>6. m_owd \in [PktIds -> Tags \cup {NoSample}]
    BY DEF IInv, TypeOK
<1>7. \A k \in PktIds : m_owd'[k] \in {NoSample, DueStream}
    BY <1>1, <1>4, <1>5, <1>6 DEF OnlyDueUnderWay
<1>8. m_fleet_id' = m_fleet_cnt /\ m_stream_id' = Due
    BY <1>1, <1>5 DEF DueStream
<1>9. OnlyDueUnderWay'
    BY <1>1, <1>2, <1>3, <1>4, <1>7, <1>8 DEF OnlyDueUnderWay
<1>10. ~(agenda = <<>> /\ streams_measured = StreamsSent)
    BY <1>4 DEF QuietBetween
<1> QED
    BY <1>2, <1>3, <1>4, <1>9, <1>10 DEF QuietBetween, OwnStream

\* What the metrics of a stream that is due are computed from.
LEMMA MetricsOfDueStream ==
    ASSUME IInv, InOrder, OrderInv, Finishing, probes = {}, GetMetrics
    PROVE  /\ m_stream_id \in Streams
           /\ m_pct' = [m_pct EXCEPT ![m_stream_id] = IF Sampled THEN {DueStream} ELSE {}]
           /\ Sampled => m_fleet_id = m_fleet_cnt /\ m_stream_id = Due
<1>1. OnlyDueUnderWay
    BY DEF OrderInv
<1>2. m_stream_id \in Streams
    BY IndexWhenDue
<1>3. {m_owd[k] : k \in PktIds} \ {NoSample} = IF Sampled THEN {DueStream} ELSE {}
  <2>1. DueStream # NoSample
      BY DEF DueStream, NoSample
  <2> QED
      BY <1>1, <2>1 DEF OnlyDueUnderWay, Sampled
<1>4. m_pct' = [m_pct EXCEPT ![m_stream_id] = {m_owd[k] : k \in PktIds} \ {NoSample}]
    BY DEF GetMetrics
<1> QED
    BY <1>1, <1>2, <1>3, <1>4 DEF OnlyDueUnderWay

\* The receiver reads a control word: in order, no packet is in flight by then.
LEMMA ReceiverHandleRecvOrder ==
    ASSUME IInv, OrderInv, ReceiverHandleRecv
    PROVE  OrderInv'
<1> SUFFICES ASSUME InOrder PROVE (OnlyDueUnderWay /\ QuietBetween /\ OwnStream)'
    BY DEF OrderInv
<1> USE CounterFacts
<1>1. /\ ReceiverReacts(Head(toRcv)) /\ probes = {} /\ toRcv # <<>>
      /\ UNCHANGED <<m_fleet_cnt, m_stream_cnt, agenda, probes>>
    BY DEF ReceiverHandleRecv, senderVars, pathVars, MayRead
<1>2. CASE Starting
  <2>1. UNCHANGED metricVars
      BY <1>1, <1>2, OneElement, WordFacts DEF ReceiverReacts, Starting
  <2> QED
      BY <1>1, <2>1, FrameOrder DEF OrderInv
<1>3. CASE Finishing
  <2>1. Head(toRcv) = FINISHED_STREAM
      BY <1>1, <1>3, OneElement DEF Finishing
  <2>2. GetMetrics
      BY <1>1, <1>3, <2>1 DEF ReceiverReacts, Finishing, Running
  <2>3. ~Sampled'
    <3>1. \A k \in PktIds : m_owd'[k] = NoSample
        BY <2>2 DEF GetMetrics, SamplesCleared
    <3> QED
        BY <3>1 DEF Sampled
  <2>4. OwnStream'
    <3>1. m_pct \in [Streams -> SUBSET Tags] /\ OwnStream
        BY DEF IInv, TypeOK, OrderInv
    <3>2. /\ m_stream_id \in Streams
          /\ m_pct' = [m_pct EXCEPT ![m_stream_id] = IF Sampled THEN {DueStream} ELSE {}]
          /\ Sampled => m_stream_id = Due
        BY <1>1, <1>3, <2>2, MetricsOfDueStream
    <3>3. \A i \in Streams : \/ m_pct'[i] = m_pct[i]
                             \/ m_pct'[i] = {}
                             \/ m_pct'[i] = {DueStream} /\ i = Due
        BY <3>1, <3>2
    <3>4. DueStream[2] = Due
        BY DEF DueStream
    <3> QED
        BY <3>1, <3>3, <3>4 DEF OwnStream
  <2> QED
      BY <1>1, <2>3, <2>4 DEF OnlyDueUnderWay, QuietBetween, Sampled
<1> QED
    BY <1>1, <1>2, <1>3 DEF IInv, Turn, Asked, Streaming, Continuing

\* No callback takes a packet of another stream into the metrics.
LEMMA NextOrder == IInv /\ OrderInv /\ [Next]_vars => OrderInv'
<1> SUFFICES ASSUME IInv, OrderInv, [Next]_vars PROVE OrderInv'
    OBVIOUS
<1>1. CASE SenderStart \/ ReceiverStart \/ HandleConnected \/ HandleAccept
           \/ SenderStop \/ ReceiverStop \/ UNCHANGED vars
  <2>1. UNCHANGED <<m_fleet_cnt, m_stream_cnt, agenda, metricVars, probes>>
      BY <1>1 DEF SenderStart, ReceiverStart, HandleConnected, HandleAccept,
                  SenderStop, ReceiverStop, vars, senderVars, receiverVars, pathVars
  <2> QED
      BY <2>1, FrameOrder
<1>2. CASE RunEvent
    BY <1>2, RunEventOrder
<1>3. CASE SenderHandleRecv
    BY <1>3, SenderHandleRecvOrder
<1>4. CASE ReceiverHandleRecvfrom
    BY <1>4, ReceiverHandleRecvfromOrder
<1>5. CASE ReceiverHandleRecv
    BY <1>5, ReceiverHandleRecvOrder
<1> QED
    BY <1>1, <1>2, <1>3, <1>4, <1>5 DEF Next, Work

\* Where the path keeps the order, a metric is computed from packets of one
\* stream only, the one whose number it is stored under: for every loss, even
\* when all packets of a stream are lost and m_stream_id is then a wrong guess.
THEOREM MetricsOfOwnStream == Spec => []MetricOfOwnStream
<1>1. Init => IInv /\ OrderInv
    BY InitEstablishes, InitOrder
<1>2. IInv /\ OrderInv /\ [Next]_vars => (IInv /\ OrderInv)'
    BY NextPreserves, NextOrder
<1>3. IInv /\ OrderInv => MetricOfOwnStream
    BY DEF OrderInv, OwnStream, MetricOfOwnStream
<1> QED
    BY <1>1, <1>2, <1>3, PTL DEF Spec

-----------------------------------------------------------------------------
(* Every action preserves ArrivalInv.                                      *)

\* Nothing is sent, so nothing is waited for.
LEMMA InitArrival == Init => ArrivalInv
<1> SUFFICES ASSUME Init PROVE ArrivalInv
    OBVIOUS
<1>1. StreamArrives
    BY DEF Init, StreamArrives, SendPacketEvent, FinishedEvent
<1>2. FleetSoFar
    BY CounterFacts DEF Init, FleetSoFar, Due, Unmeasured, StreamsSent, Streams
<1>3. SummariesComplete
    BY DEF Init, SummariesComplete
<1>4. LossNoted
    BY CounterFacts DEF Init, LossNoted
<1> QED
    BY <1>1, <1>2, <1>3, <1>4 DEF ArrivalInv

\* A step that leaves the stream and the receiver alone and announces nothing.
LEMMA FrameArrival ==
    ASSUME ArrivalInv, s_stopped \in BOOLEAN, s_stopped' \in {s_stopped, TRUE},
           toRcv' = toRcv \/ toRcv' # <<FINISHED_STREAM>>,
           UNCHANGED <<m_fleet_cnt, m_stream_cnt, agenda, metricVars, pathVars>>
    PROVE  ArrivalInv'
<1> SUFFICES ASSUME InOrder, ~stream_lost
             PROVE  (StreamArrives /\ FleetSoFar /\ SummariesComplete)'
    BY DEF ArrivalInv, LossNoted, pathVars
<1>1. StreamArrives /\ FleetSoFar /\ SummariesComplete
    BY DEF ArrivalInv
<1> USE DEF metricVars, pathVars
<1>2. StreamArrives'
    BY <1>1 DEF StreamArrives, Arriving, Sampled
<1>3. FleetSoFar'
    BY <1>1 DEF FleetSoFar, Due, Unmeasured, StreamsSent
<1> QED
    BY <1>1, <1>2, <1>3 DEF SummariesComplete

\* A packet is sent: it gets through or adds to those lost; when all are sent
\* one got through, since a stream lost as a whole would have been noted.
LEMMA SendArrival ==
    ASSUME TypeOK, ArrivalInv, streams_measured = StreamsSent,
           NEW k \in 0..StreamLen, SendPacketStream(k, <<>>),
           InOrder /\ ~stream_lost /\ ~s_stopped /\ k > 0
               => Arriving \/ lost >= k,
           toRcv' = <<>>,
           UNCHANGED <<m_fleet_cnt, metricVars, s_stopped>>
    PROVE  ArrivalInv'
<1> USE CounterFacts
<1>0. LossNoted' /\ (stream_lost => stream_lost')
  <2>1. lost \in 0..StreamLen /\ LossNoted /\ stream_lost \in BOOLEAN
      BY DEF TypeOK, ArrivalInv
  <2>2. CASE UNCHANGED pathVars
      BY <2>1, <2>2 DEF pathVars, LossNoted
  <2>3. ASSUME NEW before \in {0, lost}, lost' = before, UNCHANGED stream_lost
        PROVE  LossNoted' /\ (stream_lost => stream_lost')
      BY <2>1, <2>3 DEF LossNoted
  <2>4. ASSUME NEW before \in {0, lost}, before < MaxLoss, lost' = before + 1,
               stream_lost' = (stream_lost \/ lost' = StreamLen)
        PROVE  LossNoted' /\ (stream_lost => stream_lost')
    <3>1. lost' \in 0..StreamLen
        BY <2>1, <2>4
    <3>2. lost' # StreamLen => lost' < StreamLen
        BY <3>1
    <3> QED
        BY <2>4, <3>2 DEF LossNoted
  <2> QED
      BY <2>2, <2>3, <2>4 DEF SendPacketStream, SendProbe
<1> SUFFICES ASSUME InOrder, ~stream_lost
             PROVE  (StreamArrives /\ FleetSoFar /\ SummariesComplete)'
    BY <1>0 DEF ArrivalInv
<1>1. StreamArrives /\ FleetSoFar /\ SummariesComplete
    BY DEF ArrivalInv
<1>2. Due' = Due
    BY SendPacketStreamEffect, DueWhileSending DEF metricVars
<1>3. (FleetSoFar /\ SummariesComplete)'
    BY <1>1, <1>2 DEF FleetSoFar, SummariesComplete, metricVars
<1>4. Sampled' = Sampled
    BY DEF Sampled, metricVars
<1>5. lost \in 0..MaxLoss /\ lost < StreamLen
    BY DEF TypeOK, ArrivalInv, LossNoted
<1>6. ASSUME ~s_stopped PROVE k < StreamLen => (Arriving' \/ lost' >= k + 1)
  <2>1. SUFFICES ASSUME k < StreamLen PROVE Arriving' \/ lost' >= k + 1
      OBVIOUS
  <2>2. \/ probes' # {}
        \/ lost' = (IF k = 0 THEN 0 ELSE lost) + 1 /\ probes' = probes
    <3>1. SendProbe(k)
        BY <2>1 DEF SendPacketStream
    <3>2. \/ [stream |-> <<m_fleet_cnt, m_stream_cnt>>, pkt_id |-> k] \in probes'
          \/ lost' = (IF k = 0 THEN 0 ELSE lost) + 1 /\ probes' = probes
        BY <1>6, <3>1 DEF SendProbe
    <3> QED
        BY <3>2
  <2> QED
      BY <1>4, <1>5, <1>6, <2>2 DEF Arriving
<1>7. StreamArrives'
  <2>1. CASE k < StreamLen
    <3>1. agenda' = <<SendPacketEvent(k + 1)>>
        BY <2>1, OneElement DEF SendPacketStream
    <3>2. agenda' # <<FinishedEvent>>
        BY <3>1, OneElement DEF SendPacketEvent, FinishedEvent
    <3>3. \A j \in 1..StreamLen : agenda' = <<SendPacketEvent(j)>> => j = k + 1
        BY <3>1, OneElement DEF SendPacketEvent
    <3> QED
        BY <1>6, <2>1, <3>2, <3>3, OneElement DEF StreamArrives
  <2>2. CASE k >= StreamLen
    <3>1. agenda' = <<FinishedEvent>> /\ UNCHANGED probes
        BY <2>2, OneElement DEF SendPacketStream, pathVars
    <3>2. \A j \in 1..StreamLen : agenda' # <<SendPacketEvent(j)>>
        BY <3>1, OneElement DEF SendPacketEvent, FinishedEvent
    <3>3. ~s_stopped => Arriving'
        BY <1>4, <1>5, <2>2, <3>1 DEF Arriving
    <3> QED
        BY <3>2, <3>3, OneElement DEF StreamArrives
  <2> QED
      BY <2>1, <2>2
<1> QED
    BY <1>3, <1>7

\* The end of a stream is announced only by a sender that sent all its packets.
LEMMA RunEventArrival ==
    ASSUME IInv, ArrivalInv, RunEvent
    PROVE  ArrivalInv'
<1> USE CounterFacts
<1>1. PICK i \in 1..Len(agenda) :
         \/ /\ agenda[i].op = "SendFleet"
            /\ SendPacketStream(0, Without(i))
            /\ UNCHANGED toRcv
         \/ /\ agenda[i].op = "SendPacketStream"
            /\ SendPacketStream(agenda[i].pkt_id, Without(i))
            /\ UNCHANGED toRcv
         \/ /\ agenda[i].op = "SendControlMessage"
            /\ toRcv' = AfterSend(toRcv, FINISHED_STREAM, s_stopped)
            /\ agenda' = Without(i)
            /\ UNCHANGED <<m_stream_cnt, pathVars>>
    BY DEF RunEvent
<1>2. agenda # <<>> /\ TypeOK
    BY <1>1 DEF IInv
<1>3. UNCHANGED <<m_fleet_cnt, metricVars, s_stopped>>
    BY DEF RunEvent, receiverVars, lifeVars
<1>4. CASE Streaming
  <2>1. PICK k \in 0..StreamLen :
           \/ agenda = <<SendFleetEvent>> /\ k = 0
           \/ agenda = <<SendPacketEvent(k)>>
      BY <1>4 DEF Streaming
  <2>2. SendPacketStream(k, <<>>) /\ UNCHANGED toRcv
      BY <1>1, <2>1, OnlyEvent DEF SendFleetEvent, SendPacketEvent
  <2>3. k > 0 => agenda = <<SendPacketEvent(k)>>
      BY <2>1
  <2>4. InOrder /\ ~stream_lost /\ ~s_stopped /\ k > 0
            => Arriving \/ lost >= k
      BY <2>3 DEF ArrivalInv, StreamArrives
  <2> QED
      BY <1>2, <1>3, <1>4, <2>2, <2>4, SendArrival DEF Streaming
<1>5. CASE Finishing
  <2>1. agenda = <<FinishedEvent>> /\ toRcv = <<>>
      BY <1>2, <1>5 DEF Finishing
  <2>2. agenda[i].op = "SendControlMessage" /\ Without(i) = <<>>
      BY <2>1, OnlyEvent DEF FinishedEvent
  <2>3. /\ agenda' = <<>> /\ UNCHANGED <<m_stream_cnt, probes, lost, stream_lost>>
        /\ toRcv' = AfterSend(toRcv, FINISHED_STREAM, s_stopped)
      BY <1>1, <2>2 DEF pathVars
  <2>4. s_stopped => toRcv' # <<FINISHED_STREAM>>
      BY <2>1, <2>3, OneElement DEF AfterSend
  <2>5. UNCHANGED <<Due, Sampled, Arriving>>
      BY <1>3, <2>3 DEF Due, Unmeasured, StreamsSent, Sampled, Arriving, metricVars
  <2> SUFFICES ASSUME InOrder, ~stream_lost
               PROVE  (StreamArrives /\ FleetSoFar /\ SummariesComplete)'
      BY <2>3 DEF ArrivalInv, LossNoted
  <2>6. StreamArrives /\ FleetSoFar /\ SummariesComplete
      BY DEF ArrivalInv
  <2>7. StreamArrives'
      BY <1>3, <2>1, <2>3, <2>4, <2>5, <2>6, OneElement DEF StreamArrives
  <2> QED
      BY <1>3, <2>5, <2>6, <2>7 DEF FleetSoFar, SummariesComplete, metricVars
<1> QED
    BY <1>2, <1>4, <1>5 DEF IInv, Turn, Starting, Asked, Continuing

\* A new stream starts with the count of the lost packets at zero, a new fleet
\* with no stream measured.
LEMMA SenderHandleRecvArrival ==
    ASSUME IInv, ArrivalInv, SenderHandleRecv
    PROVE  ArrivalInv'
<1> USE CounterFacts
<1>1. /\ SenderReacts(Head(toSnd)) /\ toSnd # <<>>
      /\ UNCHANGED <<metricVars, s_stopped, toRcv>>
    BY DEF SenderHandleRecv, MayRead, receiverVars, lifeVars
<1>2. TypeOK
    BY DEF IInv
<1>3. CASE Starting
  <2>1. UNCHANGED <<m_fleet_cnt, m_stream_cnt, agenda, pathVars>>
      BY <1>1, <1>3 DEF SenderReacts, Starting
  <2> QED
      BY <1>1, <1>2, <2>1, FrameArrival DEF TypeOK
<1>4. CASE Asked
  <2>1. Head(toSnd) = SEND_FLEET /\ agenda = <<>>
      BY <1>1, <1>4, OneElement DEF Asked
  <2>2. SendPacketStream(0, <<>>) /\ UNCHANGED m_fleet_cnt
      BY <1>1, <1>4, <2>1, WordFacts DEF SenderReacts, Asked, Running
  <2> QED
      BY <1>1, <1>2, <1>4, <2>2, SendArrival DEF Asked, StreamsSent
<1>5. CASE Continuing
  <2>1. Head(toSnd) = CONTINUE_STREAM /\ agenda = <<>> /\ toRcv' = <<>>
      BY <1>1, <1>5, OneElement DEF Continuing
  <2>2. ContinueStream /\ UNCHANGED <<lost, stream_lost>>
      BY <1>1, <1>5, <2>1, WordFacts DEF SenderReacts, Continuing, Running, pathVars
  <2>3. agenda' \in {<<>>, <<SendFleetEvent>>}
      BY <2>1, <2>2, OneElement DEF ContinueStream
  <2>4. StreamArrives'
    <3>1. \A k \in 1..StreamLen : agenda' # <<SendPacketEvent(k)>>
        BY <2>3, OneElement DEF SendFleetEvent, SendPacketEvent
    <3>2. agenda' # <<FinishedEvent>>
        BY <2>3, OneElement DEF SendFleetEvent, FinishedEvent
    <3> QED
        BY <2>1, <3>1, <3>2, OneElement DEF StreamArrives
  <2>5. FleetSoFar => FleetSoFar'
    <3>1. CASE UNCHANGED <<m_stream_cnt, m_fleet_cnt>>
        BY <1>1, <3>1 DEF FleetSoFar, Due, Unmeasured, StreamsSent, metricVars
    <3>2. CASE ~UNCHANGED <<m_stream_cnt, m_fleet_cnt>>
      <4>1. /\ m_stream_cnt' = 0 /\ m_fleet_cnt' = m_fleet_cnt + 1
            /\ m_stream_cnt >= NumStream
          BY <2>2, <3>2 DEF ContinueStream
      <4>2. m_stream_cnt = NumStream /\ m_fleet_cnt \in Nat
          BY <1>2, <4>1 DEF TypeOK
      <4>3. (m_fleet_cnt + 1) * NumStream = m_fleet_cnt * NumStream + NumStream
            /\ m_fleet_cnt * NumStream \in Nat
            /\ (m_fleet_cnt + 1) * NumStream \in Nat
          BY <4>2
      <4>4. StreamsSent' = StreamsSent /\ StreamsSent \in Nat
          BY <4>1, <4>2, <4>3 DEF StreamsSent
      <4>5. streams_measured' = StreamsSent
          BY <1>1, <1>5 DEF Continuing, metricVars
      <4>6. Due' = 0
          BY <4>1, <4>4, <4>5 DEF Due, Unmeasured
      <4> QED
          BY <4>6 DEF FleetSoFar, Streams
    <3> QED
        BY <3>1, <3>2
  <2> QED
      BY <1>1, <2>2, <2>4, <2>5 DEF ArrivalInv, LossNoted, SummariesComplete, metricVars
<1> QED
    BY <1>1, <1>3, <1>4, <1>5 DEF IInv, Turn, Streaming, Finishing

\* A probe packet arrives: from then on there is a sample.
LEMMA ReceiverHandleRecvfromArrival ==
    ASSUME IInv, OrderInv, ArrivalInv, ReceiverHandleRecvfrom
    PROVE  ArrivalInv'
<1> SUFFICES ASSUME InOrder, ~stream_lost
             PROVE  (StreamArrives /\ FleetSoFar /\ SummariesComplete)'
    BY DEF ReceiverHandleRecvfrom, ArrivalInv, LossNoted
<1>1. PICK p \in probes : m_owd' = [m_owd EXCEPT ![p.pkt_id] = p.stream]
    BY DEF ReceiverHandleRecvfrom
<1>2. /\ m_owd \in [PktIds -> Tags \cup {NoSample}]
      /\ p.pkt_id \in PktIds /\ p.stream = DueStream
    BY DEF IInv, TypeOK, Packets, OrderInv, OnlyDueUnderWay
<1>3. m_owd'[p.pkt_id] # NoSample
    BY <1>1, <1>2 DEF DueStream, NoSample
<1>4. Arriving'
    BY <1>2, <1>3 DEF Arriving, Sampled
<1>5. UNCHANGED <<m_fleet_cnt, m_stream_cnt, m_pct, m_pct_med, streams_measured>>
    BY DEF ReceiverHandleRecvfrom, senderVars
<1> QED
    BY <1>4, <1>5
       DEF ArrivalInv, StreamArrives, FleetSoFar, SummariesComplete, Due, Unmeasured,
           StreamsSent

\* The receiver reads a control word: at the end of a stream there is a sample,
\* so the metrics go where they belong, and after the last stream of a fleet
\* the summary has all of them.
LEMMA ReceiverHandleRecvArrival ==
    ASSUME IInv, OrderInv, ArrivalInv, ReceiverHandleRecv
    PROVE  ArrivalInv'
<1> USE CounterFacts
<1>1. /\ ReceiverReacts(Head(toRcv)) /\ toRcv # <<>> /\ (InOrder => probes = {})
      /\ UNCHANGED <<m_fleet_cnt, m_stream_cnt, agenda, pathVars, s_stopped>>
    BY DEF ReceiverHandleRecv, senderVars, lifeVars, MayRead
<1>2. PICK n \in 1..Len(toRcv) : toRcv' = SubSeq(toRcv, n + 1, Len(toRcv))
    BY DEF ReceiverHandleRecv, MayRead
<1>3. TypeOK
    BY DEF IInv
<1>4. CASE Starting
  <2>1. toRcv = <<SizeWord>> /\ m_snd_max_pkt_sz = 0
      BY <1>1, <1>4, OneElement, WordFacts DEF Starting
  <2>2. n = 1 /\ toRcv' = <<>>
      BY <1>2, <2>1, OneElement
  <2>3. UNCHANGED metricVars
      BY <1>1, <2>1, OneElement, WordFacts DEF ReceiverReacts
  <2> QED
      BY <1>1, <1>3, <2>2, <2>3, OneElement, FrameArrival DEF TypeOK
<1>5. CASE Finishing
  <2> SUFFICES ASSUME InOrder, ~stream_lost
               PROVE  (StreamArrives /\ FleetSoFar /\ SummariesComplete)'
      BY <1>1 DEF ArrivalInv, LossNoted, pathVars
  <2>1. toRcv = <<FINISHED_STREAM>> /\ agenda = <<>>
      BY <1>1, <1>5 DEF Finishing
  <2>2. n = 1 /\ toRcv' = <<>> /\ Head(toRcv) = FINISHED_STREAM
      BY <1>2, <2>1, OneElement
  <2>3. GetMetrics
      BY <1>1, <1>5, <2>2 DEF ReceiverReacts, Finishing, Running
  <2>4. Sampled
      BY <1>1, <2>1 DEF ArrivalInv, StreamArrives, Arriving
  <2>5. /\ m_stream_id \in Streams /\ m_stream_id = Due /\ m_fleet_id = m_fleet_cnt
        /\ m_pct' = [m_pct EXCEPT ![Due] = {DueStream}]
      BY <1>1, <1>5, <2>3, <2>4, MetricsOfDueStream
  <2>6. Due = m_stream_cnt - 1 /\ Due' = m_stream_cnt /\ Due' = Due + 1
    <3>1. Due = m_stream_cnt - 1
        BY <1>5, IndexWhenDue
    <3>2. StreamsSent \in Nat /\ StreamsSent' = StreamsSent
          /\ streams_measured' = StreamsSent /\ m_stream_cnt \in Nat
      <4>1. StreamsSent \in Nat
          BY <1>3, StreamsSentNat
      <4>2. StreamsSent' = StreamsSent
          BY <1>1 DEF StreamsSent
      <4>3. streams_measured' = streams_measured + 1
          BY <2>3 DEF GetMetrics
      <4>4. streams_measured = StreamsSent - 1
          BY <1>5 DEF Finishing
      <4>5. streams_measured' = StreamsSent
          BY <4>1, <4>3, <4>4
      <4> QED
          BY <1>3, <4>1, <4>2, <4>5 DEF TypeOK
    <3>3. Due' = m_stream_cnt
        BY <1>1, <3>2 DEF Due, Unmeasured
    <3> QED
        BY <3>1, <3>2, <3>3
  <2>7. m_pct \in [Streams -> SUBSET Tags] /\ FleetSoFar /\ SummariesComplete
      BY <1>3 DEF TypeOK, ArrivalInv
  <2>8. \A i \in Streams : i <= Due => m_pct'[i] = {<<m_fleet_cnt, i>>}
    <3>1. \A i \in Streams : i < Due => m_pct'[i] = {<<m_fleet_cnt, i>>}
      <4>1. \A i \in Streams : i < Due => i # Due
          BY <2>5 DEF Streams
      <4>2. \A i \in Streams : i # Due => m_pct'[i] = m_pct[i]
          BY <2>5, <2>7
      <4> QED
          BY <2>7, <4>1, <4>2 DEF FleetSoFar
    <3>2. m_pct'[Due] = {<<m_fleet_cnt, Due>>}
        BY <2>5, <2>7 DEF DueStream
    <3> QED
        BY <2>5, <3>1, <3>2 DEF Streams
  <2>9. FleetSoFar'
      BY <1>1, <2>5, <2>6, <2>8 DEF FleetSoFar, Streams
  <2>10. SummariesComplete'
    <3>1. CASE LastOfFleet
      <4>1. m_pct_med' = [m_pct_med EXCEPT ![m_fleet_cnt] = m_pct']
            /\ Due = NumStream - 1
          BY <2>3, <2>5, <3>1 DEF GetMetrics, LastOfFleet
      <4>2. \A i \in Streams : m_pct'[i] = {<<m_fleet_cnt, i>>}
          BY <2>8, <4>1 DEF Streams
      <4>3. m_pct' \in [Streams -> SUBSET (Tags \cup {DueStream})]
          BY <2>5, <2>7
      <4>4. m_pct' = [i \in Streams |-> {<<m_fleet_cnt, i>>}]
          BY <4>2, <4>3
      <4>5. DOMAIN m_pct_med = 0..Period-1
          BY <1>3 DEF TypeOK
      <4> QED
          BY <2>7, <4>1, <4>4, <4>5 DEF SummariesComplete
    <3>2. CASE ~LastOfFleet
        BY <2>3, <2>7, <3>2 DEF GetMetrics, SummariesComplete
    <3> QED
        BY <3>1, <3>2
  <2>11. StreamArrives'
      BY <1>1, <2>1, <2>2, OneElement DEF StreamArrives
  <2> QED
      BY <2>9, <2>10, <2>11
<1> QED
    BY <1>1, <1>4, <1>5 DEF IInv, Turn, Asked, Streaming, Continuing

\* No callback loses a stream of a fleet, unless the path loses all its packets.
LEMMA NextArrival == IInv /\ OrderInv /\ ArrivalInv /\ [Next]_vars => ArrivalInv'
<1> SUFFICES ASSUME IInv, OrderInv, ArrivalInv, [Next]_vars PROVE ArrivalInv'
    OBVIOUS
<1>1. CASE SenderStart \/ ReceiverStart \/ HandleConnected \/ HandleAccept
           \/ SenderStop \/ ReceiverStop \/ UNCHANGED vars
  <2>1. /\ UNCHANGED <<m_fleet_cnt, m_stream_cnt, agenda, metricVars, pathVars>>
        /\ s_stopped' \in {s_stopped, TRUE}
      BY <1>1 DEF SenderStart, ReceiverStart, HandleConnected, HandleAccept,
                  SenderStop, ReceiverStop, vars, senderVars, receiverVars, lifeVars
  <2>2. toRcv' = toRcv \/ toRcv' # <<FINISHED_STREAM>>
    <3>1. CASE HandleAccept
      <4>1. toRcv = <<>>
          BY <3>1 DEF HandleAccept, IInv, Turn, Starting, Asked, Streaming, Finishing,
                      Continuing, Running
      <4>2. toRcv' \in {<<>>, <<SizeWord>>}
          BY <3>1, <4>1, OneElement DEF HandleAccept, AfterSend, SizeWord
      <4> QED
          BY <4>2, OneElement, WordFacts
    <3>2. CASE ~HandleAccept
        BY <1>1, <3>2 DEF SenderStart, ReceiverStart, HandleConnected, SenderStop,
                          ReceiverStop, vars
    <3> QED
        BY <3>1, <3>2
  <2> QED
      BY <2>1, <2>2, FrameArrival DEF IInv, TypeOK
<1>2. CASE RunEvent
    BY <1>2, RunEventArrival
<1>3. CASE SenderHandleRecv
    BY <1>3, SenderHandleRecvArrival
<1>4. CASE ReceiverHandleRecvfrom
    BY <1>4, ReceiverHandleRecvfromArrival
<1>5. CASE ReceiverHandleRecv
    BY <1>5, ReceiverHandleRecvArrival
<1> QED
    BY <1>1, <1>2, <1>3, <1>4, <1>5 DEF Next, Work

\* Where the path keeps the order and has lost no stream as a whole, the
\* summary of a fleet is computed from the metrics of all its streams and no
\* other: GetMetrics resets m_stream_id to 0 before it counts it on, and the
\* first packet of the next fleet corrects the 1 this leaves.
THEOREM SummaryComplete == Spec => []FleetSummaryComplete
<1>1. Init => MInv
    BY InitEstablishes, InitOrder, InitArrival DEF MInv
<1>2. MInv /\ [Next]_vars => MInv'
    BY NextPreserves, NextOrder, NextArrival DEF MInv
<1>3. MInv => FleetSummaryComplete
    BY DEF MInv, ArrivalInv, SummariesComplete, FleetSummaryComplete
<1> QED
    BY <1>1, <1>2, <1>3, PTL DEF Spec
=============================================================================
