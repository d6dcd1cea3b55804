------------------------- MODULE StreamTrend_proofs -------------------------
(***************************************************************************)
(* For every stream, every cut of it, and all the constants: what the      *)
(* metrics of a fleet say of the delays, what the fleet is taken for, that *)
(* the mean interval is the period of the packets, and that the metrics    *)
(* never outgrow pct_metric[TREND_ARRAY_LEN], which the code never         *)
(* compares trend_idx with.                                                *)
(***************************************************************************)
EXTENDS StreamTrend, TrendMetrics_proofs

\* The original receiver on a host without interrupt coalescence.
Plain == setup.program = "original" /\ ~setup.interrupt_coalescence

\* The stamps of the streams that may come.
LEMMA StampsType ==
    /\ \A s \in Streams : s.snd \in Stamps /\ s.arrv \in Stamps /\ Delays(s) \in Stamps
    /\ \A x \in Stamps : \A k \in Packets : x[k] \in Int
    /\ Packets \in SUBSET Nat /\ IsFiniteSet(Packets) /\ Cardinality(Packets) = stream_len
<1>1. \A s \in Streams : s.snd \in Stamps /\ s.arrv \in Stamps
  BY StreamAssumption
<1>2. ASSUME NEW s \in Streams PROVE Delays(s) \in Stamps
  <2>1. \A k \in Packets : s.arrv[k] \in Int /\ s.snd[k] \in Int
    BY <1>1, StampsAt
  <2>2. \A k \in Packets : s.arrv[k] - s.snd[k] \in Int
    BY <2>1
  <2>3. QED
    BY <2>2 DEF Delays, Stamps
<1> QED
  BY <1>1, <1>2, StampsAt

\* The port's delays are whole microseconds.
LEMMA PortDelays ==
    ASSUME NEW s \in Streams
    PROVE  /\ m_owd(s.snd, s.arrv) \in Stamps
           /\ \A k \in Packets :
                m_owd(s.snd, s.arrv)[k]
                    = IF s.arrv[k] = 0 THEN 0 ELSE s.arrv[k] - Wrapped(s.snd[k])
<1>1. \A k \in Packets : s.snd[k] \in Int /\ s.arrv[k] \in Int
  BY StampsType
<1>2. \A t \in Int : Wrapped(t) \in Int
  <2>1. StampRange \in Nat \ {0} /\ StampRange \div 2 \in Int
    BY MetricAssumption
  <2>2. \A t \in Int : t % StampRange \in Int
    BY <2>1
  <2> QED
    BY <2>1, <2>2 DEF Wrapped
<1>3. \A k \in Packets : s.arrv[k] - Wrapped(s.snd[k]) \in Int
  BY <1>1, <1>2
<1> QED
  BY <1>3 DEF m_owd, Stamps

-----------------------------------------------------------------------------
(* What the metrics of a piece say of the stream.                           *)

\* No delay of a received packet is exactly 0, which the code takes for a lost packet.
NoZeroDelay == \A s \in Streams : \A k \in Received(s) : Delays(s)[k] # 0

\* The adjusted delays of a stream.
Adjusted(s) == adjust_offset_to_zero(Delays(s))

\* Only received packets are looked at.
LEMMA KeptReceived ==
    ASSUME NEW s \in Streams, NEW l \in Packets, NEW h \in Packets, l <= h, NEW t
    PROVE  /\ NotBackToBack(s.arrv, l, h, t) \in SUBSET Received(s)
           /\ BurstEnds(s.arrv, l, h, t) \in SUBSET Received(s)
           /\ Received(s) \in SUBSET Packets
<1>1. l..h \subseteq Packets
  BY StreamLength DEF Packets
<1>2. BurstEnds(s.arrv, l, h, t) \in SUBSET Received(s)
  BY <1>1 DEF BurstEnds, GapBehind, GapKnown, Received
<1>3. NotBackToBack(s.arrv, l, h, t) \subseteq BurstEnds(s.arrv, l, h, t)
  BY DEF NotBackToBack, BurstEnds
<1>4. Received(s) \in SUBSET Packets
  BY DEF Received
<1> QED
  BY <1>2, <1>3, <1>4

\* If the delays do not rise, the adjusted ones rise once at most: behind a delay of 0.
LEMMA SteadyTurns ==
    ASSUME NEW s \in Steady, NEW D \in SUBSET Received(s),
           NEW v, Lists(v, D, Adjusted(s))
    PROVE  \E z \in Int : Turns(v, z)
<1> DEFINE d == Delays(s)
           n == Len(v)
           least == LeastDelay(d)
<1>1. v \in Seq(Int) /\ n \in Nat
  BY DEF Lists
<1>2. PICK order : InOrderOf(order, v, D, Adjusted(s))
  BY DEF Lists
<1>3. s \in Streams /\ d \in Stamps
  BY StampsType DEF Steady
<1>4. \A j, k \in D : j < k => d[k] <= d[j]
  BY DEF Steady
<1>5. \A k \in D : k \in Packets /\ k \in Int /\ d[k] \in Int
  <2>1. \A k \in D : k \in Packets
    BY DEF Received
  <2>2. \A k \in Packets : k \in Int
    BY DEF Packets
  <2> HIDE DEF d
  <2> QED
    BY <1>3, <2>1, <2>2, StampsType
<1> DEFINE raw == [i \in 1..n |-> d[order[i]]]
<1>6. \A i \in 1..n : order[i] \in D
  BY <1>2 DEF InOrderOf
<1>7. \A i \in 1..n : raw[i] \in Int
  BY <1>5, <1>6
<1>8. \A i, j \in 1..n : i < j => raw[j] <= raw[i]
  <2>1. \A i, j \in 1..n : i < j => order[i] < order[j]
    BY <1>2 DEF InOrderOf
  <2> HIDE DEF d
  <2> QED
    BY <1>4, <1>6, <2>1
<1>9. /\ least \in Int
      /\ \A i \in 1..n : /\ v[i] = IF raw[i] # 0 THEN raw[i] - least ELSE 0
                         /\ raw[i] # 0 => least <= raw[i]
  <2>1. \A i \in 1..n : v[i] = Adjusted(s)[order[i]] /\ order[i] \in Packets
    BY <1>2, <1>5, <1>6 DEF InOrderOf
  <2>2. /\ \A k \in Packets : /\ Adjusted(s)[k] = IF d[k] # 0 THEN d[k] - least ELSE 0
                              /\ d[k] # 0 => least <= d[k]
        /\ least \in Int
    BY <1>3, AdjustedType DEF Adjusted
  <2>3. \A i \in 1..n : raw[i] = d[order[i]]
    OBVIOUS
  <2> HIDE DEF d, least, raw
  <2> QED
    BY <2>1, <2>2, <2>3
<1> HIDE DEF raw, least, d, n
<1> DEFINE Neg == {i \in 1..n : raw[i] < 0}
<1>10. PICK z \in Int : \A i \in 1..n : i <= z <=> raw[i] >= 0
  <2>1. CASE Neg = {}
    <3>1. \A i \in 1..n : raw[i] >= 0 /\ i <= n
      BY <1>1, <1>7, <2>1
    <3>2. n \in Int /\ \A i \in 1..n : i <= n <=> raw[i] >= 0
      BY <1>1, <3>1
    <3> QED
      BY <3>2
  <2>2. CASE Neg # {}
    <3>1. Neg \in SUBSET Nat
      BY <1>1
    <3>2. PICK m \in Neg : \A j \in Neg : m <= j
      BY <2>2, <3>1, LeastElement
    <3>3. m \in 1..n /\ raw[m] < 0 /\ m \in Int
      BY <1>1, <3>2
    <3>4. ASSUME NEW i \in 1..n
          PROVE  i <= m - 1 <=> raw[i] >= 0
      <4>1. i \in Int /\ raw[i] \in Int /\ raw[m] \in Int
        BY <1>1, <1>7, <3>3
      <4>2. i < m => raw[i] >= 0
        BY <3>2, <3>3, <4>1
      <4>3. i >= m => raw[i] < 0
        <5>1. CASE i = m
          BY <3>3, <5>1
        <5>2. CASE i > m
          <6>1. raw[i] <= raw[m]
            BY <1>8, <3>3, <4>1, <5>2
          <6> QED
            BY <3>3, <4>1, <6>1
        <5> QED
          BY <3>3, <4>1, <5>1, <5>2
      <4> QED
        BY <3>3, <4>1, <4>2, <4>3
    <3>5. m - 1 \in Int
      BY <3>3
    <3> QED
      BY <3>4, <3>5
  <2> QED
    BY <2>1, <2>2
<1>11. ASSUME NEW i \in 1..n, NEW j \in 1..n, i < j, j <= z \/ z < i
       PROVE  v[j] <= v[i]
  <2>1. /\ raw[i] \in Int /\ raw[j] \in Int /\ raw[j] <= raw[i]
        /\ i \in Int /\ j \in Int
    BY <1>1, <1>7, <1>8, <1>11
  <2>2. /\ v[i] = IF raw[i] # 0 THEN raw[i] - least ELSE 0
        /\ v[j] = IF raw[j] # 0 THEN raw[j] - least ELSE 0
        /\ raw[i] # 0 => least <= raw[i]
    BY <1>9
  <2>3. (raw[i] >= 0 /\ raw[j] >= 0) \/ (raw[i] < 0 /\ raw[j] < 0)
    <3>1. CASE j <= z
      BY <1>10, <1>11, <2>1, <3>1
    <3>2. CASE z < i
      BY <1>10, <1>11, <2>1, <3>2
    <3> QED
      BY <1>11, <3>1, <3>2
  <2> QED
    BY <1>9, <2>1, <2>2, <2>3
<1> QED
  BY <1>11 DEF Turns, n

\* If they rise and none is 0, the adjusted ones rise.
LEMMA RisingRises ==
    ASSUME NEW s \in Rising, NoZeroDelay, NEW D \in SUBSET Received(s),
           NEW v, Lists(v, D, Adjusted(s))
    PROVE  \A i, j \in 1..Len(v) : i < j => v[i] < v[j]
<1> DEFINE d == Delays(s)
           least == LeastDelay(d)
           a == Adjusted(s)
<1>1. s \in Streams /\ d \in Stamps
  BY StampsType DEF Rising
<1>2. \A j, k \in D : j < k => d[j] < d[k]
  BY DEF Rising
<1>3. \A k \in D : k \in Packets /\ d[k] \in Int /\ d[k] # 0
  <2>1. \A k \in D : k \in Packets /\ d[k] # 0
    BY <1>1 DEF Received, NoZeroDelay
  <2> HIDE DEF d
  <2> QED
    BY <1>1, <2>1, StampsType
<1>4. least \in Int /\ \A k \in Packets : a[k] = IF d[k] # 0 THEN d[k] - least ELSE 0
  BY <1>1, AdjustedType DEF Adjusted
<1> HIDE DEF d, least, a
<1>5. \A k \in D : a[k] = d[k] - least
  BY <1>3, <1>4
<1>6. \A j, k \in D : j < k => a[j] < a[k]
  BY <1>2, <1>3, <1>4, <1>5
<1> QED
  BY <1>6, ListsRising DEF a

\* The medians of the delays that were not received back to back.
PieceMedians(s, l, h, t) == Medians(ValuesAt(NotBackToBack(s.arrv, l, h, t), Adjusted(s)))

\* A piece that is long enough: both tests apply to its medians, and they show no rise
\* of delays that do not rise, and one of delays that all rise.
LEMMA PieceTells ==
    ASSUME NEW s \in Streams, NEW l \in Packets, NEW h \in Packets, l <= h, NEW t,
           Cardinality(NotBackToBack(s.arrv, l, h, t)) > MIN_STREAM_LEN
    PROVE  LET v == PieceMedians(s, l, h, t) IN
           /\ v \in Seq(Int) /\ Len(v) >= MIN_PARTITIONED_STREAM_LEN
           /\ s \in Steady /\ MIN_PARTITIONED_STREAM_LEN >= 5 =>
                get_pct_trend(pairwise_comparision_test(v)) \in {NOTR, DISCARD}
           /\ s \in Rising /\ NoZeroDelay /\ MIN_PARTITIONED_STREAM_LEN >= 3 =>
                /\ get_pct_trend(pairwise_comparision_test(v)) = INCR
                /\ get_pdt_trend(pairwise_diff_test(v)) = {INCR}
<1> DEFINE D == NotBackToBack(s.arrv, l, h, t)
           a == Adjusted(s)
           d == ValuesAt(D, a)
           v == Medians(d)
<1>1. D \in SUBSET Received(s) /\ D \in SUBSET Packets
  BY KeptReceived
<1>2. a \in Stamps
  BY StampsType, AdjustedType DEF Adjusted
<1>3. \A k \in D : a[k] \in Int
  <2> HIDE DEF a, D
  <2> QED
    BY <1>1, <1>2, StampsType
<1>4. Lists(d, D, a) /\ Len(d) = Cardinality(D)
  <2> HIDE DEF a, D
  <2> QED
    BY <1>1, <1>3, ValuesAtLists
<1>5. d \in Seq(Int) /\ Len(d) > MIN_STREAM_LEN /\ Len(d) <= stream_len
  <2>1. Cardinality(D) <= stream_len
    <3>1. IsFiniteSet(Packets) /\ Cardinality(Packets) = stream_len
      BY StampsType
    <3> HIDE DEF D
    <3> QED
      BY <1>1, <3>1, FS_Subset
  <2>2. d \in Seq(Int)
    BY <1>4 DEF Lists
  <2> QED
    BY <1>4, <2>1, <2>2
<1>6. Len(d) > 0 /\ Len(d) \in MIN_STREAM_LEN+1..stream_len
  <2>1. MIN_STREAM_LEN \in Nat /\ Len(d) \in Nat /\ stream_len \in Nat
    BY <1>5, SizeAssumption, StreamLength
  <2> HIDE DEF d
  <2> QED
    BY <1>5, <2>1
<1> HIDE DEF d
<1>7. v \in Seq(Int) /\ Len(v) = GroupCount(Len(d))
  BY <1>5, <1>6, MediansOfGroups
<1>8. Len(v) >= MIN_PARTITIONED_STREAM_LEN
  BY <1>6, <1>7, SizeAssumption
<1>9. ASSUME s \in Steady, MIN_PARTITIONED_STREAM_LEN >= 5
      PROVE  get_pct_trend(pairwise_comparision_test(v)) \in {NOTR, DISCARD}
  <2> HIDE DEF D, a
  <2>1. PICK z \in Int : Turns(d, z)
    BY <1>1, <1>4, <1>9, SteadyTurns DEF a
  <2>2. Neighbours(Rises(v))
    BY <1>5, <1>6, <2>1, MediansTurn
  <2> HIDE DEF v
  <2> QED
    BY <1>7, <1>9, <2>2, TurnedPct
<1>10. ASSUME s \in Rising, NoZeroDelay, MIN_PARTITIONED_STREAM_LEN >= 3
       PROVE  /\ get_pct_trend(pairwise_comparision_test(v)) = INCR
              /\ get_pdt_trend(pairwise_diff_test(v)) = {INCR}
  <2> HIDE DEF D, a
  <2>1. \A i, j \in 1..Len(d) : i < j => d[i] < d[j]
    BY <1>1, <1>4, <1>10, RisingRises DEF a
  <2>2. \A g \in 1..Len(v)-1 : v[g] < v[g+1]
    BY <1>5, <1>6, <1>7, <2>1, MediansRise
  <2> HIDE DEF v
  <2>3. Len(v) >= 3
    BY <1>7, <1>8, <1>10, MetricAssumption
  <2> QED
    BY <1>7, <1>8, <2>2, <2>3, RisingTests
<1>11. PieceMedians(s, l, h, t) = v
  BY DEF PieceMedians, d
<1> QED
  BY <1>7, <1>8, <1>9, <1>10, <1>11

\* The last packets of bursts show no rise either of delays that do not rise.
LEMMA BurstsTell ==
    ASSUME NEW s \in Streams, NEW l \in Packets, NEW h \in Packets, l <= h, NEW t
    PROVE  LET v == LastOfBursts(s.arrv, Adjusted(s), l, h, t) IN
           /\ v \in Seq(Int)
           /\ s \in Steady /\ MIN_PARTITIONED_STREAM_LEN >= 5 =>
                get_pct_trend(pairwise_comparision_test(v)) \in {NOTR, DISCARD}
<1> DEFINE D == BurstEnds(s.arrv, l, h, t)
           a == Adjusted(s)
           v == LastOfBursts(s.arrv, a, l, h, t)
<1>1. D \in SUBSET Received(s)
  BY KeptReceived
<1>2. a \in Stamps
  BY StampsType, AdjustedType DEF Adjusted
<1>3. Lists(v, D, a)
  <2> HIDE DEF a
  <2> QED
    BY <1>2, BurstsListed
<1>4. v \in Seq(Int)
  BY <1>3 DEF Lists
<1> HIDE DEF D, v
<1>5. ASSUME s \in Steady, MIN_PARTITIONED_STREAM_LEN >= 5
      PROVE  get_pct_trend(pairwise_comparision_test(v)) \in {NOTR, DISCARD}
  <2>1. PICK z \in Int : Turns(v, z)
    BY <1>1, <1>3, <1>5, SteadyTurns
  <2>2. Neighbours(Rises(v))
    BY <1>4, <2>1, TurnsOnce
  <2> QED
    BY <1>4, <1>5, <2>2, TurnedPct
<1> QED
  BY <1>4, <1>5 DEF v

-----------------------------------------------------------------------------
(* Types, and what the stream that is looked at has to do with the others.  *)

TypeInv ==
    /\ TypeOK
    /\ ~setup.interrupt_coalescence => ic = FALSE
    /\ \A k \in cuts : low <= k
    /\ phase = "pieces" =>
          setup.program = "original" /\ stream \in seen /\ owd = Adjusted(stream)

\* Nothing has come.
LEMMA TypeInit == Init => TypeInv
<1> SUFFICES ASSUME Init
             PROVE  TypeInv
  OBVIOUS
<1>1. setup \in Situations /\ setup \in SituationType
  BY StreamAssumption DEF Init
<1>2. Nothing \in Stamps
  BY DEF Nothing, Stamps
<1>3. 0 \in 0..stream_len /\ 0 \in 0..num_stream /\ 0 \in 0..0
  BY StreamLength, SizeAssumption
<1>4. repeat_1 \in 0..2 /\ repeat_2 \in 0..2 /\ increase_stream_len \in BOOLEAN
  BY <1>1 DEF Init, SituationType
<1>5. /\ stream_cnt \in 0..num_stream /\ lossy_stream \in 0..stream_cnt /\ low \in 0..stream_len
      /\ owd \in Stamps /\ num \in Nat /\ num_bursts \in Nat /\ snd_time_interval \in Int
  BY <1>2, <1>3 DEF Init
<1>6. /\ stream \in Streams \cup {NoStream} /\ tail \in BOOLEAN /\ cuts \subseteq Packets
      /\ seen \subseteq Streams /\ lower_bound \in BOOLEAN /\ ic \in BOOLEAN
      /\ pct_metric = <<>> /\ pdt_metric = <<>> /\ classes = <<>> /\ trend = "NONE"
      /\ phase = "receive"
  BY DEF Init
<1>7. TypeOK
  BY <1>1, <1>4, <1>5, <1>6 DEF TypeOK
<1> QED
  BY <1>7 DEF Init, TypeInv

\* As many packets are lost as there are, at most.
LEMMA LostPacketsType ==
    ASSUME NEW arrv
    PROVE  LostPackets(arrv) \in 0..stream_len /\ stream_len - LostPackets(arrv) \in 0..stream_len
<1> DEFINE D == {k \in Packets : arrv[k] = 0}
<1>1. IsFiniteSet(Packets) /\ Cardinality(Packets) = stream_len
  BY StampsType
<1>2. D \subseteq Packets
  OBVIOUS
<1> HIDE DEF D
<1>3. IsFiniteSet(D) /\ Cardinality(D) <= stream_len /\ Cardinality(D) \in Nat
  BY <1>1, <1>2, FS_Subset, FS_CardinalityType
<1> QED
  BY <1>3, StreamLength DEF LostPackets, D

\* A stream has come.
LEMMA TypeReceiveStream == TypeInv /\ ReceiveStream => TypeInv'
<1> SUFFICES ASSUME TypeInv, ReceiveStream
             PROVE  TypeInv'
  OBVIOUS
<1> USE DEF TypeInv
<1> DEFINE burst(s) == check_intr_coalescence(s.arrv, stream_len - LostPackets(s.arrv))
<1>1. PICK s \in Streams :
         /\ stream' = s /\ seen' = seen \cup {s}
         /\ num_bursts' = IF setup.interrupt_coalescence THEN burst(s).bursts ELSE 0
         /\ ic' = IF setup.interrupt_coalescence THEN burst(s).ic ELSE ic
         /\ lossy_stream' \in {lossy_stream, lossy_stream + 1}
         /\ GiveUpLossy \/ BeginPieces(s)
  BY DEF ReceiveStream
<1>2. /\ setup.program = "original" /\ stream_cnt < num_stream
      /\ stream_cnt' = stream_cnt + 1
      /\ UNCHANGED <<setup, pct_metric, pdt_metric, repeat_1, repeat_2, classes, trend>>
  BY DEF ReceiveStream, metricVars
<1>3. burst(s).ic \in BOOLEAN /\ burst(s).bursts \in Nat
  BY LostPacketsType, BurstsType
<1> HIDE DEF burst
<1>4. num_bursts' \in Nat /\ ic' \in BOOLEAN /\ (~setup.interrupt_coalescence => ic' = FALSE)
  BY <1>1, <1>3 DEF TypeOK
<1>5. stream_cnt' \in 0..num_stream /\ lossy_stream' \in 0..stream_cnt'
  BY <1>1, <1>2, SizeAssumption DEF TypeOK
<1>6. stream' \in Streams /\ seen' \subseteq Streams /\ stream' \in seen'
  BY <1>1 DEF TypeOK
<1>7. CASE GiveUpLossy
  <2>1. /\ phase' = "aborted" /\ lower_bound' \in BOOLEAN /\ increase_stream_len' = FALSE
        /\ UNCHANGED <<num, snd_time_interval, owd, cuts, low, tail>>
    BY <1>7 DEF GiveUpLossy, TypeOK
  <2>2. TypeOK'
    BY <1>2, <1>4, <1>5, <1>6, <2>1 DEF TypeOK
  <2> QED
    BY <1>2, <1>4, <2>1, <2>2
<1>8. CASE BeginPieces(s)
  <2>1. s.snd \in Stamps /\ Delays(s) \in Stamps
    BY StampsType
  <2>2. SenderIntervals(s.snd) \in Seq(Int)
    BY <2>1, IntervalsType
  <2>3. Total(SenderIntervals(s.snd)) \in Int /\ Len(SenderIntervals(s.snd)) \in Nat
    BY <2>2, TotalType
  <2>4. num' \in Nat /\ snd_time_interval' \in Int
    BY <1>8, <2>3 DEF BeginPieces, TypeOK
  <2>5. owd' = Adjusted(s) /\ owd' \in Stamps
    BY <1>8, <2>1, AdjustedType DEF BeginPieces, Adjusted
  <2>6. cuts' \subseteq Packets /\ low' = 0 /\ \A k \in cuts' : 0 <= k
    <3>1. SenderCuts(s.snd) \subseteq 0..stream_len-2
      BY DEF SenderCuts
    <3>2. cuts' = SenderCuts(s.snd) \cup {stream_len - 1} /\ low' = 0
      BY <1>8 DEF BeginPieces
    <3> QED
      BY <3>1, <3>2, StreamLength DEF Packets
  <2>7. /\ tail' \in BOOLEAN /\ phase' = "pieces"
        /\ UNCHANGED <<lower_bound, increase_stream_len>>
    BY <1>8 DEF BeginPieces
  <2>8. low' \in 0..stream_len
    BY <2>6, StreamLength
  <2>9. TypeOK'
    BY <1>2, <1>4, <1>5, <1>6, <2>4, <2>5, <2>6, <2>7, <2>8 DEF TypeOK
  <2> QED
    BY <1>1, <1>2, <1>4, <1>6, <2>5, <2>6, <2>9
<1> QED
  BY <1>1, <1>7, <1>8

\* The first cut is one of the cuts.
LEMMA FirstCut ==
    ASSUME cuts \subseteq Packets, cuts # {}
    PROVE  High \in cuts /\ High \in Packets /\ \A j \in cuts : High <= j
<1>1. cuts \in SUBSET Nat
  BY StreamLength DEF Packets
<1>2. \E k \in cuts : \A j \in cuts : k <= j
  BY <1>1, LeastElement
<1>3. QED
  BY <1>2 DEF High

\* The next piece begins behind the cut, and no cut is before it.
LEMMA TypeNextPiece ==
    ASSUME TypeInv, MorePieces, NextPiece
    PROVE  /\ cuts' \subseteq Packets /\ low' \in 0..stream_len /\ \A k \in cuts' : low' <= k
           /\ low \in Packets /\ High \in Packets /\ low <= High
           /\ phase = "pieces" /\ stream \in Streams /\ stream \in seen
<1>1. cuts \subseteq Packets /\ cuts # {} /\ low \in 0..stream_len /\ \A k \in cuts : low <= k
  BY DEF TypeInv, TypeOK, MorePieces
<1>2. High \in cuts /\ High \in Packets /\ \A j \in cuts : High <= j
  BY <1>1, FirstCut
<1>3. low' = High + 1 /\ cuts' = cuts \ {High}
  BY DEF NextPiece
<1>4. cuts' \subseteq Packets /\ low' \in 0..stream_len /\ \A k \in cuts' : low' <= k
  BY <1>1, <1>2, <1>3, StreamLength DEF Packets
<1>5. low \in Packets /\ low <= High
  BY <1>1, <1>2, StreamLength DEF Packets
<1>6. phase = "pieces" /\ stream \in Streams /\ stream \in seen
  BY DEF TypeInv, TypeOK, MorePieces
<1> QED
  BY <1>2, <1>4, <1>5, <1>6

-----------------------------------------------------------------------------
(* Each metric, when it is noted and ever after.                            *)

\* What a metric says of the streams that were seen.
Tells(p, d) ==
    /\ p \in Quotients /\ d \in Quotients
    /\ (~setup.interrupt_coalescence
        /\ (setup.program = "port" => IntSqrt(stream_len) >= MIN_PARTITIONED_STREAM_LEN))
          => p # DISCARDED_PCT /\ d # DISCARDED_PDT
    /\ (setup.program = "original" /\ seen \subseteq Steady /\ MIN_PARTITIONED_STREAM_LEN >= 5)
          => get_pct_trend(p) \in {NOTR, DISCARD}
    /\ (Plain /\ seen \subseteq Rising /\ NoZeroDelay /\ MIN_PARTITIONED_STREAM_LEN >= 3)
          => get_pct_trend(p) = INCR /\ get_pdt_trend(d) = {INCR}

\* Nothing is noted, or one metric that says so.
Noted(p, d) ==
    /\ pct_metric' = Append(pct_metric, p) /\ pdt_metric' = Append(pdt_metric, d)
    /\ Tells(p, d)'

\* A piece.
LEMMA NotedOfPiece == TypeInv /\ TrendOfPiece => UNCHANGED metricVars \/ \E p, d : Noted(p, d)
<1> SUFFICES ASSUME TypeInv, TrendOfPiece, ~UNCHANGED metricVars
             PROVE  \E p, d : Noted(p, d)
  OBVIOUS
<1>1. MorePieces /\ NextPiece /\ setup' = setup /\ seen' = seen
  BY DEF TrendOfPiece, fleetVars
<1>2. /\ low \in Packets /\ High \in Packets /\ low <= High
      /\ phase = "pieces" /\ stream \in Streams /\ stream \in seen
  BY <1>1, TypeNextPiece
<1>3. owd = Adjusted(stream) /\ setup.program = "original"
  BY <1>2 DEF TypeInv
<1> DEFINE kept == NotBackToBack(stream.arrv, low, High, tail)
           v == PieceMedians(stream, low, High, tail)
           p0 == pairwise_comparision_test(v)
           d0 == pairwise_diff_test(v)
<1>4. Cardinality(kept) > MIN_STREAM_LEN /\ Note(Medians(ValuesAt(kept, owd)))
  BY DEF TrendOfPiece
<1>5. v = Medians(ValuesAt(kept, owd))
  BY <1>3 DEF PieceMedians
<1>6. pct_metric' = Append(pct_metric, p0) /\ pdt_metric' = Append(pdt_metric, d0)
  BY <1>4, <1>5 DEF Note
<1>7. /\ v \in Seq(Int) /\ Len(v) >= MIN_PARTITIONED_STREAM_LEN
      /\ stream \in Steady /\ MIN_PARTITIONED_STREAM_LEN >= 5 =>
           get_pct_trend(p0) \in {NOTR, DISCARD}
      /\ stream \in Rising /\ NoZeroDelay /\ MIN_PARTITIONED_STREAM_LEN >= 3 =>
           get_pct_trend(p0) = INCR /\ get_pdt_trend(d0) = {INCR}
  BY <1>2, <1>4, PieceTells
<1> HIDE DEF v
<1>8. /\ p0 \in Quotients /\ p0 # DISCARDED_PCT
      /\ d0 \in Quotients /\ d0 # DISCARDED_PDT
  BY <1>7, PctIsQuotient, PdtIsQuotient
<1>9. PICK p, d : p = p0 /\ d = d0
  OBVIOUS
<1> HIDE DEF p0, d0
<1>10. Tells(p, d)'
  BY <1>1, <1>2, <1>7, <1>8, <1>9 DEF Tells, Plain
<1>11. Noted(p, d)
  BY <1>6, <1>9, <1>10 DEF Noted
<1> QED
  BY <1>11

\* Bursts.
LEMMA NotedOfBursts == TypeInv /\ TrendOfBursts => \E p, d : Noted(p, d)
<1> SUFFICES ASSUME TypeInv, TrendOfBursts
             PROVE  \E p, d : Noted(p, d)
  OBVIOUS
<1>1. MorePieces /\ NextPiece /\ setup' = setup /\ seen' = seen /\ ic
  BY DEF TrendOfBursts, fleetVars
<1>2. /\ low \in Packets /\ High \in Packets /\ low <= High
      /\ phase = "pieces" /\ stream \in Streams /\ stream \in seen
  BY <1>1, TypeNextPiece
<1>3. owd = Adjusted(stream) /\ setup.program = "original"
  BY <1>1, <1>2 DEF TypeInv
<1> DEFINE v == LastOfBursts(stream.arrv, Adjusted(stream), low, High, tail)
           p0 == pairwise_comparision_test(v)
           d0 == pairwise_diff_test(v)
<1>4. pct_metric' = Append(pct_metric, p0) /\ pdt_metric' = Append(pdt_metric, d0)
  BY <1>3 DEF TrendOfBursts, Note
<1>5. /\ v \in Seq(Int)
      /\ stream \in Steady /\ MIN_PARTITIONED_STREAM_LEN >= 5 =>
           get_pct_trend(p0) \in {NOTR, DISCARD}
  BY <1>2, BurstsTell
<1> HIDE DEF v
<1>6. p0 \in Quotients /\ d0 \in Quotients
  BY <1>5, PctIsQuotient, PdtIsQuotient
<1>7. setup.interrupt_coalescence
  BY <1>1, StreamAssumption DEF TypeInv, TypeOK, SituationType
<1>8. PICK p, d : p = p0 /\ d = d0
  OBVIOUS
<1> HIDE DEF p0, d0
<1>9. Tells(p, d)'
  BY <1>1, <1>2, <1>5, <1>6, <1>7, <1>8 DEF Tells, Plain
<1>10. Noted(p, d)
  BY <1>4, <1>8, <1>9 DEF Noted
<1> QED
  BY <1>10

\* A stream of the port.
LEMMA NotedOfPort == TypeInv /\ PortStream => \E p, d : Noted(p, d)
<1> SUFFICES ASSUME TypeInv, PortStream
             PROVE  \E p, d : Noted(p, d)
  OBVIOUS
<1>1. PICK s \in Streams : LET m == GetMetrics(m_owd(s.snd, s.arrv)) IN
         pct_metric' = Append(pct_metric, m.pct) /\ pdt_metric' = Append(pdt_metric, m.pdt)
  BY DEF PortStream
<1>2. setup.program = "port" /\ setup' = setup
  BY DEF PortStream
<1> DEFINE m == GetMetrics(m_owd(s.snd, s.arrv))
           p0 == m.pct
           d0 == m.pdt
<1>3. /\ p0 \in Quotients /\ d0 \in Quotients
      /\ IntSqrt(stream_len) >= MIN_PARTITIONED_STREAM_LEN =>
           p0 # DISCARDED_PCT /\ d0 # DISCARDED_PDT
  <2>1. m_owd(s.snd, s.arrv) \in Stamps
    BY PortDelays
  <2> QED
    BY <2>1, GetMetricsType
<1>4. pct_metric' = Append(pct_metric, p0) /\ pdt_metric' = Append(pdt_metric, d0)
  BY <1>1
<1> HIDE DEF p0, d0
<1>5. Tells(p0, d0)'
  BY <1>2, <1>3 DEF Tells, Plain
<1> QED
  BY <1>4, <1>5 DEF Noted

\* Nothing else notes a metric.
LEMMA NotedNext ==
    TypeInv /\ [Next]_vars => UNCHANGED metricVars \/ \E p, d : Noted(p, d)
<1> SUFFICES ASSUME TypeInv, [Next]_vars, ~UNCHANGED metricVars
             PROVE  \E p, d : Noted(p, d)
  OBVIOUS
<1>1. ~(ReceiveStream \/ FewBursts \/ EndOfStream \/ Classify \/ Aggregate \/ UNCHANGED vars)
  BY DEF ReceiveStream, FewBursts, EndOfStream, Classify, Aggregate, vars
<1>2. TrendOfPiece \/ TrendOfBursts \/ PortStream
  BY <1>1 DEF Next
<1> QED
  BY <1>2, NotedOfPiece, NotedOfBursts, NotedOfPort

\* The metrics keep their type.
LEMMA MetricsType ==
    TypeInv /\ [Next]_vars => pct_metric' \in Seq(Quotients) /\ pdt_metric' \in Seq(Quotients)
<1> SUFFICES ASSUME TypeInv, [Next]_vars
             PROVE  pct_metric' \in Seq(Quotients) /\ pdt_metric' \in Seq(Quotients)
  OBVIOUS
<1>1. pct_metric \in Seq(Quotients) /\ pdt_metric \in Seq(Quotients)
  BY DEF TypeInv, TypeOK
<1>2. CASE UNCHANGED metricVars
  BY <1>1, <1>2 DEF metricVars
<1>3. ASSUME NEW p, NEW d, Noted(p, d)
      PROVE  pct_metric' \in Seq(Quotients) /\ pdt_metric' \in Seq(Quotients)
  <2>1. p \in Quotients /\ d \in Quotients
    BY <1>3 DEF Noted, Tells
  <2> QED
    BY <1>1, <1>3, <2>1 DEF Noted
<1> QED
  BY <1>2, <1>3, NotedNext

\* A piece, in any of the three ways.
LEMMA TypePiece == TypeInv /\ (TrendOfPiece \/ TrendOfBursts \/ FewBursts) => TypeInv'
<1> SUFFICES ASSUME TypeInv, TrendOfPiece \/ TrendOfBursts \/ FewBursts
             PROVE  TypeInv'
  OBVIOUS
<1>1. MorePieces /\ NextPiece
  BY DEF TrendOfPiece, TrendOfBursts, FewBursts
<1>2. cuts' \subseteq Packets /\ low' \in 0..stream_len /\ \A k \in cuts' : low' <= k
  BY <1>1, TypeNextPiece
<1>3. pct_metric' \in Seq(Quotients) /\ pdt_metric' \in Seq(Quotients)
  BY MetricsType DEF Next
<1>4. UNCHANGED <<setup, pieceVars, fleetVars, classes, trend>>
  BY DEF TrendOfPiece, TrendOfBursts, FewBursts
<1>5. /\ phase' \in {phase, "aborted"} /\ repeat_1' \in 0..2 /\ repeat_2' \in 0..2
      /\ lower_bound' \in BOOLEAN /\ increase_stream_len' \in BOOLEAN
  <2>1. /\ phase \in {"receive", "pieces", "aggregate", "aborted", "over"}
        /\ repeat_1 \in 0..2 /\ repeat_2 \in 0..2
        /\ lower_bound \in BOOLEAN /\ increase_stream_len \in BOOLEAN
    BY DEF TypeInv, TypeOK
  <2>2. CASE TrendOfPiece
    BY <2>1, <2>2 DEF TrendOfPiece, burstVars
  <2>3. CASE TrendOfBursts
    BY <2>1, <2>3 DEF TrendOfBursts
  <2>4. CASE FewBursts
    <3>1. \A n \in 0..2 : (n + 1) % 3 \in 0..2
      OBVIOUS
    <3>2. CASE num_bursts < 2
      BY <2>1, <2>4, <3>1, <3>2 DEF FewBursts
    <3>3. CASE ~(num_bursts < 2)
      BY <2>1, <2>4, <3>1, <3>3 DEF FewBursts
    <3> QED
      BY <3>2, <3>3
  <2> QED
    BY <2>2, <2>3, <2>4
<1>6. TypeOK'
  BY <1>2, <1>3, <1>4, <1>5 DEF TypeInv, TypeOK, pieceVars, fleetVars
<1> QED
  BY <1>2, <1>4, <1>5, <1>6 DEF TypeInv, pieceVars, fleetVars

\* What the metrics count as.
LEMMA ClassesType ==
    ASSUME NEW pct, NEW pdt
    PROVE  Classes(pct, pdt) \subseteq {"I", "N", "U", "d"}
<1>1. \A t : StreamClass(get_pct_trend(pct), t) \in {"I", "N", "U", "d"}
  BY DEF StreamClass
<1> QED
  BY <1>1 DEF Classes

\* The end of a stream and of a fleet.
LEMMA TypeAggregate == TypeInv /\ (EndOfStream \/ Classify \/ Aggregate) => TypeInv'
<1> SUFFICES ASSUME TypeInv, EndOfStream \/ Classify \/ Aggregate
             PROVE  TypeInv'
  OBVIOUS
<1>1. UNCHANGED <<setup, pieceVars, cuts, low, metricVars, fleetVars, burstVars>>
  BY DEF EndOfStream, Classify, Aggregate
<1>2. CASE EndOfStream
  BY <1>1, <1>2 DEF TypeInv, TypeOK, EndOfStream, pieceVars, metricVars, fleetVars, burstVars
<1>3. CASE Classify
  <2>1. phase' = phase /\ trend' = trend /\ phase = "aggregate"
    BY <1>3 DEF Classify
  <2>2. classes' \in Seq({"I", "N", "U", "d"})
    <3>1. PICK class \in Classes(pct_metric[Len(classes) + 1], pdt_metric[Len(classes) + 1]) :
             classes' = Append(classes, class)
      BY <1>3 DEF Classify
    <3>2. class \in {"I", "N", "U", "d"}
      BY <3>1, ClassesType
    <3> QED
      BY <3>1, <3>2 DEF TypeInv, TypeOK
  <2> QED
    BY <1>1, <2>1, <2>2 DEF TypeInv, TypeOK, pieceVars, metricVars, fleetVars, burstVars
<1>4. CASE Aggregate
  <2>1. phase' = "over" /\ classes' = classes
    BY <1>4 DEF Aggregate
  <2>2. trend' \in {"UNUSABLE", "INCREASING", "NOTREND", "GREY"}
    <3>1. \A c, n, e : AggregateTrend(c, n, e) \in {"UNUSABLE", "INCREASING", "NOTREND", "GREY"}
      BY DEF AggregateTrend
    <3> QED
      BY <1>4, <3>1 DEF Aggregate
  <2> QED
    BY <1>1, <2>1, <2>2 DEF TypeInv, TypeOK, pieceVars, metricVars, fleetVars, burstVars
<1> QED
  BY <1>2, <1>3, <1>4

\* A stream of the port.
LEMMA TypePortStream == TypeInv /\ PortStream => TypeInv'
<1> SUFFICES ASSUME TypeInv, PortStream
             PROVE  TypeInv'
  OBVIOUS
<1>1. /\ setup.program = "port" /\ phase = "receive" /\ stream_cnt < num_stream
      /\ stream_cnt' = stream_cnt + 1 /\ phase' \in {"over", "receive"}
      /\ UNCHANGED <<setup, lossy_stream, owd, tail, cuts, low, ic, num_bursts, num,
                     snd_time_interval, burstVars, classes, trend>>
  BY DEF PortStream
<1>2. PICK s \in Streams : stream' = s /\ seen' = seen \cup {s}
  BY DEF PortStream
<1>3. pct_metric' \in Seq(Quotients) /\ pdt_metric' \in Seq(Quotients)
  BY MetricsType DEF Next
<1>4. stream_cnt' \in 0..num_stream /\ lossy_stream' \in 0..stream_cnt'
  BY <1>1, SizeAssumption DEF TypeInv, TypeOK
<1>5. TypeOK'
  BY <1>1, <1>2, <1>3, <1>4 DEF TypeInv, TypeOK, burstVars
<1> QED
  BY <1>1, <1>5 DEF TypeInv

\* Every step.
LEMMA TypeNext == TypeInv /\ [Next]_vars => TypeInv'
<1>1. TypeInv /\ UNCHANGED vars => TypeInv'
  BY DEF TypeInv, TypeOK, vars, pieceVars, metricVars, fleetVars, burstVars
<1> QED
  BY <1>1, TypeReceiveStream, TypePiece, TypeAggregate, TypePortStream DEF Next
-----------------------------------------------------------------------------
(* All metrics, what they count as, and the trend.                          *)

MetricsInv ==
    /\ Len(pdt_metric) = Len(pct_metric)
    /\ \A i \in 1..Len(pct_metric) : Tells(pct_metric[i], pdt_metric[i])

\* A metric says no less of a fleet when another stream is seen.
LEMMA TellsOn ==
    ASSUME TypeInv, [Next]_vars, NEW p, NEW d, Tells(p, d)
    PROVE  Tells(p, d)'
<1>1. setup' = setup
  BY DEF Next, ReceiveStream, TrendOfPiece, TrendOfBursts, FewBursts, EndOfStream, Classify,
         Aggregate, PortStream, vars
<1>2. seen \subseteq seen'
  BY DEF Next, ReceiveStream, TrendOfPiece, TrendOfBursts, FewBursts, EndOfStream, Classify,
         Aggregate, PortStream, vars, fleetVars
<1> QED
  BY <1>1, <1>2 DEF Tells, Plain

\* All metrics say so.
LEMMA MetricsNext == TypeInv /\ MetricsInv /\ [Next]_vars => MetricsInv'
<1> SUFFICES ASSUME TypeInv, MetricsInv, [Next]_vars
             PROVE  MetricsInv'
  OBVIOUS
<1>1. pct_metric \in Seq(Quotients) /\ pdt_metric \in Seq(Quotients)
  BY DEF TypeInv, TypeOK
<1> DEFINE n == Len(pct_metric)
<1>2. n \in Nat /\ Len(pdt_metric) = n
  BY <1>1 DEF MetricsInv
<1>3. ASSUME NEW i \in 1..n
      PROVE  \A p, d : p = pct_metric[i] /\ d = pdt_metric[i] => Tells(p, d)'
  <2>1. Tells(pct_metric[i], pdt_metric[i])
    BY DEF MetricsInv
  <2> QED
    BY <2>1, TellsOn
<1>4. CASE UNCHANGED metricVars
  <2>1. pct_metric' = pct_metric /\ pdt_metric' = pdt_metric
    BY <1>4 DEF metricVars
  <2>2. ASSUME NEW i \in 1..n
        PROVE  Tells(pct_metric[i], pdt_metric[i])'
    <3>1. PICK p, d : p = pct_metric[i] /\ d = pdt_metric[i]
      OBVIOUS
    <3>2. Tells(p, d)'
      BY <1>3, <3>1
    <3>3. p = pct_metric'[i] /\ d = pdt_metric'[i]
      BY <2>1, <3>1
    <3> QED
      BY <3>2, <3>3 DEF Tells
  <2> QED
    BY <1>2, <2>1, <2>2 DEF MetricsInv
<1>5. ASSUME NEW p0, NEW d0, Noted(p0, d0)
      PROVE  MetricsInv'
  <2>1. /\ pct_metric' = Append(pct_metric, p0) /\ pdt_metric' = Append(pdt_metric, d0)
        /\ Tells(p0, d0)'
    BY <1>5 DEF Noted
  <2>2. /\ Len(pct_metric') = n + 1 /\ Len(pdt_metric') = n + 1
        /\ pct_metric'[n+1] = p0 /\ pdt_metric'[n+1] = d0
        /\ \A i \in 1..n : pct_metric'[i] = pct_metric[i] /\ pdt_metric'[i] = pdt_metric[i]
    BY <1>1, <1>2, <2>1
  <2>3. ASSUME NEW i \in 1..n+1
        PROVE  Tells(pct_metric[i], pdt_metric[i])'
    <3>1. PICK p, d : p = pct_metric'[i] /\ d = pdt_metric'[i]
      OBVIOUS
    <3>2. Tells(p, d)'
      <4>1. CASE i = n + 1
        BY <2>1, <2>2, <3>1, <4>1
      <4>2. CASE i # n + 1
        <5>1. i \in 1..n
          BY <1>2, <4>2
        <5> QED
          BY <1>3, <2>2, <3>1, <5>1
      <4> QED
        BY <4>1, <4>2
    <3> QED
      BY <3>1, <3>2 DEF Tells
  <2> QED
    BY <1>2, <2>2, <2>3 DEF MetricsInv
<1> QED
  BY <1>4, <1>5, NotedNext

\* What a fleet has been found to be, metric by metric.
ClassesInv ==
    /\ Len(classes) <= Len(pct_metric)
    /\ \A i \in 1..Len(classes) : classes[i] \in Classes(pct_metric[i], pdt_metric[i])
    /\ phase \notin {"aggregate", "over"} => classes = <<>>
    /\ setup.program = "port" => phase \in {"receive", "over"} /\ trend = "NONE"
    /\ setup.program = "original" /\ phase = "over" =>
          /\ Len(classes) = Len(pct_metric)
          /\ trend = AggregateTrend(classes, num_stream,
                                    setup.slow \/ setup.interrupt_coalescence)
    /\ phase # "over" => trend = "NONE"

\* The metrics are all there before they are classified.
LEMMA ClassesNext == TypeInv /\ ClassesInv /\ [Next]_vars => ClassesInv'
<1> SUFFICES ASSUME TypeInv, ClassesInv, [Next]_vars
             PROVE  ClassesInv'
  OBVIOUS
<1>1. /\ pct_metric \in Seq(Quotients) /\ pdt_metric \in Seq(Quotients)
      /\ classes \in Seq({"I", "N", "U", "d"})
      /\ setup.program \in {"original", "port"}
  BY StreamAssumption DEF TypeInv, TypeOK, SituationType
<1>2. CASE ReceiveStream
  <2>1. /\ phase = "receive" /\ setup.program = "original" /\ phase' \in {"pieces", "aborted"}
        /\ UNCHANGED <<setup, pct_metric, pdt_metric, classes, trend>>
    BY <1>2 DEF ReceiveStream, GiveUpLossy, BeginPieces, metricVars
  <2> QED
    BY <1>1, <2>1 DEF ClassesInv
<1>3. CASE TrendOfPiece \/ TrendOfBursts \/ FewBursts
  <2>1. /\ phase = "pieces" /\ phase' \in {"pieces", "aborted"}
        /\ UNCHANGED <<setup, classes, trend>>
    BY <1>3 DEF TrendOfPiece, TrendOfBursts, FewBursts, MorePieces
  <2>2. setup.program = "original" /\ classes = <<>> /\ trend = "NONE"
    BY <2>1 DEF TypeInv, ClassesInv
  <2>3. Len(pct_metric') \in Nat
    BY <1>3, MetricsType DEF Next
  <2> QED
    BY <2>1, <2>2, <2>3 DEF ClassesInv
<1>4. CASE EndOfStream
  <2>1. /\ phase = "pieces" /\ phase' \in {"aggregate", "receive"}
        /\ UNCHANGED <<setup, pct_metric, pdt_metric, classes, trend>>
    BY <1>4 DEF EndOfStream, metricVars
  <2>2. setup.program = "original" /\ classes = <<>> /\ trend = "NONE"
    BY <2>1 DEF TypeInv, ClassesInv
  <2> QED
    BY <1>1, <2>1, <2>2 DEF ClassesInv
<1>5. CASE Classify
  <2> DEFINE n == Len(classes)
  <2>1. /\ phase = "aggregate" /\ phase' = "aggregate" /\ n < Len(pct_metric)
        /\ UNCHANGED <<setup, pct_metric, pdt_metric, trend>>
    BY <1>5 DEF Classify, metricVars
  <2>2. PICK class \in Classes(pct_metric[n+1], pdt_metric[n+1]) :
           classes' = Append(classes, class)
    BY <1>5 DEF Classify
  <2>3. /\ n \in Nat /\ Len(classes') = n + 1 /\ classes'[n+1] = class
        /\ \A i \in 1..n : classes'[i] = classes[i]
    BY <1>1, <2>2
  <2>4. \A i \in 1..n : classes[i] \in Classes(pct_metric[i], pdt_metric[i])
    BY DEF ClassesInv
  <2>5. setup.program = "original" /\ trend = "NONE"
    BY <1>1, <2>1 DEF ClassesInv
  <2>6. Len(pct_metric) \in Nat
    BY <1>1
  <2> HIDE DEF n
  <2>7. \A i \in 1..n+1 : classes'[i] \in Classes(pct_metric'[i], pdt_metric'[i])
    <3>1. ASSUME NEW i \in 1..n+1
          PROVE  classes'[i] \in Classes(pct_metric'[i], pdt_metric'[i])
      <4>1. CASE i = n + 1
        BY <2>1, <2>2, <2>3, <4>1
      <4>2. CASE i # n + 1
        <5>1. i \in 1..n
          BY <2>3, <4>2
        <5> QED
          BY <2>1, <2>3, <2>4, <5>1
      <4> QED
        BY <4>1, <4>2
    <3> QED
      BY <3>1
  <2> QED
    BY <2>1, <2>3, <2>5, <2>6, <2>7 DEF ClassesInv
<1>6. CASE Aggregate
  <2>1. /\ phase = "aggregate" /\ phase' = "over" /\ Len(classes) = Len(pct_metric)
        /\ UNCHANGED <<setup, pct_metric, pdt_metric, classes>>
        /\ trend' = AggregateTrend(classes, num_stream,
                                   setup.slow \/ setup.interrupt_coalescence)
    BY <1>6 DEF Aggregate, metricVars
  <2>2. setup.program = "original"
    BY <1>1, <2>1 DEF ClassesInv
  <2> QED
    BY <1>1, <2>1, <2>2 DEF ClassesInv
<1>7. CASE PortStream
  <2>1. /\ setup.program = "port" /\ phase = "receive" /\ phase' \in {"over", "receive"}
        /\ UNCHANGED <<setup, classes, trend>>
    BY <1>7 DEF PortStream
  <2>2. classes = <<>> /\ trend = "NONE"
    BY <2>1 DEF ClassesInv
  <2>3. Len(pct_metric') \in Nat
    BY <1>7, MetricsType DEF Next
  <2> QED
    BY <2>1, <2>2, <2>3 DEF ClassesInv
<1>8. CASE UNCHANGED vars
  BY <1>8 DEF ClassesInv, vars, metricVars
<1> QED
  BY <1>2, <1>3, <1>4, <1>5, <1>6, <1>7, <1>8 DEF Next

TrendInv == TypeInv /\ MetricsInv /\ ClassesInv

\* At first there are none.
LEMMA TrendInit == Init => TrendInv
<1> SUFFICES ASSUME Init
             PROVE  MetricsInv /\ ClassesInv
  BY TypeInit DEF TrendInv
<1>1. /\ pct_metric = <<>> /\ pdt_metric = <<>> /\ classes = <<>> /\ trend = "NONE"
      /\ phase = "receive"
  BY DEF Init
<1>2. MetricsInv
  BY <1>1 DEF MetricsInv
<1>3. ClassesInv
  BY <1>1 DEF ClassesInv
<1> QED
  BY <1>2, <1>3

\* Every reachable state.
LEMMA TrendHolds == Spec => []TrendInv
<1>1. TrendInv /\ [Next]_vars => TrendInv'
  BY TypeNext, MetricsNext, ClassesNext DEF TrendInv
<1> QED
  BY <1>1, TrendInit, PTL DEF Spec
-----------------------------------------------------------------------------
(* Room for the metrics: those of the stream that is looked at were paid for *)
(* by the packets before low.                                                *)

PieceLen  == MIN_STREAM_LEN + 1
PerStream == stream_len \div PieceLen       \* pieces of that length in a stream
Metrics   == Len(pct_metric) - (stream_cnt - 1) * PerStream
ArrayInv ==
    Plain =>
        /\ phase = "pieces" => stream_cnt >= 1 /\ Metrics * PieceLen <= low
        /\ phase # "pieces" => Len(pct_metric) <= stream_cnt * PerStream

\* What the sizes of the model are.
LEMMA Sizes ==
    /\ stream_len \in Nat /\ stream_len > 1
    /\ PieceLen \in Nat /\ PieceLen > 0
    /\ PerStream \in Nat /\ stream_len < (PerStream + 1) * PieceLen
    /\ num_stream \in Nat /\ TREND_ARRAY_LEN \in Nat
    /\ num_stream * PerStream <= TREND_ARRAY_LEN
<1>1. \A a \in Nat, b \in Nat \ {0} : a \div b \in Nat /\ a < ((a \div b) + 1) * b
  OBVIOUS
<1>2. stream_len \in Nat /\ stream_len > 1
  BY MetricAssumption
<1>3. PieceLen \in Nat \ {0}
  BY SizeAssumption DEF PieceLen
<1>4. PerStream \in Nat /\ stream_len < (PerStream + 1) * PieceLen
  BY <1>1, <1>2, <1>3 DEF PerStream
<1>5. num_stream \in Nat /\ TREND_ARRAY_LEN \in Nat
  BY SizeAssumption
<1>6. num_stream * PerStream <= TREND_ARRAY_LEN
  BY SizeAssumption DEF PerStream, PieceLen
<1>7. QED
  BY <1>2, <1>3, <1>4, <1>5, <1>6

\* Counting more than a product allows.
LEMMA Products ==
    /\ \A x \in Int, b \in Nat : x <= 0 => x * b <= 0
    /\ \A x, q, a \in Int, b \in Nat : b > 0 /\ x * b <= a /\ a < (q + 1) * b => x <= q
    /\ \A c, n, q \in Nat : c <= n => c * q <= n * q
    /\ \A x, b \in Int : (x + 1) * b = x * b + b
<1>1. \A x \in Int, b \in Nat : x <= 0 => x * b <= 0
  OBVIOUS
<1>2. \A c, n, q \in Nat : c <= n => c * q <= n * q
  OBVIOUS
<1>3. \A x, b \in Int : (x + 1) * b = x * b + b
  OBVIOUS
<1>4. ASSUME NEW x \in Int, NEW q \in Int, NEW a \in Int, NEW b \in Nat,
             b > 0, x * b <= a, a < (q + 1) * b, x > q
      PROVE  FALSE
  <2>1. x - (q + 1) \in Nat
    BY <1>4
  <2>2. (x - (q + 1)) * b >= 0
    BY <2>1
  <2>3. (x - (q + 1)) * b = x * b - (q + 1) * b
    OBVIOUS
  <2>4. QED
    BY <1>4, <2>2, <2>3
<1>5. QED
  BY <1>1, <1>2, <1>3, <1>4

\* What the types say of it.
LEMMA ArrayTypes ==
    ASSUME TypeInv
    PROVE  /\ stream_cnt \in 0..num_stream /\ stream_cnt \in Nat /\ low \in 0..stream_len
           /\ pct_metric \in Seq(Quotients) /\ Len(pct_metric) \in Nat
           /\ Metrics \in Int /\ PerStream \in Nat /\ PieceLen \in Nat /\ PieceLen > 0
           /\ Plain => ic = FALSE
<1>1. stream_cnt \in 0..num_stream /\ low \in 0..stream_len /\ pct_metric \in Seq(Quotients)
  BY DEF TypeInv, TypeOK
<1>2. Len(pct_metric) \in Nat /\ stream_cnt \in Nat
  BY <1>1, Sizes
<1>3. Metrics \in Int
  BY <1>2, Sizes DEF Metrics
<1> QED
  BY <1>1, <1>2, <1>3, Sizes DEF TypeInv, Plain

\* No more delays are kept than the piece has packets.
LEMMA KeptOfPiece ==
    ASSUME NEW arrv, NEW l \in Nat, NEW h \in Nat, l <= h, NEW t
    PROVE  /\ IsFiniteSet(NotBackToBack(arrv, l, h, t))
           /\ Cardinality(NotBackToBack(arrv, l, h, t)) \in Nat
           /\ Cardinality(NotBackToBack(arrv, l, h, t)) <= h - l + 1
<1>1. NotBackToBack(arrv, l, h, t) \in SUBSET (l..h)
  BY DEF NotBackToBack
<1>2. IsFiniteSet(l..h) /\ Cardinality(l..h) = h - l + 1
  BY FS_Interval
<1>3. QED
  BY <1>1, <1>2, FS_Subset, FS_CardinalityType

\* No metric is written before the first stream.
LEMMA InvInit == Init => ArrayInv
<1> SUFFICES ASSUME Init
             PROVE  ArrayInv
  OBVIOUS
<1>1. 0 * PerStream = 0
  BY Sizes
<1>2. phase = "receive" /\ stream_cnt = 0 /\ Len(pct_metric) = 0
  BY DEF Init
<1> QED
  BY <1>1, <1>2 DEF ArrayInv

\* A stream has come: it has added nothing yet.
LEMMA InvReceiveStream == TypeInv /\ ArrayInv /\ Plain /\ ReceiveStream => ArrayInv'
<1> SUFFICES ASSUME TypeInv, ArrayInv, Plain, ReceiveStream
             PROVE  ArrayInv'
  OBVIOUS
<1>1. stream_cnt \in Nat /\ Len(pct_metric) \in Nat /\ Len(pct_metric) <= stream_cnt * PerStream
  BY ArrayTypes DEF ArrayInv, ReceiveStream
<1>2. /\ stream_cnt' = stream_cnt + 1 /\ stream_cnt' \in Nat
      /\ pct_metric' = pct_metric
  BY <1>1 DEF ReceiveStream, metricVars
<1>3. PICK s \in Streams : GiveUpLossy \/ BeginPieces(s)
  BY DEF ReceiveStream
<1>4. CASE GiveUpLossy
  <2>1. stream_cnt * PerStream <= stream_cnt' * PerStream
    BY <1>1, <1>2, Products, Sizes
  <2>2. Len(pct_metric') <= stream_cnt' * PerStream
    BY <1>1, <1>2, <2>1, Sizes
  <2>3. phase' = "aborted"
    BY <1>4 DEF GiveUpLossy
  <2> QED
    BY <2>2, <2>3 DEF ArrayInv
<1>5. CASE BeginPieces(s)
  <2>1. phase' = "pieces" /\ low' = 0
    BY <1>5 DEF BeginPieces
  <2>2. Metrics' = Len(pct_metric) - stream_cnt * PerStream
    BY <1>1, <1>2 DEF Metrics
  <2>3. Metrics' \in Int /\ Metrics' <= 0
    BY <1>1, <2>2, Sizes
  <2>4. Metrics' * PieceLen <= 0
    BY <2>3, Products, Sizes
  <2>5. stream_cnt' >= 1 /\ Metrics' * PieceLen <= low'
    BY <1>1, <1>2, <2>1, <2>4
  <2> QED
    BY <2>1, <2>5 DEF ArrayInv
<1> QED
  BY <1>3, <1>4, <1>5

\* A piece that adds a metric has the packets for it.
LEMMA InvTrendOfPiece == TypeInv /\ ArrayInv /\ Plain /\ TrendOfPiece => ArrayInv'
<1> SUFFICES ASSUME TypeInv, ArrayInv, Plain, TrendOfPiece
             PROVE  ArrayInv'
  OBVIOUS
<1>1. MorePieces /\ NextPiece
  BY DEF TrendOfPiece
<1>2. /\ phase = "pieces" /\ phase' = "pieces"
      /\ stream_cnt' = stream_cnt /\ stream_cnt >= 1
      /\ Metrics * PieceLen <= low
  BY <1>1 DEF ArrayInv, TrendOfPiece, MorePieces, fleetVars
<1>3. low \in Nat /\ High \in Nat /\ low <= High /\ low' = High + 1
  <2>1. low \in Packets /\ High \in Packets /\ low <= High
    BY <1>1, TypeNextPiece
  <2>2. Packets \in SUBSET Nat
    BY StampsAt
  <2> QED
    BY <1>1, <2>1, <2>2 DEF NextPiece
<1>4. Metrics \in Int /\ Metrics * PieceLen \in Int /\ Len(pct_metric) \in Nat
  BY ArrayTypes
<1> DEFINE kept == NotBackToBack(stream.arrv, low, High, tail)
<1>5. Cardinality(kept) \in Nat /\ Cardinality(kept) <= High - low + 1
  BY <1>3, KeptOfPiece
<1>6. UNCHANGED metricVars \/ Cardinality(kept) > MIN_STREAM_LEN
  BY DEF TrendOfPiece
<1> HIDE DEF kept
<1>7. CASE UNCHANGED metricVars
  <2>1. Metrics' = Metrics
    BY <1>2, <1>7 DEF metricVars, Metrics
  <2>2. Metrics' * PieceLen <= low'
    BY <1>2, <1>3, <1>4, <2>1
  <2> QED
    BY <1>2, <2>2 DEF ArrayInv
<1>8. CASE ~UNCHANGED metricVars
  <2>1. PICK p, d : Noted(p, d)
    BY <1>8, NotedOfPiece
  <2>2. pct_metric' = Append(pct_metric, p) /\ pct_metric \in Seq(Quotients)
    BY <2>1, ArrayTypes DEF Noted
  <2>3. Len(pct_metric') = Len(pct_metric) + 1
    BY <2>2
  <2>4. Metrics' = Metrics + 1
    BY <1>2, <1>4, <2>3, ArrayTypes DEF Metrics
  <2>5. Metrics' * PieceLen = Metrics * PieceLen + PieceLen
    BY <1>4, <2>4, Products, Sizes
  <2>6. PieceLen <= High - low + 1
    BY <1>3, <1>5, <1>6, <1>8, SizeAssumption DEF PieceLen
  <2>7. Metrics' * PieceLen <= low'
    BY <1>2, <1>3, <1>4, <2>5, <2>6, Sizes
  <2> QED
    BY <1>2, <2>7 DEF ArrayInv
<1> QED
  BY <1>7, <1>8

\* A stream has paid for no more than its share.
LEMMA ShareOfStream ==
    ASSUME TypeInv, stream_cnt >= 1, Metrics * PieceLen <= low
    PROVE  Len(pct_metric) <= stream_cnt * PerStream
<1>1. stream_cnt \in Nat /\ Len(pct_metric) \in Nat /\ Metrics \in Int /\ low \in 0..stream_len
  BY ArrayTypes
<1>2. Metrics * PieceLen <= stream_len
  <2>1. Metrics * PieceLen \in Int
    BY <1>1, Sizes
  <2> QED
    BY <1>1, <2>1, Sizes
<1>3. Metrics <= PerStream
  BY <1>1, <1>2, Products, Sizes
<1>4. stream_cnt * PerStream = (stream_cnt - 1) * PerStream + PerStream
  <2>1. stream_cnt - 1 \in Int /\ (stream_cnt - 1) + 1 = stream_cnt
    BY <1>1
  <2> QED
    BY <2>1, Products, Sizes
<1>5. (stream_cnt - 1) * PerStream \in Int
  BY <1>1, Sizes
<1> QED
  BY <1>1, <1>3, <1>4, <1>5, Sizes DEF Metrics

\* What is left changes no metric.
LEMMA InvRest ==
    TypeInv /\ ArrayInv /\ Plain /\ (EndOfStream \/ Classify \/ Aggregate \/ UNCHANGED vars)
       => ArrayInv'
<1> SUFFICES ASSUME TypeInv, ArrayInv, Plain,
                    EndOfStream \/ Classify \/ Aggregate \/ UNCHANGED vars
             PROVE  ArrayInv'
  OBVIOUS
<1>1. /\ pct_metric' = pct_metric /\ stream_cnt' = stream_cnt /\ low' = low
      /\ phase' = phase \/ phase' # "pieces"
  BY DEF EndOfStream, Classify, Aggregate, vars, fleetVars, metricVars
<1>2. Metrics' = Metrics
  BY <1>1 DEF Metrics
<1>3. Len(pct_metric) <= stream_cnt * PerStream
  BY ShareOfStream DEF ArrayInv
<1> QED
  BY <1>1, <1>2, <1>3 DEF ArrayInv

\* The other actions are those of coalescing hosts and of the port.
LEMMA InvNext == TypeInv /\ ArrayInv /\ [Next]_vars => ArrayInv'
<1> SUFFICES ASSUME TypeInv, ArrayInv, [Next]_vars, Plain'
             PROVE  ArrayInv'
  BY DEF ArrayInv
<1>1. Plain
  <2>1. setup' = setup
    BY DEF Next, ReceiveStream, TrendOfPiece, TrendOfBursts, FewBursts, EndOfStream,
           Classify, Aggregate, PortStream, vars
  <2> QED
    BY <2>1 DEF Plain
<1>2. ic = FALSE
  BY <1>1, ArrayTypes
<1>3. ~TrendOfBursts /\ ~FewBursts /\ ~PortStream
  BY <1>1, <1>2 DEF TrendOfBursts, FewBursts, PortStream, Plain
<1> QED
  BY <1>1, <1>3, InvReceiveStream, InvTrendOfPiece, InvRest DEF Next
-----------------------------------------------------------------------------
(* The theorems.                                                            *)

\* Every variable of recv_fleet and get_trend keeps its type: the metrics of pieces,
\* bursts and the port's streams are quotients, a piece lies within its stream, the
\* counters of bursts and intervals do not become negative.
THEOREM TypeCorrect == Spec => []TypeOK
<1>1. TrendInv => TypeOK
  BY DEF TrendInv, TypeInv
<1> QED
  BY <1>1, TrendHolds, PTL

\* No metric stands for "discarded" when interrupts are not coalesced: a piece that is
\* looked at has medians enough for get_pct_trend and get_pdt_trend, and so has a
\* stream of the port, if the root of its length is enough (10 of 100 packets, 5 are).
THEOREM TestsCorrect ==
    ASSUME IntSqrt(stream_len) >= MIN_PARTITIONED_STREAM_LEN
    PROVE  Spec => []TestsApply
<1>1. ASSUME TrendInv
      PROVE  TestsApply
  <2>1. pct_metric \in Seq(Quotients)
    BY <1>1 DEF TrendInv, TypeInv, TypeOK
  <2>2. \A i \in DOMAIN pct_metric : Tells(pct_metric[i], pdt_metric[i])
    BY <1>1, <2>1 DEF TrendInv, MetricsInv
  <2> QED
    BY <2>2 DEF TestsApply, Tells
<1> QED
  BY <1>1, TrendHolds, PTL

\* A class "I" needs an increasing trend in one test and none in the other that says
\* no or nothing.
LEMMA IncreasingClass ==
    ASSUME NEW p, NEW d
    PROVE  /\ get_pct_trend(p) \in {NOTR, DISCARD} => "I" \notin Classes(p, d)
           /\ get_pct_trend(p) = INCR /\ get_pdt_trend(d) = {INCR} => Classes(p, d) = {"I"}
<1>1. ASSUME NEW a \in {NOTR, DISCARD}, NEW t
      PROVE  StreamClass(a, t) # "I"
  BY <1>1 DEF StreamClass, INCR, NOTR, DISCARD, UNCL
<1>2. StreamClass(INCR, INCR) = "I"
  BY DEF StreamClass, INCR, NOTR, DISCARD, UNCL
<1> QED
  BY <1>1, <1>2 DEF Classes

\* The array of pct_metric is never written past its end, whatever streams come and
\* wherever the sender's pauses cut them (recv_fleet and get_trend).
THEOREM ArrayFits == Spec => []TrendArrayFits
<1>1. TypeInv /\ ArrayInv => TrendArrayFits
  <2> SUFFICES ASSUME TypeInv, ArrayInv, Plain
               PROVE  Len(pct_metric) <= TREND_ARRAY_LEN
    BY DEF TrendArrayFits, Plain
  <2>1. Len(pct_metric) <= stream_cnt * PerStream
    BY ShareOfStream DEF ArrayInv
  <2>2. stream_cnt * PerStream <= num_stream * PerStream
    BY ArrayTypes, Products, Sizes
  <2> QED
    BY <2>1, <2>2, ArrayTypes, Sizes
<1>2. TypeInv /\ ArrayInv /\ [Next]_vars => ArrayInv'
  BY InvNext
<1>3. Spec => []TypeInv
  <2>1. TrendInv => TypeInv
    BY DEF TrendInv
  <2> QED
    BY <2>1, TrendHolds, PTL
<1>4. Spec => []ArrayInv
  BY <1>2, <1>3, InvInit, PTL DEF Spec
<1> QED
  BY <1>1, <1>3, <1>4, PTL

\* How many metrics count as c.
CountOf(cs, c) == Cardinality({i \in DOMAIN cs : cs[i] = c})
LEMMA CountOfType ==
    ASSUME NEW cs \in Seq({"I", "N", "U", "d"})
    PROVE  \A c : /\ CountOf(cs, c) \in Nat /\ CountOf(cs, c) <= Len(cs)
                  /\ (\A i \in 1..Len(cs) : cs[i] # c) => CountOf(cs, c) = 0
                  /\ (\A i \in 1..Len(cs) : cs[i] = c) => CountOf(cs, c) = Len(cs)
<1> SUFFICES ASSUME NEW c
             PROVE  /\ CountOf(cs, c) \in Nat /\ CountOf(cs, c) <= Len(cs)
                    /\ (\A i \in 1..Len(cs) : cs[i] # c) => CountOf(cs, c) = 0
                    /\ (\A i \in 1..Len(cs) : cs[i] = c) => CountOf(cs, c) = Len(cs)
  OBVIOUS
<1> DEFINE n == Len(cs)
           D == {i \in DOMAIN cs : cs[i] = c}
<1>1. n \in Nat /\ DOMAIN cs = 1..n
  OBVIOUS
<1>2. D \subseteq 1..n
  BY <1>1
<1>3. CountOf(cs, c) = Cardinality(D)
  BY DEF CountOf
<1>4. IsFiniteSet(1..n) /\ Cardinality(1..n) = n
  <2>1. 1 \in Int /\ n \in Int /\ (1 > n => n = 0) /\ (~(1 > n) => n - 1 + 1 = n)
    BY <1>1
  <2> HIDE DEF n
  <2> QED
    BY <2>1, FS_Interval
<1>5. (\A i \in 1..n : cs[i] # c) => D = {}
  BY <1>1
<1>6. (\A i \in 1..n : cs[i] = c) => D = 1..n
  BY <1>1
<1> HIDE DEF D, n
<1>7. Cardinality(D) \in Nat /\ Cardinality(D) <= n
  BY <1>1, <1>2, CountWithin
<1> QED
  BY <1>3, <1>4, <1>5, <1>6, <1>7, FS_EmptySet DEF n

\* Without a class "I" the trend of a fleet is not increasing.
LEMMA NoneIncreasing ==
    ASSUME NEW cs \in Seq({"I", "N", "U", "d"}), NEW num1, NEW excused,
           \A i \in 1..Len(cs) : cs[i] # "I"
    PROVE  AggregateTrend(cs, num1, excused) # "INCREASING"
<1>1. /\ CountOf(cs, "I") = 0 /\ CountOf(cs, "d") \in Nat /\ Len(cs) \in Nat
  BY CountOfType
<1>2. ~(Len(cs) - CountOf(cs, "d") > 0
        /\ CountOf(cs, "I") * 10 >= (Len(cs) - CountOf(cs, "d")) * 6)
  BY <1>1
<1> QED
  BY <1>2 DEF AggregateTrend, CountOf

\* With classes "I" only it is, if there are enough of them.
LEMMA AllIncreasing ==
    ASSUME NEW cs \in Seq({"I", "N", "U", "d"}), NEW num1, NEW excused, Len(cs) > 0,
           \A i \in 1..Len(cs) : cs[i] = "I"
    PROVE  AggregateTrend(cs, num1, excused) \in {"INCREASING", "UNUSABLE"}
<1>1. CountOf(cs, "I") = Len(cs) /\ CountOf(cs, "d") = 0 /\ Len(cs) \in Nat
  <2>1. \A i \in 1..Len(cs) : cs[i] # "d"
    OBVIOUS
  <2> QED
    BY <2>1, CountOfType
<1>2. Len(cs) - CountOf(cs, "d") > 0
      /\ CountOf(cs, "I") * 10 >= (Len(cs) - CountOf(cs, "d")) * 6
  BY <1>1
<1> QED
  BY <1>2 DEF AggregateTrend, CountOf

\* A path whose delays do not rise is never taken for a loaded one: not when packets
\* are lost, the sender pauses, interrupts are coalesced, or pdt_trend is uninitialised;
\* and not when adjust_offset_to_zero takes a delay of 0 for a lost packet, if a test
\* needs five values, as MIN_PARTITIONED_STREAM_LEN says.
THEOREM SteadyCorrect ==
    ASSUME MIN_PARTITIONED_STREAM_LEN >= 5
    PROVE  Spec => []SteadyNotIncreasing
<1>1. ASSUME TrendInv, seen \subseteq Steady, trend = "INCREASING"
      PROVE  FALSE
  <2>1. /\ classes \in Seq({"I", "N", "U", "d"}) /\ setup.program \in {"original", "port"}
        /\ pct_metric \in Seq(Quotients)
    BY <1>1, StreamAssumption DEF TrendInv, TypeInv, TypeOK, SituationType
  <2>2. phase = "over" /\ setup.program = "original"
    BY <1>1, <2>1 DEF TrendInv, ClassesInv
  <2>3. trend = AggregateTrend(classes, num_stream,
                               setup.slow \/ setup.interrupt_coalescence)
    BY <1>1, <2>2 DEF TrendInv, ClassesInv
  <2>4. ASSUME NEW i \in 1..Len(classes)
        PROVE  classes[i] # "I"
    <3>1. /\ classes[i] \in Classes(pct_metric[i], pdt_metric[i])
          /\ Len(classes) <= Len(pct_metric)
      BY <1>1 DEF TrendInv, ClassesInv
    <3>2. i \in 1..Len(pct_metric)
      BY <2>1, <3>1
    <3>3. Tells(pct_metric[i], pdt_metric[i])
      BY <1>1, <3>2 DEF TrendInv, MetricsInv
    <3>4. get_pct_trend(pct_metric[i]) \in {NOTR, DISCARD}
      BY <1>1, <2>2, <3>3 DEF Tells
    <3> QED
      BY <3>1, <3>4, IncreasingClass
  <2> QED
    BY <1>1, <2>1, <2>3, <2>4, NoneIncreasing
<1>2. TrendInv => SteadyNotIncreasing
  BY <1>1 DEF SteadyNotIncreasing
<1> QED
  BY <1>2, TrendHolds, PTL

\* A fleet of streams whose delays all rise shows an increasing trend, if enough of them
\* could be used: each piece does in both tests, whatever is cut off. A delay of exactly
\* 0 would be taken for a lost packet and can hide the rise.
THEOREM RisingCorrect ==
    ASSUME MIN_PARTITIONED_STREAM_LEN >= 3, NoZeroDelay
    PROVE  Spec => []RisingIsIncreasing
<1>1. ASSUME TrendInv, phase = "over", setup.program = "original",
             ~setup.interrupt_coalescence, seen \subseteq Rising, pct_metric # <<>>
      PROVE  trend \in {"INCREASING", "UNUSABLE"}
  <2>1. classes \in Seq({"I", "N", "U", "d"}) /\ pct_metric \in Seq(Quotients)
    BY <1>1 DEF TrendInv, TypeInv, TypeOK
  <2>2. /\ Len(classes) = Len(pct_metric)
        /\ trend = AggregateTrend(classes, num_stream,
                                  setup.slow \/ setup.interrupt_coalescence)
    BY <1>1 DEF TrendInv, ClassesInv
  <2>3. ASSUME NEW i \in 1..Len(classes)
        PROVE  classes[i] = "I"
    <3>1. /\ classes[i] \in Classes(pct_metric[i], pdt_metric[i])
          /\ i \in 1..Len(pct_metric)
      BY <1>1, <2>2 DEF TrendInv, ClassesInv
    <3>2. Tells(pct_metric[i], pdt_metric[i])
      BY <1>1, <3>1 DEF TrendInv, MetricsInv
    <3>3. /\ get_pct_trend(pct_metric[i]) = INCR
          /\ get_pdt_trend(pdt_metric[i]) = {INCR}
      BY <1>1, <3>2 DEF Tells, Plain
    <3>4. Classes(pct_metric[i], pdt_metric[i]) = {"I"}
      BY <3>3, IncreasingClass
    <3> QED
      BY <3>1, <3>4
  <2>4. Len(classes) > 0
    BY <1>1, <2>1, <2>2
  <2> QED
    BY <2>1, <2>2, <2>3, <2>4, AllIncreasing
<1>2. TrendInv => RisingIsIncreasing
  BY <1>1 DEF RisingIsIncreasing
<1> QED
  BY <1>2, TrendHolds, PTL

-----------------------------------------------------------------------------
(* The mean interval.                                                       *)

\* A lost packet takes away two gaps at most.
LEMMA KnownGaps ==
    ASSUME NEW s \in Streams
    PROVE  /\ IsFiniteSet(Known(s.snd)) /\ Cardinality(Known(s.snd)) \in Nat
           /\ Cardinality(Known(s.snd)) >= stream_len - 1 - 2 * LostPackets(s.arrv)
<1> DEFINE all == 0..stream_len-2
           lost == {k \in Packets : s.arrv[k] = 0}
           A == {k \in all : s.snd[k] = 0}
           B == {k \in all : s.snd[k+1] = 0}
           K == Known(s.snd)
<1>1. stream_len \in Nat /\ stream_len > 1
  BY StreamLength
<1>2. \A k \in all : k \in Packets /\ k + 1 \in Packets /\ k \in Int
  BY <1>1 DEF Packets
<1>3. \A k \in Packets : s.arrv[k] = 0 <=> s.snd[k] = 0
  BY StreamAssumption
<1>4. IsFiniteSet(all) /\ Cardinality(all) = stream_len - 1
  <2>1. 0 \in Int /\ stream_len - 2 \in Int /\ ~(0 > stream_len - 2)
        /\ (stream_len - 2) - 0 + 1 = stream_len - 1
    BY <1>1
  <2> QED
    BY <2>1, FS_Interval
<1>5. lost \in SUBSET Packets /\ IsFiniteSet(lost) /\ Cardinality(lost) \in Nat
  <2>1. lost \in SUBSET Packets
    OBVIOUS
  <2> HIDE DEF lost
  <2> QED
    BY <2>1, StampsType, FS_Subset, FS_CardinalityType
<1>6. IsFiniteSet(A) /\ Cardinality(A) <= Cardinality(lost)
  <2>1. A \in SUBSET lost
    BY <1>2, <1>3
  <2> HIDE DEF A, lost
  <2> QED
    BY <1>5, <2>1, FS_Subset
<1>7. IsFiniteSet(B) /\ Cardinality(B) <= Cardinality(lost)
  <2> DEFINE f == [k \in B |-> k + 1]
  <2>1. \A k \in B : k + 1 \in lost /\ k \in Int
    BY <1>2, <1>3
  <2> HIDE DEF B, lost
  <2>2. f \in Injection(B, lost)
    BY <2>1 DEF Injection, IsInjective
  <2> QED
    BY <1>5, <2>2, FS_Injection
<1>8. K \in SUBSET all /\ all \subseteq K \cup (A \cup B)
  BY DEF Known, GapKnown
<1> HIDE DEF all, A, B, K, lost
<1>9. IsFiniteSet(K) /\ Cardinality(K) \in Nat
  BY <1>4, <1>8, FS_Subset, FS_CardinalityType
<1>10. /\ IsFiniteSet(A \cup B) /\ Cardinality(A \cup B) <= Cardinality(A) + Cardinality(B)
       /\ Cardinality(A) \in Nat /\ Cardinality(B) \in Nat /\ Cardinality(A \cup B) \in Nat
  <2>1. IsFiniteSet(A \cap B)
    BY <1>6, FS_Subset
  <2>2. Cardinality(A) \in Nat /\ Cardinality(B) \in Nat /\ Cardinality(A \cap B) \in Nat
    BY <1>6, <1>7, <2>1, FS_CardinalityType
  <2>3. IsFiniteSet(A \cup B) /\ Cardinality(A \cup B) \in Nat
        /\ Cardinality(A \cup B) = Cardinality(A) + Cardinality(B) - Cardinality(A \cap B)
    BY <1>6, <1>7, FS_Union, FS_CardinalityType
  <2> QED
    BY <2>2, <2>3
<1>11. /\ IsFiniteSet(K \cup (A \cup B)) /\ Cardinality(K \cup (A \cup B)) \in Nat
       /\ Cardinality(K \cup (A \cup B)) <= Cardinality(K) + Cardinality(A \cup B)
  <2>1. IsFiniteSet(K \cap (A \cup B))
    BY <1>9, FS_Subset
  <2>2. Cardinality(K \cap (A \cup B)) \in Nat
    BY <2>1, FS_CardinalityType
  <2>3. /\ IsFiniteSet(K \cup (A \cup B)) /\ Cardinality(K \cup (A \cup B)) \in Nat
        /\ Cardinality(K \cup (A \cup B))
             = Cardinality(K) + Cardinality(A \cup B) - Cardinality(K \cap (A \cup B))
    BY <1>9, <1>10, FS_Union, FS_CardinalityType
  <2> QED
    BY <1>9, <1>10, <2>2, <2>3
<1>12. stream_len - 1 <= Cardinality(K \cup (A \cup B))
  BY <1>4, <1>8, <1>11, FS_Subset
<1>13. LostPackets(s.arrv) = Cardinality(lost)
  BY DEF LostPackets, lost
<1>14. Cardinality(K) >= stream_len - 1 - 2 * LostPackets(s.arrv)
  BY <1>1, <1>5, <1>6, <1>7, <1>9, <1>10, <1>11, <1>12, <1>13
<1> QED
  BY <1>9, <1>14 DEF K

\* A stream that is not too lossy has gaps enough: more are dropped than it has pauses.
LEMMA PausesDropped ==
    ASSUME NEW s \in Streams, HIGH_LOSS_RATE <= 15, ~LostAtLeast(s, HIGH_LOSS_RATE),
           NEW c \in Nat, c * 10 <= stream_len
    PROVE  RoundEven(15 * Cardinality(Known(s.snd)), 100) >= c
<1> DEFINE L == Cardinality(Known(s.snd))
           l == LostPackets(s.arrv)
<1>1. L \in Nat /\ L >= stream_len - 1 - 2 * l
  BY KnownGaps
<1>2. l \in Nat /\ stream_len \in Nat /\ HIGH_LOSS_RATE \in Nat
  BY LostPacketsType, StreamLength, MetricAssumption
<1>3. l * 100 < HIGH_LOSS_RATE * stream_len
  BY <1>2 DEF LostAtLeast
<1> HIDE DEF L, l
<1>4. HIGH_LOSS_RATE * stream_len <= 15 * stream_len
  BY <1>2
<1>5. l * 100 < 15 * stream_len
  <2>1. HIGH_LOSS_RATE * stream_len \in Int
    BY <1>2
  <2> QED
    BY <1>2, <1>3, <1>4, <2>1
<1>6. 15 * L \in Nat /\ 2 * (15 * L) > (2 * c - 1) * 100
  BY <1>1, <1>2, <1>5
<1>7. RoundEven(15 * L, 100) >= c
  BY <1>6, RoundedIsNear
<1> QED
  BY <1>7 DEF L

\* All gaps that are left are as long as the period.
LEMMA PunctualIntervals ==
    ASSUME NEW s \in Punctual, HIGH_LOSS_RATE <= 15, ~LostAtLeast(s, HIGH_LOSS_RATE)
    PROVE  \A i \in 1..Len(SenderIntervals(s.snd)) : SenderIntervals(s.snd)[i] = time_interval
<1> DEFINE K == Known(s.snd)
           v == Gaps(s.snd)
           C == SenderCuts(s.snd)
           L == Len(v)
           T == time_interval
           gap == [k \in K |-> Gap(s.snd, k)]
           dropped == RoundEven(15 * L, 100)
<1>1. s \in Streams /\ Cardinality(C) * 10 <= stream_len
  BY DEF Punctual
<1>2. s.snd \in Stamps
  BY <1>1, StampsType
<1>3. /\ v \in Seq(Int) /\ Lists(v, K, gap) /\ L = Cardinality(K)
      /\ Len(SenderIntervals(s.snd)) = L - dropped
      /\ \A i \in 1..L - dropped : SenderIntervals(s.snd)[i] = InOrder(v)[i]
  BY <1>2, IntervalsType
<1>4. T \in Nat /\ L \in Nat
  BY <1>3, MetricAssumption
<1>5. \A k \in K : gap[k] = T \/ (k \in C /\ gap[k] > T)
  <2>1. \A k \in K : Gap(s.snd, k) = T \/ k \in C
    BY DEF Punctual, Known
  <2>2. \A k \in C : Gap(s.snd, k) > Larger(2 * T, T + 1000)
    BY DEF SenderCuts
  <2>3. Larger(2 * T, T + 1000) \in Int /\ Larger(2 * T, T + 1000) >= T
    BY <1>4 DEF Larger
  <2>4. \A k \in C : Gap(s.snd, k) \in Int
    <3>1. \A k \in C : k \in Packets /\ k + 1 \in Packets
      BY StreamLength DEF SenderCuts, Packets
    <3>2. \A k \in Packets : s.snd[k] \in Int
      BY <1>2, StampsType
    <3> HIDE DEF C
    <3> QED
      BY <3>1, <3>2 DEF Gap
  <2> HIDE DEF T, C
  <2>5. \A k \in C : Gap(s.snd, k) > T
    BY <1>4, <2>2, <2>3, <2>4
  <2> QED
    BY <2>1, <2>5
<1>6. IsFiniteSet(C) /\ Cardinality(C) \in Nat
  <2>1. C \in SUBSET Packets
    BY StreamLength DEF SenderCuts, Packets
  <2> HIDE DEF C
  <2> QED
    BY <2>1, StampsType, FS_Subset, FS_CardinalityType
<1>7. dropped \in Int /\ dropped >= Cardinality(C)
  <2>1. dropped \in Int
    BY <1>4, DroppedType
  <2> HIDE DEF C, v
  <2> QED
    BY <1>1, <1>3, <1>6, <2>1, PausesDropped
<1>8. PICK order : InOrderOf(order, v, K, gap)
  BY <1>3 DEF Lists
<1>9. \A j \in 1..L : order[j] \in K /\ v[j] = gap[order[j]] /\ v[j] \in Int
  <2>1. \A j \in 1..L : v[j] \in Int
    <3> HIDE DEF v
    <3> QED
      BY <1>3
  <2> HIDE DEF v, gap, K
  <2>2. order \in [1..L -> K] /\ \A j \in 1..L : v[j] = gap[order[j]]
    BY <1>8 DEF InOrderOf
  <2> QED
    BY <2>1, <2>2
<1>10. \A i, j \in 1..L : i < j => order[i] < order[j]
  BY <1>8 DEF InOrderOf
<1>11. \A k \in K : k \in Int
  BY DEF Known
<1> HIDE DEF v, C, T, gap, K, dropped
<1>12. \A j \in 1..L : v[j] = T \/ (order[j] \in C /\ v[j] > T)
  BY <1>5, <1>9
<1> DEFINE Over == {j \in 1..L : v[j] > T}
<1>13. Cardinality(Over) \in Nat /\ Cardinality(Over) <= Cardinality(C) /\ IsFiniteSet(Over)
  <2> DEFINE f == [j \in Over |-> order[j]]
  <2>1. \A j \in Over : order[j] \in C
    BY <1>4, <1>12
  <2>2. ASSUME NEW i \in Over, NEW j \in Over, order[i] = order[j]
        PROVE  i = j
    <3>1. i \in 1..L /\ j \in 1..L /\ i \in Int /\ j \in Int
      BY <1>4
    <3>2. order[i] \in Int /\ order[j] \in Int
      BY <1>9, <1>11, <3>1
    <3>3. ~(i < j) /\ ~(j < i)
      BY <1>10, <2>2, <3>1, <3>2
    <3> QED
      BY <3>1, <3>3
  <2> HIDE DEF Over
  <2>3. f \in Injection(Over, C)
    BY <2>1, <2>2 DEF Injection, IsInjective
  <2>4. IsFiniteSet(Over) /\ Cardinality(Over) <= Cardinality(C)
    BY <1>6, <2>3, FS_Injection
  <2> QED
    BY <2>4, FS_CardinalityType
<1>14. Cardinality(Upto(v, T)) >= L - Cardinality(C)
  <2>1. DOMAIN v = 1..L
    BY <1>3
  <2>2. Upto(v, T) = (1..L) \ Over
    BY <1>4, <1>9, <2>1 DEF Upto
  <2>3. IsFiniteSet(1..L) /\ Cardinality(1..L) = L
    <3>1. 1 \in Int /\ L \in Int /\ (1 > L => L = 0) /\ (~(1 > L) => L - 1 + 1 = L)
      BY <1>4
    <3> HIDE DEF L
    <3> QED
      BY <3>1, FS_Interval
  <2> DEFINE W == 1..L
  <2>4. W \cap Over = Over /\ IsFiniteSet(W) /\ Cardinality(W) = L
    BY <2>3
  <2> HIDE DEF Over, W
  <2>5. Cardinality(W \ Over) = Cardinality(W) - Cardinality(W \cap Over)
    BY <2>4, FS_Difference
  <2>6. Cardinality((1..L) \ Over) = L - Cardinality(Over)
    BY <2>4, <2>5 DEF W
  <2> QED
    BY <1>4, <1>6, <1>13, <2>2, <2>6
<1> HIDE DEF L
<1>15. ASSUME NEW i \in 1..L - dropped
       PROVE  InOrder(v)[i] = T
  <2> DEFINE x == InOrder(v)[i]
  <2>1. i \in 1..L /\ i \in Int /\ i <= L - Cardinality(C)
    BY <1>4, <1>6, <1>7
  <2>2. (\E j \in 1..L : x = v[j]) /\ Cardinality(Under(v, x)) < i
    BY <1>3, <2>1, Ordered DEF L
  <2> HIDE DEF x
  <2>3. PICK j \in 1..L : x = v[j]
    BY <2>2
  <2>4. x \in Int /\ (x = T \/ x > T)
    BY <1>9, <1>12, <2>3
  <2>5. ASSUME x > T
        PROVE  FALSE
    <3>1. \A a \in Int :
             /\ Cardinality(Under(v, a)) \in Nat /\ Cardinality(Upto(v, a)) \in 0..Len(v)
             /\ Cardinality(Under(v, a)) <= Cardinality(Upto(v, a))
             /\ \A b \in Int : a < b => Cardinality(Upto(v, a)) <= Cardinality(Under(v, b))
      BY <1>3, Counts
    <3>2. /\ Cardinality(Upto(v, T)) <= Cardinality(Under(v, x))
          /\ Cardinality(Upto(v, T)) \in Int /\ Cardinality(Under(v, x)) \in Int
      <4>1. T \in Int /\ x \in Int /\ T < x
        BY <1>4, <2>4, <2>5
      <4>2. /\ Cardinality(Upto(v, T)) \in 0..Len(v) /\ Cardinality(Under(v, x)) \in Nat
            /\ Cardinality(Upto(v, T)) <= Cardinality(Under(v, x))
        BY <3>1, <4>1
      <4> QED
        BY <4>2
    <3> QED
      BY <1>4, <1>6, <1>14, <2>1, <2>2, <3>2
  <2>6. x = T
    BY <2>4, <2>5
  <2> QED
    BY <2>6 DEF x
<1> QED
  BY <1>3, <1>15 DEF L, T

\* The intervals of one more stream add up to a period for each.
LEMMA IntervalsNext ==
    HIGH_LOSS_RATE <= 15 /\ TypeInv /\ MeanIntervalIsPeriod /\ [Next]_vars => MeanIntervalIsPeriod'
<1> SUFFICES ASSUME HIGH_LOSS_RATE <= 15, TypeInv, MeanIntervalIsPeriod, [Next]_vars,
                    (seen \subseteq Punctual)'
             PROVE  snd_time_interval' = num' * time_interval
  BY DEF MeanIntervalIsPeriod
<1>1. seen' \subseteq Punctual
  OBVIOUS
<1>2. seen \subseteq seen'
  BY DEF Next, ReceiveStream, TrendOfPiece, TrendOfBursts, FewBursts, EndOfStream, Classify,
         Aggregate, PortStream, vars, fleetVars
<1>3. /\ snd_time_interval = num * time_interval
      /\ num \in Nat /\ snd_time_interval \in Int /\ time_interval \in Nat
  BY <1>1, <1>2, MetricAssumption DEF MeanIntervalIsPeriod, TypeInv, TypeOK
<1>4. CASE UNCHANGED <<num, snd_time_interval>>
  BY <1>3, <1>4
<1>5. CASE ReceiveStream
  <2>1. PICK s \in Streams :
           /\ seen' = seen \cup {s}
           /\ \/ GiveUpLossy
              \/ ~LostAtLeast(s, HIGH_LOSS_RATE) /\ BeginPieces(s)
    BY <1>5 DEF ReceiveStream
  <2>2. CASE GiveUpLossy
    BY <1>4, <2>2 DEF GiveUpLossy
  <2>3. CASE ~LostAtLeast(s, HIGH_LOSS_RATE) /\ BeginPieces(s)
    <3> DEFINE v == SenderIntervals(s.snd)
    <3>1. num' = num + Len(v) /\ snd_time_interval' = snd_time_interval + Total(v)
      BY <2>3 DEF BeginPieces
    <3>2. s \in Punctual
      BY <1>1, <2>1
    <3>3. \A i \in 1..Len(v) : v[i] = time_interval
      BY <2>3, <3>2, PunctualIntervals
    <3>4. v \in Seq(Int)
      BY StampsType, IntervalsType
    <3> HIDE DEF v
    <3>5. time_interval \in Int
      BY <1>3
    <3>6. Total(v) = Len(v) * time_interval
      BY <3>3, <3>4, <3>5, TotalOfConstant
    <3>7. Len(v) \in Nat
      BY <3>4
    <3> DEFINE n == Len(v)
    <3>8. (num + n) * time_interval = num * time_interval + n * time_interval
      BY <1>3, <3>7
    <3> QED
      BY <1>3, <3>1, <3>6, <3>8
  <2> QED
    BY <2>1, <2>2, <2>3
<1>6. ~ReceiveStream => UNCHANGED <<num, snd_time_interval>>
  BY DEF Next, TrendOfPiece, TrendOfBursts, FewBursts, EndOfStream, Classify, Aggregate,
         PortStream, vars, fleetVars
<1> QED
  BY <1>4, <1>5, <1>6

\* The mean interval of a fleet, from which get_sending_rate computes the actual rate, is
\* the period of the packets: eliminate_sndr_side_CS sees no more pauses in a stream than
\* a tenth of its packets, and get_sndr_time_interval drops as many intervals at least,
\* the longest ones, whatever packets are lost, if too many make the stream useless.
THEOREM MeanIntervalCorrect ==
    ASSUME HIGH_LOSS_RATE <= 15
    PROVE  Spec => []MeanIntervalIsPeriod
<1>1. Init => MeanIntervalIsPeriod
  <2>1. 0 * time_interval = 0
    BY MetricAssumption
  <2> QED
    BY <2>1 DEF Init, MeanIntervalIsPeriod
<1>2. TrendInv /\ MeanIntervalIsPeriod /\ [Next]_vars => MeanIntervalIsPeriod'
  BY IntervalsNext DEF TrendInv
<1> QED
  BY <1>1, <1>2, TrendHolds, PTL DEF Spec

-----------------------------------------------------------------------------
(* The port's streams.                                                      *)

\* Both time stamps are of one clock, which does not go back: that of the simulator.
OneClock(s) == \A k \in Received(s) : 0 <= s.snd[k] /\ s.snd[k] < s.arrv[k]

\* If the delays rise and the stamps do not overflow within the stream, m_owd rises and
\* is positive, but for the lost packets.
LEMMA PortRises ==
    ASSUME NEW s \in Rising, NoOverflowWithin(s), OneClock(s)
    PROVE  LET x == m_owd(s.snd, s.arrv) IN
           /\ x \in Stamps
           /\ \A k \in Packets : IF k \in Received(s) THEN x[k] > 0 ELSE x[k] = 0
           /\ \A j, k \in Received(s) : j < k => x[j] < x[k]
<1> DEFINE x == m_owd(s.snd, s.arrv)
<1>1. s \in Streams
  BY DEF Rising
<1>2. /\ x \in Stamps
      /\ \A k \in Packets : x[k] = IF s.arrv[k] = 0 THEN 0 ELSE s.arrv[k] - Wrapped(s.snd[k])
  BY <1>1, PortDelays
<1> HIDE DEF x
<1>3. \A k \in Packets : s.snd[k] \in Int /\ s.arrv[k] \in Int
  BY <1>1, StampsType
<1>4. \A k \in Received(s) :
         k \in Packets /\ x[k] = s.arrv[k] - Wrapped(s.snd[k]) /\ Wrapped(s.snd[k]) \in Int
  BY <1>2, <1>3, WrappedType DEF Received
<1>5. \A k \in Received(s) : x[k] > 0
  <2> SUFFICES ASSUME NEW k \in Received(s)
               PROVE  x[k] > 0
    OBVIOUS
  <2>1. 0 <= s.snd[k] /\ s.snd[k] < s.arrv[k] /\ s.snd[k] \in Int /\ s.arrv[k] \in Int
    BY <1>3, <1>4 DEF OneClock
  <2>2. Wrapped(s.snd[k]) <= s.snd[k]
    BY <2>1, WrappedType
  <2> QED
    BY <1>4, <2>1, <2>2
<1>6. ASSUME NEW j \in Received(s), NEW k \in Received(s), j < k
      PROVE  x[j] < x[k]
  <2>1. j \in Packets /\ k \in Packets
    BY <1>4
  <2>2. s.arrv[j] - s.snd[j] < s.arrv[k] - s.snd[k]
    BY <1>6, <2>1 DEF Rising, Delays
  <2>3. s.snd[j] - Wrapped(s.snd[j]) = s.snd[k] - Wrapped(s.snd[k])
    BY DEF NoOverflowWithin
  <2> QED
    BY <1>3, <1>4, <2>1, <2>2, <2>3
<1>7. \A k \in Packets : k \notin Received(s) => x[k] = 0
  BY <1>2 DEF Received
<1> QED
  BY <1>2, <1>5, <1>6, <1>7 DEF x

\* The upper median of a group is the delay of a packet of it that was received.
LEMMA PortMedianReceived ==
    ASSUME NEW s \in Rising, NoOverflowWithin(s), OneClock(s), HalfOfGroupsKept(s),
           NEW g \in 1..IntSqrt(stream_len)
    PROVE  LET n == IntSqrt(stream_len)
               x == m_owd(s.snd, s.arrv)
           IN  \E k \in Received(s) : /\ (g-1) * n <= k /\ k < g * n /\ k \in Int
                                      /\ PortMedians(x)[g] = x[k]
<1> DEFINE n == IntSqrt(stream_len)
           x == m_owd(s.snd, s.arrv)
           At(j) == (g-1) * n + j - 1
           v == [j \in 1..n |-> x[At(j)]]
           half == n \div 2
           med == InOrder(v)[half + 1]
           lost == {k \in (g-1)*n..(g-1)*n+n-1 : s.arrv[k] = 0}
           Low == Upto(v, 0)
<1>1. /\ x \in Stamps
      /\ \A k \in Packets : IF k \in Received(s) THEN x[k] > 0 ELSE x[k] = 0
  BY PortRises
<1>2. /\ n \in Nat /\ n > 0 /\ half + 1 \in 1..n
      /\ v \in Seq(Int) /\ Len(v) = n
      /\ \A j \in 1..n : At(j) \in Packets
  <2> HIDE DEF x
  <2> QED
    BY <1>1, PortGroups
<1>3. PortMedians(x)[g] = med
  BY DEF PortMedians
<1>4. /\ \E j \in 1..n : med = v[j]
      /\ half + 1 <= Cardinality(Upto(v, med))
  <2> HIDE DEF v, n, half
  <2>1. \A i \in 1..Len(v) : /\ \E j \in 1..Len(v) : InOrder(v)[i] = v[j]
                             /\ i <= Cardinality(Upto(v, InOrder(v)[i]))
    BY <1>2, Ordered
  <2> QED
    BY <1>2, <2>1
<1>5. \A j \in 1..n : v[j] = x[At(j)] /\ v[j] \in Int
  <2>1. \A j \in 1..n : v[j] = x[At(j)]
    <3> HIDE DEF n, x, At
    <3> QED
      OBVIOUS
  <2> HIDE DEF v, n
  <2>2. \A j \in 1..n : v[j] \in Int
    BY <1>2
  <2> QED
    BY <2>1, <2>2
<1>6. (g-1) * n \in Int /\ g - 1 \in 0..n-1 /\ g \in Int /\ (g-1) * n + n = g * n
  BY <1>2
<1>7. \A j \in 1..n : At(j) \in (g-1)*n..(g-1)*n+n-1 /\ At(j) \in Int
  <2> DEFINE b == (g-1) * n
  <2>1. b \in Int
    BY <1>6
  <2> HIDE DEF b, n
  <2>2. \A j \in 1..n : b + j - 1 \in b..b+n-1 /\ b + j - 1 \in Int
    BY <1>2, <2>1
  <2> QED
    BY <2>2 DEF b
<1>8. \A i, j \in 1..n : At(i) = At(j) => i = j
  <2> DEFINE b == (g-1) * n
  <2>1. b \in Int
    BY <1>6
  <2> HIDE DEF b, n
  <2>2. \A i, j \in 1..n : b + i - 1 = b + j - 1 => i = j
    BY <1>2, <2>1
  <2> QED
    BY <2>2 DEF b
<1>9. 2 * Cardinality(lost) <= n
  <2> HIDE DEF n
  <2>1. \A i \in 0..n-1 : 2 * Cardinality({k \in i*n..i*n+n-1 : s.arrv[k] = 0}) <= n
    BY DEF HalfOfGroupsKept, n
  <2> QED
    BY <1>6, <2>1
<1>10. IsFiniteSet(lost) /\ Cardinality(lost) \in Nat
  <2> DEFINE a == (g-1)*n
             z == (g-1)*n+n-1
  <2>1. a \in Int /\ z \in Int
    BY <1>2, <1>6
  <2> HIDE DEF a, z
  <2>2. IsFiniteSet(a..z)
    BY <2>1, FS_Interval
  <2>3. lost \in SUBSET (a..z)
    BY DEF a, z
  <2> HIDE DEF lost
  <2> QED
    BY <2>2, <2>3, FS_Subset, FS_CardinalityType
<1> HIDE DEF n, x, v, half, med, lost, At
<1>11. \A j \in 1..n : v[j] <= 0 => At(j) \in lost
  <2> SUFFICES ASSUME NEW j \in 1..n, v[j] <= 0
               PROVE  At(j) \in lost
    OBVIOUS
  <2>1. At(j) \in Packets /\ ~(x[At(j)] > 0)
    BY <1>2, <1>5
  <2>2. At(j) \notin Received(s)
    BY <1>1, <2>1
  <2>3. s.arrv[At(j)] = 0
    BY <2>1, <2>2 DEF Received
  <2> QED
    BY <1>7, <2>3 DEF lost
<1>12. Cardinality(Low) \in Nat /\ Cardinality(Low) <= Cardinality(lost)
  <2> DEFINE f == [j \in Low |-> At(j)]
  <2>1. \A j \in Low : j \in 1..n /\ v[j] <= 0
    BY <1>2 DEF Upto
  <2> HIDE DEF Low
  <2>2. \A j \in Low : At(j) \in lost
    BY <1>11, <2>1
  <2>3. f \in Injection(Low, lost)
    BY <1>8, <2>1, <2>2 DEF Injection, IsInjective
  <2>4. IsFiniteSet(Low) /\ Cardinality(Low) <= Cardinality(lost)
    BY <1>10, <2>3, FS_Injection
  <2> QED
    BY <2>4, FS_CardinalityType
<1>13. PICK j \in 1..n : med = v[j]
  BY <1>4
<1>14. med > 0
  <2>1. med \in Int
    BY <1>5, <1>13
  <2>2. ~(med > 0) => med = 0
    <3>1. At(j) \in Packets /\ v[j] = x[At(j)]
      BY <1>2, <1>5
    <3>2. x[At(j)] > 0 \/ x[At(j)] = 0
      BY <1>1, <3>1
    <3> QED
      BY <1>13, <3>1, <3>2
  <2>3. med = 0 => half + 1 <= Cardinality(Low)
    BY <1>4
  <2>4. half \in Nat /\ n < 2 * (half + 1)
    BY <1>2 DEF half
  <2> HIDE DEF Low
  <2> QED
    BY <1>2, <1>9, <1>10, <1>12, <2>1, <2>2, <2>3, <2>4
<1>15. At(j) \in Received(s) /\ med = x[At(j)]
  BY <1>1, <1>2, <1>5, <1>13, <1>14
<1>16. (g-1) * n <= At(j) /\ At(j) < g * n /\ At(j) \in Int
  <2>1. At(j) \in (g-1)*n..(g-1)*n+n-1 /\ At(j) \in Int
    BY <1>7
  <2> DEFINE b == (g-1) * n
             c == g * n
  <2>2. b \in Int /\ b + n = c /\ c \in Int
    BY <1>2, <1>6
  <2> HIDE DEF b, c
  <2>3. At(j) \in b..b+n-1
    BY <2>1 DEF b
  <2>4. b <= At(j) /\ At(j) < c
    BY <1>2, <2>1, <2>2, <2>3
  <2> QED
    BY <2>1, <2>4 DEF b, c
<1> QED
  BY <1>3, <1>15, <1>16 DEF n, x

\* Nothing else would be a rise as clear: the metrics of such a stream.
LEMMA PortMetricsRise ==
    ASSUME NEW s \in Rising, NoOverflowWithin(s), OneClock(s), HalfOfGroupsKept(s),
           IntSqrt(stream_len) >= MIN_PARTITIONED_STREAM_LEN, IntSqrt(stream_len) >= 3
    PROVE  LET m == GetMetrics(m_owd(s.snd, s.arrv)) IN
           get_pct_trend(m.pct) = INCR /\ get_pdt_trend(m.pdt) = {INCR}
<1> DEFINE n == IntSqrt(stream_len)
           x == m_owd(s.snd, s.arrv)
           v == PortMedians(x)
<1>1. /\ x \in Stamps
      /\ \A j, k \in Received(s) : j < k => x[j] < x[k]
  BY PortRises
<1>2. v \in Seq(Int) /\ Len(v) = n /\ n \in Nat
  <2> HIDE DEF x
  <2> QED
    BY <1>1, PortGroups
<1>3. \A g \in 1..n : \E k \in Received(s) :
         (g-1) * n <= k /\ k < g * n /\ k \in Int /\ v[g] = x[k]
  BY PortMedianReceived
<1> HIDE DEF n, x, v
<1>4. ASSUME NEW g \in 1..Len(v)-1
      PROVE  v[g] < v[g+1]
  <2>1. g \in 1..n /\ g + 1 \in 1..n /\ (g + 1) - 1 = g
    BY <1>2
  <2>2. PICK j \in Received(s) : j < g * n /\ j \in Int /\ v[g] = x[j]
    BY <1>3, <2>1
  <2>3. PICK k \in Received(s) : ((g+1)-1) * n <= k /\ k \in Int /\ v[g+1] = x[k]
    BY <1>3, <2>1
  <2>4. g * n <= k /\ g * n \in Int
    BY <1>2, <2>1, <2>3
  <2>5. j < k
    BY <2>2, <2>3, <2>4
  <2> QED
    BY <1>1, <2>2, <2>3, <2>5
<1>5. Len(v) >= MIN_PARTITIONED_STREAM_LEN /\ Len(v) >= 3
  BY <1>2 DEF n
<1>6. /\ get_pct_trend(pairwise_comparision_test(v)) = INCR
      /\ get_pdt_trend(pairwise_diff_test(v)) = {INCR}
      /\ pairwise_diff_test(v)[2] # 0
  BY <1>2, <1>4, <1>5, RisingTests
<1>7. CASE TooLossy(x)
  <2> DEFINE one == <<1, 1>>
  <2>1. GetMetrics(x).pct = one /\ GetMetrics(x).pdt = one
    BY <1>7 DEF GetMetrics
  <2>2. one # DISCARDED_PCT /\ one # DISCARDED_PDT /\ one[1] = 1 /\ one[2] = 1
    BY DEF DISCARDED_PCT, DISCARDED_PDT
  <2> HIDE DEF one
  <2>3. Above(one, 605) /\ Above(one, 440) /\ one[2] # 0
    BY <2>2 DEF Above
  <2> QED
    BY <2>1, <2>2, <2>3 DEF get_pct_trend, get_pdt_trend, x
<1>8. CASE ~TooLossy(x)
  <2>1. /\ GetMetrics(x).pct = pairwise_comparision_test(v)
        /\ GetMetrics(x).pdt = PairwiseDifferenceTest(v)
    BY <1>8 DEF GetMetrics, v
  <2>2. PairwiseDifferenceTest(v) = pairwise_diff_test(v)
    BY <1>6 DEF PairwiseDifferenceTest
  <2> QED
    BY <1>6, <2>1, <2>2 DEF x
<1> QED
  BY <1>7, <1>8

\* The last metrics of the port are those of the stream that came last.
PortInv ==
    setup.program = "port" /\ stream_cnt > 0 =>
        LET m == GetMetrics(m_owd(stream.snd, stream.arrv)) IN
        Last(pct_metric) = m.pct /\ Last(pdt_metric) = m.pdt

\* A stream has come, or nothing has changed.
LEMMA PortNext == TypeInv /\ PortInv /\ [Next]_vars => PortInv'
<1> SUFFICES ASSUME TypeInv, PortInv, [Next]_vars, (setup.program = "port")'
             PROVE  PortInv'
  BY DEF PortInv
<1>1. setup' = setup
  BY DEF Next, ReceiveStream, TrendOfPiece, TrendOfBursts, FewBursts, EndOfStream, Classify,
         Aggregate, PortStream, vars
<1>2. phase # "pieces" /\ setup.program = "port"
  BY <1>1 DEF TypeInv
<1>3. ~(ReceiveStream \/ TrendOfPiece \/ TrendOfBursts \/ FewBursts)
  BY <1>2 DEF ReceiveStream, TrendOfPiece, TrendOfBursts, FewBursts, MorePieces
<1>4. CASE PortStream
  <2>1. PICK s \in Streams : LET m == GetMetrics(m_owd(s.snd, s.arrv)) IN
           /\ stream' = s
           /\ pct_metric' = Append(pct_metric, m.pct)
           /\ pdt_metric' = Append(pdt_metric, m.pdt)
    BY <1>4 DEF PortStream
  <2> DEFINE m == GetMetrics(m_owd(s.snd, s.arrv))
             p == m.pct
             d == m.pdt
  <2>2. p \in Quotients /\ d \in Quotients
    BY PortDelays, GetMetricsType
  <2>3. pct_metric \in Seq(Quotients) /\ pdt_metric \in Seq(Quotients)
    BY DEF TypeInv, TypeOK
  <2>4. pct_metric' = Append(pct_metric, p) /\ pdt_metric' = Append(pdt_metric, d)
    BY <2>1
  <2> HIDE DEF p, d
  <2>5. Last(pct_metric') = p /\ Last(pdt_metric') = d
    BY <2>2, <2>3, <2>4 DEF Last
  <2> QED
    BY <2>1, <2>5 DEF PortInv, p, d
<1>5. CASE EndOfStream \/ Classify \/ Aggregate \/ UNCHANGED vars
  <2>1. UNCHANGED <<setup, stream_cnt, stream, pct_metric, pdt_metric>>
    BY <1>5 DEF EndOfStream, Classify, Aggregate, vars, pieceVars, metricVars, fleetVars
  <2> QED
    BY <2>1 DEF PortInv
<1> QED
  BY <1>3, <1>4, <1>5 DEF Next

\* The port's metrics of a stream whose delays rise say so in both tests, though up to
\* half of the packets of a group are lost and count as delays of 0, and though the
\* 32-bit stamps have overflowed before the stream. It needs the simulator's one clock
\* (m_owd is positive) and three medians, of which there are as many as the tests need.
THEOREM PortRiseCorrect ==
    ASSUME IntSqrt(stream_len) >= MIN_PARTITIONED_STREAM_LEN, IntSqrt(stream_len) >= 3
    PROVE  Spec => [](OneClock(stream) => PortSeesRise)
<1>1. TypeInv /\ PortInv => (OneClock(stream) => PortSeesRise)
  <2> SUFFICES ASSUME TypeInv, PortInv, OneClock(stream), setup.program = "port",
                      stream_cnt > 0, stream \in Rising,
                      HalfOfGroupsKept(stream), NoOverflowWithin(stream)
               PROVE  /\ get_pct_trend(Last(pct_metric)) = INCR
                      /\ get_pdt_trend(Last(pdt_metric)) = {INCR}
    BY DEF PortSeesRise
  <2>1. LET m == GetMetrics(m_owd(stream.snd, stream.arrv)) IN
        /\ Last(pct_metric) = m.pct /\ Last(pdt_metric) = m.pdt
    BY DEF PortInv
  <2>2. LET m == GetMetrics(m_owd(stream.snd, stream.arrv)) IN
        get_pct_trend(m.pct) = INCR /\ get_pdt_trend(m.pdt) = {INCR}
    BY PortMetricsRise
  <2> QED
    BY <2>1, <2>2
<1>2. Init => PortInv
  BY DEF Init, PortInv
<1>3. Spec => []PortInv
  <2>1. TrendInv /\ PortInv /\ [Next]_vars => PortInv'
    BY PortNext DEF TrendInv
  <2> QED
    BY <1>2, <2>1, TrendHolds, PTL DEF Spec
<1>4. TrendInv => TypeInv
  BY DEF TrendInv
<1> QED
  BY <1>1, <1>3, <1>4, TrendHolds, PTL
=============================================================================
