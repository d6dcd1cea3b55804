---------------------------- MODULE StreamTrend ----------------------------
(***************************************************************************)
(* How recv_fleet of the original receiver comes to the metrics of a fleet,*)
(* stream by stream and, where the sender was off its processor, piece by  *)
(* piece, what aggregate_trend_result makes of them, and how the ns-3 port *)
(* comes to the metrics of its streams.                                    *)
(***************************************************************************)
EXTENDS TrendMetrics

CONSTANTS
    Situations,         \* what is fixed before a fleet, see SituationType
    Streams,            \* the streams that may come: time stamps of both sides
    num_stream,         \* streams of a fleet (12)
    MEDIUM_LOSS_RATE,   \* per cent lost that make a stream lossy (3)
    MAX_LOSSY_STREAM_FRACTION,  \* per cent lossy that abort a fleet (50)
    MIN_STREAM_LEN,     \* delays above which a piece is looked at (36)
    TREND_ARRAY_LEN     \* room for metrics (50)

\* The program; whether the ADR trains showed interrupt coalescence; whether a
\* stream takes half a second; what earlier fleets left.
SituationType ==
    [program : {"original", "port"}, interrupt_coalescence : BOOLEAN, slow : BOOLEAN,
     repeat_1 : 0..2, repeat_2 : 0..2, increase_stream_len : BOOLEAN]

LostPackets(arrv) == Cardinality({k \in Packets : arrv[k] = 0})

ASSUME StreamAssumption ==
    /\ Situations \subseteq SituationType
    /\ Streams \subseteq [snd : Stamps, arrv : Stamps]
    /\ \A s \in Streams : \A k \in Packets : s.arrv[k] = 0 <=> s.snd[k] = 0
ASSUME SizeAssumption ==
    /\ num_stream \in Nat \ {0}
    /\ MEDIUM_LOSS_RATE \in Nat /\ MAX_LOSSY_STREAM_FRACTION \in Nat
    /\ MIN_STREAM_LEN \in Nat /\ TREND_ARRAY_LEN \in Nat
    /\ \A len \in MIN_STREAM_LEN+1..stream_len :
          GroupCount(len) >= MIN_PARTITIONED_STREAM_LEN
    /\ num_stream * (stream_len \div (MIN_STREAM_LEN + 1)) <= TREND_ARRAY_LEN

VARIABLES
    setup,
    phase,              \* "receive", "pieces", "aggregate", "aborted", "over"
    stream_cnt, lossy_stream,
    stream, owd,        \* the stream that is looked at, its delays
    tail,               \* what is found behind its last packet, see GapBehind
    cuts,               \* substream[]: where its pieces end
    low,                \* where the next piece begins
    ic, num_bursts,     \* check_intr_coalescence of the stream
    pct_metric, pdt_metric,     \* their length is trend_idx
    num, snd_time_interval,
    repeat_1, repeat_2, lower_bound, increase_stream_len,
    classes,            \* what the metrics count as so far: "I", "N", "U", "d"
    trend,              \* of the fleet
    seen                \* history: the streams of this fleet

metricVars == <<pct_metric, pdt_metric>>
burstVars  == <<repeat_1, repeat_2, lower_bound, increase_stream_len>>
pieceVars  == <<stream, owd, tail, ic, num_bursts>>
fleetVars  == <<stream_cnt, lossy_stream, num, snd_time_interval, seen>>
vars == <<setup, phase, pieceVars, cuts, low, metricVars, fleetVars, burstVars,
          classes, trend>>

Nothing  == [k \in Packets |-> 0]
NoStream == [snd |-> Nothing, arrv |-> Nothing]

Init ==
    /\ setup \in Situations
    /\ phase = "receive" /\ stream_cnt = 0 /\ lossy_stream = 0
    /\ stream = NoStream /\ owd = Nothing /\ tail = FALSE /\ cuts = {} /\ low = 0
    /\ ic = FALSE /\ num_bursts = 0
    /\ pct_metric = <<>> /\ pdt_metric = <<>>
    /\ num = 0 /\ snd_time_interval = 0
    /\ repeat_1 = setup.repeat_1 /\ repeat_2 = setup.repeat_2
    /\ lower_bound = FALSE /\ increase_stream_len = setup.increase_stream_len
    /\ classes = <<>> /\ trend = "NONE" /\ seen = {}
-----------------------------------------------------------------------------
Delays(s) == [k \in Packets |-> s.arrv[k] - s.snd[k]]
LostAtLeast(s, rate) == LostPackets(s.arrv) * 100 >= rate * stream_len

\* The intervals of a stream are added up, and it is cut where the sender paused; its
\* last packet ends the last piece.
BeginPieces(s) ==
    /\ \E intervals \in {SenderIntervals(s.snd)} :
         /\ num' = num + Len(intervals)
         /\ snd_time_interval' = snd_time_interval + Total(intervals)
    /\ owd' = adjust_offset_to_zero(Delays(s))
    /\ cuts' = SenderCuts(s.snd) \cup {stream_len - 1} /\ low' = 0
    /\ tail' \in BOOLEAN
    /\ phase' = "pieces"
    /\ UNCHANGED <<lower_bound, increase_stream_len>>

\* A lossy fleet is given up. If the stream had been made longer, for a lower bound.
GiveUpLossy ==
    /\ phase' = "aborted"
    /\ lower_bound' = (lower_bound \/ increase_stream_len) /\ increase_stream_len' = FALSE
    /\ UNCHANGED <<num, snd_time_interval, owd, cuts, low, tail>>

\* A stream has come.
ReceiveStream ==
    /\ setup.program = "original"
    /\ phase = "receive" /\ stream_cnt < num_stream
    /\ stream_cnt' = stream_cnt + 1
    /\ \E s \in Streams :
         LET burst == check_intr_coalescence(s.arrv, stream_len - LostPackets(s.arrv)) IN
         /\ stream' = s /\ seen' = seen \cup {s}
         /\ num_bursts' = IF setup.interrupt_coalescence THEN burst.bursts ELSE 0
         /\ ic' = IF setup.interrupt_coalescence THEN burst.ic ELSE ic
         /\ lossy_stream' = IF LostAtLeast(s, MEDIUM_LOSS_RATE) /\ ~LostAtLeast(s, HIGH_LOSS_RATE)
                            THEN lossy_stream + 1 ELSE lossy_stream
         /\ IF \/ LostAtLeast(s, HIGH_LOSS_RATE)
               \/ /\ stream_cnt' >= num_stream
                  /\ lossy_stream' * 100 >= MAX_LOSSY_STREAM_FRACTION * stream_cnt'
            THEN GiveUpLossy
            ELSE BeginPieces(s)
    /\ UNCHANGED <<setup, metricVars, repeat_1, repeat_2, classes, trend>>

\* The piece that is looked at ends at the first cut.
MorePieces == phase = "pieces" /\ cuts # {}
High       == CHOOSE k \in cuts : \A j \in cuts : k <= j
NextPieceLowKept == cuts' = cuts \ {High} /\ UNCHANGED low        \* mutant of NextPiece
NextPiece  == low' = High + 1 /\ cuts' = cuts \ {High}

Note(values) ==
    /\ pct_metric' = Append(pct_metric, pairwise_comparision_test(values))
    /\ pdt_metric' = Append(pdt_metric, pairwise_diff_test(values))

TrendOfPieceAnyLength ==                                        \* mutant of TrendOfPiece
    /\ MorePieces /\ ~ic
    /\ \E kept \in {NotBackToBack(stream.arrv, low, High, tail)} :
         \E owdfortd \in {ValuesAt(kept, owd)} : Note(Medians(owdfortd))
    /\ NextPiece
    /\ UNCHANGED <<setup, phase, pieceVars, fleetVars, burstVars, classes, trend>>

\* The usual case: medians of the delays that were not received back to back, if
\* there are enough of them.
TrendOfPiece ==
    /\ MorePieces /\ ~ic
    /\ \E kept \in {NotBackToBack(stream.arrv, low, High, tail)} :
         IF Cardinality(kept) > MIN_STREAM_LEN
         THEN \E owdfortd \in {ValuesAt(kept, owd)} : Note(Medians(owdfortd))
         ELSE UNCHANGED metricVars
    /\ NextPiece
    /\ UNCHANGED <<setup, phase, pieceVars, fleetVars, burstVars, classes, trend>>

\* A coalescing interface: with many bursts their last packets are compared.
TrendOfBursts ==
    /\ MorePieces /\ ic /\ num_bursts > 5
    /\ increase_stream_len' = FALSE
    /\ Note(LastOfBursts(stream.arrv, owd, low, High, tail))
    /\ NextPiece
    /\ UNCHANGED <<setup, phase, pieceVars, fleetVars, repeat_1, repeat_2, lower_bound,
                   classes, trend>>

FewBurstsNoReset ==                                             \* mutant of FewBursts
    /\ MorePieces /\ ic /\ num_bursts < 2
    /\ repeat_1' = repeat_1 + 1 /\ UNCHANGED <<repeat_2, increase_stream_len>>
    /\ IF repeat_1 = 2 THEN phase' = "aborted" /\ lower_bound' = TRUE
                       ELSE UNCHANGED <<phase, lower_bound>>
    /\ NextPiece
    /\ UNCHANGED <<setup, pieceVars, metricVars, fleetVars, classes, trend>>

\* With few bursts the third piece in all gives up the fleet, for a lower bound of
\* the bandwidth or for a longer stream.
FewBursts ==
    /\ MorePieces /\ ic /\ num_bursts <= 5
    /\ IF num_bursts < 2
       THEN /\ repeat_1' = (repeat_1 + 1) % 3 /\ UNCHANGED repeat_2
            /\ IF repeat_1 = 2
               THEN phase' = "aborted" /\ lower_bound' = TRUE /\ increase_stream_len' = FALSE
               ELSE UNCHANGED <<phase, lower_bound, increase_stream_len>>
       ELSE /\ repeat_2' = (repeat_2 + 1) % 3 /\ UNCHANGED <<repeat_1, lower_bound>>
            /\ IF repeat_2 = 2
               THEN phase' = "aborted" /\ increase_stream_len' = TRUE
               ELSE UNCHANGED <<phase, increase_stream_len>>
    /\ NextPiece
    /\ UNCHANGED <<setup, pieceVars, metricVars, fleetVars, classes, trend>>

\* All pieces are done: the next stream, none after the first one on a slow link.
EndOfStream ==
    /\ phase = "pieces" /\ cuts = {}
    /\ phase' = IF setup.slow \/ stream_cnt = num_stream THEN "aggregate" ELSE "receive"
    /\ UNCHANGED <<setup, pieceVars, cuts, low, metricVars, fleetVars, burstVars,
                   classes, trend>>

\* aggregate_trend_result looks at one metric after the other. A pdt_trend that was
\* not set counts as what is there.
Classify ==
    /\ phase = "aggregate" /\ Len(classes) < Len(pct_metric)
    /\ \E class \in Classes(pct_metric[Len(classes) + 1], pdt_metric[Len(classes) + 1]) :
         classes' = Append(classes, class)
    /\ UNCHANGED <<setup, phase, pieceVars, cuts, low, metricVars, fleetVars, burstVars,
                   trend>>

Aggregate ==
    /\ phase = "aggregate" /\ Len(classes) = Len(pct_metric)
    /\ trend' = AggregateTrend(classes, num_stream,
                               setup.slow \/ setup.interrupt_coalescence)
    /\ phase' = "over"
    /\ UNCHANGED <<setup, pieceVars, cuts, low, metricVars, fleetVars, burstVars, classes>>

\* The port: metrics of the stream, and medians of the metrics after the last one.
PortStream ==
    /\ setup.program = "port"
    /\ phase = "receive" /\ stream_cnt < num_stream
    /\ \E s \in Streams :
       \E metrics \in {GetMetrics(m_owd(s.snd, s.arrv))} :
         /\ stream' = s /\ seen' = seen \cup {s}
         /\ pct_metric' = Append(pct_metric, metrics.pct)
         /\ pdt_metric' = Append(pdt_metric, metrics.pdt)
    /\ stream_cnt' = stream_cnt + 1
    /\ phase' = IF stream_cnt' = num_stream THEN "over" ELSE "receive"
    /\ UNCHANGED <<setup, lossy_stream, owd, tail, cuts, low, ic, num_bursts, num,
                   snd_time_interval, burstVars, classes, trend>>

Next ==
    \/ ReceiveStream \/ TrendOfPiece \/ TrendOfBursts \/ FewBursts
    \/ EndOfStream \/ Classify \/ Aggregate \/ PortStream

Spec == Init /\ [][Next]_vars
-----------------------------------------------------------------------------
(* Properties.                                                              *)

\* Every variable has its type.
TypeOK ==
    /\ setup \in Situations
    /\ phase \in {"receive", "pieces", "aggregate", "aborted", "over"}
    /\ stream_cnt \in 0..num_stream /\ lossy_stream \in 0..stream_cnt
    /\ stream \in Streams \cup {NoStream} /\ owd \in Stamps /\ tail \in BOOLEAN
    /\ cuts \subseteq Packets /\ low \in 0..stream_len
    /\ ic \in BOOLEAN /\ num_bursts \in Nat
    /\ pct_metric \in Seq(Quotients) /\ pdt_metric \in Seq(Quotients)
    /\ num \in Nat /\ snd_time_interval \in Int
    /\ repeat_1 \in 0..2 /\ repeat_2 \in 0..2
    /\ lower_bound \in BOOLEAN /\ increase_stream_len \in BOOLEAN
    /\ classes \in Seq({"I", "N", "U", "d"})
    /\ trend \in {"NONE", "UNUSABLE", "INCREASING", "NOTREND", "GREY"}
    /\ seen \subseteq Streams

\* A stream may be cut into any number of pieces, and each may add a metric; but the
\* pieces that are long enough never outgrow pct_metric[TREND_ARRAY_LEN].
TrendArrayFits ==
    setup.program = "original" /\ ~setup.interrupt_coalescence =>
        Len(pct_metric) <= TREND_ARRAY_LEN

\* Without coalescence every piece that gets a metric has medians enough for both
\* tests: the values that stand for "discarded" never enter the metrics.
TestsApply ==
    ~setup.interrupt_coalescence =>
        \A i \in DOMAIN pct_metric :
            pct_metric[i] # DISCARDED_PCT /\ pdt_metric[i] # DISCARDED_PDT

Received(s) == {k \in Packets : s.arrv[k] # 0}
Steady ==
    {s \in Streams : \A j, k \in Received(s) : j < k => Delays(s)[k] <= Delays(s)[j]}
Rising ==
    {s \in Streams : \A j, k \in Received(s) : j < k => Delays(s)[j] < Delays(s)[k]}

\* A path whose delays do not rise is never taken for a loaded one, whatever is
\* lost, cut off, coalesced, or found in an uninitialised trend.
SteadyNotIncreasing == seen \subseteq Steady => trend # "INCREASING"

\* A fleet whose delays all rise shows that, if it can be used at all.
RisingIsIncreasing ==
    phase = "over" /\ setup.program = "original" /\ ~setup.interrupt_coalescence
    /\ seen \subseteq Rising /\ pct_metric # <<>> => trend \in {"INCREASING", "UNUSABLE"}

\* The mean interval that makes the actual rate is that of the packets the sender
\* sent in time: the gaps of its pauses are among the 15 per cent that are dropped.
Punctual ==
    {s \in Streams :
        /\ Cardinality(SenderCuts(s.snd)) * 10 <= stream_len
        /\ \A k \in 0..stream_len-2 : GapKnown(s.snd, k) =>
              Gap(s.snd, k) = time_interval \/ k \in SenderCuts(s.snd)}
MeanIntervalIsPeriod == seen \subseteq Punctual => snd_time_interval = num * time_interval

\* The port's metrics of a stream whose delays rise say so as clearly as they can, if
\* at most half of the packets of each group of the medians are lost. That the stamps
\* overflow before the stream does no harm, only within it.
HalfOfGroupsKept(s) ==
    LET n == IntSqrt(stream_len) IN
    \A g \in 0..n-1 : 2 * Cardinality({k \in g*n..g*n+n-1 : s.arrv[k] = 0}) <= n
NoOverflowWithin(s) ==
    \A j, k \in Received(s) : s.snd[j] - Wrapped(s.snd[j]) = s.snd[k] - Wrapped(s.snd[k])
PortSeesRise ==
    setup.program = "port" /\ stream_cnt > 0 /\ stream \in Rising
    /\ HalfOfGroupsKept(stream) /\ NoOverflowWithin(stream) =>
        /\ get_pct_trend(Last(pct_metric)) = INCR
        /\ get_pdt_trend(Last(pdt_metric)) = {INCR}
=============================================================================
