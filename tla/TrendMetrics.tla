---------------------------- MODULE TrendMetrics ----------------------------
(***************************************************************************)
(* The arithmetic by which Pathload finds a trend in the one-way delays of *)
(* a packet stream: what the original receiver drops from a stream before  *)
(* it looks for a trend, medians, the two tests and their thresholds; and  *)
(* the ns-3 port's version of it, GetMetrics.                              *)
(*                                                                         *)
(* Times are whole microseconds, 0 being the stamp of a lost packet, and   *)
(* arrays start at 0 like the program's; sequences that are filled from    *)
(* an array start at 1. A quotient is the pair of its two numbers, <<0, 0>>*)
(* the double "not a number". The last digit of doubles is left out.       *)
(***************************************************************************)
EXTENDS Integers, Sequences, FiniteSets, SequencesExt

CONSTANTS
    stream_len,                     \* packets of a stream (100)
    time_interval,                  \* microseconds between them
    rcv_latency,                    \* microseconds recvfrom takes
    MIN_TIME_INTERVAL,              \* (7)
    MIN_PARTITIONED_STREAM_LEN,     \* values a test needs (5)
    HIGH_LOSS_RATE,                 \* per cent (15)
    StampRange                      \* values of the port's 32-bit time stamp (2^32)

ASSUME MetricAssumption ==
    /\ stream_len \in Nat /\ stream_len > 1 /\ time_interval \in Nat \ {0}
    /\ rcv_latency \in Nat /\ MIN_TIME_INTERVAL \in Nat
    /\ MIN_PARTITIONED_STREAM_LEN \in Nat \ {0} /\ HIGH_LOSS_RATE \in Nat
    /\ StampRange \in Nat \ {0}

Packets == 0..stream_len-1
Stamps  == [Packets -> Int]
Quotients == Int \X Int

Larger(a, b) == IF a > b THEN a ELSE b
Smaller(a, b) == IF a < b THEN a ELSE b
Magnitude(n) == IF n < 0 THEN -n ELSE n
Total(s) ==
    LET sum[n \in 0..Len(s)] == IF n = 0 THEN 0 ELSE sum[n-1] + s[n] IN sum[Len(s)]

\* floor(sqrt(n))
IntSqrt(n) == CHOOSE r \in 0..n : r * r <= n /\ n < (r + 1) * (r + 1)

\* values[k] for the k in S, in the order of the k.
ValuesAt(S, values) ==
    LET found[n \in 0..stream_len] ==      \* among the first n packets
            IF n = 0 THEN <<>>
            ELSE IF n - 1 \in S THEN Append(found[n-1], values[n-1]) ELSE found[n-1]
    IN  found[stream_len]
-----------------------------------------------------------------------------
(* Medians and tests.                                                       *)

\* order_dbl: the i-th value has fewer than i values below it, and i up to it.
InOrder(values) ==
    LET below(v) == Cardinality({j \in DOMAIN values : values[j] < v})
        upto(v)  == Cardinality({j \in DOMAIN values : values[j] <= v})
    IN  [i \in 1..Len(values) |-> CHOOSE v \in Range(values) : below(v) < i /\ i <= upto(v)]

\* Twice the median: the mean of the middle two when there are two.
MedianTwice(values) ==
    LET ordered == InOrder(values)  n == Len(values)
    IN  IF n % 2 = 0 THEN ordered[n \div 2] + ordered[n \div 2 + 1]
                     ELSE 2 * ordered[n \div 2 + 1]

\* get_trend takes the medians of groups of floor(sqrt(len)), the last may be
\* shorter.
GroupCount(len) == (len + IntSqrt(len) - 1) \div IntSqrt(len)
Medians(delays) ==
    LET per == IntSqrt(Len(delays)) IN
    [g \in 1..GroupCount(Len(delays)) |->
        MedianTwice(SubSeq(delays, (g-1) * per + 1, Smaller(g * per, Len(delays))))]

DISCARDED_PCT == <<-1, 1>>
DISCARDED_PDT == <<2, 1>>

pairwise_comparision_testOrEqual(values) ==         \* mutant of pairwise_comparision_test
    IF Len(values) >= MIN_PARTITIONED_STREAM_LEN
    THEN <<Cardinality({i \in 1..Len(values)-1 : values[i] <= values[i+1]}), Len(values)>>
    ELSE DISCARDED_PCT

\* The share of values that are less than the next; of n values, not of n-1 pairs.
pairwise_comparision_test(values) ==
    IF Len(values) >= MIN_PARTITIONED_STREAM_LEN
    THEN <<Cardinality({i \in 1..Len(values)-1 : values[i] < values[i+1]}), Len(values)>>
    ELSE DISCARDED_PCT

Steps(values) == [i \in 1..Len(values)-1 |-> values[i+1] - values[i]]

\* How much of all the ups and downs is left in the end.
pairwise_diff_test(values) ==
    IF Len(values) >= MIN_PARTITIONED_STREAM_LEN
    THEN <<Total(Steps(values)),
           Total([i \in DOMAIN Steps(values) |-> Magnitude(Steps(values)[i])])>>
    ELSE DISCARDED_PDT

\* Quotients against thresholds, in thousandths.
Above(m, t) == m[2] # 0 /\ m[1] * 1000 > t * m[2]
Below(m, t) == m[2] # 0 /\ m[1] * 1000 < t * m[2]

INCR == "INCR"
NOTR == "NOTR"
DISCARD == "DISCARD"
UNCL == "UNCL"

\* 0.55 and 10 per cent more or less.
get_pct_trend(m) ==
    IF m = DISCARDED_PCT THEN DISCARD
    ELSE IF Above(m, 605) THEN INCR
    ELSE IF Below(m, 495) THEN NOTR ELSE UNCL

\* 0.4 and 10 per cent more or less. No comparison holds of "not a number", which
\* leaves pdt_trend as it was: uninitialised.
get_pdt_trend(m) ==
    IF m[2] = 0 THEN {INCR, NOTR, DISCARD, UNCL}
    ELSE IF m = DISCARDED_PDT THEN {DISCARD}
    ELSE IF Above(m, 440) THEN {INCR}
    ELSE IF Below(m, 360) THEN {NOTR} ELSE {UNCL}

\* What aggregate_trend_result makes of a stream's two trends.
StreamClass(pct_trend, pdt_trend) ==
    LET both == {pct_trend, pdt_trend} IN
    IF DISCARD \in both THEN "d"
    ELSE IF both \in {{INCR}, {INCR, UNCL}} THEN "I"
    ELSE IF both \in {{NOTR}, {NOTR, UNCL}} THEN "N" ELSE "U"

\* What one stream may count as, and the trend of a fleet whose streams count so.
Classes(pct, pdt) == {StreamClass(get_pct_trend(pct), t) : t \in get_pdt_trend(pdt)}

AggregateTrendOfAll(classes, num_stream, excused) ==            \* mutant of AggregateTrend
    LET count(c) == Cardinality({i \in DOMAIN classes : classes[i] = c}) IN
    IF Len(classes) - count("d") < num_stream \div 2 /\ ~excused THEN "UNUSABLE"
    ELSE IF count("I") * 10 >= num_stream * 6 THEN "INCREASING"
    ELSE IF count("N") * 10 >= num_stream * 6 THEN "NOTREND" ELSE "GREY"

AggregateTrend(classes, num_stream, excused) ==
    LET count(c) == Cardinality({i \in DOMAIN classes : classes[i] = c})
        total    == Len(classes) - count("d")
    IN  IF total < num_stream \div 2 /\ ~excused THEN "UNUSABLE"
        ELSE IF total > 0 /\ count("I") * 10 >= total * 6 THEN "INCREASING"
        ELSE IF total > 0 /\ count("N") * 10 >= total * 6 THEN "NOTREND" ELSE "GREY"
-----------------------------------------------------------------------------
(* What the original receiver drops from a stream. snd and arrv are the time *)
(* stamps.                                                                   *)

\* Both ends of the gap behind packet k have stamps.
GapKnown(stamps, k) == stamps[k] # 0 /\ stamps[k+1] # 0
Gap(stamps, k) == stamps[k+1] - stamps[k]

\* eliminate_sndr_side_CS: the last packets before the sender was off its processor.
SenderCuts(snd) ==
    LET cs_threshold == Larger(2 * time_interval, time_interval + 1000)
    IN  {k \in 0..stream_len-2 : GapKnown(snd, k) /\ Gap(snd, k) > cs_threshold}

\* adjust_offset_to_zero: the least delay is subtracted from all but the lost ones.
LeastDelay(owd) ==
    LET measured == {owd[k] : k \in Packets} \ {0}
    IN  IF measured = {} THEN 0 ELSE CHOOSE d \in measured : \A e \in measured : d <= e
adjust_offset_to_zero(owd) ==
    LET least == LeastDelay(owd)
    IN  [k \in Packets |-> IF owd[k] # 0 THEN owd[k] - least ELSE 0]

\* Behind the last packet the code reads arrv_tm[stream_len], which nobody has set:
\* tail tells whether that looks like a long gap.
GapBehind(arrv, k, tail) ==
    IF k = stream_len - 1 THEN arrv[k] # 0 /\ tail ELSE GapKnown(arrv, k)

\* eliminate_rcvr_side_CS: the packets from low to high that were not read back to back.
\* 1.5 and 2.5 times the latency, cut off to whole microseconds.
NotBackToBack(arrv, low, high, tail) ==
    LET min_gap == IF 2 * MIN_TIME_INTERVAL > 3 * rcv_latency
                   THEN MIN_TIME_INTERVAL ELSE (5 * rcv_latency) \div 2
    IN  {k \in low..high : /\ GapBehind(arrv, k, tail)
                           /\ k < stream_len - 1 => Gap(arrv, k) > min_gap}

CoalescedGap == Larger(MIN_TIME_INTERVAL, 3 * rcv_latency)

\* eliminate_b2b_pkt_ic: the delays of the last packets of bursts of four and more.
LastOfBursts(arrv, owd, low, high, tail) ==
    LET step(acc, k) ==
            IF ~GapBehind(arrv, k, tail) THEN acc
            ELSE IF k < stream_len - 1 /\ Gap(arrv, k) < CoalescedGap
                 THEN [acc EXCEPT !.tmp = @ + 1]
            ELSE IF acc.tmp >= 3 THEN [tmp |-> 0, kept |-> Append(acc.kept, owd[k])]
            ELSE acc
        behind[n \in 0..high-low+1] ==     \* the first n packets of the piece
            IF n = 0 THEN [tmp |-> 0, kept |-> <<>>]
            ELSE step(behind[n-1], low + n - 1)
    IN  behind[high-low+1].kept

\* check_intr_coalescence(arrv, len, &burst): whether more than 60 per cent of the
\* packets came back to back, and how many bursts a gap has ended.
check_intr_coalescence(arrv, len) ==
    LET step(acc, i) ==
            IF arrv[i] - arrv[i-1] <= CoalescedGap
            THEN [acc EXCEPT !.b2b = @ + 1, !.tmp = @ + 1]
            ELSE IF acc.tmp >= 3 THEN [acc EXCEPT !.tmp = 0, !.burst = @ + 1]
            ELSE acc
        behind[i \in Packets] ==        \* packets 2 to i
            IF i < 2 THEN [b2b |-> 0, tmp |-> 0, burst |-> 0] ELSE step(behind[i-1], i)
        end == behind[Larger(0, len-1)]
    IN  [ic |-> end.b2b * 10 > 6 * len, bursts |-> end.burst]

SenderIntervalsAll(snd) ==                                      \* mutant of SenderIntervals
    LET known == {k \in 0..stream_len-2 : GapKnown(snd, k)}
    IN  InOrder(ValuesAt(known, [k \in known |-> Gap(snd, k)]))

\* get_sndr_time_interval: the intervals between stamps but for the longest 15 per
\* cent, rint rounding halves to the even number.
RoundEven(a, b) ==
    LET q == a \div b  r == a % b
    IN  IF 2 * r > b \/ (2 * r = b /\ q % 2 = 1) THEN q + 1 ELSE q
SenderIntervals(snd) ==
    LET known   == {k \in 0..stream_len-2 : GapKnown(snd, k)}
        ordered == InOrder(ValuesAt(known, [k \in known |-> Gap(snd, k)]))
    IN  SubSeq(ordered, 1, Len(ordered) - RoundEven(15 * Len(ordered), 100))
-----------------------------------------------------------------------------
(* The port.                                                                *)

\* m_owd as HandleRecvfrom leaves it: the sender's stamp has 32 bits, and a lost
\* packet has the delay 0.
Wrapped(t) == ((t + StampRange \div 2) % StampRange) - StampRange \div 2
m_owd(snd, arrv) == [k \in Packets |-> IF arrv[k] = 0 THEN 0 ELSE arrv[k] - Wrapped(snd[k])]

PortMediansLower(owd) ==                                        \* mutant of PortMedians
    LET n == IntSqrt(stream_len) IN
    [g \in 1..n |-> InOrder([j \in 1..n |-> owd[(g-1) * n + j - 1]])[n \div 2]]
PortMedians(owd) ==
    LET n == IntSqrt(stream_len) IN
    [g \in 1..n |-> InOrder([j \in 1..n |-> owd[(g-1) * n + j - 1]])[n \div 2 + 1]]

PairwiseDifferenceTest(values) ==
    LET m == pairwise_diff_test(values) IN IF m[2] = 0 THEN <<0, 1>> ELSE m

\* GetMetrics: m_pct and m_pdt of a stream. With too many losses both are 1.
TooLossy(owd) ==
    Cardinality({k \in Packets : owd[k] = 0}) * 100 >= stream_len * HIGH_LOSS_RATE
GetMetrics(owd) ==
    IF TooLossy(owd) THEN [pct |-> <<1, 1>>, pdt |-> <<1, 1>>]
    ELSE [pct |-> pairwise_comparision_test(PortMedians(owd)),
          pdt |-> PairwiseDifferenceTest(PortMedians(owd))]
=============================================================================
