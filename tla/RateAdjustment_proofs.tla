------------------------ MODULE RateAdjustment_proofs ------------------------
(* The rate search, for every host, path and option: every setup, every     *)
(* number and length of streams.                                            *)
EXTENDS RateAdjustment, TLAPS

-----------------------------------------------------------------------------
(* Numbers: what rounding and dividing do to a product.                     *)

\* What a quotient and a remainder are.
LEMMA Division ==
    ASSUME NEW a \in Nat, NEW b \in Nat \ {0}
    PROVE  /\ a \div b \in Nat /\ a % b \in 0..b-1
           /\ b * (a \div b) \in Nat /\ a = b * (a \div b) + (a % b)
OBVIOUS

\* Products of naturals grow with a factor.
LEMMA ProductGrows ==
    ASSUME NEW c \in Nat, NEW a \in Nat, NEW b \in Nat, a <= b
    PROVE  c * a \in Nat /\ c * b \in Nat /\ c * a <= c * b
OBVIOUS

\* One more of a factor is one more of the other.
LEMMA ProductStep ==
    ASSUME NEW c \in Nat, NEW a \in Nat
    PROVE  c * (a + 1) = c * a + c
OBVIOUS

\* rint is within a half of the quotient.
LEMMA RintWithin ==
    ASSUME NEW a \in Nat, NEW b \in Nat \ {0}
    PROVE  /\ Rint(a, b) \in Nat
           /\ 2 * a <= 2 * (b * Rint(a, b)) + b
           /\ 2 * (b * Rint(a, b)) <= 2 * a + b
<1> DEFINE q == a \div b
           r == a % b
<1>1. q \in Nat /\ r \in 0..b-1 /\ a = b * q + r /\ b * q \in Nat
    BY Division
<1>2. b * (q + 1) = b * q + b
    BY <1>1, ProductStep
<1>3. Rint(a, b) = IF 2 * r > b \/ (2 * r = b /\ q % 2 = 1) THEN q + 1 ELSE q
    BY DEF Rint
<1> HIDE DEF q, r
<1>4. CASE Rint(a, b) = q + 1 /\ 2 * r >= b
    BY <1>1, <1>2, <1>4
<1>5. CASE Rint(a, b) = q /\ 2 * r <= b
    BY <1>1, <1>5
<1> QED
    BY <1>1, <1>3, <1>4, <1>5

\* The maximum of two numbers is one of them.
LEMMA MaxOfTwo ==
    ASSUME NEW a \in Int, NEW b \in Int
    PROVE  Max({a, b}) = IF a < b THEN b ELSE a
<1>1. \E x \in {a, b} : \A y \in {a, b} : x >= y
    OBVIOUS
<1>2. Max({a, b}) \in {a, b} /\ \A y \in {a, b} : Max({a, b}) >= y
    BY <1>1 DEF Max
<1> QED
    BY <1>2

\* A rate is the quotient cut to whole kbit/s, but 1 at least.
LEMMA RateWithin ==
    ASSUME NEW n \in Nat \ {0}, NEW t \in Nat \ {0}
    PROVE  /\ Rate(n, t) \in 1..8000 * n
           /\ 8000 * n < t * Rate(n, t) + t
           /\ t * Rate(n, t) <= 8000 * n \/ (Rate(n, t) = 1 /\ 8000 * n < t)
<1> DEFINE a == 8000 * n
           q == a \div t
<1>0. a \in Nat
    OBVIOUS
<1> HIDE DEF a
<1>1. q \in Nat /\ a % t \in 0..t-1 /\ t * q \in Nat /\ a = t * q + (a % t)
    BY <1>0, Division
<1>2. Rate(n, t) = IF q = 0 THEN 1 ELSE q
    BY DEF Rate, a
<1> HIDE DEF q
<1> USE DEF a
<1>3. CASE q = 0
    BY <1>1, <1>2, <1>3
<1>4. CASE q # 0
  <2>1. q \in Nat /\ t * q \in Nat /\ t * q <= 8000 * n /\ Rate(n, t) = q
      BY <1>1, <1>2, <1>4
  <2>2. 1 * q <= t * q
      BY <1>1, ProductGrows
  <2> QED
      BY <1>1, <1>4, <2>1, <2>2
<1> QED
    BY <1>3, <1>4
\* Hence it is a positive number, at most that of one packet every microsecond.
LEMMA RateType ==
    ASSUME NEW n \in Nat \ {0}, NEW t \in Nat \ {0}
    PROVE  Rate(n, t) \in Nat \ {0} /\ Rate(n, t) <= 8000 * n
<1>1. Rate(n, t) \in 1..8000 * n
    BY RateWithin
<1> QED
    BY <1>1

\* The size that a rate needs is within half a byte.
LEMMA WireSizeWithin ==
    ASSUME NEW r \in Nat, NEW t \in Nat
    PROVE  /\ WireSize(r, t) \in Nat
           /\ 2 * (r * t) <= 16000 * WireSize(r, t) + 8000
           /\ 16000 * WireSize(r, t) <= 2 * (r * t) + 8000
<1> DEFINE b == 8000
           a == r * t
<1>1. b \in Nat \ {0} /\ a \in Nat
    OBVIOUS
<1>2. WireSize(r, t) = Rint(a, b)
    BY DEF WireSize
<1> HIDE DEF a, b
<1>3. /\ Rint(a, b) \in Nat
      /\ 2 * a <= 2 * (b * Rint(a, b)) + b
      /\ 2 * (b * Rint(a, b)) <= 2 * a + b
    BY <1>1, RintWithin
<1>4. b = 8000
    BY DEF b
<1>5. /\ WireSize(r, t) \in Nat
      /\ 2 * a <= 16000 * WireSize(r, t) + 8000
      /\ 16000 * WireSize(r, t) <= 2 * a + 8000
    BY <1>1, <1>2, <1>3, <1>4
<1> QED
    BY <1>5 DEF a

-----------------------------------------------------------------------------
(* Types. No rate exceeds that of a packet of full size every microsecond.  *)

Fastest == 8000 * MaxSize
Ranges  == [{"tr_min", "tr_max", "grey_min", "grey_max"} -> 0..Fastest]
Flags   == {"gmx_rmx", "gmn_rmn", "rmn_rmx"}

\* A grey region without a lower end has no trend below it.
\* Else radj_increasing would halve that end, 0.
EndsKnown(q) == q.grey_max # 0 /\ q.grey_min = 0 => q.tr_min # 0

\* What keeps the types: rates within the fastest, and in a fleet a packet that
\* can be sent, at intervals that never are 0, neither is their mean; and limits that
\* are reached only at the end.
Measures ==
    /\ tr <= Fastest
    /\ range \in Ranges /\ EndsKnown(range)
    /\ phase = "fleet" => time_interval # 0 /\ cur_pkt_sz <= setup.max_pkt_sz
    /\ num <= interval_sum
    /\ phase \in {"calc", "fleet"} =>
          max_rate_flag <= 1 /\ retry_fleet_cnt_cs <= NumRetryCS

TInv == TypeOK /\ Measures

\* The fixed values of a search.
LEMMA SetupFacts ==
    ASSUME TypeOK
    PROVE  /\ setup \in SetupType /\ setup.max_pkt_sz \in Nat
           /\ setup.min_time_interval \in Nat \ {0} /\ setup.late \subseteq Nat
           /\ setup.adr \in Nat /\ setup.w \in Nat /\ setup.faults \in Nat
           /\ setup.lo \in Nat /\ setup.hi \in Nat /\ setup.lo <= setup.hi
           /\ MaxSize \in Nat /\ MaxSize >= MinSize /\ MinSize = 228
           /\ Fastest \in Nat /\ Fastest >= 1824000
<1>1. setup \in SetupType /\ setup.max_pkt_sz >= MinPktSz /\ setup.lo <= setup.hi
    BY SetupAssumption DEF TypeOK
<1>2. /\ setup.max_pkt_sz \in Nat /\ setup.min_time_interval \in Nat \ {0}
      /\ setup.late \subseteq Nat
      /\ setup.adr \in Nat /\ setup.w \in Nat /\ setup.faults \in Nat
      /\ setup.lo \in Nat /\ setup.hi \in Nat
    BY <1>1 DEF SetupType
<1> QED
    BY <1>1, <1>2 DEF MaxSize, MinSize, MinPktSz, Header, Fastest

\* max_rate is a rate of packets of full size.
LEMMA MaxRateType == ASSUME TypeOK PROVE max_rate \in 1..Fastest
<1>1. MaxSize \in Nat \ {0} /\ setup.min_time_interval \in Nat \ {0}
    BY SetupFacts
<1>2. max_rate = Rate(MaxSize, setup.min_time_interval)
    BY DEF max_rate, MaxSize
<1>3. Rate(MaxSize, setup.min_time_interval) \in Nat \ {0}
    BY <1>1, RateType
<1>4. Rate(MaxSize, setup.min_time_interval) <= 8000 * MaxSize
    BY <1>1, RateType
<1> QED
    BY <1>2, <1>3, <1>4, SetupFacts DEF Fastest

\* Means of known rates are rates.
LEMMA Means ==
    ASSUME TypeOK, NEW q \in Ranges
    PROVE  /\ Middle(q) \in 1..Fastest /\ BelowGrey(q) \in 1..Fastest
           /\ q.tr_max # 0 \/ q.grey_max # 0 => AboveGrey(q) \in 1..Fastest
<1>1. /\ q.tr_min \in 0..Fastest /\ q.tr_max \in 0..Fastest
      /\ q.grey_min \in 0..Fastest /\ q.grey_max \in 0..Fastest
    BY DEF Ranges
<1>2. ASSUME NEW a \in 0..Fastest, NEW b \in 0..Fastest
      PROVE  /\ Half(a + b) \in 0..Fastest
             /\ a # 0 \/ b # 0 => Half(a + b) # 0
             /\ Max({MinRate, Half(a + b)}) \in 1..Fastest
  <2>1. Half(a + b) \in 0..Fastest /\ (a # 0 \/ b # 0 => Half(a + b) # 0)
      BY SetupFacts DEF Half
  <2> QED
      BY <2>1, MaxOfTwo, SetupFacts DEF MinRate
<1>3. Middle(q) \in 1..Fastest
    BY <1>1, <1>2 DEF Middle
<1>4. BelowGrey(q) \in 1..Fastest
    BY <1>1, <1>2 DEF BelowGrey
<1>5. q.tr_max # 0 \/ q.grey_max # 0 => AboveGrey(q) \in 1..Fastest
  <2>1. /\ Half(q.tr_max + q.grey_max) \in 0..Fastest
        /\ q.tr_max # 0 \/ q.grey_max # 0 => Half(q.tr_max + q.grey_max) # 0
      BY <1>1, <1>2
  <2> QED
      BY <2>1, SetupFacts DEF AboveGrey
<1> QED
    BY <1>3, <1>4, <1>5

IsDecision(d) ==
    /\ d.do \in {"go", "stop", "hang"} /\ d.rate \in 1..Fastest
    /\ d.flags \subseteq Flags /\ d.exp \in BOOLEAN

\* Each of the three ways to decide is a decision.
LEMMA Decides ==
    ASSUME NEW r \in 1..Fastest, NEW f \in SUBSET Flags, NEW e \in BOOLEAN
    PROVE  IsDecision(Go(r, f, e)) /\ IsDecision(Stop(r, f, e)) /\ IsDecision(Hang(r))
BY DEF IsDecision, Go, Stop, Hang, Flags

\* radj_notrend goes on with a rate or calls itself for ever.
LEMMA NotrendDecides ==
    ASSUME TypeOK, NEW q \in Ranges, NEW e \in BOOLEAN, NEW r \in 1..Fastest,
           NEW f \in SUBSET Flags
    PROVE  IsDecision(radj_notrend_searching(q, r, f)) /\ IsDecision(radj_notrend(q, e, r))
<1>1. ASSUME NEW g \in SUBSET Flags PROVE IsDecision(radj_notrend_searching(q, r, g))
  <2>1. g \cup {"gmn_rmn"} \in SUBSET Flags /\ FALSE \in BOOLEAN
      BY DEF Flags
  <2>2. /\ IsDecision(Go(Middle(q), g, FALSE)) /\ IsDecision(Go(BelowGrey(q), g, FALSE))
        /\ IsDecision(Go(Middle(q), g \cup {"gmn_rmn"}, FALSE)) /\ IsDecision(Hang(r))
        /\ GreyOnTop(q) => IsDecision(Go(AboveGrey(q), g \cup {"gmn_rmn"}, FALSE))
      BY <2>1, Means, Decides DEF GreyOnTop
  <2> QED
      BY <2>2 DEF radj_notrend_searching
<1>2. Least(2 * r, max_rate) \in 1..Fastest /\ TRUE \in BOOLEAN /\ {} \in SUBSET Flags
    BY MaxRateType, SetupFacts DEF Least
<1>3. IsDecision(Go(Least(2 * r, max_rate), {}, TRUE))
    BY <1>2, Decides
<1> QED
    BY <1>1, <1>2, <1>3 DEF radj_notrend

\* radj_increasing never halves an end of 0.
LEMMA IncreasingDecides ==
    ASSUME TypeOK, NEW q \in Ranges, EndsKnown(q), NEW e \in BOOLEAN, NEW r \in 1..Fastest
    PROVE  IsDecision(radj_increasing(q, e, r))
<1>1. {} \in SUBSET Flags /\ {"gmx_rmx"} \in SUBSET Flags
    BY DEF Flags
<1>2. /\ IsDecision(Go(Middle(q), {}, e))
      /\ GreyOnTop(q) => IsDecision(Go(AboveGrey(q), {}, e))
    BY <1>1, Means, Decides DEF GreyOnTop
<1>3. IsDecision(radj_notrend_searching(q, r, {"gmx_rmx"}))
    BY <1>1, NotrendDecides
<1>4. GreyOnTop(q) => q.grey_min # 0 \/ q.tr_min # 0
    BY DEF GreyOnTop, EndsKnown
<1> QED
    BY <1>2, <1>3, <1>4 DEF radj_increasing

\* Both functions for a grey trend decide, too.
LEMMA GreyDecides ==
    ASSUME TypeOK, NEW q \in Ranges, NEW e \in BOOLEAN, NEW r \in 1..Fastest
    PROVE  IsDecision(radj_greymax(q, e, r)) /\ IsDecision(radj_greymin(q, e, r))
<1>1. {} \in SUBSET Flags /\ {"gmx_rmx"} \in SUBSET Flags /\ {"gmn_rmn"} \in SUBSET Flags
    BY DEF Flags
<1>2. Least(r + r \div 2, max_rate) \in 1..Fastest
    BY MaxRateType, SetupFacts DEF Least
<1>3. ASSUME NEW f \in SUBSET Flags
      PROVE  /\ IsDecision(Go(BelowGrey(q), f, e)) /\ IsDecision(Hang(r))
             /\ IsDecision(Go(Least(r + r \div 2, max_rate), f, e))
             /\ q.tr_max # 0 => IsDecision(Go(AboveGrey(q), f, e))
    BY <1>2, Means, Decides
<1> QED
    BY <1>1, <1>3 DEF radj_greymax, radj_greymin
-----------------------------------------------------------------------------
(* What rate_adjustment notes and decides.                                  *)

\* The range that an increasing trend leaves.
LEMMA NotedIncreasing ==
    ASSUME Fastest \in Nat, NEW q \in Ranges, NEW r \in 0..Fastest
    PROVE  LET n == Noted(q, "INCREASING", r)
           IN  /\ n \in Ranges /\ n.tr_min = q.tr_min /\ n.tr_max = r
               /\ n.grey_max = IF q.grey_max >= r THEN 0 ELSE q.grey_max
               /\ n.grey_min = IF q.grey_max >= r THEN 0 ELSE q.grey_min
<1> DEFINE b == IF q.grey_max >= r THEN 0 ELSE q.grey_max
           c == IF q.grey_max >= r THEN 0 ELSE q.grey_min
<1>1. Noted(q, "INCREASING", r) = [q EXCEPT !.tr_max = r, !.grey_max = b, !.grey_min = c]
    BY DEF Noted
<1>2. b \in 0..Fastest /\ c \in 0..Fastest
    BY DEF Ranges
<1> HIDE DEF b, c
<1>3. LET n == Noted(q, "INCREASING", r)
      IN  n \in Ranges /\ n.tr_min = q.tr_min /\ n.tr_max = r /\ n.grey_max = b /\ n.grey_min = c
    BY <1>1, <1>2 DEF Ranges
<1> QED
    BY <1>3 DEF b, c

\* The range that no trend leaves.
LEMMA NotedNotrend ==
    ASSUME Fastest \in Nat, NEW q \in Ranges, NEW r \in 0..Fastest
    PROVE  LET n == Noted(q, "NOTREND", r)
           IN  /\ n \in Ranges /\ n.tr_min = (IF r > q.tr_min THEN r ELSE q.tr_min)
               /\ n.tr_max = q.tr_max
               /\ n.grey_max = IF q.grey_max < r THEN 0 ELSE q.grey_max
               /\ n.grey_min = IF q.grey_min < r \/ q.grey_max < r THEN 0 ELSE q.grey_min
<1> DEFINE a == IF r > q.tr_min THEN r ELSE q.tr_min
           b == IF q.grey_max < r THEN 0 ELSE q.grey_max
           c == IF q.grey_min < r \/ q.grey_max < r THEN 0 ELSE q.grey_min
<1>1. Noted(q, "NOTREND", r) = [q EXCEPT !.tr_min = a, !.grey_max = b, !.grey_min = c]
    BY DEF Noted
<1>2. a \in 0..Fastest /\ b \in 0..Fastest /\ c \in 0..Fastest
    BY DEF Ranges
<1> HIDE DEF a, b, c
<1>3. LET n == Noted(q, "NOTREND", r)
      IN  n \in Ranges /\ n.tr_min = a /\ n.tr_max = q.tr_max /\ n.grey_max = b /\ n.grey_min = c
    BY <1>1, <1>2 DEF Ranges
<1> QED
    BY <1>3 DEF a, b, c

\* The range that a grey trend leaves.
LEMMA NotedGreyTrend ==
    ASSUME Fastest \in Nat, NEW q \in Ranges, NEW r \in 0..Fastest
    PROVE  LET n == Noted(q, "GREY", r)
               first == q.grey_max = 0 /\ q.grey_min = 0
           IN  /\ n \in Ranges /\ n.tr_min = q.tr_min /\ n.tr_max = q.tr_max
               /\ n.grey_max = IF first \/ r >= q.grey_max THEN r ELSE q.grey_max
               /\ n.grey_min = IF first \/ (r < q.grey_max /\ ~Inside(q, r))
                               THEN r ELSE q.grey_min
<1>1. CASE q.grey_max = 0 /\ q.grey_min = 0
  <2>1. Noted(q, "GREY", r) = [q EXCEPT !.grey_max = r, !.grey_min = r]
      BY <1>1 DEF Noted, NotedGrey, FirstGrey
  <2> QED
      BY <1>1, <2>1 DEF Ranges
<1>2. CASE ~(q.grey_max = 0 /\ q.grey_min = 0) /\ r >= q.grey_max
  <2>1. Noted(q, "GREY", r) = [q EXCEPT !.grey_max = r]
      BY <1>2 DEF Noted, NotedGrey
  <2> QED
      BY <1>2, <2>1 DEF Ranges
<1>3. CASE ~(q.grey_max = 0 /\ q.grey_min = 0) /\ ~(r >= q.grey_max) /\ Inside(q, r)
  <2>1. Noted(q, "GREY", r) = q
      BY <1>3 DEF Noted, NotedGrey
  <2> QED
      BY <1>3, <2>1 DEF Ranges
<1>4. CASE ~(q.grey_max = 0 /\ q.grey_min = 0) /\ ~(r >= q.grey_max) /\ ~Inside(q, r)
  <2>1. Noted(q, "GREY", r) = [q EXCEPT !.grey_min = r]
      BY <1>4 DEF Noted, NotedGrey
  <2> QED
      BY <1>4, <2>1 DEF Ranges
<1> QED
    BY <1>1, <1>2, <1>3, <1>4

\* Whatever is noted, the range stays one, and its ends known.
LEMMA NotedType ==
    ASSUME Fastest \in Nat, NEW q \in Ranges, EndsKnown(q), NEW r \in 1..Fastest,
           NEW trend \in Trends
    PROVE  Noted(q, trend, r) \in Ranges /\ EndsKnown(Noted(q, trend, r))
<1>0. r \in 0..Fastest /\ q.tr_min \in 0..Fastest /\ q.grey_max \in 0..Fastest
    BY DEF Ranges
<1>1. CASE trend = "INCREASING"
    BY <1>0, <1>1, NotedIncreasing DEF EndsKnown
<1>2. CASE trend = "NOTREND"
  <2>1. LET n == Noted(q, "NOTREND", r)
        IN  n \in Ranges /\ n.tr_min = (IF r > q.tr_min THEN r ELSE q.tr_min)
      BY <1>0, NotedNotrend
  <2> QED
      BY <1>0, <1>2, <2>1 DEF EndsKnown
<1>3. CASE trend = "GREY"
  <2> DEFINE n == Noted(q, "GREY", r)
  <2>1. /\ n \in Ranges /\ n.tr_min = q.tr_min
        /\ n.grey_min = r \/ n.grey_min = q.grey_min
        /\ n.grey_min = r \/ q.grey_max # 0 \/ q.grey_min # 0
      BY <1>0, NotedGreyTrend
  <2> QED
      BY <1>0, <1>3, <2>1 DEF EndsKnown
<1> QED
    BY <1>1, <1>2, <1>3 DEF Trends

\* A decision follows every trend.
LEMMA DecisionType ==
    ASSUME TypeOK, range \in Ranges, EndsKnown(range), NEW trend \in Trends,
           NEW t \in SUBSET Flags, NEW e \in BOOLEAN, NEW r \in 1..Fastest
    PROVE  IsDecision(Decision(trend, t, e, r))
<1> DEFINE q == Noted(range, trend, r)
<1>1. q \in Ranges /\ EndsKnown(q)
    BY NotedType, SetupFacts
<1>2. FlagsOfConverged(q, t) \in SUBSET Flags /\ {} \in SUBSET Flags /\ FALSE \in BOOLEAN
    BY DEF FlagsOfConverged, Flags
<1>3. ASSUME NEW f \in SUBSET Flags, NEW x \in BOOLEAN
      PROVE  IsDecision(Go(r, f, x)) /\ IsDecision(Stop(r, f, x))
    BY Decides
<1>4. ASSUME NEW x \in BOOLEAN
      PROVE  /\ IsDecision(radj_notrend(q, x, r)) /\ IsDecision(radj_increasing(q, x, r))
             /\ IsDecision(radj_greymax(q, x, r)) /\ IsDecision(radj_greymin(q, x, r))
    BY <1>1, <1>2, NotrendDecides, IncreasingDecides, GreyDecides
<1> HIDE DEF q
<1>5. IsDecision(AfterIncreasing(q, t, e, r))
    BY <1>2, <1>3, <1>4 DEF AfterIncreasing
<1>6. IsDecision(AfterNotrend(q, t, e, r))
    BY <1>2, <1>3, <1>4 DEF AfterNotrend
<1>7. IsDecision(AfterGrey(q, t, e, r))
  <2> DEFINE x == e /\ ~(r = q.grey_max /\ "gmx_rmx" \in t)
  <2>1. x \in BOOLEAN
      OBVIOUS
  <2> HIDE DEF x
  <2>2. /\ IsDecision(Stop(r, FlagsOfConverged(q, t), x))
        /\ IsDecision(radj_greymin(q, x, r)) /\ IsDecision(radj_greymax(q, x, r))
        /\ IsDecision(radj_notrend(q, FALSE, r))
      BY <2>1, <1>2, <1>3, <1>4
  <2> QED
      BY <2>2 DEF AfterGrey, x
<1> QED
    BY <1>2, <1>3, <1>5, <1>6, <1>7 DEF Decision, q, Trends
\* After a fleet of any rate the search has a range, a rate and a decision, and goes
\* on only while max_rate was not reached twice.
LEMMA AdjustmentType ==
    ASSUME TInv, phase = "fleet", setup' = setup, NEW trend \in Trends,
           NEW t \in SUBSET Flags, NEW r \in 1..Fastest, rate_adjustment(trend, t, r)
    PROVE  /\ phase' \in {"calc", "done", "hung"}
           /\ range' \in Ranges /\ EndsKnown(range') /\ tr' \in 1..Fastest
           /\ exp_flag' \in BOOLEAN /\ prev_trend' \in {"none", "INCREASING", "NOTREND"}
           /\ max_rate_flag' \in 0..2 /\ (phase' = "calc" => max_rate_flag' <= 1)
           /\ close' \subseteq Flags
<1> DEFINE turned == trend # "GREY" /\ prev_trend # "none" /\ prev_trend # trend
           d      == Decision(trend, t, exp_flag /\ ~turned, r)
           n      == IF trend = "INCREASING" THEN 0 ELSE max_rate_flag
<1>1. TypeOK /\ range \in Ranges /\ EndsKnown(range) /\ Fastest \in Nat
    BY SetupFacts DEF TInv, Measures
<1>2. IsDecision(d)
    BY <1>1, DecisionType
<1>3. range' \in Ranges /\ EndsKnown(range')
  <2>1. range' = Noted(range, trend, r)
      BY DEF rate_adjustment
  <2> QED
      BY <1>1, <2>1, NotedType
<1>4. n \in 0..1
  <2>1. max_rate_flag \in 0..2 /\ max_rate_flag <= 1
      BY DEF TInv, TypeOK, Measures
  <2> QED
      BY <2>1
<1> HIDE DEF d, n
<1>5. /\ exp_flag' = d.exp /\ close' = close \cup d.flags /\ tr' = d.rate
      /\ prev_trend' = IF trend = "GREY" THEN prev_trend ELSE trend
    BY DEF rate_adjustment, d
<1>6. /\ max_rate_flag' = IF d.do = "go" /\ d.rate >= max_rate THEN n + 1 ELSE n
      /\ phase' = CASE d.do = "hang" -> "hung"
                    [] d.do = "stop" -> "done"
                    [] d.do = "go" ->
                         IF AtMaxRateAgain(max_rate_flag') THEN "done" ELSE "calc"
    BY DEF rate_adjustment, d, n
<1>7. max_rate_flag' \in 0..2
    BY <1>4, <1>6
<1>8. /\ phase' \in {"calc", "done", "hung"}
      /\ phase' = "calc" => max_rate_flag' <= 1
  <2>1. d.do \in {"go", "stop", "hang"}
      BY <1>2 DEF IsDecision
  <2>2. AtMaxRateAgain(max_rate_flag') \/ max_rate_flag' <= 1
      BY <1>7 DEF AtMaxRateAgain
  <2> QED
      BY <1>6, <2>1, <2>2
<1>9. /\ exp_flag' \in BOOLEAN /\ tr' \in 1..Fastest /\ close' \subseteq Flags
      /\ prev_trend' \in {"none", "INCREASING", "NOTREND"}
    BY <1>2, <1>5 DEF IsDecision, TInv, TypeOK, Flags, Trends
<1> QED
    BY <1>3, <1>7, <1>8, <1>9

\* The rest of the state while the search decides or calculates.
Rest ==
    /\ exp_flag \in BOOLEAN /\ prev_trend \in {"none", "INCREASING", "NOTREND"}
    /\ close \subseteq Flags /\ tm \subseteq Flags
    /\ bad_fleet_cs \in BOOLEAN /\ slow \in BOOLEAN /\ increase_stream_len \in BOOLEAN
    /\ lower_bound \in BOOLEAN /\ exact \in BOOLEAN

Counts ==
    /\ max_rate_flag \in 0..2 /\ interval_sum \in Nat /\ num \in Nat /\ faults \in Nat
    /\ retry_fleet_cnt_cs \in 0..NumRetryCS+1 /\ num <= interval_sum
    /\ phase \in {"calc", "fleet"} =>
          max_rate_flag <= 1 /\ retry_fleet_cnt_cs <= NumRetryCS

Params ==
    /\ cur_pkt_sz \in Nat /\ time_interval \in Nat
    /\ phase = "fleet" => time_interval # 0 /\ cur_pkt_sz <= setup.max_pkt_sz

\* TInv in parts that a step leaves alone or changes as a whole.
LEMMA Parts ==
    ASSUME setup \in Setups => MaxSize \in Nat
    PROVE  TInv <=> /\ phase \in {"calc", "fleet", "done", "hung"} /\ setup \in Setups
                    /\ tr \in 1..Fastest /\ range \in Ranges /\ EndsKnown(range)
                    /\ Rest /\ Counts /\ Params
<1>1. setup \in Setups => Fastest \in Nat
    BY DEF Fastest
<1>2. setup \in Setups /\ range \in Ranges =>
         range \in [{"tr_min", "tr_max", "grey_min", "grey_max"} -> Nat]
    BY <1>1 DEF Ranges
<1> QED
    BY <1>1, <1>2 DEF TInv, TypeOK, Measures, Rest, Counts, Params, Flags
\* And in the next state.
LEMMA PartsNext ==
    ASSUME TypeOK, setup' = setup, phase' \in {"calc", "fleet", "done", "hung"},
           tr' \in 1..Fastest, range' \in Ranges, EndsKnown(range'), Rest', Counts', Params'
    PROVE  TInv'
<1>1. MaxSize \in Nat /\ Fastest \in Nat /\ setup \in Setups
    BY SetupFacts DEF TypeOK
<1>2. MaxSize' = MaxSize
    BY DEF MaxSize
<1>3. Fastest' = Fastest
    BY <1>2 DEF Fastest
<1>4. range' \in [{"tr_min", "tr_max", "grey_min", "grey_max"} -> Nat] /\ range' \in Ranges'
    BY <1>1, <1>3 DEF Ranges
<1>5. TypeOK'
    BY <1>1, <1>4 DEF TypeOK, Rest, Counts, Params, Flags
<1>6. Measures'
    BY <1>3, <1>4 DEF Measures, Counts, Params
<1> QED
    BY <1>5, <1>6 DEF TInv

\* A quotient of 1 or more is not rounded to 0.
LEMMA RintPositive ==
    ASSUME NEW a \in Nat, NEW b \in Nat \ {0}, a >= b
    PROVE  Rint(a, b) \in Nat \ {0}
<1>1. Rint(a, b) \in Nat /\ 2 * a <= 2 * (b * Rint(a, b)) + b
    BY RintWithin
<1>2. CASE Rint(a, b) = 0
    BY <1>1, <1>2
<1> QED
    BY <1>1, <1>2

\* The time between packets of full size is not 0.
LEMMA IntervalPositive ==
    ASSUME NEW n \in Nat, NEW r \in 1..8000 * n
    PROVE  Interval(n, r) \in Nat \ {0}
BY RintPositive DEF Interval

\* A fleet with a size and an interval that can be sent keeps the types.
LEMMA FleetKeepsType ==
    ASSUME TInv, NEW size \in Nat, size >= Header, size <= MaxSize, NEW t \in Nat,
           NEW r \in 1..Fastest,
           (t # 0 /\ phase = "calc" /\ Fleet(size, t, r)) \/ AtLimit(size, t, r)
    PROVE  TInv'
<1>1. /\ TypeOK /\ range \in Ranges /\ EndsKnown(range) /\ Rest /\ Counts
      /\ MaxSize \in Nat
    BY Parts, SetupFacts DEF TInv
<1>2. /\ phase' \in {"fleet", "done"} /\ setup' = setup /\ tr' = r
      /\ cur_pkt_sz' = size - 28 /\ time_interval' = t
      /\ UNCHANGED search /\ UNCHANGED fleets
      /\ phase' = "fleet" => t # 0 /\ phase = "calc"
    BY DEF Fleet, AtLimit, Payload, Header
<1>3. range' = range /\ Rest'
    BY <1>1, <1>2 DEF Rest, search, fleets
<1>4. Counts'
    BY <1>1, <1>2 DEF Counts, search, fleets
<1>5. Params'
  <2>1. cur_pkt_sz' \in Nat /\ cur_pkt_sz' <= setup.max_pkt_sz
      BY <1>1, <1>2, SetupFacts DEF MaxSize, Header
  <2> QED
      BY <1>2, <2>1 DEF Params
<1> QED
    BY <1>1, <1>2, <1>3, <1>4, <1>5, PartsNext

\* Up to 150 Mbit/s the size follows from the rate, or the interval.
LEMMA CalcSlowType == ASSUME TInv, CalcSlow PROVE TInv'
<1> DEFINE size == WireSize(tr, SlowInterval)
<1>1. /\ TypeOK /\ tr \in 1..Fastest /\ tr < 150000 /\ phase = "calc"
      /\ MaxSize \in Nat \ {0} /\ MaxSize >= 228 /\ MinSize = 228 /\ Header = 28
      /\ setup.min_time_interval \in Nat \ {0} /\ Fastest \in Nat /\ Fastest >= 1824000
    BY SetupFacts DEF TInv, TypeOK, Measures, CalcSlow, Header
<1>2. SlowInterval \in Nat \ {0}
    BY <1>1, MaxOfTwo DEF SlowInterval
<1>3. size \in Nat
  <2>1. tr \in Nat /\ SlowInterval \in Nat
      BY <1>1, <1>2
  <2> QED
      BY <2>1, WireSizeWithin
<1> HIDE DEF size
<1>4. CASE size < MinSize
  <2> DEFINE t == Interval(MinSize, tr)
  <2>1. Fleet(MinSize, t, Rate(MinSize, t))
      BY <1>1, <1>3, <1>4 DEF CalcSlow, size
  <2>2. t \in Nat \ {0}
      BY <1>1, IntervalPositive
  <2> HIDE DEF t
  <2>3. MinSize \in Nat \ {0} /\ 8000 * MinSize <= Fastest
      BY <1>1
  <2>4. Rate(MinSize, t) \in Nat \ {0}
      BY <2>2, <2>3, RateType
  <2>5. Rate(MinSize, t) <= 8000 * MinSize
      BY <2>2, <2>3, RateType
  <2>6. Rate(MinSize, t) \in 1..Fastest
      BY <1>1, <2>3, <2>4, <2>5
  <2> QED
      BY <1>1, <2>1, <2>2, <2>6, FleetKeepsType
<1>5. CASE size \in MinSize..MaxSize
  <2>1. Fleet(size, SlowInterval, tr)
      BY <1>1, <1>3, <1>5 DEF CalcSlow, size
  <2> QED
      BY <1>1, <1>2, <1>3, <1>5, <2>1, FleetKeepsType
<1>6. CASE size > MaxSize
  <2> DEFINE t == setup.min_time_interval
  <2>1. Fleet(MaxSize, t, max_rate) \/ AtLimit(MaxSize, t, tr)
      BY <1>1, <1>3, <1>6 DEF CalcSlow, size
  <2>2. max_rate \in 1..Fastest
      BY <1>1, MaxRateType
  <2> HIDE DEF t
  <2>3. t \in Nat \ {0}
      BY <1>1 DEF t
  <2> QED
      BY <1>1, <2>1, <2>2, <2>3, FleetKeepsType
<1> QED
    BY <1>1, <1>3, <1>4, <1>5, <1>6
\* Between 150 and 600 Mbit/s: the interval is 3 microseconds or more, the size is
\* within 38 bytes of the full one, and one microsecond less still leaves a size that
\* can be sent.
LEMMA MediumParameters ==
    ASSUME NEW m \in Nat, m >= 228, NEW rate \in Nat, rate >= 150000, rate < 600000
    PROVE  LET t    == Interval(m, rate)
               size == Least(WireSize(rate, t), m)
               r    == Rate(size, t)
           IN  /\ t \in Nat /\ t >= 3
               /\ size \in Nat /\ size >= m - 38 /\ size <= m
               /\ r \in Nat \ {0} /\ t * r <= 8000 * size /\ 8000 * size < t * r + t
               /\ WireSize(r, t-1) \in Nat /\ WireSize(r, t-1) <= m
               /\ WireSize(r, t-1) >= 28
               /\ Max({u \in 1..t-1 : WireSize(r, u) <= m}) = t - 1
<1> DEFINE t    == Interval(m, rate)
           s    == WireSize(rate, t)
           size == Least(s, m)
           r    == Rate(size, t)
           x    == WireSize(r, t-1)
<1>1. t \in Nat /\ 16000 * m <= 2 * (rate * t) + rate /\ 2 * (rate * t) <= 16000 * m + rate
  <2>1. 8000 * m \in Nat /\ rate \in Nat \ {0}
      OBVIOUS
  <2>2. /\ Rint(8000 * m, rate) \in Nat
        /\ 2 * (8000 * m) <= 2 * (rate * Rint(8000 * m, rate)) + rate
        /\ 2 * (rate * Rint(8000 * m, rate)) <= 2 * (8000 * m) + rate
      BY <2>1, RintWithin
  <2> QED
      BY <2>2 DEF Interval
<1> HIDE DEF t
<1>2. t >= 3
  <2>1. CASE t = 0
      BY <1>1, <2>1
  <2>2. CASE t = 1
      BY <1>1, <2>2
  <2>3. CASE t = 2
      BY <1>1, <2>3
  <2> QED
      BY <1>1, <2>1, <2>2, <2>3
<1>3. rate * t \in Nat /\ 150000 * t <= rate * t
    BY <1>1
<1>4. s \in Nat /\ 2 * (rate * t) <= 16000 * s + 8000
  <2>1. rate \in Nat
      OBVIOUS
  <2> QED
      BY <1>1, <2>1, WireSizeWithin
<1> HIDE DEF s
<1>5. size \in Nat /\ size >= m - 38 /\ size <= m
  <2>1. s >= m - 38
      BY <1>1, <1>3, <1>4
  <2> QED
      BY <1>4, <2>1 DEF Least
<1> HIDE DEF size
<1>6. t < 8000 * size
    BY <1>1, <1>3, <1>5
<1>7. r \in Nat \ {0} /\ 8000 * size < t * r + t /\ t * r <= 8000 * size
  <2>1. size \in Nat \ {0} /\ t \in Nat \ {0}
      BY <1>1, <1>2, <1>5
  <2>2. r \in Nat \ {0}
      BY <2>1, RateType
  <2>3. /\ 8000 * size < t * r + t
        /\ t * r <= 8000 * size \/ (r = 1 /\ 8000 * size < t)
      BY <2>1, RateWithin
  <2> QED
      BY <1>1, <1>5, <1>6, <2>2, <2>3
<1> HIDE DEF r
<1>8. t * r \in Nat /\ t * r = r * (t-1) + r /\ 3 * r <= t * r /\ r * (t-1) \in Nat
  <2>1. t * r \in Nat /\ t * r = r * (t-1) + r /\ r * (t-1) \in Nat
      BY <1>1, <1>2, <1>7
  <2>2. 3 * r <= t * r
      BY <1>1, <1>2, <1>7
  <2> QED
      BY <2>1, <2>2
<1>9. x \in Nat /\ 2 * (r * (t-1)) <= 16000 * x + 8000 /\ 16000 * x <= 2 * (r * (t-1)) + 8000
  <2> DEFINE u == t - 1
  <2>1. r \in Nat /\ u \in Nat
      BY <1>1, <1>2, <1>7
  <2> HIDE DEF u
  <2>2. /\ WireSize(r, u) \in Nat
        /\ 2 * (r * u) <= 16000 * WireSize(r, u) + 8000
        /\ 16000 * WireSize(r, u) <= 2 * (r * u) + 8000
      BY <2>1, WireSizeWithin
  <2> QED
      BY <2>2 DEF u
<1> HIDE DEF x
<1>10. x <= m
    BY <1>5, <1>7, <1>8, <1>9
<1>11. x >= 28
  \* The product of r and t-1 is two thirds of that of r and t, or more.
  <2> DEFINE p == t * r
             y == r * (t-1)
  <2>1. p \in Nat /\ y \in Nat /\ p = y + r /\ 3 * r <= p /\ 8000 * size < p + t
      BY <1>7, <1>8
  <2>2. 2 * y <= 16000 * x + 8000
      BY <1>9
  <2>3. 300000 * t <= 16000 * m + 600000
      BY <1>1, <1>3
  <2> HIDE DEF p, y
  <2> QED
      BY <1>1, <1>5, <1>7, <1>9, <2>1, <2>2, <2>3
<1>12. Max({u \in 1..t-1 : WireSize(r, u) <= m}) = t - 1
  <2> DEFINE S == {u \in 1..t-1 : WireSize(r, u) <= m}
  <2>1. t - 1 \in S /\ \A u \in S : u \in Int /\ t - 1 >= u
      BY <1>1, <1>2, <1>10 DEF x
  <2>2. \E u \in S : \A v \in S : u >= v
      BY <2>1
  <2> HIDE DEF S
  <2>3. Max(S) \in S /\ \A v \in S : Max(S) >= v
      BY <2>2 DEF Max
  <2>4. Max(S) = t - 1
      BY <1>1, <2>1, <2>3
  <2> QED
      BY <2>4 DEF S
<1> QED
    BY <1>1, <1>2, <1>5, <1>7, <1>9, <1>10, <1>11, <1>12 DEF t, s, size, r, x
\* Between 150 and 600 Mbit/s every size and interval can be sent.
LEMMA CalcMediumType == ASSUME TInv, CalcMedium PROVE TInv'
<1> DEFINE t    == Interval(MaxSize, tr)
           size == Least(WireSize(tr, t), MaxSize)
           r    == Rate(size, t)
           n    == WireSize(r, t-1)
           t2   == Max({u \in 1..t-1 : WireSize(r, u) <= MaxSize})
<1>1. /\ TypeOK /\ tr \in Nat /\ tr <= Fastest /\ tr >= 150000 /\ tr < 600000
      /\ phase = "calc" /\ MaxSize \in Nat /\ MaxSize >= 228 /\ Header = 28
      /\ Fastest = 8000 * MaxSize /\ cur_pkt_sz \in Nat /\ time_interval \in Nat
      /\ setup.max_pkt_sz \in Nat /\ tr # 0
    BY SetupFacts DEF TInv, TypeOK, Measures, CalcMedium, Header, Fastest
<1>2. /\ t \in Nat /\ t >= 3
      /\ size \in Nat /\ size >= MaxSize - 38 /\ size <= MaxSize
      /\ r \in Nat \ {0} /\ n \in Nat /\ n <= MaxSize /\ n >= 28 /\ t2 = t - 1
    BY <1>1, MediumParameters
<1>3. \/ cur_pkt_sz = setup.max_pkt_sz /\ AtLimit(cur_pkt_sz + Header, time_interval, tr)
      \/ Fleet(WireSize(r, t2), t2, Rate(WireSize(r, t2), t2))
      \/ Fleet(size, t, r)
    BY DEF CalcMedium
<1> HIDE DEF t, size, t2
<1>4. r <= Fastest
  <2>1. size \in Nat \ {0} /\ t \in Nat \ {0}
      BY <1>1, <1>2
  <2>2. r <= 8000 * size
      BY <2>1, RateType
  <2> HIDE DEF r
  <2> QED
      BY <1>1, <1>2, <2>2
<1>5. Rate(n, t2) \in 1..Fastest
  <2>1. n \in Nat \ {0} /\ t2 \in Nat \ {0}
      BY <1>2
  <2> HIDE DEF n
  <2>2. Rate(n, t2) \in Nat \ {0} /\ Rate(n, t2) <= 8000 * n
      BY <2>1, RateType
  <2> QED
      BY <1>1, <1>2, <2>2
<1>6. n = WireSize(r, t2)
    BY <1>2
<1> HIDE DEF r, n
<1>7. CASE cur_pkt_sz = setup.max_pkt_sz /\ AtLimit(cur_pkt_sz + Header, time_interval, tr)
  <2>1. cur_pkt_sz + Header = MaxSize /\ tr \in 1..Fastest
      BY <1>1, <1>7 DEF MaxSize
  <2> QED
      BY <1>1, <1>7, <2>1, FleetKeepsType
<1>8. CASE Fleet(n, t2, Rate(n, t2))
  <2>1. t2 \in Nat /\ t2 # 0 /\ n >= Header
      BY <1>1, <1>2
  <2> QED
      BY <1>1, <1>2, <1>5, <1>8, <2>1, FleetKeepsType
<1>9. CASE Fleet(size, t, r)
  <2>1. r \in 1..Fastest /\ t # 0 /\ size >= Header
      BY <1>1, <1>2, <1>4
  <2> QED
      BY <1>1, <1>2, <1>9, <2>1, FleetKeepsType
<1> QED
    BY <1>3, <1>6, <1>7, <1>8, <1>9

\* From 600 Mbit/s on every packet has full size.
LEMMA CalcFastType == ASSUME TInv, CalcFast PROVE TInv'
<1> DEFINE t == Interval(MaxSize, tr)
           r == Rate(MaxSize, t)
           q == [range EXCEPT !.tr_max = r]
           d == radj_notrend(q, exp_flag, r)
<1>1. /\ TypeOK /\ tr \in Nat /\ tr # 0 /\ tr <= Fastest /\ phase = "calc"
      /\ MaxSize \in Nat \ {0} /\ Fastest \in Nat /\ Fastest = 8000 * MaxSize
      /\ range \in Ranges /\ EndsKnown(range) /\ Rest /\ Counts /\ exp_flag \in BOOLEAN
    BY Parts, SetupFacts DEF TInv, TypeOK, Measures, CalcFast, Fastest
<1>2. t \in Nat \ {0}
    BY <1>1, IntervalPositive
<1>3. r \in 1..Fastest
  <2> HIDE DEF t
  <2>1. r \in Nat \ {0} /\ r <= 8000 * MaxSize
      BY <1>1, <1>2, RateType
  <2> QED
      BY <1>1, <2>1
<1>4. q \in Ranges /\ EndsKnown(q)
  <2> HIDE DEF r
  <2>1. r \in 0..Fastest
      BY <1>3
  <2> QED
      BY <1>1, <2>1 DEF Ranges, EndsKnown
<1> HIDE DEF q
<1>5. IsDecision(d)
  <2> HIDE DEF r
  <2>1. {} \in SUBSET Flags
      OBVIOUS
  <2> QED
      BY <1>1, <1>3, <1>4, <2>1, NotrendDecides
<1>6. /\ cur_pkt_sz' = setup.max_pkt_sz /\ time_interval' = t /\ setup' = setup
      /\ UNCHANGED <<prev_trend, max_rate_flag, interval_sum, num, bad_fleet_cs,
                     retry_fleet_cnt_cs, slow, increase_stream_len, lower_bound, faults>>
    BY DEF CalcFast
<1>7. /\ phase' \in {"done", "fleet", "hung"}
      /\ range' = range \/ range' = q
      /\ tr' = r \/ tr' = d.rate
      /\ close' = close \/ close' = close \cup d.flags \/ close' = close \cup {"rmn_rmx"}
    BY DEF CalcFast, q
<1>8. /\ tm' = tm \/ tm' = tm \cup {"gmx_rmx"}
      /\ exp_flag' = exp_flag \/ exp_flag' = d.exp
    BY DEF CalcFast, q
<1> HIDE DEF t, r, d
<1>9. tr' \in 1..Fastest /\ close' \subseteq Flags
  <2>1. d.rate \in 1..Fastest /\ d.flags \subseteq Flags
      BY <1>5 DEF IsDecision
  <2>2. close \subseteq Flags /\ {"rmn_rmx"} \subseteq Flags
      BY <1>1 DEF Rest, Flags
  <2> QED
      BY <1>3, <1>7, <2>1, <2>2
<1>10. range' \in Ranges /\ EndsKnown(range')
    BY <1>1, <1>4, <1>7
<1>11. exp_flag' \in BOOLEAN
    BY <1>1, <1>5, <1>8 DEF IsDecision
<1>12. exact' \in BOOLEAN
  <2>1. exact \in BOOLEAN
      BY <1>1 DEF Rest
  <2>2. exact' = exact \/ exact' = FALSE \/ exact' = (exact /\ r = range.tr_max)
      BY DEF CalcFast, r, t
  <2> QED
      BY <2>1, <2>2
<1>13. tm' \subseteq Flags
  <2>1. tm \subseteq Flags /\ {"gmx_rmx"} \subseteq Flags
      BY <1>1 DEF Rest, Flags
  <2> QED
      BY <1>8, <2>1
<1>14. Rest'
    BY <1>1, <1>6, <1>9, <1>11, <1>12, <1>13 DEF Rest
<1>15. Counts'
    BY <1>1, <1>6 DEF Counts
<1>16. Params'
  <2>1. cur_pkt_sz' \in Nat /\ cur_pkt_sz' <= setup.max_pkt_sz
      BY <1>1, <1>6, SetupFacts
  <2> QED
      BY <1>2, <1>6, <2>1 DEF Params
<1> QED
    BY <1>1, <1>6, <1>7, <1>9, <1>10, <1>14, <1>15, <1>16, PartsNext
\* A fleet is of one stream or more, and what was measured of it is no time of 0.
LEMMA FleetFacts ==
    ASSUME TInv, phase = "fleet"
    PROVE  /\ Streams \in Nat \ {0} /\ SentIntervals \subseteq Nat \ {0}
           /\ \A t \in Nat \ {0} : SentRate(t) \in 1..Fastest
<1>1. /\ TypeOK /\ time_interval \in Nat \ {0} /\ setup.late \subseteq Nat
      /\ cur_pkt_sz \in Nat /\ cur_pkt_sz <= setup.max_pkt_sz /\ setup.max_pkt_sz \in Nat
      /\ MaxSize = setup.max_pkt_sz + 28 /\ Fastest = 8000 * MaxSize /\ MaxSize \in Nat
    BY SetupFacts DEF TInv, TypeOK, Measures, MaxSize, Header, Fastest
<1>2. Streams \in Nat \ {0}
    BY FleetAssumption DEF Streams
<1>3. SentIntervals \subseteq Nat \ {0}
    BY <1>1 DEF SentIntervals
<1>4. ASSUME NEW t \in Nat \ {0} PROVE SentRate(t) \in 1..Fastest
  <2> DEFINE n == cur_pkt_sz + Header
  <2>1. n \in Nat \ {0} /\ n <= MaxSize
      BY <1>1 DEF Header
  <2> HIDE DEF n
  <2>2. Rate(n, t) \in Nat \ {0} /\ Rate(n, t) <= 8000 * n
      BY <2>1, RateType
  <2>3. Rate(n, t) \in 1..Fastest
      BY <1>1, <2>1, <2>2
  <2> QED
      BY <2>3 DEF SentRate, n
<1> QED
    BY <1>2, <1>3, <1>4

\* No stream is measured to take no time, so that the mean is never 0.
LEMMA MeasuredType ==
    ASSUME TInv, phase = "fleet", NEW t \in SentIntervals, NEW k \in Nat, Measured(k, t)
    PROVE  num' \in Nat /\ interval_sum' \in Nat /\ num' <= interval_sum'
<1>1. /\ num \in Nat /\ interval_sum \in Nat /\ num <= interval_sum
      /\ num' = num + k /\ interval_sum' = interval_sum + k * t
    BY DEF TInv, TypeOK, Measures, Measured
<1>2. t \in Nat /\ 1 <= t
    BY FleetFacts
<1>3. k * t \in Nat /\ k * 1 <= k * t
    BY <1>2, ProductGrows
<1> QED
    BY <1>1, <1>3

\* The mean interval of the streams of a fleet.
LEMMA MeanType ==
    ASSUME TInv, phase = "fleet", NEW t \in SentIntervals
    PROVE  (interval_sum + Streams * t) \div (num + Streams) \in Nat \ {0}
<1>1. /\ num \in Nat /\ interval_sum \in Nat /\ num <= interval_sum
      /\ Streams \in Nat \ {0} /\ t \in Nat /\ 1 <= t
    BY FleetFacts DEF TInv, TypeOK, Measures
<1>2. Streams * t \in Nat /\ Streams * 1 <= Streams * t
    BY <1>1, ProductGrows
<1> DEFINE a == interval_sum + Streams * t
           b == num + Streams
<1>3. a \in Nat /\ b \in Nat \ {0} /\ b <= a
    BY <1>1, <1>2
<1> HIDE DEF a, b
<1>4. a \div b \in Nat /\ a % b \in 0..b-1 /\ a = b * (a \div b) + (a % b)
    BY <1>3, Division
<1>5. a \div b # 0
    BY <1>3, <1>4
<1>6. a \div b \in Nat \ {0}
    BY <1>4, <1>5
<1> QED
    BY <1>6 DEF a, b

\* The fleets that may still be sent late are a number.
LEMMA FaultType ==
    ASSUME faults \in Nat, NEW f, Fault(f)
    PROVE  faults' \in Nat
BY DEF Fault

\* An aborted fleet or one with too few bursts.
LEMMA LossyType ==
    ASSUME TInv, FleetLossy \/ FleetInOneBurst
    PROVE  TInv' /\ phase' \in {"calc", "done", "hung"}
<1>1. /\ TypeOK /\ tr \in 1..Fastest /\ phase = "fleet" /\ Rest /\ Counts /\ Params
      /\ tm \in SUBSET Flags /\ Fastest \in Nat
  <2>1. TypeOK /\ phase = "fleet"
      BY DEF TInv, FleetLossy, FleetInOneBurst
  <2>2. MaxSize \in Nat /\ Fastest \in Nat
      BY <2>1, SetupFacts
  <2>3. tr \in 1..Fastest /\ Rest /\ Counts /\ Params
      BY <2>2, Parts
  <2> QED
      BY <2>1, <2>2, <2>3 DEF Rest
<1>2. /\ \E t \in SentIntervals, k \in Nat, f \in BOOLEAN : Fault(f) /\ Measured(k, t)
      /\ rate_adjustment("INCREASING", tm, tr)
      /\ UNCHANGED <<setup, params, tm, bad_fleet_cs, retry_fleet_cnt_cs, slow>>
  <2>1. Streams \in Nat
      BY <1>1, FleetFacts
  <2>2. CASE FleetLossy
    <3>1. PICK t \in SentIntervals, k \in 0..Streams-1 :
             Fault(t # time_interval \/ k # 0) /\ Measured(k, t)
        BY <2>2 DEF FleetLossy
    <3>2. k \in Nat /\ (t # time_interval \/ k # 0) \in BOOLEAN
        BY <2>1
    <3> QED
        BY <2>2, <3>1, <3>2 DEF FleetLossy
  <2>3. CASE FleetInOneBurst
    <3>1. PICK t \in SentIntervals, k \in 1..Streams : Fault(TRUE) /\ Measured(k, t)
        BY <2>3 DEF FleetInOneBurst
    <3>2. k \in Nat /\ TRUE \in BOOLEAN
        BY <2>1
    <3> QED
        BY <2>3, <3>1, <3>2 DEF FleetInOneBurst
  <2> QED
      BY <2>2, <2>3
<1>3. num' \in Nat /\ interval_sum' \in Nat /\ num' <= interval_sum' /\ faults' \in Nat
  <2>1. PICK t \in SentIntervals, k \in Nat, f \in BOOLEAN : Fault(f) /\ Measured(k, t)
      BY <1>2
  <2>2. faults \in Nat
      BY <1>1 DEF TypeOK
  <2> QED
      BY <1>1, <2>1, <2>2, MeasuredType, FaultType
<1>4. /\ lower_bound' \in BOOLEAN /\ increase_stream_len' \in BOOLEAN
  <2>1. lower_bound \in BOOLEAN /\ increase_stream_len \in BOOLEAN
      BY <1>1 DEF Rest
  <2> QED
      BY <2>1 DEF FleetLossy, FleetInOneBurst
<1>5. exact' = exact \/ exact' = FALSE
    BY DEF FleetLossy, FleetInOneBurst
<1>6. exact' \in BOOLEAN
  <2>1. exact \in BOOLEAN
      BY <1>1 DEF Rest
  <2> QED
      BY <1>5, <2>1
<1>7. /\ phase' \in {"calc", "done", "hung"}
      /\ range' \in Ranges /\ EndsKnown(range') /\ tr' \in 1..Fastest
      /\ exp_flag' \in BOOLEAN /\ prev_trend' \in {"none", "INCREASING", "NOTREND"}
      /\ max_rate_flag' \in 0..2 /\ (phase' = "calc" => max_rate_flag' <= 1)
      /\ close' \subseteq Flags
  <2>1. "INCREASING" \in Trends
      BY DEF Trends
  <2> QED
      BY <1>1, <1>2, <2>1, AdjustmentType
<1>8. Rest'
    BY <1>1, <1>2, <1>4, <1>6, <1>7 DEF Rest
<1>9. Counts'
    BY <1>1, <1>2, <1>3, <1>7 DEF Counts
<1>10. Params'
    BY <1>1, <1>2, <1>7 DEF Params, params
<1> QED
    BY <1>1, <1>2, <1>7, <1>8, <1>9, <1>10, PartsNext
\* A fleet that is repeated with longer streams.
LEMMA FewBurstsType == ASSUME TInv, FleetInFewBursts PROVE TInv'
<1>1. TypeOK /\ phase = "fleet" /\ MaxSize \in Nat /\ Fastest \in Nat
    BY SetupFacts DEF TInv, FleetInFewBursts
<1>2. /\ tr \in 1..Fastest /\ range \in Ranges /\ EndsKnown(range)
      /\ Rest /\ Counts /\ Params
    BY <1>1, Parts
<1>3. /\ increase_stream_len' = TRUE /\ phase' = "calc"
      /\ UNCHANGED <<setup, tr, search, params, tm, bad_fleet_cs, retry_fleet_cnt_cs,
                     slow, lower_bound, exact>>
    BY DEF FleetInFewBursts
<1>4. num' \in Nat /\ interval_sum' \in Nat /\ num' <= interval_sum' /\ faults' \in Nat
  <2>1. Streams \in Nat
      BY <1>1, FleetFacts
  <2>2. PICK t \in SentIntervals, k \in 1..Streams : Fault(TRUE) /\ Measured(k, t)
      BY DEF FleetInFewBursts
  <2>3. k \in Nat /\ faults \in Nat
      BY <1>1, <2>1 DEF TypeOK
  <2> QED
      BY <1>1, <2>2, <2>3, MeasuredType, FaultType
<1>5. range' = range /\ tr' = tr
    BY <1>3 DEF search
<1>6. Rest'
    BY <1>2, <1>3 DEF Rest, search
<1>7. Counts'
    BY <1>1, <1>2, <1>3, <1>4 DEF Counts, search
<1>8. Params'
    BY <1>2, <1>3 DEF Params, params
<1> QED
    BY <1>1, <1>2, <1>3, <1>5, <1>6, <1>7, <1>8, PartsNext

\* The whole fleet was received.
LEMMA ReceivedType ==
    ASSUME TInv, FleetReceived
    PROVE  TInv' /\ phase' \in {"calc", "done", "hung"}
<1>1. TypeOK /\ phase = "fleet" /\ MaxSize \in Nat /\ Fastest \in Nat
    BY SetupFacts DEF TInv, FleetReceived
<1>2. /\ tr \in 1..Fastest /\ range \in Ranges /\ EndsKnown(range)
      /\ Rest /\ Counts /\ Params
    BY <1>1, Parts
<1>3. /\ slow' = (slow \/ OneStream) /\ interval_sum' = 0 /\ num' = 0
      /\ increase_stream_len' = increase_stream_len \/ increase_stream_len' = FALSE
      /\ setup' = setup /\ cur_pkt_sz' = cur_pkt_sz /\ lower_bound' = lower_bound
    BY DEF FleetReceived
<1>4. PICK t \in SentIntervals :
        LET mean == (interval_sum + Streams * t) \div (num + Streams)
            act  == ActualRate(mean)
        IN  /\ time_interval' = mean
            /\ tm' = tm \cup Crossed(tr, act)
            /\ \/ /\ Fault(TRUE) /\ bad_fleet_cs' = TRUE
                  /\ retry_fleet_cnt_cs' = retry_fleet_cnt_cs + 1
                  /\ phase' = IF retry_fleet_cnt_cs' > NumRetryCS THEN "done" ELSE "calc"
                  /\ tr' = act /\ exact' = (exact /\ num = 0) /\ UNCHANGED search
               \/ /\ bad_fleet_cs' = FALSE /\ retry_fleet_cnt_cs' = 0
                  /\ \E trend \in Trends, f \in BOOLEAN :
                       /\ Fault(f) /\ exact' \in {exact /\ num = 0, FALSE}
                       /\ rate_adjustment(trend, tm', act)
  <2> DEFINE Mean(t) == (interval_sum + Streams * t) \div (num + Streams)
  <2>1. PICK t \in SentIntervals :
          /\ time_interval' = Mean(t)
          /\ tm' = tm \cup Crossed(tr, ActualRate(Mean(t)))
          /\ \/ /\ Fault(TRUE) /\ bad_fleet_cs' = TRUE
                /\ retry_fleet_cnt_cs' = retry_fleet_cnt_cs + 1
                /\ phase' = IF retry_fleet_cnt_cs' > NumRetryCS THEN "done" ELSE "calc"
                /\ tr' = ActualRate(Mean(t)) /\ exact' = (exact /\ num = 0)
                /\ UNCHANGED search
             \/ /\ bad_fleet_cs' = FALSE
                /\ retry_fleet_cnt_cs' = 0
                /\ \E trend \in Trends :
                     \/ /\ Fault(t # time_interval) /\ exact' = (exact /\ num = 0)
                        /\ rate_adjustment(trend, tm', ActualRate(Mean(t)))
                     \/ /\ Fault(TRUE) /\ exact' = FALSE
                        /\ rate_adjustment(trend, tm', ActualRate(Mean(t)))
      BY DEF FleetReceived
  <2> HIDE DEF Mean
  <2>2. (t # time_interval) \in BOOLEAN /\ TRUE \in BOOLEAN
      OBVIOUS
  <2>3. CASE bad_fleet_cs' = TRUE /\ bad_fleet_cs' # FALSE
      BY <2>1, <2>3 DEF Mean
  <2>4. CASE bad_fleet_cs' = FALSE /\ bad_fleet_cs' # TRUE
    <3>1. PICK trend \in Trends :
            \/ /\ Fault(t # time_interval) /\ exact' = (exact /\ num = 0)
               /\ rate_adjustment(trend, tm', ActualRate(Mean(t)))
            \/ /\ Fault(TRUE) /\ exact' = FALSE
               /\ rate_adjustment(trend, tm', ActualRate(Mean(t)))
        BY <2>1, <2>4
    <3>2. \E f \in BOOLEAN :
             /\ Fault(f) /\ exact' \in {exact /\ num = 0, FALSE}
             /\ rate_adjustment(trend, tm', ActualRate(Mean(t)))
        BY <2>2, <3>1
    <3> QED
        BY <2>1, <2>4, <3>2 DEF Mean
  <2> QED
      BY <2>1, <2>3, <2>4
<1> DEFINE mean == (interval_sum + Streams * t) \div (num + Streams)
           act  == ActualRate(mean)
<1>5. mean \in Nat \ {0} /\ act \in 1..Fastest
  <2>1. mean \in Nat \ {0}
      BY <1>1, MeanType
  <2> HIDE DEF mean
  <2> QED
      BY <1>1, <2>1, FleetFacts DEF ActualRate
<1>6. time_interval' = mean
    BY <1>4
<1>7. tm' \in SUBSET Flags
  <2>1. Crossed(tr, act) \subseteq Flags
      BY DEF Crossed, Flags
  <2>2. tm' = tm \cup Crossed(tr, act) /\ tm \subseteq Flags
      BY <1>2, <1>4 DEF Rest
  <2> QED
      BY <2>1, <2>2
<1> HIDE DEF mean
<1>8. slow' \in BOOLEAN /\ increase_stream_len' \in BOOLEAN /\ lower_bound' \in BOOLEAN
  <2>1. slow \in BOOLEAN /\ increase_stream_len \in BOOLEAN /\ lower_bound \in BOOLEAN
      BY <1>2 DEF Rest
  <2> QED
      BY <1>3, <2>1
<1>9. Params'
    BY <1>2, <1>3, <1>5, <1>6, <1>1 DEF Params
<1>10. faults \in Nat
    BY <1>1 DEF TypeOK
<1>11. CASE /\ Fault(TRUE) /\ bad_fleet_cs' = TRUE
            /\ retry_fleet_cnt_cs' = retry_fleet_cnt_cs + 1
            /\ phase' = IF retry_fleet_cnt_cs' > NumRetryCS THEN "done" ELSE "calc"
            /\ tr' = act /\ exact' = (exact /\ num = 0) /\ UNCHANGED search
  <2>1. exact' \in BOOLEAN
      BY <1>11
  <2>2. Rest'
      BY <1>2, <1>7, <1>8, <1>11, <2>1 DEF Rest, search
  <2>3. faults' \in Nat
      BY <1>10, <1>11, FaultType
  <2>4. Counts'
      BY <1>1, <1>2, <1>3, <1>11, <2>3 DEF Counts, search, NumRetryCS
  <2> QED
      BY <1>1, <1>2, <1>3, <1>5, <1>9, <1>11, <2>2, <2>4, PartsNext DEF search
<1>12. CASE /\ bad_fleet_cs' = FALSE /\ retry_fleet_cnt_cs' = 0
            /\ \E trend \in Trends, f \in BOOLEAN :
                 /\ Fault(f) /\ exact' \in {exact /\ num = 0, FALSE}
                 /\ rate_adjustment(trend, tm', act)
  <2>1. PICK trend \in Trends, f \in BOOLEAN :
                 /\ Fault(f) /\ exact' \in {exact /\ num = 0, FALSE}
                 /\ rate_adjustment(trend, tm', act)
      BY <1>12
  <2>2. faults' \in Nat
      BY <1>10, <2>1, FaultType
  <2>3. exact' \in BOOLEAN
      BY <2>1
  <2>4. /\ phase' \in {"calc", "done", "hung"}
        /\ range' \in Ranges /\ EndsKnown(range') /\ tr' \in 1..Fastest
        /\ exp_flag' \in BOOLEAN /\ prev_trend' \in {"none", "INCREASING", "NOTREND"}
        /\ max_rate_flag' \in 0..2 /\ (phase' = "calc" => max_rate_flag' <= 1)
        /\ close' \subseteq Flags
    <3> HIDE DEF act
    <3> QED
        BY <1>1, <1>3, <1>5, <1>7, <2>1, AdjustmentType
  <2>5. Rest'
      BY <1>7, <1>8, <1>12, <2>3, <2>4 DEF Rest
  <2>6. Counts'
      BY <1>3, <1>12, <2>2, <2>4 DEF Counts, NumRetryCS
  <2> QED
      BY <1>1, <1>3, <1>9, <2>4, <2>5, <2>6, PartsNext
<1> QED
    BY <1>4, <1>11, <1>12 DEF mean
\* The alarm ends the search and changes nothing else.
LEMMA AlarmType == ASSUME TInv, sig_alrm PROVE TInv'
<1>1. TypeOK /\ MaxSize \in Nat
    BY SetupFacts DEF TInv
<1>2. /\ tr \in 1..Fastest /\ range \in Ranges /\ EndsKnown(range)
      /\ Rest /\ Counts /\ Params
    BY <1>1, Parts
<1>3. phase' = "done" /\ UNCHANGED <<setup, tr, search, params, fleets>>
    BY DEF sig_alrm
<1>4. Rest'
    BY <1>2, <1>3 DEF Rest, search, fleets
<1>5. Counts' /\ Params'
    BY <1>2, <1>3 DEF Counts, Params, search, fleets, params
<1> QED
    BY <1>1, <1>2, <1>3, <1>4, <1>5, PartsNext DEF search

\* The first rate is what the delays of the first train suggested, or lies in the
\* middle of all rates.
LEMMA InitType == Init => TInv
<1> SUFFICES ASSUME Init PROVE TInv
    OBVIOUS
<1>1. /\ setup \in SetupType /\ setup \in Setups /\ setup.max_pkt_sz >= 200
      /\ setup.max_pkt_sz \in Nat /\ setup.adr \in Nat /\ setup.faults \in Nat
      /\ setup.min_time_interval \in Nat \ {0}
    BY SetupAssumption DEF Init, SetupType, MinPktSz
<1>2. MaxSize \in Nat \ {0} /\ MaxSize >= 228 /\ Fastest \in Nat /\ Fastest >= 1824000
    BY <1>1 DEF MaxSize, Header, Fastest
<1>3. max_rate \in 1..Fastest
  <2>1. max_rate = Rate(MaxSize, setup.min_time_interval)
      BY DEF max_rate, MaxSize
  <2>2. Rate(MaxSize, setup.min_time_interval) \in Nat \ {0}
      BY <1>1, <1>2, RateType
  <2>3. Rate(MaxSize, setup.min_time_interval) <= 8000 * MaxSize
      BY <1>1, <1>2, RateType
  <2> QED
      BY <1>2, <2>1, <2>2, <2>3 DEF Fastest
<1>4. tr \in 1..Fastest
  <2>1. tr = IF setup.adr = 0 \/ setup.adr > max_rate \/ setup.adr < MinRate
             THEN Half(max_rate + MinRate) ELSE setup.adr
      BY DEF Init
  <2>2. Half(max_rate + MinRate) \in 1..Fastest
      BY <1>2, <1>3 DEF Half, MinRate
  <2> QED
      BY <1>1, <1>2, <1>3, <2>1, <2>2 DEF MinRate
<1>5. /\ phase = "calc" /\ cur_pkt_sz = 0 /\ time_interval = 0
      /\ range = [tr_min |-> 0, tr_max |-> 0, grey_min |-> 0, grey_max |-> 0]
    BY DEF Init
<1>6. range \in Ranges /\ EndsKnown(range)
  <2>1. 0 \in 0..Fastest
      BY <1>2
  <2> QED
      BY <1>5, <2>1 DEF Ranges, EndsKnown
<1>7. Rest
    BY DEF Init, Rest, Flags
<1>8. Counts
    BY <1>1 DEF Init, Counts, NumRetryCS
<1>9. Params
    BY <1>5 DEF Params
<1> QED
    BY <1>1, <1>2, <1>4, <1>5, <1>6, <1>7, <1>8, <1>9, Parts

\* Every step keeps the types.
LEMMA TypeStep == TInv /\ [Next]_vars => TInv'
<1> SUFFICES ASSUME TInv, [Next]_vars PROVE TInv'
    OBVIOUS
<1>1. CASE UNCHANGED vars
  <2>1. /\ phase' = phase /\ setup' = setup /\ tr' = tr /\ UNCHANGED search
        /\ UNCHANGED params /\ UNCHANGED fleets
      BY <1>1 DEF vars
  <2>2. TypeOK /\ MaxSize \in Nat
      BY SetupFacts DEF TInv
  <2>3. /\ tr \in 1..Fastest /\ range \in Ranges /\ EndsKnown(range)
        /\ Rest /\ Counts /\ Params /\ phase \in {"calc", "fleet", "done", "hung"}
      BY <2>2, Parts
  <2>4. Rest'
      BY <2>1, <2>3 DEF Rest, search, fleets
  <2>5. Counts' /\ Params'
      BY <2>1, <2>3 DEF Counts, Params, search, fleets, params
  <2> QED
      BY <2>1, <2>2, <2>3, <2>4, <2>5, PartsNext DEF search
<1>2. CASE CalcSlow
    BY <1>2, CalcSlowType
<1>3. CASE CalcMedium
    BY <1>3, CalcMediumType
<1>4. CASE CalcFast
    BY <1>4, CalcFastType
<1>5. CASE FleetLossy \/ FleetInOneBurst
    BY <1>5, LossyType
<1>6. CASE FleetInFewBursts
    BY <1>6, FewBurstsType
<1>7. CASE FleetReceived
    BY <1>7, ReceivedType
<1>8. CASE sig_alrm
    BY <1>8, AlarmType
<1> QED
    BY <1>1, <1>2, <1>3, <1>4, <1>5, <1>6, <1>7, <1>8 DEF Next

\* The types and the measures that keep them hold throughout the search.
LEMMA TypeInvariant == Spec => []TInv
BY InitType, TypeStep, PTL DEF Spec

\* Whatever the host, the path and the trends of the fleets, no rate is ever 0 and the
\* limits that end the search are never passed: calc_param never divides by 0, and
\* rate_adjustment never halves the lower end of a grey region that it does not know.
THEOREM TypeCorrect == Spec => []TypeOK
<1>1. TInv => TypeOK
    BY DEF TInv
<1> QED
    BY <1>1, TypeInvariant, PTL
-----------------------------------------------------------------------------
(* The bracket. Two more facts about numbers first.                         *)

\* A rate whose bytes fit into n every t microseconds is not above theirs.
LEMMA RateAtLeast ==
    ASSUME NEW n \in Nat \ {0}, NEW t \in Nat \ {0}, NEW r \in Nat, t * r <= 8000 * n
    PROVE  r <= Rate(n, t)
<1> DEFINE x == Rate(n, t)
<1>1. x \in Nat /\ 8000 * n < t * x + t
  <2>1. x \in Nat \ {0}
      BY RateType
  <2>2. 8000 * n < t * x + t
      BY RateWithin
  <2> QED
      BY <2>1, <2>2
<1> HIDE DEF x
<1>2. CASE r >= x + 1
  <2>1. t * (x + 1) <= t * r
      BY <1>1, <1>2, ProductGrows
  <2>2. t * (x + 1) = t * x + t
      BY <1>1, ProductStep
  <2>3. t * x \in Nat /\ t * r \in Nat
      BY <1>1
  <2> QED
      BY <1>1, <2>1, <2>2, <2>3
<1> QED
    BY <1>1, <1>2 DEF x

\* A later packet makes a lower rate.
LEMMA RateFalls ==
    ASSUME NEW n \in Nat \ {0}, NEW t \in Nat \ {0}, NEW u \in Nat, t <= u
    PROVE  Rate(n, u) <= Rate(n, t)
<1> DEFINE x == Rate(n, u)
           y == Rate(n, t)
<1>0. u \in Nat \ {0}
    OBVIOUS
<1>1. x \in Nat \ {0} /\ y \in Nat \ {0}
    BY <1>0, RateType
<1>2. u * x <= 8000 * n \/ x = 1
    BY <1>0, RateWithin
<1> HIDE DEF x
<1>3. CASE u * x <= 8000 * n
  <2>1. x * t <= x * u
      BY <1>1, ProductGrows
  <2>2. t * x <= 8000 * n
      BY <1>1, <1>3, <2>1
  <2> QED
      BY <1>1, <2>2, RateAtLeast DEF x
<1>4. CASE x = 1
    BY <1>1, <1>4 DEF x
<1> QED
    BY <1>2, <1>3, <1>4

\* More bytes make a higher rate.
LEMMA RateRises ==
    ASSUME NEW m \in Nat \ {0}, NEW n \in Nat, m <= n, NEW t \in Nat \ {0}
    PROVE  Rate(m, t) <= Rate(n, t)
<1> DEFINE x == Rate(m, t)
           y == Rate(n, t)
<1>0. n \in Nat \ {0}
    OBVIOUS
<1>1. x \in Nat \ {0} /\ y \in Nat \ {0}
    BY <1>0, RateType
<1>2. t * x <= 8000 * m \/ x = 1
    BY RateWithin
<1> HIDE DEF x
<1>3. CASE t * x <= 8000 * m
  <2>1. t * x <= 8000 * n
      BY <1>1, <1>3
  <2> QED
      BY <1>0, <1>1, <2>1, RateAtLeast DEF x
<1>4. CASE x = 1
    BY <1>1, <1>4 DEF x
<1> QED
    BY <1>2, <1>3, <1>4

\* A size in whole bytes every t microseconds changes a rate by no more than half a
\* byte every t microseconds, 4000 / t.
LEMMA RoundedRate ==
    ASSUME NEW r \in Nat \ {0}, NEW t \in Nat \ {0}, WireSize(r, t) # 0,
           NEW d \in Nat, t * d >= 4000
    PROVE  /\ Rate(WireSize(r, t), t) <= r + d
           /\ r <= Rate(WireSize(r, t), t) + d
<1> DEFINE n == WireSize(r, t)
           x == Rate(n, t)
<1>1. n \in Nat /\ 2 * (r * t) <= 16000 * n + 8000 /\ 16000 * n <= 2 * (r * t) + 8000
    BY WireSizeWithin
<1>2. n \in Nat \ {0} /\ t \in Nat \ {0}
    BY <1>1
<1> HIDE DEF n
<1>3. x \in Nat \ {0}
    BY <1>2, RateType
<1>4. 8000 * n < t * x + t /\ (t * x <= 8000 * n \/ x = 1)
  <2>1. 8000 * n < t * x + t
      BY <1>2, RateWithin
  <2>2. t * x <= 8000 * n \/ x = 1
      BY <1>2, RateWithin
  <2> QED
      BY <2>1, <2>2
<1> HIDE DEF x
<1>5. r * t = t * r /\ t * r \in Nat /\ t * x \in Nat /\ t * d \in Nat
    BY <1>2, <1>3
<1>6. ASSUME NEW a \in Nat, NEW b \in Nat, a >= b + (d + 1)
      PROVE  t * a >= t * b + t * d + t
  <2>1. t * (b + (d + 1)) <= t * a
      BY <1>6, ProductGrows
  <2>2. t * (b + (d + 1)) = t * b + t * d + t
      OBVIOUS
  <2> QED
      BY <2>1, <2>2
<1>7. x <= r + d
  <2> SUFFICES ASSUME x >= r + (d + 1) PROVE FALSE
      BY <1>3
  <2>1. t * x >= t * r + t * d + t
      BY <1>3, <1>6
  <2>2. t * x <= 8000 * n
      BY <1>3, <1>4
  <2> QED
      BY <1>1, <1>2, <1>5, <2>1, <2>2
<1>8. r <= x + d
  <2> SUFFICES ASSUME r >= x + (d + 1) PROVE FALSE
      BY <1>3
  <2>1. t * r >= t * x + t * d + t
      BY <1>3, <1>6
  <2> QED
      BY <1>1, <1>2, <1>4, <1>5, <2>1
<1> QED
    BY <1>7, <1>8 DEF x, n
\* How a fleet under way is sent: at its rate, or, below 150 Mbit/s, with the size for
\* it in whole bytes.
SentAs ==
    phase = "fleet" /\ exact =>
        \/ tr = SentRate(time_interval)
        \/ /\ tr < 150000 /\ time_interval = SlowInterval
           /\ cur_pkt_sz + Header = WireSize(tr, SlowInterval)
           /\ cur_pkt_sz + Header \in MinSize..MaxSize

\* Without an older fleet in the sum the mean of the intervals is that of the fleet.
NothingOlder == num = 0 => interval_sum = 0

BInv == SentAs /\ NothingOlder /\ BracketHolds

\* A size and an interval that make the rate exactly.
LEMMA SentExactly ==
    ASSUME NEW size \in Nat, NEW t, Fleet(size, t, Rate(size, t))
    PROVE  SentAs'
<1>1. /\ cur_pkt_sz' = size - 28 /\ time_interval' = t /\ tr' = Rate(size, t) /\ Header = 28
    BY DEF Fleet, Payload, Header
<1>2. cur_pkt_sz' + Header = size
    BY <1>1
<1> QED
    BY <1>1, <1>2 DEF SentAs, SentRate

\* calc_param leaves the rate of the next fleet in line with its size and interval.
LEMMA CalcSent ==
    ASSUME TInv, CalcSlow \/ CalcMedium \/ CalcFast
    PROVE  SentAs'
<1>1. TypeOK /\ MaxSize \in Nat /\ MinSize \in Nat /\ MinSize <= MaxSize /\ Header = 28
    BY SetupFacts DEF TInv, Header
<1>2. CASE CalcSlow
  <2> DEFINE size == WireSize(tr, SlowInterval)
  <2>1. \/ \E t \in Nat : Fleet(MinSize, t, Rate(MinSize, t))
        \/ size \in MinSize..MaxSize /\ tr < 150000 /\ Fleet(size, SlowInterval, tr)
        \/ Fleet(MaxSize, setup.min_time_interval, max_rate)
        \/ AtLimit(MaxSize, setup.min_time_interval, tr)
    <3>1. tr \in Nat \ {0} /\ tr < 150000
        BY <1>1, <1>2 DEF TypeOK, CalcSlow
    <3>2. CASE Fleet(MinSize, Interval(MinSize, tr), Rate(MinSize, Interval(MinSize, tr)))
      <4>1. Interval(MinSize, tr) \in Nat
          BY <1>1, <3>1, RintWithin DEF Interval
      <4> QED
          BY <3>2, <4>1
    <3> QED
        BY <1>2, <3>1, <3>2 DEF CalcSlow
  <2>2. CASE \E t \in Nat : Fleet(MinSize, t, Rate(MinSize, t))
      BY <1>1, <2>2, SentExactly
  <2>3. CASE size \in MinSize..MaxSize /\ tr < 150000 /\ Fleet(size, SlowInterval, tr)
    <3> HIDE DEF size
    <3>1. /\ cur_pkt_sz' = size - 28 /\ time_interval' = SlowInterval /\ tr' = tr
          /\ setup' = setup
        BY <2>3 DEF Fleet, Payload, Header
    <3>2. cur_pkt_sz' + Header = size
        BY <1>1, <2>3, <3>1
    <3>3. SlowInterval' = SlowInterval /\ MaxSize' = MaxSize
        BY <3>1 DEF SlowInterval, MaxSize
    <3> QED
        BY <2>3, <3>1, <3>2, <3>3 DEF SentAs, size
  <2>4. CASE Fleet(MaxSize, setup.min_time_interval, max_rate)
      BY <1>1, <2>4, SentExactly DEF max_rate, MaxSize
  <2>5. CASE AtLimit(MaxSize, setup.min_time_interval, tr)
      BY <2>5 DEF AtLimit, SentAs
  <2> QED
      BY <2>1, <2>2, <2>3, <2>4, <2>5
<1>3. CASE CalcMedium
  <2>1. \/ \E size \in Nat : \E t : Fleet(size, t, Rate(size, t))
        \/ phase' = "done"
    <3> DEFINE t    == Interval(MaxSize, tr)
               size == Least(WireSize(tr, t), MaxSize)
               r    == Rate(size, t)
               t2   == Max({u \in 1..t-1 : WireSize(r, u) <= MaxSize})
    <3>1. \/ phase' = "done"
          \/ Fleet(WireSize(r, t2), t2, Rate(WireSize(r, t2), t2))
          \/ Fleet(size, t, r)
        BY <1>3 DEF CalcMedium, AtLimit
    <3>2. tr \in Nat /\ MaxSize >= 228 /\ tr >= 150000 /\ tr < 600000
        BY <1>1, <1>3, SetupFacts DEF TypeOK, CalcMedium
    <3>3. size \in Nat /\ WireSize(r, t-1) \in Nat /\ t2 = t - 1
        BY <1>1, <3>2, MediumParameters
    <3> HIDE DEF t, t2
    <3>4. WireSize(r, t2) \in Nat
        BY <3>3
    <3> HIDE DEF size
    <3> QED
        BY <3>1, <3>3, <3>4
  <2>2. CASE phase' = "done"
      BY <2>2 DEF SentAs
  <2> QED
      BY <2>1, <2>2, SentExactly
<1>4. CASE CalcFast
  <2> DEFINE t == Interval(MaxSize, tr)
  <2>1. /\ cur_pkt_sz' = setup.max_pkt_sz /\ time_interval' = t
        /\ phase' # "fleet" \/ tr' = Rate(MaxSize, t) \/ exact' = FALSE
      BY <1>4 DEF CalcFast
  <2> QED
      BY <2>1 DEF SentAs, SentRate, MaxSize
<1> QED
    BY <1>2, <1>3, <1>4

\* calc_param leaves the range alone, or puts for tr_max a rate that no fleet had.
LEMMA CalcKeepsRange ==
    ASSUME TypeOK, CalcSlow \/ CalcMedium \/ CalcFast
    PROVE  exact' => exact /\ range' = range
<1>1. CASE CalcSlow \/ CalcMedium
  <2>1. \E size, t, x : Fleet(size, t, x) \/ AtLimit(size, t, x)
    <3>1. CASE CalcSlow
        BY <3>1 DEF CalcSlow
    <3>2. CASE CalcMedium
        BY <3>2 DEF CalcMedium
    <3> QED
        BY <1>1, <3>1, <3>2
  <2>2. UNCHANGED search /\ UNCHANGED fleets
      BY <2>1 DEF Fleet, AtLimit
  <2> QED
      BY <2>2 DEF search, fleets
<1>2. CASE CalcFast
  <2> DEFINE r == Rate(MaxSize, Interval(MaxSize, tr))
  <2>1. \/ range' = range /\ exact' = exact
        \/ exact' = FALSE
        \/ range' = [range EXCEPT !.tr_max = r] /\ exact' = (exact /\ r = range.tr_max)
    <3>1. CASE Equal(r, range.tr_max) /\ ~NotAbove(r, range.tr_min)
        BY <1>2, <3>1 DEF CalcFast
    <3>2. CASE ~(Equal(r, range.tr_max) /\ ~NotAbove(r, range.tr_min))
        BY <1>2, <3>2 DEF CalcFast
    <3> QED
        BY <3>1, <3>2
  <2> HIDE DEF r
  <2>2. r = range.tr_max => [range EXCEPT !.tr_max = r] = range
      BY DEF TypeOK
  <2> QED
      BY <2>1, <2>2
<1> QED
    BY <1>1, <1>2

\* Hence it keeps the bracket.
LEMMA CalcKeepsBracket ==
    ASSUME TInv, BInv, CalcSlow \/ CalcMedium \/ CalcFast
    PROVE  NothingOlder' /\ BracketHolds'
<1>1. setup' = setup /\ num' = num /\ interval_sum' = interval_sum
    BY DEF CalcSlow, CalcMedium, CalcFast, Fleet, AtLimit, fleets
<1>2. exact' => exact /\ range' = range
    BY CalcKeepsRange DEF TInv
<1> QED
    BY <1>1, <1>2 DEF BInv, NothingOlder, BracketHolds

\* A fleet on time is sent no more than half the step above its rate.
LEMMA SentNear ==
    ASSUME TInv, BInv, phase = "fleet", exact
    PROVE  SentRate(time_interval) <= tr + 50 /\ tr <= SentRate(time_interval) + 50
<1>1. /\ tr \in Nat \ {0} /\ Header = 28 /\ MinSize = 228 /\ SlowInterval \in Nat
      /\ SlowInterval >= 80 /\ cur_pkt_sz \in Nat
  <2>1. TypeOK /\ 80 \in Int /\ setup.min_time_interval \in Int
      BY SetupFacts DEF TInv
  <2>2. SlowInterval = IF 80 < setup.min_time_interval THEN setup.min_time_interval ELSE 80
      BY <2>1, MaxOfTwo DEF SlowInterval
  <2> QED
      BY <2>1, <2>2, SetupFacts DEF TypeOK, Header
<1>2. CASE tr = SentRate(time_interval)
    BY <1>1, <1>2
<1>3. CASE /\ time_interval = SlowInterval
           /\ cur_pkt_sz + Header = WireSize(tr, SlowInterval)
           /\ cur_pkt_sz + Header \in MinSize..MaxSize
  <2>1. SentRate(time_interval) = Rate(WireSize(tr, SlowInterval), SlowInterval)
      BY <1>3 DEF SentRate
  <2>2. WireSize(tr, SlowInterval) # 0
      BY <1>1, <1>3
  <2>3. /\ Rate(WireSize(tr, SlowInterval), SlowInterval) <= tr + 50
        /\ tr <= Rate(WireSize(tr, SlowInterval), SlowInterval) + 50
    <3>1. SlowInterval \in Nat \ {0} /\ 50 \in Nat /\ SlowInterval * 50 >= 4000
        BY <1>1
    <3> QED
        BY <1>1, <2>2, <3>1, RoundedRate
  <2> QED
      BY <2>1, <2>3
<1> QED
    BY <1>2, <1>3 DEF BInv, SentAs

\* A fleet sent late was slower.
LEMMA LateIsSlower ==
    ASSUME TInv, phase = "fleet", NEW t \in SentIntervals
    PROVE  SentRate(t) <= SentRate(time_interval)
<1>1. /\ time_interval \in Nat \ {0} /\ cur_pkt_sz \in Nat /\ setup.late \subseteq Nat
    BY SetupFacts DEF TInv, TypeOK, Measures
<1>2. t \in Nat /\ time_interval <= t
    BY <1>1 DEF SentIntervals
<1>3. cur_pkt_sz + Header \in Nat \ {0}
    BY <1>1 DEF Header
<1> HIDE DEF Header
<1> QED
    BY <1>1, <1>2, <1>3, RateFalls DEF SentRate

\* The sum of the intervals of no stream is 0.
LEMMA MeasuredSum ==
    ASSUME TInv, NothingOlder, phase = "fleet", NEW t \in SentIntervals, NEW k \in Nat,
           Measured(k, t)
    PROVE  NothingOlder'
<1>1. /\ num \in Nat /\ interval_sum \in Nat /\ t \in Nat
      /\ num' = num + k /\ interval_sum' = interval_sum + k * t
    BY FleetFacts DEF TInv, TypeOK, Measured
<1>2. CASE k = 0
    BY <1>1, <1>2 DEF NothingOlder
<1>3. CASE k # 0
    BY <1>1, <1>3 DEF NothingOlder
<1> QED
    BY <1>2, <1>3

\* An aborted fleet was sent above the region of the path.
LEMMA LossyKeepsBracket == ASSUME TInv, BInv, FleetLossy PROVE BInv'
<1>1. PICK t \in SentIntervals, k \in 0..Streams-1 :
         /\ Shows(t, "INCREASING") /\ Measured(k, t)
         /\ phase = "fleet" /\ rate_adjustment("INCREASING", tm, tr)
         /\ setup' = setup /\ exact' = exact
    BY DEF FleetLossy
<1>2. TypeOK /\ k \in Nat /\ SentRate(t) \in Nat
  <2>1. Streams \in Nat /\ t \in Nat \ {0}
      BY <1>1, FleetFacts
  <2> QED
      BY <2>1, <1>1, FleetFacts DEF TInv
<1>3. NothingOlder'
    BY <1>1, <1>2, MeasuredSum DEF BInv
<1>4. phase' # "fleet"
    BY LossyType
<1>5. SUFFICES ASSUME setup.steady, exact PROVE BracketHolds'
    BY <1>1, <1>3, <1>4 DEF BInv, SentAs, BracketHolds
<1>6. setup.hi < tr + Step
  <2>1. SentRate(t) > setup.hi
      BY <1>1, <1>5 DEF Shows
  <2>2. SentRate(t) <= SentRate(time_interval) /\ SentRate(time_interval) <= tr + 50
      BY <1>1, <1>5, LateIsSlower, SentNear
  <2>3. SentRate(time_interval) \in Nat /\ tr \in Nat /\ setup.hi \in Nat
    <3>1. time_interval \in Nat \ {0}
        BY <1>1 DEF TInv, TypeOK, Measures
    <3> QED
        BY <1>1, <1>2, <3>1, FleetFacts, SetupFacts DEF TypeOK
  <2> QED
      BY <1>2, <2>1, <2>2, <2>3 DEF Step
<1>7. LET n == Noted(range, "INCREASING", tr)
      IN  /\ range' = n /\ n.tr_min = range.tr_min /\ n.tr_max = tr
          /\ n.grey_max = 0 \/ n.grey_max = range.grey_max
          /\ n.grey_min = 0 \/ n.grey_min = range.grey_min
  <2>1. range \in Ranges /\ tr \in 0..Fastest /\ Fastest \in Nat
      BY <1>2, SetupFacts DEF TInv, Measures, TypeOK
  <2>2. range' = Noted(range, "INCREASING", tr)
      BY <1>1 DEF rate_adjustment
  <2> QED
      BY <2>1, <2>2, NotedIncreasing
<1> QED
    BY <1>1, <1>5, <1>6, <1>7 DEF BInv, BracketHolds

\* The mean of the intervals of one fleet is its interval.
LEMMA MeanOfOne ==
    ASSUME TInv, phase = "fleet", NEW t \in SentIntervals, num = 0, interval_sum = 0
    PROVE  (interval_sum + Streams * t) \div (num + Streams) = t
<1>1. Streams \in Nat \ {0} /\ t \in Nat /\ Streams * t \in Nat
    BY FleetFacts
<1>2. /\ (Streams * t) \div Streams \in Nat /\ (Streams * t) % Streams \in 0..Streams-1
      /\ Streams * t = Streams * ((Streams * t) \div Streams) + ((Streams * t) % Streams)
    BY <1>1, Division
<1>3. ASSUME NEW a \in Nat \ {0}, NEW b \in Nat, NEW c \in Nat, NEW d \in 0..a-1,
             a * b = a * c + d
      PROVE  c = b
  <2>1. CASE c >= b + 1
    <3>1. a * (b + 1) <= a * c /\ a * (b + 1) = a * b + a
        BY <2>1, ProductGrows, ProductStep
    <3> QED
        BY <1>3, <3>1
  <2>2. CASE b >= c + 1
    <3>1. a * (c + 1) <= a * b /\ a * (c + 1) = a * c + a
        BY <2>2, ProductGrows, ProductStep
    <3> QED
        BY <1>3, <3>1
  <2> QED
      BY <2>1, <2>2
<1>4. (Streams * t) \div Streams = t
    BY <1>1, <1>2, <1>3
<1> QED
    BY <1>1, <1>4

\* A fleet that was received was sent within the region that its trend says.
LEMMA ReceivedKeepsBracket == ASSUME TInv, BInv, FleetReceived PROVE BInv'
<1> DEFINE Mean(t) == (interval_sum + Streams * t) \div (num + Streams)
<1>1. /\ phase = "fleet" /\ setup' = setup /\ interval_sum' = 0 /\ num' = 0
      /\ TypeOK /\ Fastest \in Nat
    BY SetupFacts DEF FleetReceived, TInv
<1>2. NothingOlder' /\ phase' # "fleet"
    BY <1>1, ReceivedType DEF NothingOlder
<1>3. SUFFICES ASSUME setup.steady, exact' PROVE BracketHolds'
    BY <1>1, <1>2 DEF BInv, SentAs, BracketHolds
<1>4. PICK t \in SentIntervals :
         /\ exact' = (exact /\ num = 0)
         /\ \/ range' = range
            \/ \E trend \in Trends :
                  Shows(t, trend) /\ range' = Noted(range, trend, ActualRate(Mean(t)))
  <2>1. PICK t \in SentIntervals :
           \/ exact' = (exact /\ num = 0) /\ UNCHANGED search
           \/ \E trend \in Trends :
                 \/ /\ Shows(t, trend) /\ exact' = (exact /\ num = 0)
                    /\ rate_adjustment(trend, tm', ActualRate(Mean(t)))
                 \/ exact' = FALSE
      BY DEF FleetReceived
  <2> HIDE DEF Mean
  <2>2. CASE exact' = (exact /\ num = 0) /\ UNCHANGED search
      BY <2>2 DEF search
  <2>3. ASSUME NEW trend \in Trends, Shows(t, trend), exact' = (exact /\ num = 0),
               rate_adjustment(trend, tm', ActualRate(Mean(t)))
        PROVE  range' = Noted(range, trend, ActualRate(Mean(t)))
      BY <2>3 DEF rate_adjustment
  <2> QED
      BY <1>3, <2>1, <2>2, <2>3
<1>5. CASE range' = range
    BY <1>1, <1>3, <1>4, <1>5 DEF BInv, BracketHolds
<1>6. ASSUME NEW trend \in Trends, Shows(t, trend), range' = Noted(range, trend, ActualRate(Mean(t)))
      PROVE  BracketHolds'
  <2> DEFINE r == SentRate(t)
  <2>1. Mean(t) = t
    <3>1. num = 0 /\ interval_sum = 0
        BY <1>1, <1>3, <1>4 DEF BInv, NothingOlder
    <3> QED
        BY <1>1, <3>1, MeanOfOne
  <2>2. range' = Noted(range, trend, r)
      BY <1>6, <2>1 DEF ActualRate
  <2>3. /\ r \in 1..Fastest /\ r \in 0..Fastest /\ range \in Ranges
        /\ setup.lo \in Nat /\ setup.hi \in Nat
    <3>1. t \in Nat \ {0}
        BY <1>1, FleetFacts
    <3> QED
        BY <1>1, <3>1, FleetFacts, SetupFacts DEF TInv, Measures
  <2>4. range.tr_min \in Nat /\ range.grey_max \in Nat /\ range.grey_min \in Nat
      BY <2>3, <1>1 DEF Ranges
  <2>5. Shows(t, trend) => CASE trend = "INCREASING" -> r > setup.hi
                             [] trend = "NOTREND"    -> r < setup.lo
                             [] trend = "GREY"       -> r \in setup.lo..setup.hi
      BY <1>3 DEF Shows
  <2> HIDE DEF r
  <2>9. /\ range.tr_min # 0 => range.tr_min < setup.lo
        /\ range.tr_max # 0 => setup.hi < range.tr_max + Step
        /\ range.grey_min # 0 => setup.lo <= range.grey_min
        /\ range.grey_max # 0 => range.grey_max <= setup.hi
      BY <1>3, <1>4 DEF BInv, BracketHolds
  <2>10. SUFFICES /\ range'.tr_min # 0 => range'.tr_min < setup.lo
                  /\ range'.tr_max # 0 => setup.hi < range'.tr_max + Step
                  /\ range'.grey_min # 0 => setup.lo <= range'.grey_min
                  /\ range'.grey_max # 0 => range'.grey_max <= setup.hi
      BY <1>1 DEF BracketHolds, Step
  <2>6. CASE trend = "INCREASING"
    <3>1. r > setup.hi
        BY <1>6, <2>5, <2>6
    <3>2. /\ range'.tr_min = range.tr_min /\ range'.tr_max = r
          /\ range'.grey_max = 0 \/ range'.grey_max = range.grey_max
          /\ range'.grey_min = 0 \/ range'.grey_min = range.grey_min
        BY <1>1, <2>2, <2>3, <2>6, NotedIncreasing
    <3> QED
        BY <2>3, <2>9, <3>1, <3>2 DEF Step
  <2>7. CASE trend = "NOTREND"
    <3>1. r < setup.lo
        BY <1>6, <2>5, <2>7
    <3>2. /\ range'.tr_min = r \/ range'.tr_min = range.tr_min
          /\ range'.tr_max = range.tr_max
          /\ range'.grey_max = 0 \/ range'.grey_max = range.grey_max
          /\ range'.grey_min = 0 \/ range'.grey_min = range.grey_min
        BY <1>1, <2>2, <2>3, <2>7, NotedNotrend
    <3> QED
        BY <2>3, <2>9, <3>1, <3>2
  <2>8. CASE trend = "GREY"
    <3>1. r \in setup.lo..setup.hi
        BY <1>6, <2>5, <2>8
    <3>2. /\ range'.tr_min = range.tr_min /\ range'.tr_max = range.tr_max
          /\ range'.grey_max = r \/ range'.grey_max = range.grey_max
          /\ range'.grey_min = r \/ range'.grey_min = range.grey_min
        BY <1>1, <2>2, <2>3, <2>8, NotedGreyTrend
    <3> QED
        BY <2>3, <2>9, <3>1, <3>2
  <2> QED
      BY <2>6, <2>7, <2>8 DEF Trends
<1> QED
    BY <1>4, <1>5, <1>6
\* A fleet with few bursts is not noted, and one burst is not exact.
LEMMA BurstsKeepBracket ==
    ASSUME TInv, BInv, FleetInOneBurst \/ FleetInFewBursts
    PROVE  BInv'
<1>1. PICK t \in SentIntervals, k \in 1..Streams :
         /\ Measured(k, t) /\ phase = "fleet" /\ setup' = setup
         /\ exact' = FALSE \/ (phase' = "calc" /\ exact' = exact /\ range' = range)
    BY DEF FleetInOneBurst, FleetInFewBursts, search
<1>2. k \in Nat
    BY <1>1, FleetFacts
<1>3. NothingOlder'
    BY <1>1, <1>2, MeasuredSum DEF BInv
<1>4. SentAs'
    BY <1>1 DEF SentAs
<1>5. BracketHolds'
    BY <1>1 DEF BInv, BracketHolds
<1> QED
    BY <1>3, <1>4, <1>5 DEF BInv

\* Every step keeps the bracket.
LEMMA BracketStep == TInv /\ BInv /\ [Next]_vars => BInv'
<1> SUFFICES ASSUME TInv, BInv, [Next]_vars PROVE BInv'
    OBVIOUS
<1>1. CASE UNCHANGED vars
  <2>1. /\ phase' = phase /\ setup' = setup /\ tr' = tr /\ range' = range
        /\ cur_pkt_sz' = cur_pkt_sz /\ time_interval' = time_interval
        /\ num' = num /\ interval_sum' = interval_sum /\ exact' = exact
      BY <1>1 DEF vars, search, params, fleets
  <2>2. SentAs'
      BY <2>1 DEF BInv, SentAs, SentRate, SlowInterval, MaxSize
  <2>3. NothingOlder' /\ BracketHolds'
      BY <2>1 DEF BInv, NothingOlder, BracketHolds
  <2> QED
      BY <2>2, <2>3 DEF BInv
<1>2. CASE CalcSlow \/ CalcMedium \/ CalcFast
    BY <1>2, CalcSent, CalcKeepsBracket DEF BInv
<1>3. CASE FleetLossy
    BY <1>3, LossyKeepsBracket
<1>4. CASE FleetInOneBurst \/ FleetInFewBursts
    BY <1>4, BurstsKeepBracket
<1>5. CASE FleetReceived
    BY <1>5, ReceivedKeepsBracket
<1>6. CASE sig_alrm
  <2>1. /\ phase' = "done" /\ setup' = setup /\ range' = range
        /\ num' = num /\ interval_sum' = interval_sum /\ exact' = exact
      BY <1>6 DEF sig_alrm, search, fleets
  <2> QED
      BY <2>1 DEF BInv, SentAs, NothingOlder, BracketHolds
<1> QED
    BY <1>1, <1>2, <1>3, <1>4, <1>5, <1>6 DEF Next

\* Nothing is known at first.
LEMMA InitBracket == Init => BInv
BY DEF Init, BInv, SentAs, NothingOlder, BracketHolds

\* The bracket and what it rests on.
LEMMA BracketInvariant == Spec => [](TInv /\ BInv)
BY InitType, InitBracket, TypeStep, BracketStep, PTL DEF Spec

\* On every steady path the search keeps the region of the path between tr_min and
\* tr_max, and the grey region that it finds within the region of the path, however
\* late packets leave and whatever fleets are aborted for their losses.
THEOREM BracketCorrect == Spec => []BracketHolds
<1>1. TInv /\ BInv => BracketHolds
    BY DEF BInv
<1> QED
    BY <1>1, BracketInvariant, PTL

\* Rates within 50 kbit/s and 2 per cent are equal().
LEMMA NearEqual ==
    ASSUME NEW a \in Nat, NEW b \in Nat \ {0}, NEW d \in 0..50,
           a <= b + d, b <= a + d, 50 * d <= b
    PROVE  Equal(a, b)
<1> DEFINE diff == IF a < b THEN b - a ELSE a - b
           abs  == IF setup.int_abs THEN diff - (diff % 1000) ELSE diff
<1>1. diff \in 0..d
    OBVIOUS
<1>2. abs \in 0..d
    BY <1>1
<1>3. Equal(a, b) <=> /\ b # 0 /\ 50 * abs <= b
                      /\ abs < IF Least(a, b) < 500000 THEN 2000 ELSE 5000
    BY DEF Equal
<1> HIDE DEF abs
<1> QED
    BY <1>2, <1>3

\* The rounding of the size to bytes changes no rate by more than equal() overlooks.
LEMMA SentAsTaken == TInv /\ BInv => (setup.min_time_interval <= 30000 => FleetMakesRate)
<1> SUFFICES ASSUME TInv, BInv, setup.min_time_interval <= 30000,
                    phase = "fleet", exact
             PROVE  Equal(tr, SentRate(time_interval))
    BY DEF FleetMakesRate, SentRate
<1> DEFINE b == SentRate(time_interval)
           n == cur_pkt_sz + Header
           t == SlowInterval
<1>1. /\ TypeOK /\ time_interval \in Nat \ {0} /\ MaxSize \in Nat /\ MinSize = 228
      /\ setup.min_time_interval \in Nat /\ tr \in Nat \ {0}
    BY SetupFacts DEF TInv, TypeOK, Measures
<1>2. b \in Nat \ {0}
    BY <1>1, FleetFacts
<1>3. tr <= b + 50 /\ b <= tr + 50
    BY SentNear
<1>4. CASE tr = b
    BY <1>1, <1>2, <1>4, NearEqual
<1>5. CASE /\ time_interval = t /\ n = WireSize(tr, t) /\ n \in MinSize..MaxSize
  <2> DEFINE e == b \div 50
             r == b % 50
  <2>1. t \in Nat \ {0} /\ t <= 30000
    <3>1. 80 \in Int /\ setup.min_time_interval \in Int
        BY <1>1
    <3>2. t = IF 80 < setup.min_time_interval THEN setup.min_time_interval ELSE 80
        BY <3>1, MaxOfTwo DEF SlowInterval
    <3> QED
        BY <1>1, <3>1, <3>2
  <2>2. n \in Nat \ {0} /\ n >= 228
      BY <1>1, <1>5
  <2>3. b = Rate(n, t)
      BY <1>5 DEF SentRate
  <2> HIDE DEF n, t, b
  <2>4. 8000 * n < t * b + t
      BY <2>1, <2>2, <2>3, RateWithin
  <2>5. e \in Nat /\ r \in 0..49 /\ b = 50 * e + r
      BY <1>2
  <2> HIDE DEF e, r
  <2>6. t * e \in Nat /\ t * r \in Nat /\ t * r <= 49 * t /\ t * b = 50 * (t * e) + t * r
      BY <2>1, <2>5
  <2>7. t * e >= 4000
      BY <2>1, <2>2, <2>4, <2>6
  <2>8. tr <= b + e /\ b <= tr + e
    <3>1. WireSize(tr, t) # 0 /\ tr \in Nat \ {0} /\ b = Rate(WireSize(tr, t), t)
        BY <1>1, <1>5, <2>2, <2>3
    <3>2. /\ Rate(WireSize(tr, t), t) <= tr + e
          /\ tr <= Rate(WireSize(tr, t), t) + e
        BY <2>1, <2>5, <2>7, <3>1, RoundedRate
    <3> QED
        BY <3>1, <3>2
  <2>9. CASE e <= 50
      BY <1>1, <1>2, <2>5, <2>8, <2>9, NearEqual DEF b
  <2>10. CASE e > 50
      BY <1>1, <1>2, <1>3, <2>5, <2>10, NearEqual DEF b
  <2> QED
      BY <2>5, <2>9, <2>10
<1> QED
    BY <1>4, <1>5 DEF BInv, SentAs

\* On hosts that handle a packet within 30 ms the size and the interval that are sent
\* make the rate that the fleet is taken for, as far as equal() can tell.
THEOREM RateCorrect ==
    Spec => [](setup.min_time_interval <= 30000 => FleetMakesRate)
BY SentAsTaken, BracketInvariant, PTL
-----------------------------------------------------------------------------
(* The grey region, on Ethernet and with hosts that handle a packet in less *)
(* than 456 microseconds. A fleet that was aborted for its losses may have  *)
(* been sent above the rate it was asked for, which then is tr_max; the     *)
(* region of the path may end between the two. There the search has to      *)
(* prove that it never sends another rate.                                  *)

Ethernet == MaxSize <= 1500 /\ setup.min_time_interval < 2 * MinSize

\* tr_max is a rate that was asked for, and not above the region of the path.
Asked == range.tr_max # 0 /\ setup.hi >= range.tr_max

\* The size sent when tr_max was asked for, and the rate that it was sent at.
TopSize == WireSize(range.tr_max, SlowInterval)
Top     == Rate(TopSize, SlowInterval)

\* The fleet is sent with no more bytes than that one, and not faster.
BelowAsked ==
    time_interval >= SlowInterval /\ cur_pkt_sz + Header \in MinSize..TopSize

\* While there is such a tr_max nothing above it but that rate is sent.
AskedBelow ==
    Asked =>
        /\ range.tr_max < 150000 /\ setup.hi < Top /\ TopSize \in MinSize..MaxSize
        /\ phase \in {"calc", "fleet"} =>
              tr < Top \/ (BelowAsked /\ tr = SentRate(time_interval))
        /\ phase = "fleet" => BelowAsked

\* The grey region is known or not, and in order.
GreyKnown ==
    /\ range.grey_max = 0 <=> range.grey_min = 0
    /\ range.grey_max # 0 =>
          /\ range.grey_min <= range.grey_max
          /\ range.tr_max # 0 => range.grey_max <= range.tr_max

\* The search doubles no rate once it knows one with an increasing trend.
DoublesBelow == exp_flag /\ range.tr_max # 0 => prev_trend = "INCREASING"

GInv ==
    DoublesBelow /\ (setup.steady /\ exact /\ Ethernet => AskedBelow /\ GreyKnown)

\* The least interval below 150 Mbit/s.
LEMMA SlowIntervalType ==
    ASSUME TypeOK
    PROVE  /\ SlowInterval \in Nat \ {0} /\ SlowInterval >= 80
           /\ Ethernet => SlowInterval <= 455
<1>1. 80 \in Int /\ setup.min_time_interval \in Int /\ MinSize = 228
    BY SetupFacts
<1>2. SlowInterval = IF 80 < setup.min_time_interval THEN setup.min_time_interval ELSE 80
    BY <1>1, MaxOfTwo DEF SlowInterval
<1> QED
    BY <1>1, <1>2 DEF Ethernet

\* Between a rate r and that of its size in whole bytes, n, no size of n bytes or
\* fewer can be sent: a byte less, or a microsecond more, makes r at most.
LEMMA NothingBetween ==
    ASSUME NEW r \in Nat \ {0}, NEW s \in Nat, s >= 80, s <= 455,
           NEW n \in Nat, n = WireSize(r, s), n >= 228,
           NEW m \in Nat \ {0}, m <= n, NEW t \in Nat, t >= s, Rate(m, t) < Rate(n, s)
    PROVE  Rate(m, t) <= r
<1>1. s * r \in Nat /\ 16000 * n <= 2 * (s * r) + 8000 /\ 80 * r <= s * r /\ s * r <= 455 * r
  <2>1. 16000 * WireSize(r, s) <= 2 * (r * s) + 8000
      BY WireSizeWithin
  <2>2. s * r \in Nat /\ r * s = s * r
      OBVIOUS
  <2>3. 80 * r <= s * r /\ s * r <= 455 * r
      OBVIOUS
  <2> QED
      BY <2>1, <2>2, <2>3
<1>2. s \in Nat \ {0} /\ t \in Nat \ {0} /\ n \in Nat \ {0}
    OBVIOUS
<1>3. CASE m <= n - 1
  <2> DEFINE x == Rate(n - 1, s)
  <2>1. n - 1 \in Nat \ {0}
      OBVIOUS
  <2>2. Rate(m, t) <= Rate(m, s) /\ Rate(m, s) <= x
      BY <1>2, <1>3, <2>1, RateFalls, RateRises
  <2>3. x \in Nat \ {0}
      BY <1>2, <2>1, RateType
  <2>4. s * x <= 8000 * (n - 1) \/ x = 1
      BY <1>2, <2>1, RateWithin
  <2> HIDE DEF x
  <2>5. x <= r
    <3>1. CASE x >= r + 1 /\ x # 1
      <4>1. s * (r + 1) <= s * x
          BY <2>3, <3>1, ProductGrows
      <4>2. s * (r + 1) = s * r + s /\ s * x \in Nat
          BY <2>3
      <4> QED
          BY <1>1, <2>4, <3>1, <4>1, <4>2
    <3> QED
        BY <2>3, <3>1
  <2>6. Rate(m, t) \in Nat /\ Rate(m, s) \in Nat
      BY <1>2, RateType
  <2> QED
      BY <2>2, <2>3, <2>5, <2>6
<1>4. CASE m = n /\ t >= s + 1
  <2> DEFINE x == Rate(n, s + 1)
  <2>1. s + 1 \in Nat \ {0}
      OBVIOUS
  <2>2. Rate(m, t) <= x
      BY <1>2, <1>4, <2>1, RateFalls
  <2>3. x \in Nat \ {0}
      BY <1>2, <2>1, RateType
  <2>4. (s + 1) * x <= 8000 * n \/ x = 1
      BY <1>2, <2>1, RateWithin
  <2> HIDE DEF x
  <2>5. x <= r
    <3>1. CASE x >= r + 1 /\ x # 1
      <4>1. (s + 1) * x = s * x + x /\ s * x \in Nat
          BY <2>3
      <4>2. s * (r + 1) <= s * x
          BY <2>3, <3>1, ProductGrows
      <4>3. s * (r + 1) = s * r + s
          OBVIOUS
      <4>4. s * r + s + r + 1 <= 8000 * n
          BY <2>3, <2>4, <3>1, <4>1, <4>2, <4>3, <1>1
      <4> QED
          BY <1>1, <4>4
    <3> QED
        BY <2>3, <3>1
  <2>6. Rate(m, t) \in Nat
      BY <1>2, RateType
  <2> QED
      BY <2>2, <2>3, <2>5, <2>6
<1>5. CASE m = n /\ t = s
  <2>1. Rate(m, t) \in Nat
      BY <1>2, RateType
  <2> QED
      BY <1>5, <2>1
<1> QED
    BY <1>3, <1>4, <1>5

\* No rate up to that of n bytes needs more than n bytes.
LEMMA SizeOfRate ==
    ASSUME NEW s \in Nat \ {0}, s <= 4000, NEW n \in Nat \ {0}, NEW r \in Nat,
           r <= Rate(n, s), s * Rate(n, s) <= 8000 * n
    PROVE  WireSize(r, s) \in Nat /\ WireSize(r, s) <= n
<1>1. WireSize(r, s) \in Nat /\ 16000 * WireSize(r, s) <= 2 * (r * s) + 8000
    BY WireSizeWithin
<1>2. Rate(n, s) \in Nat
    BY RateType
<1>3. s * r <= s * Rate(n, s) /\ s * r \in Nat /\ s * r = r * s
    BY <1>2, ProductGrows
<1> QED
    BY <1>1, <1>2, <1>3

\* A rate that needs less than the least size is sent at no less than s microseconds.
LEMMA IntervalOfLeast ==
    ASSUME NEW s \in Nat \ {0}, NEW r \in Nat \ {0}, WireSize(r, s) < 228
    PROVE  Interval(228, r) >= s
<1> DEFINE t == Interval(228, r)
           a == 8000 * 228
<1>1. WireSize(r, s) \in Nat /\ 2 * (r * s) <= 16000 * WireSize(r, s) + 8000
    BY WireSizeWithin
<1>2. t \in Nat /\ 2 * a <= 2 * (r * t) + r
  <2>1. a \in Nat
      OBVIOUS
  <2> HIDE DEF a
  <2>2. Rint(a, r) \in Nat /\ 2 * a <= 2 * (r * Rint(a, r)) + r
      BY <2>1, RintWithin
  <2> QED
      BY <2>2 DEF Interval, a
<1> HIDE DEF t
<1>3. CASE t <= s - 1
  <2>1. r * (t + 1) <= r * s /\ r * (t + 1) = r * t + r
      BY <1>2, <1>3, ProductGrows, ProductStep
  <2>2. r * t \in Nat /\ r * s \in Nat
      BY <1>2
  <2> QED
      BY <1>1, <1>2, <2>1, <2>2
<1> QED
    BY <1>2, <1>3 DEF t
\* Nothing but the first rates doubles: a decision never sets exp_flag.
LEMMA NeverDoublesAgain ==
    ASSUME NEW trend \in Trends, NEW t, NEW e \in BOOLEAN, NEW r
    PROVE  Decision(trend, t, e, r).exp => e
<1> DEFINE q == Noted(range, trend, r)
<1> HIDE DEF q
<1>1. ASSUME NEW x, NEW f
      PROVE  Go(x, f, e).exp = e /\ Stop(x, f, e).exp = e /\ ~Go(x, f, FALSE).exp
             /\ ~Hang(x).exp
    BY DEF Go, Stop, Hang
<1>2. ASSUME NEW f PROVE ~radj_notrend_searching(q, r, f).exp
    BY <1>1 DEF radj_notrend_searching
<1>3. radj_notrend(q, e, r).exp => e
    BY <1>1, <1>2 DEF radj_notrend
<1>4. ~radj_notrend(q, FALSE, r).exp
    BY <1>2 DEF radj_notrend
<1>5. radj_increasing(q, e, r).exp => e
    BY <1>1, <1>2 DEF radj_increasing
<1>6. AfterIncreasing(q, t, e, r).exp => e
    BY <1>1, <1>4, <1>5 DEF AfterIncreasing
<1>7. AfterNotrend(q, t, e, r).exp => e
  <2>1. Stop(r, {}, e).exp => e
      BY <1>1
  <2> QED
      BY <1>1, <1>3, <2>1 DEF AfterNotrend
<1>8. AfterGrey(q, t, e, r).exp => e
  <2>1. ASSUME NEW x \in BOOLEAN
        PROVE  /\ radj_greymin(q, x, r).exp => x
               /\ radj_greymax(q, x, r).exp => x
               /\ Stop(r, FlagsOfConverged(q, t), x).exp => x
    <3>1. ASSUME NEW y, NEW f PROVE Go(y, f, x).exp = x /\ Stop(y, f, x).exp = x
        BY DEF Go, Stop
    <3> QED
        BY <1>1, <3>1 DEF radj_greymin, radj_greymax
  <2> DEFINE x == e /\ ~(r = q.grey_max /\ "gmx_rmx" \in t)
  <2>2. x \in BOOLEAN /\ (x => e)
      OBVIOUS
  <2>3. \/ AfterGrey(q, t, e, r) = Stop(r, FlagsOfConverged(q, t), x)
        \/ AfterGrey(q, t, e, r) = radj_greymin(q, x, r)
        \/ AfterGrey(q, t, e, r) = radj_greymax(q, x, r)
        \/ AfterGrey(q, t, e, r) = radj_notrend(q, FALSE, r)
      BY DEF AfterGrey
  <2> HIDE DEF x
  <2> QED
      BY <1>4, <2>1, <2>2, <2>3
<1> QED
    BY <1>1, <1>6, <1>7, <1>8 DEF Decision, Trends, q

\* Once tr_max is known no decision is above all that is known.
LEMMA DecisionBelow ==
    ASSUME NEW trend \in Trends, NEW t, NEW e \in BOOLEAN, NEW r \in Nat, NEW h \in Nat,
           r <= h, h >= MinRate, NEW q, q = Noted(range, trend, r),
           q.tr_min \in 0..h, q.tr_max \in 1..h, q.grey_min \in 0..h, q.grey_max \in 0..h,
           trend = "NOTREND" => ~e
    PROVE  Decision(trend, t, e, r).rate <= h
<1> DEFINE Below(d) == d.rate <= h
<1>1. ASSUME NEW a \in 0..h, NEW b \in 0..h
      PROVE  /\ Half(a + b) \in 0..h
             /\ Max({MinRate, Half(a + b)}) <= h
  <2>1. Half(a + b) \in 0..h
      BY DEF Half
  <2> QED
      BY <2>1, MaxOfTwo DEF MinRate
<1>2. Middle(q) <= h
    BY <1>1 DEF Middle
<1>3. BelowGrey(q) <= h
    BY <1>1 DEF BelowGrey
<1>4. AboveGrey(q) <= h
  <2>1. q.tr_max \in 0..h
      OBVIOUS
  <2>2. Half(q.tr_max + q.grey_max) \in 0..h
      BY <1>1, <2>1
  <2> QED
      BY <2>2 DEF AboveGrey
<1>5. Half(Least(q.grey_min, q.grey_max)) <= h
    BY DEF Half, Least
<1>6. ASSUME NEW x, x <= h, NEW f, NEW y
      PROVE  Below(Go(x, f, y)) /\ Below(Stop(x, f, y)) /\ Below(Hang(x))
    BY <1>6 DEF Go, Stop, Hang
<1> HIDE DEF Below
<1>7. ASSUME NEW f PROVE Below(radj_notrend_searching(q, r, f))
    BY <1>2, <1>3, <1>4, <1>6 DEF radj_notrend_searching
<1>8. Below(radj_notrend(q, FALSE, r))
    BY <1>7 DEF radj_notrend
<1>9. Below(radj_increasing(q, e, r))
    BY <1>2, <1>4, <1>5, <1>6, <1>7 DEF radj_increasing
<1>10. q.tr_max # 0
    OBVIOUS
<1>11. ASSUME NEW x PROVE Below(radj_greymax(q, x, r)) /\ Below(radj_greymin(q, x, r))
    BY <1>3, <1>4, <1>6, <1>10 DEF radj_greymax, radj_greymin
<1>12. Below(AfterIncreasing(q, t, e, r))
    BY <1>6, <1>8, <1>9 DEF AfterIncreasing
<1>13. ~e => Below(AfterNotrend(q, t, e, r))
  <2> SUFFICES ASSUME ~e PROVE Below(AfterNotrend(q, t, e, r))
      OBVIOUS
  <2>1. radj_notrend(q, e, r) = radj_notrend(q, FALSE, r)
      BY DEF radj_notrend
  <2> QED
      BY <1>6, <1>8, <2>1 DEF AfterNotrend
<1>14. Below(AfterGrey(q, t, e, r))
    BY <1>6, <1>8, <1>11 DEF AfterGrey
<1>15. Below(Decision(trend, t, e, r))
    BY <1>6, <1>12, <1>13, <1>14 DEF Decision, Trends
<1> QED
    BY <1>15 DEF Below

\* The calls of rate_adjustment go on for ever only where both ends of a known grey
\* region are close, below a known tr_max, and converged() does not see it.
LEMMA HangsWhenStuck ==
    ASSUME NEW trend \in Trends, NEW t, NEW e \in BOOLEAN, NEW r,
           NEW q, q = Noted(range, trend, r),
           Decision(trend, t, e, r).do = "hang"
    PROVE  /\ q.tr_max # 0 => q.tr_max = q.tr_min
           /\ \/ q.tr_max # 0 /\ trend = "GREY"
              \/ GreyAtBottom(q) /\ GreyOnTop(q)
<1>1. ASSUME NEW x, NEW f, NEW y
      PROVE  Go(x, f, y).do # "hang" /\ Stop(x, f, y).do # "hang"
    BY DEF Go, Stop
<1>2. ASSUME NEW f, radj_notrend_searching(q, r, f).do = "hang"
      PROVE  TopClose(q) /\ BottomClose(q) /\ GreyAtBottom(q) /\ GreyOnTop(q)
    BY <1>1, <1>2 DEF radj_notrend_searching
<1>3. ASSUME NEW x, radj_notrend(q, x, r).do = "hang"
      PROVE  TopClose(q) /\ BottomClose(q) /\ GreyAtBottom(q) /\ GreyOnTop(q)
    BY <1>1, <1>2, <1>3 DEF radj_notrend
<1>4. ASSUME NEW x, radj_increasing(q, x, r).do = "hang"
      PROVE  TopClose(q) /\ BottomClose(q) /\ GreyAtBottom(q) /\ GreyOnTop(q)
    BY <1>1, <1>2, <1>4 DEF radj_increasing
<1>5. ASSUME NEW x, radj_greymax(q, x, r).do = "hang" \/ radj_greymin(q, x, r).do = "hang"
      PROVE  TopClose(q) /\ BottomClose(q) /\ q.tr_max # 0
    BY <1>1, <1>5 DEF radj_greymax, radj_greymin
<1>6. /\ ~converged(q, t) /\ TopClose(q) /\ BottomClose(q)
      /\ (q.tr_max # 0 /\ trend = "GREY") \/ (GreyAtBottom(q) /\ GreyOnTop(q))
  <2>1. CASE trend = "INCREASING"
    <3>1. AfterIncreasing(q, t, e, r).do = "hang"
        BY <2>1 DEF Decision
    <3> QED
        BY <1>1, <1>3, <1>4, <3>1 DEF AfterIncreasing
  <2>2. CASE trend = "NOTREND"
    <3>1. AfterNotrend(q, t, e, r).do = "hang"
        BY <2>2 DEF Decision
    <3> QED
        BY <1>1, <1>3, <3>1 DEF AfterNotrend
  <2>3. CASE trend = "GREY"
    <3>1. AfterGrey(q, t, e, r).do = "hang"
        BY <1>1, <2>3 DEF Decision
    <3> QED
        BY <1>1, <1>3, <1>5, <2>3, <3>1 DEF AfterGrey
  <2> QED
      BY <2>1, <2>2, <2>3 DEF Trends
<1> QED
    BY <1>6 DEF converged, Judged
\* The decision after a fleet of rate r, once tr_max is known, is not above all that
\* is known: the doubling ended when tr_max became known.
LEMMA SearchBelow ==
    ASSUME TInv, phase = "fleet", DoublesBelow, NEW trend \in Trends, NEW t, NEW r \in Nat,
           rate_adjustment(trend, t, r), NEW h \in Nat, r <= h, h >= MinRate,
           range'.tr_max # 0,
           range'.tr_min \in 0..h, range'.tr_max \in 0..h,
           range'.grey_min \in 0..h, range'.grey_max \in 0..h
    PROVE  tr' <= h
<1> DEFINE turned == trend # "GREY" /\ prev_trend # "none" /\ prev_trend # trend
           e == exp_flag /\ ~turned
<1>1. /\ range' = Noted(range, trend, r) /\ tr' = Decision(trend, t, e, r).rate
    BY DEF rate_adjustment
<1>2. e \in BOOLEAN /\ range \in Ranges
    BY DEF TInv, TypeOK, Measures
<1>3. trend = "NOTREND" => ~e
  <2> SUFFICES ASSUME trend = "NOTREND" PROVE ~e
      OBVIOUS
  <2>1. Noted(range, "NOTREND", r).tr_max = range.tr_max
      BY <1>2 DEF Noted, Ranges
  <2>2. range.tr_max # 0
      BY <1>1, <2>1
  <2> QED
      BY <2>2 DEF DoublesBelow
<1> HIDE DEF e
<1>4. range'.tr_max \in 1..h
    OBVIOUS
<1> QED
    BY <1>1, <1>2, <1>3, <1>4, DecisionBelow

\* The doubling has ended once tr_max is known, whatever is noted.
LEMMA AdjustmentDoubles ==
    ASSUME TInv, DoublesBelow, NEW trend \in Trends, NEW t, NEW r,
           rate_adjustment(trend, t, r)
    PROVE  DoublesBelow'
<1> DEFINE turned == trend # "GREY" /\ prev_trend # "none" /\ prev_trend # trend
           e == exp_flag /\ ~turned
<1>1. /\ range' = Noted(range, trend, r) /\ exp_flag' = Decision(trend, t, e, r).exp
      /\ prev_trend' = IF trend = "GREY" THEN prev_trend ELSE trend
      /\ range \in Ranges /\ e \in BOOLEAN
    BY DEF rate_adjustment, TInv, TypeOK, Measures
<1>2. exp_flag' => e
  <2> HIDE DEF e
  <2> QED
      BY <1>1, NeverDoublesAgain
<1>3. CASE trend = "INCREASING"
    BY <1>1, <1>3 DEF DoublesBelow
<1>4. CASE trend # "INCREASING"
  <2>1. Noted(range, trend, r).tr_max = range.tr_max
    <3>1. CASE trend = "NOTREND"
        BY <1>1, <3>1 DEF Noted, Ranges
    <3>2. CASE trend = "GREY"
        BY <1>1, <3>2 DEF Noted, NotedGrey, FirstGrey, Ranges
    <3> QED
        BY <1>4, <3>1, <3>2 DEF Trends
  <2> QED
      BY <1>1, <1>2, <1>4, <2>1 DEF DoublesBelow, Trends
<1> QED
    BY <1>3, <1>4

\* Nor does calc_param begin to double again.
LEMMA CalcDoubles ==
    ASSUME TInv, DoublesBelow, CalcSlow \/ CalcMedium \/ CalcFast
    PROVE  DoublesBelow'
<1>1. CASE CalcSlow \/ CalcMedium
  <2>1. UNCHANGED search
    <3>1. CASE CalcSlow
        BY <3>1 DEF CalcSlow, Fleet, AtLimit
    <3>2. CASE CalcMedium
        BY <3>2 DEF CalcMedium, Fleet, AtLimit
    <3> QED
        BY <1>1, <3>1, <3>2
  <2> QED
      BY <2>1 DEF search, DoublesBelow
<1>2. CASE CalcFast
  <2> DEFINE r == Rate(MaxSize, Interval(MaxSize, tr))
             q == [range EXCEPT !.tr_max = r]
             d == radj_notrend(q, exp_flag, r)
  <2>1. /\ prev_trend' = prev_trend
        /\ exp_flag' = exp_flag \/ exp_flag' = d.exp
        /\ range' = range \/ range.tr_max # 0
    <3>1. Equal(r, range.tr_max) => range.tr_max # 0
        BY DEF Equal
    <3>2. CASE ~NotAbove(r, range.tr_min) /\ Equal(r, range.tr_max)
        BY <1>2, <3>1, <3>2 DEF CalcFast
    <3>3. CASE ~(~NotAbove(r, range.tr_min) /\ Equal(r, range.tr_max))
        BY <1>2, <3>3 DEF CalcFast
    <3> QED
        BY <3>2, <3>3
  <2> HIDE DEF q, r
  <2>2. d.exp => exp_flag
      BY DEF radj_notrend, radj_notrend_searching, Go, Hang
  <2> HIDE DEF d
  <2> QED
      BY <2>1, <2>2 DEF DoublesBelow, TInv, TypeOK
<1> QED
    BY <1>1, <1>2

\* The rate of 228 bytes or more at Ethernet's intervals, and the size it needs.
LEMMA TopWithin ==
    ASSUME NEW s \in Nat, s >= 80, s <= 455, NEW n \in Nat, n >= 228
    PROVE  /\ Rate(n, s) \in Nat /\ Rate(n, s) >= 10 /\ s * Rate(n, s) <= 8000 * n
           /\ WireSize(Rate(n, s), s) = n
<1> DEFINE x == Rate(n, s)
<1>1. n \in Nat \ {0} /\ s \in Nat \ {0} /\ 10 \in Nat /\ s * 10 <= 8000 * n
    OBVIOUS
<1>2. x \in Nat \ {0} /\ 10 <= x
    BY <1>1, RateType, RateAtLeast
<1>3. 8000 * n < s * x + s /\ (s * x <= 8000 * n \/ x = 1)
    BY <1>1, RateWithin
<1> HIDE DEF x
<1>4. s * x \in Nat /\ s * x = x * s /\ s * x <= 8000 * n
    BY <1>2, <1>3
<1>5. /\ WireSize(x, s) \in Nat /\ 2 * (x * s) <= 16000 * WireSize(x, s) + 8000
      /\ 16000 * WireSize(x, s) <= 2 * (x * s) + 8000
    BY <1>2, WireSizeWithin
<1>6. WireSize(x, s) = n
    BY <1>3, <1>4, <1>5
<1> QED
    BY <1>2, <1>4, <1>6 DEF x
\* The setup does not change, and with it what follows from it.
LEMMA SameHost ==
    ASSUME setup' = setup
    PROVE  /\ SlowInterval' = SlowInterval /\ MaxSize' = MaxSize /\ Ethernet' = Ethernet
           /\ range' = range => Asked' = Asked /\ TopSize' = TopSize /\ Top' = Top
<1>1. SlowInterval' = SlowInterval /\ MaxSize' = MaxSize
    BY DEF SlowInterval, MaxSize
<1>2. Ethernet' = Ethernet
    BY <1>1 DEF Ethernet
<1>3. range' = range => Asked' = Asked /\ TopSize' = TopSize /\ Top' = Top
    BY <1>1 DEF Asked, TopSize, Top
<1> QED
    BY <1>1, <1>2, <1>3

\* Rates above the region of the path leave the grey region in order: what does not
\* lie below them is dropped.
LEMMA GreyAfterIncreasing ==
    ASSUME TypeOK, range \in Ranges, GreyKnown, NEW r \in 1..Fastest,
           range' = Noted(range, "INCREASING", r)
    PROVE  GreyKnown'
<1>1. r \in 0..Fastest /\ Fastest \in Nat
    BY SetupFacts
<1>2. /\ range'.tr_max = r
      /\ range'.grey_max = IF range.grey_max >= r THEN 0 ELSE range.grey_max
      /\ range'.grey_min = IF range.grey_max >= r THEN 0 ELSE range.grey_min
    BY <1>1, NotedIncreasing
<1>3. range.grey_max \in Nat /\ range.grey_min \in Nat
    BY <1>1 DEF Ranges
<1> QED
    BY <1>1, <1>2, <1>3 DEF GreyKnown

\* Rates below the region of the path leave the grey region as it is.
LEMMA GreyAfterNotrend ==
    ASSUME TypeOK, range \in Ranges, GreyKnown, NEW r \in 1..Fastest,
           range.grey_min # 0 => r < range.grey_min,
           range' = Noted(range, "NOTREND", r)
    PROVE  GreyKnown'
<1>1. r \in 0..Fastest /\ Fastest \in Nat
    BY SetupFacts
<1>2. /\ range'.tr_max = range.tr_max
      /\ range'.grey_max = IF range.grey_max < r THEN 0 ELSE range.grey_max
      /\ range'.grey_min = IF range.grey_min < r \/ range.grey_max < r
                           THEN 0 ELSE range.grey_min
    BY <1>1, NotedNotrend
<1>3. range.grey_max \in Nat /\ range.grey_min \in Nat /\ range.tr_max \in Nat
    BY <1>1 DEF Ranges
<1> QED
    BY <1>1, <1>2, <1>3 DEF GreyKnown

\* A grey rate not above tr_max extends the grey region, or lies in it.
LEMMA GreyAfterGrey ==
    ASSUME TypeOK, range \in Ranges, GreyKnown, NEW r \in 1..Fastest,
           range.tr_max # 0 => r <= range.tr_max,
           range' = Noted(range, "GREY", r)
    PROVE  GreyKnown'
<1> DEFINE first == range.grey_max = 0 /\ range.grey_min = 0
<1>1. r \in 0..Fastest /\ Fastest \in Nat
    BY SetupFacts
<1>2. /\ range'.tr_max = range.tr_max
      /\ range'.grey_max = IF first \/ r >= range.grey_max THEN r ELSE range.grey_max
      /\ range'.grey_min = IF first \/ (r < range.grey_max /\ ~Inside(range, r))
                           THEN r ELSE range.grey_min
    BY <1>1, NotedGreyTrend
<1>3. range.grey_max \in Nat /\ range.grey_min \in Nat /\ range.tr_max \in Nat
    BY <1>1 DEF Ranges
<1> QED
    BY <1>1, <1>2, <1>3 DEF GreyKnown, Inside

\* While tr_max is a rate asked for, the ends of the range are within the region of
\* the path.
LEMMA KnownBelow ==
    ASSUME TypeOK, setup' = setup, range' \in Ranges, BracketHolds', GreyKnown',
           setup.steady, exact', Asked', NEW h \in Nat, setup.hi <= h
    PROVE  /\ range'.tr_max # 0
           /\ range'.tr_min \in 0..h /\ range'.tr_max \in 0..h
           /\ range'.grey_min \in 0..h /\ range'.grey_max \in 0..h
<1>1. /\ range'.tr_min \in Nat /\ range'.tr_max \in Nat
      /\ range'.grey_min \in Nat /\ range'.grey_max \in Nat
      /\ setup.lo \in Nat /\ setup.hi \in Nat /\ setup.lo <= setup.hi
    BY SetupFacts DEF Ranges
<1> QED
    BY <1>1 DEF BracketHolds, GreyKnown, Asked

\* A fleet that was cut off for its losses was sent above the region of the path; if
\* its rate was asked for below that, its packets are those that tr_max now stands for.
LEMMA LossyKeepsGrey ==
    ASSUME TInv, BInv, GInv, TInv', BInv', FleetLossy, setup.steady, exact', Ethernet
    PROVE  AskedBelow' /\ GreyKnown'
<1>1. PICK t \in SentIntervals, k \in 0..Streams-1 :
         /\ Shows(t, "INCREASING")
         /\ phase = "fleet" /\ rate_adjustment("INCREASING", tm, tr)
         /\ setup' = setup /\ exact' = exact /\ UNCHANGED params
    BY DEF FleetLossy
<1>2. /\ TypeOK /\ range \in Ranges /\ tr \in Nat \ {0} /\ tr \in 1..Fastest
      /\ setup.lo \in Nat /\ setup.hi \in Nat /\ setup.lo <= setup.hi
      /\ time_interval \in Nat \ {0} /\ phase' \in {"calc", "done", "hung"}
      /\ AskedBelow /\ GreyKnown /\ DoublesBelow /\ exact
    BY <1>1, SetupFacts, LossyType DEF TInv, TypeOK, Measures, GInv
<1>3. range' = Noted(range, "INCREASING", tr)
    BY <1>1 DEF rate_adjustment
<1>4. GreyKnown'
    BY <1>2, <1>3, GreyAfterIncreasing
<1>5. range'.tr_max = tr
    BY <1>2, <1>3 DEF Noted, Ranges
<1>6. SUFFICES ASSUME Asked' PROVE AskedBelow'
    BY <1>4 DEF AskedBelow
<1>7. tr <= setup.hi /\ setup.hi < SentRate(t) /\ SentRate(t) <= SentRate(time_interval)
    BY <1>1, <1>5, <1>6, LateIsSlower DEF Asked, Shows
<1>8. SentRate(t) \in Nat /\ SentRate(time_interval) \in Nat /\ time_interval \in Nat \ {0}
  <2>1. t \in Nat \ {0}
      BY <1>1, FleetFacts
  <2> QED
      BY <1>1, <1>2, <2>1, FleetFacts
<1>9. /\ tr < 150000 /\ time_interval = SlowInterval
      /\ cur_pkt_sz + Header = WireSize(tr, SlowInterval)
      /\ cur_pkt_sz + Header \in MinSize..MaxSize
    BY <1>1, <1>2, <1>7, <1>8 DEF BInv, SentAs
<1>10. SlowInterval' = SlowInterval /\ MaxSize' = MaxSize /\ MinSize' = MinSize
    BY <1>1, SameHost DEF MinSize
<1>11. TopSize' = cur_pkt_sz + Header /\ Top' = SentRate(time_interval)
    BY <1>5, <1>9, <1>10 DEF TopSize, Top, SentRate
<1> DEFINE h == SentRate(time_interval) - 1
<1>12. h \in Nat /\ setup.hi <= h /\ tr <= h /\ h >= MinRate
  <2>1. SlowInterval \in Nat /\ SlowInterval >= 80 /\ SlowInterval <= 455 /\ MinSize = 228
      BY <1>2, SlowIntervalType, SetupFacts
  <2> DEFINE n == cur_pkt_sz + Header
  <2>2. n \in Nat /\ n >= 228 /\ SentRate(time_interval) = Rate(n, SlowInterval)
      BY <1>2, <1>9, <2>1, SetupFacts DEF SentRate
  <2>3. SentRate(time_interval) >= 10
      BY <2>1, <2>2, TopWithin
  <2> QED
      BY <1>2, <1>7, <1>8, <2>3 DEF MinRate
<1>13. tr' <= h
  <2>0. range' \in Ranges /\ BracketHolds'
    <3>1. tr \in 0..Fastest /\ Fastest \in Nat
        BY <1>2, SetupFacts
    <3> QED
        BY <1>2, <1>3, <3>1, NotedIncreasing DEF BInv
  <2> HIDE DEF h
  <2>1. /\ range'.tr_max # 0
        /\ range'.tr_min \in 0..h /\ range'.tr_max \in 0..h
        /\ range'.grey_min \in 0..h /\ range'.grey_max \in 0..h
      BY <1>1, <1>2, <1>4, <1>6, <1>12, <2>0, KnownBelow
  <2>2. "INCREASING" \in Trends /\ tr \in Nat
      BY <1>2 DEF Trends
  <2> QED
      BY <1>1, <1>2, <1>12, <2>1, <2>2, SearchBelow
<1>14. tr' < Top' /\ setup'.hi < Top'
  <2>1. tr' \in Nat
      BY DEF TInv, TypeOK
  <2> QED
      BY <1>1, <1>2, <1>7, <1>8, <1>11, <1>13, <2>1
<1> QED
    BY <1>2, <1>5, <1>9, <1>10, <1>11, <1>14 DEF AskedBelow

\* A fleet under way that was asked for below such a tr_max, and did not show an
\* increasing trend, was not sent above tr_max.
LEMMA GreyIsBelowAsked ==
    ASSUME TInv, AskedBelow, Asked, Ethernet, phase = "fleet",
           NEW t \in SentIntervals, SentRate(t) <= setup.hi
    PROVE  SentRate(t) <= range.tr_max
<1>1. /\ TypeOK /\ range.tr_max \in Nat \ {0} /\ setup.hi \in Nat
      /\ time_interval \in Nat \ {0} /\ cur_pkt_sz \in Nat /\ setup.late \subseteq Nat
      /\ MinSize = 228
    BY SetupFacts DEF TInv, TypeOK, Measures, Asked
<1>2. /\ setup.hi < Top /\ TopSize \in MinSize..MaxSize
      /\ time_interval >= SlowInterval /\ cur_pkt_sz + Header \in MinSize..TopSize
    BY DEF AskedBelow, BelowAsked
<1>3. t \in Nat /\ t >= time_interval
    BY <1>1 DEF SentIntervals
<1> DEFINE r == range.tr_max
           s == SlowInterval
           n == TopSize
           m == cur_pkt_sz + Header
<1>4. /\ s \in Nat /\ s >= 80 /\ s <= 455 /\ n \in Nat /\ n = WireSize(r, s) /\ n >= 228
      /\ m \in Nat \ {0} /\ m <= n /\ t >= s
  <2>1. s \in Nat /\ s >= 80 /\ s <= 455
      BY <1>1, SlowIntervalType
  <2>2. MaxSize \in Nat
      BY <1>1, SetupFacts
  <2> QED
      BY <1>1, <1>2, <1>3, <2>1, <2>2 DEF TopSize
<1>5. Rate(m, t) < Rate(n, s)
  <2>1. Rate(m, t) = SentRate(t) /\ Rate(n, s) = Top
      BY DEF SentRate, Top
  <2>2. Rate(m, t) \in Nat /\ Rate(n, s) \in Nat
    <3>1. t \in Nat \ {0} /\ s \in Nat \ {0} /\ n \in Nat \ {0}
        BY <1>1, <1>3, <1>4
    <3> HIDE DEF m, n, s
    <3> QED
        BY <1>4, <3>1, RateType
  <2> QED
      BY <1>1, <1>2, <2>1, <2>2
<1>6. Rate(m, t) <= r
  <2> HIDE DEF m, n, s, r
  <2>1. r \in Nat \ {0}
      BY <1>1 DEF r
  <2> QED
      BY <1>3, <1>4, <1>5, <2>1, NothingBetween
<1> QED
    BY <1>6 DEF SentRate

\* A received fleet moves an end of the range within what the rate sent shows, or is
\* repeated at the rate it was sent at.
LEMMA ReceivedKeepsGrey ==
    ASSUME TInv, BInv, GInv, TInv', BInv', FleetReceived, setup.steady, exact', Ethernet
    PROVE  AskedBelow' /\ GreyKnown'
<1> DEFINE Mean(t) == (interval_sum + Streams * t) \div (num + Streams)
<1>1. PICK t \in SentIntervals :
         /\ time_interval' = Mean(t) /\ exact /\ num = 0
         /\ \/ UNCHANGED search /\ tr' = ActualRate(Mean(t))
            \/ \E trend \in Trends :
                  Shows(t, trend) /\ rate_adjustment(trend, tm', ActualRate(Mean(t)))
  <2>1. PICK t \in SentIntervals :
           /\ time_interval' = Mean(t)
           /\ \/ /\ exact' = (exact /\ num = 0)
                 /\ UNCHANGED search /\ tr' = ActualRate(Mean(t))
              \/ \E trend \in Trends :
                    \/ /\ Shows(t, trend) /\ exact' = (exact /\ num = 0)
                       /\ rate_adjustment(trend, tm', ActualRate(Mean(t)))
                    \/ exact' = FALSE
      BY DEF FleetReceived
  <2> HIDE DEF Mean
  <2> QED
      BY <2>1
<1>2. /\ phase = "fleet" /\ setup' = setup /\ cur_pkt_sz' = cur_pkt_sz
      /\ phase' \in {"calc", "done", "hung"}
    BY ReceivedType DEF FleetReceived
<1> DEFINE r == SentRate(t)
<1>3. time_interval' = t /\ ActualRate(Mean(t)) = r
  <2>1. interval_sum = 0
      BY <1>1 DEF BInv, NothingOlder
  <2> QED
      BY <1>1, <1>2, <2>1, MeanOfOne DEF ActualRate
<1> HIDE DEF Mean
<1>4. /\ TypeOK /\ range \in Ranges /\ r \in Nat /\ r \in 1..Fastest
      /\ setup.lo \in Nat /\ setup.hi \in Nat /\ setup.lo <= setup.hi
      /\ AskedBelow /\ GreyKnown /\ DoublesBelow
      /\ range.grey_min \in Nat
  <2>1. r \in 1..Fastest /\ range \in Ranges /\ Fastest \in Nat
      BY <1>2, FleetFacts, SetupFacts DEF TInv, Measures
  <2>2. r \in Nat /\ range.grey_min \in Nat
      BY <2>1 DEF Ranges
  <2> HIDE DEF r
  <2> QED
      BY <1>1, <2>1, <2>2, SetupFacts DEF TInv, GInv
<1>5. /\ SlowInterval' = SlowInterval /\ MaxSize' = MaxSize /\ MinSize' = MinSize
      /\ range' = range => Asked' = Asked /\ TopSize' = TopSize /\ Top' = Top
    BY <1>2, SameHost DEF MinSize
<1>6. CASE UNCHANGED search /\ tr' = r
  <2>1. range' = range
      BY <1>6 DEF search
  <2>2. GreyKnown'
      BY <1>4, <2>1 DEF GreyKnown
  <2>3. SUFFICES ASSUME Asked PROVE AskedBelow'
      BY <1>5, <2>1, <2>2 DEF AskedBelow
  <2>4. BelowAsked /\ time_interval <= t
    <3>1. t \in Nat /\ time_interval <= t
        BY SetupFacts DEF SentIntervals, TInv, TypeOK
    <3> QED
        BY <1>2, <1>4, <2>3, <3>1 DEF AskedBelow
  <2>5. BelowAsked'
    <3>1. time_interval \in Nat /\ t \in Nat /\ SlowInterval \in Nat
        BY <1>4, <1>2, SlowIntervalType, FleetFacts DEF TypeOK
    <3> QED
        BY <1>2, <1>3, <1>5, <2>1, <2>4, <3>1 DEF BelowAsked
  <2>6. tr' = SentRate(time_interval)'
      BY <1>2, <1>3, <1>6 DEF SentRate
  <2> QED
      BY <1>2, <1>4, <1>5, <2>1, <2>3, <2>5, <2>6 DEF AskedBelow
<1>7. ASSUME NEW trend \in Trends, Shows(t, trend), rate_adjustment(trend, tm', r)
      PROVE  AskedBelow' /\ GreyKnown'
  <2>1. range' = Noted(range, trend, r)
      BY <1>7 DEF rate_adjustment
  <2>2. CASE trend = "INCREASING"
    <3>1. GreyKnown'
        BY <1>4, <2>1, <2>2, GreyAfterIncreasing
    <3>2. r > setup.hi
        BY <1>7, <2>2 DEF Shows
    <3>3. range'.tr_max = r
        BY <1>4, <2>1, <2>2 DEF Noted, Ranges
    <3>4. ~Asked'
        BY <1>2, <1>4, <3>2, <3>3 DEF Asked
    <3> QED
        BY <3>1, <3>4 DEF AskedBelow
  <2>3. CASE trend # "INCREASING"
    <3>1. r <= setup.hi /\ range'.tr_max = range.tr_max
      <4>1. CASE trend = "NOTREND"
        <5>1. r < setup.lo
            BY <1>7, <4>1 DEF Shows
        <5> HIDE DEF r
        <5>2. range'.tr_max = range.tr_max
            BY <1>4, <2>1, <4>1 DEF Noted, Ranges
        <5> QED
            BY <1>4, <5>1, <5>2
      <4>2. CASE trend = "GREY"
        <5>1. r \in setup.lo..setup.hi
            BY <1>7, <4>2 DEF Shows
        <5> QED
            BY <1>4, <2>1, <4>2, <5>1 DEF Noted, NotedGrey, FirstGrey, Ranges
      <4> QED
          BY <2>3, <4>1, <4>2 DEF Trends
    <3>2. GreyKnown'
      <4>1. CASE trend = "NOTREND"
        <5>1. r < setup.lo /\ (range.grey_min # 0 => setup.lo <= range.grey_min)
            BY <1>1, <1>7, <4>1 DEF Shows, BInv, BracketHolds
        <5> QED
            BY <1>4, <2>1, <4>1, <5>1, GreyAfterNotrend
      <4>2. CASE trend = "GREY"
        <5>1. range.tr_max # 0 => r <= range.tr_max
          <6>1. CASE Asked
              BY <1>2, <1>4, <3>1, <6>1, GreyIsBelowAsked
          <6>2. CASE ~Asked
            <7>1. range.tr_max \in Nat
                BY <1>4 DEF TypeOK
            <7> QED
                BY <1>4, <3>1, <6>2, <7>1 DEF Asked
          <6> QED
              BY <6>1, <6>2
        <5> QED
            BY <1>4, <2>1, <4>2, <5>1, GreyAfterGrey
      <4> QED
          BY <2>3, <4>1, <4>2 DEF Trends
    <3>3. SUFFICES ASSUME Asked PROVE AskedBelow'
        BY <1>2, <3>1, <3>2 DEF AskedBelow, Asked
    <3>4. /\ TopSize' = TopSize /\ Top' = Top /\ Asked'
        BY <1>2, <1>5, <3>1, <3>3 DEF TopSize, Top, Asked
    <3>5. setup.hi < Top /\ TopSize \in MinSize..MaxSize /\ range.tr_max < 150000
        BY <1>4, <3>3 DEF AskedBelow
    <3> DEFINE h == Top - 1
    <3>6. Top \in Nat /\ h \in Nat /\ setup.hi <= h /\ r <= h /\ h >= MinRate
      <4>1. SlowInterval \in Nat /\ SlowInterval >= 80 /\ SlowInterval <= 455
          BY <1>4, SlowIntervalType
      <4>2. TopSize \in Nat /\ TopSize >= 228
          BY <1>4, <3>5, SetupFacts
      <4>3. Top \in Nat /\ Top >= 10
          BY <4>1, <4>2, TopWithin DEF Top
      <4> HIDE DEF r
      <4> QED
          BY <1>4, <3>1, <3>5, <4>3 DEF MinRate
    <3>7. tr' <= h
      <4>1. range' \in Ranges /\ BracketHolds'
        <5>1. r \in 0..Fastest /\ EndsKnown(range) /\ Fastest \in Nat
            BY <1>4, SetupFacts DEF TInv, Measures
        <5> QED
            BY <1>4, <2>1, <5>1, NotedType DEF BInv
      <4> HIDE DEF h
      <4>2. /\ range'.tr_max # 0
            /\ range'.tr_min \in 0..h /\ range'.tr_max \in 0..h
            /\ range'.grey_min \in 0..h /\ range'.grey_max \in 0..h
          BY <1>2, <1>4, <3>2, <3>4, <3>6, <4>1, KnownBelow
      <4> HIDE DEF r
      <4> QED
          BY <1>2, <1>4, <1>7, <3>6, <4>2, SearchBelow
    <3>8. tr' < Top
      <4>1. tr' \in Nat
          BY DEF TInv, TypeOK
      <4> QED
          BY <3>6, <3>7, <4>1
    <3> QED
        BY <1>2, <1>5, <3>1, <3>4, <3>5, <3>8 DEF AskedBelow
  <2> QED
      BY <2>2, <2>3
<1> QED
    BY <1>1, <1>3, <1>6, <1>7

\* calc_param sends nothing above such a tr_max but the packets it stands for, and
\* stops when they are those at 150 Mbit/s.
LEMMA CalcKeepsGrey ==
    ASSUME TInv, BInv, GInv, CalcSlow \/ CalcMedium \/ CalcFast,
           setup.steady, exact', Ethernet
    PROVE  AskedBelow' /\ GreyKnown'
<1>1. /\ exact /\ range' = range /\ setup' = setup /\ phase = "calc"
  <2>1. setup' = setup /\ phase = "calc"
    <3>1. CASE CalcSlow
        BY <3>1 DEF CalcSlow, Fleet, AtLimit
    <3>2. CASE CalcMedium
        BY <3>2 DEF CalcMedium, Fleet, AtLimit
    <3>3. CASE CalcFast
        BY <3>3 DEF CalcFast
    <3> QED
        BY <3>1, <3>2, <3>3
  <2>2. exact /\ range' = range
      BY CalcKeepsRange DEF TInv
  <2> QED
      BY <2>1, <2>2
<1>2. /\ TypeOK /\ range \in Ranges /\ tr \in Nat \ {0}
      /\ MaxSize \in Nat /\ MaxSize <= 1500 /\ MinSize = 228 /\ Header = 28
      /\ AskedBelow /\ GreyKnown /\ cur_pkt_sz \in Nat /\ time_interval \in Nat
    BY <1>1, SetupFacts DEF TInv, TypeOK, Measures, GInv, Ethernet, Header
<1>3. GreyKnown'
    BY <1>1, <1>2 DEF GreyKnown
<1>4. SUFFICES ASSUME Asked PROVE AskedBelow'
    BY <1>1, <1>3 DEF AskedBelow, Asked
<1>5. /\ range.tr_max < 150000 /\ setup.hi < Top /\ TopSize \in MinSize..MaxSize
      /\ tr < Top \/ (BelowAsked /\ tr = SentRate(time_interval))
    BY <1>1, <1>2, <1>4 DEF AskedBelow
<1>6. /\ SlowInterval' = SlowInterval /\ MaxSize' = MaxSize /\ MinSize' = MinSize
      /\ TopSize' = TopSize /\ Top' = Top
    BY <1>1, SameHost DEF MinSize
<1> DEFINE s == SlowInterval
           n == TopSize
           size == WireSize(tr, s)
<1>7. /\ s \in Nat /\ s >= 80 /\ s <= 455 /\ n \in Nat /\ n >= 228 /\ n <= MaxSize
      /\ Top \in Nat /\ s * Top <= 8000 * n /\ WireSize(Top, s) = n /\ Top = Rate(n, s)
  <2>1. s \in Nat /\ s >= 80 /\ s <= 455
      BY <1>2, SlowIntervalType
  <2>2. n \in Nat /\ n >= 228 /\ n <= MaxSize
      BY <1>2, <1>5
  <2>3. Top = Rate(n, s)
      BY DEF Top
  <2> HIDE DEF n, s
  <2> QED
      BY <2>1, <2>2, <2>3, TopWithin
<1> HIDE DEF n, s, size
<1>8. tr <= Top
  <2>1. CASE BelowAsked /\ tr = SentRate(time_interval)
    <3> DEFINE m == cur_pkt_sz + Header
    <3>1. /\ tr = Rate(m, time_interval) /\ m \in Nat \ {0} /\ m <= n
          /\ time_interval >= s
        BY <1>2, <1>5, <1>7, <2>1 DEF BelowAsked, SentRate, n, s
    <3> HIDE DEF m
    <3>2. Rate(m, time_interval) <= Rate(m, s) /\ Rate(m, s) <= Rate(n, s)
        BY <1>2, <1>7, <3>1, RateFalls, RateRises
    <3>3. Rate(m, s) \in Nat
        BY <1>7, <3>1, RateType
    <3> QED
        BY <1>2, <1>7, <3>1, <3>2, <3>3
  <2> QED
      BY <1>2, <1>5, <1>7, <2>1
<1>9. size \in Nat /\ size <= n
    BY <1>2, <1>7, <1>8, SizeOfRate DEF size
<1>10. Top <= 150000
  <2>1. 80 * Top <= s * Top
      BY <1>7
  <2> QED
      BY <1>2, <1>7, <2>1
<1>11. ASSUME NEW m \in MinSize..TopSize, NEW t \in Nat, t >= SlowInterval, NEW x,
              Fleet(m, t, x), x < Top \/ x = Rate(m, t)
       PROVE  AskedBelow'
  <2>1. cur_pkt_sz' = m - 28 /\ time_interval' = t /\ tr' = x
      BY <1>2, <1>11 DEF Fleet, Payload
  <2>2. cur_pkt_sz' + Header = m
      BY <1>2, <1>5, <1>7, <2>1 DEF n
  <2>3. BelowAsked'
      BY <1>6, <1>11, <2>1, <2>2 DEF BelowAsked
  <2>4. tr' < Top \/ tr' = SentRate(time_interval)'
      BY <1>11, <2>1, <2>2 DEF SentRate
  <2> QED
      BY <1>1, <1>5, <1>6, <2>3, <2>4 DEF AskedBelow
<1>12. CASE CalcSlow
  <2>1. \/ size < MinSize /\ Fleet(MinSize, Interval(MinSize, tr),
                                   Rate(MinSize, Interval(MinSize, tr)))
        \/ size \in MinSize..MaxSize /\ Fleet(size, SlowInterval, tr)
    <3>1. ~(size > MaxSize)
        BY <1>2, <1>7, <1>9
    <3> QED
        BY <1>12, <3>1 DEF CalcSlow, size, s
  <2>2. CASE size < MinSize /\ Fleet(MinSize, Interval(MinSize, tr),
                                     Rate(MinSize, Interval(MinSize, tr)))
    <3> DEFINE t == Interval(MinSize, tr)
    <3>1. t \in Nat /\ t >= s
      <4>1. WireSize(tr, s) < 228 /\ s \in Nat \ {0}
          BY <1>2, <1>7, <2>2 DEF size
      <4>2. t \in Nat
          BY <1>2, RintWithin DEF Interval
      <4> QED
          BY <1>2, <4>1, <4>2, IntervalOfLeast
    <3>2. Fleet(MinSize, t, Rate(MinSize, t))
        BY <2>2
    <3> HIDE DEF t
    <3>3. MinSize \in MinSize..TopSize
        BY <1>2, <1>7 DEF n
    <3> QED
        BY <3>1, <3>2, <3>3, <1>11 DEF s
  <2>3. CASE size \in MinSize..MaxSize /\ Fleet(size, SlowInterval, tr)
    <3>1. size \in MinSize..TopSize
        BY <1>2, <1>7, <1>9, <2>3 DEF n
    <3>2. tr = Top => size = n /\ tr = Rate(size, SlowInterval)
        BY <1>7 DEF size, s
    <3>3. tr < Top \/ tr = Rate(size, SlowInterval)
        BY <1>2, <1>7, <1>8, <3>2
    <3>4. SlowInterval \in Nat /\ SlowInterval >= SlowInterval
        BY <1>7 DEF s
    <3> QED
        BY <2>3, <3>1, <3>3, <3>4, <1>11
  <2> QED
      BY <2>1, <2>2, <2>3
<1>13. CASE CalcMedium
  <2>1. tr = Top /\ Top = 150000
      BY <1>2, <1>7, <1>8, <1>10, <1>13 DEF CalcMedium
  <2>2. BelowAsked /\ Rate(cur_pkt_sz + Header, time_interval) = 150000
      BY <1>5, <2>1 DEF SentRate
  <2> DEFINE m == cur_pkt_sz + Header
             t == time_interval
  <2>3. m \in Nat \ {0} /\ m >= 228 /\ m <= n /\ t \in Nat \ {0} /\ t >= 80
      BY <1>2, <1>7, <2>2 DEF BelowAsked, n, s
  <2>4. Rate(m, t) = 150000
      BY <2>2
  <2> HIDE DEF m, t
  <2>5. t * Rate(m, t) <= 8000 * m
    <3> DEFINE x == Rate(m, t)
    <3>1. x # 1
        BY <2>4
    <3>2. t * x <= 8000 * m \/ (x = 1 /\ 8000 * m < t)
        BY <2>3, RateWithin
    <3> HIDE DEF x
    <3>3. t * x <= 8000 * m
        BY <3>1, <3>2
    <3> QED
        BY <3>3 DEF x
  <2>6. m = 1500 /\ t = 80 /\ MaxSize = 1500
      BY <1>2, <1>7, <2>3, <2>4, <2>5
  <2>7. Interval(MaxSize, tr) = 80
      BY <2>1, <2>6 DEF Interval, Rint
  <2>8. cur_pkt_sz = setup.max_pkt_sz /\ time_interval = Interval(MaxSize, tr)
      BY <1>2, <2>6, <2>7, SetupFacts DEF MaxSize, m, t
  <2>9. phase' = "done"
      BY <1>13, <2>8 DEF CalcMedium, AtLimit
  <2> QED
      BY <1>1, <1>5, <1>6, <2>9 DEF AskedBelow
<1>14. CASE CalcFast
    BY <1>2, <1>7, <1>8, <1>10, <1>14 DEF CalcFast
<1> QED
    BY <1>12, <1>13, <1>14

\* Every step keeps the grey region in order.
LEMMA GreyStep == TInv /\ TInv' /\ BInv /\ BInv' /\ GInv /\ [Next]_vars => GInv'
<1> SUFFICES ASSUME TInv, TInv', BInv, BInv', GInv, [Next]_vars PROVE GInv'
    OBVIOUS
<1>1. CASE \/ UNCHANGED vars
           \/ sig_alrm
           \/ FleetInFewBursts
  <2>1. /\ setup' = setup /\ UNCHANGED <<tr, search, params, exact>>
        /\ phase' = phase \/ phase' = "done" \/ (phase = "fleet" /\ phase' = "calc")
    <3>1. CASE UNCHANGED vars
        BY <3>1 DEF vars, fleets
    <3>2. CASE sig_alrm
        BY <3>2 DEF sig_alrm, fleets
    <3>3. CASE FleetInFewBursts
        BY <3>3 DEF FleetInFewBursts
    <3> QED
        BY <1>1, <3>1, <3>2, <3>3
  <2>2. /\ range' = range /\ exp_flag' = exp_flag /\ prev_trend' = prev_trend /\ tr' = tr
        /\ cur_pkt_sz' = cur_pkt_sz /\ time_interval' = time_interval /\ exact' = exact
      BY <2>1 DEF search, params
  <2>3. /\ Asked' = Asked /\ TopSize' = TopSize /\ Top' = Top /\ Ethernet' = Ethernet
        /\ SlowInterval' = SlowInterval /\ MaxSize' = MaxSize /\ MinSize' = MinSize
      BY <2>1, <2>2, SameHost DEF MinSize
  <2>4. BelowAsked' = BelowAsked /\ SentRate(time_interval)' = SentRate(time_interval)
      BY <2>2, <2>3 DEF BelowAsked, SentRate
  <2>5. DoublesBelow' /\ (GreyKnown => GreyKnown')
      BY <2>2 DEF GInv, DoublesBelow, GreyKnown
  <2>6. AskedBelow => AskedBelow'
      BY <2>1, <2>2, <2>3, <2>4 DEF AskedBelow
  <2> QED
      BY <2>1, <2>2, <2>3, <2>5, <2>6 DEF GInv
<1>2. CASE CalcSlow \/ CalcMedium \/ CalcFast
  <2>1. setup' = setup
      BY <1>2 DEF CalcSlow, CalcMedium, CalcFast, Fleet, AtLimit
  <2>2. DoublesBelow'
      BY <1>2, CalcDoubles DEF GInv
  <2> QED
      BY <1>2, <2>1, <2>2, CalcKeepsGrey, SameHost DEF GInv
<1>3. CASE FleetLossy
  <2>1. setup' = setup /\ rate_adjustment("INCREASING", tm, tr)
      BY <1>3 DEF FleetLossy
  <2>2. DoublesBelow'
      BY <2>1, AdjustmentDoubles DEF GInv, Trends
  <2> QED
      BY <1>3, <2>1, <2>2, LossyKeepsGrey, SameHost DEF GInv
<1>4. CASE FleetInOneBurst
  <2>1. exact' = FALSE /\ rate_adjustment("INCREASING", tm, tr)
      BY <1>4 DEF FleetInOneBurst
  <2>2. DoublesBelow'
      BY <2>1, AdjustmentDoubles DEF GInv, Trends
  <2> QED
      BY <2>1, <2>2 DEF GInv
<1>5. CASE FleetReceived
  <2>1. setup' = setup
      BY <1>5 DEF FleetReceived
  <2>2. DoublesBelow'
    <3>1. UNCHANGED search \/ \E trend \in Trends : \E r : rate_adjustment(trend, tm', r)
        BY <1>5 DEF FleetReceived
    <3>2. CASE UNCHANGED search
        BY <3>2 DEF search, GInv, DoublesBelow
    <3> QED
        BY <3>1, <3>2, AdjustmentDoubles DEF GInv
  <2> QED
      BY <1>5, <2>1, <2>2, ReceivedKeepsGrey, SameHost DEF GInv
<1> QED
    BY <1>1, <1>2, <1>3, <1>4, <1>5 DEF Next

\* No range is known at first.
LEMMA InitGrey == Init => GInv
BY DEF Init, GInv, DoublesBelow, AskedBelow, Asked, GreyKnown

\* The grey region and what it rests on.
LEMMA GreyInvariant == Spec => [](TInv /\ BInv /\ GInv)
<1>1. Init => TInv /\ BInv /\ GInv
    BY InitType, InitBracket, InitGrey
<1>2. TInv /\ BInv /\ GInv /\ [Next]_vars => (TInv /\ BInv /\ GInv)'
    BY TypeStep, BracketStep, GreyStep
<1> QED
    BY <1>1, <1>2, PTL DEF Spec

\* With packets that Ethernet carries, on hosts that handle one in less than 456
\* microseconds, the grey region is known at both ends or at none, and in order between
\* tr_min and tr_max: no trend moves one end past the other.
THEOREM GreyCorrect == Spec => [](Ethernet => GreyRegionNested)
<1>1. TInv /\ BInv /\ GInv => (Ethernet => GreyRegionNested)
  <2> SUFFICES ASSUME TInv, BInv, GInv, Ethernet, setup.steady, exact
               PROVE  /\ range.grey_max = 0 <=> range.grey_min = 0
                      /\ range.grey_max # 0 =>
                            /\ range.tr_min <= range.grey_min
                            /\ range.grey_min <= range.grey_max
                            /\ range.tr_max # 0 => range.grey_max <= range.tr_max
      BY DEF GreyRegionNested
  <2>1. /\ range.tr_min \in Nat /\ range.grey_min \in Nat /\ setup.lo \in Nat
        /\ GreyKnown /\ BracketHolds
      BY SetupFacts DEF TInv, TypeOK, BInv, GInv
  <2> QED
      BY <2>1 DEF GreyKnown, BracketHolds
<1> QED
    BY <1>1, GreyInvariant, PTL

-----------------------------------------------------------------------------
(* No endless recursion.                                                    *)

NInv == setup.steady /\ exact /\ Ethernet => phase # "hung"

\* While tr_min is below the grey region and that not above tr_max, converged() sees
\* that both ends are close before the calls go round.
LEMMA AdjustmentReturns ==
    ASSUME TInv, setup' = setup, NEW trend \in Trends, NEW t \in SUBSET Flags,
           NEW r \in 1..Fastest, rate_adjustment(trend, t, r), range' \in Ranges,
           BracketHolds', GreyKnown', setup.steady, exact'
    PROVE  phase' # "hung"
<1> DEFINE turned == trend # "GREY" /\ prev_trend # "none" /\ prev_trend # trend
           e == exp_flag /\ ~turned
           d == Decision(trend, t, e, r)
<1> SUFFICES ASSUME phase' = "hung" PROVE FALSE
    OBVIOUS
<1>1. /\ range' = Noted(range, trend, r) /\ e \in BOOLEAN /\ range \in Ranges
      /\ EndsKnown(range) /\ TypeOK /\ Fastest \in Nat
    BY SetupFacts DEF rate_adjustment, TInv, TypeOK, Measures
<1>2. d.do = "hang"
  <2>1. d.do \in {"go", "stop", "hang"}
    <3> HIDE DEF e
    <3> QED
        BY <1>1, DecisionType DEF IsDecision
  <2>2. phase' = CASE d.do = "hang" -> "hung"
                   [] d.do = "stop" -> "done"
                   [] d.do = "go" ->
                        IF AtMaxRateAgain(max_rate_flag') THEN "done" ELSE "calc"
      BY DEF rate_adjustment
  <2> HIDE DEF d
  <2> QED
      BY <2>1, <2>2
<1> HIDE DEF e
<1>3. /\ range'.tr_max # 0 => range'.tr_max = range'.tr_min
      /\ \/ range'.tr_max # 0 /\ trend = "GREY"
         \/ GreyAtBottom(range') /\ GreyOnTop(range')
    BY <1>1, <1>2, HangsWhenStuck
<1>4. /\ range'.tr_min \in Nat /\ range'.tr_max \in Nat /\ range'.grey_min \in Nat
      /\ range'.grey_max \in Nat /\ setup.lo \in Nat
    BY <1>1, SetupFacts DEF Ranges
<1>5. range'.grey_min # 0 /\ range'.tr_max # 0 /\ range'.grey_min <= range'.tr_max
  <2>1. CASE range'.tr_max # 0 /\ trend = "GREY"
    <3>1. range'.grey_max # 0 \/ range'.grey_min # 0
      <4>1. r \in 0..Fastest /\ r # 0 /\ range.grey_max \in Nat
          BY <1>1 DEF Ranges
      <4> QED
          BY <1>1, <2>1, <4>1, NotedGreyTrend
    <3> QED
        BY <1>4, <2>1, <3>1 DEF GreyKnown
  <2>2. CASE GreyAtBottom(range')
      BY <1>4, <2>2 DEF GreyAtBottom
  <2> QED
      BY <1>3, <2>1, <2>2
<1>6. range'.tr_min < setup.lo /\ setup.lo <= range'.grey_min
    BY <1>3, <1>5 DEF BracketHolds
<1> QED
    BY <1>3, <1>4, <1>5, <1>6

\* Where calc_param itself asks for another rate, the bound it noted is none.
LEMMA FastHangIsInexact ==
    ASSUME CalcFast
    PROVE  phase' # "hung" \/ ~exact'
<1> DEFINE r == Rate(MaxSize, Interval(MaxSize, tr))
<1>1. CASE ~(~NotAbove(r, range.tr_min) /\ Equal(r, range.tr_max))
    BY <1>1 DEF CalcFast
<1>2. CASE ~NotAbove(r, range.tr_min) /\ Equal(r, range.tr_max)
  <2>1. CASE range.grey_max = 0
      BY <1>2, <2>1 DEF CalcFast
  <2>2. CASE range.grey_max # 0 /\ "gmn_rmn" \in close \cup tm
      BY <1>2, <2>2 DEF CalcFast
  <2>3. CASE range.grey_max # 0 /\ "gmn_rmn" \notin close \cup tm
    <3>1. exact' = FALSE
        BY <1>2, <2>3 DEF CalcFast
    <3> QED
        BY <3>1
  <2> QED
      BY <2>1, <2>2, <2>3
<1> QED
    BY <1>1, <1>2

\* No step of an exact search hangs.
LEMMA HungStep ==
    TInv /\ TInv' /\ BInv /\ BInv' /\ GInv' /\ NInv /\ [Next]_vars => NInv'
<1> SUFFICES ASSUME TInv, TInv', BInv', GInv', NInv, [Next]_vars,
                    setup.steady, exact', Ethernet, setup' = setup
             PROVE  phase' # "hung"
  <2>1. [Next]_vars => setup' = setup
    <3>1. CASE CalcSlow \/ CalcMedium \/ CalcFast
        BY <3>1 DEF CalcSlow, CalcMedium, CalcFast, Fleet, AtLimit
    <3>2. CASE FleetLossy \/ FleetInOneBurst \/ FleetInFewBursts \/ FleetReceived
        BY <3>2 DEF FleetLossy, FleetInOneBurst, FleetInFewBursts, FleetReceived
    <3>3. CASE sig_alrm \/ UNCHANGED vars
        BY <3>3 DEF sig_alrm, vars
    <3> QED
        BY <3>1, <3>2, <3>3 DEF Next
  <2> QED
      BY <2>1, SameHost DEF NInv
<1>1. range' \in Ranges /\ GreyKnown' /\ BracketHolds' /\ tm \in SUBSET Flags /\ tm' \in SUBSET Flags
  <2>1. Ethernet' /\ Ranges' = Ranges
    <3>1. Ethernet' = Ethernet /\ MaxSize' = MaxSize
        BY SameHost
    <3> QED
        BY <3>1 DEF Ranges, Fastest
  <2> QED
      BY <2>1 DEF TInv, TypeOK, Measures, Flags, BInv, GInv
<1>2. CASE CalcSlow \/ CalcMedium
    BY <1>2 DEF CalcSlow, CalcMedium, Fleet, AtLimit
<1>3. CASE CalcFast
    BY <1>3, FastHangIsInexact
<1>4. CASE FleetLossy
  <2>1. rate_adjustment("INCREASING", tm, tr) /\ "INCREASING" \in Trends /\ tr \in 1..Fastest
      BY <1>4, SetupFacts DEF FleetLossy, Trends, TInv, TypeOK, Measures
  <2> QED
      BY <1>1, <2>1, AdjustmentReturns
<1>5. CASE FleetReceived
  <2>1. PICK t \in SentIntervals :
           LET mean == (interval_sum + Streams * t) \div (num + Streams)
           IN  \/ phase' \in {"calc", "done"}
               \/ \E trend \in Trends : rate_adjustment(trend, tm', ActualRate(mean))
      BY <1>5 DEF FleetReceived
  <2> DEFINE mean == (interval_sum + Streams * t) \div (num + Streams)
  <2>2. ActualRate(mean) \in 1..Fastest
    <3>1. phase = "fleet"
        BY <1>5 DEF FleetReceived
    <3>2. mean \in Nat \ {0}
        BY <3>1, MeanType
    <3> HIDE DEF mean
    <3> QED
        BY <3>1, <3>2, FleetFacts DEF ActualRate
  <2> HIDE DEF mean
  <2> QED
      BY <1>1, <2>1, <2>2, AdjustmentReturns DEF mean
<1>6. CASE FleetInOneBurst \/ FleetInFewBursts \/ sig_alrm
    BY <1>6 DEF FleetInOneBurst, FleetInFewBursts, sig_alrm
<1>7. CASE UNCHANGED vars
    BY <1>7 DEF vars, fleets, NInv
<1> QED
    BY <1>2, <1>3, <1>4, <1>5, <1>6, <1>7 DEF Next

\* With packets that Ethernet carries, on hosts that handle one in less than 456
\* microseconds, no fleet on a steady path sends the functions that choose the next
\* rate into calling each other for ever.
THEOREM NeverHungCorrect == Spec => [](Ethernet => NeverHung)
<1>1. Init => NInv
    BY DEF Init, NInv
<1>2. TInv /\ TInv' /\ BInv /\ BInv' /\ GInv' /\ NInv /\ [Next]_vars => NInv'
    BY HungStep
<1>3. NInv => (Ethernet => NeverHung)
    BY DEF NInv, NeverHung
<1> QED
    BY <1>1, <1>2, <1>3, GreyInvariant, PTL DEF Spec

-----------------------------------------------------------------------------
(* What is reported, on hosts that send a packet every 80 to 4000           *)
(* microseconds and less than 150 Mbit/s. There max_rate is sent with       *)
(* packets of full size, and no other branch of calc_param is taken.        *)

SlowHost == setup.min_time_interval \in 80..4000 /\ max_rate < 150000

\* Packets leave on time, and nothing has disturbed the search.
Undisturbed == setup.steady /\ exact /\ setup.late = {0} /\ SlowHost

\* No rate is above that of packets of full size, and that one is sent as such.
UpToMaxRate ==
    /\ tr <= max_rate
    /\ range.tr_min <= max_rate /\ range.tr_max <= max_rate
    /\ range.grey_min <= max_rate /\ range.grey_max <= max_rate
    /\ phase = "fleet" =>
          /\ time_interval >= setup.min_time_interval
          /\ tr = max_rate => SentRate(time_interval) = max_rate

\* If max_rate is above the region of the path, max_rate_flag is set only for the fleet
\* that shows so.
FlagAwaitsFleet ==
    setup.hi < max_rate /\ max_rate_flag > 0 =>
        /\ tr = max_rate
        /\ phase = "done" => bad_fleet_cs \/ setup.timed

\* Where neither the alarm, max_rate nor context switches end the search, converged()
\* did, for the range that is reported.
EndsConverged ==
    phase = "done" /\ ~setup.timed /\ max_rate_flag = 0 /\ ~bad_fleet_cs =>
        /\ range.tr_max # 0
        /\ "rmn_rmx" \in close \/ (TopClose(range) /\ BottomClose(range))

RInv ==
    Undisturbed => tm = {} /\ UpToMaxRate /\ FlagAwaitsFleet /\ EndsConverged

\* What the setup fixes.
LEMMA SlowHostFacts ==
    ASSUME TypeOK, SlowHost
    PROVE  /\ max_rate \in Nat \ {0} /\ max_rate >= MinRate
           /\ SlowInterval = setup.min_time_interval
           /\ setup.min_time_interval \in Nat \ {0} /\ setup.min_time_interval <= 4000
           /\ max_rate = Rate(MaxSize, setup.min_time_interval)
           /\ setup.min_time_interval * max_rate <= 8000 * MaxSize
           /\ WireSize(max_rate, setup.min_time_interval) = MaxSize
<1> DEFINE t == setup.min_time_interval
           n == MaxSize
<1>1. /\ t \in Nat \ {0} /\ t >= 80 /\ t <= 4000 /\ n \in Nat \ {0} /\ n >= 228
  <2>1. t \in Nat \ {0} /\ MaxSize \in Nat /\ MaxSize >= MinSize /\ MinSize = 228
      BY SetupFacts
  <2>2. t \in 80..4000
      BY DEF SlowHost
  <2> HIDE DEF t, n
  <2>3. n = MaxSize
      BY DEF n
  <2>4. n \in Nat /\ n >= 228
      BY <2>1, <2>3
  <2> QED
      BY <2>2, <2>4
<1>2. max_rate = Rate(n, t)
    BY DEF max_rate, MaxSize
<1>3. SlowInterval = t
  <2>1. 80 \in Int /\ t \in Int
      BY <1>1
  <2>2. Max({80, t}) = IF 80 < t THEN t ELSE 80
      BY <2>1, MaxOfTwo
  <2> QED
      BY <1>1, <2>2 DEF SlowInterval
<1> HIDE DEF t, n
<1> DEFINE m == Rate(n, t)
<1>4. m \in Nat \ {0} /\ m >= 9
  <2>1. 9 \in Nat /\ t * 9 <= 8000 * n
      BY <1>1
  <2> QED
      BY <1>1, <2>1, RateType, RateAtLeast
<1>5. 8000 * n < t * m + t /\ t * m <= 8000 * n
  <2>1. 8000 * n < t * m + t /\ (t * m <= 8000 * n \/ (m = 1 /\ 8000 * n < t))
      BY <1>1, RateWithin
  <2> QED
      BY <1>1, <1>4, <2>1
<1>6. WireSize(m, t) = n
  <2> HIDE DEF m
  <2>1. /\ WireSize(m, t) \in Nat /\ 2 * (m * t) <= 16000 * WireSize(m, t) + 8000
        /\ 16000 * WireSize(m, t) <= 2 * (m * t) + 8000
      BY <1>1, <1>4, WireSizeWithin
  <2>2. m * t = t * m /\ t * m \in Nat
      BY <1>1, <1>4
  <2> QED
      BY <1>1, <1>5, <2>1, <2>2
<1> QED
    BY <1>1, <1>2, <1>3, <1>4, <1>5, <1>6 DEF t, n, MinRate

\* Up to max_rate every rate can be sent, and max_rate is sent as such.
LEMMA SlowCalc ==
    ASSUME TInv, SlowHost, tr <= max_rate, CalcSlow \/ CalcMedium \/ CalcFast
    PROVE  /\ phase' = "fleet" /\ setup' = setup /\ UNCHANGED search /\ UNCHANGED fleets
           /\ tr' <= max_rate /\ time_interval' >= setup.min_time_interval
           /\ tr' = max_rate => SentRate(time_interval)' = max_rate
           /\ tr = max_rate => tr' = max_rate
<1> DEFINE t == setup.min_time_interval
           n == WireSize(tr, t)
           u == Interval(MinSize, tr)
<1>1. /\ TypeOK /\ tr \in Nat \ {0} /\ MaxSize \in Nat \ {0} /\ MinSize = 228 /\ MinSize <= MaxSize
      /\ Header = 28 /\ max_rate \in Nat /\ t \in Nat \ {0} /\ t <= 4000 /\ SlowInterval = t
      /\ max_rate = Rate(MaxSize, t) /\ t * Rate(MaxSize, t) <= 8000 * MaxSize
      /\ WireSize(max_rate, t) = MaxSize
    BY SetupFacts, SlowHostFacts DEF TInv, TypeOK, Header
<1>2. tr < 150000 /\ CalcSlow
    BY <1>1 DEF SlowHost, CalcMedium, CalcFast
<1>3. n \in Nat /\ n <= MaxSize /\ (tr = max_rate => n = MaxSize)
    BY <1>1, SizeOfRate
<1>4. n < 228 => u \in Nat /\ u >= t
  <2> SUFFICES ASSUME n < 228 PROVE u \in Nat /\ u >= t
      OBVIOUS
  <2>1. u \in Nat
    <3>1. 8000 * 228 \in Nat /\ u = Rint(8000 * 228, tr)
        BY <1>1 DEF Interval
    <3> QED
        BY <1>1, <3>1, RintWithin
  <2>2. Interval(228, tr) >= t
      BY <1>1, IntervalOfLeast
  <2> QED
      BY <1>1, <2>1, <2>2
<1> HIDE DEF t, n, u
<1>5. \/ n < 228 /\ Fleet(MinSize, u, Rate(MinSize, u))
      \/ n \in MinSize..MaxSize /\ Fleet(n, t, tr)
    BY <1>1, <1>2, <1>3 DEF CalcSlow, n, u
<1>6. CASE n < 228 /\ Fleet(MinSize, u, Rate(MinSize, u))
  <2>1. /\ phase' = "fleet" /\ setup' = setup /\ UNCHANGED search /\ UNCHANGED fleets
        /\ tr' = Rate(MinSize, u) /\ time_interval' = u /\ cur_pkt_sz' = MinSize - Header
      BY <1>6 DEF Fleet, Payload
  <2>2. Rate(MinSize, u) <= max_rate
    <3>1. u \in Nat \ {0} /\ MinSize \in Nat \ {0}
        BY <1>1, <1>4, <1>6
    <3>2. Rate(MinSize, u) <= Rate(MinSize, t) /\ Rate(MinSize, t) <= Rate(MaxSize, t)
        BY <1>1, <1>4, <1>6, <3>1, RateFalls, RateRises
    <3>3. Rate(MinSize, u) \in Nat \ {0} /\ Rate(MinSize, t) \in Nat \ {0}
        BY <1>1, <3>1, RateType
    <3> QED
        BY <1>1, <3>2, <3>3
  <2>3. tr # max_rate
      BY <1>1, <1>3, <1>6
  <2>4. SentRate(time_interval)' = Rate(MinSize, u)
    <3>1. cur_pkt_sz' + Header = MinSize
        BY <1>1, <2>1
    <3> QED
        BY <2>1, <3>1 DEF SentRate
  <2> QED
      BY <1>4, <1>6, <2>1, <2>2, <2>3, <2>4 DEF t
<1>7. CASE n \in MinSize..MaxSize /\ Fleet(n, t, tr)
  <2>1. /\ phase' = "fleet" /\ setup' = setup /\ UNCHANGED search /\ UNCHANGED fleets
        /\ tr' = tr /\ time_interval' = t /\ cur_pkt_sz' = n - Header
      BY <1>7 DEF Fleet, Payload
  <2>2. SentRate(time_interval)' = Rate(n, t)
    <3>1. cur_pkt_sz' + Header = n
        BY <1>1, <1>3, <2>1
    <3> QED
        BY <2>1, <3>1 DEF SentRate
  <2> QED
      BY <1>1, <1>3, <2>1, <2>2 DEF t
<1> QED
    BY <1>5, <1>6, <1>7

\* No decision is above max_rate and all that is known.
LEMMA DecisionAtMost ==
    ASSUME NEW trend \in Trends, NEW t, NEW e \in BOOLEAN, NEW r \in Nat,
           max_rate \in Nat, r <= max_rate, max_rate >= MinRate,
           NEW q, q = Noted(range, trend, r),
           q.tr_min \in 0..max_rate, q.tr_max \in 0..max_rate,
           q.grey_min \in 0..max_rate, q.grey_max \in 0..max_rate
    PROVE  Decision(trend, t, e, r).rate <= max_rate
<1> DEFINE h == max_rate
           Below(d) == d.rate <= h
<1>1. ASSUME NEW a \in 0..h, NEW b \in 0..h
      PROVE  /\ Half(a + b) \in 0..h
             /\ Max({MinRate, Half(a + b)}) <= h
  <2> HIDE DEF h
  <2>1. h \in Nat /\ h >= 9
      BY DEF h, MinRate
  <2>2. Half(a + b) \in 0..h
      BY <2>1 DEF Half
  <2> QED
      BY <2>1, <2>2, MaxOfTwo DEF MinRate
<1>2. Middle(q) <= h
    BY <1>1 DEF Middle
<1>3. BelowGrey(q) <= h
    BY <1>1 DEF BelowGrey
<1>4. AboveGrey(q) <= h
  <2>1. Half(q.tr_max + q.grey_max) \in 0..h
      BY <1>1
  <2> QED
      BY <2>1 DEF AboveGrey
<1>5. Half(Least(q.grey_min, q.grey_max)) <= h
    BY DEF Half, Least
<1>6. Least(2 * r, max_rate) <= h /\ Least(r + r \div 2, max_rate) <= h
    BY DEF Least
<1>7. ASSUME NEW x, x <= h, NEW f, NEW y
      PROVE  Below(Go(x, f, y)) /\ Below(Stop(x, f, y)) /\ Below(Hang(x))
    BY <1>7 DEF Go, Stop, Hang
<1>8. r <= h
    OBVIOUS
<1> HIDE DEF Below, h
<1>9. ASSUME NEW f PROVE Below(radj_notrend_searching(q, r, f))
    BY <1>2, <1>3, <1>4, <1>7, <1>8 DEF radj_notrend_searching
<1>10. ASSUME NEW x PROVE Below(radj_notrend(q, x, r))
    BY <1>6, <1>7, <1>9 DEF radj_notrend
<1>11. Below(radj_increasing(q, e, r))
    BY <1>2, <1>4, <1>5, <1>7, <1>9 DEF radj_increasing
<1>12. ASSUME NEW x PROVE Below(radj_greymax(q, x, r)) /\ Below(radj_greymin(q, x, r))
    BY <1>3, <1>4, <1>6, <1>7, <1>8 DEF radj_greymax, radj_greymin
<1>13. Below(AfterIncreasing(q, t, e, r))
    BY <1>7, <1>8, <1>10, <1>11 DEF AfterIncreasing
<1>14. Below(AfterNotrend(q, t, e, r))
    BY <1>7, <1>8, <1>10 DEF AfterNotrend
<1>15. Below(AfterGrey(q, t, e, r))
    BY <1>7, <1>8, <1>10, <1>12 DEF AfterGrey
<1>16. Below(Decision(trend, t, e, r))
    BY <1>7, <1>8, <1>13, <1>14, <1>15 DEF Decision, Trends
<1> QED
    BY <1>16 DEF Below, h

\* Without a mismatch nothing but convergence stops the search.
LEMMA StopsConverged ==
    ASSUME NEW trend \in Trends, NEW e, NEW r, NEW q, q = Noted(range, trend, r),
           Decision(trend, {}, e, r).do = "stop"
    PROVE  /\ q.tr_max # 0
           /\ "rmn_rmx" \in Decision(trend, {}, e, r).flags \/ (TopClose(q) /\ BottomClose(q))
<1> DEFINE c == FlagsOfConverged(q, {})
           d == Decision(trend, {}, e, r)
<1>1. ASSUME NEW x, NEW f, NEW y
      PROVE  Go(x, f, y).do # "stop" /\ Hang(x).do # "stop" /\ Stop(x, f, y).flags = f
    BY DEF Go, Hang, Stop
<1>2. ASSUME NEW x, NEW f
      PROVE  /\ radj_notrend_searching(q, r, f).do # "stop"
             /\ radj_notrend(q, x, r).do # "stop" /\ radj_increasing(q, x, r).do # "stop"
             /\ radj_greymax(q, x, r).do # "stop" /\ radj_greymin(q, x, r).do # "stop"
  <2>1. ASSUME NEW g PROVE radj_notrend_searching(q, r, g).do # "stop"
    <3>1. CASE ~GreyAtBottom(q)
        BY <3>1 DEF radj_notrend_searching, Go, Hang
    <3>2. CASE GreyAtBottom(q) /\ ~BottomClose(q)
        BY <3>2 DEF radj_notrend_searching, Go, Hang
    <3>3. CASE GreyAtBottom(q) /\ BottomClose(q)
        BY <3>3 DEF radj_notrend_searching, Go, Hang
    <3> QED
        BY <3>1, <3>2, <3>3
  <2>2. radj_notrend(q, x, r).do # "stop" /\ radj_increasing(q, x, r).do # "stop"
    <3>1. radj_notrend(q, x, r).do # "stop"
        BY <2>1 DEF radj_notrend, Go
    <3>2. Go(Middle(q), {}, x).do # "stop" /\ Go(AboveGrey(q), {}, x).do # "stop"
        BY DEF Go
    <3>3. /\ Go(Half(Least(q.grey_min, q.grey_max)), {"gmx_rmx"}, FALSE).do # "stop"
          /\ radj_notrend_searching(q, r, {"gmx_rmx"}).do # "stop"
        BY <2>1 DEF Go
    <3>4. radj_increasing(q, x, r).do # "stop"
        BY <3>2, <3>3 DEF radj_increasing
    <3> QED
        BY <3>1, <3>4
  <2>3. radj_greymax(q, x, r).do # "stop" /\ radj_greymin(q, x, r).do # "stop"
      BY <1>1 DEF radj_greymax, radj_greymin
  <2> QED
      BY <2>1, <2>2, <2>3
<1>3. AfterIncreasing(q, {}, e, r).do = "stop" =>
         converged(q, {}) /\ AfterIncreasing(q, {}, e, r).flags = c
    BY <1>1, <1>2 DEF AfterIncreasing
<1>4. AfterNotrend(q, {}, e, r).do = "stop" =>
         converged(q, {}) /\ AfterNotrend(q, {}, e, r).flags = c
    BY <1>1, <1>2 DEF AfterNotrend
<1>5. AfterGrey(q, {}, e, r).do = "stop" =>
         converged(q, {}) /\ AfterGrey(q, {}, e, r).flags = c
    BY <1>1, <1>2 DEF AfterGrey
<1>6. converged(q, {}) /\ d.flags = c
  <2>1. CASE trend = "INCREASING"
      BY <1>3, <2>1 DEF Decision
  <2>2. CASE trend = "NOTREND"
      BY <1>4, <2>2 DEF Decision
  <2>3. CASE trend = "GREY"
    <3>1. d = Go(r, {}, e) \/ d = AfterGrey(q, {}, e, r)
        BY <2>3 DEF Decision
    <3> QED
        BY <1>1, <1>5, <3>1
  <2> QED
      BY <2>1, <2>2, <2>3 DEF Trends
<1>7. ~Mismatched({})
    BY DEF Mismatched
<1>8. Judged(q) /\ (WithinResolution(q) \/ (TopClose(q) /\ BottomClose(q)))
    BY <1>6, <1>7 DEF converged
<1>9. WithinResolution(q) => c = {"rmn_rmx"}
    BY <1>6, <1>7 DEF FlagsOfConverged
<1> QED
    BY <1>6, <1>8, <1>9 DEF Judged

\* What is noted is not above what was known and the rate of the fleet.
LEMMA NotedAtMost ==
    ASSUME NEW q \in Ranges, Fastest \in Nat, NEW r \in 0..Fastest, NEW h \in Nat, r <= h,
           q.tr_min <= h, q.tr_max <= h, q.grey_min <= h, q.grey_max <= h,
           NEW trend \in Trends
    PROVE  LET n == Noted(q, trend, r)
           IN  /\ n.tr_min \in 0..h /\ n.tr_max \in 0..h
               /\ n.grey_min \in 0..h /\ n.grey_max \in 0..h
<1>1. /\ q.tr_min \in 0..h /\ q.tr_max \in 0..h /\ q.grey_min \in 0..h
      /\ q.grey_max \in 0..h /\ r \in 0..h /\ 0 \in 0..h
    BY DEF Ranges
<1> DEFINE n == Noted(q, trend, r)
<1>2. /\ n.tr_min \in {q.tr_min, r} /\ n.tr_max \in {q.tr_max, r}
      /\ n.grey_min \in {0, q.grey_min, r} /\ n.grey_max \in {0, q.grey_max, r}
  <2>1. CASE trend = "INCREASING"
      BY <2>1, NotedIncreasing
  <2>2. CASE trend = "NOTREND"
      BY <2>2, NotedNotrend
  <2>3. CASE trend = "GREY"
      BY <2>3, NotedGreyTrend
  <2> QED
      BY <2>1, <2>2, <2>3 DEF Trends
<1> QED
    BY <1>1, <1>2

\* A slow host stays one, with the same max_rate and resolutions.
LEMMA SameRates ==
    ASSUME setup' = setup
    PROVE  /\ max_rate' = max_rate /\ SlowHost' = SlowHost
           /\ range' = range =>
                 TopClose(range)' = TopClose(range) /\ BottomClose(range)' = BottomClose(range)
<1>1. max_rate' = max_rate /\ grey_bw_resolution' = grey_bw_resolution
    BY DEF max_rate, grey_bw_resolution
<1> QED
    BY <1>1 DEF SlowHost, TopClose, BottomClose

\* What an undisturbed search does after a fleet of rate r.
LEMMA AdjustmentReports ==
    ASSUME TInv, phase = "fleet", SlowHost, UpToMaxRate, setup' = setup,
           NEW trend \in Trends, NEW r \in 1..Fastest, r <= max_rate,
           rate_adjustment(trend, {}, r),
           setup.hi < max_rate /\ max_rate_flag > 0 => trend = "INCREASING"
    PROVE  UpToMaxRate' /\ FlagAwaitsFleet' /\ EndsConverged'
<1> DEFINE turned == trend # "GREY" /\ prev_trend # "none" /\ prev_trend # trend
           e == exp_flag /\ ~turned
           d == Decision(trend, {}, e, r)
           n == IF trend = "INCREASING" THEN 0 ELSE max_rate_flag
<1>1. /\ TypeOK /\ range \in Ranges /\ EndsKnown(range) /\ Fastest \in Nat /\ r \in 0..Fastest
      /\ max_rate \in Nat \ {0} /\ max_rate >= MinRate /\ max_rate' = max_rate
      /\ e \in BOOLEAN /\ {} \in SUBSET Flags
    BY SetupFacts, SlowHostFacts, SameRates DEF TInv, Measures, TypeOK
<1>2. /\ range' = Noted(range, trend, r) /\ tr' = d.rate /\ close' = close \cup d.flags
      /\ max_rate_flag' = IF d.do = "go" /\ d.rate >= max_rate THEN n + 1 ELSE n
      /\ phase' = CASE d.do = "hang" -> "hung"
                    [] d.do = "stop" -> "done"
                    [] d.do = "go" ->
                         IF AtMaxRateAgain(max_rate_flag') THEN "done" ELSE "calc"
    BY DEF rate_adjustment
<1>3. d.do \in {"go", "stop", "hang"} /\ d.rate \in Nat
  <2> HIDE DEF e
  <2>1. IsDecision(d)
      BY <1>1, DecisionType
  <2> HIDE DEF d
  <2> QED
      BY <1>1, <2>1 DEF IsDecision
<1>4. /\ range'.tr_min \in 0..max_rate /\ range'.tr_max \in 0..max_rate
      /\ range'.grey_min \in 0..max_rate /\ range'.grey_max \in 0..max_rate
    BY <1>1, <1>2, NotedAtMost DEF UpToMaxRate
<1>5. tr' <= max_rate
  <2> HIDE DEF e
  <2> QED
      BY <1>1, <1>2, <1>4, DecisionAtMost
<1>6. n \in 0..1
    BY DEF TInv, Measures, TypeOK
<1> HIDE DEF n
<1>7. d.do = "stop" =>
         /\ range'.tr_max # 0
         /\ "rmn_rmx" \in d.flags \/ (TopClose(range') /\ BottomClose(range'))
  <2> HIDE DEF e
  <2> QED
      BY <1>2, StopsConverged
<1> HIDE DEF d
<1>8. phase' # "fleet"
    BY <1>2, <1>3
<1>9. UpToMaxRate'
    BY <1>1, <1>4, <1>5, <1>8 DEF UpToMaxRate
<1>10. FlagAwaitsFleet'
  <2> SUFFICES ASSUME setup.hi < max_rate, max_rate_flag' > 0
               PROVE  tr' = max_rate /\ phase' # "done"
      BY <1>1 DEF FlagAwaitsFleet
  <2>1. n = 0
    <3>1. max_rate_flag \in 0..2
        BY <1>1 DEF TypeOK
    <3> QED
        BY <3>1 DEF n
  <2>2. d.do = "go" /\ d.rate >= max_rate /\ max_rate_flag' = 1
      BY <1>2, <2>1
  <2> QED
      BY <1>1, <1>2, <1>3, <1>5, <2>2 DEF AtMaxRateAgain
<1>11. EndsConverged'
  <2> SUFFICES ASSUME phase' = "done", max_rate_flag' = 0
               PROVE  /\ range'.tr_max # 0
                      /\ "rmn_rmx" \in close' \/ (TopClose(range)' /\ BottomClose(range)')
      BY DEF EndsConverged
  <2>1. d.do = "stop"
      BY <1>2, <1>3 DEF AtMaxRateAgain
  <2>2. TopClose(range)' = TopClose(range') /\ BottomClose(range)' = BottomClose(range')
    <3>1. grey_bw_resolution' = grey_bw_resolution
        BY DEF grey_bw_resolution
    <3> QED
        BY <3>1 DEF TopClose, BottomClose
  <2> QED
      BY <1>2, <1>7, <2>1, <2>2
<1> QED
    BY <1>9, <1>10, <1>11

\* A fleet that was received in an undisturbed search.
LEMMA ReceivedReports ==
    ASSUME TInv, TInv', BInv, RInv, FleetReceived, Undisturbed'
    PROVE  tm' = {} /\ UpToMaxRate' /\ FlagAwaitsFleet' /\ EndsConverged'
<1> DEFINE Mean(t) == (interval_sum + Streams * t) \div (num + Streams)
           act == SentRate(time_interval)
<1>1. /\ phase = "fleet" /\ setup' = setup /\ TypeOK /\ exact' /\ setup.steady /\ SlowHost
      /\ setup.late = {0}
    BY SameRates DEF FleetReceived, TInv, Undisturbed
<1>2. PICK t \in SentIntervals :
         /\ tm' = tm \cup Crossed(tr, ActualRate(Mean(t)))
         /\ exact' = (exact /\ num = 0)
         /\ \/ /\ bad_fleet_cs' = TRUE /\ phase' \in {"calc", "done"}
               /\ tr' = ActualRate(Mean(t)) /\ UNCHANGED search
            \/ \E trend \in Trends :
                  Shows(t, trend) /\ rate_adjustment(trend, tm', ActualRate(Mean(t)))
  <2>1. PICK t \in SentIntervals :
           /\ tm' = tm \cup Crossed(tr, ActualRate(Mean(t)))
           /\ \/ /\ exact' = (exact /\ num = 0)
                 /\ bad_fleet_cs' = TRUE
                 /\ phase' = IF retry_fleet_cnt_cs' > NumRetryCS THEN "done" ELSE "calc"
                 /\ tr' = ActualRate(Mean(t)) /\ UNCHANGED search
              \/ \E trend \in Trends :
                    \/ /\ Shows(t, trend) /\ exact' = (exact /\ num = 0)
                       /\ rate_adjustment(trend, tm', ActualRate(Mean(t)))
                    \/ exact' = FALSE
      BY DEF FleetReceived
  <2> HIDE DEF Mean
  <2> QED
      BY <1>1, <2>1
<1>3. /\ exact /\ num = 0 /\ interval_sum = 0 /\ tm = {} /\ UpToMaxRate /\ FlagAwaitsFleet
    BY <1>1, <1>2 DEF RInv, Undisturbed, BInv, NothingOlder
<1>4. time_interval \in Nat \ {0} /\ t = time_interval
  <2>1. time_interval \in Nat \ {0}
      BY <1>1 DEF TInv, TypeOK, Measures
  <2> QED
      BY <1>1, <2>1 DEF SentIntervals
<1>5. ActualRate(Mean(t)) = act
    BY <1>1, <1>3, <1>4, MeanOfOne DEF ActualRate
<1>6. act \in 1..Fastest /\ act <= max_rate /\ (tr = max_rate => act = max_rate)
  <2> DEFINE n == cur_pkt_sz + Header
             s == setup.min_time_interval
  <2>1. act \in 1..Fastest
      BY <1>1, <1>4, FleetFacts
  <2>2. /\ n \in Nat \ {0} /\ n <= MaxSize /\ MaxSize \in Nat /\ s \in Nat \ {0}
        /\ s <= time_interval /\ max_rate = Rate(MaxSize, s)
      BY <1>1, <1>3, SetupFacts, SlowHostFacts
      DEF TInv, TypeOK, Measures, UpToMaxRate, MaxSize, Header
  <2>3. act = Rate(n, time_interval)
      BY DEF SentRate
  <2> HIDE DEF n, s, act
  <2>4. Rate(n, time_interval) <= Rate(n, s) /\ Rate(n, s) <= Rate(MaxSize, s)
      BY <1>4, <2>2, RateFalls, RateRises
  <2>5. Rate(n, s) \in Nat /\ Rate(MaxSize, s) \in Nat /\ act \in Nat
      BY <1>4, <2>2, <2>3, RateType
  <2> QED
      BY <1>1, <1>3, <2>1, <2>2, <2>3, <2>4, <2>5 DEF UpToMaxRate, act
<1>7. tm' = {}
  <2>1. setup.min_time_interval <= 30000
      BY <1>1, SlowHostFacts
  <2>2. Equal(tr, act)
      BY <1>1, <1>3, <2>1, SentAsTaken DEF FleetMakesRate, SentRate
  <2> HIDE DEF Mean, act
  <2>3. Crossed(tr, act) = {}
      BY <2>2 DEF Crossed
  <2> QED
      BY <1>2, <1>3, <1>5, <2>3
<1> HIDE DEF Mean, act
<1>8. setup.hi \in Nat /\ setup.lo \in Nat /\ setup.lo <= setup.hi /\ max_rate \in Nat /\ Fastest \in Nat
    BY <1>1, SetupFacts, SlowHostFacts
<1>9. CASE bad_fleet_cs' = TRUE /\ phase' \in {"calc", "done"} /\ tr' = act /\ UNCHANGED search
  <2>1. /\ range' = range /\ max_rate_flag' = max_rate_flag /\ max_rate' = max_rate
        /\ phase' # "fleet"
      BY <1>1, <1>9, SameRates DEF search
  <2>2. UpToMaxRate'
      BY <1>3, <1>6, <1>9, <2>1 DEF UpToMaxRate
  <2>3. FlagAwaitsFleet'
      BY <1>1, <1>3, <1>6, <1>9, <2>1 DEF FlagAwaitsFleet
  <2>4. EndsConverged'
      BY <1>9 DEF EndsConverged
  <2> QED
      BY <1>7, <2>2, <2>3, <2>4
<1>10. ASSUME NEW trend \in Trends, Shows(t, trend), rate_adjustment(trend, {}, act)
       PROVE  UpToMaxRate' /\ FlagAwaitsFleet' /\ EndsConverged'
  <2>1. setup.hi < max_rate /\ max_rate_flag > 0 => trend = "INCREASING"
    <3> SUFFICES ASSUME setup.hi < max_rate, max_rate_flag > 0 PROVE trend = "INCREASING"
        OBVIOUS
    <3>1. act = max_rate /\ act = SentRate(t)
        BY <1>3, <1>4, <1>6 DEF FlagAwaitsFleet, act
    <3>2. CASE trend = "NOTREND"
        BY <1>1, <1>8, <1>10, <3>1, <3>2 DEF Shows
    <3>3. CASE trend = "GREY"
        BY <1>1, <1>8, <1>10, <3>1, <3>3 DEF Shows
    <3> QED
        BY <3>2, <3>3 DEF Trends
  <2> QED
      BY <1>1, <1>3, <1>6, <1>10, <2>1, AdjustmentReports
<1> QED
    BY <1>2, <1>5, <1>7, <1>9, <1>10

\* Every step of an undisturbed search keeps what its report rests on.
LEMMA ReportStep == TInv /\ TInv' /\ BInv /\ RInv /\ [Next]_vars => RInv'
<1> SUFFICES ASSUME TInv, TInv', BInv, RInv, [Next]_vars, Undisturbed'
             PROVE  tm' = {} /\ UpToMaxRate' /\ FlagAwaitsFleet' /\ EndsConverged'
    BY DEF RInv
<1>1. setup' = setup
  <2>1. CASE CalcSlow \/ CalcMedium \/ CalcFast
      BY <2>1 DEF CalcSlow, CalcMedium, CalcFast, Fleet, AtLimit
  <2>2. CASE FleetLossy \/ FleetInOneBurst \/ FleetInFewBursts \/ FleetReceived
      BY <2>2 DEF FleetLossy, FleetInOneBurst, FleetInFewBursts, FleetReceived
  <2>3. CASE sig_alrm \/ UNCHANGED vars
      BY <2>3 DEF sig_alrm, vars
  <2> QED
      BY <2>1, <2>2, <2>3 DEF Next
<1>2. /\ setup.steady /\ setup.late = {0} /\ SlowHost /\ exact' /\ max_rate' = max_rate
      /\ TypeOK /\ max_rate \in Nat
  <2>1. setup.steady /\ setup.late = {0} /\ exact' /\ SlowHost /\ max_rate' = max_rate
      BY <1>1, SameRates DEF Undisturbed
  <2> QED
      BY <2>1, SlowHostFacts DEF TInv
<1>3. exact => tm = {} /\ UpToMaxRate /\ FlagAwaitsFleet /\ EndsConverged
    BY <1>2 DEF RInv, Undisturbed
<1>4. ASSUME UNCHANGED <<tr, search, tm, bad_fleet_cs, exact>>,
             \/ /\ phase' = phase /\ time_interval' = time_interval
                /\ cur_pkt_sz' = cur_pkt_sz
             \/ phase' = "calc"
             \/ phase' = "done" /\ setup.timed
      PROVE  tm' = {} /\ UpToMaxRate' /\ FlagAwaitsFleet' /\ EndsConverged'
  <2>1. /\ tr' = tr /\ range' = range /\ max_rate_flag' = max_rate_flag /\ close' = close
        /\ tm' = tm /\ bad_fleet_cs' = bad_fleet_cs /\ exact
      BY <1>2, <1>4 DEF search
  <2>2. /\ phase' = "fleet" => phase = "fleet" /\ time_interval' = time_interval
                               /\ cur_pkt_sz' = cur_pkt_sz
        /\ phase' = "done" => phase = "done" \/ setup.timed
      BY <1>4
  <2>3. UpToMaxRate'
      BY <1>1, <1>2, <1>3, <2>1, <2>2 DEF UpToMaxRate, SentRate
  <2>4. FlagAwaitsFleet'
      BY <1>1, <1>2, <1>3, <2>1, <2>2 DEF FlagAwaitsFleet
  <2>5. EndsConverged'
    <3>1. TopClose(range)' = TopClose(range) /\ BottomClose(range)' = BottomClose(range)
        BY <1>1, <2>1, SameRates
    <3> QED
        BY <1>1, <1>3, <2>1, <2>2, <3>1 DEF EndsConverged
  <2> QED
      BY <1>3, <2>1, <2>3, <2>4, <2>5
<1>5. CASE UNCHANGED vars
  <2>1. /\ UNCHANGED <<tr, search, tm, bad_fleet_cs, exact>> /\ phase' = phase
        /\ time_interval' = time_interval /\ cur_pkt_sz' = cur_pkt_sz
      BY <1>5 DEF vars, params, fleets
  <2> QED
      BY <1>4, <2>1
<1>6. CASE sig_alrm
  <2>1. /\ UNCHANGED <<tr, search, tm, bad_fleet_cs, exact>> /\ phase' = "done" /\ setup.timed
      BY <1>6 DEF sig_alrm, fleets
  <2> QED
      BY <1>4, <2>1
<1>7. CASE FleetInFewBursts
  <2>1. UNCHANGED <<tr, search, tm, bad_fleet_cs, exact>> /\ phase' = "calc"
      BY <1>7 DEF FleetInFewBursts
  <2> QED
      BY <1>4, <2>1
<1>8. CASE FleetInOneBurst
    BY <1>2, <1>8 DEF FleetInOneBurst
<1>9. CASE CalcSlow \/ CalcMedium \/ CalcFast
  <2>1. exact
      BY <1>2, <1>9, CalcKeepsRange
  <2>2. tr <= max_rate
      BY <1>3, <2>1 DEF UpToMaxRate
  <2>3. /\ phase' = "fleet" /\ UNCHANGED search /\ UNCHANGED fleets
        /\ tr' <= max_rate /\ time_interval' >= setup.min_time_interval
        /\ tr' = max_rate => SentRate(time_interval)' = max_rate
        /\ tr = max_rate => tr' = max_rate
      BY <1>2, <1>9, <2>2, SlowCalc
  <2>4. /\ range' = range /\ max_rate_flag' = max_rate_flag /\ tm' = tm
      BY <2>3 DEF search, fleets
  <2>5. UpToMaxRate'
      BY <1>1, <1>2, <1>3, <2>1, <2>3, <2>4 DEF UpToMaxRate
  <2>6. FlagAwaitsFleet' /\ EndsConverged'
      BY <1>1, <1>2, <1>3, <2>1, <2>3, <2>4 DEF FlagAwaitsFleet, EndsConverged
  <2> QED
      BY <1>3, <2>1, <2>4, <2>5, <2>6
<1>10. CASE FleetLossy
  <2>1. /\ phase = "fleet" /\ rate_adjustment("INCREASING", tm, tr) /\ tm' = tm /\ exact
      BY <1>2, <1>10 DEF FleetLossy
  <2>2. /\ tm = {} /\ UpToMaxRate /\ "INCREASING" \in Trends /\ tr \in 1..Fastest
        /\ tr <= max_rate
    <3>1. tr \in 1..Fastest
        BY <1>2, SetupFacts DEF TInv, TypeOK, Measures
    <3> QED
        BY <1>3, <2>1, <3>1 DEF Trends, UpToMaxRate
  <2> QED
      BY <1>1, <1>2, <2>1, <2>2, AdjustmentReports
<1>11. CASE FleetReceived
    BY <1>11, ReceivedReports
<1> QED
    BY <1>5, <1>6, <1>7, <1>8, <1>9, <1>10, <1>11 DEF Next

\* Nothing is known and nothing reported at first.
LEMMA InitReport == Init => RInv
<1> SUFFICES ASSUME Init, SlowHost PROVE tm = {} /\ UpToMaxRate /\ FlagAwaitsFleet /\ EndsConverged
    BY DEF RInv, Undisturbed
<1>1. TypeOK /\ max_rate \in Nat /\ max_rate >= 9 /\ setup.adr \in Nat
    BY InitType, SlowHostFacts, SetupFacts DEF TInv, MinRate
<1>2. tr <= max_rate
    BY <1>1 DEF Init, Half, MinRate
<1>3. UpToMaxRate
    BY <1>1, <1>2 DEF Init, UpToMaxRate
<1> QED
    BY <1>3 DEF Init, FlagAwaitsFleet, EndsConverged

\* What is known of a search by the reason it gives.
LEMMA Reasons ==
    ASSUME TypeOK
    PROVE  /\ ReportKind = "grey resolution" =>
                 max_rate_flag = 0 /\ ~bad_fleet_cs /\ "rmn_rmx" \notin close
           /\ ReportKind = "above max_rate" => max_rate_flag > 0
<1>1. setup.interrupt_coalescence \in BOOLEAN /\ bad_fleet_cs \in BOOLEAN /\ max_rate_flag \in Nat
    BY SetupFacts DEF TypeOK, SetupType
<1>2. CASE setup.interrupt_coalescence
    BY <1>2 DEF ReportKind
<1>3. CASE ~setup.interrupt_coalescence /\ max_rate_flag > 0
    BY <1>1, <1>3 DEF ReportKind
<1>4. CASE ~setup.interrupt_coalescence /\ max_rate_flag = 0
  <2>1. CASE bad_fleet_cs
      BY <1>4, <2>1 DEF ReportKind
  <2>2. CASE ~bad_fleet_cs /\ Mismatched(tm)
      BY <1>4, <2>2 DEF ReportKind
  <2>3. CASE ~bad_fleet_cs /\ ~Mismatched(tm) /\ "rmn_rmx" \in close
      BY <1>4, <2>3 DEF ReportKind
  <2>4. CASE ~bad_fleet_cs /\ ~Mismatched(tm) /\ "rmn_rmx" \notin close
      BY <1>4, <2>4 DEF ReportKind
  <2> QED
      BY <2>1, <2>2, <2>3, <2>4
<1>5. max_rate_flag = 0 \/ max_rate_flag > 0
    BY <1>1
<1> QED
    BY <1>2, <1>3, <1>4, <1>5

\* The claim of "above max_rate" in full: no rate that can be sent shows an increasing
\* trend.
MaxRateIsFree ==
    phase = "done" /\ ~setup.timed /\ setup.steady /\ exact /\ setup.late = {0} =>
        (ReportKind = "above max_rate" /\ ~bad_fleet_cs => setup.hi >= max_rate)

\* On hosts that send a packet every 80 to 4000 microseconds, and less than 150 Mbit/s,
\* the report is true: the grey region of the path ends within the resolution of the one
\* reported, and where max_rate is said to be free it is, without a tolerance.
THEOREM ReportCorrect == Spec => [](SlowHost => ReportIsTrue /\ MaxRateIsFree)
<1>1. TInv /\ BInv /\ RInv => (SlowHost => ReportIsTrue /\ MaxRateIsFree)
  <2> SUFFICES ASSUME TInv, BInv, RInv, SlowHost, phase = "done", ~setup.timed,
                      setup.steady, exact, setup.late = {0}
               PROVE  /\ ReportKind = "grey resolution" =>
                           /\ setup.lo >= range.grey_min - grey_bw_resolution
                           /\ setup.hi <= range.grey_max + grey_bw_resolution + Step
                      /\ ReportKind = "above max_rate" /\ ~bad_fleet_cs =>
                           setup.hi >= max_rate
      BY DEF ReportIsTrue, MaxRateIsFree
  <2>1. FlagAwaitsFleet /\ EndsConverged /\ BracketHolds
      BY DEF RInv, Undisturbed, BInv
  <2>2. /\ setup.lo \in Nat /\ setup.hi \in Nat /\ setup.adr \in Nat /\ max_rate \in Nat
        /\ max_rate_flag \in Nat
        /\ range.tr_min \in Nat /\ range.tr_max \in Nat
        /\ range.grey_min \in Nat /\ range.grey_max \in Nat
      BY SetupFacts, SlowHostFacts DEF TInv, TypeOK
  <2>3. ASSUME ReportKind = "grey resolution"
        PROVE  /\ setup.lo >= range.grey_min - grey_bw_resolution
               /\ setup.hi <= range.grey_max + grey_bw_resolution + Step
    <3>1. max_rate_flag = 0 /\ ~bad_fleet_cs /\ "rmn_rmx" \notin close
        BY <2>3, Reasons DEF TInv
    <3>2. range.tr_max # 0 /\ TopClose(range) /\ BottomClose(range)
        BY <2>1, <3>1 DEF EndsConverged
    <3>3. grey_bw_resolution \in Nat
        BY <2>2 DEF grey_bw_resolution, Least, MinRate
    <3>4. setup.hi < range.tr_max + Step /\ (range.tr_min # 0 => range.tr_min < setup.lo)
        BY <2>1, <3>2 DEF BracketHolds
    <3> QED
        BY <2>2, <3>2, <3>3, <3>4 DEF TopClose, BottomClose, Step
  <2>4. ASSUME ReportKind = "above max_rate", ~bad_fleet_cs PROVE setup.hi >= max_rate
    <3>1. max_rate_flag > 0
        BY <2>4, Reasons DEF TInv
    <3>2. ~(setup.hi < max_rate)
        BY <2>1, <2>4, <3>1 DEF FlagAwaitsFleet
    <3> HIDE DEF max_rate
    <3> QED
        BY <2>2, <3>2
  <2> QED
      BY <2>3, <2>4
<1>2. Init => TInv /\ BInv /\ RInv
    BY InitType, InitBracket, InitReport
<1>3. TInv /\ BInv /\ RInv /\ [Next]_vars => (TInv /\ BInv /\ RInv)'
    BY TypeStep, BracketStep, ReportStep
<1> QED
    BY <1>1, <1>2, <1>3, PTL DEF Spec
=============================================================================
