-------------------------- MODULE RateAdjustment --------------------------
(***************************************************************************)
(* The rate search of the original receiver. It probes the path with one   *)
(* fleet after another. From the trend of a fleet's delays it narrows the  *)
(* bracket tr_min..tr_max around the available bandwidth and, within it,   *)
(* the grey region grey_min..grey_max, where no trend was clear, until     *)
(* both are tight enough, and then reports one of the two.                 *)
(*                                                                         *)
(* Rates are in kbit/s (the program has Mbit/s as double), intervals in    *)
(* microseconds, sizes in bytes.                                           *)
(***************************************************************************)
EXTENDS Integers, FiniteSetsExt

CONSTANTS
    Setups,         \* the situations looked at, see SetupType
    NumStream,      \* num_stream: streams of a fleet
    StreamLen       \* STREAM_LEN: packets of a stream

MinPktSz  == 200    \* MIN_PKT_SZ
Header    == 28     \* bytes of IP and UDP headers, counted in every rate
MinRate   == 9      \* min_rate, 9.12 kbit/s
NumRetryCS == 1     \* NUM_RETRY_CS

Trends == {"INCREASING", "NOTREND", "GREY"}

\* What is fixed before the search: the hosts (packet size, least interval, how
\* late a packet may be sent), what get_adr found, the options -w and -t, and the
\* path. On a steady path the trend follows from the rate: a rate above hi shows an
\* increasing trend, one below lo none, one between is grey. On any other path
\* every fleet may show anything.
SetupType ==
    [max_pkt_sz : Nat, min_time_interval : Nat \ {0}, late : SUBSET Nat,
     adr : Nat, interrupt_coalescence : BOOLEAN, w : Nat, timed : BOOLEAN,
     steady : BOOLEAN, lo : Nat, hi : Nat, int_abs : BOOLEAN, faults : Nat]

ASSUME SetupAssumption ==
    \A s \in Setups :
       s \in SetupType /\ s.max_pkt_sz >= MinPktSz /\ s.lo <= s.hi
ASSUME FleetAssumption == NumStream \in Nat \ {0} /\ StreamLen \in Nat \ {0}

VARIABLES
    phase,          \* "calc": parameters of the next fleet are due, "fleet": it
                    \* is under way, "done": reported, "hung": endless recursion
    setup,
    tr,             \* the rate of the fleet
    range,          \* tr_min, tr_max, grey_min, grey_max; 0 while unknown
    cur_pkt_sz, time_interval,
    exp_flag,       \* the search still doubles the rate
    prev_trend,     \* trend before, "none" at first; a grey one is not kept
    max_rate_flag,  \* times the rate reached max_rate
    close,          \* of converged_gmx_rmx, converged_gmn_rmn, converged_rmn_rmx
    tm,             \* and of the same flags with _tm, those that are set
    interval_sum, num,          \* snd_time_interval and num, per stream
    bad_fleet_cs, retry_fleet_cnt_cs,
    slow, increase_stream_len, lower_bound,
    faults,         \* bound: fleets that may still be sent late, be cut off after
                    \* a stream or show nothing
    exact           \* history: no fleet was noted with a trend it did not show, at a
                    \* rate it was not sent at, or at one mixed with an older fleet's

search == <<range, exp_flag, prev_trend, max_rate_flag, close>>
params == <<cur_pkt_sz, time_interval>>
fleets == <<tm, interval_sum, num, bad_fleet_cs, retry_fleet_cnt_cs, slow,
            increase_stream_len, lower_bound, faults, exact>>
vars == <<phase, setup, tr, search, params, fleets>>
-----------------------------------------------------------------------------
(* Numbers.                                                                *)

\* rint(a / b), a half goes to the even neighbour.
Rint(a, b) ==
    LET q == a \div b
        r == 2 * (a % b)
    IN  IF r > b \/ (r = b /\ q % 2 = 1) THEN q + 1 ELSE q

\* The rate of n bytes every t microseconds. It is never 0.
Rate(n, t) == LET r == (8000 * n) \div t IN IF r = 0 THEN 1 ELSE r

WireSize(r, t) == Rint(r * t, 8000)     \* bytes every t microseconds at rate r
Interval(n, r) == Rint(8000 * n, r)     \* microseconds per n bytes at rate r
PayloadWithHeader(size) == size      \* mutant of Payload
Payload(size) == size - Header
Half(x) == (x + 1) \div 2
Least(a, b) == IF a < b THEN a ELSE b

\* Which abs the compiler takes depends on its headers. That of C has an int
\* argument: the difference is cut to whole Mbit/s. Nothing equals 0 (the quotient
\* is infinite or not a number).
Equal(a, b) ==
    LET diff == IF a < b THEN b - a ELSE a - b
        abs  == IF setup.int_abs THEN diff - (diff % 1000) ELSE diff
    IN  /\ b # 0 /\ 50 * abs <= b
        /\ abs < IF Least(a, b) < 500000 THEN 2000 ELSE 5000

LessThan(a, b) == ~Equal(a, b) /\ a < b
GrtrThan(a, b) == ~Equal(a, b) /\ a > b

max_rate == Rate(setup.max_pkt_sz + Header, setup.min_time_interval)

bw_resol ==
    CASE setup.interrupt_coalescence         -> setup.adr \div 20
      [] ~setup.interrupt_coalescence /\ setup.w # 0 -> setup.w
      [] OTHER -> IF setup.adr # 0 THEN setup.adr \div 50 ELSE 2000

grey_bw_resolution ==
    IF setup.adr # 0 THEN Least(setup.adr \div 20, 12000) ELSE MinRate
-----------------------------------------------------------------------------
(* The next rate, from the range q.                                        *)

TopClose(q)    == q.tr_max - q.grey_max <= grey_bw_resolution
BottomClose(q) == q.grey_min - q.tr_min <= grey_bw_resolution
GreyOnTop(q)    == q.grey_max # 0 /\ q.grey_max >= q.tr_min
GreyAtBottom(q) == q.grey_min # 0 /\ q.grey_min <= q.tr_max

Middle(q)    == Max({MinRate, Half(q.tr_min + q.tr_max)})
AboveGrey(q) == Half(q.tr_max + q.grey_max)
BelowGrey(q) == Max({MinRate, Half(q.tr_min + q.grey_min)})

\* What rate_adjustment decides: go on with a rate, stop, or call itself for ever.
\* It may set flags of convergence and clear exp_flag.
Go(rate, flags, exp) == [do |-> "go", rate |-> rate, flags |-> flags, exp |-> exp]
Stop(rate, flags, exp) == [do |-> "stop", rate |-> rate, flags |-> flags, exp |-> exp]
Hang(rate) == [do |-> "hang", rate |-> rate, flags |-> {}, exp |-> FALSE]

\* The functions call each other; each is written with the calls it leads to. Once
\* both ends of the grey region are close the calls go round for ever.
radj_notrend_searching(q, r, flags) ==
    CASE ~GreyAtBottom(q) -> Go(Middle(q), flags, FALSE)
      [] GreyAtBottom(q) /\ ~BottomClose(q) -> Go(BelowGrey(q), flags, FALSE)
      [] GreyAtBottom(q) /\ BottomClose(q) ->
           CASE ~GreyOnTop(q) -> Go(Middle(q), flags \cup {"gmn_rmn"}, FALSE)
             [] GreyOnTop(q) /\ ~TopClose(q) ->
                  Go(AboveGrey(q), flags \cup {"gmn_rmn"}, FALSE)
             [] OTHER -> Hang(r)

radj_notrend(q, exp, r) ==
    IF exp THEN Go(Least(2 * r, max_rate), {}, TRUE)
    ELSE radj_notrend_searching(q, r, {})

radj_increasing(q, exp, r) ==
    CASE ~GreyOnTop(q) -> Go(Middle(q), {}, exp)
      [] GreyOnTop(q) /\ ~TopClose(q) -> Go(AboveGrey(q), {}, exp)
      [] GreyOnTop(q) /\ TopClose(q) ->
           IF q.grey_min # 0 \/ q.tr_min # 0
           THEN radj_notrend_searching(q, r, {"gmx_rmx"})
           ELSE Go(Half(Least(q.grey_min, q.grey_max)), {"gmx_rmx"}, FALSE)

radj_greymax(q, exp, r) ==
    CASE q.tr_max = 0 -> Go(Least(r + r \div 2, max_rate), {}, exp)
      [] q.tr_max # 0 /\ ~TopClose(q) -> Go(AboveGrey(q), {}, exp)
      [] q.tr_max # 0 /\ TopClose(q) ->
           IF BottomClose(q) THEN Hang(r) ELSE Go(BelowGrey(q), {"gmx_rmx"}, exp)

radj_greymin(q, exp, r) ==
    CASE ~BottomClose(q) -> Go(BelowGrey(q), {}, exp)
      [] BottomClose(q) /\ q.tr_max = 0 ->
           Go(Least(r + r \div 2, max_rate), {"gmn_rmn"}, exp)
      [] BottomClose(q) /\ q.tr_max # 0 ->
           IF TopClose(q) THEN Hang(r) ELSE Go(AboveGrey(q), {"gmn_rmn"}, exp)

\* converged(), without the flags it sets.
WithinResolution(q) == q.tr_max - q.tr_min <= bw_resol
Judged(q) == q.tr_max # 0 /\ q.tr_max # q.tr_min
Mismatched(t) == {"gmx_rmx", "gmn_rmn"} \subseteq t \/ "rmn_rmx" \in t

ConvergedOneSide(q, t) ==       \* mutant of converged
    \/ Mismatched(t)
    \/ Judged(q) /\ (WithinResolution(q) \/ TopClose(q) \/ BottomClose(q))

ConvergedInRange(q, t) ==       \* mutant of converged
    Mismatched(t) \/ (Judged(q) /\ WithinResolution(q))

ConvergedInGrey(q, t) ==        \* mutant of converged
    Mismatched(t) \/ (Judged(q) /\ TopClose(q) /\ BottomClose(q))

converged(q, t) ==
    \/ Mismatched(t)
    \/ Judged(q) /\ (WithinResolution(q) \/ (TopClose(q) /\ BottomClose(q)))

FlagsOfConverged(q, t) ==
    IF Mismatched(t) \/ ~converged(q, t) THEN {}
    ELSE IF WithinResolution(q) THEN {"rmn_rmx"} ELSE {"gmx_rmx", "gmn_rmn"}

\* rate_adjustment: the range after a fleet of rate r with that trend.
Inside(q, r) == q.grey_min # 0 /\ q.grey_min <= r /\ r < q.grey_max

FirstGreyMaxOnly(q, r) == [q EXCEPT !.grey_max = r]   \* mutant of FirstGrey
FirstGrey(q, r) == [q EXCEPT !.grey_max = r, !.grey_min = r]

NotedGrey(q, r) ==
    IF q.grey_max = 0 /\ q.grey_min = 0 THEN FirstGrey(q, r)
    ELSE IF r >= q.grey_max THEN [q EXCEPT !.grey_max = r]
    ELSE IF Inside(q, r) THEN q ELSE [q EXCEPT !.grey_min = r]

Noted(q, trend, r) ==
    CASE trend = "INCREASING" ->
           [q EXCEPT !.tr_max = r,
                     !.grey_max = IF @ >= r THEN 0 ELSE @,
                     !.grey_min = IF q.grey_max >= r THEN 0 ELSE @]
      [] trend = "NOTREND" ->
           [q EXCEPT !.tr_min = IF r > @ THEN r ELSE @,
                     !.grey_max = IF @ < r THEN 0 ELSE @,
                     !.grey_min = IF @ < r \/ q.grey_max < r THEN 0 ELSE @]
      [] trend = "GREY" -> NotedGrey(q, r)

\* And what it decides, when q is that range and t the mismatch flags.
AfterIncreasing(q, t, exp, r) ==
    IF "gmx_rmx" \in t
    THEN IF converged(q, t) THEN Go(r, FlagsOfConverged(q, t), FALSE)
         ELSE radj_notrend(q, FALSE, r)
    ELSE IF converged(q, t) THEN Stop(r, FlagsOfConverged(q, t), exp)
         ELSE radj_increasing(q, exp, r)

AfterNotrend(q, t, exp, r) ==
    IF "gmn_rmn" \in t THEN Stop(r, {}, exp)
    ELSE IF converged(q, t) THEN Stop(r, FlagsOfConverged(q, t), exp)
    ELSE radj_notrend(q, exp, r)

AfterGrey(q, t, exp, r) ==
    LET onTop == r = q.grey_max
        e     == exp /\ ~(onTop /\ "gmx_rmx" \in t)
    IN  IF converged(q, t) THEN Stop(r, FlagsOfConverged(q, t), e)
        ELSE IF ~onTop THEN radj_greymin(q, e, r)
        ELSE IF "gmx_rmx" \in t THEN radj_notrend(q, FALSE, r)
        ELSE radj_greymax(q, e, r)

Decision(trend, t, exp, r) ==
    LET q == Noted(range, trend, r)
    IN  CASE trend = "INCREASING" -> AfterIncreasing(q, t, exp, r)
          [] trend = "NOTREND"    -> AfterNotrend(q, t, exp, r)
          [] trend = "GREY"       -> IF Inside(range, r) THEN Go(r, {}, exp)
                                     ELSE AfterGrey(q, t, exp, r)

\* Two fleets in a row were to be sent at max_rate.
ThriceAtMaxRate(n) == n > 2     \* mutant of AtMaxRateAgain
AtMaxRateAgain(n) == n > 1

\* rate_adjustment, with the lines before its call that end the doubling.
rate_adjustment(trend, t, r) ==
    LET turned  == trend # "GREY" /\ prev_trend # "none" /\ prev_trend # trend
        d       == Decision(trend, t, exp_flag /\ ~turned, r)
        reached == IF trend = "INCREASING" THEN 0 ELSE max_rate_flag
    IN  /\ range' = Noted(range, trend, r)
        /\ prev_trend' = IF trend = "GREY" THEN prev_trend ELSE trend
        /\ exp_flag' = d.exp
        /\ close' = close \cup d.flags
        /\ tr' = d.rate
        /\ max_rate_flag' =
             IF d.do = "go" /\ d.rate >= max_rate THEN reached + 1 ELSE reached
        /\ phase' = CASE d.do = "hang" -> "hung"
                      [] d.do = "stop" -> "done"
                      [] d.do = "go" ->
                           IF AtMaxRateAgain(max_rate_flag') THEN "done" ELSE "calc"
-----------------------------------------------------------------------------
(* Parameters of a fleet: calc_param.                                      *)

\* The parameters of a fleet at rate r, sent (or the limits are reached).
Fleet(size, t, r) ==
    /\ phase' = "fleet"
    /\ cur_pkt_sz' = Payload(size) /\ time_interval' = t /\ tr' = r
    /\ UNCHANGED <<setup, search, fleets>>

AtLimit(size, t, r) ==
    /\ phase' = "done"
    /\ cur_pkt_sz' = Payload(size) /\ time_interval' = t /\ tr' = r
    /\ UNCHANGED <<setup, search, fleets>>

MinSize == MinPktSz + Header
MaxSize == setup.max_pkt_sz + Header
SlowInterval == Max({80, setup.min_time_interval})

CalcSlow ==
    LET size == WireSize(tr, SlowInterval)
    IN  /\ phase = "calc" /\ tr < 150000
        /\ \/ /\ size < MinSize
              /\ LET t == Interval(MinSize, tr) IN Fleet(MinSize, t, Rate(MinSize, t))
           \/ /\ size \in MinSize..MaxSize
              /\ Fleet(size, SlowInterval, tr)
           \/ /\ size > MaxSize /\ size >= MinSize
              /\ LET t == setup.min_time_interval
                 IN  IF Equal(tr, max_rate) THEN Fleet(MaxSize, t, max_rate)
                     ELSE AtLimit(MaxSize, t, tr)

\* Rate r is not above a known rate.
NotAbove(r, known) == known # 0 /\ (Equal(r, known) \/ r < known)

TooLow(r) ==
    \/ NotAbove(r, range.tr_min)
    \/ tr > range.grey_max /\ NotAbove(r, range.grey_max)

CalcMedium ==
    LET t    == Interval(MaxSize, tr)
        size == Least(WireSize(tr, t), MaxSize)
        r    == Rate(size, t)
        t2   == Max({u \in 1..t-1 : WireSize(r, u) <= MaxSize})
    IN  /\ phase = "calc" /\ tr >= 150000 /\ tr < 600000
        /\ \/ /\ cur_pkt_sz = setup.max_pkt_sz /\ time_interval = t
              /\ AtLimit(cur_pkt_sz + Header, time_interval, tr)
           \/ /\ ~(cur_pkt_sz = setup.max_pkt_sz /\ time_interval = t)
              /\ IF TooLow(r)
                 THEN Fleet(WireSize(r, t2), t2, Rate(WireSize(r, t2), t2))
                 ELSE Fleet(size, t, r)

CalcFast ==
    LET t == Interval(MaxSize, tr)
        r == Rate(MaxSize, t)
        q == [range EXCEPT !.tr_max = r]
        d == radj_notrend(q, exp_flag, r)
    IN  /\ phase = "calc" /\ tr >= 600000
        /\ cur_pkt_sz' = setup.max_pkt_sz /\ time_interval' = t
        /\ UNCHANGED <<setup, prev_trend, max_rate_flag, interval_sum, num,
                       bad_fleet_cs, retry_fleet_cnt_cs, slow,
                       increase_stream_len, lower_bound, faults>>
        /\ \/ /\ NotAbove(r, range.tr_min)
              /\ phase' = "done" /\ tr' = r
              /\ UNCHANGED <<range, exp_flag, close, tm, exact>>
           \/ /\ ~NotAbove(r, range.tr_min)
              /\ ~Equal(r, range.tr_max)
              /\ phase' = "fleet" /\ tr' = r
              /\ UNCHANGED <<range, exp_flag, close, tm, exact>>
           \/ /\ ~NotAbove(r, range.tr_min)
              /\ Equal(r, range.tr_max)
              /\ range' = q
              /\ \/ /\ range.grey_max # 0
                    /\ tm' = tm \cup {"gmx_rmx"}
                    /\ IF "gmn_rmn" \in close \cup tm
                       THEN /\ phase' = "done" /\ tr' = r
                            /\ exact' = (exact /\ r = range.tr_max)
                            /\ UNCHANGED <<exp_flag, close>>
                       ELSE /\ phase' = IF d.do = "hang" THEN "hung" ELSE "fleet"
                            /\ tr' = d.rate
                            /\ exp_flag' = d.exp
                            /\ close' = close \cup d.flags
                            /\ exact' = FALSE
                 \/ /\ range.grey_max = 0
                    /\ phase' = "done" /\ tr' = r
                    /\ close' = close \cup {"rmn_rmx"}
                    /\ exact' = (exact /\ r = range.tr_max)
                    /\ UNCHANGED <<exp_flag, tm>>
-----------------------------------------------------------------------------
(* Fleets: recv_fleet, get_sending_rate, aggregate_trend_result.           *)

\* The time between packets as they were really sent.
SentIntervals == {time_interval + d : d \in setup.late}
SentRate(t) == Rate(cur_pkt_sz + Header, t)
AskedRate(mean) == tr       \* mutant of ActualRate
ActualRate(mean) == SentRate(mean)      \* what get_sending_rate takes for it

Shows(t, trend) ==
    setup.steady => CASE trend = "INCREASING" -> SentRate(t) > setup.hi
                      [] trend = "NOTREND"    -> SentRate(t) < setup.lo
                      [] trend = "GREY"       -> SentRate(t) \in setup.lo..setup.hi

\* On a slow link a fleet is one stream.
OneStream ==
    time_interval * StreamLen * (IF increase_stream_len THEN 3 ELSE 1) >= 500000
Streams == IF OneStream THEN 1 ELSE NumStream

Fault(f) == IF f THEN faults > 0 /\ faults' = faults - 1 ELSE UNCHANGED faults

\* The intervals of k streams are added up.
Measured(k, t) ==
    /\ num' = num + k
    /\ interval_sum' = interval_sum + k * t

\* The fleet is aborted in stream k + 1 for its losses: taken as INCREASING, at
\* the rate asked for. (Behind a coalescing interface one of the k streams may have
\* ended the longer streams, and lower_bound is left alone.)
FleetLossy ==
    /\ phase = "fleet"
    /\ \E t \in SentIntervals, k \in 0..Streams-1 :
         /\ Shows(t, "INCREASING")
         /\ Fault(t # time_interval \/ k # 0)
         /\ Measured(k, t)
    /\ \/ lower_bound' = (lower_bound \/ increase_stream_len)
       \/ setup.interrupt_coalescence /\ lower_bound' = lower_bound
    /\ increase_stream_len' = FALSE
    /\ rate_adjustment("INCREASING", tm, tr)
    /\ UNCHANGED <<setup, params, tm, bad_fleet_cs, retry_fleet_cnt_cs, slow, exact>>

\* The receiver's interface hands over packets in bursts. With too few bursts it
\* gives up and takes the fleet as INCREASING, too.
FleetInOneBurst ==
    /\ phase = "fleet" /\ setup.interrupt_coalescence
    /\ \E t \in SentIntervals, k \in 1..Streams :
         Fault(TRUE) /\ Measured(k, t)
    /\ lower_bound' = TRUE
    /\ increase_stream_len' = FALSE
    /\ exact' = FALSE
    /\ rate_adjustment("INCREASING", tm, tr)
    /\ UNCHANGED <<setup, params, tm, bad_fleet_cs, retry_fleet_cnt_cs, slow>>

\* With a few more bursts the fleet is repeated with longer streams.
FleetInFewBursts ==
    /\ phase = "fleet" /\ setup.interrupt_coalescence
    /\ \E t \in SentIntervals, k \in 1..Streams :
         Fault(TRUE) /\ Measured(k, t)
    /\ increase_stream_len' = TRUE
    /\ phase' = "calc"
    /\ UNCHANGED <<setup, tr, search, params, tm, bad_fleet_cs, retry_fleet_cnt_cs,
                   slow, lower_bound, exact>>

\* get_sending_rate: an end of the range that the actual rate reached although the
\* rate asked for lay inside it.
Crossed(req, act) ==
    LET q == range
    IN  IF Equal(req, act) THEN {}
        ELSE IF q.grey_max = 0 /\ q.grey_min = 0
        THEN {f \in {"rmn_rmx"} : /\ q.tr_min # 0 /\ q.tr_max # 0
                                  /\ ~(GrtrThan(act, q.tr_min) /\ GrtrThan(q.tr_max, act))}
        ELSE IF q.grey_max < req /\ req < q.tr_max
        THEN {f \in {"gmx_rmx"} : ~(LessThan(act, q.tr_max) /\ GrtrThan(act, q.grey_max))}
        ELSE IF q.tr_min < req /\ req < q.grey_min
        THEN {f \in {"gmn_rmn"} : ~(LessThan(act, q.grey_min) /\ GrtrThan(act, q.tr_min))}
        ELSE {}

\* The whole fleet was received. The rate becomes the actual one; then either most
\* streams are unusable (context switches), which repeats the fleet or gives up, or
\* the trend moves the search on. Without any usable stream, on a slow link or
\* behind a coalescing interface, the trend is GREY.
FleetReceived ==
    /\ phase = "fleet"
    /\ slow' = (slow \/ OneStream)
    /\ \E t \in SentIntervals :
         LET mean == (interval_sum + Streams * t) \div (num + Streams)
             act  == ActualRate(mean)
         IN /\ time_interval' = mean
            /\ tm' = tm \cup Crossed(tr, act)
            /\ \/ /\ ~slow' /\ ~setup.interrupt_coalescence
                  /\ Fault(TRUE)
                  /\ bad_fleet_cs' = TRUE
                  /\ retry_fleet_cnt_cs' = retry_fleet_cnt_cs + 1
                  /\ phase' = IF retry_fleet_cnt_cs' > NumRetryCS THEN "done" ELSE "calc"
                  /\ tr' = act
                  /\ exact' = (exact /\ num = 0)
                  /\ UNCHANGED search
               \/ /\ bad_fleet_cs' = FALSE
                  /\ retry_fleet_cnt_cs' = 0
                  /\ \E trend \in Trends :
                       \/ /\ Shows(t, trend)
                          /\ Fault(t # time_interval)
                          /\ exact' = (exact /\ num = 0)
                          /\ rate_adjustment(trend, tm', act)
                       \/ /\ trend = "GREY" /\ (slow' \/ setup.interrupt_coalescence)
                          /\ Fault(TRUE)
                          /\ exact' = FALSE
                          /\ rate_adjustment(trend, tm', act)
    /\ interval_sum' = 0 /\ num' = 0
    /\ \/ increase_stream_len' = increase_stream_len
       \/ setup.interrupt_coalescence /\ increase_stream_len' = FALSE
    /\ UNCHANGED <<setup, cur_pkt_sz, lower_bound>>

\* Option -t: the alarm ends the search at any time.
sig_alrm ==
    /\ setup.timed /\ phase \in {"calc", "fleet"}
    /\ phase' = "done"
    /\ UNCHANGED <<setup, tr, search, params, fleets>>
-----------------------------------------------------------------------------
Init ==
    /\ setup \in Setups
    /\ phase = "calc"
    /\ tr = IF setup.adr = 0 \/ setup.adr > max_rate \/ setup.adr < MinRate
            THEN Half(max_rate + MinRate) ELSE setup.adr
    /\ range = [tr_min |-> 0, tr_max |-> 0, grey_min |-> 0, grey_max |-> 0]
    /\ cur_pkt_sz = 0 /\ time_interval = 0
    /\ exp_flag = TRUE /\ prev_trend = "none" /\ max_rate_flag = 0
    /\ close = {} /\ tm = {}
    /\ interval_sum = 0 /\ num = 0
    /\ bad_fleet_cs = FALSE /\ retry_fleet_cnt_cs = 0
    /\ slow = FALSE /\ increase_stream_len = FALSE /\ lower_bound = FALSE
    /\ exact = TRUE /\ faults = setup.faults

Next ==
    \/ CalcSlow \/ CalcMedium \/ CalcFast
    \/ FleetLossy \/ FleetInOneBurst \/ FleetInFewBursts \/ FleetReceived
    \/ sig_alrm

Spec == Init /\ [][Next]_vars
FairSpec == Spec /\ WF_vars(Next)
-----------------------------------------------------------------------------
(* What is reported: terminate_gracefully.                                 *)

\* The reason given. Behind a coalescing interface it is left out.
ReportKind ==
    CASE setup.interrupt_coalescence -> "none"
      [] ~setup.interrupt_coalescence /\ max_rate_flag > 0 -> "above max_rate"
      [] ~setup.interrupt_coalescence /\ max_rate_flag = 0 ->
           CASE bad_fleet_cs -> "context switches"
             [] ~bad_fleet_cs /\ Mismatched(tm) -> "rate mismatch"
             [] ~bad_fleet_cs /\ ~Mismatched(tm) /\ "rmn_rmx" \in close -> "bw_resol"
             [] OTHER -> IF {"gmx_rmx", "gmn_rmn"} \subseteq close
                         THEN "grey resolution" ELSE "none"

\* Whether the grey region is the range reported, or tr_min..tr_max.
GreyReported ==
    \/ ReportKind = "context switches" /\ range.grey_min # 0 /\ range.grey_max # 0
    \/ ReportKind = "rate mismatch" /\ "rmn_rmx" \notin tm
    \/ ReportKind = "grey resolution"
-----------------------------------------------------------------------------
(* Properties.                                                             *)

\* The sizes and intervals of packets are whole numbers, so not every rate can be
\* sent. One byte more or less every 80 microseconds is 100 kbit/s; below 22.8 Mbit/s
\* neighbouring intervals of the least packet are up to 220 kbit/s apart.
Step    == 8000 \div 80
Coarsest == 300

\* Types; max_rate_flag and retry_fleet_cnt_cs stay within the limits that end the
\* search, and no rate is 0 (radj_increasing halves grey_min, which it lets be 0).
TypeOK ==
    /\ phase \in {"calc", "fleet", "done", "hung"}
    /\ setup \in Setups
    /\ tr \in Nat \ {0}
    /\ range \in [{"tr_min", "tr_max", "grey_min", "grey_max"} -> Nat]
    /\ cur_pkt_sz \in Nat /\ time_interval \in Nat
    /\ exp_flag \in BOOLEAN /\ prev_trend \in {"none", "INCREASING", "NOTREND"}
    /\ max_rate_flag \in 0..2
    /\ close \subseteq {"gmx_rmx", "gmn_rmn", "rmn_rmx"}
    /\ tm \subseteq {"gmx_rmx", "gmn_rmn", "rmn_rmx"}
    /\ interval_sum \in Nat /\ num \in Nat
    /\ bad_fleet_cs \in BOOLEAN /\ retry_fleet_cnt_cs \in 0..NumRetryCS+1
    /\ slow \in BOOLEAN /\ increase_stream_len \in BOOLEAN
    /\ lower_bound \in BOOLEAN /\ faults \in Nat /\ exact \in BOOLEAN

\* On a steady path the search never loses what it looks for: tr_min stays below the
\* grey region of the path, tr_max above it (but for the step a fleet cut off for its
\* losses may have been sent faster than asked for), and the grey region found lies
\* within that of the path. rate_adjustment never compares a new bound with the
\* bound on the other side.
BracketHolds ==
    setup.steady /\ exact =>
        /\ range.tr_min # 0 => range.tr_min < setup.lo
        /\ range.tr_max # 0 => setup.hi < range.tr_max + Step
        /\ range.grey_min # 0 => setup.lo <= range.grey_min
        /\ range.grey_max # 0 => range.grey_max <= setup.hi

\* Both ends of the grey region are known or none, and they lie in order between
\* tr_min and tr_max: rate_adjustment drops a grey region that a later fleet
\* contradicts, and the next rate is a mean of neighbours in that order.
GreyRegionNested ==
    setup.steady /\ exact =>
        /\ range.grey_max = 0 <=> range.grey_min = 0
        /\ range.grey_max # 0 =>
              /\ range.tr_min <= range.grey_min /\ range.grey_min <= range.grey_max
              /\ range.tr_max # 0 => range.grey_max <= range.tr_max

\* radj_increasing and radj_notrend call each other, as radj_greymax and radj_greymin
\* do, and nothing but converged() before them keeps the calls from going on for
\* ever.
NeverHung == setup.steady /\ exact => phase # "hung"

\* The packet size and interval sent make the rate that the fleet is taken for, also
\* when the search repeats a fleet and when the losses of a fleet keep
\* get_sending_rate from correcting tr: calc_param ends with tr in line with L and T.
FleetMakesRate ==
    phase = "fleet" /\ exact =>
        Equal(tr, Rate(cur_pkt_sz + Header, time_interval))

\* What is reported is true of a steady path whose packets leave on time: the grey
\* region reported misses that of the path by no more than the grey resolution, and
\* "above max_rate" is claimed only where no rate shows an increasing trend, or
\* only some that calc_param cannot tell from max_rate (bad_fleet_cs: a repeated fleet
\* is another matter, see RepeatedFleetIsSent).
ReportIsTrue ==
    phase = "done" /\ ~setup.timed /\ setup.steady /\ exact /\ setup.late = {0} =>
        /\ ReportKind = "grey resolution" =>
             /\ setup.lo >= range.grey_min - grey_bw_resolution
             /\ setup.hi <= range.grey_max + grey_bw_resolution + Step
        /\ ReportKind = "above max_rate" /\ ~bad_fleet_cs =>
             setup.hi >= max_rate \/ Equal(setup.hi, max_rate)

\* Every search ends that the code equips to end: on a steady path, with packets sent
\* on time, where the rates stay below 150 Mbit/s and both resolutions are wider than
\* the steps between the rates that can be sent. (With finer resolutions, as with
\* no ADR or one that is far too low, the same rate is probed again and again.)
CanEnd ==
    /\ setup.steady /\ setup.late = {0} /\ ~setup.interrupt_coalescence
    /\ max_rate <= 150000
    /\ bw_resol >= Coarsest /\ grey_bw_resolution >= Coarsest

SearchEnds == CanEnd => <>(phase = "done" \/ ~exact)

\* "return -1 when converged." (comment of rate_adjustment): a fleet after which the
\* search has converged is the last.
ConvergedEnds ==
    [][phase = "fleet" /\ phase' = "calc" /\ ~bad_fleet_cs' => ~converged(range', tm')]_vars

\* "repeat fleet with current rate." (main): a fleet with too few usable streams is
\* sent again.
RepeatedFleetIsSent ==
    [][phase = "calc" /\ bad_fleet_cs => phase' = "fleet"]_vars

\* "or whether Gmin and Gmax range is smaller than grey bw resolution" (comment of
\* converged): a grey region that ends the search and is reported has been seen.
ReportedGreyIsKnown ==
    phase = "done" /\ ~setup.timed /\ GreyReported =>
        range.grey_min # 0 /\ range.grey_max # 0
=============================================================================
