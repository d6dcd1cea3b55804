------------------------ MODULE MCRateAdjustment --------------------------
(* Setups for RateAdjustment. The path is steady unless said otherwise.    *)
EXTENDS RateAdjustment

\* Ethernet packets at most every 80 microseconds: max_rate is 150 Mbit/s.
Base ==
    [max_pkt_sz |-> 1472, min_time_interval |-> 80, late |-> {0}, adr |-> 100000,
     interrupt_coalescence |-> FALSE, w |-> 0, timed |-> FALSE, steady |-> TRUE,
     lo |-> 40000, hi |-> 47000, int_abs |-> TRUE, faults |-> 1]

\* A fast host: max_rate is 1 Gbit/s.
Fast == [Base EXCEPT !.min_time_interval = 12, !.adr = 800000]

\* Grey regions at the bottom, in the middle, at and above max_rate, of no width, as
\* wide as the resolution and much wider, and whatever the ADR said.
OnTime ==
    {[Base EXCEPT !.lo = l, !.hi = l + d, !.adr = a, !.int_abs = c] :
        l \in {300, 20000, 60000, 149000}, d \in {0, 5001, 20000},
        a \in {15000, 100000}, c \in BOOLEAN}

Others ==
    {[Base EXCEPT !.late = {0, 9}],
     [Base EXCEPT !.adr = 0, !.w = 10000, !.timed = TRUE, !.min_time_interval = 100],
     [Base EXCEPT !.interrupt_coalescence = TRUE, !.late = {0, 9}],
     [Base EXCEPT !.lo = 100, !.hi = 300, !.interrupt_coalescence = TRUE]}
    \cup {[Fast EXCEPT !.lo = l, !.hi = l + 40000, !.adr = a, !.faults = 2] :
            l \in {300000, 700000, 960000}, a \in {300000, 800000}}
    \cup {[Fast EXCEPT !.lo = 590000, !.hi = 590000, !.late = {0, 1}]}

\* Small packets: a rate may need more bytes than one packet has.
Small ==
    {[Base EXCEPT !.max_pkt_sz = 900, !.min_time_interval = 60, !.adr = a,
                  !.lo = 80000, !.hi = 90000, !.faults = 2] : a \in {92000, 123000}}

\* Packets sent late, and a path on which any fleet may show any trend.
Late ==
    {[Base EXCEPT !.late = {0, 1, 4, 9}, !.lo = l, !.hi = l + 1000, !.adr = a] :
        l \in {15000, 60000, 100000}, a \in {6000, 50000}}

Erratic ==
    {[Base EXCEPT !.steady = FALSE, !.w = 30000],
     [Base EXCEPT !.steady = FALSE, !.w = 40000, !.late = {0, 9}, !.faults = 0]}

\* Slower hosts, below 150 Mbit/s: max_rate is 120 Mbit/s. The grey region is in the
\* middle, ends at the last rate below max_rate, at max_rate or above.
Slow ==
    {[Base EXCEPT !.min_time_interval = 100, !.lo = l, !.hi = h, !.adr = a] :
        l \in {30000, 119000}, h \in {119999, 120000, 130000}, a \in {20000, 110000}}

MCSetups == Slow \cup Late \cup Erratic \cup Small \cup OnTime \cup Others

\* For the runs about comments that do not hold.
LateSetups ==
    {[Base EXCEPT !.late = {0, 1, 4, 9}, !.adr = 50000, !.lo = 100000, !.hi = 101000]}
LowSetups    == {[Base EXCEPT !.lo = 1000, !.hi = 2000]}
RepeatSetups == {[Fast EXCEPT !.lo = 300000, !.hi = 350000]}
=============================================================================
