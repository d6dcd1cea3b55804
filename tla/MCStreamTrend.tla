--------------------------- MODULE MCStreamTrend ---------------------------
(* Instances of StreamTrend for TLC. *)
EXTENDS StreamTrend

\* Packets leave every time_interval, after those in `pauses` 2 ms later. delay(k) is
\* the delay of packet k, lost are the lost ones.
Sent(pauses) ==
    [k \in Packets |-> 1000 + k * time_interval + 2000 * Cardinality({p \in pauses : p < k})]
Stream(pauses, delay(_), lost) ==
    [snd  |-> [k \in Packets |-> IF k \in lost THEN 0 ELSE Sent(pauses)[k]],
     arrv |-> [k \in Packets |-> IF k \in lost THEN 0 ELSE Sent(pauses)[k] + delay(k)]]

\* Packets are held and handed over one microsecond after the other, in groups.
Held(group, delay(_)) ==
    Stream({}, LAMBDA k : ((k \div group) * group * time_interval) - (k * time_interval)
                          + (k % group) + delay(k), {})

Flat(k) == 5000
Rise(k) == 5000 + 5 * k
Fall(k) == 9000 - 5 * k
Saw(k)  == 5000 + 7 * ((k * 37) % 11)
HalfRise(k) == IF k < stream_len \div 2 THEN 5000 ELSE 5000 + 5 * k

\* A stream that is sent after the port's time stamp has overflowed.
Late == LET rise == Stream({}, Rise, {}) IN
        [snd  |-> [k \in Packets |-> rise.snd[k] + (3 * StampRange) \div 4],
         arrv |-> [k \in Packets |-> rise.arrv[k] + (3 * StampRange) \div 4]]

Scattered == {k \in Packets : k % 8 = 3}
Halves    == (30..34) \cup (60..64)

\* A queue that drains, five packets at a time.
Drain(k) == 10000 + (k % 5) + 104 * (k \div 5) - 100 * k

MCStreams ==
    {Stream({}, Flat, {}), Stream({}, Rise, {}), Stream({}, Saw, {}),
     Stream({}, Fall, Scattered), Stream({}, Rise, Scattered), Stream({}, Rise, Halves),
     Stream({stream_len \div 2}, Rise, {}), Stream({2, 40, 60, 80}, HalfRise, {}),
     Held(5, Flat), Held(30, Flat), Held(100, Rise), Stream({}, Drain, {}), Late}

Situation(program, coalescing, slow, repeat, longer) ==
    [program |-> program, interrupt_coalescence |-> coalescing, slow |-> slow,
     repeat_1 |-> repeat, repeat_2 |-> repeat, increase_stream_len |-> longer]

MCSituations ==
    {Situation("original", coalescing, slow, 0, FALSE) : coalescing, slow \in BOOLEAN}
    \cup {Situation("original", TRUE, FALSE, 2, TRUE), Situation("port", FALSE, FALSE, 0, FALSE)}
=============================================================================
