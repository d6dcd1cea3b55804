# Pathload on ns-3, in TLA+

Pathload estimates the available bandwidth of a network path. A sender probes
the path with fleets of packet streams, a receiver looks for an increasing
trend in the one-way delays of each stream. The repository holds a port of it
to the ns-3 simulator (two `Application` classes) and, for reference and not
compiled (`src/applications/wscript` lists no file of it), the original C
program. This directory holds TLA+ models of the port, TLC configurations that
check them on small instances, and proofs that TLAPS checks for all instances.

Paths below are relative to the repository (`model/` is
`src/applications/model/`).

## Inventory

### The parts and how they interact

| part | files | state it keeps | operations |
|---|---|---|---|
| Sender application | `model/pathload-sender.{cc,h}` | `m_fleet_cnt`, `m_stream_cnt`, packet sizes, `m_stream_tail_time`, `m_fleet_tail_time`, sockets, and the events it has scheduled in the simulator | `StartApplication`, `HandleAccept`, `HandleRecv`, `SendPacketStream`, `SendControlMessage`, `StopApplication` |
| Receiver application | `model/pathload-receiver.{cc,h}` | `m_fleet_id`, `m_stream_id`, delays `m_owd`, metrics `m_pct`/`m_pdt` per stream and `m_pct_med`/`m_pdt_med` per fleet, packet sizes, sockets | `StartApplication`, `HandleConnected`, `HandleRecv`, `HandleRecvfrom`, `GetMetrics`, `StopApplication`, `DoDispose` |
| Control words and constants | `model/pathload-globals.h` | none | |
| Helpers, scenario, build file | `helper/*`, `scratch/pathload-scenario.cc`, `wscript` | none of their own | install the applications, build the topology |
| Original sender | `model/pathload-original-sender*.cc` | control socket, fleet id, stream parameters | `main`, `send_train`, `send_fleet`, `send_latency`, `recv_ctr_mesg` |
| Original receiver: control and fleets | `model/pathload-original-receiver*.cc` | expected fleet, train and packet ids, lossy streams, retries | `main`, `get_adr`, `recv_train`, `recv_fleet`, `ctrl_listen` |
| Original receiver: trend | `model/pathload-original-receiver-func.cc` 666-692, 1163-1334 | `pct_metric`, `pdt_metric` | `get_trend`, `get_pct_trend`, `get_pdt_trend`, `aggregate_trend_result` |
| Original receiver: rate adjustment | same file 834-1053, 1354-1390 | `tr`, `tr_min`, `tr_max`, `grey_min`, `grey_max`, flags of convergence | `rate_adjustment`, `radj_*`, `converged`, `calc_param`, `get_sending_rate` |

The two applications talk over a TCP connection (control words: packet sizes,
`SEND_FLEET`, `FINISHED_STREAM`, `CONTINUE_STREAM`) and a UDP path (probe
packets with fleet id, stream id, packet id and time stamp). ns-3 runs one
event at a time, so a callback is atomic; what interleaves is the order of the
events: scheduled calls, control words, probe packets.

A measurement: the receiver connects; both tell their packet size; the receiver
sends `SEND_FLEET`; the sender sends a stream, one packet per event, and 2 ms
later `FINISHED_STREAM`; the receiver computes the metrics of the stream under
`m_stream_id`, which the last probe packet (or the last `GetMetrics`) left, and
answers `CONTINUE_STREAM`; after a pause the sender goes on with the next stream
or, after `m_num_stream`, with the next fleet.

A measurement of the original program: sizes and the sender's latency are exchanged; the
receiver asks for packet trains until one arrives whole and takes the first estimate (ADR)
from it; then it asks for fleets at rates its search chooses, judges each stream, answers
`CONTINUE_STREAM` or `ABORT_FLEET`, and ends with `TERMINATE`; with `-i` the sender accepts
the next receiver.

### What is hard, and what makes each part correct

* **Two channels, one bookkeeping.** `m_stream_id` and `m_fleet_id` are set by
  probe packets on UDP and used by `GetMetrics` on a control word from TCP.
  Packets can be lost, a whole stream at a time, or come late. Correct: an index
  never leaves its array; a metric is that of the stream whose number it is
  stored under; a summary is that of one whole fleet.
* **Turn taking without retries.** Each side waits for the other's word.
  Correct: never two streams at once, and a measurement that starts ends.
* **Several words in one read.** `HandleRecv` reads up to a segment and looks at
  the first word. Correct: a dropped word must not stop a running measurement.
* **Two counters of fleets.** The sender stops after fleet `m_stream_period`, the
  receiver summarises fleets below `m_period`: the same number by two routes,
  and only their agreement keeps `m_pct[m_stream_id]` inside the array.
* **Stopping.** Nothing cancels the sender's scheduled events. Correct: they run
  out, and nothing is sent or measured out of turn.
* **Build.** Control messages are sent inside `NS_ASSERT`.
* **Pauses.** The time to wait depends on when the answer came, in relation to
  the end of the last stream or fleet. Correct: streams, also those of different
  fleets, are at least a stream period apart.
* **Numbers.** Delays of packets received back to back, streams cut where the
  sender paused, bursts behind a coalescing interface, lost packets as delay 0.0,
  medians, quotients that may be 0/0, an array of metrics whose index is never
  compared with its length, `l_int32` time stamps. Correct: a path whose delays do
  not rise is not taken for a loaded one, one whose delays rise is, and arrays hold
  what is put in.
* **Rate search of the original program.** A fleet's trend moves one of four bounds;
  flags set by one fleet change what later ones lead to; the functions that choose
  the next rate call each other; rates are rounded to whole bytes and microseconds,
  compared up to 2 %, and corrected to what was really sent. Correct: the range
  holds the available bandwidth, the calls return, the search ends, the report is
  true.
* **Original control protocol.** Words on TCP that are waited for 50 seconds or for
  ever, probe packets on UDP that carry no session, no sign of what they are (train or
  stream) and ids that begin at 0 with every receiver; aborted fleets, trains asked
  for again, alarms and signals at any point, connections that are reset, a `done`
  flag that is not reset. Correct: both sides count fleets and streams alike, what is
  computed comes from the packets it is taken for, nobody waits for ever.

`PROJECT.json` lists each hazard at its line with the properties about it.

## Modules

| module | what it is |
|---|---|
| `FleetExchange` | abstract specification: streams are sent and measured strictly in turn, `Total` in all |
| `PathloadPort` | the two applications, control connection, probe path and simulator events |
| `MCPathloadPort` | its instances, with `MCPort*.cfg` |
| `PathloadPort_proofs` | theorems about `PathloadPort`: turns, indices, refinement, where its metrics come from |
| `SenderTiming` | the pauses the sender makes, in real microseconds |
| `MCSenderTiming` | its instances, with `MCTiming*.cfg` |
| `SenderTiming_proofs` | theorems about `SenderTiming` |
| `RateAdjustment` | the rate search of the original receiver |
| `MCRateAdjustment` | its instances, with `MCRate*.cfg` |
| `RateAdjustment_proofs` | theorems about `RateAdjustment` |
| `TrendMetrics` | the arithmetic of both programs: cuts, medians, PCT, PDT, thresholds; operators only |
| `StreamTrend` | how a fleet's streams become metrics and a trend; extends `TrendMetrics` |
| `MCStreamTrend` | its streams and situations, with `MCTrend.cfg` |
| `TrendMetrics_proofs` | what the operators compute, for streams of any length |
| `StreamTrend_proofs` | theorems about `StreamTrend`; extends `TrendMetrics_proofs` |
| `OriginalControl` | the two original processes, their connection, probe packets and restarts |
| `MCOriginalControl` | its situations, with `MCOrig*.cfg` |
| `OriginalControl_proofs`, `OriginalControlWords_proofs`, `OriginalControlTrains_proofs` | theorems about `OriginalControl`: data, dialogue, trains; each extends the one before |

`RateAdjustment`, `StreamTrend` and `OriginalControl` are three views of one program
and each leaves open what another decides: `OriginalControl` lets any fleet be aborted
and any search end, `RateAdjustment` takes a fleet's trend from the path,
`StreamTrend` takes the time stamps of a stream as they come.

### PathloadPort

One action is one simulator event and runs the whole callback:

| action | code |
|---|---|
| `SenderStart`, `ReceiverStart` | the two `StartApplication` (the scenario starts the sender first) |
| `HandleConnected`, `HandleAccept` | the callbacks of the connection; the latter with `MainLoopPart1`, which sends the packet size |
| `SenderHandleRecv` | `PathloadSender::HandleRecv`: packet size, `SEND_FLEET`, `CONTINUE_STREAM`, unknown word |
| `RunEvent` | a call the sender scheduled: `SendFleet`, `SendPacketStream(k)`, `SendControlMessage(FINISHED_STREAM)` |
| `ReceiverHandleRecvfrom` | a probe packet arrives |
| `ReceiverHandleRecv` | `PathloadReceiver::HandleRecv`: packet size with `MainLoopPart2`, `FINISHED_STREAM` with `GetMetrics` |
| `SenderStop`, `ReceiverStop` | the two `StopApplication` |

Variables have the names of the members; `s_` and `r_` tell apart those both
classes have. `agenda` is the sender's share of the simulator's event queue,
`toRcv` and `toSnd` are the control words on the way, `probes` the packets on
the path. Two history variables: `streams_measured` counts `GetMetrics`, `stream_lost`
says whether the path has lost all packets of some stream.

What is abstracted. A delay is replaced by its provenance: `m_owd[k]` is the
stream whose packet was sampled, `m_pct[i]` the set of streams a metric came from,
`m_pct_med[f]` the array of metrics a summary came from (`m_pdt` and `m_pdt_med`
are written with them). Times are left out: any scheduled event may run next, which
allows more orders than a simulation. The four extra bytes each control message
carries on 64-bit builds (`sizeof` of a pointer) are part of the word.

What can be chosen: `InOrder` (whether the path keeps the order of sending, also
between probe packets and control words), `MaxLoss` (packets of one stream the
path may lose), `CoalesceReads`, `AssertsEnabled`, `MayStop`.

Fairness: `WF_vars(Work)`, the disjunction of everything but the stops.
`Simulator::Run` executes events as long as there are any, so some enabled event
runs; which one is not promised. No fairness is assumed of single actions and
none of the stops.

Assumptions on constants: at least two streams a fleet (with one, `m_stream_id`
would be 1 and out of range after the first fleet's reset and increment), at
least one packet and one fleet to summarise.

### SenderTiming

`SendStream` is a whole stream, `HandleContinue` the sender's handler of
`CONTINUE_STREAM` with the wait it computes. Instants are kept as ages, cut off
above `StreamPeriod`, because the code only asks whether an age exceeds the
period and otherwise uses its exact value. That a stream can be one step rests
on `OneTurn`, proved of `PathloadPort`.

### RateAdjustment

The phase `calc` is the top of the main loop (`model/pathload-original-receiver.cc`
356), `fleet` the time a fleet is under way; a step is one of

| action | code (`model/pathload-original-receiver-func.cc` unless said) |
|---|---|
| `CalcSlow`, `CalcMedium`, `CalcFast` | the three branches of `calc_param`; -1 ends the search |
| `FleetReceived` | `get_sending_rate`, what `aggregate_trend_result` may return, `rate_adjustment` or the repeat of the fleet |
| `FleetLossy` | `recv_fleet` aborts for losses: `INCREASING`, without `get_sending_rate` |
| `FleetInOneBurst`, `FleetInFewBursts` | the two aborts behind a coalescing interface |
| `sig_alrm` | option `-t` |

`range` has `tr_min`, `tr_max`, `grey_min`, `grey_max`; `close` and `tm` are the sets of
the flags `converged_*` and `converged_*_tm` that are set. `rate_adjustment` and the
`radj_*` are functions of the range to a decision (go on with a rate, stop, or `Hang`:
the mutual recursion has no end); their calls of each other are unfolded, which is
possible because a second round of calls changes nothing any more.

`setup` is what is fixed before the search: packet size, least interval, how many
microseconds late packets may leave, the ADR, the options, whether `abs` is that of
`int` (it depends on the compiler's headers), and the path. On a steady path a rate
above `hi` shows an increasing trend, one below `lo` none, one between is grey; on an
erratic path a fleet may show anything.

What is abstracted. Rates are whole kbit/s (the program has `double`), so halves and
quotients are rounded; `min_rate` is 9 for 9.12. A stream adds one interval to
`interval_sum`, not 85 % of its packets. How many bursts it takes to give up
(`repeat_1`, `repeat_2`) is left open. `min_rate_flag` is never set in the code and
left out. `faults` bounds how many fleets may be sent late, cut off after their first
stream, unusable, or received in bursts.

History: `exact` becomes `FALSE` when a fleet is noted with a trend it did not show (too
few bursts, no usable stream) or at a rate that is not its own: `snd_time_interval` and
`num` are not reset when a fleet is aborted, so the next actual rate is a mean of both
fleets, and `calc_param` may change `tr` above 600 Mbit/s after `L` and `T`, or, there, end
the search with `tr_max` at a rate no fleet was sent at (1037-1038, where packets are
larger than Ethernet's).

Fairness: `WF_vars(Next)`. The receiver is a loop and does its next step; on a steady
path the fleet's trend leaves it no other choice.

### TrendMetrics and StreamTrend

`TrendMetrics` has an operator for each function of the code, under its name:
`SenderCuts` for `eliminate_sndr_side_CS`, `NotBackToBack` for `eliminate_rcvr_side_CS`,
`LastOfBursts` for `eliminate_b2b_pkt_ic`, `Medians` for the medians of `get_trend`,
`SenderIntervals` for `get_sndr_time_interval`; and the port's `m_owd`, `PortMedians`,
`GetMetrics`. `StreamTrend` takes a fleet through them:

| action | code (`model/pathload-original-receiver-func.cc` unless said) |
|---|---|
| `ReceiveStream` | `recv_fleet` after a stream: losses, `check_intr_coalescence`, intervals, delays, cuts |
| `TrendOfPiece` | a piece of the stream without coalescence: `get_trend` of what is left of it |
| `TrendOfBursts`, `FewBursts` | a piece of a coalesced stream, with many bursts or few; the third with few aborts |
| `EndOfStream` | the loop over the streams |
| `Classify`, `Aggregate` | `aggregate_trend_result`, metric by metric |
| `PortStream` | `PathloadReceiver::GetMetrics` |

Times are whole microseconds. Quotients are pairs of numbers, compared crosswise;
<<0, 0>> is the double "not a number", for which every comparison fails, so that
`pdt_trend` keeps what the stack holds: any of its values. The stamp behind the last packet
(`rcvr_time_stamp[stream_len]`) is not set by anybody: `tail`, any value.

### OriginalControl

The two processes take their steps between blocking calls; a program counter, `s_pc`
and `r_pc`, says which call is next.

| action of the sender | code (`model/pathload-original-sender.cc` unless said) |
|---|---|
| `Accept`, `GetSize` | `accept` and the sizes |
| `GetAdrRequest`, `SendTrain`, `GetVerdict` | `send_train` and the words around it (`-sender-func.cc`) |
| `GetRate`, `GetParam`, `GetOrder` | the five words of a fleet |
| `SendStream`, `GetAnswer` | `send_fleet`, a stream and its answer (`-sender-func.cc`) |

| action of the receiver | code (`model/pathload-original-receiver-func.cc` unless said) |
|---|---|
| `ReceiverStart`, `ReceiverGetSize`, `SizeAlarm` | `main`: connect, sizes, the alarm of 60 seconds |
| `ReceiverGetLatency`, `ReadTrainPacket`, `EndOfTrain` | `get_adr`, `recv_train` |
| `AskForFleet`, `EndSearch` | the loop of `main` |
| `AwaitRecvFleet`, `ReadStreamPacket`, `EndOfStream`, `TrainPacketInFleet` | `recv_fleet` |
| `Alarm`, `ReceiverDies`, `Crash` | option `-t`; a write to a closed connection or out of bounds; a signal |

`link` is the connection as the sender's kernel knows it: `open`; `fin` when the
receiver has closed it; `resetting` when that end answers data by a reset, so that a
further write raises `SIGPIPE`; `none` when the sender has closed it; `left` when it
goes back to `accept` without closing it. `backlog` is a connection that waits for
`accept`. `toRcv`, `toSnd` are the words under way; `udp` the probe packets on the path
or in the receiver's socket, which lives as long as the receiver's process.

What is abstracted. A packet carries a session and a kind in the model, which the code
cannot see: `ReadTrainPacket` and `ReadStreamPacket` read a packet of the other kind the way the
code does, field by field. `pack_id` is -1 for "not set". A time stamp is the packet
that brought it. The sender's 50 seconds pass only when no word can come
(`NothingWillCome`) or the network is down (`outages`). A fleet's parameters are
reduced to whether it is of one stream. The build without `THRLIB` is modelled.

`setup` fixes the options `-i` and `-t`, whether the path keeps the order, and how many
losses, crashes and outages there may be; `MaxFleets` and `MaxSessions` bound the search
of a receiver and the receivers.

Fairness: `WF_vars(SenderNext) /\ WF_vars(ReceiverNext)`. They are processes of their own
(mostly on two hosts) that go on when they can; the alarms are part of `ReceiverNext` since a
timer that is set rings. Nobody has to start or kill a receiver, and which of several
possible steps a process takes (abort or continue, lose or deliver) is never promised.

## Runs

| run | module, configuration | instance | checks |
|---|---|---|---|
| `port_in_order` | `MCPortInOrder` | 3 streams of 4 packets, 3+1 fleets, any packets lost, also all of a stream, in order | `TypeOK`, `FleetSummaryComplete`, `MetricOfOwnStream`, `ExchangeFairSpec`, `AllFleetsSummarised` |
| `port_disturbed` | `MCPortDisturbed` | 2 streams of 2 packets, 1+1 fleets, packets as late as can be or never, one read may take several words, either side may stop any time | `GetMetricsIndexInBounds`, `ProbeBufferSized`, `OneTurn`, `ExchangeSpec`, `StallOnlyAtStart`, `StoppedSenderDrains` |
| `port_no_assert` | `MCPortNoAssert` | 2 x 2, `NS_ASSERT` compiled out | violated: `ReceiverToldPacketSize` |
| `timing_pauses` | `MCTimingPauses` | the real 12 x 100 x 80 us, 4 fleets, answers after 0, 30 ms, one microsecond around the threshold, 3 periods | `TypeOK`, `PausedWithinFleet` |
| `timing_fleets` | `MCTimingFleets` | the same | violated: `PausedAfterFleet` |
| `rate_search` | `MCRateSearch` | 81 setups: grey regions from 300 kbit/s to above `max_rate`, 0 to 100 Mbit/s wide, hosts of 124, 120, 150 and 1000 Mbit/s, eleven ADRs, both `abs`, packets 0 to 9 us late, coalescing, `-w`, `-t`, an erratic path | `TypeOK`, `BracketHolds`, `GreyRegionNested`, `NeverHung`, `FleetMakesRate`, `ReportIsTrue`, `SearchEnds` |
| `rate_converged` | `MCRateConverged` | one setup with late packets | violated: `ConvergedEnds` |
| `rate_repeat` | `MCRateRepeat` | one setup of a fast host | violated: `RepeatedFleetIsSent` |
| `rate_grey` | `MCRateGrey` | available bandwidth 1 to 2 Mbit/s, ADR 100 | violated: `ReportedGreyIsKnown` |
| `orig_trend` | `MCTrend` | 13 streams of the real 100 packets (steady, rising, half rising, sawtooth, falling, with losses, with pauses, held in groups of 5, 30 and 100, after the overflow of the port's stamp), 2 to a fleet, 6 situations | `TypeOK`, `TrendArrayFits`, `TestsApply`, `SteadyNotIncreasing`, `RisingIsIncreasing`, `MeanIntervalIsPeriod`, `PortSeesRise` |
| `orig_control` | `MCOrigControl` | 4 situations (losses; option `-t`, losses and a killed receiver; a killed receiver and an outage; a path that reorders), 2 fleets of 2 streams of 2 packets, trains of 2 packets, one receiver after another | `TypeOK`, `StreamIdsAgree`, `SamplesOfOwnStream`, `LossCounted`, `AdrOfOneTrain`, `DesertedOnlyThen`, `ResendOnlyToNobody`, `SenderReturns`, `ReceiverEnds` |
| `orig_persistent` | `MCOrigPersistent` | nothing goes wrong, option `-i`, two receivers | violated: `FleetIsSent` |

Why these bounds are enough. The handlers of the port distinguish the first stream of
a fleet, one in the middle and the last (3 streams), a fleet that is summarised from
the one after, which is not (`Period` + 1 fleets), and no packet, some and all of a
stream lost. `port_disturbed` has first and last streams only: it has the largest state space
(1 139 528 states), and its invariants and `ExchangeSpec` are proved for all values. It needs
no losses of its own, since a packet that arrives after the last control word might as
well be lost. That a measurement goes on to its end although packets come late is
`StallOnlyAtStart` there: what comes before the first stream involves no packets.
`CHECK_DEADLOCK FALSE` is set because every run ends: after the last fleet, after the
last receiver, or when a word was not sent.

The search is a computation with real numbers: its setups are not small cases of
something larger but representatives. They take every branch of `calc_param`,
`get_sending_rate` and `rate_adjustment` (TLC's coverage shows no expression of an
action that is never evaluated). One fault (two on fast hosts) is
enough to combine a fault with every state of a search; more repeat the effect.

The same goes for `orig_trend`: its streams are of the real length, each made to take a
path through the cuts and tests of its own; two to a fleet give every pair of them.
`TREND_ARRAY_LEN` is 4, the least the assumption allows two streams (in the code 24 of
50 are used), and the stamp of the port overflows at 2^20 for 2^32, so that streams begin on
either side of it.

`orig_control` (198 482 states) has the least numbers that tell apart first, last and
aborted: `MAX_TRAIN` 4 leaves three trains the sender has and one too many; trains of two
packets can lose one, all, or come out of order; two fleets and two receivers give a
second id 0. Everything but the liveness properties is also proved for all values.
A path that reorders is not combined with a second receiver: packets of the first one can
then be taken for the second's, which no check in the code prevents, and `SamplesOfOwnStream`
and `AdrOfOneTrain` say so by their hypothesis `OwnPackets`.

What the runs show about the program:

* A control message is sent inside `NS_ASSERT` (`pathload-sender.cc:565`,
  `pathload-receiver.cc:695`): without assertions nothing is ever sent.
* `m_fleet_tail_time` is meant to be the time at which a fleet has been sent
  (`pathload-sender.h:125`), but line 456 sets it at the end of the last but one stream. By the
  time the next fleet is due more than a period has passed since, so the sender does not
  wait for the rest of one (`pathload-sender.cc:212-217`) and fleets follow each other
  after one answer, without the pause streams have (`timing_fleets`; that the branch is
  never taken is proved).
* The rate search ends where both resolutions are wider than the steps between the
  rates that can be sent (`CanEnd`). With a finer one (no ADR, or one far below the
  available bandwidth) it probes one rate for ever; only `-t` helps.
* A search with `converged_gmx_rmx_tm` set does not end when it has converged
  (`rate_converged`).
* A fleet between 150 and 600 Mbit/s is never repeated: `calc_param` takes the unchanged
  `L` and `T` for a limit (`rate_repeat`).
* `converged` takes an unknown grey region for one at 0: with little available
  bandwidth the search reports 0.00 - 0.00 (`rate_grey`).
* A persistent sender (`-i`) sends fleets to its first receiver only: `done` is never
  reset (`orig_persistent`).
* The sender can end its trains one earlier than the receiver: after `MAX_TRAIN` - 1 bad
  ones both wait, the sender for 50 seconds, the receiver for ever. This is the second
  case of `DesertedOnlyThen`; the third, `done`, is the finding above.

## Proofs

All theorems hold for all values of the constants under the named `ASSUME`s of the
modules; the few that need more say so in their hypotheses, which are explained below
with what the code does where they fail. Each invariant was checked by TLC before it was proved; each
proof has one lemma per action and one step per conjunct the action can disturb.

### PathloadPort

`PathloadPort_proofs` proves `TypeOK`, `GetMetricsIndexInBounds`, `OneTurn`,
`ProbeBufferSized`, and that `Spec` implements `FleetExchange!Spec` (`ExchangeSpec`).
None of these is inductive. The strengthening `IInv` adds

* `Turn`: the phase of the exchange (`Starting`, `Asked`, `Streaming`, `Finishing`,
  `Continuing`) fixes `agenda`, `toRcv`, `toSnd` and how many streams are
  unmeasured; each phase allows for the word that should be there not to have
  been sent (no assertions, stopped) or to have been dropped (coalesced);
* `ProbesNotAhead`: no packet in flight is of a stream later than the one due,
  where `Due` is `m_stream_cnt` less the unmeasured stream;
* `ReceiverNotAhead`: below fleet `Period` the reset keeps `m_stream_id` under
  `NumStream`; in fleet `Period`, where it is not reset any more, it is at most
  `Due`, and `Due` is below `NumStream` whenever metrics are computed. This is
  why the unchecked index is right, and it needs both counters of fleets to agree;
* that the receiver's buffer size is known once the sender told its size.

The refinement rests on the same invariant: `SentAndMeasured` (at most one stream is
unmeasured) and `CounterSteps` (how the two counters can move in a step).

The module also proves `MetricOfOwnStream` and `FleetSummaryComplete` on top of
`IInv`. `OrderInv` speaks of paths that keep the order: packets under way and samples
taken are those of the stream that is due, with the first sample the receiver has its
numbers, and between the metrics of a stream and the next nothing is under way. `ArrivalInv`
adds, as long as no stream was lost as a whole (the history variable `stream_lost`), that one
packet of a stream gets through before `FINISHED_STREAM` does, so that the streams before the one due are measured and the
summaries are complete.

### SenderTiming

`SenderTiming_proofs` proves `TypeOK` and `PausedWithinFleet` for every stream length,
interval and delay of answers, and how far the violation of `PausedAfterFleet` goes: the
wait after a fleet is 0 every time (`WaitAfterFleetIsDead`). `Pauses` strengthens them:
a due stream comes a full period after the one before; the age of the fleet is that
of the stream after the last but one stream, and above the period after the last.

### RateAdjustment

`RateAdjustment_proofs` proves `TypeOK`, `BracketHolds`, `FleetMakesRate`, `GreyRegionNested`,
`NeverHung` and `ReportIsTrue` for every setup: every host, ADR, option, path and number of
faults. Five invariants, each on top of the ones before:

* `TInv` (types and `Measures`): no rate exceeds that of a full packet every
  microsecond, no interval of a fleet is 0, the sum of intervals is at least their number, and a
  grey region without a lower end has a `tr_min` to take the middle from;
* `BInv`: a fleet is sent at `tr` exactly or, below 150 Mbit/s, with the size for it
  rounded to bytes (`SentAs`), and nothing of an older fleet is in the mean of the
  intervals (`NothingOlder`). So the bound that a trend moves is a rate the path
  showed that trend at: `BracketHolds`, with the `Step` by which a fleet cut off for
  its losses may have been faster than the rate that is noted;
* `GInv`: `tr_max` may be noted by such a fleet at the rate asked for, below the rate sent.
  While it is (`Asked`), no fleet is sent faster than that one (`AskedBelow`), hence no
  later grey or unloaded rate passes `tr_max`, and the ends of the grey region stay in
  order (`GreyKnown`). That the search never doubles a rate once `tr_max` is known
  (`DoublesBelow`) is part of it;
* `NInv`: with the bounds in order, `converged` returns before the calls go round;
* `RInv` (on top of `TInv` and `BInv`): no rate is above `max_rate`, and `max_rate` is sent as
  such (`UpToMaxRate`), so no branch for faster rates is taken; the rate asked for is `equal` to
  the one sent, so no mismatch is noted; a search that is ended by neither the alarm, context
  switches nor `max_rate_flag` is ended by `converged`, for the range that is reported
  (`EndsConverged`), and then the bracket says where the region of the path is; and where
  `max_rate` is above that region, `max_rate_flag` is set only until the fleet at `max_rate`
  resets it (`FlagAwaitsFleet`). That the flags of convergence may be older than the grey
  region does no harm: they alone end no search.

What the provers needed are lemmas about the roundings (`RintWithin`, `RateWithin`,
`WireSizeWithin`: products instead of quotients), from which the rest is linear.

Four properties have a hypothesis. `FleetMakesRate` holds where a packet is handled
within 30 ms: rates are whole kbit/s here, and at an interval of 32 ms one byte more or less is
more than the 2 % that `equal` overlooks. `GreyRegionNested` and `NeverHung` hold for packets
up to 1500 bytes and hosts that handle one in less than 456 us (`Ethernet`): otherwise a
microsecond more, or another size, makes a rate between the `tr_max` asked for and
the one really sent, and a fleet there may show no trend above `tr_max`. The code bounds
neither; it takes the segment size of the connection, and that of Ethernet where it cannot be read
(`model/pathload-original-receiver.cc` 207-212).
`ReportIsTrue` holds for hosts that need 80 to 4000 us for a packet and send less than
150 Mbit/s (`SlowHost`), where "above max_rate" is proved without the tolerance the property has
(`MaxRateIsFree`). On faster hosts the tolerance is needed: the branch of
150 Mbit/s may send a rate that is a little lower where `max_rate` was asked for, while
`max_rate_flag` has counted it.

### TrendMetrics and StreamTrend

All seven invariants of `StreamTrend` are proved, for streams of any length and any
stamps. The proofs are in two layers.

`TrendMetrics_proofs` says what the operators compute. The loops over packets are recursive
functions; such a function exists (`Recursion`) and what holds of its values is shown from one
to the next (`Induction`, for a set of numbers, not for a formula: the provers cannot
instantiate one). Sums are added up value by value. What `ValuesAt` and `LastOfBursts` return
*lists* packets: there is an increasing order of them with these values (`Lists`). Order
is by counting: the value at place i has fewer than i values below it and i up to it
(`Ordered`, `OrderedRises`), so a median lies between the bounds of its group, and the medians
of groups of rising delays rise.

`StreamTrend_proofs` carries this through a fleet with three invariants:

* `TypeInv`: types; the stream looked at is one that was seen, `owd` its adjusted delays,
  `low` before all cuts;
* `MetricsInv`: each metric noted `Tells` what it should of the streams seen so far;
* `ClassesInv`: the classes are those of the metrics, in their order, the trend that of the classes.

From them, with what the two tests make of a piece:

* `TestsApply`. A piece of more than `MIN_STREAM_LEN` delays has medians enough for both tests
  (`SizeAssumption`). The port has as many as the root of the stream's length, which no line
  of it compares with the least number: hypothesis
  `IntSqrt(stream_len) >= MIN_PARTITIONED_STREAM_LEN` (10 and 5 in the code).
* `SteadyNotIncreasing`. Delays that do not rise would leave no median below its successor, but
  for packets whose delay is exactly 0, which `adjust_offset_to_zero` takes for lost and leaves
  at 0. Falling delays pass 0 once. So the adjusted ones fall, rise at most
  once, and fall again (`Turns`), medians of groups of them rise at two neighbouring places at
  most (`MediansTurn`, `TwoNeighbours`), and 2 of 5 is less than the threshold of 0.55. Hypothesis: `MIN_PARTITIONED_STREAM_LEN >= 5`, the code's value.
* `RisingIsIncreasing`. All neighbouring medians rise, n - 1 of n, which is above the
  threshold from 3 on, and all ups and downs are ups. Hypothesis `NoZeroDelay`: here one delay of
  exactly 0 is one median that may be far out of line. It needs a receiver's clock as far behind the
  sender's as the path is long, to the microsecond.
* `MeanIntervalIsPeriod`. With less than `HIGH_LOSS_RATE` per cent lost, and each lost packet
  taking two gaps with it, at least seven tenths of the gaps are known, of which 15 per cent are dropped,
  rounded to the nearest. The pauses, a tenth of the packets at most, are the longest gaps and
  among the dropped (`PausesDropped`). Hypothesis `HIGH_LOSS_RATE <= 15`, the code's value: with
  more lost the 15 per cent of what is left may be fewer than the pauses.
* `PortSeesRise`. Half of each group received, the upper median of the group is the delay of a
  packet of it that was received (a lost one has delay 0 and is below all), so medians rise from
  group to group. Hypotheses: the root of the stream's length as above, and `OneClock`: stamps are taken from
  one clock that starts at 0, which the simulator's is; a delay is then above 0, even
  with a sender's stamp that has overflowed.
* `TrendArrayFits`. Nothing compares `trend_idx` with the length of `pct_metric`, yet it
  fits: pieces do not overlap and only one of more than `MIN_STREAM_LEN` packets adds a metric,
  so the metrics of the stream under way are paid for by the packets before `low`
  (`ArrayInv`), and a stream has at most `stream_len \div (MIN_STREAM_LEN + 1)` of them. The assumption
  on the array holds of the code (12 * (100 \div 37) = 24 of 50). It would not for streams
  of 300 packets (12 * 8 = 96), which are only used behind a coalescing interface, where the
  property does not apply: there every piece adds a metric.

### OriginalControl

`OriginalControl_proofs` proves `TypeOK`, `SamplesOfOwnStream` and `LossCounted` from `DataInv`:
types, the room left for the fleet and stream that is waited for, what packets may be
under way (`PathOK`), and that on a path that keeps the order the trains wash out what earlier
receivers left (`OldGone`). For `LossCounted` the number of cells without a stamp is followed
through the jumps of `exp_pkt_id`.

`OriginalControlWords_proofs` proves `StreamIdsAgree`, `DesertedOnlyThen` and
`ResendOnlyToNobody`. `WordInv` is the dialogue: while the connection is open the two program
counters, the counters of trains, fleets and streams and the words under way are in one of
six phases (`Handshake`, `Trains`, `TrainTooMany`, `FleetRequest`, `StreamUnderWay`,
`StreamJudged`); `RcvWords` says what may be left on a connection that is not open any more,
`Deserted` follows the reasons for which a receiver is left alone.

`OriginalControlTrains_proofs` proves `AdrOfOneTrain`. `pack_id` may be anything when no packet was
read or the receiver's own random data came last, and the socket may hold packets of earlier
receivers and other kinds. `TrainInv` says why the stamp of a good train is written behind
its last packet all the same: packets of earlier receivers are followed by random data,
which spoils the train that reads it (`OldRead`; `recvfrom_latency` stops after as many packets as
it has sent, and `LatencyProbes` is at least 1), and no packet of a stream is sent before the
trains are over (`StreamsLater`), which follows from `WordInv`.

### Only model-checked

* Everything under fairness (`ExchangeFairSpec`, `AllFleetsSummarised`,
  `StallOnlyAtStart`, `StoppedSenderDrains`, `SearchEnds`, `SenderReturns`, `ReceiverEnds`), which
  is out of the prover's reach.
* `ReportIsTrue` of hosts that are not `SlowHost`. Rates above `max_rate` may be sent there
  (branch of 150 Mbit/s) and bounds be moved by `calc_param` itself (branch of 600 Mbit/s), so
  `UpToMaxRate` does not hold. Of the 81 setups 12 are slow hosts whose reports count.

## Not modelled

* Of the port: `DoDispose` (deletes arrays only `StartApplication` allocates), a second
  start, a second connection while a fleet is under way. The scenario has one receiver
  and starts it once.
* Of the original program: the build with `THRLIB`, whose control thread signals the main
  thread (the model has the build without); `min_sleeptime`, `send_latency` and
  `recvfrom_latency` as measurements of the host, whose results are parameters
  (`rcv_latency`, `min_time_interval`), while the packets `recvfrom_latency` leaves behind are
  modelled; when exactly a packet leaves, of which `RateAdjustment` and `StreamTrend` take
  the effect (late packets, pauses); the counters `print_contextswitch_info` prints.
* Three details no property depends on: `adjust_offset_to_zero` keeps its minimum in an `l_int32`
  (delays are whole microseconds here); a `select` of the original receiver reads one packet
  and then the word, so that packets may be left unread even where the path keeps the order (here
  only where it does not); packets still in flight when a receiver exits are dropped.
* Helpers, topology and cross traffic: they build objects and decide what the path loses
  or delays, which is arbitrary here.
* Console and file output, random payloads, socket options.

What could still be added: a model of the life cycle of the port's objects (start, stop,
dispose, second connection), the build with `THRLIB`, and a composition of `OriginalControl`
with the decisions of `RateAdjustment` in place of open choices.
