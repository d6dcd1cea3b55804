--------------------------- MODULE SenderTiming ---------------------------
(***************************************************************************)
(* When the ns-3 sender sends its streams. On CONTINUE_STREAM it looks how *)
(* long ago the last stream (m_stream_tail_time) or the last fleet         *)
(* (m_fleet_tail_time) ended, and waits for the rest of m_stream_period    *)
(* before the next stream, so that the queues a stream filled drain first. *)
(* Times are microseconds. An instant is kept as its age, the time that    *)
(* passed since, so that no clock grows without bound.                     *)
(*                                                                         *)
(* A stream is one step here: PathloadPort has its packets one by one and  *)
(* shows (OneTurn) that nothing else is pending meanwhile.                 *)
(***************************************************************************)
EXTENDS Naturals

CONSTANTS
    NumStream,      \* m_num_stream
    StreamLen,      \* m_stream_len
    TimeInterval,   \* m_time_interval: 80 microseconds
    LastFleet,      \* bound: the fleets looked at are 0..LastFleet
    Answers         \* how long CONTINUE_STREAM may take after FINISHED_STREAM

ASSUME NumStreamAssumption == NumStream \in Nat /\ NumStream >= 2
ASSUME StreamAssumption == StreamLen \in Nat \ {0} /\ TimeInterval \in Nat \ {0}
ASSUME FleetAssumption == LastFleet \in Nat
ASSUME AnswersAssumption == Answers \subseteq Nat

StreamDuration == StreamLen * TimeInterval  \* m_stream_duration
StreamPeriod   == 9 * StreamDuration        \* m_stream_period
FinishDelay    == 2000                      \* before FINISHED_STREAM is sent

\* The age of an instant d later. Ages above the period are one value: the code
\* does not tell them apart.
Aged(age, d) == IF age + d > StreamPeriod THEN StreamPeriod + 1 ELSE age + d

VARIABLES
    phase,          \* "scheduled": the next stream is due; "sent": its end is
    m_stream_cnt,   \* streams of the fleet sent so far
    m_fleet_cnt,    \* fleet being sent
    streamAge,      \* age of m_stream_tail_time
    fleetAge,       \* age of m_fleet_tail_time
    waittime        \* after this time SendFleet runs

vars == <<phase, m_stream_cnt, m_fleet_cnt, streamAge, fleetAge, waittime>>

\* HandleRecv of SEND_FLEET. No stream or fleet has ended, and neither age is
\* looked at before one has.
Init ==
    /\ phase = "scheduled"
    /\ m_stream_cnt = 0 /\ m_fleet_cnt = 0
    /\ streamAge = 0 /\ fleetAge = 0
    /\ waittime = 0

\* The stream of a fleet after which m_fleet_tail_time is set: the last but one.
FleetTailAt(cnt) == cnt = NumStream - 1

\* The scheduled stream: all calls of SendPacketStream, with the one that finds
\* the stream complete.
SendStream ==
    /\ phase = "scheduled"
    /\ phase' = "sent"
    /\ m_stream_cnt' = m_stream_cnt + 1
    /\ streamAge' = 0
    /\ fleetAge' = IF FleetTailAt(m_stream_cnt + 1) THEN 0
                   ELSE Aged(fleetAge, waittime + StreamDuration)
    /\ waittime' = 0
    /\ UNCHANGED m_fleet_cnt

\* The time to wait when the stream or fleet before ended elapsed ago.
WaitUnguarded(elapsed) == StreamPeriod - elapsed       \* mutant of WaitTime

WaitOfFleetOnly(elapsed) ==                            \* mutant of WaitTime
    IF m_stream_cnt < NumStream \/ elapsed > StreamPeriod THEN 0
    ELSE StreamPeriod - elapsed

WaitTime(elapsed) == IF elapsed > StreamPeriod THEN 0 ELSE StreamPeriod - elapsed

\* HandleRecv of CONTINUE_STREAM, at most 2000 microseconds and an answer after
\* the end of the stream.
HandleContinue ==
    /\ phase = "sent"
    /\ phase' = "scheduled"
    /\ \E d \in Answers :
         /\ streamAge' = Aged(streamAge, FinishDelay + d)
         /\ fleetAge' = Aged(fleetAge, FinishDelay + d)
    /\ \/ /\ m_stream_cnt < NumStream
          /\ waittime' = WaitTime(streamAge')
          /\ UNCHANGED <<m_stream_cnt, m_fleet_cnt>>
       \/ /\ m_stream_cnt >= NumStream
          /\ m_fleet_cnt < StreamPeriod /\ m_fleet_cnt < LastFleet
          /\ m_stream_cnt' = 0
          /\ m_fleet_cnt' = m_fleet_cnt + 1
          /\ waittime' = WaitTime(fleetAge')

Next == SendStream \/ HandleContinue

Spec == Init /\ [][Next]_vars

-----------------------------------------------------------------------------
(* Properties.                                                             *)

\* Every member is a number of its range, and no wait exceeds the period.
TypeOK ==
    /\ phase \in {"scheduled", "sent"}
    /\ m_stream_cnt \in 0..NumStream /\ m_fleet_cnt \in 0..LastFleet
    /\ streamAge \in 0..StreamPeriod+1 /\ fleetAge \in 0..StreamPeriod+1
    /\ waittime \in 0..StreamPeriod

\* "Inter-stream latency is max{ RTT, 9*stream_duration }" (the rule of the
\* original sender, kept in the port at pathload-sender.cc:385): between two
\* streams of a fleet the path gets at least a stream period to drain.
PausedWithinFleet ==
    [][SendStream /\ m_stream_cnt # 0 => streamAge + waittime >= StreamPeriod]_vars

\* The same pause between two fleets: the first stream of a fleet comes at least
\* a period after the fleet before it was sent. The sender measures this from
\* m_fleet_tail_time, the "time at which the packet fleet has been sent"
\* (pathload-sender.h:125, in Japanese), and has the branch that waits for the
\* rest of the period (pathload-sender.cc:210-218).
PausedAfterFleet ==
    [][SendStream /\ m_stream_cnt = 0 /\ m_fleet_cnt # 0
          => streamAge + waittime >= StreamPeriod]_vars
=============================================================================
