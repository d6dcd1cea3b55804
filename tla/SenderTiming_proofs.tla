------------------------ MODULE SenderTiming_proofs ------------------------
(* The pauses of the sender, for every number and length of streams, every  *)
(* interval between packets and every delay of the answers.                 *)
EXTENDS SenderTiming, TLAPS

\* The only fact about the period that the argument needs: it is a natural
\* number, and so is the duration, which is positive.
LEMMA Durations ==
    StreamDuration \in Nat /\ StreamDuration > 0 /\ StreamPeriod \in Nat
<1>1. StreamLen \in Nat /\ TimeInterval \in Nat /\ StreamLen > 0 /\ TimeInterval > 0
    BY StreamAssumption
<1>2. ASSUME NEW a \in Nat, NEW b \in Nat, a > 0, b > 0 PROVE a * b \in Nat /\ a * b > 0
    BY <1>2
<1>3. StreamDuration \in Nat /\ StreamDuration > 0
    BY <1>1, <1>2 DEF StreamDuration
<1>. QED
    BY <1>3 DEF StreamPeriod

\* A due stream of a fleet comes a full period after the one before. The fleet
\* counts as ended when its last but one stream did; hence its age is that of
\* the stream until the last stream is out, and above the period after that.
Pauses ==
    /\ phase = "sent" => m_stream_cnt # 0 /\ streamAge = 0
    /\ phase = "scheduled" => m_stream_cnt < NumStream
    /\ phase = "scheduled" /\ m_stream_cnt # 0 => streamAge + waittime >= StreamPeriod
    /\ m_stream_cnt = NumStream - 1 => fleetAge = streamAge
    /\ m_stream_cnt = NumStream => fleetAge > StreamPeriod

IInv == TypeOK /\ Pauses

\* Nothing has been sent when the first stream is due.
LEMMA InitEstablishes == Init => IInv
BY Durations, NumStreamAssumption, FleetAssumption DEF Init, IInv, TypeOK, Pauses

\* The last stream of a fleet makes the end of the fleet, as the sender sees it,
\* older than a period.
LEMMA SendStreamPreserves == ASSUME IInv, SendStream PROVE IInv'
<1>1. TypeOK'
    BY Durations, NumStreamAssumption DEF IInv, TypeOK, Pauses, SendStream, FleetTailAt, Aged
<1>2. Pauses'
  <2>1. m_stream_cnt + 1 = NumStream => fleetAge' > StreamPeriod
    \* Before the last stream the fleet is as old as the stream before it.
    <3>1. SUFFICES ASSUME m_stream_cnt + 1 = NumStream PROVE fleetAge' > StreamPeriod
        OBVIOUS
    <3>2. fleetAge = streamAge /\ m_stream_cnt # 0 /\ m_stream_cnt = NumStream - 1
        BY <3>1, NumStreamAssumption DEF IInv, TypeOK, Pauses
    <3>3. fleetAge + waittime >= StreamPeriod
        BY <3>2 DEF IInv, Pauses, SendStream
    <3>4. fleetAge + (waittime + StreamDuration) > StreamPeriod
        BY <3>3, Durations DEF IInv, TypeOK
    <3>5. fleetAge' = StreamPeriod + 1
        BY <3>1, <3>4, NumStreamAssumption DEF SendStream, FleetTailAt, Aged
    <3>. QED
        BY <3>5, Durations
  <2>. QED
    BY <2>1, Durations, NumStreamAssumption
    DEF IInv, TypeOK, Pauses, SendStream, FleetTailAt
<1>. QED
    BY <1>1, <1>2 DEF IInv

\* After the last stream of a fleet the end of the fleet is taken to be older
\* than a period, so no wait is scheduled.
LEMMA HandleContinuePreserves ==
    ASSUME IInv, HandleContinue
    PROVE IInv' /\ (m_fleet_cnt' # m_fleet_cnt => waittime' = 0)
<1>1. PICK d \in Answers : /\ streamAge' = Aged(streamAge, FinishDelay + d)
                           /\ fleetAge' = Aged(fleetAge, FinishDelay + d)
    BY DEF HandleContinue
<1>2. d \in Nat /\ phase = "sent" /\ phase' = "scheduled"
    BY AnswersAssumption DEF HandleContinue
<1>3. /\ streamAge' \in 0..StreamPeriod+1 /\ fleetAge' \in 0..StreamPeriod+1
      /\ fleetAge = streamAge => fleetAge' = streamAge'
      /\ fleetAge > StreamPeriod => fleetAge' > StreamPeriod
    BY <1>1, <1>2, Durations DEF Aged, FinishDelay, IInv, TypeOK
<1>4. CASE m_stream_cnt < NumStream /\ waittime' = WaitTime(streamAge')
                                    /\ UNCHANGED <<m_stream_cnt, m_fleet_cnt>>
  <2>1. waittime' \in 0..StreamPeriod /\ streamAge' + waittime' >= StreamPeriod
    <3>1. ASSUME NEW age \in 0..StreamPeriod+1
          PROVE  WaitTime(age) \in 0..StreamPeriod /\ age + WaitTime(age) >= StreamPeriod
        BY Durations DEF WaitTime
    <3>. QED
        BY <1>3, <1>4, <3>1
  <2>2. TypeOK'
    BY <1>2, <1>3, <1>4, <2>1 DEF IInv, TypeOK
  <2>3. Pauses'
    BY <1>2, <1>3, <1>4, <2>1 DEF IInv, TypeOK, Pauses
  <2>. QED
    BY <1>4, <2>2, <2>3 DEF IInv
<1>5. CASE /\ m_stream_cnt >= NumStream
           /\ m_fleet_cnt < StreamPeriod /\ m_fleet_cnt < LastFleet
           /\ m_stream_cnt' = 0
           /\ m_fleet_cnt' = m_fleet_cnt + 1
           /\ waittime' = WaitTime(fleetAge')
  <2>1. m_stream_cnt = NumStream /\ fleetAge > StreamPeriod
    BY <1>5, NumStreamAssumption DEF IInv, TypeOK, Pauses
  <2>2. waittime' = 0
    BY <1>3, <1>5, <2>1 DEF WaitTime
  <2>. QED
    BY <1>2, <1>3, <1>5, <2>2, Durations, NumStreamAssumption, FleetAssumption
    DEF IInv, TypeOK, Pauses
<1>. QED
    BY <1>4, <1>5 DEF HandleContinue

\* A step that changes no member keeps the invariant.
LEMMA StutterPreserves == ASSUME IInv, UNCHANGED vars PROVE IInv'
BY DEF IInv, TypeOK, Pauses, vars

\* Every step of the sender keeps the invariant.
LEMMA NextPreserves == ASSUME IInv, [Next]_vars PROVE IInv'
BY SendStreamPreserves, HandleContinuePreserves, StutterPreserves DEF Next

\* The strengthened invariant holds in every reachable state.
THEOREM Invariance == Spec => []IInv
<1>1. Init => IInv
    BY InitEstablishes
<1>2. IInv /\ [Next]_vars => IInv'
    BY NextPreserves
<1>. QED
    BY <1>1, <1>2, PTL DEF Spec

\* No wait the sender computes is negative or exceeds a period.
THEOREM TypeCorrect == Spec => []TypeOK
<1>1. IInv => TypeOK
    BY DEF IInv
<1>. QED
    BY <1>1, Invariance, PTL

\* The streams of a fleet are a full period apart, whatever the answers take.
THEOREM StreamsPaused == Spec => PausedWithinFleet
<1>1. IInv => [SendStream /\ m_stream_cnt # 0 => streamAge + waittime >= StreamPeriod]_vars
    BY DEF IInv, Pauses, SendStream
<1>. QED
    BY <1>1, Invariance, PTL DEF PausedWithinFleet

\* What becomes of the intended pause between fleets (PausedAfterFleet, which the
\* code violates), for all parameters and answers: m_fleet_tail_time is set one
\* stream too early, so the branch that waits after a fleet
\* (pathload-sender.cc:212-217) is never taken, and only the answer passes
\* between two fleets.
THEOREM WaitAfterFleetIsDead ==
    Spec => [][HandleContinue /\ m_fleet_cnt' # m_fleet_cnt => waittime' = 0]_vars
<1>1. IInv => [HandleContinue /\ m_fleet_cnt' # m_fleet_cnt => waittime' = 0]_vars
    BY HandleContinuePreserves
<1>. QED
    BY <1>1, Invariance, PTL
=============================================================================
