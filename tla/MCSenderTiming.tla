-------------------------- MODULE MCSenderTiming --------------------------
(* The sender's real parameters, with answers at and around the points      *)
(* where its timing changes: none, well below the period, so that a stream  *)
(* ends just before, exactly at and just after it, and far beyond.          *)
EXTENDS SenderTiming

MCAnswers ==
    LET exact == StreamPeriod - FinishDelay
    IN {0, 30000, exact - 1, exact, exact + 1, 3 * StreamPeriod}
=============================================================================
