------------------------- MODULE MCOriginalControl -------------------------
(* Instances of OriginalControl for TLC. *)
EXTENDS OriginalControl

Situation(iterate, timed, in_order, losses, crash, outage) ==
    [iterate |-> iterate, timed |-> timed, in_order |-> in_order,
     losses |-> losses, crashes |-> crash, outages |-> outage]

\* Losses with aborted fleets and trains asked for again; alarms, a killed receiver and
\* outages, with one receiver after another; and packets as late as they like.
MCSetups ==
    {Situation(FALSE, FALSE, TRUE, 2, 0, 0), Situation(TRUE, TRUE, TRUE, 1, 1, 0),
     Situation(TRUE, FALSE, TRUE, 0, 1, 1), Situation(FALSE, FALSE, FALSE, 0, 0, 0)}

\* Nothing goes wrong, and the sender is persistent.
MCPersistent == {Situation(TRUE, FALSE, TRUE, 0, 0, 0)}
=============================================================================
