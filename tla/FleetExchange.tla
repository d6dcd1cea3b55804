--------------------------- MODULE FleetExchange ---------------------------
(***************************************************************************)
(* What the exchange between the Pathload sender and receiver promises,    *)
(* whatever messages carry it: the sender probes the path with one packet  *)
(* stream after another, the receiver turns each stream into metrics, and  *)
(* no stream starts to be sent out before the previous one was measured.   *)
(* There are Total streams in all.                                         *)
(***************************************************************************)
EXTENDS Naturals

CONSTANT Total          \* a natural number: the streams of all the fleets

VARIABLES
    sent,               \* streams the sender has sent out completely
    measured            \* streams the receiver has computed metrics for

vars == <<sent, measured>>

Init ==
    /\ sent = 0
    /\ measured = 0

\* The last packet of the next stream leaves the sender.
SendStream ==
    /\ sent = measured
    /\ sent < Total
    /\ sent' = sent + 1
    /\ UNCHANGED measured

\* The receiver computes the metrics of the stream that was sent last.
MeasureStream ==
    /\ measured < sent
    /\ measured' = measured + 1
    /\ UNCHANGED sent

Next == SendStream \/ MeasureStream

Spec == Init /\ [][Next]_vars

\* A measurement that neither side abandons runs to its end.
FairSpec == Spec /\ WF_vars(Next)
=============================================================================
