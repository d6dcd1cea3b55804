-------------------------- MODULE MCPathloadPort --------------------------
(* Instances of PathloadPort for TLC: the .cfg files MCPort*.cfg choose how *)
(* many streams, packets and fleets there are, what the path may do, how    *)
(* the program was built and whether it may be stopped.                     *)
EXTENDS PathloadPort
=============================================================================
