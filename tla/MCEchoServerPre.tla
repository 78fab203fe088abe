-------------------------- MODULE MCEchoServerPre --------------------------
(* Small instance of EchoServerPre: two workers, one slot, lines of one   *)
(* byte.                                                                   *)
EXTENDS EchoServerPre
CONSTANTS w1, w2
MCWorkers == {w1, w2}
MCFds == 4 .. 8
MCLineSizes == {1}
============================================================================
