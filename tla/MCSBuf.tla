------------------------------ MODULE MCSBuf -------------------------------
(* Small instance of SBuf: two producers, two consumers, two slots.        *)
EXTENDS SBuf
CONSTANTS p1, p2, c1, c2, a, b
MCProducers == {p1, p2}
MCConsumers == {c1, c2}
MCValues == {a, b}
============================================================================
