------------------------------ MODULE EchoDemos -----------------------------
(***************************************************************************)
(* The echo servers of 7_ProxyLab/demoCode that do not share a buffer: the *)
(* one that selects, and those that serve a connection in main, a process  *)
(* or a thread.  They share no state.                                      *)
(***************************************************************************)
EXTENDS SelectPool, EchoServers

EchoSpec == /\ SelInit /\ [][SelNext]_selvars
            /\ EInit /\ [][ENext]_echovars

(* The echo servers: the select server keeps its pool and echoes clients   *)
(* that wait for their echo; the others echo to each client its own lines, *)
(* and the forking one leaves no zombie.                                   *)
EchoesRight == PoolConsistent /\ LockstepEchoed /\ PrintedIsEchoed /\ NoZombieLeft
=============================================================================
