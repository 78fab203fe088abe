-------------------------------- MODULE CsApp -------------------------------
(***************************************************************************)
(* The library the network programs share,                                 *)
(* 7_ProxyLab/proxylab-handout/csapp.c: robust I/O on a connection and the *)
(* functions that open sockets.  They share no state.                      *)
(***************************************************************************)
EXTENDS Rio, Sockets

LibSpec == /\ RioInit /\ [][RioNext]_rvars
           /\ SockInit /\ [][SockNext]_sockvars

(* The library: no byte is lost or repeated, a short count means the end,  *)
(* and no descriptor is leaked.                                            *)
LibraryExact == RioExact /\ RioShortOnlyAtEof /\ OnlyTheResultIsOpen
=============================================================================
