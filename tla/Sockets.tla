------------------------------- MODULE Sockets ------------------------------
(***************************************************************************)
(* open_clientfd and open_listenfd, 7_ProxyLab/proxylab-handout/csapp.c:   *)
(* the walk over the addresses that getaddrinfo returns, where every call  *)
(* may fail for some of them.                                              *)
(***************************************************************************)
EXTENDS Integers, FiniteSets

CONSTANT MaxAddrs   \* bound: addresses of a host

ASSUME SocketsAssumption == MaxAddrs \in Nat

VARIABLES which,    \* "client" or "listen"
          kpc,      \* "resolve", "socket", "attach", "close", "clean", "listen", "return", "exit"
          addrs,    \* addresses from p on
          sock,     \* clientfd, listenfd
          opened,   \* descriptors that are open
          attached, \* those that are connected, or bound
          lists,    \* address lists that are allocated
          ret

sockvars == <<which, kpc, addrs, sock, opened, attached, lists, ret>>

SockInit == /\ which \in {"client", "listen"} /\ kpc = "resolve" /\ addrs = 0 /\ sock = -1
            /\ opened = {} /\ attached = {} /\ lists = 0 /\ ret = 0

getaddrinfo == /\ kpc = "resolve"
               /\ \/ kpc' = "return" /\ ret' = -2 /\ UNCHANGED <<addrs, lists>>
                  \/ addrs' \in 1 .. MaxAddrs /\ lists' = 1 /\ kpc' = "socket" /\ UNCHANGED ret
               /\ UNCHANGED <<which, sock, opened, attached>>

(* The head of the loop: the end of the list, a socket, or none for this   *)
(* address.                                                                *)
socket == /\ kpc = "socket"
          /\ \/ addrs = 0 /\ kpc' = "clean" /\ UNCHANGED <<addrs, sock, opened>>
             \/ addrs > 0 /\ sock' = -1 /\ addrs' = addrs - 1 /\ UNCHANGED <<kpc, opened>>
             \/ addrs > 0 /\ sock' = addrs /\ opened' = opened \cup {addrs} /\ kpc' = "attach" /\ UNCHANGED addrs
          /\ UNCHANGED <<which, attached, lists, ret>>

(* connect, or setsockopt and bind.                                        *)
attach == /\ kpc = "attach"
          /\ \/ attached' = attached \cup {sock} /\ kpc' = "clean" /\ UNCHANGED addrs
             \/ kpc' = "close" /\ UNCHANGED <<addrs, attached>>
          /\ UNCHANGED <<which, sock, opened, lists, ret>>

(* Mutant: the socket of a failed attempt is not closed.                   *)
LeavesOpen == /\ kpc = "close" /\ addrs' = addrs - 1 /\ kpc' = "socket"
              /\ UNCHANGED <<which, sock, opened, attached, lists, ret>>

(* close, which releases the descriptor whatever it returns: open_clientfd *)
(* ends the process if it fails, open_listenfd returns and keeps the list. *)
close_failed == /\ kpc = "close" /\ opened' = opened \ {sock}
         /\ \/ addrs' = addrs - 1 /\ kpc' = "socket" /\ UNCHANGED ret
            \/ which = "client" /\ kpc' = "exit" /\ UNCHANGED <<addrs, ret>>
            \/ which = "listen" /\ kpc' = "return" /\ ret' = -1 /\ UNCHANGED addrs
         /\ UNCHANGED <<which, sock, attached, lists>>

(* freeaddrinfo, and what p is tells whether an attempt succeeded.         *)
clean == /\ kpc = "clean" /\ lists' = 0
         /\ IF addrs = 0 THEN kpc' = "return" /\ ret' = -1
            ELSE IF which = "client" THEN kpc' = "return" /\ ret' = sock
            ELSE kpc' = "listen" /\ UNCHANGED ret
         /\ UNCHANGED <<which, addrs, sock, opened, attached>>

make_listen == /\ kpc = "listen" /\ kpc' = "return"
          /\ \/ ret' = sock /\ UNCHANGED opened
             \/ ret' = -1 /\ opened' = opened \ {sock}
          /\ UNCHANGED <<which, addrs, sock, attached, lists>>

SockNext == getaddrinfo \/ socket \/ attach \/ close_failed \/ clean \/ make_listen

----------------------------------------------------------------------------
(* The functions return a socket that is connected, or bound, and no other *)
(* is left open, whichever attempts failed; an error leaves none.  The     *)
(* list of addresses is freed, unless close failed in open_listenfd.       *)
OnlyTheResultIsOpen ==
    kpc = "return" => /\ IF ret > 0 THEN opened = {ret} /\ ret \in attached ELSE opened = {}
                      /\ lists = 0 \/ (which = "listen" /\ ret = -1 /\ sock \notin attached)
=============================================================================
