-------------------------------- MODULE Proxy -------------------------------
(***************************************************************************)
(* The web proxy of the proxy lab, 7_ProxyLab/proxylab-handout/proxy.c and *)
(* wrapper.c: the main thread accepts connections and starts a detached    *)
(* thread for each, which reads the request line, connects to the origin   *)
(* server and relays its reply line by line.  Descriptors are the numbers  *)
(* the threads of the process share.  Clients may say nothing, or reset    *)
(* the connection at any point; servers may not answer, or break off.      *)
(***************************************************************************)
EXTENDS Integers, Sequences, FiniteSets, FiniteSetsExt

CONSTANTS PClients, PThreads, Fds,
          Uris,        \* that each client may ask for, host:port/path: [host, port, path, tail],
                       \* tail: what follows the first colon of the path
          MaxFaults    \* bound: failures of the system and of the servers

(* PThreads bounds the threads ever created: one for each connection.      *)
ASSUME ProxyAssumption ==
    /\ IsFiniteSet(PClients) /\ IsFiniteSet(PThreads) /\ PThreads \subseteq Nat
    /\ Cardinality(PThreads) >= Cardinality(PClients)
    /\ IsFiniteSet(Fds) /\ Fds \subseteq Nat \ {0}
    /\ \A c \in PClients : Uris[c] \subseteq [host : STRING, port : {"none", "80", "8080"},
                                             path : STRING, tail : STRING]

VARIABLES pmain,    \* "accept", "create", "exit" or "killed"
          mainfd,   \* connfd of main
          fds,      \* what each descriptor refers to
          thr,      \* the threads
          cl,       \* the clients: [st, uri, got, eof]
          faults,   \* faults so far: {<<what, who>>}
          leaked    \* descriptors of connections whose thread was not created

pvars == <<pmain, mainfd, fds, thr, cl, faults, leaked>>

NoUri == [host |-> "none", port |-> "none", path |-> "none", tail |-> "none"]
Garbage == [NoUri EXCEPT !.host = "garbage"]
Free == <<"free", 0>>
Never == <<[file |-> <<"never", "none">>, k |-> 0, nul |-> FALSE, cut |-> FALSE]>>
NoFd == 0
FreeFds == {f \in Fds : fds[f] = Free}

(* External: the origin servers.  A reply to a request for a file, a path  *)
(* and what follows its first colon, is two lines; those of "bin" hold a   *)
(* zero byte in the second.                                                *)
Listens(host, port) == host \in {"web", "bin", "slow"} /\ port \in {"80", "8080"}
Reply(host, file) == IF host = "slow" THEN Never
                     ELSE <<[file |-> file, k |-> 1, nul |-> FALSE, cut |-> FALSE],
                            [file |-> file, k |-> 2, nul |-> host = "bin", cut |-> FALSE]>>
DefaultPath(path) == IF path = "none" THEN "/" ELSE path
AskedFile(u) == <<DefaultPath(u.path), u.tail>>

PInit == /\ pmain = "accept" /\ mainfd = NoFd /\ fds = [f \in Fds |-> Free]
         /\ thr = [t \in PThreads |-> [pc |-> "unborn", for |-> 0, arg |-> NoFd, connfd |-> NoFd,
                                       clientfd |-> NoFd, req |-> NoUri, left |-> << >>]]
         /\ cl = [c \in PClients |-> [st |-> "idle", uri |-> NoUri, got |-> << >>, eof |-> FALSE]]
         /\ faults = {} /\ leaked = {}

Running == pmain \in {"accept", "create"}
Fault(what, who) == Cardinality(faults) < MaxFaults /\ faults' = faults \cup {<<what, who>>}

(* External: a client connects and sends a request line, or closes its     *)
(* side without one; it resets the connection.                             *)
client_connect(c) == /\ cl[c].st = "idle"
                     /\ \E u \in Uris[c] \cup {NoUri} : cl' = [cl EXCEPT ![c].st = "queued", ![c].uri = u]
                     /\ UNCHANGED <<pmain, mainfd, fds, thr, faults, leaked>>
client_reset(c) == /\ cl[c].st = "open" /\ ~cl[c].eof
                   /\ cl' = [cl EXCEPT ![c].st = "reset"]
                   /\ UNCHANGED <<pmain, mainfd, fds, thr, faults, leaked>>

(* wrap_accept; without a free descriptor it fails and main calls it again.*)
wrap_accept(c) == /\ pmain = "accept" /\ cl[c].st = "queued" /\ FreeFds # {}
                  /\ mainfd' = Min(FreeFds) /\ fds' = [fds EXCEPT ![mainfd'] = <<"conn", c>>]
                  /\ cl' = [cl EXCEPT ![c].st = "open"] /\ pmain' = "create"
                  /\ UNCHANGED <<thr, faults, leaked>>

(* wrap_pthread_create; a failure is printed and the connection kept.      *)
wrap_pthread_create ==
    /\ pmain = "create" /\ pmain' = "accept"
    /\ \/ \E t \in {Min({u \in PThreads : thr[u].pc = "unborn"})} :
            /\ thr' = [thr EXCEPT ![t].pc = "start", ![t].arg = mainfd, ![t].for = fds[mainfd][2]]
            /\ UNCHANGED <<faults, leaked>>
       \/ Fault("create", fds[mainfd][2]) /\ leaked' = leaked \cup {mainfd} /\ UNCHANGED thr
    /\ UNCHANGED <<mainfd, fds, cl>>

(* Mutant: the thread is given the address of connfd.                      *)
ArgByAddress(t) == /\ Running /\ thr[t].pc = "start"
                   /\ thr' = [thr EXCEPT ![t].pc = "request", ![t].connfd = mainfd]
                   /\ UNCHANGED <<pmain, mainfd, fds, cl, faults, leaked>>

thread_start(t) == /\ Running /\ thr[t].pc = "start"
                   /\ thr' = [thr EXCEPT ![t].pc = "request", ![t].connfd = thr[t].arg]
                   /\ UNCHANGED <<pmain, mainfd, fds, cl, faults, leaked>>

Peer(t) == cl[fds[thr[t].connfd][2]]

(* get_request_from_client.  At the end of the stream rio_readlineb        *)
(* returns 0, which is taken for a request: the buffer is not initialized  *)
(* and holds anything, a request of a thread that ran on the same stack    *)
(* included.                                                               *)
get_request_from_client(t) ==
    /\ Running /\ thr[t].pc = "request"
    /\ \/ /\ Peer(t).st = "reset"
          /\ thr' = [thr EXCEPT ![t].pc = "close"]
       \/ /\ Peer(t).st = "open"
          /\ \E r \in IF Peer(t).uri # NoUri THEN {Peer(t).uri}
                      ELSE {Garbage} \cup {thr[u].req : u \in {v \in PThreads : thr[v].pc = "ended"}} :
               thr' = [thr EXCEPT ![t].pc = "connect", ![t].req = r]
    /\ UNCHANGED <<pmain, mainfd, fds, cl, faults, leaked>>

(* Mutant: the file is always "/".                                         *)
FileIsRoot(u) == [host |-> u.host, file |-> <<"/", "none">>, port |-> IF u.port = "none" THEN "80" ELSE u.port]

(* parse_request: the first colon ends what is read, and all that follows  *)
(* it is copied to port.  One after the host leaves the file "/", and the  *)
(* path, if there is one, in port; one in the path cuts the file there.    *)
parse_request(u) ==
    IF u.port # "none"
    THEN [host |-> u.host, file |-> <<"/", "none">>, port |-> IF u.path = "none" THEN u.port ELSE "malformed"]
    ELSE [host |-> u.host, file |-> <<DefaultPath(u.path), "none">>,
          port |-> IF u.tail = "none" THEN "80" ELSE u.tail]

(* The first half of request_and_reply: parse, open_clientfd, which closes *)
(* the sockets it could not connect, and the write of the request.         *)
connect_to_server(t) ==
    /\ Running /\ thr[t].pc = "connect"
    /\ \E p \in {parse_request(thr[t].req)} :
         IF Listens(p.host, p.port) /\ FreeFds # {}
         THEN /\ fds' = [fds EXCEPT ![Min(FreeFds)] = <<"srv", t>>]
              /\ thr' = [thr EXCEPT ![t].pc = "relay", ![t].clientfd = Min(FreeFds),
                                    ![t].left = Reply(p.host, p.file)]
         ELSE thr' = [thr EXCEPT ![t].pc = "close"] /\ UNCHANGED fds
    /\ UNCHANGED <<pmain, mainfd, cl, faults, leaked>>

(* What is sent on of a line: strlen bytes.                                *)
Forward(line) == [line EXCEPT !.cut = line.nul]

(* Mutant: SIGPIPE is not ignored.                                         *)
DiesOfPipe(t) ==
    /\ Running /\ thr[t].pc = "relay" /\ thr[t].left # Never
    /\ IF thr[t].left = << >> THEN thr' = [thr EXCEPT ![t].pc = "close server"] /\ UNCHANGED <<cl, pmain>>
       ELSE IF Peer(t).st = "reset" THEN pmain' = "killed" /\ UNCHANGED <<cl, thr>>
       ELSE /\ cl' = [cl EXCEPT ![fds[thr[t].connfd][2]].got = Append(@, Forward(Head(thr[t].left)))]
            /\ thr' = [thr EXCEPT ![t].left = Tail(@)] /\ UNCHANGED pmain
    /\ UNCHANGED <<mainfd, fds, faults, leaked>>

(* The second half: a line from the server, to the client.  A write to a   *)
(* client that is gone fails, and no signal is raised.                     *)
relay(t) ==
    /\ Running /\ thr[t].pc = "relay" /\ thr[t].left # Never
    /\ IF thr[t].left = << >> \/ Peer(t).st = "reset"
       THEN thr' = [thr EXCEPT ![t].pc = "close server"] /\ UNCHANGED cl
       ELSE /\ cl' = [cl EXCEPT ![fds[thr[t].connfd][2]].got = Append(@, Forward(Head(thr[t].left)))]
            /\ thr' = [thr EXCEPT ![t].left = Tail(@)]
    /\ UNCHANGED <<pmain, mainfd, fds, faults, leaked>>

server_breaks(t) == /\ Running /\ thr[t].pc = "relay" /\ Fault("server", thr[t].for)
                    /\ thr' = [thr EXCEPT ![t].pc = "close server"]
                    /\ UNCHANGED <<pmain, mainfd, fds, cl, leaked>>

(* wrap_close: a failure ends the process.                                 *)
wrap_close(t) ==
    /\ Running /\ thr[t].pc \in {"close server", "close"}
    /\ \/ /\ thr[t].pc = "close server"
          /\ fds' = [fds EXCEPT ![thr[t].clientfd] = Free]
          /\ thr' = [thr EXCEPT ![t].pc = "close", ![t].clientfd = NoFd]
          /\ UNCHANGED <<pmain, cl, faults>>
       \/ /\ thr[t].pc = "close"
          /\ fds' = [fds EXCEPT ![thr[t].connfd] = Free]
          /\ cl' = [cl EXCEPT ![fds[thr[t].connfd][2]].eof = TRUE]
          /\ thr' = [thr EXCEPT ![t].pc = "ended", ![t].connfd = NoFd]
          /\ UNCHANGED <<pmain, faults>>
       \/ Fault("close", t) /\ pmain' = "exit" /\ UNCHANGED <<fds, thr, cl>>
    /\ UNCHANGED <<mainfd, leaked>>

PThreadStep(t) == \/ thread_start(t) \/ get_request_from_client(t) \/ connect_to_server(t)
                  \/ relay(t) \/ wrap_close(t)
PMainStep == (\E c \in PClients : wrap_accept(c)) \/ wrap_pthread_create

PNext == \/ PMainStep \/ \E t \in PThreads : PThreadStep(t) \/ server_breaks(t)
         \/ \E c \in PClients : client_connect(c) \/ client_reset(c)

PFairness == WF_pvars(PMainStep) /\ \A t \in PThreads : WF_pvars(PThreadStep(t))

PSpec == PInit /\ [][PNext]_pvars /\ PFairness

----------------------------------------------------------------------------
Live(t) == thr[t].pc \notin {"unborn", "start", "ended"}

(* A descriptor a thread works on refers to what the thread was given it   *)
(* for, though the numbers are used again as soon as they are closed, and  *)
(* none is in use that no thread will close, but for connections whose     *)
(* thread could not be created.                                            *)
DescriptorsOwned ==
    Running =>
        /\ \A t \in PThreads : Live(t) => fds[thr[t].connfd] = <<"conn", thr[t].for>>
        /\ \A t \in PThreads : thr[t].clientfd # NoFd => fds[thr[t].clientfd] = <<"srv", t>>
        /\ \A f \in Fds \ (FreeFds \cup leaked) :
             \/ \E t \in PThreads : f \in {thr[t].connfd, thr[t].clientfd}
                                    \/ (thr[t].pc = "start" /\ f = thr[t].arg)
             \/ pmain = "create" /\ f = mainfd

(* What parse_request mistakes: a port before a path, a colon in a path.   *)
Misparsed(u) == (u.port # "none" /\ u.path # "none") \/ u.tail # "none"
Relayed(host, file) == [k \in 1 .. 2 |-> Forward(Reply(host, file)[k])]
Fetches(c) == cl[c].eof /\ cl[c].st = "open" /\ cl[c].uri # NoUri /\ <<"server", c>> \notin faults

(* A client that asked, and whose server did not break off, has the whole  *)
(* reply of its own server to its own request when the connection ends,    *)
(* but for what follows a zero byte in a line.  Of a request it mistakes   *)
(* the proxy makes a wrong one: the client then has nothing, or the reply  *)
(* of its own server to a request cut at the colon; never the reply to the *)
(* request of another client.                                              *)
RelayedReply ==
    \A c \in PClients : Fetches(c) =>
        LET u == cl[c].uri
        IN IF Misparsed(u) THEN cl[c].got \in {<< >>, Relayed(u.host, <<DefaultPath(u.path), "none">>)}
           ELSE cl[c].got = IF Listens(u.host, "80") THEN Relayed(u.host, AskedFile(u)) ELSE << >>

(* Each thread works on its own connections, and each client gets its own  *)
(* reply.                                                                  *)
ProxySafe == DescriptorsOwned /\ RelayedReply

(* The check of driver.sh, whose uris name a port: what is fetched through *)
(* the proxy is what is fetched from the server.                           *)
FetchedAsDirectly ==
    \A c \in PClients : Fetches(c) /\ cl[c].uri.port # "none" /\ Listens(cl[c].uri.host, "80") =>
        cl[c].got = Reply(cl[c].uri.host, AskedFile(cl[c].uri))

(* One client's server that never answers, or a client that goes away,     *)
(* keeps nobody else waiting: every request to a server that answers is    *)
(* answered, unless its thread or the process was lost to a system error.  *)
(* Nothing is said of a client that sends no request: its thread may ask   *)
(* the server of another for it, and wait there for ever.                  *)
EveryRequestAnswered ==
    \A c \in PClients :
        (cl[c].st = "queued" /\ cl[c].uri.host \notin {"slow", "none"}) ~>
            (cl[c].eof \/ cl[c].st = "reset" \/ pmain = "exit" \/ <<"create", c>> \in faults)
=============================================================================
