------------------------------ MODULE NetProofs ------------------------------
(***************************************************************************)
(* Proofs about the two web programs and the library they use: the proxy,  *)
(* for any number of clients, threads and descriptors (a thread works on   *)
(* its own descriptors, though their numbers are used again as soon as     *)
(* they are closed, and each client gets the reply to its own request),    *)
(* the Tiny server, for any clients, requests and files (each whole        *)
(* request gets one whole response, and the server ends for few reasons),  *)
(* and the robust I/O and the sockets of csapp.c, for any streams, sizes   *)
(* and addresses.                                                          *)
(***************************************************************************)
EXTENDS CsApp, Proxy, Tiny, FiniteSetTheorems, SequenceTheorems, WellFoundedInduction, TLAPS

(* The inductive invariant                                                 *)

Born(t) == thr[t].pc # "unborn"
Conns == {"conn"} \X PClients
Srvs == {"srv"} \X PThreads
Talking == {"request", "connect", "relay", "close server", "close"}
Relaying == {"relay", "close server"}

(* What a client can ask for, what a thread takes for a request, and the   *)
(* lines of the replies.                                                   *)
AnyUri == {NoUri, Garbage} \cup UNION {Uris[c] : c \in PClients}
AnyFile == {<<DefaultPath(u.path), "none">> : u \in AnyUri} \cup {<<"/", "none">>, <<"never", "none">>}
AnyLine == [file : AnyFile, k : 0 .. 2, nul : BOOLEAN, cut : BOOLEAN]

ThreadRecord == [pc : {"unborn", "start", "ended"} \cup Talking, for : PClients \cup {0},
                 arg : Fds \cup {NoFd}, connfd : Fds \cup {NoFd}, clientfd : Fds \cup {NoFd},
                 req : AnyUri, left : Seq(AnyLine)]
ClientRecord == [st : {"idle", "queued", "open", "reset"}, uri : AnyUri,
                 got : Seq(AnyLine), eof : BOOLEAN]

Types == /\ pmain \in {"accept", "create", "exit", "killed"} /\ mainfd \in Fds \cup {NoFd}
         /\ fds \in [Fds -> {Free} \cup Conns \cup Srvs]
         /\ thr \in [PThreads -> ThreadRecord] /\ cl \in [PClients -> ClientRecord]

(* The descriptors a thread works on are its own. *)
ThreadDescriptors ==
    \A t \in PThreads :
      /\ IF thr[t].pc \in Talking
         THEN thr[t].connfd \in Fds /\ fds[thr[t].connfd] = <<"conn", thr[t].for>>
         ELSE thr[t].connfd = NoFd
      /\ IF thr[t].pc \in Relaying
         THEN thr[t].clientfd \in Fds /\ fds[thr[t].clientfd] = <<"srv", t>>
         ELSE thr[t].clientfd = NoFd
      /\ thr[t].pc = "start" =>
           thr[t].arg \in Fds /\ fds[thr[t].arg] = <<"conn", thr[t].for>>

(* No connection has two descriptors, and no client two threads. *)
OneDescriptor == \A f, g \in Fds : fds[f] # Free /\ fds[f] = fds[g] => f = g
OneThread == \A t, u \in PThreads : Born(t) /\ Born(u) /\ thr[t].for = thr[u].for => t = u

(* The clients of the threads and of the descriptors are connected. *)
Connected(c) == c \in PClients /\ cl[c].st \in {"open", "reset"}
ClientsConnected == /\ \A t \in PThreads : Born(t) => Connected(thr[t].for)
                    /\ \A f \in Fds, c \in PClients : fds[f] = <<"conn", c>> => Connected(c)

(* Between accept and pthread_create, main's connection has no thread. *)
MainDescriptor ==
    pmain = "create" =>
      /\ mainfd \in Fds
      /\ \E c \in PClients : /\ fds[mainfd] = <<"conn", c>>
                             /\ \A t \in PThreads : Born(t) => thr[t].for # c

(* Every descriptor in use has somebody to close it. *)
Owned == /\ \A f \in Fds, t \in PThreads : fds[f] = <<"srv", t>> => thr[t].clientfd = f
         /\ Running =>
              \A f \in Fds : fds[f] \in Conns =>
                \/ f \in leaked
                \/ \E t \in PThreads : thr[t].connfd = f \/ (thr[t].pc = "start" /\ thr[t].arg = f)
                \/ pmain = "create" /\ f = mainfd

DInv == /\ Types /\ ThreadDescriptors /\ OneDescriptor /\ OneThread /\ ClientsConnected
        /\ MainDescriptor /\ Owned

(* The reply to what is made of u, and how much of it the client and the   *)
(* thread have.                                                            *)
Answered(u) == Listens(parse_request(u).host, parse_request(u).port)
Lines(u) == Reply(parse_request(u).host, parse_request(u).file)
Expected(u) == IF ~ Answered(u) THEN << >> ELSE [k \in 1 .. 2 |-> Forward(Lines(u)[k])]
Underway(u, sent, rest) ==
    /\ Answered(u)
    /\ IF parse_request(u).host = "slow" THEN rest = Never
       ELSE \/ sent = << >> /\ rest = Lines(u)
            \/ sent = <<Forward(Lines(u)[1])>> /\ rest = <<Lines(u)[2]>>
            \/ sent = <<Forward(Lines(u)[1]), Forward(Lines(u)[2])>> /\ rest = << >>

Asked(c) == cl[c].st = "open" /\ cl[c].uri # NoUri /\ <<"server", c>> \notin faults

(* A client without a thread has nothing, and one that a thread works for  *)
(* has what the thread has relayed.                                        *)
Unserved == \A c \in PClients : (\A t \in PThreads : Born(t) => thr[t].for # c) =>
              cl[c].got = << >> /\ ~ cl[c].eof
ServedBy(t, c) ==
    /\ cl[c].eof => thr[t].pc = "ended"
    /\ thr[t].pc \in {"start", "request", "connect"} => cl[c].got = << >>
    /\ thr[t].pc = "connect" /\ Asked(c) => thr[t].req = cl[c].uri
    /\ thr[t].pc = "relay" /\ Asked(c) => Underway(cl[c].uri, cl[c].got, thr[t].left)
    /\ thr[t].pc \in {"close server", "close", "ended"} /\ Asked(c) =>
         cl[c].got = Expected(cl[c].uri)
Replies == Unserved /\ \A t \in PThreads, c \in PClients : Born(t) /\ thr[t].for = c => ServedBy(t, c)

----------------------------------------------------------------------------
(* The least element of a set of numbers is one of them.                   *)
LEMMA LeastNatural ==
    ASSUME NEW D \in SUBSET Nat, D # {}
    PROVE  Min(D) \in D
<1>1. PICK x \in D : \A y \in D : ~ (<<y, x>> \in OpToRel(<, Nat))
  BY NatLessThanWellFounded, WFMin
<1>2. ASSUME NEW y \in D, y < x PROVE FALSE
  <2>1. <<y, x>> \in Nat \X Nat /\ <<y, x>>[1] < <<y, x>>[2]
    BY <1>2
  <2> QED BY <1>1, <2>1 DEF OpToRel
<1>3. \E z \in D : \A y \in D : z <= y
  BY <1>2
<1> QED BY <1>3 DEF Min

(* A number given by open is a free descriptor.                            *)
LEMMA LeastFd ==
    ASSUME FreeFds # {}
    PROVE  Min(FreeFds) \in Fds /\ fds[Min(FreeFds)] = Free
<1>1. FreeFds \in SUBSET Nat
  BY ProxyAssumption DEF FreeFds
<1>2. Min(FreeFds) \in FreeFds
  BY <1>1, LeastNatural
<1> QED BY <1>2 DEF FreeFds

(* The sets of the model that the pigeonholes are counted in.              *)
LEMMA Injects ==
    ASSUME NEW D, NEW E, IsFiniteSet(D), IsFiniteSet(E), NEW f,
           \A x \in D : f[x] \in E, \A x, y \in D : f[x] = f[y] => x = y
    PROVE  /\ Cardinality(D) <= Cardinality(E)
           /\ Cardinality(D) \in Nat /\ Cardinality(E) \in Nat
<1> DEFINE g == [x \in D |-> f[x]]
<1>1. g \in Injection(D, E)
  BY DEF Injection, IsInjective
<1> QED BY <1>1, FS_Injection, FS_CardinalityType

(* Threads have different clients, and the client of the connection that   *)
(* main has just accepted has none: a thread is left for it.               *)
LEMMA ThreadLeft ==
    ASSUME DInv, pmain = "create"
    PROVE  \E t \in PThreads : /\ t = Min({u \in PThreads : thr[u].pc = "unborn"})
                               /\ thr[t].pc = "unborn"
<1> DEFINE N == {u \in PThreads : thr[u].pc = "unborn"}
<1>1. N # {}
  <2> SUFFICES ASSUME N = {} PROVE FALSE
    OBVIOUS
  <2>1. PICK c \in PClients : \A t \in PThreads : Born(t) => thr[t].for # c
    BY DEF DInv, MainDescriptor
  <2> DEFINE f == [t \in PThreads |-> thr[t].for]
             E == PClients \ {c}
  <2>2. \A t \in PThreads : Born(t) /\ thr[t].for \in E
    BY <2>1 DEF DInv, ClientsConnected, Connected, Born
  <2>3. \A t, u \in PThreads : f[t] = f[u] => t = u
    BY <2>2 DEF DInv, OneThread
  <2>4. IsFiniteSet(E) /\ Cardinality(E) = Cardinality(PClients) - 1
    BY ProxyAssumption, FS_RemoveElement
  <2>5. /\ Cardinality(PThreads) <= Cardinality(E)
        /\ Cardinality(PThreads) \in Nat /\ Cardinality(E) \in Nat
    <3>1. \A t \in PThreads : f[t] \in E
      BY <2>2
    <3> HIDE DEF f, E
    <3>2. IsFiniteSet(PThreads) /\ IsFiniteSet(E)
      BY <2>4, ProxyAssumption
    <3> QED BY ONLY <2>3, <3>1, <3>2, Injects
  <2>6. Cardinality(PClients) \in Nat
    BY ProxyAssumption, FS_CardinalityType
  <2> QED BY <2>4, <2>5, <2>6, ProxyAssumption
<1>2. N \in SUBSET Nat
  BY ProxyAssumption
<1>3. Min(N) \in N
  BY <1>1, <1>2, LeastNatural
<1> QED BY <1>3

LEMMA DInvInit == PInit => DInv
<1> SUFFICES ASSUME PInit PROVE DInv
  OBVIOUS
<1> USE DEF PInit
<1>1. Types
  BY DEF Types, ThreadRecord, ClientRecord, AnyUri
<1>2. \A t \in PThreads : thr[t].pc = "unborn" /\ thr[t].connfd = NoFd /\ thr[t].clientfd = NoFd
  OBVIOUS
<1>3. \A f \in Fds : fds[f] = Free
  OBVIOUS
<1>4. ThreadDescriptors
  BY <1>2 DEF ThreadDescriptors, Talking, Relaying
<1>5. OneDescriptor /\ OneThread /\ ClientsConnected /\ MainDescriptor /\ Owned
  BY <1>2, <1>3 DEF OneDescriptor, OneThread, ClientsConnected, MainDescriptor, Owned, Born,
     Free, Conns
<1> QED BY <1>1, <1>4, <1>5 DEF DInv

----------------------------------------------------------------------------
(* The descriptors *)

(* The fields of a thread and of a client.                                 *)
LEMMA Fields ==
    ASSUME Types
    PROVE  /\ \A t \in PThreads :
                /\ thr[t] \in ThreadRecord
                /\ thr[t].pc \in {"unborn", "start", "ended"} \cup Talking
                /\ thr[t].for \in PClients \cup {0} /\ thr[t].arg \in Fds \cup {NoFd}
                /\ thr[t].connfd \in Fds \cup {NoFd} /\ thr[t].clientfd \in Fds \cup {NoFd}
                /\ thr[t].req \in AnyUri /\ thr[t].left \in Seq(AnyLine)
           /\ \A c \in PClients :
                /\ cl[c] \in ClientRecord
                /\ cl[c].st \in {"idle", "queued", "open", "reset"} /\ cl[c].uri \in AnyUri
                /\ cl[c].got \in Seq(AnyLine) /\ cl[c].eof \in BOOLEAN
           /\ \A f \in Fds : fds[f] \in {Free} \cup Conns \cup Srvs
           /\ NoFd \notin Fds
BY ProxyAssumption DEF Types, ThreadRecord, ClientRecord, NoFd

(* What a thread that is served by Peer(t) is served for.                  *)
LEMMA PeerIs ==
    ASSUME DInv, NEW t \in PThreads, thr[t].pc \in Talking
    PROVE  /\ thr[t].connfd \in Fds /\ fds[thr[t].connfd] = <<"conn", thr[t].for>>
           /\ fds[thr[t].connfd][2] = thr[t].for /\ Peer(t) = cl[thr[t].for]
           /\ thr[t].for \in PClients /\ Connected(thr[t].for) /\ Born(t)
<1>1. thr[t].connfd \in Fds /\ fds[thr[t].connfd] = <<"conn", thr[t].for>>
  BY DEF DInv, ThreadDescriptors
<1>2. Born(t)
  BY DEF Born, Talking
<1> QED BY <1>1, <1>2 DEF Peer, DInv, ClientsConnected, Connected

(* A step of one thread t that changes no descriptor.                      *)
LEMMA ThreadKept ==
    ASSUME DInv, NEW t \in PThreads, NEW r, thr' = [thr EXCEPT ![t] = r], r \in ThreadRecord,
           UNCHANGED <<pmain, mainfd, fds, leaked>>,
           cl' \in [PClients -> ClientRecord],
           \A c \in PClients : Connected(c) => Connected(c)',
           r.for = thr[t].for, r.connfd = thr[t].connfd, r.clientfd = thr[t].clientfd,
           r.pc \in Talking, thr[t].pc \in Talking,
           r.pc \in Relaying <=> thr[t].pc \in Relaying
    PROVE  DInv'
<1> USE DEF DInv
<1>1. /\ thr'[t] = r /\ (\A u \in PThreads : u # t => thr'[u] = thr[u])
      /\ thr' \in [PThreads -> ThreadRecord]
  BY DEF Types
<1>2. Types'
  BY <1>1 DEF Types
<1>3. r.pc # "start" /\ thr[t].pc # "start"
  BY DEF Talking
<1>4. ThreadDescriptors'
  <2> SUFFICES ASSUME NEW u \in PThreads
               PROVE  /\ IF thr'[u].pc \in Talking
                         THEN /\ thr'[u].connfd \in Fds
                              /\ fds[thr'[u].connfd] = <<"conn", thr'[u].for>>
                         ELSE thr'[u].connfd = NoFd
                      /\ IF thr'[u].pc \in Relaying
                         THEN thr'[u].clientfd \in Fds /\ fds[thr'[u].clientfd] = <<"srv", u>>
                         ELSE thr'[u].clientfd = NoFd
                      /\ thr'[u].pc = "start" =>
                           thr'[u].arg \in Fds /\ fds[thr'[u].arg] = <<"conn", thr'[u].for>>
    BY DEF ThreadDescriptors
  <2>1. CASE u = t
    BY <1>1, <1>3, <2>1 DEF ThreadDescriptors
  <2>2. CASE u # t
    BY <1>1, <2>2 DEF ThreadDescriptors
  <2> QED BY <2>1, <2>2
<1>5. \A u \in PThreads : (Born(u)' <=> Born(u)) /\ thr'[u].for = thr[u].for
  BY <1>1 DEF Born, Talking
<1>6. OneDescriptor' /\ OneThread' /\ ClientsConnected' /\ MainDescriptor'
  BY <1>5 DEF OneDescriptor, OneThread, ClientsConnected, MainDescriptor, Connected
<1>7. \A u \in PThreads : /\ thr'[u].connfd = thr[u].connfd /\ thr'[u].clientfd = thr[u].clientfd
                          /\ thr[u].pc = "start" => thr'[u] = thr[u]
  BY <1>1, <1>3
<1>8. Owned'
  BY <1>7 DEF Owned, Running
<1> QED BY <1>2, <1>4, <1>6, <1>8

(* A step of a client, or of nobody.                                       *)
LEMMA ClientKept ==
    ASSUME DInv, cl' \in [PClients -> ClientRecord],
           \A c \in PClients : Connected(c) => Connected(c)',
           UNCHANGED <<mainfd, fds, thr, leaked>>,
           pmain' = pmain \/ pmain' \in {"exit", "killed"}
    PROVE  DInv'
<1> USE DEF DInv
<1>1. Types'
  BY DEF Types
<1>2. ThreadDescriptors' /\ OneDescriptor' /\ OneThread' /\ MainDescriptor'
  BY DEF ThreadDescriptors, OneDescriptor, OneThread, MainDescriptor, Born
<1>3. ClientsConnected'
  BY DEF ClientsConnected, Connected, Born
<1>4. Owned'
  BY DEF Owned, Running
<1> QED BY <1>1, <1>2, <1>3, <1>4

LEMMA ClientStep ==
    ASSUME DInv, NEW c \in PClients, client_connect(c) \/ client_reset(c)
    PROVE  DInv'
<1>1. CASE client_connect(c)
  <2>1. PICK u \in Uris[c] \cup {NoUri} :
          /\ cl[c].st = "idle" /\ cl' = [cl EXCEPT ![c] = [@ EXCEPT !.st = "queued", !.uri = u]]
          /\ UNCHANGED <<pmain, mainfd, fds, thr, leaked>>
    <3>1. PICK u \in Uris[c] \cup {NoUri} : cl' = [cl EXCEPT ![c].st = "queued", ![c].uri = u]
      BY <1>1 DEF client_connect
    <3> QED BY <1>1, <3>1 DEF client_connect, DInv, Types, ClientRecord
  <2>2. u \in AnyUri
    BY DEF AnyUri
  <2>3. cl' \in [PClients -> ClientRecord]
    BY <2>1, <2>2 DEF DInv, Types, ClientRecord
  <2>4. \A d \in PClients : Connected(d) => Connected(d)'
    BY <2>1 DEF Connected, DInv, Types
  <2> QED BY <2>1, <2>3, <2>4, ClientKept
<1>2. CASE client_reset(c)
  <2>1. /\ cl' = [cl EXCEPT ![c] = [@ EXCEPT !.st = "reset"]]
        /\ UNCHANGED <<pmain, mainfd, fds, thr, leaked>>
    BY <1>2 DEF client_reset
  <2>2. cl' \in [PClients -> ClientRecord]
    BY <2>1 DEF DInv, Types, ClientRecord
  <2>3. \A d \in PClients : Connected(d) => Connected(d)'
    BY <2>1 DEF Connected, DInv, Types, ClientRecord
  <2> QED BY <2>1, <2>2, <2>3, ClientKept
<1> QED BY <1>1, <1>2

(* accept gives the connection a descriptor that was free.                 *)
LEMMA AcceptStep == ASSUME DInv, NEW c \in PClients, wrap_accept(c) PROVE DInv'
<1> DEFINE fd == Min(FreeFds)
<1>1. fd \in Fds /\ fds[fd] = Free
  BY LeastFd DEF wrap_accept
<1> HIDE DEF fd
<1>2. /\ pmain' = "create" /\ mainfd' = fd /\ fds' = [fds EXCEPT ![fd] = <<"conn", c>>]
      /\ cl' = [cl EXCEPT ![c] = [@ EXCEPT !.st = "open"]] /\ cl[c].st = "queued"
      /\ thr' = thr /\ leaked' = leaked
  BY DEF wrap_accept, fd
<1> USE DEF DInv
<1>3. /\ fds'[fd] = <<"conn", c>> /\ (\A f \in Fds : f # fd => fds'[f] = fds[f])
      /\ fds' \in [Fds -> {Free} \cup Conns \cup Srvs]
  BY <1>1, <1>2 DEF Types, Conns
<1>4. cl' \in [PClients -> ClientRecord] /\ cl'[c].st = "open"
      /\ \A d \in PClients : d # c => cl'[d] = cl[d]
  BY <1>2 DEF Types, ClientRecord
<1>5. Types'
  BY <1>1, <1>2, <1>3, <1>4 DEF Types
<1>6. ~ Connected(c) /\ Connected(c)' /\ \A d \in PClients : Connected(d) => Connected(d)'
  BY <1>2, <1>4 DEF Connected
<1>7. \A f \in Fds : fds[f] # <<"conn", c>>
  BY <1>6 DEF ClientsConnected
<1>8. \A t \in PThreads : Born(t) => thr[t].for # c
  BY <1>6 DEF ClientsConnected
<1>9. Free \notin Conns \cup Srvs
  BY DEF Free, Conns, Srvs
<1>10. ThreadDescriptors'
  <2>1. \A f \in Fds : \A x : (fds[f] = <<"conn", x>> \/ fds[f] = <<"srv", x>>) => fds'[f] = fds[f]
    BY <1>1, <1>3 DEF Free
  <2> QED BY <1>2, <2>1 DEF ThreadDescriptors
<1>11. OneDescriptor'
  BY <1>3, <1>7 DEF OneDescriptor
<1>12. OneThread' /\ MainDescriptor'
  BY <1>1, <1>2, <1>3, <1>8 DEF OneThread, MainDescriptor, Born
<1>13. ClientsConnected'
  <2>1. cl'[c].st = "open" /\ \A d \in PClients : Connected(d) => cl'[d].st \in {"open", "reset"}
    BY <1>4, <1>6 DEF Connected
  <2>2. ASSUME NEW t \in PThreads, Born(t)
        PROVE  thr[t].for \in PClients /\ cl'[thr[t].for].st \in {"open", "reset"}
    <3>1. Connected(thr[t].for) /\ thr[t].for \in PClients
      BY <2>2 DEF ClientsConnected, Connected
    <3> QED BY <2>1, <3>1
  <2>3. ASSUME NEW f \in Fds, NEW d \in PClients, fds'[f] = <<"conn", d>>
        PROVE  cl'[d].st \in {"open", "reset"}
    <3>1. CASE f = fd
      <4>1. d = c
        BY <1>3, <2>3, <3>1
      <4> QED BY <2>1, <4>1
    <3>2. CASE f # fd
      BY <1>3, <2>1, <2>3, <3>2 DEF ClientsConnected
    <3> QED BY <3>1, <3>2
  <2> QED BY <1>2, <2>2, <2>3 DEF ClientsConnected, Connected, Born
<1>14. Owned'
  <2>1. \A f \in Fds, t \in PThreads : fds'[f] = <<"srv", t>> => thr'[t].clientfd = f
    BY <1>2, <1>3 DEF Owned
  <2>2. pmain = "accept" /\ Running
    BY DEF wrap_accept, Running
  <2>3. \A f \in Fds : fds'[f] \in Conns /\ f # fd =>
          \/ f \in leaked
          \/ \E t \in PThreads : thr[t].connfd = f \/ (thr[t].pc = "start" /\ thr[t].arg = f)
    BY <1>3, <2>2 DEF Owned
  <2> QED BY <1>2, <2>1, <2>3 DEF Owned
<1> QED BY <1>5, <1>10, <1>11, <1>12, <1>13, <1>14

(* The connection becomes the argument of a new thread, or nobody's.       *)
LEMMA CreateStep == ASSUME DInv, wrap_pthread_create PROVE DInv'
<1> USE DEF DInv
<1>1. pmain = "create" /\ pmain' = "accept" /\ UNCHANGED <<mainfd, fds, cl>>
  BY DEF wrap_pthread_create
<1>2. PICK c \in PClients : /\ mainfd \in Fds /\ fds[mainfd] = <<"conn", c>>
                            /\ \A t \in PThreads : Born(t) => thr[t].for # c
  BY <1>1 DEF MainDescriptor
<1>3. Connected(c) /\ Running /\ Running'
  BY <1>1, <1>2 DEF ClientsConnected, Running
<1>4. CASE UNCHANGED thr /\ leaked' = leaked \cup {mainfd}
  <2>1. Types' /\ ThreadDescriptors' /\ OneDescriptor' /\ OneThread' /\ MainDescriptor'
    BY <1>1, <1>4 DEF Types, ThreadDescriptors, OneDescriptor, OneThread, MainDescriptor, Born
  <2>2. ClientsConnected'
    BY <1>1, <1>4 DEF ClientsConnected, Connected, Born
  <2>3. Owned'
    BY <1>1, <1>3, <1>4 DEF Owned
  <2> QED BY <2>1, <2>2, <2>3
<1>5. ASSUME NEW t \in PThreads, thr[t].pc = "unborn", leaked' = leaked,
             thr' = [thr EXCEPT ![t] = [@ EXCEPT !.pc = "start", !.arg = mainfd, !.for = c]]
      PROVE  DInv'
  <2>1. /\ thr'[t] = [thr[t] EXCEPT !.pc = "start", !.arg = mainfd, !.for = c]
        /\ \A u \in PThreads : u # t => thr'[u] = thr[u]
    BY <1>5 DEF Types
  <2>2. /\ thr'[t] \in ThreadRecord /\ thr'[t].pc = "start" /\ thr'[t].for = c
        /\ thr'[t].arg = mainfd /\ thr'[t].connfd = thr[t].connfd
        /\ thr'[t].clientfd = thr[t].clientfd
    BY <1>2, <2>1, Fields DEF ThreadRecord
  <2>3. Types'
    BY <1>1, <1>5, <2>2 DEF Types
  <2>4. thr[t].connfd = NoFd /\ thr[t].clientfd = NoFd
    BY <1>5 DEF ThreadDescriptors, Talking, Relaying
  <2>5. ThreadDescriptors'
    <3>1. ASSUME NEW u \in PThreads, u # t
          PROVE  thr'[u] = thr[u]
      BY <2>1, <3>1
    <3>2. thr'[t].pc \notin Talking /\ thr'[t].pc \notin Relaying
          /\ thr'[t].connfd = NoFd /\ thr'[t].clientfd = NoFd
      BY <2>2, <2>4 DEF Talking, Relaying
    <3>3. thr'[t].arg \in Fds /\ fds[thr'[t].arg] = <<"conn", thr'[t].for>>
      BY <1>2, <2>2
    <3> QED BY <1>1, <3>1, <3>2, <3>3 DEF ThreadDescriptors
  <2>6. OneDescriptor' /\ OneThread' /\ MainDescriptor'
    <3>1. OneDescriptor' /\ MainDescriptor'
      BY <1>1 DEF OneDescriptor, MainDescriptor
    <3>2. ASSUME NEW u \in PThreads, NEW v \in PThreads, Born(u)', Born(v)',
                 thr'[u].for = thr'[v].for
          PROVE  u = v
      <4>1. CASE u # t /\ v # t
        BY <2>1, <3>2, <4>1 DEF OneThread, Born
      <4>2. CASE u = t /\ v # t
        BY <1>2, <2>1, <2>2, <3>2, <4>2 DEF Born
      <4>3. CASE u # t /\ v = t
        BY <1>2, <2>1, <2>2, <3>2, <4>3 DEF Born
      <4> QED BY <4>1, <4>2, <4>3
    <3> QED BY <3>1, <3>2 DEF OneThread
  <2>7. ClientsConnected'
    BY <1>1, <1>3, <2>1, <2>2 DEF ClientsConnected, Connected, Born
  <2>8. Owned'
    <3>1. ASSUME NEW f \in Fds, NEW u \in PThreads, fds[f] = <<"srv", u>>
          PROVE  thr'[u].clientfd = f
      <4>1. thr[u].clientfd = f
        BY <3>1 DEF Owned
      <4>2. thr'[u].clientfd = thr[u].clientfd
        BY <2>1, <2>2
      <4> QED BY <4>1, <4>2
    <3>2. \A f \in Fds : thr[t].connfd # f
      BY <2>4, Fields
    <3>3. \A f \in Fds : fds[f] \in Conns =>
            \/ f \in leaked
            \/ \E u \in PThreads : thr'[u].connfd = f \/ (thr'[u].pc = "start" /\ thr'[u].arg = f)
      BY <1>3, <1>5, <2>1, <2>2, <3>2 DEF Owned
    <3> QED BY <1>1, <1>5, <3>1, <3>3 DEF Owned
  <2> QED BY <2>3, <2>5, <2>6, <2>7, <2>8
<1>6. \/ UNCHANGED thr /\ leaked' = leaked \cup {mainfd}
      \/ \E t \in PThreads :
           /\ thr[t].pc = "unborn" /\ leaked' = leaked
           /\ thr' = [thr EXCEPT ![t] = [@ EXCEPT !.pc = "start", !.arg = mainfd, !.for = c]]
  <2>1. fds[mainfd][2] = c
    BY <1>2
  <2>2. CASE \E t \in {Min({u \in PThreads : thr[u].pc = "unborn"})} :
               /\ thr' = [thr EXCEPT ![t].pc = "start", ![t].arg = mainfd, ![t].for = fds[mainfd][2]]
               /\ UNCHANGED <<faults, leaked>>
    <3>1. PICK t \in PThreads : /\ t = Min({u \in PThreads : thr[u].pc = "unborn"})
                                /\ thr[t].pc = "unborn"
      BY <1>1, ThreadLeft
    <3>2. /\ thr' = [thr EXCEPT ![t].pc = "start", ![t].arg = mainfd, ![t].for = c]
          /\ leaked' = leaked
      BY <2>1, <2>2, <3>1
    <3>3. thr' = [thr EXCEPT ![t] = [@ EXCEPT !.pc = "start", !.arg = mainfd, !.for = c]]
      BY <3>2, Fields DEF Types, ThreadRecord
    <3> QED BY <3>1, <3>2, <3>3
  <2> QED BY <2>2 DEF wrap_pthread_create
<1> QED BY <1>4, <1>5, <1>6

(* The thread takes over the descriptor it was given.                      *)
LEMMA StartStep == ASSUME DInv, NEW t \in PThreads, thread_start(t) PROVE DInv'
<1> USE DEF DInv
<1> DEFINE r == [thr[t] EXCEPT !.pc = "request", !.connfd = thr[t].arg]
<1>1. /\ thr[t].pc = "start" /\ thr' = [thr EXCEPT ![t] = r]
      /\ UNCHANGED <<pmain, mainfd, fds, cl, leaked>>
  BY DEF thread_start
<1>2. /\ r \in ThreadRecord /\ r.pc = "request" /\ r.connfd = thr[t].arg /\ r.for = thr[t].for
      /\ r.clientfd = thr[t].clientfd
  BY Fields DEF ThreadRecord, Talking
<1> HIDE DEF r
<1>3. thr'[t] = r /\ (\A u \in PThreads : u # t => thr'[u] = thr[u])
  BY <1>1 DEF Types
<1>4. Types'
  BY <1>1, <1>2 DEF Types
<1>5. /\ thr[t].arg \in Fds /\ fds[thr[t].arg] = <<"conn", thr[t].for>>
      /\ thr[t].connfd = NoFd /\ thr[t].clientfd = NoFd
  BY <1>1 DEF ThreadDescriptors, Talking, Relaying
<1>6. "request" \in Talking /\ "request" \notin Relaying /\ "request" # "start"
  BY DEF Talking, Relaying
<1>7. ThreadDescriptors'
  BY <1>1, <1>2, <1>3, <1>5, <1>6 DEF ThreadDescriptors
<1>8. \A u \in PThreads : /\ Born(u)' <=> Born(u)
                          /\ thr'[u].for = thr[u].for /\ thr'[u].clientfd = thr[u].clientfd
  BY <1>1, <1>2, <1>3 DEF Born
<1>9. OneDescriptor' /\ OneThread' /\ ClientsConnected' /\ MainDescriptor'
  BY <1>1, <1>8 DEF OneDescriptor, OneThread, ClientsConnected, MainDescriptor, Connected
<1>10. Owned'
  <2>1. \A f \in Fds, u \in PThreads :
          thr[u].connfd = f \/ (thr[u].pc = "start" /\ thr[u].arg = f) =>
            thr'[u].connfd = f \/ (thr'[u].pc = "start" /\ thr'[u].arg = f)
    <3> SUFFICES ASSUME NEW f \in Fds, NEW u \in PThreads,
                        thr[u].connfd = f \/ (thr[u].pc = "start" /\ thr[u].arg = f)
                 PROVE  thr'[u].connfd = f \/ (thr'[u].pc = "start" /\ thr'[u].arg = f)
      OBVIOUS
    <3>1. CASE u = t
      BY <1>2, <1>3, <1>5, <3>1, Fields
    <3>2. CASE u # t
      BY <1>3, <3>2
    <3> QED BY <3>1, <3>2
  <2> QED BY <1>1, <1>8, <2>1 DEF Owned, Running
<1> QED BY <1>4, <1>7, <1>9, <1>10

(* A thread reads a request that some client could have made.              *)
LEMMA RequestStep == ASSUME DInv, NEW t \in PThreads, get_request_from_client(t) PROVE DInv'
<1>1. /\ thr[t].pc = "request" /\ UNCHANGED <<pmain, mainfd, fds, cl, leaked>>
  BY DEF get_request_from_client
<1>2. thr[t].pc \in Talking /\ thr[t].pc \notin Relaying
  BY <1>1 DEF Talking, Relaying
<1>3. \E r \in ThreadRecord : /\ thr' = [thr EXCEPT ![t] = r] /\ r.pc \in {"connect", "close"}
                              /\ r.for = thr[t].for /\ r.connfd = thr[t].connfd
                              /\ r.clientfd = thr[t].clientfd
  <2> USE DEF DInv
  <2>1. CASE thr' = [thr EXCEPT ![t].pc = "close"]
    <3>1. [thr[t] EXCEPT !.pc = "close"] \in ThreadRecord
      BY Fields DEF ThreadRecord, Talking
    <3> QED BY <2>1, <3>1, Fields DEF ThreadRecord
  <2>2. ASSUME NEW q \in AnyUri, thr' = [thr EXCEPT ![t].pc = "connect", ![t].req = q]
        PROVE  \E r \in ThreadRecord : /\ thr' = [thr EXCEPT ![t] = r] /\ r.pc \in {"connect", "close"}
                                        /\ r.for = thr[t].for /\ r.connfd = thr[t].connfd
                                        /\ r.clientfd = thr[t].clientfd
    <3> DEFINE s == [thr[t] EXCEPT !.pc = "connect", !.req = q]
    <3>1. s \in ThreadRecord /\ s.pc = "connect" /\ s.for = thr[t].for
          /\ s.connfd = thr[t].connfd /\ s.clientfd = thr[t].clientfd
      BY Fields DEF ThreadRecord, Talking
    <3>2. thr' = [thr EXCEPT ![t] = s]
      BY <2>2 DEF Types
    <3> HIDE DEF s
    <3> QED BY <3>1, <3>2
  <2>3. ASSUME Peer(t).st = "open",
               NEW q \in IF Peer(t).uri # NoUri THEN {Peer(t).uri}
                         ELSE {Garbage} \cup {thr[u].req : u \in {v \in PThreads : thr[v].pc = "ended"}}
        PROVE  q \in AnyUri
    <3>1. Peer(t).uri \in AnyUri
      BY <1>2, PeerIs, Fields
    <3>2. Garbage \in AnyUri /\ \A u \in PThreads : thr[u].req \in AnyUri
      BY Fields DEF AnyUri
    <3> QED BY <2>3, <3>1, <3>2
  <2> QED BY <2>1, <2>2, <2>3 DEF get_request_from_client
<1>4. PICK r \in ThreadRecord : /\ thr' = [thr EXCEPT ![t] = r] /\ r.pc \in {"connect", "close"}
                                /\ r.for = thr[t].for /\ r.connfd = thr[t].connfd
                                /\ r.clientfd = thr[t].clientfd
  BY <1>3
<1>5. r.pc \in Talking /\ r.pc \notin Relaying
  BY <1>4 DEF Talking, Relaying
<1>6. cl' \in [PClients -> ClientRecord] /\ \A c \in PClients : Connected(c) => Connected(c)'
  BY <1>1 DEF DInv, Types, Connected
<1> QED BY <1>1, <1>2, <1>4, <1>5, <1>6, ThreadKept

(* The lines of a reply, and what is sent on of them.                      *)
LEMMA ReplyLines ==
    ASSUME NEW host, NEW u \in AnyUri, NEW file \in {<<"/", "none">>, <<DefaultPath(u.path), "none">>}
    PROVE  Reply(host, file) \in Seq(AnyLine)
<1>1. /\ [file |-> <<"never", "none">>, k |-> 0, nul |-> FALSE, cut |-> FALSE] \in AnyLine
      /\ [file |-> file, k |-> 1, nul |-> FALSE, cut |-> FALSE] \in AnyLine
      /\ [file |-> file, k |-> 2, nul |-> host = "bin", cut |-> FALSE] \in AnyLine
  <2>1. <<"never", "none">> \in AnyFile /\ file \in AnyFile
    BY DEF AnyFile
  <2> QED BY <2>1 DEF AnyLine
<1> QED BY <1>1 DEF Reply, Never

LEMMA ForwardLine == ASSUME NEW x \in AnyLine PROVE Forward(x) \in AnyLine
BY DEF Forward, AnyLine

LEMMA ParsedFile ==
    ASSUME NEW u \in AnyUri
    PROVE  parse_request(u).file \in {<<"/", "none">>, <<DefaultPath(u.path), "none">>}
BY DEF parse_request

(* connect is given a descriptor that was free, or fails.                  *)
LEMMA ConnectStep == ASSUME DInv, NEW t \in PThreads, connect_to_server(t) PROVE DInv'
<1> DEFINE p == parse_request(thr[t].req)
           fd == Min(FreeFds)
<1>1. /\ thr[t].pc = "connect" /\ UNCHANGED <<pmain, mainfd, cl, leaked>>
  BY DEF connect_to_server
<1>2. thr[t].pc \in Talking /\ thr[t].pc \notin Relaying /\ thr[t].pc # "start" /\ Types
  BY <1>1 DEF Talking, Relaying, DInv
<1>3. CASE thr' = [thr EXCEPT ![t].pc = "close"] /\ UNCHANGED fds
  <2> DEFINE r == [thr[t] EXCEPT !.pc = "close"]
  <2>1. /\ r \in ThreadRecord /\ r.pc \in Talking /\ r.pc \notin Relaying /\ r.for = thr[t].for
        /\ r.connfd = thr[t].connfd /\ r.clientfd = thr[t].clientfd
    BY <1>2, Fields DEF ThreadRecord, Talking, Relaying
  <2>2. thr' = [thr EXCEPT ![t] = r]
    BY <1>3
  <2>3. cl' \in [PClients -> ClientRecord] /\ \A c \in PClients : Connected(c) => Connected(c)'
    BY <1>1, <1>2 DEF Types, Connected
  <2> HIDE DEF r
  <2> QED BY <1>1, <1>2, <1>3, <2>1, <2>2, <2>3, ThreadKept
<1>4. CASE /\ FreeFds # {} /\ fds' = [fds EXCEPT ![fd] = <<"srv", t>>]
           /\ thr' = [thr EXCEPT ![t].pc = "relay", ![t].clientfd = fd,
                                 ![t].left = Reply(p.host, p.file)]
  <2> DEFINE r == [thr[t] EXCEPT !.pc = "relay", !.clientfd = fd, !.left = Reply(p.host, p.file)]
  <2>1. fd \in Fds /\ fds[fd] = Free
    BY <1>4, LeastFd
  <2>2. thr' = [thr EXCEPT ![t] = r]
    BY <1>2, <1>4 DEF Types
  <2>3. Reply(p.host, p.file) \in Seq(AnyLine)
    <3>1. thr[t].req \in AnyUri
      BY <1>2, Fields
    <3> QED BY <3>1, ParsedFile, ReplyLines
  <2> HIDE DEF fd, p
  <2>4. /\ r \in ThreadRecord /\ r.pc = "relay" /\ r.clientfd = fd /\ r.for = thr[t].for
        /\ r.connfd = thr[t].connfd
    BY <1>2, <2>1, <2>3, Fields DEF ThreadRecord, Talking
  <2> HIDE DEF r
  <2>5. /\ thr' \in [PThreads -> ThreadRecord]
        /\ thr'[t] = r /\ (\A u \in PThreads : u # t => thr'[u] = thr[u])
    BY <1>2, <2>2, <2>4 DEF Types
  <2>6. /\ fds'[fd] = <<"srv", t>> /\ (\A f \in Fds : f # fd => fds'[f] = fds[f])
        /\ fds' \in [Fds -> {Free} \cup Conns \cup Srvs]
    BY <1>2, <1>4, <2>1 DEF Types, Srvs
  <2>7. Types'
    BY <1>1, <1>2, <2>5, <2>6 DEF Types
  <2>8. \A f \in Fds : \A x : (fds[f] = <<"conn", x>> \/ fds[f] = <<"srv", x>>) =>
                             f # fd /\ fds'[f] = fds[f]
    BY <2>1, <2>6 DEF Free
  <2>9. thr[t].clientfd = NoFd /\ NoFd \notin Fds
    BY <1>2, Fields DEF DInv, ThreadDescriptors
  <2>10. "relay" \in Talking /\ "relay" \in Relaying /\ "relay" # "start"
    BY DEF Talking, Relaying
  <2>11. ThreadDescriptors'
    <3>1. ASSUME NEW u \in PThreads
          PROVE  /\ IF thr'[u].pc \in Talking
                    THEN thr'[u].connfd \in Fds /\ fds'[thr'[u].connfd] = <<"conn", thr'[u].for>>
                    ELSE thr'[u].connfd = NoFd
                 /\ IF thr'[u].pc \in Relaying
                    THEN thr'[u].clientfd \in Fds /\ fds'[thr'[u].clientfd] = <<"srv", u>>
                    ELSE thr'[u].clientfd = NoFd
                 /\ thr'[u].pc = "start" =>
                      thr'[u].arg \in Fds /\ fds'[thr'[u].arg] = <<"conn", thr'[u].for>>
      <4>1. CASE u = t
        BY <1>2, <2>1, <2>4, <2>5, <2>6, <2>8, <2>10, <4>1 DEF DInv, ThreadDescriptors
      <4>2. CASE u # t
        <5>1. thr'[u] = thr[u]
          BY <2>5, <4>2
        <5>2. /\ fds[thr[u].connfd] = <<"conn", thr[u].for>> /\ thr[u].connfd \in Fds =>
                   fds'[thr[u].connfd] = fds[thr[u].connfd]
              /\ fds[thr[u].arg] = <<"conn", thr[u].for>> /\ thr[u].arg \in Fds =>
                   fds'[thr[u].arg] = fds[thr[u].arg]
              /\ fds[thr[u].clientfd] = <<"srv", u>> /\ thr[u].clientfd \in Fds =>
                   fds'[thr[u].clientfd] = fds[thr[u].clientfd]
          BY <2>8
        <5> QED BY <5>1, <5>2 DEF DInv, ThreadDescriptors
      <4> QED BY <4>1, <4>2
    <3> QED BY <3>1 DEF ThreadDescriptors
  <2>12. \A f \in Fds : f # fd => fds[f] # <<"srv", t>>
    BY <2>9 DEF DInv, Owned
  <2>13. OneDescriptor'
    BY <2>6, <2>12 DEF DInv, OneDescriptor
  <2>14. \A u \in PThreads : /\ Born(u)' <=> Born(u)
                             /\ thr'[u].for = thr[u].for /\ thr'[u].connfd = thr[u].connfd
                             /\ thr[u].pc = "start" => thr'[u] = thr[u]
    BY <1>1, <1>2, <2>4, <2>5 DEF Born
  <2>15. OneThread' /\ MainDescriptor'
    BY <1>1, <2>8, <2>14 DEF DInv, OneThread, MainDescriptor
  <2>16. ClientsConnected'
    <3>1. \A f \in Fds, c \in PClients : fds'[f] = <<"conn", c>> => fds[f] = <<"conn", c>>
      BY <2>6
    <3> QED BY <1>1, <2>14, <3>1 DEF DInv, ClientsConnected, Connected
  <2>17. \A f \in Fds, u \in PThreads : fds'[f] = <<"srv", u>> => thr'[u].clientfd = f
    <3> SUFFICES ASSUME NEW f \in Fds, NEW u \in PThreads, fds'[f] = <<"srv", u>>
                 PROVE  thr'[u].clientfd = f
      OBVIOUS
    <3>1. CASE f = fd
      <4>1. u = t
        BY <2>6, <3>1
      <4> QED BY <2>4, <2>5, <3>1, <4>1
    <3>2. CASE f # fd
      <4>1. thr[u].clientfd = f
        BY <2>6, <3>2 DEF DInv, Owned
      <4> QED BY <2>5, <2>9, <4>1
    <3> QED BY <3>1, <3>2
  <2>18. \A f \in Fds : fds'[f] \in Conns => f # fd /\ fds[f] \in Conns
    BY <2>6 DEF Conns
  <2>19. Owned'
    BY <1>1, <2>14, <2>17, <2>18 DEF DInv, Owned, Running
  <2> QED BY <2>7, <2>11, <2>13, <2>15, <2>16, <2>19 DEF DInv
<1> QED BY <1>3, <1>4 DEF connect_to_server

(* Relaying a line changes no descriptor.                                  *)
LEMMA RelayStep ==
    ASSUME DInv, NEW t \in PThreads, relay(t) \/ server_breaks(t)
    PROVE  DInv'
<1>1. thr[t].pc = "relay" /\ UNCHANGED <<pmain, mainfd, fds, leaked>> /\ Types
  BY DEF relay, server_breaks, DInv
<1>2. thr[t].pc \in Talking /\ thr[t].pc \in Relaying
  BY <1>1 DEF Talking, Relaying
<1>3. CASE thr' = [thr EXCEPT ![t].pc = "close server"] /\ cl' = cl
  <2> DEFINE r == [thr[t] EXCEPT !.pc = "close server"]
  <2>1. /\ r \in ThreadRecord /\ r.pc \in Talking /\ r.pc \in Relaying /\ r.for = thr[t].for
        /\ r.connfd = thr[t].connfd /\ r.clientfd = thr[t].clientfd
    BY <1>1, Fields DEF ThreadRecord, Talking, Relaying
  <2>2. thr' = [thr EXCEPT ![t] = r]
    BY <1>3
  <2>3. cl' \in [PClients -> ClientRecord] /\ \A c \in PClients : Connected(c) => Connected(c)'
    BY <1>1, <1>3 DEF Types, Connected
  <2> HIDE DEF r
  <2> QED BY <1>1, <1>2, <2>1, <2>2, <2>3, ThreadKept
<1>4. CASE /\ thr[t].left # << >> /\ thr' = [thr EXCEPT ![t].left = Tail(@)]
           /\ cl' = [cl EXCEPT ![fds[thr[t].connfd][2]].got = Append(@, Forward(Head(thr[t].left)))]
  <2> DEFINE r == [thr[t] EXCEPT !.left = Tail(@)]
             c == thr[t].for
             d == [cl[c] EXCEPT !.got = Append(@, Forward(Head(thr[t].left)))]
  <2>1. thr[t].left \in Seq(AnyLine) /\ Tail(thr[t].left) \in Seq(AnyLine)
        /\ Forward(Head(thr[t].left)) \in AnyLine
    <3>1. thr[t].left \in Seq(AnyLine) /\ thr[t].left # << >>
      BY <1>1, <1>4, Fields
    <3>2. Head(thr[t].left) \in AnyLine /\ Tail(thr[t].left) \in Seq(AnyLine)
      BY ONLY <3>1, HeadTailProperties
    <3> QED BY <3>1, <3>2, ForwardLine
  <2>2. /\ r \in ThreadRecord /\ r.pc = thr[t].pc /\ r.for = thr[t].for
        /\ r.connfd = thr[t].connfd /\ r.clientfd = thr[t].clientfd
    BY <1>1, <2>1, Fields DEF ThreadRecord
  <2>3. thr' = [thr EXCEPT ![t] = r]
    BY <1>4
  <2>4. fds[thr[t].connfd][2] = c /\ c \in PClients
    BY <1>2, PeerIs
  <2>5. cl' = [cl EXCEPT ![c] = d]
    BY <1>4, <2>4
  <2>6. d \in ClientRecord /\ d.st = cl[c].st
    <3>1. cl[c] \in ClientRecord /\ cl[c].got \in Seq(AnyLine)
      BY <1>1, <2>4, Fields
    <3>2. Append(cl[c].got, Forward(Head(thr[t].left))) \in Seq(AnyLine)
      BY <2>1, <3>1
    <3> QED BY <3>1, <3>2 DEF ClientRecord
  <2> HIDE DEF r, c, d
  <2>7. cl' \in [PClients -> ClientRecord] /\ \A x \in PClients : Connected(x) => Connected(x)'
    BY <1>1, <2>4, <2>5, <2>6 DEF Types, Connected
  <2> QED BY <1>1, <1>2, <2>2, <2>3, <2>7, ThreadKept
<1> QED BY <1>3, <1>4 DEF relay, server_breaks

(* Whoever else works on a descriptor keeps it when t closes its own.      *)
LEMMA CloseServer ==
    ASSUME DInv, NEW t \in PThreads, thr[t].pc = "close server",
           NEW fd, fd = thr[t].clientfd, fds' = [fds EXCEPT ![fd] = Free],
           NEW r \in ThreadRecord, thr' = [thr EXCEPT ![t] = r], r.pc = "close",
           r.clientfd = NoFd, r.for = thr[t].for, r.connfd = thr[t].connfd,
           UNCHANGED <<pmain, mainfd, cl, leaked>>
    PROVE  DInv'
<1>1. Types /\ thr[t].pc \in Talking /\ thr[t].pc \in Relaying /\ thr[t].pc # "start"
  BY DEF DInv, Talking, Relaying
<1>2. fd \in Fds /\ fds[fd] = <<"srv", t>>
  BY <1>1 DEF DInv, ThreadDescriptors
<1>5. /\ thr' \in [PThreads -> ThreadRecord]
      /\ thr'[t] = r /\ (\A u \in PThreads : u # t => thr'[u] = thr[u])
  BY <1>1 DEF Types
<1>6. /\ fds'[fd] = Free /\ (\A f \in Fds : f # fd => fds'[f] = fds[f])
      /\ fds' \in [Fds -> {Free} \cup Conns \cup Srvs]
  BY <1>1, <1>2 DEF Types
<1>7. Types'
  BY <1>1, <1>5, <1>6 DEF Types
<1>8. \A f \in Fds : \A x : fds[f] = <<"conn", x>> => f # fd /\ fds'[f] = fds[f]
  <2> SUFFICES ASSUME NEW f \in Fds, NEW x, fds[f] = <<"conn", x>>
               PROVE  f # fd /\ fds'[f] = fds[f]
    OBVIOUS
  <2>1. fds[f] # fds[fd]
    <3>1. <<"conn", x>> # <<"srv", t>>
      OBVIOUS
    <3> QED BY ONLY <1>2, <3>1, fds[f] = <<"conn", x>>
  <2> QED BY <1>6, <2>1
<1>9. \A f \in Fds : \A x : fds'[f] = <<"conn", x>> \/ fds'[f] = <<"srv", x>> =>
                              f # fd /\ fds[f] = fds'[f]
  BY <1>6 DEF Free
<1>10. "close" \in Talking /\ "close" \notin Relaying /\ "close" # "start"
  BY DEF Talking, Relaying
<1>11. ThreadDescriptors'
  <2>1. ASSUME NEW u \in PThreads
        PROVE  /\ IF thr'[u].pc \in Talking
                  THEN thr'[u].connfd \in Fds /\ fds'[thr'[u].connfd] = <<"conn", thr'[u].for>>
                  ELSE thr'[u].connfd = NoFd
               /\ IF thr'[u].pc \in Relaying
                  THEN thr'[u].clientfd \in Fds /\ fds'[thr'[u].clientfd] = <<"srv", u>>
                  ELSE thr'[u].clientfd = NoFd
               /\ thr'[u].pc = "start" =>
                    thr'[u].arg \in Fds /\ fds'[thr'[u].arg] = <<"conn", thr'[u].for>>
    <3>1. CASE u = t
      <4>1. thr'[u] = r /\ u = t
        BY <1>5, <3>1
      <4>2. thr[t].connfd \in Fds /\ fds[thr[t].connfd] = <<"conn", thr[t].for>>
        BY <1>1 DEF DInv, ThreadDescriptors
      <4>3. fds'[r.connfd] = <<"conn", r.for>> /\ r.connfd \in Fds
        BY <1>8, <4>2
      <4> QED BY <1>10, <4>1, <4>3
    <3>2. CASE u # t
      <4>1. thr'[u] = thr[u]
        BY <1>5, <3>2
      <4>2. /\ fds[thr[u].connfd] = <<"conn", thr[u].for>> /\ thr[u].connfd \in Fds =>
                 fds'[thr[u].connfd] = fds[thr[u].connfd]
            /\ fds[thr[u].arg] = <<"conn", thr[u].for>> /\ thr[u].arg \in Fds =>
                 fds'[thr[u].arg] = fds[thr[u].arg]
        BY <1>8
      <4>3. fds[thr[u].clientfd] = <<"srv", u>> /\ thr[u].clientfd \in Fds =>
              fds'[thr[u].clientfd] = fds[thr[u].clientfd]
        <5>1. <<"srv", u>> # <<"srv", t>>
          BY <3>2
        <5> QED BY <1>2, <1>6, <5>1
      <4> QED BY <4>1, <4>2, <4>3 DEF DInv, ThreadDescriptors
    <3> QED BY <3>1, <3>2
  <2> QED BY <2>1 DEF ThreadDescriptors
<1>12. OneDescriptor'
  BY <1>6 DEF DInv, OneDescriptor
<1>13. \A u \in PThreads : /\ Born(u)' <=> Born(u)
                           /\ thr'[u].for = thr[u].for /\ thr'[u].connfd = thr[u].connfd
                           /\ thr[u].pc = "start" => thr'[u] = thr[u]
  BY <1>1, <1>5 DEF Born, Talking
<1>14. OneThread' /\ MainDescriptor'
  <2>1. OneThread'
    BY <1>13 DEF DInv, OneThread
  <2>2. ASSUME pmain = "create" PROVE MainDescriptor'
    <3>1. PICK d \in PClients : /\ mainfd \in Fds /\ fds[mainfd] = <<"conn", d>>
                                /\ \A u \in PThreads : Born(u) => thr[u].for # d
      BY <2>2 DEF DInv, MainDescriptor
    <3>2. fds'[mainfd] = <<"conn", d>>
      BY <1>8, <3>1
    <3>3. \A u \in PThreads : Born(u)' => thr'[u].for # d
      BY <1>13, <3>1
    <3>4. mainfd' = mainfd
      OBVIOUS
    <3> QED BY <3>1, <3>2, <3>3, <3>4 DEF MainDescriptor
  <2> QED BY <2>1, <2>2 DEF MainDescriptor
<1>15. ClientsConnected'
  <2>1. ASSUME NEW u \in PThreads, Born(u)' PROVE Connected(thr'[u].for)
    BY <1>13, <2>1 DEF DInv, ClientsConnected
  <2>2. ASSUME NEW f \in Fds, NEW x \in PClients, fds'[f] = <<"conn", x>> PROVE Connected(x)
    <3>1. fds[f] = <<"conn", x>>
      BY ONLY <1>9, <2>2
    <3> QED BY <3>1 DEF DInv, ClientsConnected
  <2>3. \A x : Connected(x)' <=> Connected(x)
    BY DEF Connected
  <2> QED BY <2>1, <2>2, <2>3 DEF ClientsConnected
<1>16. ASSUME NEW f \in Fds, NEW u \in PThreads, fds'[f] = <<"srv", u>>
       PROVE  thr'[u].clientfd = f
  <2>1. f # fd /\ thr[u].clientfd = f
    <3>1. f # fd /\ fds[f] = <<"srv", u>>
      BY ONLY <1>9, <1>16
    <3> QED BY <3>1 DEF DInv, Owned
  <2>2. u # t
    BY <2>1
  <2> QED BY <1>5, <2>1, <2>2
<1>17. \A f \in Fds : fds'[f] \in Conns => fds[f] \in Conns
  BY <1>6 DEF Conns, Free
<1>18. Owned'
  <2>1. ASSUME Running, NEW f \in Fds, fds'[f] \in Conns
        PROVE  \/ f \in leaked
               \/ \E u \in PThreads : thr'[u].connfd = f \/ (thr'[u].pc = "start" /\ thr'[u].arg = f)
               \/ pmain = "create" /\ f = mainfd
    <3>1. fds[f] \in Conns
      BY <1>17, <2>1
    <3>2. \/ f \in leaked
          \/ \E u \in PThreads : thr[u].connfd = f \/ (thr[u].pc = "start" /\ thr[u].arg = f)
          \/ pmain = "create" /\ f = mainfd
      BY <2>1, <3>1 DEF DInv, Owned
    <3> QED BY <1>13, <3>2
  <2> QED BY <1>16, <2>1 DEF Owned, Running
<1> QED BY <1>7, <1>11, <1>12, <1>14, <1>15, <1>18 DEF DInv

LEMMA CloseConnection ==
    ASSUME DInv, NEW t \in PThreads, thr[t].pc = "close",
           NEW fd, fd = thr[t].connfd, fds' = [fds EXCEPT ![fd] = Free],
           NEW r \in ThreadRecord, thr' = [thr EXCEPT ![t] = r], r.pc = "ended",
           r.connfd = NoFd, r.for = thr[t].for, r.clientfd = thr[t].clientfd,
           cl' \in [PClients -> ClientRecord], \A x \in PClients : cl'[x].st = cl[x].st,
           UNCHANGED <<pmain, mainfd, leaked>>
    PROVE  DInv'
<1> DEFINE c == thr[t].for
<1>1. Types /\ thr[t].pc \in Talking /\ thr[t].pc \notin Relaying /\ thr[t].pc # "start"
  BY DEF DInv, Talking, Relaying
<1>2. fd \in Fds /\ fds[fd] = <<"conn", c>> /\ c \in PClients /\ Born(t)
  BY <1>1, PeerIs
<1>3. \A x \in PClients : cl'[x].st = cl[x].st
  OBVIOUS
<1>4. r.for = c
  OBVIOUS
<1> HIDE DEF c
<1>5. /\ thr' \in [PThreads -> ThreadRecord]
      /\ thr'[t] = r /\ (\A u \in PThreads : u # t => thr'[u] = thr[u])
  BY <1>1 DEF Types
<1>6. /\ fds'[fd] = Free /\ (\A f \in Fds : f # fd => fds'[f] = fds[f])
      /\ fds' \in [Fds -> {Free} \cup Conns \cup Srvs]
  BY <1>1, <1>2 DEF Types
<1>8. Types'
  BY <1>1, <1>5, <1>6 DEF Types
<1>9. \A f \in Fds : \A x : fds[f] = <<"srv", x>> => f # fd /\ fds'[f] = fds[f]
  BY <1>2, <1>6
<1>10. \A f \in Fds : \A x : fds[f] = <<"conn", x>> /\ x # c => f # fd /\ fds'[f] = fds[f]
  BY <1>2, <1>6
<1>11. \A f \in Fds : \A x : fds'[f] = <<"conn", x>> \/ fds'[f] = <<"srv", x>> =>
                               f # fd /\ fds[f] = fds'[f]
  BY <1>6 DEF Free
<1>12. "ended" \notin Talking /\ "ended" \notin Relaying /\ "ended" # "start"
  BY DEF Talking, Relaying
<1>13. \A u \in PThreads : Born(u) /\ u # t => thr[u].for # c
  BY <1>2 DEF DInv, OneThread, c
<1>14. ThreadDescriptors'
  <2>1. ASSUME NEW u \in PThreads
        PROVE  /\ IF thr'[u].pc \in Talking
                  THEN thr'[u].connfd \in Fds /\ fds'[thr'[u].connfd] = <<"conn", thr'[u].for>>
                  ELSE thr'[u].connfd = NoFd
               /\ IF thr'[u].pc \in Relaying
                  THEN thr'[u].clientfd \in Fds /\ fds'[thr'[u].clientfd] = <<"srv", u>>
                  ELSE thr'[u].clientfd = NoFd
               /\ thr'[u].pc = "start" =>
                    thr'[u].arg \in Fds /\ fds'[thr'[u].arg] = <<"conn", thr'[u].for>>
    <3>1. CASE u = t
      BY <1>1, <1>4, <1>5, <1>12, <3>1 DEF DInv, ThreadDescriptors
    <3>2. CASE u # t
      <4>1. thr'[u] = thr[u]
        BY <1>5, <3>2
      <4>2. fds[thr[u].clientfd] = <<"srv", u>> /\ thr[u].clientfd \in Fds =>
              fds'[thr[u].clientfd] = fds[thr[u].clientfd]
        BY <1>9
      <4>3. ASSUME Born(u)
            PROVE  /\ fds[thr[u].connfd] = <<"conn", thr[u].for>> /\ thr[u].connfd \in Fds =>
                        fds'[thr[u].connfd] = fds[thr[u].connfd]
                   /\ fds[thr[u].arg] = <<"conn", thr[u].for>> /\ thr[u].arg \in Fds =>
                        fds'[thr[u].arg] = fds[thr[u].arg]
        BY <1>10, <1>13, <3>2, <4>3
      <4>4. thr[u].pc \in Talking \/ thr[u].pc = "start" => Born(u)
        BY DEF Born, Talking
      <4> QED BY <4>1, <4>2, <4>3, <4>4 DEF DInv, ThreadDescriptors
    <3> QED BY <3>1, <3>2
  <2> QED BY <2>1 DEF ThreadDescriptors
<1>15. OneDescriptor'
  BY <1>6 DEF DInv, OneDescriptor
<1>16. \A u \in PThreads : /\ Born(u)' <=> Born(u)
                           /\ thr'[u].for = thr[u].for /\ thr'[u].clientfd = thr[u].clientfd
                           /\ thr[u].pc = "start" => thr'[u] = thr[u]
  BY <1>1, <1>4, <1>5 DEF Born, Talking, c
<1>17. OneThread' /\ MainDescriptor'
  <2>1. OneThread'
    BY <1>16 DEF DInv, OneThread
  <2>2. ASSUME pmain = "create" PROVE MainDescriptor'
    <3>1. PICK d \in PClients : /\ mainfd \in Fds /\ fds[mainfd] = <<"conn", d>>
                                /\ \A u \in PThreads : Born(u) => thr[u].for # d
      BY <2>2 DEF DInv, MainDescriptor
    <3>2. d # c
      BY <1>2, <3>1 DEF c
    <3>3. fds'[mainfd] = <<"conn", d>>
      BY <1>10, <3>1, <3>2
    <3>4. \A u \in PThreads : Born(u)' => thr'[u].for # d
      BY <1>16, <3>1
    <3>5. mainfd' = mainfd
      OBVIOUS
    <3> QED BY <3>1, <3>3, <3>4, <3>5 DEF MainDescriptor
  <2> QED BY <2>1, <2>2 DEF MainDescriptor
<1>18. ClientsConnected'
  <2>1. ASSUME NEW f \in Fds, NEW d \in PClients, fds'[f] = <<"conn", d>>
        PROVE  cl'[d].st \in {"open", "reset"}
    <3>1. fds[f] = <<"conn", d>>
      BY <1>6, <2>1 DEF Free
    <3> QED BY <1>3, <3>1 DEF DInv, ClientsConnected, Connected
  <2>2. ASSUME NEW u \in PThreads, Born(u)
        PROVE  thr[u].for \in PClients /\ cl'[thr[u].for].st \in {"open", "reset"}
    BY <1>3, <2>2 DEF DInv, ClientsConnected, Connected
  <2> QED BY <1>16, <2>1, <2>2 DEF ClientsConnected, Connected
<1>19. Owned'
  <2>1. \A f \in Fds, u \in PThreads : fds'[f] = <<"srv", u>> => thr'[u].clientfd = f
    <3> SUFFICES ASSUME NEW f \in Fds, NEW u \in PThreads, fds'[f] = <<"srv", u>>
                 PROVE  thr'[u].clientfd = f
      OBVIOUS
    <3>1. fds[f] = <<"srv", u>>
      BY <1>11
    <3> QED BY <1>16, <3>1 DEF DInv, Owned
  <2>2. \A f \in Fds : fds'[f] \in Conns => f # fd /\ fds[f] \in Conns
    BY <1>11 DEF Conns
  <2>3. \A f \in Fds, u \in PThreads : f # fd =>
          (thr[u].connfd = f \/ (thr[u].pc = "start" /\ thr[u].arg = f) =>
             thr'[u].connfd = f \/ (thr'[u].pc = "start" /\ thr'[u].arg = f))
    <3> SUFFICES ASSUME NEW f \in Fds, NEW u \in PThreads, f # fd,
                        thr[u].connfd = f \/ (thr[u].pc = "start" /\ thr[u].arg = f)
                 PROVE  thr'[u].connfd = f \/ (thr'[u].pc = "start" /\ thr'[u].arg = f)
      OBVIOUS
    <3>1. u # t
      BY <1>1
    <3> QED BY <1>5, <3>1
  <2>4. ASSUME Running, NEW f \in Fds, fds'[f] \in Conns
        PROVE  \/ f \in leaked
               \/ \E u \in PThreads : thr'[u].connfd = f \/ (thr'[u].pc = "start" /\ thr'[u].arg = f)
               \/ pmain = "create" /\ f = mainfd
    <3>1. f # fd /\ fds[f] \in Conns
      BY <2>2, <2>4
    <3>2. \/ f \in leaked
          \/ \E u \in PThreads : thr[u].connfd = f \/ (thr[u].pc = "start" /\ thr[u].arg = f)
          \/ pmain = "create" /\ f = mainfd
      BY <2>4, <3>1 DEF DInv, Owned
    <3> QED BY <2>3, <3>1, <3>2
  <2> QED BY <2>1, <2>4 DEF Owned, Running
<1> QED BY <1>8, <1>14, <1>15, <1>17, <1>18, <1>19 DEF DInv

LEMMA CloseStep == ASSUME DInv, NEW t \in PThreads, wrap_close(t) PROVE DInv'
<1>1. Types /\ NoFd \in Fds \cup {NoFd}
  BY DEF DInv
<1>2. CASE /\ thr[t].pc = "close server"
           /\ fds' = [fds EXCEPT ![thr[t].clientfd] = Free]
           /\ thr' = [thr EXCEPT ![t].pc = "close", ![t].clientfd = NoFd]
           /\ UNCHANGED <<pmain, cl, faults>>
  <2> DEFINE r == [thr[t] EXCEPT !.pc = "close", !.clientfd = NoFd]
  <2>1. /\ r \in ThreadRecord /\ r.pc = "close" /\ r.clientfd = NoFd /\ r.for = thr[t].for
        /\ r.connfd = thr[t].connfd
    BY <1>1, Fields DEF ThreadRecord, Talking
  <2>2. thr' = [thr EXCEPT ![t] = r]
    BY <1>1, <1>2 DEF Types
  <2>3. UNCHANGED <<pmain, mainfd, cl, leaked>>
    BY <1>2 DEF wrap_close
  <2> HIDE DEF r
  <2> QED BY <1>2, <2>1, <2>2, <2>3, CloseServer
<1>3. CASE /\ thr[t].pc = "close"
           /\ fds' = [fds EXCEPT ![thr[t].connfd] = Free]
           /\ cl' = [cl EXCEPT ![fds[thr[t].connfd][2]].eof = TRUE]
           /\ thr' = [thr EXCEPT ![t].pc = "ended", ![t].connfd = NoFd]
           /\ UNCHANGED <<pmain, faults>>
  <2> DEFINE r == [thr[t] EXCEPT !.pc = "ended", !.connfd = NoFd]
             c == thr[t].for
  <2>1. /\ r \in ThreadRecord /\ r.pc = "ended" /\ r.connfd = NoFd /\ r.for = thr[t].for
        /\ r.clientfd = thr[t].clientfd
    BY <1>1, Fields DEF ThreadRecord, Talking
  <2>2. thr' = [thr EXCEPT ![t] = r]
    BY <1>1, <1>3 DEF Types
  <2>3. fds[thr[t].connfd][2] = c /\ c \in PClients
    BY <1>3, PeerIs DEF Talking
  <2>4. cl' = [cl EXCEPT ![c] = [@ EXCEPT !.eof = TRUE]]
    BY <1>3, <2>3
  <2> HIDE DEF r, c
  <2>5. cl' \in [PClients -> ClientRecord] /\ \A x \in PClients : cl'[x].st = cl[x].st
    BY <1>1, <2>3, <2>4 DEF Types, ClientRecord
  <2>6. UNCHANGED <<pmain, mainfd, leaked>>
    BY <1>3 DEF wrap_close
  <2> QED BY <1>3, <2>1, <2>2, <2>5, <2>6, CloseConnection
<1>4. CASE pmain' = "exit" /\ UNCHANGED <<fds, thr, cl>>
  <2>1. cl' \in [PClients -> ClientRecord] /\ \A c \in PClients : Connected(c) => Connected(c)'
    BY <1>1, <1>4 DEF Types, Connected
  <2> QED BY <1>4, <2>1, ClientKept DEF wrap_close
<1> QED BY <1>2, <1>3, <1>4 DEF wrap_close

LEMMA DInvStep == DInv /\ [PNext]_pvars => DInv'
<1> SUFFICES ASSUME DInv, [PNext]_pvars PROVE DInv'
  OBVIOUS
<1>1. ASSUME NEW c \in PClients, client_connect(c) \/ client_reset(c) PROVE DInv'
  BY <1>1, ClientStep
<1>2. ASSUME NEW c \in PClients, wrap_accept(c) PROVE DInv'
  BY <1>2, AcceptStep
<1>3. CASE wrap_pthread_create
  BY <1>3, CreateStep
<1>4. ASSUME NEW t \in PThreads, thread_start(t) PROVE DInv'
  BY <1>4, StartStep
<1>5. ASSUME NEW t \in PThreads, get_request_from_client(t) PROVE DInv'
  BY <1>5, RequestStep
<1>6. ASSUME NEW t \in PThreads, connect_to_server(t) PROVE DInv'
  BY <1>6, ConnectStep
<1>7. ASSUME NEW t \in PThreads, relay(t) \/ server_breaks(t) PROVE DInv'
  BY <1>7, RelayStep
<1>8. ASSUME NEW t \in PThreads, wrap_close(t) PROVE DInv'
  BY <1>8, CloseStep
<1>9. CASE UNCHANGED pvars
  BY <1>9 DEF pvars, DInv, Types, ThreadDescriptors, OneDescriptor, OneThread, ClientsConnected,
     MainDescriptor, Owned, Running, Born, Connected
<1> QED BY <1>1, <1>2, <1>3, <1>4, <1>5, <1>6, <1>7, <1>8, <1>9 DEF PNext, PMainStep, PThreadStep

LEMMA DInvOwned == DInv => DescriptorsOwned
<1> SUFFICES ASSUME DInv PROVE DescriptorsOwned
  OBVIOUS
<1>1. Types
  BY DEF DInv
<1>2. ASSUME NEW t \in PThreads, Live(t) PROVE fds[thr[t].connfd] = <<"conn", thr[t].for>>
  <2>1. thr[t].pc \in Talking
    BY <1>1, <1>2, Fields DEF Live
  <2> QED BY <2>1 DEF DInv, ThreadDescriptors
<1>3. ASSUME NEW t \in PThreads, thr[t].clientfd # NoFd PROVE fds[thr[t].clientfd] = <<"srv", t>>
  BY <1>3 DEF DInv, ThreadDescriptors
<1>4. ASSUME Running, NEW f \in Fds \ (FreeFds \cup leaked)
      PROVE  \/ \E t \in PThreads : f \in {thr[t].connfd, thr[t].clientfd}
                                    \/ (thr[t].pc = "start" /\ f = thr[t].arg)
             \/ pmain = "create" /\ f = mainfd
  <2>1. fds[f] \in Conns \/ fds[f] \in Srvs
    BY <1>1, <1>4, Fields DEF FreeFds
  <2>2. CASE fds[f] \in Conns
    BY <1>4, <2>2 DEF DInv, Owned
  <2>3. CASE fds[f] \in Srvs
    BY <2>3 DEF Srvs, DInv, Owned
  <2> QED BY <2>1, <2>2, <2>3
<1> QED BY <1>2, <1>3, <1>4 DEF DescriptorsOwned

(* Each thread reads, writes and closes the descriptors it was given, and  *)
(* no other (the descriptors of handle_client and request_and_reply in     *)
(* proxy.c), though accept and connect use a number again as soon as it is *)
(* closed.                                                                 *)
THEOREM DescriptorsOwnedAlways == PSpec => []DescriptorsOwned
<1>1. PSpec => []DInv
  BY DInvInit, DInvStep, PTL DEF PSpec
<1> QED BY <1>1, DInvOwned, PTL

----------------------------------------------------------------------------
(* The replies *)

(* Enough descriptors for every client to be served at once.               *)
EnoughFds == Cardinality(Fds) >= 2 * Cardinality(PClients)

LEMMA Pairs == \A x, y : /\ <<"conn", x>> # <<"srv", y>>
                         /\ <<"srv", x>> = <<"srv", y>> => x = y
                         /\ <<"conn", x>> # Free /\ <<"srv", x>> # Free
BY DEF Free

(* A connection and the server of a thread for it take two descriptors of  *)
(* the client: one is left for a thread that has none for its server.      *)
LEMMA FdLeft ==
    ASSUME EnoughFds, DInv, NEW t \in PThreads, thr[t].pc = "connect"
    PROVE  FreeFds # {}
<1> SUFFICES ASSUME FreeFds = {} PROVE FALSE
  OBVIOUS
<1> DEFINE Roles == {"conn", "srv"} \X PClients
           E == Roles \ {<<"srv", thr[t].for>>}
           h == [f \in Fds |-> IF fds[f] \in Conns THEN fds[f] ELSE <<"srv", thr[fds[f][2]].for>>]
<1>1. Types /\ thr[t].clientfd = NoFd /\ NoFd \notin Fds /\ Born(t) /\ thr[t].for \in PClients
  <2>1. thr[t].pc \in Talking /\ thr[t].pc \notin Relaying
    BY DEF Talking, Relaying
  <2> QED BY <2>1, Fields, PeerIs DEF DInv, ThreadDescriptors
<1>2. \A f \in Fds : \/ \E c \in PClients : fds[f] = <<"conn", c>> /\ h[f] = <<"conn", c>>
                     \/ \E u \in PThreads : /\ fds[f] = <<"srv", u>> /\ h[f] = <<"srv", thr[u].for>>
                                            /\ u # t /\ Born(u) /\ thr[u].for \in PClients
  <2> SUFFICES ASSUME NEW f \in Fds
               PROVE  \/ \E c \in PClients : fds[f] = <<"conn", c>> /\ h[f] = <<"conn", c>>
                      \/ \E u \in PThreads : /\ fds[f] = <<"srv", u>> /\ h[f] = <<"srv", thr[u].for>>
                                             /\ u # t /\ Born(u) /\ thr[u].for \in PClients
    OBVIOUS
  <2>1. fds[f] \in Conns \/ fds[f] \in Srvs
    BY <1>1, Fields DEF FreeFds
  <2>2. CASE fds[f] \in Conns
    BY <2>2 DEF Conns
  <2>3. CASE fds[f] \in Srvs
    <3>1. PICK u \in PThreads : fds[f] = <<"srv", u>>
      BY <2>3 DEF Srvs
    <3>2. fds[f] \notin Conns /\ fds[f][2] = u
      BY <3>1 DEF Conns
    <3>3. h[f] = <<"srv", thr[u].for>>
      BY <3>2
    <3>4. thr[u].clientfd = f
      BY <3>1 DEF DInv, Owned
    <3>5. u # t /\ thr[u].pc \in Relaying
      BY <1>1, <3>4 DEF DInv, ThreadDescriptors
    <3>6. Born(u)
      BY <3>5 DEF Born, Relaying
    <3> QED BY <3>1, <3>3, <3>5, <3>6 DEF DInv, ClientsConnected, Connected
  <2> QED BY <2>1, <2>2, <2>3
<1>3. \A f \in Fds : h[f] \in E
  <2> SUFFICES ASSUME NEW f \in Fds PROVE h[f] \in E
    OBVIOUS
  <2>1. CASE \E c \in PClients : fds[f] = <<"conn", c>> /\ h[f] = <<"conn", c>>
    <3> HIDE DEF h
    <3> QED BY <2>1
  <2>2. CASE \E u \in PThreads : /\ h[f] = <<"srv", thr[u].for>> /\ u # t /\ Born(u)
                                 /\ thr[u].for \in PClients
    <3>1. PICK u \in PThreads : /\ h[f] = <<"srv", thr[u].for>> /\ u # t /\ Born(u)
                                /\ thr[u].for \in PClients
      BY <2>2
    <3>2. thr[u].for # thr[t].for
      BY <1>1, <3>1 DEF DInv, OneThread
    <3> HIDE DEF h
    <3> QED BY <3>1, <3>2
  <2> HIDE DEF h, E
  <2> QED BY <1>2, <2>1, <2>2
<1> HIDE DEF h
<1>4. ASSUME NEW f \in Fds, NEW g \in Fds, h[f] = h[g] PROVE f = g
  <2>1. fds[f] = fds[g] /\ fds[f] # Free
    <3>1. CASE \E c \in PClients : fds[f] = <<"conn", c>> /\ h[f] = <<"conn", c>>
      <4>1. PICK c \in PClients : fds[f] = <<"conn", c>> /\ h[f] = <<"conn", c>>
        BY <3>1
      <4>2. \A u : h[g] # <<"srv", thr[u].for>>
        BY <1>4, <4>1, Pairs
      <4>3. fds[g] = h[g]
        BY <1>2, <4>2
      <4> QED BY <1>4, <4>1, <4>3, Pairs
    <3>2. CASE \E u \in PThreads : /\ fds[f] = <<"srv", u>> /\ h[f] = <<"srv", thr[u].for>>
                                   /\ Born(u)
      <4>1. PICK u \in PThreads : /\ fds[f] = <<"srv", u>> /\ h[f] = <<"srv", thr[u].for>>
                                  /\ Born(u)
        BY <3>2
      <4>2. PICK v \in PThreads : /\ fds[g] = <<"srv", v>> /\ h[g] = <<"srv", thr[v].for>>
                                  /\ Born(v)
        <5>1. \A c : h[g] # <<"conn", c>>
          BY <1>4, <4>1, Pairs
        <5> QED BY <1>2, <5>1
      <4>3. thr[u].for = thr[v].for
        <5>1. <<"srv", thr[u].for>> = <<"srv", thr[v].for>>
          BY <1>4, <4>1, <4>2
        <5> QED BY <5>1, Pairs
      <4>4. u = v
        BY <4>1, <4>2, <4>3 DEF DInv, OneThread
      <4> QED BY <4>1, <4>2, <4>4, Pairs
    <3> QED BY <1>2, <3>1, <3>2
  <2> QED BY <2>1 DEF DInv, OneDescriptor
<1>5. /\ IsFiniteSet(E) /\ Cardinality(E) = 2 * Cardinality(PClients) - 1
      /\ Cardinality(PClients) \in Nat
  <2>1. IsFiniteSet({"conn", "srv"}) /\ Cardinality({"conn", "srv"}) = 2
    <3>1. {"conn", "srv"} = {"conn"} \cup {"srv"} /\ "srv" \notin {"conn"}
      OBVIOUS
    <3>2. IsFiniteSet({"conn"}) /\ Cardinality({"conn"}) = 1
      BY FS_Singleton
    <3>3. /\ IsFiniteSet({"conn"} \cup {"srv"})
          /\ Cardinality({"conn"} \cup {"srv"}) = Cardinality({"conn"}) + 1
      BY <3>1, <3>2, FS_AddElement
    <3> QED BY <3>1, <3>2, <3>3
  <2>2. IsFiniteSet(Roles) /\ Cardinality(Roles) = 2 * Cardinality(PClients)
    BY <2>1, FS_Product, ProxyAssumption
  <2>3. <<"srv", thr[t].for>> \in Roles
    BY <1>1
  <2> HIDE DEF Roles
  <2> QED BY <2>2, <2>3, FS_RemoveElement, FS_CardinalityType, ProxyAssumption
<1>6. IsFiniteSet(Fds)
  BY ProxyAssumption
<1> HIDE DEF E
<1>7. /\ Cardinality(Fds) <= Cardinality(E)
      /\ Cardinality(Fds) \in Nat /\ Cardinality(E) \in Nat
  BY <1>3, <1>4, <1>5, <1>6, Injects
<1> QED BY <1>5, <1>7 DEF EnoughFds

LEMMA RepliesInit == PInit => Replies
BY DEF PInit, Replies, Unserved, Born

(* A step of thread t for its client disturbs no other.                    *)
LEMMA OthersServed ==
    ASSUME DInv, Replies, NEW t \in PThreads, NEW d \in PClients, Born(t), thr[t].for = d,
           \A u \in PThreads : u # t => thr'[u] = thr[u],
           thr'[t].pc # "unborn", thr'[t].for = d,
           \A c \in PClients : c # d => cl'[c] = cl[c],
           faults \subseteq faults',
           ServedBy(t, d)'
    PROVE  Replies'
<1>1. \A u \in PThreads : (Born(u)' <=> Born(u)) /\ thr'[u].for = thr[u].for
  BY DEF Born
<1>2. Unserved'
  BY <1>1 DEF Replies, Unserved
<1>3. ASSUME NEW u \in PThreads, NEW c \in PClients, Born(u)', thr'[u].for = c
      PROVE  ServedBy(u, c)'
  <2>1. Born(u) /\ thr[u].for = c
    BY <1>1, <1>3
  <2>2. CASE u = t
    BY <2>1, <2>2
  <2>3. CASE u # t
    <3>1. c # d
      BY <2>1, <2>3 DEF DInv, OneThread
    <3>2. ServedBy(u, c) /\ thr'[u] = thr[u] /\ cl'[c] = cl[c]
      BY <2>1, <2>3, <3>1 DEF Replies
    <3>3. Asked(c)' => Asked(c)
      BY <3>2 DEF Asked
    <3> QED BY <3>2, <3>3 DEF ServedBy
  <2> QED BY <2>2, <2>3
<1> QED BY <1>2, <1>3 DEF Replies

(* Steps of the clients and of main, which give no client anything.        *)
LEMMA NothingGiven ==
    ASSUME Replies, thr' = thr, faults \subseteq faults',
           \A c \in PClients : cl'[c].got = cl[c].got /\ cl'[c].eof = cl[c].eof,
           \A t \in PThreads, c \in PClients : Born(t) /\ thr[t].for = c =>
             (Asked(c)' => Asked(c)) /\ cl'[c].uri = cl[c].uri
    PROVE  Replies'
<1>1. Unserved'
  BY DEF Replies, Unserved, Born
<1>2. ASSUME NEW t \in PThreads, NEW c \in PClients, Born(t), thr[t].for = c
      PROVE  ServedBy(t, c)'
  BY <1>2 DEF Replies, ServedBy
<1> QED BY <1>1, <1>2 DEF Replies, Born

(* What a client may be given for a request.                               *)
LEMMA Parsed ==
    ASSUME NEW u \in AnyUri
    PROVE  IF Misparsed(u) THEN Expected(u) \in {<< >>, Relayed(u.host, <<DefaultPath(u.path), "none">>)}
           ELSE Expected(u) = IF Listens(u.host, "80") THEN Relayed(u.host, AskedFile(u)) ELSE << >>
<1>1. u.port \in {"none", "80", "8080"}
  <2>1. CASE u \in {NoUri, Garbage}
    BY <2>1 DEF NoUri, Garbage
  <2>2. CASE u \in UNION {Uris[c] : c \in PClients}
    BY <2>2, ProxyAssumption
  <2> QED BY <2>1, <2>2 DEF AnyUri
<1>2. parse_request(u).host = u.host
  BY DEF parse_request
<1>3. Expected(u) = IF Answered(u) THEN Relayed(u.host, parse_request(u).file) ELSE << >>
  BY <1>2 DEF Expected, Lines, Relayed
<1>4. ASSUME u.port # "none", u.path # "none"
      PROVE  ~ Answered(u)
  BY <1>4 DEF Answered, parse_request, Listens
<1>5. CASE u.port = "none"
  <2>1. parse_request(u).file = <<DefaultPath(u.path), "none">>
    BY <1>5 DEF parse_request
  <2>2. u.tail = "none" => (Answered(u) <=> Listens(u.host, "80"))
    BY <1>5 DEF Answered, parse_request
  <2> QED BY <1>3, <1>5, <2>1, <2>2 DEF Misparsed, AskedFile
<1>6. CASE u.port # "none" /\ u.path # "none"
  BY <1>3, <1>4, <1>6 DEF Misparsed
<1>7. CASE u.port # "none" /\ u.path = "none"
  <2>1. parse_request(u).file = <<"/", "none">> /\ DefaultPath(u.path) = "/"
    BY <1>7 DEF parse_request, DefaultPath
  <2>2. Answered(u) <=> Listens(u.host, "80")
    BY <1>1, <1>7 DEF Answered, parse_request, Listens
  <2> QED BY <1>3, <1>7, <2>1, <2>2 DEF Misparsed, AskedFile
<1> QED BY <1>5, <1>6, <1>7

LEMMA AppendOne == ASSUME NEW x, NEW y PROVE Append(<<x>>, y) = <<x, y>>
<1> DEFINE S == {x, y}
<1>1. <<x>> \in Seq(S) /\ <<x, y>> \in Seq(S) /\ Append(<<x>>, y) \in Seq(S)
  OBVIOUS
<1>2. Len(Append(<<x>>, y)) = 2 /\ Append(<<x>>, y)[1] = x /\ Append(<<x>>, y)[2] = y
  BY <1>1, AppendProperties
<1>3. Len(<<x, y>>) = 2 /\ \A i \in 1 .. 2 : Append(<<x>>, y)[i] = <<x, y>>[i]
  BY <1>2
<1> QED BY <1>1, <1>2, <1>3, SeqEqual

(* A line on its way: what has been sent and what is left stay the reply.  *)
LEMMA LineSent ==
    ASSUME NEW u, NEW sent, NEW rest, Underway(u, sent, rest), rest # Never
    PROVE  /\ rest = << >> => sent = Expected(u)
           /\ rest # << >> => Underway(u, Append(sent, Forward(Head(rest))), Tail(rest))
<1> DEFINE a == Lines(u)[1]
           b == Lines(u)[2]
<1>1. Answered(u) /\ parse_request(u).host # "slow"
  BY DEF Underway
<1>2. Lines(u) = <<a, b>>
  BY <1>1 DEF Lines, Reply
<1>3. Expected(u) = <<Forward(a), Forward(b)>>
  BY <1>1, <1>2 DEF Expected
<1>4. \/ sent = << >> /\ rest = <<a, b>>
      \/ sent = <<Forward(a)>> /\ rest = <<b>>
      \/ sent = <<Forward(a), Forward(b)>> /\ rest = << >>
  BY <1>1, <1>2 DEF Underway
<1> HIDE DEF a, b
<1>5. ASSUME sent = << >>, rest = <<a, b>>
      PROVE  Append(sent, Forward(Head(rest))) = <<Forward(a)>> /\ Tail(rest) = <<b>>
  BY <1>5
<1>6. ASSUME sent = <<Forward(a)>>, rest = <<b>>
      PROVE  Append(sent, Forward(Head(rest))) = <<Forward(a), Forward(b)>> /\ Tail(rest) = << >>
  <2>1. Head(rest) = b
    BY <1>6
  <2>2. Tail(rest) = << >>
    BY <1>6
  <2> QED BY <1>6, <2>1, <2>2, AppendOne
<1>7. rest # << >> => Underway(u, Append(sent, Forward(Head(rest))), Tail(rest))
  BY <1>1, <1>4, <1>5, <1>6 DEF Underway, a, b
<1>8. rest = << >> => sent = Expected(u)
  BY <1>3, <1>4
<1> QED BY <1>7, <1>8

LEMMA ClientsReplies ==
    ASSUME DInv, Replies, NEW c \in PClients,
           client_connect(c) \/ client_reset(c) \/ wrap_accept(c)
    PROVE  Replies'
<1>1. thr' = thr /\ faults' = faults /\ cl[c].st \in {"idle", "queued", "open"}
  BY DEF client_connect, client_reset, wrap_accept
<1>2. Types
  BY DEF DInv
<1>3. \A d \in PClients : d # c => cl'[d] = cl[d]
  BY <1>2 DEF client_connect, client_reset, wrap_accept, Types
<1>4. cl'[c].got = cl[c].got /\ cl'[c].eof = cl[c].eof
  BY <1>2 DEF client_connect, client_reset, wrap_accept, Types, ClientRecord
<1>5. \A d \in PClients : cl'[d].got = cl[d].got /\ cl'[d].eof = cl[d].eof
  BY <1>3, <1>4
<1>6. ASSUME NEW t \in PThreads, NEW d \in PClients, Born(t), thr[t].for = d
      PROVE  (Asked(d)' => Asked(d)) /\ cl'[d].uri = cl[d].uri
  <2>1. CASE d # c
    BY <1>1, <1>3, <2>1 DEF Asked
  <2>2. CASE d = c
    <3>1. cl[c].st \in {"open", "reset"}
      BY <1>6, <2>2 DEF DInv, ClientsConnected, Connected
    <3>2. client_reset(c)
      BY <3>1 DEF client_connect, wrap_accept
    <3>3. cl'[c].st = "reset" /\ cl'[c].uri = cl[c].uri
      BY <1>2, <3>2 DEF client_reset, Types, ClientRecord
    <3> QED BY <2>2, <3>3 DEF Asked
  <2> QED BY <2>1, <2>2
<1> QED BY <1>1, <1>5, <1>6, NothingGiven

(* The client of a new thread has nothing yet.                             *)
LEMMA CreateReplies == ASSUME DInv, Replies, wrap_pthread_create PROVE Replies'
<1>1. pmain = "create" /\ cl' = cl /\ faults \subseteq faults' /\ Types
  BY DEF wrap_pthread_create, Fault, DInv
<1>2. PICK c \in PClients : /\ fds[mainfd] = <<"conn", c>>
                            /\ \A t \in PThreads : Born(t) => thr[t].for # c
  BY <1>1 DEF DInv, MainDescriptor
<1>3. cl[c].got = << >> /\ ~ cl[c].eof
  BY <1>2 DEF Replies, Unserved
<1>4. CASE UNCHANGED thr
  BY <1>1, <1>4, NothingGiven DEF Asked
<1>5. ASSUME NEW t \in PThreads, thr[t].pc = "unborn",
             thr' = [thr EXCEPT ![t].pc = "start", ![t].arg = mainfd, ![t].for = c]
      PROVE  Replies'
  <2>1. /\ thr'[t].pc = "start" /\ thr'[t].for = c
        /\ \A u \in PThreads : u # t => thr'[u] = thr[u]
    BY <1>1, <1>5, Fields DEF Types, ThreadRecord
  <2>2. Unserved'
    <3> SUFFICES ASSUME NEW d \in PClients, \A u \in PThreads : Born(u)' => thr'[u].for # d
                 PROVE  cl[d].got = << >> /\ ~ cl[d].eof
      BY <1>1 DEF Unserved
    <3>1. \A u \in PThreads : Born(u) => thr[u].for # d
      BY <1>5, <2>1 DEF Born
    <3> QED BY <3>1 DEF Replies, Unserved
  <2>3. ASSUME NEW u \in PThreads, NEW d \in PClients, Born(u)', thr'[u].for = d
        PROVE  ServedBy(u, d)'
    <3>1. CASE u = t
      BY <1>1, <1>3, <2>1, <2>3, <3>1 DEF ServedBy
    <3>2. CASE u # t
      <4>1. thr'[u] = thr[u] /\ ServedBy(u, d)
        BY <2>1, <2>3, <3>2 DEF Replies, Born
      <4>2. Asked(d)' => Asked(d)
        BY <1>1 DEF Asked
      <4> QED BY <1>1, <4>1, <4>2 DEF ServedBy
    <3> QED BY <3>1, <3>2
  <2> QED BY <2>2, <2>3 DEF Replies
<1>6. CASE \E t \in {Min({u \in PThreads : thr[u].pc = "unborn"})} :
             /\ thr' = [thr EXCEPT ![t].pc = "start", ![t].arg = mainfd, ![t].for = fds[mainfd][2]]
             /\ UNCHANGED <<faults, leaked>>
  <2>1. PICK t \in PThreads : /\ t = Min({u \in PThreads : thr[u].pc = "unborn"})
                              /\ thr[t].pc = "unborn"
    BY <1>1, ThreadLeft
  <2>2. fds[mainfd][2] = c
    BY <1>2
  <2>3. thr' = [thr EXCEPT ![t].pc = "start", ![t].arg = mainfd, ![t].for = c]
    BY <1>6, <2>1, <2>2
  <2> QED BY <1>5, <2>1, <2>3
<1> QED BY <1>4, <1>6 DEF wrap_pthread_create

(* The steps of the threads.                                               *)
LEMMA StartReplies == ASSUME DInv, Replies, NEW t \in PThreads, thread_start(t) PROVE Replies'
<1>1. /\ thr[t].pc = "start" /\ cl' = cl /\ faults' = faults
      /\ thr' = [thr EXCEPT ![t].pc = "request", ![t].connfd = thr[t].arg]
  BY DEF thread_start
<1>2. /\ thr'[t].pc = "request" /\ thr'[t].for = thr[t].for
      /\ \A u \in PThreads : u # t => thr'[u] = thr[u]
  BY <1>1, Fields DEF DInv, Types, ThreadRecord
<1>3. Born(t) /\ thr[t].for \in PClients
  BY <1>1 DEF Born, DInv, ClientsConnected, Connected
<1>4. PICK d \in PClients : thr[t].for = d
  BY <1>3
<1>5. ServedBy(t, d)
  BY <1>3, <1>4 DEF Replies
<1>6. ServedBy(t, d)'
  BY <1>1, <1>2, <1>5 DEF ServedBy
<1> QED BY <1>1, <1>2, <1>3, <1>4, <1>6, OthersServed

LEMMA RequestReplies ==
    ASSUME DInv, Replies, NEW t \in PThreads, get_request_from_client(t)
    PROVE  Replies'
<1>1. thr[t].pc = "request" /\ cl' = cl /\ faults' = faults
  BY DEF get_request_from_client
<1>2. thr[t].pc \in Talking /\ Types
  BY <1>1 DEF Talking, DInv
<1>3. PICK d \in PClients : thr[t].for = d /\ Peer(t) = cl[d] /\ Born(t)
  BY <1>2, PeerIs
<1>4. ServedBy(t, d)
  BY <1>3 DEF Replies
<1>5. CASE cl[d].st = "reset" /\ thr' = [thr EXCEPT ![t].pc = "close"]
  <2>1. /\ thr'[t].pc = "close" /\ thr'[t].for = d
        /\ \A u \in PThreads : u # t => thr'[u] = thr[u]
    BY <1>2, <1>3, <1>5, Fields DEF Types, ThreadRecord
  <2>2. ServedBy(t, d)'
    BY <1>1, <1>4, <1>5, <2>1 DEF ServedBy, Asked
  <2> QED BY <1>1, <1>3, <2>1, <2>2, OthersServed
<1>6. ASSUME NEW r, thr' = [thr EXCEPT ![t].pc = "connect", ![t].req = r],
             cl[d].uri # NoUri => r = cl[d].uri
      PROVE  Replies'
  <2>1. /\ thr'[t].pc = "connect" /\ thr'[t].for = d /\ thr'[t].req = r
        /\ \A u \in PThreads : u # t => thr'[u] = thr[u]
    BY <1>2, <1>3, <1>6, Fields DEF Types, ThreadRecord
  <2>2. ServedBy(t, d)'
    BY <1>1, <1>4, <1>6, <2>1 DEF ServedBy, Asked
  <2> QED BY <1>1, <1>3, <2>1, <2>2, OthersServed
<1> QED BY <1>3, <1>5, <1>6 DEF get_request_from_client

(* The server is reached just when the request is answered.                *)
LEMMA ConnectReplies ==
    ASSUME EnoughFds, DInv, Replies, NEW t \in PThreads, connect_to_server(t)
    PROVE  Replies'
<1> DEFINE p == parse_request(thr[t].req)
<1>1. thr[t].pc = "connect" /\ cl' = cl /\ faults' = faults
  BY DEF connect_to_server
<1>2. thr[t].pc \in Talking /\ Types /\ thr[t].req \in AnyUri
  BY <1>1, Fields DEF Talking, DInv
<1>3. PICK d \in PClients : thr[t].for = d /\ Born(t)
  BY <1>2, PeerIs
<1>4. ServedBy(t, d)
  BY <1>3 DEF Replies
<1>5. FreeFds # {}
  BY <1>1, FdLeft
<1>6. /\ cl[d].got = << >> /\ ~ cl[d].eof
      /\ Asked(d) => thr[t].req = cl[d].uri
  BY <1>1, <1>2, <1>4, Fields DEF ServedBy
<1>7. CASE Listens(p.host, p.port)
  <2> DEFINE fd == Min(FreeFds)
  <2>1. thr' = [thr EXCEPT ![t].pc = "relay", ![t].clientfd = fd, ![t].left = Reply(p.host, p.file)]
    BY <1>5, <1>7 DEF connect_to_server
  <2> HIDE DEF fd
  <2>2. /\ thr'[t].pc = "relay" /\ thr'[t].for = d /\ thr'[t].left = Reply(p.host, p.file)
        /\ \A u \in PThreads : u # t => thr'[u] = thr[u]
    BY <1>2, <1>3, <2>1, Fields DEF Types, ThreadRecord
  <2>3. Answered(thr[t].req) /\ thr'[t].left = Lines(thr[t].req)
    BY <1>7, <2>2 DEF Answered, Lines
  <2>4. Underway(thr[t].req, << >>, Lines(thr[t].req))
    BY <2>3 DEF Underway, Lines, Reply
  <2>5. ServedBy(t, d)'
    BY <1>1, <1>6, <2>2, <2>3, <2>4 DEF ServedBy, Asked
  <2> QED BY <1>1, <1>3, <2>2, <2>5, OthersServed
<1>8. CASE ~ Listens(p.host, p.port)
  <2>1. thr' = [thr EXCEPT ![t].pc = "close"]
    BY <1>8 DEF connect_to_server
  <2>2. /\ thr'[t].pc = "close" /\ thr'[t].for = d
        /\ \A u \in PThreads : u # t => thr'[u] = thr[u]
    BY <1>2, <1>3, <2>1, Fields DEF Types, ThreadRecord
  <2>3. Expected(thr[t].req) = << >>
    BY <1>8 DEF Expected, Answered
  <2>4. ServedBy(t, d)'
    BY <1>1, <1>6, <2>2, <2>3 DEF ServedBy, Asked
  <2> QED BY <1>1, <1>3, <2>2, <2>4, OthersServed
<1> QED BY <1>7, <1>8

LEMMA RelayReplies == ASSUME DInv, Replies, NEW t \in PThreads, relay(t) PROVE Replies'
<1>1. thr[t].pc = "relay" /\ thr[t].left # Never /\ faults' = faults
  BY DEF relay
<1>2. thr[t].pc \in Talking /\ Types
  BY <1>1 DEF Talking, DInv
<1>3. PICK d \in PClients : /\ thr[t].for = d /\ Peer(t) = cl[d] /\ Born(t)
                            /\ fds[thr[t].connfd][2] = d
  BY <1>2, PeerIs
<1>4. ServedBy(t, d) /\ ~ cl[d].eof
  BY <1>1, <1>2, <1>3, Fields DEF Replies, ServedBy
<1>5. Asked(d) => Underway(cl[d].uri, cl[d].got, thr[t].left)
  BY <1>1, <1>4 DEF ServedBy
<1>6. CASE /\ thr[t].left = << >> \/ cl[d].st = "reset"
           /\ thr' = [thr EXCEPT ![t].pc = "close server"] /\ cl' = cl
  <2>1. /\ thr'[t].pc = "close server" /\ thr'[t].for = d
        /\ \A u \in PThreads : u # t => thr'[u] = thr[u]
    BY <1>2, <1>3, <1>6, Fields DEF Types, ThreadRecord
  <2>2. Asked(d) => cl[d].got = Expected(cl[d].uri)
    <3>1. Asked(d) => thr[t].left = << >>
      BY <1>6 DEF Asked
    <3> QED BY <1>1, <1>5, <3>1, LineSent
  <2>3. ServedBy(t, d)'
    BY <1>1, <1>4, <1>6, <2>1, <2>2 DEF ServedBy, Asked
  <2> QED BY <1>1, <1>3, <1>6, <2>1, <2>3, OthersServed
<1>7. CASE /\ thr[t].left # << >> /\ thr' = [thr EXCEPT ![t].left = Tail(@)]
           /\ cl' = [cl EXCEPT ![fds[thr[t].connfd][2]].got = Append(@, Forward(Head(thr[t].left)))]
  <2> DEFINE line == Forward(Head(thr[t].left))
  <2>1. cl' = [cl EXCEPT ![d].got = Append(@, line)]
    BY <1>3, <1>7
  <2> HIDE DEF line
  <2>2. /\ thr'[t].pc = "relay" /\ thr'[t].for = d /\ thr'[t].left = Tail(thr[t].left)
        /\ \A u \in PThreads : u # t => thr'[u] = thr[u]
    BY <1>1, <1>2, <1>3, <1>7, Fields DEF Types, ThreadRecord
  <2>3. /\ cl'[d].got = Append(cl[d].got, line) /\ cl'[d].uri = cl[d].uri /\ cl'[d].st = cl[d].st
        /\ cl'[d].eof = cl[d].eof /\ \A c \in PClients : c # d => cl'[c] = cl[c]
    BY <1>2, <2>1 DEF Types, ClientRecord
  <2>4. Asked(d) => Underway(cl[d].uri, Append(cl[d].got, line), Tail(thr[t].left))
    BY <1>1, <1>5, <1>7, LineSent DEF line
  <2>5. ServedBy(t, d)'
    BY <1>1, <1>4, <2>2, <2>3, <2>4 DEF ServedBy, Asked
  <2> QED BY <1>1, <1>3, <2>2, <2>3, <2>5, OthersServed
<1> QED BY <1>3, <1>6, <1>7 DEF relay

LEMMA BreakReplies == ASSUME DInv, Replies, NEW t \in PThreads, server_breaks(t) PROVE Replies'
<1>1. /\ thr[t].pc = "relay" /\ cl' = cl /\ faults' = faults \cup {<<"server", thr[t].for>>}
      /\ thr' = [thr EXCEPT ![t].pc = "close server"]
  BY DEF server_breaks, Fault
<1>2. thr[t].pc \in Talking /\ Types
  BY <1>1 DEF Talking, DInv
<1>3. PICK d \in PClients : thr[t].for = d /\ Born(t)
  BY <1>2, PeerIs
<1>4. /\ thr'[t].pc = "close server" /\ thr'[t].for = d
      /\ \A u \in PThreads : u # t => thr'[u] = thr[u]
  BY <1>1, <1>2, <1>3, Fields DEF Types, ThreadRecord
<1>5. ServedBy(t, d)
  BY <1>3 DEF Replies
<1>6. ServedBy(t, d)'
  BY <1>1, <1>3, <1>4, <1>5 DEF ServedBy, Asked
<1> QED BY <1>1, <1>3, <1>4, <1>6, OthersServed

LEMMA CloseReplies == ASSUME DInv, Replies, NEW t \in PThreads, wrap_close(t) PROVE Replies'
<1>1. /\ thr[t].pc \in {"close server", "close"} /\ faults \subseteq faults'
  BY DEF wrap_close, Fault
<1>2. thr[t].pc \in Talking /\ Types
  BY <1>1 DEF Talking, DInv
<1>3. PICK d \in PClients : thr[t].for = d /\ Born(t) /\ fds[thr[t].connfd][2] = d
  BY <1>2, PeerIs
<1>4. ServedBy(t, d)
  BY <1>3 DEF Replies
<1>5. CASE thr[t].pc = "close server" /\ cl' = cl
           /\ thr' = [thr EXCEPT ![t].pc = "close", ![t].clientfd = NoFd]
  <2>1. /\ thr'[t].pc = "close" /\ thr'[t].for = d
        /\ \A u \in PThreads : u # t => thr'[u] = thr[u]
    BY <1>2, <1>3, <1>5, Fields DEF Types, ThreadRecord
  <2>2. ServedBy(t, d)'
    BY <1>1, <1>4, <1>5, <2>1 DEF ServedBy, Asked
  <2> QED BY <1>1, <1>3, <1>5, <2>1, <2>2, OthersServed
<1>6. CASE /\ thr[t].pc = "close"
           /\ cl' = [cl EXCEPT ![fds[thr[t].connfd][2]].eof = TRUE]
           /\ thr' = [thr EXCEPT ![t].pc = "ended", ![t].connfd = NoFd]
  <2>1. /\ thr'[t].pc = "ended" /\ thr'[t].for = d
        /\ \A u \in PThreads : u # t => thr'[u] = thr[u]
    BY <1>2, <1>3, <1>6, Fields DEF Types, ThreadRecord
  <2>2. cl' = [cl EXCEPT ![d].eof = TRUE]
    BY <1>3, <1>6
  <2>3. /\ cl'[d].got = cl[d].got /\ cl'[d].uri = cl[d].uri /\ cl'[d].st = cl[d].st
        /\ \A c \in PClients : c # d => cl'[c] = cl[c]
    BY <1>2, <2>2 DEF Types, ClientRecord
  <2>4. ServedBy(t, d)'
    BY <1>1, <1>4, <1>6, <2>1, <2>3 DEF ServedBy, Asked
  <2> QED BY <1>1, <1>3, <2>1, <2>3, <2>4, OthersServed
<1>7. CASE UNCHANGED <<fds, thr, cl>>
  BY <1>1, <1>7, NothingGiven DEF Asked
<1> QED BY <1>5, <1>6, <1>7 DEF wrap_close

LEMMA RepliesStep == EnoughFds /\ DInv /\ Replies /\ [PNext]_pvars => Replies'
<1> SUFFICES ASSUME EnoughFds, DInv, Replies, [PNext]_pvars PROVE Replies'
  OBVIOUS
<1>1. ASSUME NEW c \in PClients, client_connect(c) \/ client_reset(c) \/ wrap_accept(c)
      PROVE  Replies'
  BY <1>1, ClientsReplies
<1>2. CASE wrap_pthread_create
  BY <1>2, CreateReplies
<1>3. ASSUME NEW t \in PThreads, thread_start(t) PROVE Replies'
  BY <1>3, StartReplies
<1>4. ASSUME NEW t \in PThreads, get_request_from_client(t) PROVE Replies'
  BY <1>4, RequestReplies
<1>5. ASSUME NEW t \in PThreads, connect_to_server(t) PROVE Replies'
  BY <1>5, ConnectReplies
<1>6. ASSUME NEW t \in PThreads, relay(t) PROVE Replies'
  BY <1>6, RelayReplies
<1>7. ASSUME NEW t \in PThreads, server_breaks(t) PROVE Replies'
  BY <1>7, BreakReplies
<1>8. ASSUME NEW t \in PThreads, wrap_close(t) PROVE Replies'
  BY <1>8, CloseReplies
<1>9. CASE UNCHANGED pvars
  <2>1. thr' = thr /\ cl' = cl /\ faults' = faults
    BY <1>9 DEF pvars
  <2> QED BY <2>1, NothingGiven DEF Asked
<1> QED BY <1>1, <1>2, <1>3, <1>4, <1>5, <1>6, <1>7, <1>8, <1>9 DEF PNext, PMainStep, PThreadStep

LEMMA RepliesRelayed == DInv /\ Replies => RelayedReply
<1> SUFFICES ASSUME DInv, Replies, NEW c \in PClients, Fetches(c)
             PROVE  LET u == cl[c].uri
                    IN  IF Misparsed(u) THEN cl[c].got \in {<< >>, Relayed(u.host, <<DefaultPath(u.path), "none">>)}
                        ELSE cl[c].got = IF Listens(u.host, "80") THEN Relayed(u.host, AskedFile(u)) ELSE << >>
  BY DEF RelayedReply
<1>1. cl[c].eof /\ Asked(c)
  BY DEF Fetches, Asked
<1>2. PICK t \in PThreads : Born(t) /\ thr[t].for = c
  BY <1>1 DEF Replies, Unserved
<1>3. cl[c].got = Expected(cl[c].uri)
  BY <1>1, <1>2 DEF Replies, ServedBy
<1>4. cl[c].uri \in AnyUri
  BY DEF DInv, Types, ClientRecord
<1> QED BY <1>3, <1>4, Parsed

(* Where descriptors for all clients at once exist, each thread works on   *)
(* its own descriptors, and each client that asked, and whose server did   *)
(* not break off, has when its connection ends the whole reply to its own  *)
(* request, or, of one with a colon that parse_request mistakes, nothing   *)
(* or the reply to the part before the colon (handle_client,               *)
(* request_and_reply and parse_request in proxy.c).  With fewer descriptors the second half is false: connect     *)
(* fails, and the proxy closes the connection without a word.              *)
THEOREM ProxySafeAlways == ASSUME EnoughFds PROVE PSpec => []ProxySafe
<1>1. PInit => DInv /\ Replies
  BY DInvInit, RepliesInit
<1>2. DInv /\ Replies /\ [PNext]_pvars => DInv' /\ Replies'
  BY DInvStep, RepliesStep
<1>3. DInv /\ Replies => ProxySafe
  BY DInvOwned, RepliesRelayed DEF ProxySafe
<1> QED BY <1>1, <1>2, <1>3, PTL DEF PSpec

----------------------------------------------------------------------------
(* The Tiny web server *)

TinySpec == TinyInit /\ [][TinyNext]_tinyvars

(* What the server has made of the request it serves, if the client is     *)
(* still there, has sent all of it, and no file was removed.               *)
TErr(n) == <<[NoReply EXCEPT !.status = n, !.type = "text/html"], [NoReply EXCEPT !.status = n, !.body = "message"]>>
Decided == {"404", "403", "static", "dynamic"}
Unspoiled(c) == removed = {} /\ tc[c].st = "open" /\ tc[c].req.sends = "all"
Head200(r) == [NoReply EXCEPT !.status = "200", !.type = get_filetype(parse_uri(r).file)]
(* The request r of the client served, and what it got so far, when the    *)
(* server is at pc.                                                        *)
Made(pc, r, g) ==
    /\ pc \in {"line", "headers", "find", "501"} \cup Decided => g = << >>
    /\ pc \in {"headers", "find", "map", "body", "child"} \cup Decided => r.method = "GET"
    /\ pc = "501" => r.method # "GET"
    /\ pc \in Decided => Decide(parse_uri(r)) = pc
    /\ pc = "error body" => \E n \in {"501", "404", "403"} :
           /\ reply = [NoReply EXCEPT !.status = n] /\ Promised(r) = TErr(n)
           /\ g = <<[NoReply EXCEPT !.status = n, !.type = "text/html"]>>
    /\ pc \in {"map", "body"} => Decide(parse_uri(r)) = "static" /\ g = <<Head200(r)>>
    /\ pc = "child" => Decide(parse_uri(r)) = "dynamic" /\ g = <<[NoReply EXCEPT !.status = "200"]>>
    /\ pc = "close" => g = Promised(r)

(* The clients are records.                                                *)
TShaped == /\ tc = [c \in TClients |-> tc[c]]
           /\ \A c \in TClients : tc[c] = [st |-> tc[c].st, req |-> tc[c].req, got |-> tc[c].got, eof |-> tc[c].eof]
(* The one client that is accepted and not at its end is the one served,   *)
(* and the others have nothing yet or all that was promised.               *)
Active(c) == tmain # "accept" /\ serving = c
TClient(c) ==
    /\ tc[c].st \in {"idle", "queued", "open", "reset"} /\ tc[c].eof \in BOOLEAN
    /\ tc[c].st \in {"idle", "queued"} => tc[c].got = << >> /\ ~tc[c].eof
    /\ Active(c) <=> tc[c].st \in {"open", "reset"} /\ ~tc[c].eof
    /\ tc[c].eof /\ Unspoiled(c) => tc[c].got = Promised(tc[c].req)
TClientsInv == \A c \in TClients : TClient(c)
(* What the server at pc knows of the client it serves.                    *)
ServesAt(pc) ==
    /\ pc \in {"exit", "killed"} => Gone \/ File \in removed \/ Files[File].empty
    /\ pc = "spin" => Me.req.sends \in {"cut", "cut line"}
    /\ pc = "headers" => Me.req.sends # "nothing"
    /\ pc \in {"static", "map", "body"} => File \in DOMAIN Files
    /\ Unspoiled(serving) => Made(pc, Me.req, Me.got)
Serves == serving \in TClients /\ ServesAt(tmain)
TServes == tmain # "accept" => Serves
TInv == TShaped /\ TClientsInv /\ TServes

----------------------------------------------------------------------------
(* What an assignment to a client leaves alone. *)

LEMMA StPut ==
    ASSUME TShaped, NEW c \in TClients, NEW v, tc' = [tc EXCEPT ![c].st = v]
    PROVE  /\ TShaped' /\ \A d \in TClients : d # c => tc'[d] = tc[d]
           /\ tc'[c].st = v /\ tc'[c].req = tc[c].req /\ tc'[c].got = tc[c].got /\ tc'[c].eof = tc[c].eof
<1>1. tc'[c] = [st |-> v, req |-> tc[c].req, got |-> tc[c].got, eof |-> tc[c].eof]
  BY DEF TShaped
<1>2. \A d \in TClients : d # c => tc'[d] = tc[d]
  BY DEF TShaped
<1>3. tc' = [d \in TClients |-> tc'[d]]
  BY DEF TShaped
<1> QED BY <1>1, <1>2, <1>3 DEF TShaped

LEMMA StReqPut ==
    ASSUME TShaped, NEW c \in TClients, NEW v, NEW r, tc' = [tc EXCEPT ![c].st = v, ![c].req = r]
    PROVE  /\ TShaped' /\ \A d \in TClients : d # c => tc'[d] = tc[d]
           /\ tc'[c].st = v /\ tc'[c].req = r /\ tc'[c].got = tc[c].got /\ tc'[c].eof = tc[c].eof
<1>1. tc'[c] = [st |-> v, req |-> r, got |-> tc[c].got, eof |-> tc[c].eof]
  <2>1. tc'[c] = [tc[c] EXCEPT !.st = v, !.req = r]
    BY DEF TShaped
  <2>2. tc[c] = [st |-> tc[c].st, req |-> tc[c].req, got |-> tc[c].got, eof |-> tc[c].eof]
    BY DEF TShaped
  <2> QED BY ONLY <2>1, <2>2
<1>2. \A d \in TClients : d # c => tc'[d] = tc[d]
  BY DEF TShaped
<1>3. tc' = [d \in TClients |-> tc'[d]]
  BY DEF TShaped
<1> QED BY <1>1, <1>2, <1>3 DEF TShaped

LEMMA GotPut ==
    ASSUME TShaped, NEW c \in TClients, NEW x, tc' = [tc EXCEPT ![c].got = Append(@, x)]
    PROVE  /\ TShaped' /\ \A d \in TClients : d # c => tc'[d] = tc[d]
           /\ tc'[c].st = tc[c].st /\ tc'[c].req = tc[c].req /\ tc'[c].eof = tc[c].eof
           /\ tc'[c].got = Append(tc[c].got, x)
<1>1. tc'[c] = [st |-> tc[c].st, req |-> tc[c].req, got |-> Append(tc[c].got, x), eof |-> tc[c].eof]
  <2>1. tc'[c] = [tc[c] EXCEPT !.got = Append(tc[c].got, x)]
    BY DEF TShaped
  <2>2. tc[c] = [st |-> tc[c].st, req |-> tc[c].req, got |-> tc[c].got, eof |-> tc[c].eof]
    BY DEF TShaped
  <2> QED BY ONLY <2>1, <2>2
<1>2. \A d \in TClients : d # c => tc'[d] = tc[d]
  BY DEF TShaped
<1>3. tc' = [d \in TClients |-> tc'[d]]
  BY DEF TShaped
<1> QED BY <1>1, <1>2, <1>3 DEF TShaped

LEMMA EofPut ==
    ASSUME TShaped, NEW c \in TClients, tc' = [tc EXCEPT ![c].eof = TRUE]
    PROVE  /\ TShaped' /\ \A d \in TClients : d # c => tc'[d] = tc[d]
           /\ tc'[c].st = tc[c].st /\ tc'[c].req = tc[c].req /\ tc'[c].got = tc[c].got /\ tc'[c].eof = TRUE
<1>1. tc'[c] = [st |-> tc[c].st, req |-> tc[c].req, got |-> tc[c].got, eof |-> TRUE]
  <2>1. tc'[c] = [tc[c] EXCEPT !.eof = TRUE]
    BY DEF TShaped
  <2>2. tc[c] = [st |-> tc[c].st, req |-> tc[c].req, got |-> tc[c].got, eof |-> tc[c].eof]
    BY DEF TShaped
  <2> QED BY ONLY <2>1, <2>2
<1>2. \A d \in TClients : d # c => tc'[d] = tc[d]
  BY DEF TShaped
<1>3. tc' = [d \in TClients |-> tc'[d]]
  BY DEF TShaped
<1> QED BY <1>1, <1>2, <1>3 DEF TShaped

(* What is promised, by the branch of doit that is taken. *)
LEMMA PromisedIs ==
    ASSUME NEW r, removed = {}
    PROVE  /\ r.method # "GET" => Promised(r) = TErr("501")
           /\ r.method = "GET" =>
                LET u == parse_uri(r)  IN
                /\ Decide(u) = "404" => Promised(r) = TErr("404")
                /\ Decide(u) = "403" => Promised(r) = TErr("403")
                /\ Decide(u) = "static" => Promised(r) = <<Head200(r), [NoReply EXCEPT !.body = u.file[1]]>>
                /\ Decide(u) = "dynamic" =>
                     Promised(r) = <<[NoReply EXCEPT !.status = "200"]>>
                                   \o (IF Files[u.file].runs /\ "&" \in Substrings[u.cgiargs]
                                       THEN <<[NoReply EXCEPT !.type = "text/html", !.body = u.cgiargs]>> ELSE << >>)
<1>1. CASE r.method # "GET"
  BY <1>1 DEF Promised, TErr
<1>2. CASE r.method = "GET"
  <2>1. PICK u : u = parse_uri(r)
    OBVIOUS
  <2>2. Exists(u.file) <=> u.file \in DOMAIN Files
    BY DEF Exists
  <2>3. ASSUME Decide(u) = "404" PROVE Promised(r) = TErr("404")
    <3>1. u.file \notin DOMAIN Files
      BY <2>2, <2>3 DEF Decide
    <3> QED BY <1>2, <2>1, <3>1 DEF Promised, TErr
  <2>4. ASSUME Decide(u) # "404" PROVE u.file \in DOMAIN Files
    BY <2>2, <2>4 DEF Decide
  <2>5. ASSUME Decide(u) = "403" PROVE Promised(r) = TErr("403")
    <3>1. /\ ~(u.static /\ Files[u.file].kind = "regular" /\ Files[u.file].read)
          /\ ~(~u.static /\ Files[u.file].kind = "regular" /\ Files[u.file].exec)
      BY <2>5, <2>2 DEF Decide
    <3> QED BY <1>2, <2>1, <2>4, <2>5, <3>1 DEF Promised, TErr
  <2>6. ASSUME Decide(u) = "static"
        PROVE  Promised(r) = <<Head200(r), [NoReply EXCEPT !.body = u.file[1]]>>
    <3>1. u.static /\ Files[u.file].kind = "regular" /\ Files[u.file].read
      BY <2>6 DEF Decide
    <3> QED BY <1>2, <2>1, <2>4, <2>6, <3>1 DEF Promised, Head200
  <2>7. ASSUME Decide(u) = "dynamic"
        PROVE  Promised(r) = <<[NoReply EXCEPT !.status = "200"]>>
                             \o (IF Files[u.file].runs /\ "&" \in Substrings[u.cgiargs]
                                 THEN <<[NoReply EXCEPT !.type = "text/html", !.body = u.cgiargs]>> ELSE << >>)
    <3>1. ~u.static /\ Files[u.file].kind = "regular" /\ Files[u.file].exec
      BY <2>7 DEF Decide
    <3> QED BY <1>2, <2>1, <2>4, <2>7, <3>1 DEF Promised
  <2> QED BY <1>2, <2>1, <2>3, <2>5, <2>6, <2>7
<1> QED BY <1>1, <1>2


LEMMA TInvInit == TinyInit => TInv
<1> SUFFICES ASSUME TinyInit PROVE TInv
  OBVIOUS
<1>1. \A c \in TClients : tc[c] = [st |-> "idle", req |-> NoReq, got |-> << >>, eof |-> FALSE]
  BY DEF TinyInit
<1>2. TShaped
  <2>1. tc = [c \in TClients |-> tc[c]]
    BY DEF TinyInit
  <2>2. ASSUME NEW c \in TClients
        PROVE  tc[c] = [st |-> tc[c].st, req |-> tc[c].req, got |-> tc[c].got, eof |-> tc[c].eof]
    BY <1>1
  <2> QED BY <2>1, <2>2 DEF TShaped
<1>3. ASSUME NEW c \in TClients PROVE TClient(c)
  <2>1. tc[c].st = "idle" /\ tc[c].got = << >> /\ tc[c].eof = FALSE
    BY <1>1
  <2>2. ~Active(c)
    BY DEF TinyInit, Active
  <2> QED BY <2>1, <2>2 DEF TClient
<1>4. tmain = "accept"
  BY DEF TinyInit
<1> QED BY <1>2, <1>3, <1>4 DEF TInv, TClientsInv, TServes

----------------------------------------------------------------------------
(* The steps of the clients, and of the files. *)

(* A step that leaves a client alone leaves what is known of it. *)
LEMMA TClientKept ==
    ASSUME NEW c, TClient(c), tc'[c] = tc[c], Active(c)' <=> Active(c), removed' = {} => removed = {}
    PROVE  TClient(c)'
BY DEF TClient, Unspoiled

LEMMA TinyConnectStep ==
    ASSUME TInv, NEW c \in TClients, TinyConnect(c)
    PROVE  TInv'
<1>1. PICK r : tc' = [tc EXCEPT ![c].st = "queued", ![c].req = r]
  BY DEF TinyConnect
<1>2. /\ tc[c].st = "idle" /\ tmain' = tmain /\ serving' = serving /\ reply' = reply /\ removed' = removed
      /\ TShaped /\ TClientsInv /\ TServes
  BY DEF TinyConnect, TInv
<1>3. /\ TShaped' /\ \A d \in TClients : d # c => tc'[d] = tc[d]
      /\ tc'[c].st = "queued" /\ tc'[c].req = r /\ tc'[c].got = tc[c].got /\ tc'[c].eof = tc[c].eof
  BY ONLY <1>1, <1>2, c \in TClients, StReqPut
<1>4. \A d : Active(d)' <=> Active(d)
  BY <1>2 DEF Active
<1>5. TClient(c) /\ ~Active(c)
  BY <1>2 DEF TClientsInv, TClient
<1>6. TClient(c)'
  BY <1>2, <1>3, <1>4, <1>5 DEF TClient
<1>7. TClientsInv'
  <2>1. ASSUME NEW d \in TClients, d # c PROVE TClient(d)'
    <3>1. TClient(d)
      BY <1>2 DEF TClientsInv
    <3> QED BY <3>1, <2>1, <1>2, <1>3, <1>4, TClientKept
  <2> QED BY <2>1, <1>6 DEF TClientsInv
<1>8. TServes'
  <2> SUFFICES ASSUME tmain # "accept" PROVE Serves'
    BY <1>2 DEF TServes
  <2>1. Serves /\ serving # c
    BY <1>2, <1>5 DEF TServes, Active
  <2>2. serving \in TClients
    BY <2>1 DEF Serves
  <2>3. Me' = Me
    BY <2>1, <2>2, <1>2, <1>3 DEF Me
  <2>4. Unspoiled(serving)' = Unspoiled(serving)
    BY <2>1, <2>2, <1>2, <1>3 DEF Unspoiled
  <2>5. Gone' = Gone /\ File' = File /\ TinyUp' = TinyUp
    BY <2>3, <1>2 DEF Gone, File, TinyUp
  <2>6. Made(tmain, Me.req, Me.got)' <=> Made(tmain, Me.req, Me.got)
    BY <2>3, <1>2 DEF Made, Decide, Exists
  <2>7. File' = File /\ serving' \in TClients /\ (File \in DOMAIN Files)' = (File \in DOMAIN Files)
    BY <2>2, <2>5, <1>2
  <2> QED BY ONLY <2>1, <2>3, <2>4, <2>5, <2>6, <2>7, <1>2 DEF Serves, ServesAt
<1> QED BY <1>3, <1>7, <1>8 DEF TInv

LEMMA TinyResetStep ==
    ASSUME TInv, NEW c \in TClients, TinyReset(c)
    PROVE  TInv'
<1>1. tc' = [tc EXCEPT ![c].st = "reset"]
  BY DEF TinyReset
<1>2. /\ tc[c].st = "open" /\ ~tc[c].eof
      /\ tmain' = tmain /\ serving' = serving /\ reply' = reply /\ removed' = removed
      /\ TShaped /\ TClientsInv /\ TServes
  BY DEF TinyReset, TInv
<1>3. /\ TShaped' /\ \A d \in TClients : d # c => tc'[d] = tc[d]
      /\ tc'[c].st = "reset" /\ tc'[c].req = tc[c].req /\ tc'[c].got = tc[c].got /\ tc'[c].eof = tc[c].eof
  BY ONLY <1>1, <1>2, c \in TClients, StPut
<1>4. \A d : Active(d)' <=> Active(d)
  BY <1>2 DEF Active
<1>5. TClient(c) /\ Active(c)
  BY <1>2 DEF TClientsInv, TClient
<1>6. TClient(c)'
  BY <1>2, <1>3, <1>4, <1>5 DEF TClient
<1>7. TClientsInv'
  <2>1. ASSUME NEW d \in TClients, d # c PROVE TClient(d)'
    <3>1. TClient(d)
      BY <1>2 DEF TClientsInv
    <3> QED BY <3>1, <2>1, <1>2, <1>3, <1>4, TClientKept
  <2> QED BY <2>1, <1>6 DEF TClientsInv
<1>8. TServes'
  <2>1. Serves /\ serving = c /\ Gone'
    BY <1>2, <1>3, <1>5 DEF TServes, Active, Gone, Me
  <2>2. Me'.req = Me.req /\ ~Unspoiled(serving)'
    BY <2>1, <1>2, <1>3 DEF Me, Unspoiled
  <2>3. File' = File
    BY <2>2 DEF File
  <2> QED BY ONLY <2>1, <2>2, <2>3, <1>2 DEF TServes, Serves, ServesAt
<1> QED BY <1>3, <1>7, <1>8 DEF TInv

LEMMA RemoveFileStep ==
    ASSUME TInv, NEW f, RemoveFile(f)
    PROVE  TInv'
<1>1. /\ tmain' = tmain /\ serving' = serving /\ reply' = reply /\ tc' = tc /\ removed' = removed \cup {f}
      /\ TShaped /\ TClientsInv /\ TServes
  BY DEF RemoveFile, TInv
<1>2. removed' # {}
  BY <1>1
<1>3. TShaped'
  BY <1>1 DEF TShaped
<1>4. TClientsInv'
  <2>1. \A d : Active(d)' <=> Active(d)
    BY <1>1 DEF Active
  <2> QED BY <2>1, <1>1, <1>2, TClientKept DEF TClientsInv
<1>5. TServes'
  <2>1. Me' = Me /\ ~Unspoiled(serving)'
    BY <1>1, <1>2 DEF Me, Unspoiled
  <2>2. File' = File /\ Gone' = Gone
    BY <2>1 DEF File, Gone
  <2>3. File \in removed => File \in removed'
    BY <1>1
  <2> QED BY ONLY <2>1, <2>2, <2>3, <1>1 DEF TServes, Serves, ServesAt
<1> QED BY <1>3, <1>4, <1>5 DEF TInv

----------------------------------------------------------------------------
(* The steps of the server. *)

LEMMA TinyAcceptStep ==
    ASSUME TInv, NEW c \in TClients, TinyAccept(c)
    PROVE  TInv'
<1>1. tc' = [tc EXCEPT ![c].st = "open"]
  BY DEF TinyAccept
<1>2. /\ tmain = "accept" /\ tc[c].st = "queued" /\ serving' = c /\ tmain' = "line"
      /\ reply' = reply /\ removed' = removed /\ TShaped /\ TClientsInv
  BY DEF TinyAccept, TInv
<1>3. /\ TShaped' /\ \A d \in TClients : d # c => tc'[d] = tc[d]
      /\ tc'[c].st = "open" /\ tc'[c].req = tc[c].req /\ tc'[c].got = tc[c].got /\ tc'[c].eof = tc[c].eof
  BY ONLY <1>1, <1>2, c \in TClients, StPut
<1>4. TClient(c) /\ tc[c].got = << >> /\ ~tc[c].eof
  BY <1>2 DEF TClientsInv, TClient
<1>5. \A d : ~Active(d) /\ (Active(d)' <=> d = c)
  BY <1>2 DEF Active
<1>6. TClient(c)'
  BY <1>2, <1>3, <1>4, <1>5 DEF TClient
<1>7. TClientsInv'
  <2>1. ASSUME NEW d \in TClients, d # c PROVE TClient(d)'
    <3>1. TClient(d)
      BY <1>2 DEF TClientsInv
    <3>2. Active(d)' <=> Active(d)
      BY <2>1, <1>5
    <3>3. tc'[d] = tc[d] /\ removed' = removed
      BY <2>1, <1>2, <1>3
    <3> QED BY ONLY <3>1, <3>2, <3>3, TClientKept
  <2> QED BY <2>1, <1>6 DEF TClientsInv
<1>8. TServes'
  <2>1. Me'.got = << >>
    BY <1>2, <1>3, <1>4 DEF Me
  <2> QED BY ONLY <2>1, <1>2, c \in TClients DEF TServes, Serves, ServesAt, Made, Decided
<1> QED BY <1>3, <1>7, <1>8 DEF TInv

(* A step within a connection that leaves the clients alone: what is known *)
(* of them stays, and the server's part is what is left to show.           *)
LEMMA StaysStep ==
    ASSUME TInv, tmain # "accept", tmain' # "accept", tc' = tc, serving' = serving, removed' = removed,
           ServesAt(tmain)'
    PROVE  TInv'
<1>1. TShaped' /\ TServes'
  BY DEF TInv, TShaped, TServes, Serves
<1>2. \A d : Active(d)' <=> Active(d)
  BY DEF Active
<1>3. TClientsInv'
  BY <1>2, TClientKept DEF TInv, TClientsInv
<1> QED BY <1>1, <1>3 DEF TInv

LEMMA GoesStep ==
    ASSUME TInv, tmain # "accept", NEW pc, pc # "accept", Goes(pc), ServesAt(pc)
    PROVE  TInv'
<1>1. tmain' = pc /\ tc' = tc /\ serving' = serving /\ removed' = removed /\ reply' = reply
  BY DEF Goes
<1>2. Me' = Me
  BY <1>1 DEF Me
<1>3. File' = File /\ (Gone' <=> Gone) /\ (Unspoiled(serving)' <=> Unspoiled(serving))
  BY <1>1, <1>2 DEF File, Gone, Unspoiled
<1>4. Made(tmain, Me.req, Me.got)' <=> Made(pc, Me.req, Me.got)
  BY <1>1, <1>2 DEF Made, Decide, Exists
<1>5. ServesAt(tmain)'
  BY ONLY <1>1, <1>2, <1>3, <1>4, ServesAt(pc) DEF ServesAt
<1> QED BY <1>1, <1>5, StaysStep

(* The server ends, for a client that is gone. *)
LEMMA GoneStep ==
    ASSUME TInv, tmain # "accept", Gone, tmain' \in {"killed", "exit"},
           tc' = tc, serving' = serving, removed' = removed
    PROVE  TInv'
<1>1. Gone' /\ ~Unspoiled(serving)'
  BY DEF Gone, Me, Unspoiled
<1>2. ServesAt(tmain)'
  BY <1>1 DEF ServesAt
<1> QED BY <1>2, StaysStep

(* And one that writes to the client that is served. *)
LEMMA WriteStep ==
    ASSUME TInv, tmain # "accept", tmain' # "accept", serving' = serving, removed' = removed, ~Gone,
           NEW x, tc' = [tc EXCEPT ![serving].got = Append(@, x)],
           Me'.got = Append(Me.got, x) /\ Me'.req = Me.req /\ Me'.st = Me.st => ServesAt(tmain)'
    PROVE  TInv'
<1>1. serving \in TClients /\ TShaped
  BY DEF TInv, TServes, Serves
<1>2. /\ TShaped' /\ \A d \in TClients : d # serving => tc'[d] = tc[d]
      /\ tc'[serving].st = tc[serving].st /\ tc'[serving].req = tc[serving].req
      /\ tc'[serving].eof = tc[serving].eof /\ tc'[serving].got = Append(tc[serving].got, x)
  BY <1>1, GotPut
<1>3. \A d : Active(d)' <=> Active(d)
  BY DEF Active
<1>4. Active(serving) /\ TClient(serving)
  BY <1>1 DEF Active, TInv, TClientsInv
<1>5. TClient(serving)'
  BY <1>2, <1>3, <1>4 DEF TClient
<1>6. TClientsInv'
  <2>1. ASSUME NEW d \in TClients, d # serving PROVE TClient(d)'
    <3>1. TClient(d)
      BY DEF TInv, TClientsInv
    <3> QED BY <3>1, <2>1, <1>2, <1>3, TClientKept
  <2> QED BY <2>1, <1>5 DEF TClientsInv
<1>7. TServes'
  BY <1>1, <1>2 DEF Me, TServes, Serves
<1> QED BY <1>2, <1>6, <1>7 DEF TInv

LEMMA LineStep ==
    ASSUME TInv, doit_line
    PROVE  TInv'
<1>1. tmain = "line" /\ tmain # "accept" /\ ServesAt("line")
  BY DEF doit_line, TInv, TServes, Serves
<1>2. ASSUME Gone, Exits PROVE TInv'
  BY <1>1, <1>2, GoneStep DEF Exits
<1>3. ASSUME NEW pc, Goes(pc),
             pc = IF Me.req.sends = "nothing" THEN "close"
                  ELSE IF Me.req.method = "GET" THEN "headers" ELSE "501"
      PROVE  TInv'
  <2>1. ServesAt(pc) /\ pc # "accept"
    BY <1>1, <1>3 DEF ServesAt, Made, Unspoiled, Decided, Me
  <2> QED BY <1>1, <1>3, <2>1, GoesStep
<1> QED BY <1>2, <1>3 DEF doit_line

LEMMA HeadersStep ==
    ASSUME TInv, read_requesthdrs
    PROVE  TInv'
<1>1. tmain = "headers" /\ tmain # "accept" /\ ServesAt("headers")
  BY DEF read_requesthdrs, TInv, TServes, Serves
<1>2. ASSUME Gone, Exits PROVE TInv'
  BY <1>1, <1>2, GoneStep DEF Exits
<1>3. ASSUME Me.req.sends \in {"all", "cut line"}, Goes("find") PROVE TInv'
  <2>1. ServesAt("find")
    BY <1>1, <1>3 DEF ServesAt, Made, Decided
  <2> QED BY <1>1, <1>3, <2>1, GoesStep
<1>4. ASSUME Me.req.sends \in {"cut", "cut line", "nothing"}, Goes("spin") PROVE TInv'
  <2>1. ServesAt("spin")
    BY <1>1, <1>4 DEF ServesAt, Made, Decided
  <2> QED BY <1>1, <1>4, <2>1, GoesStep
<1> QED BY <1>2, <1>3, <1>4 DEF read_requesthdrs

LEMMA FindStep ==
    ASSUME TInv, doit_find
    PROVE  TInv'
<1>1. tmain = "find" /\ tmain # "accept" /\ ServesAt("find")
  BY DEF doit_find, TInv, TServes, Serves
<1>2. PICK pc : pc = Decide(parse_uri(Me.req)) /\ Goes(pc)
  BY DEF doit_find
<1>3. pc \in Decided /\ (pc = "static" => File \in DOMAIN Files)
  BY <1>2 DEF Decide, Decided, Exists, File
<1>4. pc \notin {"accept", "line", "headers", "find", "501", "exit", "killed", "spin", "error body", "map", "body",
                 "child", "close"}
  BY <1>3 DEF Decided
<1>5. ASSUME Unspoiled(serving) PROVE Made(pc, Me.req, Me.got)
  <2>1. Made("find", Me.req, Me.got)
    BY <1>1, <1>5 DEF ServesAt
  <2>2. Me.got = << >> /\ Me.req.method = "GET"
    BY <2>1 DEF Made
  <2> QED BY <2>2, <1>2, <1>4 DEF Made
<1>6. ServesAt(pc)
  BY <1>3, <1>4, <1>5 DEF ServesAt
<1> QED BY <1>1, <1>2, <1>4, <1>6, GoesStep

LEMMA ErrorStep ==
    ASSUME TInv, clienterror
    PROVE  TInv'
<1>1. /\ tmain \in {"501", "404", "403"} /\ tmain # "accept" /\ ServesAt(tmain)
      /\ serving' = serving /\ removed' = removed /\ reply' = [NoReply EXCEPT !.status = tmain]
  BY DEF clienterror, TInv, TServes, Serves
<1> DEFINE head == [NoReply EXCEPT !.status = tmain, !.type = "text/html"]
<1>2. Write(head, "error body")
  BY DEF clienterror
<1>3. CASE Gone
  BY <1>1, <1>2, <1>3, GoneStep DEF Write
<1>4. CASE ~Gone
  <2>1. tmain' = "error body" /\ tc' = [tc EXCEPT ![serving].got = Append(@, head)]
    BY <1>2, <1>4 DEF Write
  <2>2. ASSUME Me'.got = Append(Me.got, head), Me'.req = Me.req, Me'.st = Me.st
        PROVE  ServesAt(tmain)'
    <3> SUFFICES ASSUME Unspoiled(serving)' PROVE Made("error body", Me.req, Me.got)'
      BY <2>1, <2>2 DEF ServesAt
    <3>1. Unspoiled(serving)
      BY <1>1, <2>2 DEF Unspoiled, Me
    <3>2. Made(tmain, Me.req, Me.got) /\ removed = {}
      BY <1>1, <3>1 DEF ServesAt, Unspoiled
    <3>3. Me.got = << >> /\ Promised(Me.req) = TErr(tmain)
      BY <1>1, <3>2, PromisedIs DEF Made, Decided
    <3>4. Me'.got = <<head>>
      BY <2>2, <3>3
    <3> QED BY ONLY <1>1, <2>2, <3>3, <3>4 DEF Made, Decided
  <2> QED BY <1>1, <1>4, <2>1, <2>2, WriteStep
<1> QED BY <1>3, <1>4

LEMMA ErrorBodyStep ==
    ASSUME TInv, clienterror_body
    PROVE  TInv'
<1>1. /\ tmain = "error body" /\ tmain # "accept" /\ ServesAt("error body")
      /\ serving' = serving /\ removed' = removed
  BY DEF clienterror_body, TInv, TServes, Serves
<1> DEFINE body == [reply EXCEPT !.body = "message"]
<1>2. Write(body, "close")
  BY DEF clienterror_body
<1>3. CASE Gone
  BY <1>1, <1>2, <1>3, GoneStep DEF Write
<1>4. CASE ~Gone
  <2>1. tmain' = "close" /\ tc' = [tc EXCEPT ![serving].got = Append(@, body)]
    BY <1>2, <1>4 DEF Write
  <2>2. ASSUME Me'.got = Append(Me.got, body), Me'.req = Me.req, Me'.st = Me.st
        PROVE  ServesAt(tmain)'
    <3> SUFFICES ASSUME Unspoiled(serving)' PROVE Made("close", Me.req, Me.got)'
      BY <2>1, <2>2 DEF ServesAt
    <3>1. Unspoiled(serving)
      BY <1>1, <2>2 DEF Unspoiled, Me
    <3>2. Made("error body", Me.req, Me.got)
      BY <1>1, <3>1 DEF ServesAt
    <3>3. PICK n \in {"501", "404", "403"} :
            /\ reply = [NoReply EXCEPT !.status = n] /\ Promised(Me.req) = TErr(n)
            /\ Me.got = <<[NoReply EXCEPT !.status = n, !.type = "text/html"]>>
      BY <3>2 DEF Made
    <3>4. body = [NoReply EXCEPT !.status = n, !.body = "message"]
      BY <3>3 DEF NoReply
    <3>5. Me'.got = TErr(n)
      <4>1. Me'.got = Append(<<[NoReply EXCEPT !.status = n, !.type = "text/html"]>>,
                             [NoReply EXCEPT !.status = n, !.body = "message"])
        BY <2>2, <3>3, <3>4
      <4> QED BY <4>1, AppendOne DEF TErr
    <3> QED BY ONLY <2>2, <3>3, <3>5 DEF Made, Decided
  <2> QED BY <1>1, <1>4, <2>1, <2>2, WriteStep
<1> QED BY <1>3, <1>4

LEMMA StaticStep ==
    ASSUME TInv, serve_static
    PROVE  TInv'
<1>1. /\ tmain = "static" /\ tmain # "accept" /\ ServesAt("static")
      /\ serving' = serving /\ removed' = removed
  BY DEF serve_static, TInv, TServes, Serves
<1> DEFINE head == [NoReply EXCEPT !.status = "200", !.type = get_filetype(File)]
<1>2. Write(head, "map")
  BY DEF serve_static
<1>3. CASE Gone
  BY <1>1, <1>2, <1>3, GoneStep DEF Write
<1>4. CASE ~Gone
  <2>1. tmain' = "map" /\ tc' = [tc EXCEPT ![serving].got = Append(@, head)]
    BY <1>2, <1>4 DEF Write
  <2>2. ASSUME Me'.got = Append(Me.got, head), Me'.req = Me.req, Me'.st = Me.st
        PROVE  ServesAt(tmain)'
    <3>1. (File \in DOMAIN Files)'
      <4>1. File \in DOMAIN Files
        BY <1>1 DEF ServesAt
      <4> QED BY <2>2, <4>1 DEF File
    <3>2. ASSUME Unspoiled(serving)' PROVE Made("map", Me.req, Me.got)'
      <4>1. Unspoiled(serving)
        BY <1>1, <2>2, <3>2 DEF Unspoiled, Me
      <4>2. Made("static", Me.req, Me.got)
        BY <1>1, <4>1 DEF ServesAt
      <4>3. Me.got = << >> /\ Me.req.method = "GET" /\ Decide(parse_uri(Me.req)) = "static"
        BY <4>2 DEF Made, Decided
      <4>4. head = Head200(Me.req)
        BY DEF Head200, File
      <4>5. Me'.got = <<Head200(Me.req)>>
        BY <2>2, <4>3, <4>4
      <4>6. Decide(parse_uri(Me.req))' = "static"
        BY <1>1, <2>2, <4>3 DEF Decide, Exists
      <4> QED BY ONLY <2>2, <4>3, <4>5, <4>6 DEF Made, Decided
    <3> QED BY <2>1, <3>1, <3>2 DEF ServesAt
  <2> QED BY <1>1, <1>4, <2>1, <2>2, WriteStep
<1> QED BY <1>3, <1>4

LEMMA MapStep ==
    ASSUME TInv, serve_static_map
    PROVE  TInv'
<1>1. tmain = "map" /\ tmain # "accept" /\ ServesAt("map") /\ serving \in TClients
  BY DEF serve_static_map, TInv, TServes, Serves
<1>2. CASE Exists(File) /\ ~Files[File].empty
  <2>1. Goes("body")
    BY <1>2 DEF serve_static_map
  <2>2. ServesAt("body")
    BY <1>1 DEF ServesAt, Made, Decided
  <2> QED BY <1>1, <2>1, <2>2, GoesStep
<1>3. CASE ~(Exists(File) /\ ~Files[File].empty)
  <2>1. Goes("exit")
    BY <1>3 DEF serve_static_map, Exits, Goes
  <2>2. File \in removed \/ Files[File].empty
    BY <1>1, <1>3 DEF Exists, ServesAt
  <2>3. ServesAt("exit")
    BY <2>2 DEF ServesAt, Made, Decided
  <2> QED BY <1>1, <2>1, <2>3, GoesStep
<1> QED BY <1>2, <1>3

LEMMA StaticBodyStep ==
    ASSUME TInv, serve_static_body
    PROVE  TInv'
<1>1. /\ tmain = "body" /\ tmain # "accept" /\ ServesAt("body")
      /\ serving' = serving /\ removed' = removed
  BY DEF serve_static_body, TInv, TServes, Serves
<1> DEFINE body == [NoReply EXCEPT !.body = File[1]]
<1>2. Write(body, "close")
  BY DEF serve_static_body
<1>3. CASE Gone
  BY <1>1, <1>2, <1>3, GoneStep DEF Write
<1>4. CASE ~Gone
  <2>1. tmain' = "close" /\ tc' = [tc EXCEPT ![serving].got = Append(@, body)]
    BY <1>2, <1>4 DEF Write
  <2>2. ASSUME Me'.got = Append(Me.got, body), Me'.req = Me.req, Me'.st = Me.st
        PROVE  ServesAt(tmain)'
    <3> SUFFICES ASSUME Unspoiled(serving)' PROVE Made("close", Me.req, Me.got)'
      BY <2>1, <2>2 DEF ServesAt
    <3>1. Unspoiled(serving)
      BY <1>1, <2>2 DEF Unspoiled, Me
    <3>2. Made("body", Me.req, Me.got) /\ removed = {}
      BY <1>1, <3>1 DEF ServesAt, Unspoiled
    <3>3. Me.got = <<Head200(Me.req)>> /\ Me.req.method = "GET" /\ Decide(parse_uri(Me.req)) = "static"
      BY <3>2 DEF Made
    <3>4. Promised(Me.req) = <<Head200(Me.req), body>>
      BY <3>2, <3>3, PromisedIs DEF File
    <3>5. Me'.got = Promised(Me'.req)
      <4>1. Me'.got = Append(<<Head200(Me.req)>>, body)
        BY <2>2, <3>3
      <4>2. Me'.got = <<Head200(Me.req), body>>
        BY <4>1, AppendOne
      <4> QED BY <2>2, <3>4, <4>2
    <3> QED BY ONLY <3>5 DEF Made, Decided
  <2> QED BY <1>1, <1>4, <2>1, <2>2, WriteStep
<1> QED BY <1>3, <1>4

LEMMA DynamicStep ==
    ASSUME TInv, serve_dynamic
    PROVE  TInv'
<1>1. /\ tmain = "dynamic" /\ tmain # "accept" /\ ServesAt("dynamic")
      /\ serving' = serving /\ removed' = removed
  BY DEF serve_dynamic, TInv, TServes, Serves
<1> DEFINE head == [NoReply EXCEPT !.status = "200"]
<1>2. Write(head, "child")
  BY DEF serve_dynamic
<1>3. CASE Gone
  BY <1>1, <1>2, <1>3, GoneStep DEF Write
<1>4. CASE ~Gone
  <2>1. tmain' = "child" /\ tc' = [tc EXCEPT ![serving].got = Append(@, head)]
    BY <1>2, <1>4 DEF Write
  <2>2. ASSUME Me'.got = Append(Me.got, head), Me'.req = Me.req, Me'.st = Me.st
        PROVE  ServesAt(tmain)'
    <3> SUFFICES ASSUME Unspoiled(serving)' PROVE Made("child", Me.req, Me.got)'
      BY <2>1, <2>2 DEF ServesAt
    <3>1. Unspoiled(serving)
      BY <1>1, <2>2 DEF Unspoiled, Me
    <3>2. Made("dynamic", Me.req, Me.got)
      BY <1>1, <3>1 DEF ServesAt
    <3>3. Me.got = << >> /\ Me.req.method = "GET" /\ Decide(parse_uri(Me.req)) = "dynamic"
      BY <3>2 DEF Made, Decided
    <3>4. Me'.got = <<head>>
      BY <2>2, <3>3
    <3>5. Decide(parse_uri(Me.req))' = "dynamic"
      BY <1>1, <2>2, <3>3 DEF Decide, Exists
    <3> QED BY ONLY <2>2, <3>3, <3>4, <3>5 DEF Made, Decided
  <2> QED BY <1>1, <1>4, <2>1, <2>2, WriteStep
<1> QED BY <1>3, <1>4

LEMMA ChildStep ==
    ASSUME TInv, serve_dynamic_child
    PROVE  TInv'
<1>1. /\ tmain = "child" /\ tmain # "accept" /\ ServesAt("child") /\ tmain' = "close"
      /\ serving' = serving /\ removed' = removed /\ reply' = reply
  BY DEF serve_dynamic_child, TInv, TServes, Serves
<1> DEFINE u == parse_uri(Me.req)
           body == [NoReply EXCEPT !.type = "text/html", !.body = u.cgiargs]
           runs == Files[u.file].runs /\ "&" \in Substrings[u.cgiargs]
<1>2. File = u.file
  BY DEF File
<1>3. ASSUME Unspoiled(serving)
      PROVE  /\ Me.got = <<[NoReply EXCEPT !.status = "200"]>> /\ ~Gone /\ Exists(File)
             /\ Promised(Me.req) = <<[NoReply EXCEPT !.status = "200"]>> \o (IF runs THEN <<body>> ELSE << >>)
  <2>1. Made("child", Me.req, Me.got) /\ removed = {} /\ Me.st = "open"
    BY <1>1, <1>3 DEF ServesAt, Unspoiled, Me
  <2>2. Me.got = <<[NoReply EXCEPT !.status = "200"]>> /\ Me.req.method = "GET" /\ Decide(u) = "dynamic"
    BY <2>1 DEF Made
  <2>3. Exists(File)
    BY <1>2, <2>2 DEF Decide
  <2> QED BY <2>1, <2>2, <2>3, PromisedIs DEF Gone
<1>4. CASE ~Gone /\ Exists(File) /\ Files[File].runs /\ "&" \in Substrings[u.cgiargs]
  <2>1. tc' = [tc EXCEPT ![serving].got = Append(@, body)]
    BY <1>4 DEF serve_dynamic_child
  <2>2. ASSUME Me'.got = Append(Me.got, body), Me'.req = Me.req, Me'.st = Me.st
        PROVE  ServesAt(tmain)'
    <3> SUFFICES ASSUME Unspoiled(serving)' PROVE Made("close", Me.req, Me.got)'
      BY <1>1, <2>2 DEF ServesAt
    <3>1. Unspoiled(serving)
      BY <1>1, <2>2 DEF Unspoiled, Me
    <3>2. Promised(Me.req) = <<[NoReply EXCEPT !.status = "200"]>> \o <<body>>
      BY <1>2, <1>3, <1>4, <3>1
    <3>3. Me'.got = Promised(Me'.req)
      BY <1>3, <2>2, <3>1, <3>2
    <3> QED BY ONLY <3>3 DEF Made, Decided
  <2> QED BY <1>1, <1>4, <2>1, <2>2, WriteStep
<1>5. CASE ~(~Gone /\ Exists(File) /\ Files[File].runs /\ "&" \in Substrings[u.cgiargs])
  <2>1. Goes("close")
    BY <1>1, <1>5 DEF serve_dynamic_child, Goes
  <2>2. ASSUME Unspoiled(serving) PROVE Me.got = Promised(Me.req)
    <3>1. ~runs
      BY <1>2, <1>3, <1>5, <2>2
    <3> QED BY <1>3, <2>2, <3>1
  <2>3. ServesAt("close")
    BY <2>2 DEF ServesAt, Made, Decided
  <2> QED BY <1>1, <2>1, <2>3, GoesStep
<1> QED BY <1>4, <1>5

LEMMA CloseConnStep ==
    ASSUME TInv, CloseConn
    PROVE  TInv'
<1>1. tc' = [tc EXCEPT ![serving].eof = TRUE]
  BY DEF CloseConn
<1>2. /\ tmain = "close" /\ serving \in TClients /\ tmain' = "accept" /\ removed' = removed
      /\ TShaped /\ TClientsInv /\ ServesAt("close")
  BY DEF CloseConn, TInv, TServes, Serves
<1>3. PICK c \in TClients : c = serving
  BY <1>2
<1>4. /\ TShaped' /\ \A d \in TClients : d # c => tc'[d] = tc[d]
      /\ tc'[c].st = tc[c].st /\ tc'[c].req = tc[c].req /\ tc'[c].got = tc[c].got /\ tc'[c].eof = TRUE
  BY ONLY <1>1, <1>2, <1>3, EofPut
<1>5. \A d : ~Active(d)' /\ (Active(d) <=> d = c)
  BY <1>2, <1>3 DEF Active
<1>6. TClient(c)'
  <2>1. TClient(c) /\ Active(c)
    BY <1>2, <1>5 DEF TClientsInv
  <2>2. tc[c].st \in {"open", "reset"}
    BY <2>1 DEF TClient
  <2>3. ASSUME Unspoiled(c)' PROVE tc[c].got = Promised(tc[c].req)
    <3>1. Unspoiled(serving)
      BY <1>2, <1>3, <1>4, <2>3 DEF Unspoiled
    <3>2. Made("close", Me.req, Me.got)
      BY <1>2, <3>1 DEF ServesAt
    <3> QED BY <1>3, <3>2 DEF Made, Me
  <2> QED BY <1>4, <1>5, <2>2, <2>3 DEF TClient
<1>7. TClientsInv'
  <2>1. ASSUME NEW d \in TClients, d # c PROVE TClient(d)'
    <3>1. TClient(d)
      BY <1>2 DEF TClientsInv
    <3>2. Active(d)' <=> Active(d)
      BY <2>1, <1>5
    <3>3. tc'[d] = tc[d] /\ removed' = removed
      BY <2>1, <1>2, <1>4
    <3> QED BY ONLY <3>1, <3>2, <3>3, TClientKept
  <2> QED BY <2>1, <1>6 DEF TClientsInv
<1>8. TServes'
  BY <1>2 DEF TServes
<1> QED BY <1>4, <1>7, <1>8 DEF TInv

----------------------------------------------------------------------------
(* Every step preserves the invariant. *)
LEMMA TInvStep ==
    ASSUME TInv, [TinyNext]_tinyvars
    PROVE  TInv'
<1>1. CASE UNCHANGED tinyvars
  <2>1. tmain' = tmain /\ serving' = serving /\ reply' = reply /\ tc' = tc /\ removed' = removed
    BY <1>1 DEF tinyvars
  <2>2. CASE tmain = "accept"
    <3>1. TServes' /\ TShaped' /\ TShaped /\ TClientsInv
      BY <2>1, <2>2 DEF TServes, TInv, TShaped
    <3>2. \A d : Active(d)' <=> Active(d)
      BY <2>1 DEF Active
    <3>3. TClientsInv'
      BY <2>1, <3>1, <3>2, TClientKept DEF TClientsInv
    <3> QED BY <3>1, <3>3 DEF TInv
  <2>3. CASE tmain # "accept"
    <3>1. Goes(tmain) /\ ServesAt(tmain)
      BY <2>1, <2>3 DEF Goes, TInv, TServes, Serves
    <3> QED BY <2>3, <3>1, GoesStep
  <2> QED BY <2>2, <2>3
<1>2. CASE TinyNext
  <2>1. ASSUME NEW c \in TClients, TinyAccept(c) PROVE TInv'
    BY <2>1, TinyAcceptStep
  <2>2. ASSUME NEW c \in TClients, TinyConnect(c) PROVE TInv'
    BY <2>2, TinyConnectStep
  <2>3. ASSUME NEW c \in TClients, TinyReset(c) PROVE TInv'
    BY <2>3, TinyResetStep
  <2>4. ASSUME NEW f \in DOMAIN Files, RemoveFile(f) PROVE TInv'
    BY <2>4, RemoveFileStep
  <2>5. CASE \/ doit_line \/ read_requesthdrs \/ doit_find \/ clienterror \/ clienterror_body
             \/ serve_static \/ serve_static_map \/ serve_static_body
             \/ serve_dynamic \/ serve_dynamic_child \/ CloseConn
    BY <2>5, LineStep, HeadersStep, FindStep, ErrorStep, ErrorBodyStep, StaticStep, MapStep, StaticBodyStep,
       DynamicStep, ChildStep, CloseConnStep
  <2> QED BY <1>2, <2>1, <2>2, <2>3, <2>4, <2>5 DEF TinyNext, ServerStep
<1> QED BY <1>1, <1>2

LEMMA TInvImpliesSafe == TInv => TinySafe
<1> SUFFICES ASSUME TInv PROVE TinySafe
  OBVIOUS
<1>1. TinyReplies
  <2> SUFFICES ASSUME removed = {}, NEW c \in TClients, Proper(c), tc[c].eof
               PROVE  tc[c].got = Promised(tc[c].req)
    BY DEF TinyReplies
  <2>1. TClient(c)
    BY DEF TInv, TClientsInv
  <2>2. Unspoiled(c)
    BY <2>1 DEF TClient, Proper, Unspoiled
  <2> QED BY <2>1, <2>2 DEF TClient
<1>2. TinyStopsOnlyFor
  <2>1. CASE tmain = "accept"
    BY <2>1 DEF TinyStopsOnlyFor, TinyUp
  <2>2. CASE tmain # "accept"
    <3>1. ServesAt(tmain)
      BY <2>2 DEF TInv, TServes, Serves
    <3> QED BY <3>1 DEF ServesAt, TinyStopsOnlyFor, TinyUp
  <2> QED BY <2>1, <2>2
<1> QED BY <1>1, <1>2 DEF TinySafe

(* For any clients, requests and files, and any number of files removed:   *)
(* every client that sends a whole request and stays gets one response,    *)
(* its own and all of it, whatever the clients before it did; and the      *)
(* server ends only for a client that reset its connection or for a file   *)
(* of no bytes or removed between stat and Open.                           *)
THEOREM TinySafeAlways == TinySpec => []TinySafe
<1>1. TinySpec => []TInv
  BY TInvInit, TInvStep, PTL DEF TinySpec
<1> QED BY <1>1, TInvImpliesSafe, PTL

----------------------------------------------------------------------------
(* Robust I/O *)

LEMMA LeastIndex ==
    ASSUME NEW X, X \subseteq Nat, X # {}
    PROVE  \E x \in X : \A y \in X : x <= y
<1>1. PICK x \in X : \A y \in X : ~ (<<y, x>> \in OpToRel(<, Nat))
  BY NatLessThanWellFounded, WFMin
<1>2. ASSUME NEW y \in X, y < x PROVE FALSE
  <2>1. <<y, x>> \in Nat \X Nat /\ <<y, x>>[1] < <<y, x>>[2]
    BY <1>2
  <2> QED BY <1>1, <2>1 DEF OpToRel
<1> QED BY <1>2

----------------------------------------------------------------------------
(* What the calls have returned so far, call by call.                      *)
Bytes == Seq(STRING)
a ++ b == a \o b
Calls == {[op |-> "line", n |-> MaxLine], [op |-> "nb", n |-> 2]}
Adding(h) == /\ h \in [0 .. Len(got) -> Bytes] /\ h[0] = << >>
             /\ \A k \in 1 .. Len(got) : h[k] = h[k - 1] ++ got[k].bytes

Held == IF call = NoCall THEN << >> ELSE usrbuf
Coming == riobuf ++ (wire ++ outleft)
RTypes == /\ stream \in Bytes /\ outleft \in Bytes /\ wire \in Bytes /\ riobuf \in Bytes /\ usrbuf \in Bytes
          /\ wclosed \in BOOLEAN /\ rerr \in BOOLEAN /\ call \in Calls \cup {NoCall}
          /\ got \in Seq([op : {"line", "nb"}, n : Nat, bytes : Bytes])

(* A call in progress is not complete, and the bytes are where they belong. *)
CallUnderway == /\ call.op = "line" => /\ Len(usrbuf) + 1 <= call.n
                                       /\ \A x \in 1 .. Len(usrbuf) : usrbuf[x] # "n"
                /\ call.op = "nb" => Len(usrbuf) < call.n
Conserved == \E h : Adding(h) /\ (~rerr => h[Len(got)] ++ (Held ++ Coming) = stream)
RInv == RTypes /\ CallUnderway /\ Conserved /\ RioShortOnlyAtEof

----------------------------------------------------------------------------
(* Sequences *)

LEMMA SplitAt ==
    ASSUME NEW s \in Bytes, NEW k \in 0 .. Len(s)
    PROVE  /\ SubSeq(s, 1, k) \in Bytes /\ SubSeq(s, k + 1, Len(s)) \in Bytes
           /\ SubSeq(s, 1, k) ++ SubSeq(s, k + 1, Len(s)) = s
           /\ Len(SubSeq(s, 1, k)) = k
<1>1. Len(s) \in Nat /\ \A i \in 1 .. Len(s) : s[i] \in STRING
  BY LenProperties, ElementOfSeq DEF Bytes
<1>2. SubSeq(s, 1, k) \in Bytes /\ Len(SubSeq(s, 1, k)) = k
  BY <1>1, SubSeqProperties DEF Bytes
<1>3. SubSeq(s, k + 1, Len(s)) \in Bytes
  BY <1>1, SubSeqProperties DEF Bytes
<1>4. SubSeq(s, 1, k) ++ SubSeq(s, k + 1, Len(s)) = SubSeq(s, 1, Len(s))
  <2>1. 1 \in 1 .. Len(s) + 1 /\ k \in 1 - 1 .. Len(s) /\ Len(s) \in k .. Len(s)
    BY <1>1
  <2> QED BY <2>1, ConcatAdjacentSubSeq DEF Bytes, ++
<1>5. SubSeq(s, 1, Len(s)) = s
  BY SubSeqFull DEF Bytes
<1> QED BY <1>2, <1>3, <1>4, <1>5

LEMMA Joined ==
    ASSUME NEW a \in Bytes, NEW b \in Bytes, NEW c \in Bytes
    PROVE  /\ a ++ b \in Bytes /\ Len(a ++ b) = Len(a) + Len(b)
           /\ (a ++ b) ++ c = a ++ (b ++ c) /\ a ++ << >> = a /\ << >> ++ a = a /\ << >> \in Bytes
BY ConcatProperties, ConcatAssociative, ConcatEmptySeq, EmptySeq DEF Bytes, ++

LEMMA Assoc == \A a, b, c \in Bytes : (a ++ b) ++ c = a ++ (b ++ c)
BY ConcatAssociative DEF Bytes, ++

LEMMA FirstMoved ==
    ASSUME NEW u \in Bytes, NEW r \in Bytes, r # << >>
    PROVE  /\ Append(u, Head(r)) \in Bytes /\ Tail(r) \in Bytes /\ Head(r) \in STRING
           /\ Append(u, Head(r)) ++ Tail(r) = u ++ r /\ Len(Append(u, Head(r))) = Len(u) + 1
           /\ \A x \in 1 .. Len(u) : Append(u, Head(r))[x] = u[x]
           /\ Append(u, Head(r))[Len(u) + 1] = Head(r)
<1>1. Head(r) \in STRING /\ Tail(r) \in Bytes /\ Len(Tail(r)) = Len(r) - 1
      /\ \A i \in 1 .. Len(Tail(r)) : Tail(r)[i] = r[i + 1]
  BY HeadTailProperties DEF Bytes
<1>2. /\ Append(u, Head(r)) \in Bytes /\ Len(Append(u, Head(r))) = Len(u) + 1
      /\ \A x \in 1 .. Len(u) : Append(u, Head(r))[x] = u[x]
      /\ Append(u, Head(r))[Len(u) + 1] = Head(r)
  BY <1>1, AppendProperties DEF Bytes
<1>3. Append(u, Head(r)) = u ++ <<Head(r)>> /\ <<Head(r)>> \in Bytes
  BY <1>1, AppendIsConcat DEF Bytes, ++
<1>4. <<Head(r)>> ++ Tail(r) = r
  <2>1. 1 \in 1 .. Len(r) /\ Len(r) \in 1 .. Len(r)
    <3>1. Len(r) \in Nat \ {0}
      BY EmptySeq DEF Bytes
    <3> QED BY <3>1
  <2>2. SubSeq(r, 1, Len(r)) = <<r[1]>> ++ SubSeq(r, 1 + 1, Len(r))
    BY <2>1, SubSeqRecursiveFirst DEF Bytes, ++
  <2>3. Tail(r) = SubSeq(r, 2, Len(r))
    BY TailIsSubSeq DEF Bytes
  <2>4. SubSeq(r, 1, Len(r)) = r /\ Head(r) = r[1]
    BY SubSeqFull DEF Bytes
  <2>5. SubSeq(r, 1 + 1, Len(r)) = SubSeq(r, 2, Len(r))
    OBVIOUS
  <2>6. SubSeq(r, 1, Len(r)) = <<r[1]>> ++ Tail(r)
    BY ONLY <2>2, <2>3, <2>5
  <2> QED BY ONLY <2>4, <2>6
<1>5. (u ++ <<Head(r)>>) ++ Tail(r) = u ++ (<<Head(r)>> ++ Tail(r))
  BY <1>1, <1>3, Assoc
<1>6. Append(u, Head(r)) ++ Tail(r) = u ++ r
  BY <1>3, <1>4, <1>5
<1> QED BY ONLY <1>1, <1>2, <1>6

----------------------------------------------------------------------------
(* The initial states *)
LEMMA RInvInit == RioInit => RInv
<1> SUFFICES ASSUME RioInit PROVE RInv
  OBVIOUS
<1>1. /\ stream \in Bytes /\ outleft = stream /\ wire = << >> /\ riobuf = << >> /\ call = NoCall
      /\ usrbuf = << >> /\ got = << >> /\ rerr = FALSE /\ wclosed = FALSE
  BY RioAssumption DEF RioInit, Bytes
<1>2. << >> \in Bytes /\ Len(<< >>) = 0
  BY EmptySeq DEF Bytes
<1>3. RTypes
  <2>1. got \in Seq([op : {"line", "nb"}, n : Nat, bytes : Bytes])
    BY <1>1, EmptySeq
  <2> QED BY <1>1, <1>2, <2>1 DEF RTypes
<1>4. Conserved
  <2> DEFINE h == [k \in 0 .. Len(got) |-> << >>]
  <2>1. Adding(h)
    BY <1>1, <1>2 DEF Adding
  <2>2. h[Len(got)] = << >> /\ Held = << >> /\ Coming = << >> ++ (<< >> ++ stream)
    BY <1>1, <1>2 DEF Held, Coming
  <2>3. h[Len(got)] ++ (Held ++ Coming) = stream
    BY <1>1, <1>2, <2>2, Joined
  <2> HIDE DEF h
  <2> QED BY <2>1, <2>3 DEF Conserved
<1>5. CallUnderway
  BY <1>1 DEF CallUnderway, NoCall
<1>6. RioShortOnlyAtEof
  BY <1>1 DEF RioShortOnlyAtEof
<1> QED BY <1>3, <1>4, <1>5, <1>6 DEF RInv

----------------------------------------------------------------------------
(* The steps *)

(* Bytes that move between the places they pass, with no call returning.   *)
LEMMA MovesConserve ==
    ASSUME RTypes, Conserved, got' = got, stream' = stream, ~rerr' => ~rerr,
           ~rerr' => (Held ++ Coming)' = Held ++ Coming
    PROVE  Conserved'
<1>1. PICK h : Adding(h) /\ (~rerr => h[Len(got)] ++ (Held ++ Coming) = stream)
  BY DEF Conserved
<1>2. Adding(h)'
  BY <1>1 DEF Adding
<1>3. ~rerr' => h[Len(got')] ++ (Held ++ Coming)' = stream'
  BY <1>1
<1> QED BY <1>2, <1>3 DEF Conserved

(* A call that returns the bytes b. *)
LEMMA ReturnConserves ==
    ASSUME RTypes, Conserved, NEW b \in Bytes, call # NoCall, RioReturn(b), stream' = stream, rerr' = rerr,
           Coming' \in Bytes, b ++ Coming' = usrbuf ++ Coming
    PROVE  Conserved'
<1>1. PICK h : Adding(h) /\ (~rerr => h[Len(got)] ++ (Held ++ Coming) = stream)
  BY DEF Conserved
<1>0. PICK n : n = Len(got)
  OBVIOUS
<1> DEFINE r == [op |-> call.op, n |-> call.n, bytes |-> b]
<1>2. r \in [op : {"line", "nb"}, n : Nat, bytes : Bytes]
  BY RioAssumption DEF RTypes, Calls
<1>3. /\ got' = Append(got, r) /\ Len(got') = n + 1 /\ n \in Nat
      /\ (\A k \in 1 .. n : got'[k] = got[k]) /\ got'[n + 1] = r
  <2>1. got' = Append(got, r) /\ got \in Seq([op : {"line", "nb"}, n : Nat, bytes : Bytes])
    BY DEF RioReturn, RTypes
  <2> HIDE DEF r
  <2>2. Len(got) \in Nat
    BY <2>1, LenProperties
  <2> QED BY <1>0, <1>2, <2>1, <2>2, AppendProperties
<1>4. /\ h \in [0 .. n -> Bytes] /\ h[n] \in Bytes /\ h[0] = << >>
      /\ \A k \in 1 .. n : h[k] = h[k - 1] ++ got[k].bytes
  <2>1. /\ h \in [0 .. n -> Bytes] /\ h[0] = << >>
        /\ \A k \in 1 .. n : h[k] = h[k - 1] ++ got[k].bytes
    BY <1>0, <1>1 DEF Adding
  <2>2. n \in 0 .. n
    BY <1>3
  <2> QED BY <2>1, <2>2
<1> HIDE DEF r
<1>5. h[n] ++ b \in Bytes
  BY <1>4, Joined
<1>g. PICK g : g = [k \in 0 .. n + 1 |-> IF k = n + 1 THEN h[n] ++ b ELSE h[k]]
  OBVIOUS
<1>6. Adding(g)'
  <2>1. g \in [0 .. n + 1 -> Bytes] /\ g[0] = << >>
    BY <1>3, <1>4, <1>5, <1>g
  <2>2. ASSUME NEW k \in 1 .. n + 1 PROVE g[k] = g[k - 1] ++ got'[k].bytes
    <3>1. CASE k = n + 1
      <4>1. g[k] = h[n] ++ b /\ g[k - 1] = h[n]
        BY <1>3, <1>g, <3>1
      <4>2. got'[k] = r /\ r.bytes = b
        BY <1>3, <3>1 DEF r
      <4> QED BY <4>1, <4>2
    <3>2. CASE k # n + 1
      <4>1. k \in 1 .. n /\ k - 1 # n + 1 /\ k - 1 \in 0 .. n + 1 /\ k \in 0 .. n + 1
        BY <1>3, <3>2
      <4>2. g[k] = h[k] /\ g[k - 1] = h[k - 1] /\ got'[k] = got[k]
        BY <1>3, <1>g, <4>1
      <4> QED BY <1>4, <4>1, <4>2
    <3> QED BY <3>1, <3>2
  <2> QED BY <1>3, <2>1, <2>2 DEF Adding
<1>7. ~rerr' => g[Len(got')] ++ (Held ++ Coming)' = stream'
  <2> SUFFICES ASSUME ~rerr PROVE g[n + 1] ++ (Held' ++ Coming') = stream
    BY <1>3
  <2>1. Held' = << >> /\ Held = usrbuf /\ usrbuf \in Bytes
    BY DEF RioReturn, Held, RTypes
  <2>2. g[n + 1] = h[n] ++ b
    BY <1>3, <1>g
  <2>3. Held' ++ Coming' = Coming'
    BY <2>1, Joined
  <2>4. (h[n] ++ b) ++ Coming' = h[n] ++ (b ++ Coming')
    BY <1>4, Assoc
  <2>5. h[n] ++ (usrbuf ++ Coming) = stream
    BY <1>0, <1>1, <2>1
  <2> QED BY <2>2, <2>3, <2>4, <2>5
<1> QED BY <1>6, <1>7 DEF Conserved

(* What was returned stays as short as it was allowed to be. *)
LEMMA ShortKept ==
    ASSUME RioShortOnlyAtEof, got' = got, wclosed /\ wire = << >> => wclosed' /\ wire' = << >>
    PROVE  RioShortOnlyAtEof'
BY DEF RioShortOnlyAtEof

LEMMA ShortReturn ==
    ASSUME RTypes, RioShortOnlyAtEof, NEW b \in Bytes, RioReturn(b), call # NoCall, wclosed' = wclosed, wire' = wire,
           call.op = "line" => (\A x \in 1 .. Len(b) - 1 : b[x] # "n") /\ Len(b) < call.n,
           Len(b) <= call.n,
           \/ call.op = "line" /\ (Len(b) = call.n - 1 \/ (b # << >> /\ Last(b) = "n"))
           \/ call.op = "nb" /\ Len(b) = call.n
           \/ wclosed /\ wire = << >>
    PROVE  RioShortOnlyAtEof'
<1>1. PICK r : r = [op |-> call.op, n |-> call.n, bytes |-> b]
  OBVIOUS
<1>2. r \in [op : {"line", "nb"}, n : Nat, bytes : Bytes]
  BY <1>1, RioAssumption DEF RTypes, Calls
<1>3. got' = Append(got, r) /\ got \in Seq([op : {"line", "nb"}, n : Nat, bytes : Bytes])
  BY <1>1 DEF RioReturn, RTypes
<1>4. PICK n \in Nat : n = Len(got) /\ DOMAIN got = 1 .. n
  BY <1>3, LenProperties
<1>5. /\ DOMAIN got' = 1 .. n + 1 /\ (\A k \in 1 .. n : got'[k] = got[k]) /\ got'[n + 1] = r
  <2>1. Append(got, r) \in Seq([op : {"line", "nb"}, n : Nat, bytes : Bytes]) /\ Len(Append(got, r)) = n + 1
    BY ONLY <1>2, <1>3, <1>4, AppendProperties
  <2>2. DOMAIN Append(got, r) = 1 .. n + 1
    BY ONLY <2>1, LenProperties
  <2>3. (\A k \in 1 .. n : Append(got, r)[k] = got[k]) /\ Append(got, r)[n + 1] = r
    BY ONLY <1>2, <1>3, <1>4, AppendProperties
  <2> QED BY <1>3, <2>2, <2>3
<1> SUFFICES ASSUME NEW k \in DOMAIN got'
             PROVE  LET c == got'[k].bytes
                    IN /\ got'[k].op = "line" => /\ \A x \in 1 .. Len(c) - 1 : c[x] # "n"
                                                 /\ Len(c) < got'[k].n
                       /\ Len(c) <= got'[k].n
                       /\ \/ got'[k].op = "line" /\ (Len(c) = got'[k].n - 1 \/ (c # << >> /\ Last(c) = "n"))
                          \/ got'[k].op = "nb" /\ Len(c) = got'[k].n
                          \/ wclosed' /\ wire' = << >>
  BY DEF RioShortOnlyAtEof
<1>6. CASE k = n + 1
  <2>1. got'[k].bytes = b /\ got'[k].op = call.op /\ got'[k].n = call.n
    BY <1>1, <1>5, <1>6
  <2> QED BY <2>1
<1>7. CASE k # n + 1
  <2>1. k \in DOMAIN got /\ got'[k] = got[k]
    BY <1>4, <1>5, <1>7
  <2> QED BY <2>1 DEF RioShortOnlyAtEof
<1> QED BY <1>6, <1>7

LEMMA ReturnTypes ==
    ASSUME RTypes, NEW b \in Bytes, call # NoCall, RioReturn(b)
    PROVE  call' = NoCall /\ got' \in Seq([op : {"line", "nb"}, n : Nat, bytes : Bytes])
<1>1. PICK r : r = [op |-> call.op, n |-> call.n, bytes |-> b]
  OBVIOUS
<1>2. r \in [op : {"line", "nb"}, n : Nat, bytes : Bytes]
  BY <1>1, RioAssumption DEF RTypes, Calls
<1> QED BY <1>1, <1>2, AppendProperties DEF RioReturn, RTypes

LEMMA WritenStep == ASSUME RInv, rio_writen PROVE RInv'
<1>1. /\ stream' = stream /\ riobuf' = riobuf /\ call' = call /\ usrbuf' = usrbuf /\ got' = got /\ rerr' = rerr
      /\ ~wclosed /\ RTypes /\ CallUnderway /\ Conserved /\ RioShortOnlyAtEof
  BY DEF rio_writen, RInv
<1>2. wire' \in Bytes /\ outleft' \in Bytes /\ wclosed' \in BOOLEAN /\ wire' ++ outleft' = wire ++ outleft
  <2>1. CASE wclosed' = TRUE /\ wire' = wire /\ outleft' = outleft
    BY <1>1, <2>1 DEF RTypes
  <2>2. CASE \E k \in 0 .. Len(outleft) :
                /\ wire' = wire \o SubSeq(outleft, 1, k)
                /\ outleft' = SubSeq(outleft, k + 1, Len(outleft))
                /\ wclosed' = wclosed
    <3>1. PICK k \in 0 .. Len(outleft) :
                /\ wire' = wire ++ SubSeq(outleft, 1, k)
                /\ outleft' = SubSeq(outleft, k + 1, Len(outleft))
                /\ wclosed' = wclosed
      BY <2>2 DEF ++
    <3>2. PICK a \in Bytes : a = SubSeq(outleft, 1, k)
      BY <1>1, SplitAt DEF RTypes
    <3>3. outleft' \in Bytes /\ a ++ outleft' = outleft
      BY <1>1, <3>1, <3>2, SplitAt DEF RTypes
    <3>4. wire \in Bytes /\ wclosed \in BOOLEAN
      BY <1>1 DEF RTypes
    <3>5. wire ++ a \in Bytes
      BY <3>4, Joined
    <3>6. (wire ++ a) ++ outleft' = wire ++ (a ++ outleft')
      BY <3>3, <3>4, Assoc
    <3> QED BY <3>1, <3>2, <3>3, <3>4, <3>5, <3>6
  <2> QED BY <2>1, <2>2 DEF rio_writen
<1>3. RTypes'
  BY <1>1, <1>2 DEF RTypes
<1>4. Conserved'
  <2>1. (Held ++ Coming)' = Held ++ Coming
    BY <1>1, <1>2 DEF Held, Coming
  <2> QED BY <1>1, <2>1, MovesConserve
<1>5. CallUnderway'
  BY <1>1 DEF CallUnderway
<1>6. RioShortOnlyAtEof'
  BY <1>1, ShortKept
<1> QED BY <1>3, <1>4, <1>5, <1>6 DEF RInv

LEMMA SenderCloses == ASSUME RInv, RioClose PROVE RInv'
<1>1. /\ stream' = stream /\ riobuf' = riobuf /\ call' = call /\ usrbuf' = usrbuf /\ got' = got /\ rerr' = rerr
      /\ wire' = wire /\ outleft' = outleft /\ wclosed' = TRUE
      /\ RTypes /\ CallUnderway /\ Conserved /\ RioShortOnlyAtEof
  BY DEF RioClose, RInv
<1>2. RTypes' /\ CallUnderway'
  BY <1>1 DEF RTypes, CallUnderway
<1>3. (Held ++ Coming)' = Held ++ Coming
  BY <1>1 DEF Held, Coming
<1> QED BY <1>1, <1>2, <1>3, MovesConserve, ShortKept DEF RInv

LEMMA CallStep == ASSUME RInv, RioCall PROVE RInv'
<1>1. /\ stream' = stream /\ riobuf' = riobuf /\ usrbuf' = << >> /\ got' = got /\ rerr' = rerr
      /\ wire' = wire /\ outleft' = outleft /\ wclosed' = wclosed /\ call = NoCall /\ call' \in Calls
      /\ RTypes /\ Conserved /\ RioShortOnlyAtEof
  BY DEF RioCall, RInv, Calls
<1>2. << >> \in Bytes /\ Len(<< >>) = 0
  BY EmptySeq DEF Bytes
<1>3. RTypes'
  BY <1>1, <1>2 DEF RTypes
<1>4. CallUnderway'
  BY <1>1, <1>2, RioAssumption DEF CallUnderway, Calls
<1>5. (Held ++ Coming)' = Held ++ Coming
  BY <1>1 DEF Held, Coming
<1> QED BY <1>1, <1>3, <1>4, <1>5, MovesConserve, ShortKept DEF RInv

LEMMA RefillStep == ASSUME RInv, rio_refill PROVE RInv'
<1>1. /\ stream' = stream /\ outleft' = outleft /\ wclosed' = wclosed /\ usrbuf' = usrbuf
      /\ call # NoCall /\ riobuf = << >> /\ RTypes /\ CallUnderway /\ Conserved /\ RioShortOnlyAtEof
  BY DEF rio_refill, RInv
<1>2. ASSUME NEW k \in 1 .. Len(wire), riobuf' = SubSeq(wire, 1, k), wire' = SubSeq(wire, k + 1, Len(wire)),
             call' = call, got' = got, rerr' = rerr
      PROVE  RInv'
  <2>1. Len(wire) \in Nat /\ wire \in Bytes /\ outleft \in Bytes
    BY <1>1, LenProperties DEF RTypes, Bytes
  <2>2. k \in 0 .. Len(wire)
    BY <2>1
  <2>3. riobuf' \in Bytes /\ wire' \in Bytes /\ riobuf' ++ wire' = wire
    BY <1>2, <2>1, <2>2, SplitAt
  <2>4. RTypes' /\ CallUnderway'
    BY <1>1, <1>2, <2>3 DEF RTypes, CallUnderway
  <2>5. riobuf' ++ (wire' ++ outleft) = (riobuf' ++ wire') ++ outleft
    BY <2>1, <2>3, Assoc
  <2>6. << >> ++ (wire ++ outleft) = wire ++ outleft
    BY <2>1, Joined
  <2>7. Coming' = Coming /\ Held' = Held
    BY <1>1, <1>2, <2>3, <2>5, <2>6 DEF Coming, Held
  <2>8. wire # << >>
    BY <2>1
  <2> QED BY <1>1, <1>2, <2>4, <2>7, <2>8, MovesConserve, ShortKept DEF RInv
<1>3. ASSUME wire = << >>, wclosed, RioReturn(usrbuf), riobuf' = riobuf, wire' = wire, rerr' = rerr
      PROVE  RInv'
  <2>1. usrbuf \in Bytes /\ Coming \in Bytes /\ Coming' = Coming
    BY <1>1, <1>3, Joined DEF RTypes, Coming
  <2>2. RTypes' /\ CallUnderway'
    <3>1. call' = NoCall /\ got' \in Seq([op : {"line", "nb"}, n : Nat, bytes : Bytes])
      BY <1>1, <1>3, <2>1, ReturnTypes
    <3>2. CallUnderway'
      BY <3>1 DEF CallUnderway, NoCall
    <3> QED BY <1>1, <1>3, <3>1, <3>2 DEF RTypes
  <2>3. Conserved'
    BY <1>1, <1>3, <2>1, ReturnConserves
  <2>4. /\ call.op = "line" => (\A x \in 1 .. Len(usrbuf) - 1 : usrbuf[x] # "n") /\ Len(usrbuf) < call.n
        /\ Len(usrbuf) <= call.n
    <3>1. Len(usrbuf) \in Nat /\ call \in Calls /\ MaxLine \in Nat
      BY <1>1, <2>1, LenProperties, RioAssumption DEF RTypes, Bytes
    <3>2. CASE call = [op |-> "line", n |-> MaxLine]
      <4>1. call.op = "line" /\ call.n = MaxLine
        BY <3>2
      <4>2. Len(usrbuf) + 1 <= MaxLine /\ \A x \in 1 .. Len(usrbuf) : usrbuf[x] # "n"
        BY <1>1, <4>1 DEF CallUnderway
      <4> QED BY <3>1, <4>1, <4>2
    <3>3. CASE call = [op |-> "nb", n |-> 2]
      <4>1. call.op = "nb" /\ call.n = 2
        BY <3>3
      <4>2. Len(usrbuf) < 2
        BY <1>1, <4>1 DEF CallUnderway
      <4> QED BY <3>1, <4>1, <4>2
    <3> QED BY <3>1, <3>2, <3>3 DEF Calls
  <2>5. RioShortOnlyAtEof'
    BY <1>1, <1>3, <2>1, <2>4, ShortReturn
  <2> QED BY <2>2, <2>3, <2>5 DEF RInv
<1>4. ASSUME rerr' = TRUE, call' = NoCall, riobuf' = riobuf, wire' = wire, got' = got
      PROVE  RInv'
  <2>1. RTypes' /\ CallUnderway'
    BY <1>1, <1>4 DEF RTypes, CallUnderway, NoCall
  <2> QED BY <1>1, <1>4, <2>1, MovesConserve, ShortKept DEF RInv
<1> QED BY <1>2, <1>3, <1>4 DEF rio_refill

LEMMA ReadlineStep == ASSUME RInv, rio_readlineb PROVE RInv'
<1>1. /\ stream' = stream /\ outleft' = outleft /\ wire' = wire /\ wclosed' = wclosed /\ rerr' = rerr
      /\ call.op = "line" /\ RTypes /\ CallUnderway /\ Conserved /\ RioShortOnlyAtEof
  BY DEF rio_readlineb, RInv
<1>2. /\ call = [op |-> "line", n |-> MaxLine] /\ call # NoCall /\ MaxLine \in Nat
      /\ usrbuf \in Bytes /\ Len(usrbuf) \in Nat /\ riobuf \in Bytes /\ wire ++ outleft \in Bytes /\ Coming \in Bytes
  <2>1. call = [op |-> "line", n |-> MaxLine] /\ call # NoCall
    BY <1>1 DEF RTypes, Calls, NoCall
  <2>2. usrbuf \in Bytes /\ riobuf \in Bytes /\ wire \in Bytes /\ outleft \in Bytes
    BY <1>1 DEF RTypes
  <2> QED BY <2>1, <2>2, Joined, RioAssumption, LenProperties DEF Bytes, Coming
<1>3. Len(usrbuf) + 1 <= MaxLine /\ \A x \in 1 .. Len(usrbuf) : usrbuf[x] # "n"
  <2>1. call.op = "line" /\ call.n = MaxLine
    BY <1>2
  <2> QED BY <1>1, <2>1 DEF CallUnderway
<1>4. CASE Len(usrbuf) + 1 = call.n
  <2>1. RioReturn(usrbuf) /\ riobuf' = riobuf /\ usrbuf' = usrbuf
    BY <1>4 DEF rio_readlineb
  <2>2. call' = NoCall /\ got' \in Seq([op : {"line", "nb"}, n : Nat, bytes : Bytes])
    BY <1>1, <1>2, <2>1, ReturnTypes
  <2>3. CallUnderway'
    BY <2>2 DEF CallUnderway, NoCall
  <2>4. RTypes'
    BY <1>1, <2>1, <2>2 DEF RTypes
  <2>5. Coming' = Coming
    BY <1>1, <2>1 DEF Coming
  <2>6. Conserved'
    BY <1>1, <1>2, <2>1, <2>5, ReturnConserves
  <2>7. Len(usrbuf) < call.n /\ Len(usrbuf) <= call.n /\ Len(usrbuf) = call.n - 1
        /\ \A x \in 1 .. Len(usrbuf) - 1 : usrbuf[x] # "n"
    BY <1>2, <1>3, <1>4
  <2>8. RioShortOnlyAtEof'
    BY <1>1, <1>2, <2>1, <2>7, ShortReturn
  <2> QED BY <2>3, <2>4, <2>6, <2>8 DEF RInv
<1>5. CASE Len(usrbuf) + 1 # call.n
  <2>1. /\ riobuf # << >> /\ riobuf' = Tail(riobuf) /\ usrbuf' = Append(usrbuf, Head(riobuf))
        /\ IF Head(riobuf) = "n" THEN RioReturn(usrbuf') ELSE call' = call /\ got' = got
    BY <1>5 DEF rio_readlineb
  <2>2. /\ usrbuf' \in Bytes /\ riobuf' \in Bytes /\ usrbuf' ++ riobuf' = usrbuf ++ riobuf
        /\ Len(usrbuf') = Len(usrbuf) + 1 /\ (\A x \in 1 .. Len(usrbuf) : usrbuf'[x] = usrbuf[x])
        /\ usrbuf'[Len(usrbuf) + 1] = Head(riobuf)
    BY <1>2, <2>1, FirstMoved
  <2>3. Coming' \in Bytes /\ usrbuf' ++ Coming' = usrbuf ++ Coming
    <3>1. Coming' = riobuf' ++ (wire ++ outleft)
      BY <1>1 DEF Coming
    <3>2. Coming' \in Bytes
      BY <1>2, <2>2, <3>1, Joined
    <3>3. usrbuf' ++ (riobuf' ++ (wire ++ outleft)) = (usrbuf' ++ riobuf') ++ (wire ++ outleft)
      BY <1>2, <2>2, Assoc
    <3>4. usrbuf ++ (riobuf ++ (wire ++ outleft)) = (usrbuf ++ riobuf) ++ (wire ++ outleft)
      BY <1>2, Assoc
    <3> QED BY <2>2, <3>1, <3>2, <3>3, <3>4 DEF Coming
  <2>4. Len(usrbuf') + 1 <= call.n /\ \A x \in 1 .. Len(usrbuf') - 1 : usrbuf'[x] # "n"
    BY <1>2, <1>3, <1>5, <2>2
  <2>5. CASE Head(riobuf) = "n"
    <3>1. RioReturn(usrbuf')
      BY <2>1, <2>5
    <3>2. call' = NoCall /\ got' \in Seq([op : {"line", "nb"}, n : Nat, bytes : Bytes])
      BY <1>1, <1>2, <2>2, <3>1, ReturnTypes
    <3>3. CallUnderway'
      BY <3>2 DEF CallUnderway, NoCall
    <3>4. RTypes'
      BY <1>1, <2>2, <3>2 DEF RTypes
    <3>5. Conserved'
      BY <1>1, <1>2, <2>2, <2>3, <3>1, ReturnConserves
    <3>6. PICK b \in Bytes : b = usrbuf'
      BY <2>2
    <3>7. b # << >> /\ Last(b) = "n" /\ Len(b) \in Nat
      <4>1. Len(b) = Len(usrbuf) + 1 /\ b[Len(b)] = "n"
        BY <2>2, <2>5, <3>6
      <4> QED BY <1>2, <4>1, EmptySeq DEF Last
    <3>8. RioReturn(b) /\ Len(b) < call.n /\ Len(b) <= call.n /\ \A x \in 1 .. Len(b) - 1 : b[x] # "n"
      BY <1>2, <2>4, <3>1, <3>6, <3>7
    <3>9. RioShortOnlyAtEof'
      BY <1>1, <1>2, <3>7, <3>8, ShortReturn
    <3> QED BY <3>3, <3>4, <3>5, <3>9 DEF RInv
  <2>6. CASE Head(riobuf) # "n"
    <3>1. call' = call /\ got' = got
      BY <2>1, <2>6
    <3>2. RTypes'
      BY <1>1, <2>2, <3>1 DEF RTypes
    <3>3. CallUnderway'
      <4>1. \A x \in 1 .. Len(usrbuf') : usrbuf'[x] # "n"
        BY <1>2, <1>3, <2>2, <2>6
      <4> QED BY <1>2, <2>4, <3>1, <4>1 DEF CallUnderway
    <3>4. Held = usrbuf /\ Held' = usrbuf'
      BY <1>2, <3>1 DEF Held
    <3>5. (Held ++ Coming)' = Held ++ Coming
      BY <2>3, <3>4
    <3> QED BY <1>1, <3>1, <3>2, <3>3, <3>5, MovesConserve, ShortKept DEF RInv
  <2> QED BY <2>5, <2>6
<1> QED BY <1>4, <1>5

LEMMA ReadnbStep == ASSUME RInv, rio_readnb PROVE RInv'
<1>1. /\ stream' = stream /\ outleft' = outleft /\ wire' = wire /\ wclosed' = wclosed /\ rerr' = rerr
      /\ call.op = "nb" /\ RTypes /\ CallUnderway /\ Conserved /\ RioShortOnlyAtEof
  BY DEF rio_readnb, RInv
<1>2. /\ call = [op |-> "nb", n |-> 2] /\ call # NoCall
      /\ usrbuf \in Bytes /\ Len(usrbuf) \in Nat /\ riobuf \in Bytes /\ Len(riobuf) \in Nat
      /\ wire ++ outleft \in Bytes
  <2>1. call = [op |-> "nb", n |-> 2] /\ call # NoCall
    BY <1>1 DEF RTypes, Calls, NoCall
  <2>2. usrbuf \in Bytes /\ riobuf \in Bytes /\ wire \in Bytes /\ outleft \in Bytes
    BY <1>1 DEF RTypes
  <2> QED BY <2>1, <2>2, Joined, LenProperties DEF Bytes
<1>3. Len(usrbuf) < 2
  BY <1>1, <1>2 DEF CallUnderway
<1>4. PICK cnt \in 0 .. Len(riobuf) :
        /\ usrbuf' = usrbuf ++ SubSeq(riobuf, 1, cnt)
        /\ riobuf' = SubSeq(riobuf, cnt + 1, Len(riobuf))
        /\ cnt <= 2 - Len(usrbuf)
  <2>1. PICK c : /\ c = IF Len(riobuf) < call.n - Len(usrbuf) THEN Len(riobuf) ELSE call.n - Len(usrbuf)
                 /\ usrbuf' = usrbuf ++ SubSeq(riobuf, 1, c)
                 /\ riobuf' = SubSeq(riobuf, c + 1, Len(riobuf))
    BY DEF rio_readnb, ++
  <2>2. call.n = 2
    BY <1>2
  <2>3. c \in 0 .. Len(riobuf) /\ c <= 2 - Len(usrbuf)
    BY <1>2, <1>3, <2>1, <2>2
  <2> QED BY <2>1, <2>3
<1>5. PICK a \in Bytes : a = SubSeq(riobuf, 1, cnt)
  BY <1>2, SplitAt
<1>6. riobuf' \in Bytes /\ a ++ riobuf' = riobuf /\ Len(a) = cnt
  BY <1>2, <1>4, <1>5, SplitAt
<1>7. usrbuf' \in Bytes /\ Len(usrbuf') = Len(usrbuf) + cnt
  <2>1. usrbuf ++ a \in Bytes /\ Len(usrbuf ++ a) = Len(usrbuf) + Len(a)
    BY <1>2, Joined
  <2> QED BY <1>4, <1>5, <1>6, <2>1
<1>8. Coming' \in Bytes /\ usrbuf' ++ Coming' = usrbuf ++ Coming
  <2>1. Coming' = riobuf' ++ (wire ++ outleft)
    BY <1>1 DEF Coming
  <2>2. Coming' \in Bytes /\ a ++ Coming' \in Bytes
    BY <1>2, <1>6, <2>1, Joined
  <2>3. (usrbuf ++ a) ++ Coming' = usrbuf ++ (a ++ Coming')
    BY <1>2, <2>2, Assoc
  <2>4. a ++ (riobuf' ++ (wire ++ outleft)) = (a ++ riobuf') ++ (wire ++ outleft)
    BY <1>2, <1>6, Assoc
  <2> QED BY <1>4, <1>5, <1>6, <2>1, <2>2, <2>3, <2>4 DEF Coming
<1>9. CASE Len(usrbuf') = call.n
  <2>1. RioReturn(usrbuf')
    BY <1>9 DEF rio_readnb
  <2>2. call' = NoCall /\ got' \in Seq([op : {"line", "nb"}, n : Nat, bytes : Bytes])
    BY <1>1, <1>2, <1>7, <2>1, ReturnTypes
  <2>3. CallUnderway'
    BY <2>2 DEF CallUnderway, NoCall
  <2>4. RTypes'
    BY <1>1, <1>6, <1>7, <2>2 DEF RTypes
  <2>5. Conserved'
    BY <1>1, <1>2, <1>7, <1>8, <2>1, ReturnConserves
  <2>6. PICK b \in Bytes : b = usrbuf'
    BY <1>7
  <2>7. RioReturn(b) /\ Len(b) = call.n /\ Len(b) <= call.n
    <3>1. Len(b) = 2 /\ call.n = 2
      BY <1>2, <1>9, <2>6
    <3> QED BY <2>1, <2>6, <3>1
  <2>8. RioShortOnlyAtEof'
    BY <1>1, <1>2, <2>7, ShortReturn
  <2> QED BY <2>3, <2>4, <2>5, <2>8 DEF RInv
<1>10. CASE Len(usrbuf') # call.n
  <2>1. call' = call /\ got' = got
    BY <1>10 DEF rio_readnb
  <2>2. RTypes'
    BY <1>1, <1>6, <1>7, <2>1 DEF RTypes
  <2>3. CallUnderway'
    <3>1. Len(usrbuf') < 2
      <4>1. cnt <= 2 - Len(usrbuf) /\ cnt \in Nat
        BY <1>2, <1>4
      <4>2. Len(usrbuf') = Len(usrbuf) + cnt /\ Len(usrbuf) \in Nat
        BY <1>2, <1>7
      <4>3. Len(usrbuf') # 2
        BY <1>2, <1>10
      <4> QED BY ONLY <4>1, <4>2, <4>3
    <3>2. call'.n = 2 /\ call'.op = "nb"
      BY <1>2, <2>1
    <3> QED BY <3>1, <3>2 DEF CallUnderway
  <2>4. Held = usrbuf /\ Held' = usrbuf'
    BY <1>2, <2>1 DEF Held
  <2>5. (Held ++ Coming)' = Held ++ Coming
    BY <1>8, <2>4
  <2> QED BY <1>1, <2>1, <2>2, <2>3, <2>5, MovesConserve, ShortKept DEF RInv
<1> QED BY <1>9, <1>10

LEMMA RInvStep == ASSUME RInv, [RioNext]_rvars PROVE RInv'
<1>1. ASSUME UNCHANGED rvars PROVE RInv'
  <2>1. /\ stream' = stream /\ outleft' = outleft /\ wire' = wire /\ wclosed' = wclosed /\ riobuf' = riobuf
        /\ call' = call /\ usrbuf' = usrbuf /\ got' = got /\ rerr' = rerr
    BY <1>1 DEF rvars
  <2>2. RTypes /\ CallUnderway /\ Conserved /\ RioShortOnlyAtEof
    BY DEF RInv
  <2>3. RTypes' /\ CallUnderway' /\ (Held ++ Coming)' = Held ++ Coming
    BY <2>1, <2>2 DEF RTypes, CallUnderway, Held, Coming
  <2> QED BY <2>1, <2>2, <2>3, MovesConserve, ShortKept DEF RInv
<1> QED BY <1>1, WritenStep, SenderCloses, CallStep, RefillStep, ReadlineStep, ReadnbStep DEF RioNext

----------------------------------------------------------------------------
(* What the calls returned, put together, is what FlattenSeq says: the     *)
(* invariant supplies a function that satisfies its equation.              *)
LEMMA DeliveredIs ==
    ASSUME RTypes, NEW h, Adding(h)
    PROVE  Delivered = h[Len(got)]
<1>1. PICK n \in Nat : n = Len(got) /\ DOMAIN got = 1 .. n
  BY LenProperties DEF RTypes
<1>2. PICK bs : bs = [k \in 1 .. n |-> got[k].bytes]
  OBVIOUS
<1>3. Delivered = FlattenSeq(bs)
  BY <1>1, <1>2 DEF Delivered
<1>4. h \in [0 .. n -> Bytes] /\ h[0] = << >> /\ \A k \in 1 .. n : h[k] = h[k - 1] ++ bs[k]
  BY <1>1, <1>2 DEF Adding
<1>5. bs \in Seq(Bytes) /\ Len(bs) = n /\ \A k \in 1 .. n : bs[k] \in Bytes
  <2>1. \A k \in 1 .. n : got[k].bytes \in Bytes
    <3>1. \A k \in 1 .. n : got[k] \in [op : {"line", "nb"}, n : Nat, bytes : Bytes]
      BY <1>1, ElementOfSeq DEF RTypes
    <3> QED BY <3>1
  <2>2. bs \in [1 .. n -> Bytes]
    BY <1>2, <2>1
  <2>3. bs \in Seq(Bytes)
    BY <2>2, SeqDef
  <2>4. Len(bs) = n
    BY <2>2, <2>3, LenProperties
  <2> QED BY <2>2, <2>3, <2>4
<1>6. CASE n = 0
  <2>1. bs = << >>
    BY <1>5, <1>6, EmptySeq
  <2> QED BY <1>1, <1>3, <1>4, <1>5, <1>6, <2>1 DEF FlattenSeq
<1>7. CASE n # 0
  <2> DEFINE Equation(f) == f = [i \in 1 .. Len(bs) |-> IF i = 1 THEN bs[i] ELSE f[i - 1] ++ bs[i]]
             flat == CHOOSE f : Equation(f)
  <2>1. FlattenSeq(bs) = flat[Len(bs)]
    BY <1>5, <1>7 DEF FlattenSeq, ++
  <2>2. PICK g : g = [i \in 1 .. n |-> h[i]]
    OBVIOUS
  <2>3. Equation(g)
    <3>1. ASSUME NEW i \in 1 .. n PROVE g[i] = IF i = 1 THEN bs[i] ELSE g[i - 1] ++ bs[i]
      <4>1. CASE i = 1
        <5>1. h[i] = h[i - 1] ++ bs[i] /\ h[i - 1] = << >> /\ bs[i] \in Bytes
          <6>1. i - 1 = 0
            BY <4>1
          <6> QED BY <1>4, <1>5, <6>1
        <5> QED BY <2>2, <4>1, <5>1, Joined
      <4>2. CASE i # 1
        <5>1. i - 1 \in 1 .. n
          BY <4>2
        <5>2. g[i] = h[i] /\ g[i - 1] = h[i - 1] /\ h[i] = h[i - 1] ++ bs[i]
          BY <1>4, <2>2, <5>1
        <5> QED BY <4>2, <5>2
      <4> QED BY <4>1, <4>2
    <3> QED BY <1>5, <2>2, <3>1
  <2>4. Equation(flat)
    BY <2>3
  <2> HIDE DEF flat
  <2>5. \A i \in 1 .. n : flat[i] = IF i = 1 THEN bs[i] ELSE flat[i - 1] ++ bs[i]
    BY <1>5, <2>4
  <2>6. \A i \in 1 .. n : g[i] = IF i = 1 THEN bs[i] ELSE g[i - 1] ++ bs[i]
    BY <1>5, <2>3
  <2> DEFINE Differ == {i \in 1 .. n : flat[i] # g[i]}
  <2>7. Differ = {}
    <3> SUFFICES ASSUME Differ # {} PROVE FALSE
      OBVIOUS
    <3>1. PICK x \in Differ : \A y \in Differ : x <= y
      <4>1. Differ \subseteq Nat
        OBVIOUS
      <4> QED BY <4>1, LeastIndex
    <3>2. CASE x = 1
      BY <2>5, <2>6, <3>2
    <3>3. CASE x # 1
      <4>1. x \in 1 .. n /\ x - 1 \in 1 .. n /\ x - 1 \notin Differ
        BY <3>1, <3>3
      <4> QED BY <2>5, <2>6, <3>3, <4>1
    <3> QED BY <3>2, <3>3
  <2>8. flat[n] = g[n]
    BY <1>7, <2>7
  <2> QED BY <1>1, <1>3, <1>5, <1>7, <2>1, <2>2, <2>8
<1> QED BY <1>6, <1>7

LEMMA RInvExact == RInv => RioExact /\ RioShortOnlyAtEof
<1> SUFFICES ASSUME RInv, ~rerr
             PROVE  Delivered \o (IF call = NoCall THEN << >> ELSE usrbuf) \o riobuf \o wire \o outleft = stream
  BY DEF RInv, RioExact
<1>1. PICK h : Adding(h) /\ h[Len(got)] ++ (Held ++ Coming) = stream
  BY DEF RInv, Conserved
<1>2. PICK d \in Bytes : d = Delivered /\ d ++ (Held ++ Coming) = stream
  <2>1. Len(got) \in Nat
    BY LenProperties DEF RInv, RTypes
  <2>2. h[Len(got)] \in Bytes
    BY <1>1, <2>1 DEF Adding
  <2>3. Delivered = h[Len(got)]
    BY <1>1, DeliveredIs DEF RInv
  <2> QED BY <1>1, <2>2, <2>3
<1>3. riobuf \in Bytes /\ wire \in Bytes /\ outleft \in Bytes /\ Held \in Bytes
  BY EmptySeq DEF RInv, RTypes, Held, Bytes
<1>8. d ++ Held ++ riobuf ++ wire ++ outleft = stream
  <2>2. PICK e \in Bytes : e = Held
    BY <1>3
  <2>3. PICK x \in Bytes : x = riobuf
    BY <1>3
  <2>4. PICK y \in Bytes : y = wire
    BY <1>3
  <2>5. PICK z \in Bytes : z = outleft
    BY <1>3
  <2>6. PICK u \in Bytes : u = d ++ e
    BY <1>2, <2>2, Joined
  <2>7. PICK v \in Bytes : v = u ++ x
    BY <2>3, <2>6, Joined
  <2>8. PICK s \in Bytes : s = y ++ z
    BY <2>4, <2>5, Joined
  <2>9. PICK r \in Bytes : r = x ++ s
    BY <2>3, <2>8, Joined
  <2>10. (v ++ y) ++ z = v ++ s
    <3>1. (v ++ y) ++ z = v ++ (y ++ z)
      BY <2>4, <2>5, <2>7, Assoc
    <3> QED BY <2>8, <3>1
  <2>11. v ++ s = u ++ r
    <3>1. (u ++ x) ++ s = u ++ (x ++ s)
      BY <2>3, <2>6, <2>8, Assoc
    <3> QED BY <2>7, <2>9, <3>1
  <2>12. u ++ r = d ++ (e ++ r)
    <3>1. (d ++ e) ++ r = d ++ (e ++ r)
      BY <1>2, <2>2, <2>9, Assoc
    <3> QED BY <2>6, <3>1
  <2>13. d ++ (e ++ r) = stream
    BY <1>2, <2>2, <2>3, <2>4, <2>5, <2>8, <2>9 DEF Coming
  <2>14. ((u ++ x) ++ y) ++ z = stream
    BY <2>7, <2>10, <2>11, <2>12, <2>13
  <2> QED BY <2>2, <2>3, <2>4, <2>5, <2>6, <2>14
<1> QED BY <1>2, <1>8 DEF Held, ++

----------------------------------------------------------------------------
(* Opening sockets *)

(* At each label: the socket of the attempt under way is the only one that *)
(* is open, none is between two attempts, and the one that is kept is      *)
(* attached.                                                               *)
SockTypes == /\ which \in {"client", "listen"} /\ addrs \in 0 .. MaxAddrs /\ sock \in 0 .. MaxAddrs \cup {-1}
             /\ kpc \in {"resolve", "socket", "attach", "close", "clean", "listen", "return", "exit"}
SocketsAt(pc) ==
    /\ pc = "resolve" => opened = {} /\ attached = {} /\ lists = 0
    /\ pc = "socket" => opened = {} /\ attached = {}
    /\ pc \in {"attach", "close"} => addrs > 0 /\ sock = addrs /\ opened = {sock} /\ attached = {}
    /\ pc = "clean" => \/ addrs = 0 /\ opened = {}
                       \/ addrs > 0 /\ sock = addrs /\ opened = {sock} /\ sock \in attached
    /\ pc = "listen" => sock > 0 /\ opened = {sock} /\ sock \in attached /\ lists = 0
    /\ pc = "return" => OnlyTheResultIsOpen
SockInv == SockTypes /\ SocketsAt(kpc)

LEMMA SockInvInit == SockInit => SockInv
BY SocketsAssumption DEF SockInit, SockInv, SockTypes, SocketsAt

LEMMA SockInvStep == ASSUME SockInv, [SockNext]_sockvars PROVE SockInv'
<1>1. CASE getaddrinfo
  BY <1>1, SocketsAssumption DEF SockInv, SockTypes, SocketsAt, getaddrinfo, OnlyTheResultIsOpen
<1>2. CASE socket
  BY <1>2, SocketsAssumption DEF SockInv, SockTypes, SocketsAt, socket
<1>3. CASE attach
  BY <1>3, SocketsAssumption DEF SockInv, SockTypes, SocketsAt, attach
<1>4. CASE close_failed
  BY <1>4, SocketsAssumption DEF SockInv, SockTypes, SocketsAt, close_failed, OnlyTheResultIsOpen
<1>5. CASE clean
  BY <1>5, SocketsAssumption DEF SockInv, SockTypes, SocketsAt, clean, OnlyTheResultIsOpen
<1>6. CASE make_listen
  BY <1>6, SocketsAssumption DEF SockInv, SockTypes, SocketsAt, make_listen, OnlyTheResultIsOpen
<1>7. CASE UNCHANGED sockvars
  BY <1>7 DEF SockInv, SockTypes, SocketsAt, sockvars, OnlyTheResultIsOpen
<1> QED BY <1>1, <1>2, <1>3, <1>4, <1>5, <1>6, <1>7 DEF SockNext

LEMMA SockInvOpen == SockInv => OnlyTheResultIsOpen
BY DEF SockInv, SocketsAt, OnlyTheResultIsOpen

(* For any streams, line lengths, buffer sizes, connections and numbers of *)
(* addresses: however short the reads and writes are, whatever fails, and  *)
(* in whatever mixture the calls come, no byte is lost, repeated or moved, *)
(* a call returns less than it was asked for only at the end of the        *)
(* stream, and a function that opens a socket leaves only its result open. *)
THEOREM LibraryExactAlways == LibSpec => []LibraryExact
<1>1. RioInit /\ [][RioNext]_rvars => []RInv
  BY RInvInit, RInvStep, PTL
<1>2. SockInit /\ [][SockNext]_sockvars => []SockInv
  BY SockInvInit, SockInvStep, PTL
<1>3. RInv /\ SockInv => LibraryExact
  BY RInvExact, SockInvOpen DEF LibraryExact
<1> QED BY <1>1, <1>2, <1>3, PTL DEF LibSpec
=============================================================================
