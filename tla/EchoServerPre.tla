--------------------------- MODULE EchoServerPre ---------------------------
(***************************************************************************)
(* The prethreaded echo server of 7_ProxyLab/demoCode/conc: the main       *)
(* thread of echoservert_pre.c accepts connections and inserts their       *)
(* descriptors into the bounded buffer (SBuf), each worker removes one,    *)
(* serves the client with echo_cnt (echo_cnt.c) and closes it.             *)
(*                                                                         *)
(* The operating system is external: accept returns the lowest descriptor  *)
(* that is not open, so a number is reused as soon as it is closed.  Any   *)
(* error of an RIO call ends the whole process (the csapp wrappers exit).  *)
(***************************************************************************)
EXTENDS Integers, Sequences, FiniteSets, FiniteSetsExt

CONSTANTS Main,       \* the main thread
          Workers,    \* the NTHREADS worker threads
          Fds,        \* descriptor numbers free for connections
          Zero,       \* what Calloc leaves in a slot of the buffer
          N,          \* SBUFSIZE
          IntMax,     \* bound on the number of accepted connections
          LineSizes,  \* the lengths a line of a client can have
          ByteMax     \* bound on the bytes all clients send

ASSUME EchoAssumption == /\ IsFiniteSet(Workers) /\ Main \notin Workers
                         /\ Fds \subseteq Nat /\ Zero \notin Fds
                         /\ N \in Nat \ {0} /\ IntMax \in Nat
                         /\ LineSizes \subseteq Nat \ {0} /\ ByteMax \in Nat

VARIABLES buf, front, rear, mutex, slots, items, pc, item,  \* see SBuf
          open,       \* descriptors of open connections
          alive,      \* the process has not exited
          wpc,        \* wpc[w]: where w is outside sbuf_remove
          n,          \* n[w]: length of the line w has read
          tmp,        \* tmp[w]: value of byte_cnt w has loaded
          once,       \* the pthread_once_t of echo_cnt
          cmutex,     \* the semaphore that protects byte_cnt
          byte_cnt,
          received    \* history: bytes the server has read from its clients

bvars == <<buf, front, rear, mutex, slots, items, pc, item>>
cntvars == <<once, cmutex, byte_cnt, tmp>>
vars == <<bvars, open, alive, wpc, n, cntvars, received>>

B == INSTANCE SBuf WITH Producers <- {Main}, Consumers <- Workers, Values <- Fds

WorkerPC == {"remove", "once", "init", "read", "P_cnt", "load_cnt", "store_cnt",
             "V_cnt", "write", "close"}

Init == /\ B!Init
        /\ open = {} /\ alive = TRUE
        /\ wpc = [w \in Workers |-> "remove"]
        /\ n = [w \in Workers |-> 0] /\ tmp = [w \in Workers |-> 0]
        /\ once = "new" /\ cmutex = 0 /\ byte_cnt = 0
        /\ received = 0

Step(w, from, to) == alive /\ wpc[w] = from /\ wpc' = [wpc EXCEPT ![w] = to]

----------------------------------------------------------------------------
(* The main thread *)

(* accept picks the lowest free number and main calls sbuf_insert with it. *)
(* Accept would exit the process if no number were free: OpenBound says    *)
(* how many the server needs for that never to happen.                     *)
(* Mutant: main keeps accepting without waiting for room in the buffer and *)
(* forgets the descriptor it was about to insert.                          *)
AcceptNoBackpressure ==
    /\ alive /\ open # Fds /\ rear < IntMax /\ pc[Main] \in {"idle", "P_slots"}
    /\ LET connfd == Min(Fds \ open)
       IN  /\ item' = [item EXCEPT ![Main] = connfd]
           /\ pc' = [pc EXCEPT ![Main] = "P_slots"]
           /\ open' = open \cup {connfd}
    /\ UNCHANGED <<buf, front, rear, mutex, slots, items, alive, wpc, n, cntvars, received>>

Accept == /\ alive /\ open # Fds /\ rear < IntMax
          /\ LET connfd == Min(Fds \ open)
             IN  B!InsertCall(Main, connfd) /\ open' = open \cup {connfd}
          /\ UNCHANGED <<alive, wpc, n, cntvars, received>>

Insert == /\ alive /\ B!InsertStep(Main)
          /\ UNCHANGED <<open, alive, wpc, n, cntvars, received>>

----------------------------------------------------------------------------
(* A worker *)

Remove(w) == /\ alive /\ wpc[w] = "remove"
             /\ B!RemoveCall(w) \/ B!RemoveStep(w)
             /\ wpc' = [wpc EXCEPT ![w] = IF pc'[w] = "idle" THEN "once" ELSE @]
             /\ UNCHANGED <<open, alive, n, cntvars, received>>

(* Pthread_once: the first caller runs init_echo_cnt, the others wait.     *)
(* Mutant: init_echo_cnt is called directly, not through Pthread_once. *)
OnceMissing(w) == /\ Step(w, "once", "init")
                  /\ UNCHANGED <<bvars, open, alive, n, cntvars, received>>

Once(w) == \/ /\ once = "new" /\ Step(w, "once", "init")
              /\ once' = "running"
              /\ UNCHANGED <<bvars, open, alive, n, cmutex, byte_cnt, tmp, received>>
           \/ /\ once = "done" /\ Step(w, "once", "read")
              /\ UNCHANGED <<bvars, open, alive, n, cntvars, received>>

init_echo_cnt(w) == /\ Step(w, "init", "read")
                    /\ cmutex' = 1 /\ byte_cnt' = 0 /\ once' = "done"
                    /\ UNCHANGED <<bvars, open, alive, n, tmp, received>>

ReadLine(w) == \E k \in LineSizes :
                 /\ received + k <= ByteMax
                 /\ Step(w, "read", "P_cnt")
                 /\ n' = [n EXCEPT ![w] = k]
                 /\ received' = received + k
                 /\ UNCHANGED <<bvars, open, alive, cntvars>>

ReadEOF(w) == /\ Step(w, "read", "close")
              /\ UNCHANGED <<bvars, open, alive, n, cntvars, received>>

PCnt(w) == /\ cmutex > 0 /\ Step(w, "P_cnt", "load_cnt")
           /\ cmutex' = cmutex - 1
           /\ UNCHANGED <<bvars, open, alive, n, once, byte_cnt, tmp, received>>

LoadCnt(w) == /\ Step(w, "load_cnt", "store_cnt")
              /\ tmp' = [tmp EXCEPT ![w] = byte_cnt]
              /\ UNCHANGED <<bvars, open, alive, n, once, cmutex, byte_cnt, received>>

StoreCnt(w) == /\ Step(w, "store_cnt", "V_cnt")
               /\ byte_cnt' = tmp[w] + n[w]
               /\ UNCHANGED <<bvars, open, alive, n, once, cmutex, tmp, received>>

(* Mutant: V(&mutex) is forgotten. *)
VCntMissing(w) == /\ Step(w, "V_cnt", "write")
                  /\ UNCHANGED <<bvars, open, alive, n, cntvars, received>>

VCnt(w) == /\ Step(w, "V_cnt", "write")
           /\ cmutex' = cmutex + 1
           /\ UNCHANGED <<bvars, open, alive, n, once, byte_cnt, tmp, received>>

Write(w) == /\ Step(w, "write", "read")
            /\ UNCHANGED <<bvars, open, alive, n, cntvars, received>>

(* Mutant: the worker does not close the connection. *)
CloseMissing(w) == /\ Step(w, "close", "remove")
                   /\ UNCHANGED <<bvars, open, alive, n, cntvars, received>>

Close(w) == /\ Step(w, "close", "remove")
            /\ open' = open \ {item[w]}
            /\ UNCHANGED <<bvars, alive, n, cntvars, received>>

(* The client has reset the connection: Rio_readlineb or Rio_writen fails  *)
(* and its wrapper exits the process.                                      *)
RioError(w) == /\ alive /\ wpc[w] \in {"read", "write"}
               /\ alive' = FALSE
               /\ UNCHANGED <<bvars, open, wpc, n, cntvars, received>>

Thread(w) == \/ Remove(w) \/ Once(w) \/ init_echo_cnt(w) \/ PCnt(w) \/ LoadCnt(w)
             \/ StoreCnt(w) \/ VCnt(w) \/ Write(w) \/ Close(w)

Next == \/ Accept \/ Insert
        \/ \E w \in Workers : Thread(w) \/ ReadLine(w) \/ ReadEOF(w) \/ RioError(w)

(* Every thread that can run is eventually scheduled, and every client     *)
(* eventually closes its connection; clients need not ever connect.        *)
Fairness == /\ WF_vars(Insert)
            /\ \A w \in Workers : WF_vars(Thread(w)) /\ WF_vars(ReadEOF(w))

Spec == Init /\ [][Next]_vars /\ Fairness

----------------------------------------------------------------------------
(* Properties *)

TypeOK == /\ B!TypeOK
          /\ open \subseteq Fds /\ alive \in BOOLEAN
          /\ wpc \in [Workers -> WorkerPC]
          /\ n \in [Workers -> LineSizes \cup {0}] /\ tmp \in [Workers -> 0 .. ByteMax]
          /\ once \in {"new", "running", "done"} /\ cmutex \in 0 .. 1
          /\ byte_cnt \in 0 .. ByteMax /\ received \in 0 .. ByteMax

(* The places a descriptor can be: with main on its way into the buffer,   *)
(* in a position of the buffer, with a worker until it has closed it.      *)
MainHas(fd) == item[Main] = fd /\ pc[Main] \notin {"idle", "V_mutex", "V_items"}
Positions(fd) == {i \in DOMAIN B!Contents : B!Contents[i] = fd}
WorkersWith(fd) == {w \in Workers : /\ item[w] = fd
                                    /\ wpc[w] # "remove" \/ pc[w] \in {"V_mutex", "V_slots"}}

Holders(fd) == Cardinality(Positions(fd)) + Cardinality(WorkersWith(fd))
                 + (IF MainHas(fd) THEN 1 ELSE 0)

(* Every open connection is in exactly one place, and a closed descriptor  *)
(* is nowhere: no connection is forgotten, served twice, or closed while   *)
(* another thread works on a new connection of the same number.            *)
OneHolder == \A fd \in Fds : Holders(fd) = IF fd \in open THEN 1 ELSE 0

(* Backpressure: main stops accepting when the buffer is full, so the      *)
(* server holds at most one connection per slot and worker and one more,   *)
(* and never runs out when it has that many descriptors.                   *)
OpenBound == Cardinality(open) <= N + Cardinality(Workers) + 1

(* The accounts of the server: the types, the holders of each descriptor,  *)
(* and their number.                                                       *)
ConnectionsAccounted == TypeOK /\ OneHolder /\ OpenBound

(* No byte is counted twice or forgotten by concurrent workers: byte_cnt   *)
(* and the lines read but not yet added make up what was received          *)
(* ("thread-safe version of echo that counts the total number of bytes     *)
(* received", echo_cnt.c:2-3).                                             *)
Uncounted == {w \in Workers : wpc[w] \in {"P_cnt", "load_cnt", "store_cnt"}}
Total(f, S) == MapThenSumSet(LAMBDA x : f[x], S)
ByteCountExact == byte_cnt + Total(n, Uncounted) = received

(* Every accepted connection is served and closed, provided that clients   *)
(* hang up and the process lives.                                          *)
EveryConnectionClosed == \A fd \in Fds : fd \in open ~> fd \notin open \/ ~alive
============================================================================
