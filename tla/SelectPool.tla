----------------------------- MODULE SelectPool -----------------------------
(***************************************************************************)
(* The echo server that multiplexes its connections with select,           *)
(* 7_ProxyLab/demoCode/conc/echoservers.c.  The unit of what is sent is    *)
(* the byte: a line is some "x" and a "n".                                 *)
(***************************************************************************)
EXTENDS Integers, Sequences, FiniteSets, FiniteSetsExt, SequencesExt

CONSTANTS SClients,
          Habits,      \* how they send: of [SClients -> {"lockstep", "burst", "partial"}]
          FdSetSize,   \* FD_SETSIZE, and the limit of the process on descriptors
          MaxLines     \* bound: lines each client sends

ASSUME SelectAssumption == /\ FdSetSize \in Nat /\ FdSetSize > 4
                           /\ IsFiniteSet(SClients) /\ 0 \notin SClients
                           /\ Habits \subseteq [SClients -> {"lockstep", "burst", "partial"}]

Listenfd == 3
NoClient == -1
Line == <<"x", "n">>

VARIABLES smain,    \* "select", "accept", "check", "read" (blocked in Rio_readlineb), "exit"
          pool,     \* the pool: [maxfd, read_set, ready_set, nready, maxi, clientfd]
          idx,      \* i of check_clients
          part,     \* the line Rio_readlineb is reading
          byte_cnt,
          sfds,     \* what each descriptor refers to: a client, or 0
          sc,       \* the clients: [st, wire, sent, got], got what was written to it
          habit

selvars == <<smain, pool, idx, part, byte_cnt, sfds, sc, habit>>

Slots == 0 .. FdSetSize - 1
SFree == {f \in 4 .. FdSetSize - 1 : sfds[f] = 0}

init_pool == [maxfd |-> Listenfd, read_set |-> {Listenfd}, ready_set |-> {}, nready |-> 0,
              maxi |-> -1, clientfd |-> [i \in Slots |-> NoClient]]

SelInit == /\ habit \in Habits /\ smain = "select" /\ pool = init_pool /\ idx = 0 /\ part = << >> /\ byte_cnt = 0
           /\ sfds = [f \in 4 .. FdSetSize - 1 |-> 0]
           /\ sc = [c \in SClients |-> [st |-> "idle", wire |-> << >>, sent |-> 0, got |-> << >>]]

(* External: a client connects; sends a line, when the last one came back  *)
(* if it goes in lockstep, at once if it does not, and a part of one first *)
(* when it sends partial lines; closes; resets the connection.             *)
SelConnect(c) == /\ sc[c].st = "idle" /\ sc' = [sc EXCEPT ![c].st = "queued"]
                 /\ UNCHANGED <<smain, pool, idx, part, byte_cnt, sfds>>
SelSend(c) == /\ sc[c].st \in {"queued", "open"} /\ sc[c].sent < MaxLines[c]
              /\ habit[c] = "lockstep" => Len(sc[c].got) = sc[c].sent
              /\ \E bytes \in IF habit[c] = "partial" /\ sc[c].sent = 0
                              THEN {<<"x">>} ELSE {Line} :
                   sc' = [sc EXCEPT ![c].wire = @ \o bytes, ![c].sent = @ + 1]
              /\ UNCHANGED <<smain, pool, idx, part, byte_cnt, sfds>>
SelClose(c) == /\ sc[c].st = "open" /\ (habit[c] = "lockstep" => Len(sc[c].got) = sc[c].sent)
               /\ sc' = [sc EXCEPT ![c].st = "closed"]
               /\ UNCHANGED <<smain, pool, idx, part, byte_cnt, sfds>>
SelReset(c) == /\ sc[c].st = "open" /\ habit[c] # "lockstep"
               /\ sc' = [sc EXCEPT ![c].st = "reset", ![c].wire = << >>]
               /\ UNCHANGED <<smain, pool, idx, part, byte_cnt, sfds>>

Owner(f) == sc[sfds[f]]
Readable(f) == IF f = Listenfd THEN \E c \in SClients : sc[c].st = "queued"
               ELSE Owner(f).wire # << >> \/ Owner(f).st \in {"closed", "reset"}

(* Mutant: the first argument is not a count but the largest descriptor.   *)
SelectsBelow == /\ smain = "select"
                /\ \E r \in {{f \in pool.read_set : f < pool.maxfd /\ Readable(f)}} :
                     /\ r # {}
                     /\ pool' = [pool EXCEPT !.ready_set = r, !.nready = Cardinality(r)]
                     /\ smain' = (IF Listenfd \in r THEN "accept" ELSE "check")
                /\ idx' = 0 /\ UNCHANGED <<part, byte_cnt, sfds, sc>>

(* Select: it looks only at descriptors below maxfd + 1.                   *)
Select == /\ smain = "select"
          /\ \E r \in {{f \in pool.read_set : f <= pool.maxfd /\ Readable(f)}} :
               /\ r # {}
               /\ pool' = [pool EXCEPT !.ready_set = r, !.nready = Cardinality(r)]
               /\ smain' = (IF Listenfd \in r THEN "accept" ELSE "check")
          /\ idx' = 0 /\ UNCHANGED <<part, byte_cnt, sfds, sc>>

(* Mutant: the high-water mark is that of the last client.                 *)
MaxfdFollows(fd, i, p) == [p EXCEPT !.nready = @ - 1, !.clientfd[i] = fd, !.read_set = @ \cup {fd},
                                    !.maxfd = fd, !.maxi = IF i > @ THEN i ELSE @]

add_client(fd, i, p) ==
    [p EXCEPT !.nready = @ - 1, !.clientfd[i] = fd, !.read_set = @ \cup {fd},
              !.maxfd = IF fd > @ THEN fd ELSE @, !.maxi = IF i > @ THEN i ELSE @]

(* Accept fails, and the server exits, when there is no descriptor left;   *)
(* add_client does when there is no slot.                                  *)
AcceptAdd(c) ==
    /\ smain = "accept" /\ sc[c].st = "queued"
    /\ \E empty \in {{i \in Slots : pool.clientfd[i] < 0}} :
         IF SFree = {} \/ empty = {} THEN smain' = "exit" /\ UNCHANGED <<pool, sfds, sc>>
         ELSE /\ pool' = add_client(Min(SFree), Min(empty), pool)
              /\ sfds' = [sfds EXCEPT ![Min(SFree)] = c]
              /\ sc' = [sc EXCEPT ![c].st = "open"] /\ smain' = "check"
    /\ UNCHANGED <<idx, part, byte_cnt>>

Fd == pool.clientfd[idx]

(* The loop of check_clients up to a descriptor that is ready, or its end. *)
check_clients ==
    /\ smain = "check"
    /\ IF ~(idx <= pool.maxi /\ pool.nready > 0) THEN smain' = "select" /\ UNCHANGED <<pool, idx>>
       ELSE IF Fd > 0 /\ Fd \in pool.ready_set
            THEN smain' = "read" /\ pool' = [pool EXCEPT !.nready = @ - 1] /\ UNCHANGED idx
       ELSE idx' = idx + 1 /\ UNCHANGED <<smain, pool>>
    /\ UNCHANGED <<part, byte_cnt, sfds, sc>>

(* Mutant: byte_cnt is not updated.                                        *)
EchoUncounted(c, line) == /\ sc' = [sc EXCEPT ![c].got = Append(@, line), ![c].wire = << >>]
                          /\ smain' = "check" /\ idx' = idx + 1 /\ part' = << >>
                          /\ UNCHANGED <<pool, sfds, byte_cnt>>

Echo(c, line) == /\ sc' = [sc EXCEPT ![c].got = Append(@, line), ![c].wire = << >>]
                 /\ byte_cnt' = byte_cnt + Len(line)
                 /\ smain' = "check" /\ idx' = idx + 1 /\ part' = << >>
                 /\ UNCHANGED <<pool, sfds>>

(* Rio_readlineb on a copy of the rio_t, and the echo.  A read takes all   *)
(* that is there: what follows the line is in the copy, and lost with it.  *)
(* Without a newline the call waits for more.                              *)
read_line ==
    /\ smain = "read" /\ sfds[Fd] # 0
    /\ \E c \in {sfds[Fd]} : \E bytes \in {part \o sc[c].wire} :
         \/ sc[c].st = "reset" /\ smain' = "exit" /\ UNCHANGED <<pool, idx, part, byte_cnt, sfds, sc>>
         \/ /\ sc[c].st # "reset" /\ "n" \in Range(bytes)
            /\ Echo(c, SubSeq(bytes, 1, Min({k \in DOMAIN bytes : bytes[k] = "n"})))
         \/ /\ sc[c].st # "reset" /\ "n" \notin Range(bytes) /\ sc[c].wire # << >>
            /\ part' = bytes /\ sc' = [sc EXCEPT ![c].wire = << >>]
            /\ UNCHANGED <<smain, pool, idx, byte_cnt, sfds>>
         \/ /\ sc[c].st = "closed" /\ "n" \notin Range(bytes) /\ sc[c].wire = << >> /\ part # << >>
            /\ Echo(c, part)

(* The end of the stream, before any byte of a line.                       *)
read_eof == /\ smain = "read" /\ part = << >>
            /\ Owner(Fd).st = "closed" /\ Owner(Fd).wire = << >>
            /\ sfds' = [sfds EXCEPT ![Fd] = 0]
            /\ pool' = [pool EXCEPT !.read_set = @ \ {Fd}, !.clientfd[idx] = NoClient]
            /\ smain' = "check" /\ idx' = idx + 1
            /\ UNCHANGED <<part, byte_cnt, sc>>

SelServer == \/ Select \/ (\E c \in SClients : AcceptAdd(c)) \/ check_clients \/ read_line \/ read_eof
SelClient(c) == SelConnect(c) \/ SelSend(c) \/ SelClose(c) \/ SelReset(c)
SelNext == (SelServer \/ \E c \in SClients : SelClient(c)) /\ UNCHANGED habit

SelFairness == WF_selvars(SelServer /\ UNCHANGED habit)

----------------------------------------------------------------------------
(* Between two calls the pool describes the open connections: a slot for   *)
(* each, the read set those and the listening descriptor, all below the    *)
(* limits that select and the scan of the slots go to.                     *)
PoolConsistent ==
    smain \in {"select", "check"} =>
        LET used == {i \in Slots : pool.clientfd[i] # NoClient}
            open == {f \in DOMAIN sfds : sfds[f] # 0}
        IN /\ {pool.clientfd[i] : i \in used} = open /\ Cardinality(used) = Cardinality(open)
           /\ pool.read_set = open \cup {Listenfd}
           /\ \A f \in pool.read_set : f <= pool.maxfd
           /\ \A i \in used : i <= pool.maxi
           /\ pool.nready >= 0

(* A client that waits for each line to come back gets every line it sent, *)
(* in order and once, though the buffer is a copy; byte_cnt is what was    *)
(* sent back to all of them.                                               *)
LockstepEchoed ==
    /\ \A c \in SClients : habit[c] = "lockstep" =>
         /\ \A k \in DOMAIN sc[c].got : sc[c].got[k] = Line
         /\ Len(sc[c].got) + (IF sc[c].wire = << >> THEN 0 ELSE 1) = sc[c].sent
    /\ byte_cnt = SumFunction([c \in SClients |-> Len(FlattenSeq(sc[c].got))])

(* A line of such a client comes back, unless the server has ended or      *)
(* waits for the rest of a line of another.                                *)
LockstepServed ==
    \A c \in SClients : (habit[c] = "lockstep" /\ sc[c].wire # << >>) ~>
        (sc[c].wire = << >> \/ smain = "exit" \/ (smain = "read" /\ sfds[Fd] # c))
=============================================================================
