----------------------------- MODULE EchoServers ----------------------------
(***************************************************************************)
(* The echo servers that serve a connection to its end before or beside    *)
(* the next: netp/echoserveri.c (iterative, "i"), conc/echoserverp.c (a    *)
(* process for each, "p"), conc/echoservert.c (a thread for each, "t") and *)
(* conc/select.c (iterative, with commands from stdin, "s"), with          *)
(* netp/echo.c and the client netp/echoclient.c, of 7_ProxyLab/demoCode.   *)
(***************************************************************************)
EXTENDS Integers, Sequences, FiniteSets, FiniteSetsExt

CONSTANTS EKinds, EClients,
          MaxTyped     \* bound: lines typed at a client

ASSUME EchoServersAssumption == /\ IsFiniteSet(EClients) /\ 0 \notin EClients
                                /\ EKinds \subseteq {"i", "p", "t", "s"}

Main == 0
Workers == 1 .. Cardinality(EClients)
Parties == {Main} \cup Workers

VARIABLES ek,       \* which server
          em,       \* where its main loop is; "exit" when the server is gone
          conn,     \* the connection main has accepted
          wk,       \* processes or threads: [pc, arg, for]
          cell,     \* t: the ints on the heap that threads are given
          hold,     \* who has a descriptor of the connection (threads share main's)
          sigchld,  \* p: SIGCHLD is pending
          handling, \* p: the handler runs
          stdin,    \* s: "quiet", "line", "eof"
          ec        \* the clients: [st, typed, wire, back, printed]

echovars == <<ek, em, conn, wk, cell, hold, sigchld, handling, stdin, ec>>

EUp == em # "exit"
EInit == /\ ek \in EKinds /\ em = (IF ek = "s" THEN "select" ELSE "accept") /\ conn = 0
         /\ wk = [w \in Workers |-> [pc |-> "none", arg |-> 0, for |-> 0]]
         /\ cell = [w \in Workers |-> 0]
         /\ hold = [c \in EClients |-> {}] /\ sigchld = FALSE /\ handling = FALSE /\ stdin = "quiet"
         /\ ec = [c \in EClients |-> [st |-> "idle", typed |-> 0, wire |-> << >>, back |-> << >>,
                                      printed |-> << >>, met |-> FALSE]]

ServerState == <<em, conn, wk, cell, hold, sigchld, handling, stdin>>
(* The peer of client c has closed the connection.                         *)
Dropped(c) == ~EUp \/ (ec[c].met /\ hold[c] = {})

(* echoclient: Open_clientfd; a line is written; Rio_readlineb, whose      *)
(* result is not looked at: at the end of the stream the buffer still      *)
(* holds the line that was typed, and that is printed; Close at the end of *)
(* its input.  It may be killed, which resets the connection.              *)
ClientOpens(c) == /\ ec[c].st = "idle" /\ EUp /\ ec' = [ec EXCEPT ![c].st = "type"]
                  /\ UNCHANGED <<ek, ServerState>>
ClientWrites(c) == /\ ec[c].st = "type" /\ ec[c].typed < MaxTyped
                   /\ ec' = [ec EXCEPT ![c].st = "await", ![c].typed = @ + 1,
                                       ![c].wire = IF Dropped(c) THEN @ ELSE Append(@, <<c, ec[c].typed + 1>>)]
                   /\ UNCHANGED <<ek, ServerState>>
Prints(c, line, echoed) == [ec EXCEPT ![c].st = "type",
                               ![c].printed = Append(@, [line |-> line, echoed |-> echoed])]
ClientReads(c) == /\ ec[c].st = "await"
                  /\ \/ /\ ec[c].back # << >>
                        /\ ec' = [Prints(c, Head(ec[c].back), TRUE) EXCEPT ![c].back = Tail(@)]
                     \/ /\ ec[c].back = << >> /\ Dropped(c)
                        /\ \/ ec' = Prints(c, <<c, ec[c].typed>>, FALSE)
                           \/ ec' = [ec EXCEPT ![c].st = "failed"]
                  /\ UNCHANGED <<ek, ServerState>>
ClientCloses(c) == /\ ec[c].st = "type" /\ ec' = [ec EXCEPT ![c].st = "closed"]
                   /\ UNCHANGED <<ek, ServerState>>
ClientKilled(c) == /\ ec[c].st \in {"type", "await"}
                   /\ ec' = [ec EXCEPT ![c].st = "killed", ![c].wire = << >>, ![c].back = << >>]
                   /\ UNCHANGED <<ek, ServerState>>
UserTypes == /\ ek = "s" /\ stdin = "quiet" /\ stdin' \in {"line", "eof"}
             /\ UNCHANGED <<ek, em, conn, wk, cell, hold, sigchld, handling, ec>>

Pending(c) == ec[c].st # "idle" /\ ~ec[c].met
NextWorker == Min({w \in Workers : wk[w].pc = "none"})

(* select.c: Select, and command, which exits at the end of stdin; then    *)
(* the listening descriptor, if it was ready.                              *)
SelectEither == /\ em = "select"
                /\ \E waiting \in {\E c \in EClients : Pending(c)} :
                     /\ stdin # "quiet" \/ waiting
                     /\ em' = (IF stdin = "eof" THEN "exit" ELSE IF waiting THEN "accept" ELSE "select")
                     /\ stdin' = (IF stdin = "line" THEN "quiet" ELSE stdin)
                /\ UNCHANGED <<ek, conn, wk, cell, hold, sigchld, handling, ec>>

(* Accept; in t after Malloc.                                              *)
EAccept(c) == /\ em = "accept" /\ ~handling /\ Pending(c)
              /\ conn' = c /\ hold' = [hold EXCEPT ![c] = {Main}]
              /\ ec' = [ec EXCEPT ![c].met = TRUE]
              /\ cell' = (IF ek = "t" THEN [cell EXCEPT ![NextWorker] = c] ELSE cell)
              /\ em' = (CASE ek = "p" -> "fork" [] ek = "t" -> "create" [] OTHER -> "echo")
              /\ UNCHANGED <<ek, wk, sigchld, handling, stdin>>

EFork == /\ em = "fork" /\ ~handling /\ em' = "close"
         /\ \E w \in {NextWorker} :
              /\ wk' = [wk EXCEPT ![w] = [pc |-> "echo", arg |-> 0, for |-> conn]]
              /\ hold' = [hold EXCEPT ![conn] = @ \cup {w}]
         /\ UNCHANGED <<ek, conn, cell, sigchld, handling, stdin, ec>>

(* Mutant: the parent keeps its descriptor of the connection.              *)
ParentKeeps == /\ em = "close" /\ ~handling /\ em' = "accept"
               /\ UNCHANGED <<ek, conn, hold, wk, cell, sigchld, handling, stdin, ec>>

(* Mutant: the parent waits for the child it forked.                       *)
ParentWaits == /\ em = "close" /\ ~handling /\ em' = "accept"
               /\ \A w \in Workers : wk[w].pc # "echo"
               /\ hold' = [hold EXCEPT ![conn] = @ \ {Main}]
               /\ UNCHANGED <<ek, conn, wk, cell, sigchld, handling, stdin, ec>>

ParentCloses == /\ em = "close" /\ ~handling /\ em' = "accept"
                /\ hold' = [hold EXCEPT ![conn] = @ \ {Main}]
                /\ UNCHANGED <<ek, conn, wk, cell, sigchld, handling, stdin, ec>>

(* Pthread_create.                                                         *)
ECreate == /\ em = "create" /\ em' = "accept"
           /\ \E w \in {NextWorker} : wk' = [wk EXCEPT ![w] = [pc |-> "copy", arg |-> w, for |-> 0]]
           /\ UNCHANGED <<ek, conn, cell, hold, sigchld, handling, stdin, ec>>

(* Mutant: the thread is given the address of main's variable.             *)
CopiesMain(w) == /\ EUp /\ wk[w].pc = "copy"
                 /\ wk' = [wk EXCEPT ![w].pc = "echo", ![w].for = conn]
                 /\ cell' = [cell EXCEPT ![wk[w].arg] = 0]
                 /\ UNCHANGED <<ek, em, conn, hold, sigchld, handling, stdin, ec>>

(* The thread's first three lines: it copies the descriptor and frees the  *)
(* cell.                                                                   *)
ThreadCopies(w) == /\ EUp /\ wk[w].pc = "copy"
                   /\ wk' = [wk EXCEPT ![w].pc = "echo", ![w].for = cell[wk[w].arg]]
                   /\ cell' = [cell EXCEPT ![wk[w].arg] = 0]
                   /\ UNCHANGED <<ek, em, conn, hold, sigchld, handling, stdin, ec>>

(* Who runs echo, and on which connection.  A process outlives the server. *)
Echoes(x) == IF x = Main THEN em = "echo" ELSE wk[x].pc = "echo" /\ (ek = "p" \/ EUp)
Conn(x) == IF x = Main THEN conn ELSE wk[x].for

(* echo, one line.                                                         *)
echo(x) == /\ Echoes(x) /\ ec[Conn(x)].wire # << >>
           /\ ec' = [ec EXCEPT ![Conn(x)].back = Append(@, Head(ec[Conn(x)].wire)),
                               ![Conn(x)].wire = Tail(@)]
           /\ UNCHANGED <<ek, ServerState>>

(* The end of a child: its descriptors are closed, SIGCHLD is raised.      *)
ChildExits(x) == /\ wk' = [wk EXCEPT ![x].pc = "zombie"] /\ sigchld' = TRUE
                 /\ hold' = [hold EXCEPT ![Conn(x)] = @ \ {x}]
                 /\ UNCHANGED <<em, conn, cell, handling, stdin>>

(* echo ends, and the connection is closed.                                *)
echo_ends(x) ==
    /\ Echoes(x) /\ ec[Conn(x)].st = "closed" /\ ec[Conn(x)].wire = << >>
    /\ \/ ek = "p" /\ ChildExits(x)
       \/ /\ ek # "p" /\ hold' = [hold EXCEPT ![Conn(x)] = {}]
          /\ IF x = Main THEN em' = (IF ek = "s" THEN "select" ELSE "accept") /\ UNCHANGED wk
             ELSE wk' = [wk EXCEPT ![x].pc = "gone"] /\ UNCHANGED em
          /\ UNCHANGED <<conn, cell, sigchld, handling, stdin>>
    /\ UNCHANGED <<ek, ec>>

(* An error of Rio_readlineb or Rio_writen ends the process.               *)
echo_fails(x) == /\ Echoes(x) /\ ec[Conn(x)].st = "killed"
                 /\ \/ ek = "p" /\ ChildExits(x)
                    \/ ek # "p" /\ em' = "exit" /\ UNCHANGED <<conn, wk, cell, hold, sigchld, handling, stdin>>
                 /\ UNCHANGED <<ek, ec>>

(* Mutant: the handler reaps one child for each signal.                    *)
ReapsOne == /\ handling
            /\ \/ \E w \in Workers : wk[w].pc = "zombie" /\ wk' = [wk EXCEPT ![w].pc = "gone"] /\ handling' = FALSE
               \/ (\A w \in Workers : wk[w].pc # "zombie") /\ handling' = FALSE /\ UNCHANGED wk
            /\ UNCHANGED <<ek, em, conn, cell, hold, sigchld, stdin, ec>>

(* The loop of sigchld_handler.                                            *)
sigchld_handler == /\ handling
                   /\ \/ \E w \in Workers : wk[w].pc = "zombie" /\ wk' = [wk EXCEPT ![w].pc = "gone"]
                         /\ UNCHANGED handling
                      \/ (\A w \in Workers : wk[w].pc # "zombie") /\ handling' = FALSE /\ UNCHANGED wk
                   /\ UNCHANGED <<ek, em, conn, cell, hold, sigchld, stdin, ec>>
Deliver == /\ sigchld /\ ~handling /\ handling' = TRUE /\ sigchld' = FALSE
           /\ UNCHANGED <<ek, em, conn, wk, cell, hold, stdin, ec>>

EMainStep == SelectEither \/ (\E c \in EClients : EAccept(c)) \/ EFork \/ ParentCloses \/ ECreate
EPartyStep(x) == echo(x) \/ echo_ends(x) \/ echo_fails(x)
EWorkerStep(w) == ThreadCopies(w)
ClientStep(c) == ClientOpens(c) \/ ClientWrites(c) \/ ClientReads(c) \/ ClientCloses(c) \/ ClientKilled(c)

ENext == \/ EMainStep \/ sigchld_handler \/ Deliver \/ UserTypes
         \/ \E x \in Parties : EPartyStep(x)
         \/ \E w \in Workers : EWorkerStep(w)
         \/ \E c \in EClients : ClientStep(c)

EFairness == /\ WF_echovars(EMainStep) /\ WF_echovars(sigchld_handler \/ Deliver)
             /\ \A x \in Parties : WF_echovars(EPartyStep(x))
             /\ \A w \in Workers : WF_echovars(EWorkerStep(w))
             /\ \A c \in EClients : WF_echovars(ClientReads(c))

----------------------------------------------------------------------------
(* What a client prints as echoed is what it typed, in order: no worker    *)
(* serves a connection it was not started for, though main goes on and     *)
(* uses its variables again.  A line that was never echoed is printed only *)
(* once the server has dropped the connection.                             *)
PrintedIsEchoed ==
    \A c \in EClients :
        /\ \A k \in DOMAIN ec[c].printed : /\ ec[c].printed[k].line = <<c, k>>
                                           /\ ~ec[c].printed[k].echoed => Dropped(c)
        /\ \A w \in Workers : wk[w].pc = "echo" => wk[w].for # 0 /\ ~\E v \in Workers \ {w} :
                                 wk[v].pc = "echo" /\ wk[v].for = wk[w].for

(* SIGCHLD is not queued: signals of children that end together are one.   *)
(* Still no child stays a zombie once the handler has returned.            *)
NoZombieLeft == ~sigchld /\ ~handling => \A w \in Workers : wk[w].pc # "zombie"

(* The connection of a client that closed is given up by all that hold it, *)
(* the parent of the process that served it included.                      *)
ConnectionsReleased == \A c \in EClients : (ec[c].met /\ ec[c].st = "closed") ~> (hold[c] = {} \/ ~EUp)

(* A client of a server with a process or a thread for each connection     *)
(* gets an answer to its line, be it the end of the stream, however long   *)
(* the other clients keep theirs open.                                     *)
EchoServed == \A c \in EClients : (ec[c].st = "await" /\ ek \in {"p", "t"}) ~> ec[c].st # "await"
=============================================================================
