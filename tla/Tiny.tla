-------------------------------- MODULE Tiny --------------------------------
(***************************************************************************)
(* The Tiny web server, 7_ProxyLab/proxylab-handout/tiny/tiny.c: one       *)
(* process that serves one connection after the other, static files itself *)
(* and programs in a child that it waits for.  Its wrappers end the        *)
(* process on any error.                                                   *)
(***************************************************************************)
EXTENDS Integers, Sequences, FiniteSets

CONSTANTS TClients,
          Requests,    \* of each client: [method, path, query, slash, sends]
          Substrings,    \* the substrings tiny looks for: [paths and queries -> sets]
          Files,       \* name -> [kind, read, exec, empty, runs]
          MaxRemovals  \* bound: files removed while the server runs

VARIABLES tmain,    \* where the server is; "exit", "killed" when it is gone
          serving,  \* the client it serves
          reply,    \* the message clienterror is writing
          tc,       \* the clients: [st, req, got, eof]
          removed   \* names of files that were removed

tinyvars == <<tmain, serving, reply, tc, removed>>

NoReq == [method |-> "none", path |-> "none", query |-> "none", slash |-> FALSE, sends |-> "nothing"]
NoReply == [status |-> "none", type |-> "none", body |-> "none"]
TinyUp == tmain \notin {"exit", "killed"}

TinyInit == /\ tmain = "accept" /\ serving = 0 /\ reply = NoReply /\ removed = {}
            /\ tc = [c \in TClients |-> [st |-> "idle", req |-> NoReq, got |-> << >>, eof |-> FALSE]]

(* External: a client sends a request line and headers: all of it,         *)
(* "nothing", or it closes its side after the line ("cut line") or in the  *)
(* headers ("cut"), or it stalls there.  It may reset the connection.      *)
TinyConnect(c) == /\ tc[c].st = "idle"
                  /\ \E r \in Requests[c] : tc' = [tc EXCEPT ![c].st = "queued", ![c].req = r]
                  /\ UNCHANGED <<tmain, serving, reply, removed>>
TinyReset(c) == /\ tc[c].st = "open" /\ ~tc[c].eof
                /\ tc' = [tc EXCEPT ![c].st = "reset"]
                /\ UNCHANGED <<tmain, serving, reply, removed>>
RemoveFile(f) == /\ f \notin removed /\ removed' = removed \cup {f}
                 /\ Cardinality(removed) < MaxRemovals
                 /\ UNCHANGED <<tmain, serving, reply, tc>>

TinyAccept(c) == /\ tmain = "accept" /\ tc[c].st = "queued"
                 /\ tc' = [tc EXCEPT ![c].st = "open"] /\ serving' = c /\ tmain' = "line"
                 /\ UNCHANGED <<reply, removed>>

Me == tc[serving]
Gone == Me.st = "reset"
Exits == tmain' = "exit" /\ UNCHANGED <<serving, reply, tc, removed>>
Goes(pc) == tmain' = pc /\ UNCHANGED <<serving, reply, tc, removed>>

(* Mutant: the result of Rio_readlineb is not looked at.                   *)
ReadsOn == /\ tmain = "line"
           /\ \/ Gone /\ Exits
              \/ ~Gone /\ Goes(IF Me.req.method \in {"GET", "none"} THEN "headers" ELSE "501")

(* The request line, in doit.                                              *)
doit_line == /\ tmain = "line"
             /\ \/ Gone /\ Exits
                \/ ~Gone /\ Goes(IF Me.req.sends = "nothing" THEN "close"
                                 ELSE IF Me.req.method = "GET" THEN "headers" ELSE "501")

(* read_requesthdrs.  At the end of the stream Rio_readlineb leaves buf as *)
(* it was, and the loop ends only when that is the empty line: which a     *)
(* buffer nothing was read into may hold, from an earlier call.            *)
read_requesthdrs ==
    /\ tmain = "headers"
    /\ \/ Gone /\ Exits
       \/ ~Gone /\ Me.req.sends \in {"all", "cut line"} /\ Goes("find")
       \/ ~Gone /\ Me.req.sends \in {"cut", "cut line", "nothing"} /\ Goes("spin")

Has(r, s) == s \in Substrings[r.path] \cup Substrings[r.query]

(* A name is <<path, query left in it, home.html appended>>.               *)
parse_uri(r) == IF ~Has(r, "cgi-bin")
                THEN [static |-> TRUE, file |-> <<r.path, r.query, r.slash>>, cgiargs |-> "none"]
                ELSE [static |-> FALSE, file |-> <<r.path, "none", FALSE>>, cgiargs |-> r.query]

Marks(f) == Substrings[f[1]] \cup Substrings[f[2]] \cup (IF f[3] THEN {".html"} ELSE {})
get_filetype(f) == IF ".html" \in Marks(f) THEN "text/html"
                   ELSE IF ".gif" \in Marks(f) THEN "image/gif"
                   ELSE IF ".png" \in Marks(f) THEN "image/png"
                   ELSE IF ".jpg" \in Marks(f) THEN "image/jpeg"
                   ELSE "text/plain"

Exists(f) == f \in DOMAIN Files \ removed

(* Mutant: the test for a program is that for a file.                      *)
ReadableRuns(u) == IF ~Exists(u.file) THEN "404"
                   ELSE IF Files[u.file].kind # "regular" \/ ~Files[u.file].read THEN "403"
                   ELSE IF u.static THEN "static" ELSE "dynamic"

(* The rest of doit: stat, and what is made of it.                         *)
Decide(u) == IF ~Exists(u.file) THEN "404"
             ELSE IF Files[u.file].kind # "regular" THEN "403"
             ELSE IF u.static THEN IF Files[u.file].read THEN "static" ELSE "403"
             ELSE IF Files[u.file].exec THEN "dynamic" ELSE "403"

doit_find == tmain = "find" /\ Goes(Decide(parse_uri(Me.req)))

(* A write to a client that is gone raises SIGPIPE, or fails.              *)
Write(what, pc) == IF Gone THEN tmain' \in {"killed", "exit"} /\ UNCHANGED tc
                   ELSE tmain' = pc /\ tc' = [tc EXCEPT ![serving].got = Append(@, what)]

(* clienterror: four writes, the head of the message and its body here.    *)
clienterror == /\ tmain \in {"501", "404", "403"}
               /\ Write([NoReply EXCEPT !.status = tmain, !.type = "text/html"], "error body")
               /\ reply' = [NoReply EXCEPT !.status = tmain] /\ UNCHANGED <<serving, removed>>
clienterror_body == /\ tmain = "error body"
                    /\ Write([reply EXCEPT !.body = "message"], "close") /\ reply' = NoReply
                    /\ UNCHANGED <<serving, removed>>

File == parse_uri(Me.req).file

(* serve_static: the head; then Open and Mmap, which may fail by now, and  *)
(* do for a file of no bytes; then the file.                               *)
serve_static == /\ tmain = "static"
                /\ Write([NoReply EXCEPT !.status = "200", !.type = get_filetype(File)], "map")
                /\ UNCHANGED <<serving, reply, removed>>
serve_static_map == tmain = "map" /\ (IF Exists(File) /\ ~Files[File].empty THEN Goes("body") ELSE Exits)
serve_static_body == /\ tmain = "body" /\ Write([NoReply EXCEPT !.body = File[1]], "close")
                     /\ UNCHANGED <<serving, reply, removed>>

(* serve_dynamic: two lines, and a child that is waited for.  The child    *)
(* exits when the program cannot be executed, and its writes do not end    *)
(* the server.                                                             *)
serve_dynamic == /\ tmain = "dynamic" /\ Write([NoReply EXCEPT !.status = "200"], "child")
                 /\ UNCHANGED <<serving, reply, removed>>

(* Fork, taken to succeed; Dup2, Execve and the program, here adder.c,     *)
(* which does not survive a query without "&"; Wait.                       *)
serve_dynamic_child ==
    /\ tmain = "child" /\ UNCHANGED <<serving, reply, removed>>
    /\ tmain' = "close"
    /\ IF ~Gone /\ Exists(File) /\ Files[File].runs /\ "&" \in Substrings[parse_uri(Me.req).cgiargs]
       THEN tc' = [tc EXCEPT ![serving].got = Append(@, [NoReply EXCEPT !.type = "text/html",
                                                         !.body = parse_uri(Me.req).cgiargs])]
       ELSE UNCHANGED tc

(* Mutant: the connection is not closed.                                   *)
KeepsOpen == /\ tmain = "close" /\ tmain' = "accept" /\ serving' = 0
             /\ UNCHANGED <<reply, tc, removed>>

CloseConn == /\ tmain = "close" /\ tmain' = "accept" /\ serving' = 0
             /\ tc' = [tc EXCEPT ![serving].eof = TRUE]
             /\ UNCHANGED <<reply, removed>>

ServerStep == \/ \E c \in TClients : TinyAccept(c)
              \/ doit_line \/ read_requesthdrs \/ doit_find \/ clienterror \/ clienterror_body
              \/ serve_static \/ serve_static_map \/ serve_static_body
              \/ serve_dynamic \/ serve_dynamic_child \/ CloseConn

TinyNext == \/ ServerStep
            \/ \E c \in TClients : TinyConnect(c) \/ TinyReset(c)
            \/ TinyUp /\ \E f \in DOMAIN Files : RemoveFile(f)

TinyFairness == WF_tinyvars(ServerStep)

----------------------------------------------------------------------------
Proper(c) == tc[c].req.sends = "all" /\ tc[c].st # "reset"

(* What the client is to get, from its request and the files.              *)
Promised(r) ==
    LET u == parse_uri(r)
        f == u.file
        err(n) == <<[NoReply EXCEPT !.status = n, !.type = "text/html"],
                    [NoReply EXCEPT !.status = n, !.body = "message"]>>
        ok == f \in DOMAIN Files /\ Files[f].kind = "regular"
    IN IF r.method # "GET" THEN err("501")
       ELSE IF f \notin DOMAIN Files THEN err("404")
       ELSE IF u.static /\ ok /\ Files[f].read
            THEN <<[NoReply EXCEPT !.status = "200", !.type = get_filetype(f)],
                   [NoReply EXCEPT !.body = f[1]]>>
       ELSE IF ~u.static /\ ok /\ Files[f].exec
            THEN <<[NoReply EXCEPT !.status = "200"]>>
                 \o (IF Files[f].runs /\ "&" \in Substrings[u.cgiargs]
                     THEN <<[NoReply EXCEPT !.type = "text/html", !.body = u.cgiargs]>> ELSE << >>)
       ELSE err("403")

(* Every client that sends a whole request and stays gets, when the        *)
(* connection ends, exactly one response and all of it: its own, whatever  *)
(* the clients before it did.                                              *)
TinyReplies == removed = {} => \A c \in TClients : Proper(c) /\ tc[c].eof => tc[c].got = Promised(tc[c].req)

(* The server ends only for a client that reset its connection, for a file *)
(* of no bytes, or for one removed between stat and Open; and it is caught *)
(* in its loop only for headers that end early.                            *)
TinyStopsOnlyFor ==
    /\ ~TinyUp => Gone \/ File \in removed \/ Files[File].empty
    /\ tmain = "spin" => Me.req.sends \in {"cut", "cut line"}

(* The server answers each client as promised, and ends for nothing else.  *)
TinySafe == TinyReplies /\ TinyStopsOnlyFor

(* Every whole request is served in the end, but for a server that ended,  *)
(* that loops or that waits for the headers of a client that stalls.       *)
TinyServes ==
    \A c \in TClients : (tc[c].st = "queued" /\ tc[c].req.sends = "all") ~>
        \/ tc[c].eof \/ tc[c].st = "reset" \/ ~TinyUp
        \/ tmain = "spin" \/ (tmain = "headers" /\ Me.req.sends = "stalls")
=============================================================================
