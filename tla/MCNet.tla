-------------------------------- MODULE MCNet -------------------------------
(***************************************************************************)
(* The programs of the proxy lab on small instances.  A behaviour runs one *)
(* of them, chosen by mode, and the state of the others stays initial: the *)
(* model of the bytes (Rio) and of the opening of sockets (Sockets) is     *)
(* that of the library they share, and they use its results.               *)
(***************************************************************************)
EXTENDS CsApp, Proxy, Tiny, EchoDemos, ThreadDemos, TLC

CONSTANT Modes   \* those checked

VARIABLE mode

MCStreams == {<< >>, <<"a", "b", "c", "d", "n", "e">>, <<"a", "n", "n", "b", "c", "n">>}

Uri(h, p, f, t) == [host |-> h, port |-> p, path |-> f, tail |-> t]
MCUris == <<{Uri("web", "none", "/f", "none"), Uri("web", "8080", "/f", "none"), Uri("web", "none", "/f", "8080"),
             Uri("web", "none", "/a", "b"), Uri("bin", "8080", "none", "none"),
             Uri("slow", "none", "none", "none"), Uri("down", "none", "/f", "none")},
            {Uri("web", "none", "/g", "none"), Uri("slow", "none", "none", "none")}>>

MCSubstrings == [n \in {"none", "/", "/secret", "12"} |-> {}]
              @@ ("/a.html.gif" :> {".html", ".gif"}) @@ ("/x.png" :> {".png"}) @@ ("/e.jpg" :> {".jpg"})
              @@ [n \in {"/cgi-bin/adder", "/cgi-bin/bad", "cgi-bin"} |-> {"cgi-bin"}]
              @@ ("1&2" :> {"&"})
FileOf(read, exec, empty, runs) ==
    [kind |-> "regular", read |-> read, exec |-> exec, empty |-> empty, runs |-> runs]
Plain(p) == <<p, "none", FALSE>>
MCFiles == (<<"/", "none", TRUE>> :> FileOf(TRUE, FALSE, FALSE, FALSE))
           @@ (Plain("/a.html.gif") :> FileOf(TRUE, FALSE, FALSE, FALSE))
           @@ (Plain("/e.jpg") :> FileOf(TRUE, FALSE, TRUE, FALSE))
           @@ (Plain("/secret") :> FileOf(FALSE, FALSE, FALSE, FALSE))
           @@ (Plain("/") :> [FileOf(TRUE, TRUE, FALSE, FALSE) EXCEPT !.kind = "directory"])
           @@ (Plain("/cgi-bin/adder") :> FileOf(FALSE, TRUE, FALSE, TRUE))
           @@ (Plain("/cgi-bin/bad") :> FileOf(TRUE, TRUE, FALSE, FALSE))
Get(p, q, slash, sends) == [method |-> "GET", path |-> p, query |-> q, slash |-> slash, sends |-> sends]
Various ==
    {Get("/", "none", TRUE, s) : s \in {"all", "nothing", "cut line", "cut", "stalls"}}
    \cup {Get(p, "none", FALSE, "all") : p \in {"/", "/secret", "/a.html.gif", "/x.png", "/e.jpg"}}
    \cup {Get("/cgi-bin/adder", "1&2", FALSE, "all"), Get("/cgi-bin/adder", "12", FALSE, "all"),
          Get("/cgi-bin/bad", "1&2", FALSE, "all"), Get("/secret", "cgi-bin", FALSE, "all"),
          Get("/", "12", TRUE, "all"), [Get("/", "none", TRUE, "all") EXCEPT !.method = "POST"]}
MCRequests == <<Various, {Get("/", "none", TRUE, "all"), Get("/", "none", TRUE, "cut line"),
                          Get("/cgi-bin/adder", "1&2", FALSE, "all")}>>

MCHabits == {<<"lockstep", "lockstep", h>> : h \in {"burst", "partial"}}
MCMaxLines == <<2, 1, 2>>

netvars == <<rvars, sockvars, pvars, tinyvars, selvars, echovars, dvars, mode>>

RioIdle == RioInit /\ stream = << >>
SockIdle == SockInit /\ which = "client"
SelIdle == SelInit /\ habit[3] = "burst"
EIdle == EInit /\ ek = "i"
DIdle == demo = "race" /\ dm = "end" /\ Fresh

Init ==
    /\ mode \in Modes
    /\ IF mode = "rio" THEN RioInit ELSE RioIdle
    /\ IF mode = "sockets" THEN SockInit ELSE SockIdle
    /\ PInit /\ TinyInit
    /\ IF mode = "select" THEN SelInit ELSE SelIdle
    /\ IF mode = "echo" THEN EInit ELSE EIdle
    /\ IF mode = "threads" THEN DInit ELSE DIdle

Next == \/ mode = "rio" /\ RioNext
           /\ UNCHANGED <<sockvars, pvars, tinyvars, selvars, echovars, dvars, mode>>
        \/ mode = "sockets" /\ SockNext
           /\ UNCHANGED <<rvars, pvars, tinyvars, selvars, echovars, dvars, mode>>
        \/ mode = "proxy" /\ PNext
           /\ UNCHANGED <<rvars, sockvars, tinyvars, selvars, echovars, dvars, mode>>
        \/ mode = "tiny" /\ TinyNext
           /\ UNCHANGED <<rvars, sockvars, pvars, selvars, echovars, dvars, mode>>
        \/ mode = "select" /\ SelNext
           /\ UNCHANGED <<rvars, sockvars, pvars, tinyvars, echovars, dvars, mode>>
        \/ mode = "echo" /\ ENext
           /\ UNCHANGED <<rvars, sockvars, pvars, tinyvars, selvars, dvars, mode>>
        \/ mode = "threads" /\ DNext
           /\ UNCHANGED <<rvars, sockvars, pvars, tinyvars, selvars, echovars, mode>>

Spec == /\ Init /\ [][Next]_netvars
        /\ PFairness /\ TinyFairness /\ SelFairness /\ EFairness /\ DFairness

(* What must eventually happen: requests are answered, lines are echoed,   *)
(* connections are released and the thread demos end.                      *)
EveryoneServed == /\ EveryRequestAnswered /\ TinyServes
                  /\ LockstepServed /\ ConnectionsReleased /\ EchoServed
                  /\ DemosEnd
=============================================================================
