-------------------------------- MODULE Rio ---------------------------------
(***************************************************************************)
(* The robust I/O package, 7_ProxyLab/proxylab-handout/csapp.c: one side   *)
(* sends messages with rio_writen, the other reads them through a rio_t    *)
(* with rio_readlineb and rio_readnb in any mixture.  read and write may   *)
(* transfer less than asked, be interrupted, fail, and meet the end of the *)
(* stream in the middle of a line.                                         *)
(***************************************************************************)
EXTENDS Integers, Sequences, SequencesExt

CONSTANTS Streams,     \* what may be sent: sequences of bytes, "n" is the newline
          MaxLine,     \* maxlen of rio_readlineb
          RioBufSize,  \* RIO_BUFSIZE
          Capacity     \* of the connection

ASSUME RioAssumption == /\ Streams \subseteq Seq(STRING)
                       /\ MaxLine \in Nat \ {0} /\ RioBufSize \in Nat \ {0} /\ Capacity \in Nat \ {0}

VARIABLES stream,   \* history: all that is to be sent
          outleft,  \* of rio_writen: the bytes not yet written
          wire,     \* written and not yet read
          wclosed,  \* the sender has closed
          riobuf,   \* the unread bytes of rio_buf
          call,     \* the call in progress: [op, n], op = "none" between two
          usrbuf,   \* what it has stored so far
          got,      \* history: [op, n, bytes] of the calls that returned, in order
          rerr      \* a call failed

rvars == <<stream, outleft, wire, wclosed, riobuf, call, usrbuf, got, rerr>>

NoCall == [op |-> "none", n |-> 0]

(* rio_readinitb on the reader's side.                                     *)
RioInit == /\ stream \in Streams /\ outleft = stream /\ wire = << >> /\ wclosed = FALSE
           /\ riobuf = << >> /\ call = NoCall /\ usrbuf = << >> /\ got = << >> /\ rerr = FALSE

(* rio_writen: write takes some of the bytes, or none (interrupted), or    *)
(* fails for good, and then the sender gives up.                           *)
rio_writen == /\ ~wclosed /\ outleft # << >>
              /\ \/ \E k \in 0 .. Len(outleft) :
                      /\ Len(wire) + k <= Capacity
                      /\ wire' = wire \o SubSeq(outleft, 1, k)
                      /\ outleft' = SubSeq(outleft, k + 1, Len(outleft))
                      /\ UNCHANGED wclosed
                 \/ wclosed' = TRUE /\ UNCHANGED <<wire, outleft>>
              /\ UNCHANGED <<stream, riobuf, call, usrbuf, got, rerr>>

RioClose == /\ ~wclosed /\ outleft = << >> /\ wclosed' = TRUE
         /\ UNCHANGED <<stream, outleft, wire, riobuf, call, usrbuf, got, rerr>>

RioCall == /\ call = NoCall /\ ~rerr /\ usrbuf' = << >>
        /\ call' \in {[op |-> "line", n |-> MaxLine], [op |-> "nb", n |-> 2]}
        /\ UNCHANGED <<stream, outleft, wire, wclosed, riobuf, got, rerr>>

RioReturn(bytes) == /\ got' = Append(got, [op |-> call.op, n |-> call.n, bytes |-> bytes])
                 /\ call' = NoCall

(* The refill of rio_read when rio_cnt is 0: some of the bytes there are,  *)
(* the end of the stream, which ends the call with what it has, or an      *)
(* error.                                                                  *)
rio_refill == /\ call # NoCall /\ riobuf = << >>
              /\ \/ \E k \in 1 .. Len(wire) :
                      /\ k <= RioBufSize
                      /\ riobuf' = SubSeq(wire, 1, k) /\ wire' = SubSeq(wire, k + 1, Len(wire))
                      /\ UNCHANGED <<call, got, rerr>>
                 \/ wire = << >> /\ wclosed /\ RioReturn(usrbuf) /\ UNCHANGED <<riobuf, wire, rerr>>
                 \/ rerr' = TRUE /\ call' = NoCall /\ UNCHANGED <<riobuf, wire, got>>
              /\ UNCHANGED <<stream, outleft, wclosed, usrbuf>>

(* Mutant: a long line is cut when its buffer is full, after one more byte *)
(* has been taken from the stream.                                         *)
DropsAtLimit == /\ call.op = "line" /\ riobuf # << >>
                /\ riobuf' = Tail(riobuf)
                /\ IF Len(usrbuf) + 1 = call.n THEN RioReturn(usrbuf) /\ UNCHANGED usrbuf
                   ELSE /\ usrbuf' = Append(usrbuf, Head(riobuf))
                        /\ IF Head(riobuf) = "n" THEN RioReturn(usrbuf') ELSE UNCHANGED <<call, got>>
                /\ UNCHANGED <<stream, outleft, wire, wclosed, rerr>>

(* rio_readlineb: one byte at a time, up to a newline or n - 1 bytes.      *)
rio_readlineb == /\ call.op = "line"
                 /\ IF Len(usrbuf) + 1 = call.n THEN RioReturn(usrbuf) /\ UNCHANGED <<riobuf, usrbuf>>
                    ELSE /\ riobuf # << >> /\ riobuf' = Tail(riobuf)
                         /\ usrbuf' = Append(usrbuf, Head(riobuf))
                         /\ IF Head(riobuf) = "n" THEN RioReturn(usrbuf') ELSE UNCHANGED <<call, got>>
                 /\ UNCHANGED <<stream, outleft, wire, wclosed, rerr>>

(* Mutant: what one read has brought is returned.                          *)
OneRead == /\ call.op = "nb" /\ riobuf # << >>
           /\ \E cnt \in {IF Len(riobuf) < call.n THEN Len(riobuf) ELSE call.n} :
                /\ usrbuf' = SubSeq(riobuf, 1, cnt)
                /\ riobuf' = SubSeq(riobuf, cnt + 1, Len(riobuf))
           /\ RioReturn(usrbuf')
           /\ UNCHANGED <<stream, outleft, wire, wclosed, rerr>>

(* rio_readnb: as much as rio_buf has of what is left to read, until n.    *)
rio_readnb == /\ call.op = "nb" /\ riobuf # << >>
              /\ \E cnt \in {IF Len(riobuf) < call.n - Len(usrbuf) THEN Len(riobuf)
                             ELSE call.n - Len(usrbuf)} :
                   /\ usrbuf' = usrbuf \o SubSeq(riobuf, 1, cnt)
                   /\ riobuf' = SubSeq(riobuf, cnt + 1, Len(riobuf))
              /\ IF Len(usrbuf') = call.n THEN RioReturn(usrbuf') ELSE UNCHANGED <<call, got>>
              /\ UNCHANGED <<stream, outleft, wire, wclosed, rerr>>

(* The reader stops at a return of 0.                                      *)
AtEof == got # << >> /\ Last(got).bytes = << >>

RioNext == rio_writen \/ RioClose \/ (~AtEof /\ RioCall) \/ rio_refill \/ rio_readlineb \/ rio_readnb

----------------------------------------------------------------------------
Delivered == FlattenSeq([k \in DOMAIN got |-> got[k].bytes])

(* No byte is lost, repeated or moved between two calls, whatever the      *)
(* mixture of calls and however short the reads and writes: what was       *)
(* returned, is being returned, waits in rio_buf, is on its way or is not  *)
(* written yet is what is to be sent, in that order.                       *)
RioExact == ~rerr => Delivered \o (IF call = NoCall THEN << >> ELSE usrbuf) \o riobuf \o wire \o outleft
                     = stream

(* A line ends at its newline or is as long as the buffer allows; a call   *)
(* returns less only at the end of the stream.                             *)
RioShortOnlyAtEof ==
    \A k \in DOMAIN got :
        LET b == got[k].bytes
        IN /\ got[k].op = "line" => /\ \A x \in 1 .. Len(b) - 1 : b[x] # "n"
                                    /\ Len(b) < got[k].n
           /\ Len(b) <= got[k].n
           /\ \/ got[k].op = "line" /\ (Len(b) = got[k].n - 1 \/ (b # << >> /\ Last(b) = "n"))
              \/ got[k].op = "nb" /\ Len(b) = got[k].n
              \/ wclosed /\ wire = << >>
=============================================================================
