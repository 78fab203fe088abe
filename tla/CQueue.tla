------------------------------- MODULE CQueue -------------------------------
(***************************************************************************)
(* The queue of the C programming lab, queue.c, as the steps between which *)
(* the time limit of the harness can end an operation: one step per store  *)
(* that the rest of the program can see and per call of malloc or free.    *)
(* An operation returns to the label "ret" with its result in reg.rval.    *)
(***************************************************************************)
EXTENDS Harness, Sequences

VARIABLES q,                 \* the queue under test
          pc, reg,           \* where the program is, and its locals
          fail_probability   \* may malloc fail?

head == heap[q].head
tail == heap[q].tail
size == heap[q].size

At(l) == pc = l
Goto(l) == pc' = l
Return(v) == pc' = "ret" /\ reg' = [reg EXCEPT !.rval = v]
Rest == UNCHANGED <<q, modes, exceptions, fail_probability>>

(* Ends of the program inside an operation: report_event(MSG_FATAL), and   *)
(* the use of memory that was freed, after which nothing is certain.       *)
Fatal == Goto("exit1") /\ NoStore /\ UNCHANGED reg
Wild == Goto("wild") /\ NoStore /\ UNCHANGED reg

Usable(p) == heap[p].kind = "ele"

(* Dereferencing NULL: the handler of SIGSEGV has jumped, and the alarm is *)
(* not yet cancelled.                                                      *)
Segv == /\ Goto("caught") /\ NoStore
        /\ error_occurred' = TRUE /\ jmp_ready' = FALSE
        /\ UNCHANGED <<reg, q, modes, time_limited, fail_probability>>

(* p = malloc(...) for an object: what follows success, what failure.      *)
Allocate(object, Success, Failure) ==
    \/ MallocFatal /\ Fatal
    \/ ~MallocFatal /\ fail_probability /\ NoStore /\ Failure
    \/ test_malloc(object) /\ Success

Release(b, Then) == \/ FreeFatal /\ Fatal
                    \/ FreeWild(b) /\ Wild
                    \/ test_free(b) /\ Then

(* The result is stored in q when the call returns.                        *)
q_new == At("new") /\ Rest /\
    Allocate([kind |-> "queue", head |-> NULL, tail |-> NULL, size |-> 0],
             Goto("ret") /\ reg' = [reg EXCEPT !.new = NewBlock],
             Goto("ret") /\ reg' = [reg EXCEPT !.new = NULL])

(* q_free: the string and the element under lp, then the queue itself.     *)
q_free_value == /\ At("free_value") /\ Rest
                /\ \/ reg.lp = NULL /\ Release(q, Return(TRUE))
                   \/ /\ reg.lp # NULL /\ Usable(reg.lp)
                      /\ Release(heap[reg.lp].value,
                                 Goto("free_ele") /\ reg' = [reg EXCEPT !.prv = heap[reg.lp].next])
                   \/ reg.lp # NULL /\ ~Usable(reg.lp) /\ Wild

q_free_ele == /\ At("free_ele") /\ Rest
              /\ Release(reg.lp, Goto("free_value") /\ reg' = [reg EXCEPT !.lp = reg.prv])

(* q_insert_head and q_insert_tail begin alike: NULL, and two allocations  *)
(* of which the first is undone when the second fails.                     *)
q_insert_ele == /\ At("insert") /\ Rest
                /\ IF q = NULL THEN NoStore /\ Return(FALSE)
                   ELSE Allocate([kind |-> "ele", value |-> NULL, next |-> NULL],
                                 Goto("insert_value") /\ reg' = [reg EXCEPT !.new = NewBlock],
                                 Return(FALSE))

q_insert_value == /\ At("insert_value") /\ Rest
                  /\ Allocate([kind |-> "str", s |-> reg.s],
                              Goto("insert_copy") /\ reg' = [reg EXCEPT !.lp = NewBlock],
                              Goto("insert_undo") /\ UNCHANGED reg)

(* Mutant: the element is not given back when its string has no room.      *)
UndoMissing == At("insert_undo") /\ Rest /\ NoStore /\ Return(FALSE)

q_insert_undo == At("insert_undo") /\ Rest /\ Release(reg.new, Return(FALSE))

(* The fields of the new element; then the first store to the queue.       *)
q_insert_copy == /\ At("insert_copy") /\ Rest
                 /\ Store(reg.new, [kind |-> "ele", value |-> reg.lp,
                                    next |-> IF reg.fn = "ih" THEN head ELSE NULL])
                 /\ Goto(IF reg.fn = "ih" THEN "ih_tail" ELSE "it_link") /\ UNCHANGED reg

q_insert_head_tail == /\ At("ih_tail") /\ Rest /\ UNCHANGED reg
                      /\ Store(q, [heap[q] EXCEPT !.tail = IF @ = NULL THEN reg.new ELSE @])
                      /\ Goto("ih_head")

q_insert_head_head == /\ At("ih_head") /\ Rest /\ UNCHANGED reg
                      /\ Store(q, [heap[q] EXCEPT !.head = reg.new])
                      /\ Goto("insert_size")

q_insert_tail_link == /\ At("it_link")
                      /\ \/ /\ head = NULL /\ Rest /\ UNCHANGED reg
                            /\ Store(q, [heap[q] EXCEPT !.head = reg.new]) /\ Goto("it_tail")
                         \/ /\ head # NULL /\ tail # NULL /\ Rest /\ UNCHANGED reg
                            /\ IF Usable(tail)
                               THEN Store(tail, [heap[tail] EXCEPT !.next = reg.new])
                                    /\ Goto("it_tail")
                               ELSE Wild
                         \/ head # NULL /\ tail = NULL /\ Segv

(* Mutant: the tail of a queue that was empty is not set.                  *)
TailNotSet == /\ At("it_tail") /\ Rest /\ UNCHANGED reg
              /\ Store(q, [heap[q] EXCEPT !.tail = IF @ = NULL THEN @ ELSE reg.new])
              /\ Goto("insert_size")

q_insert_tail_tail == /\ At("it_tail") /\ Rest /\ UNCHANGED reg
                      /\ Store(q, [heap[q] EXCEPT !.tail = reg.new])
                      /\ Goto("insert_size")

q_insert_size == /\ At("insert_size") /\ Rest
                 /\ Store(q, [heap[q] EXCEPT !.size = @ + 1]) /\ Return(TRUE)

(* q_remove_head: the string is copied and freed, the element unlinked and *)
(* freed, the size adjusted.                                               *)
q_remove_value == /\ At("remove") /\ Rest
                  /\ IF q = NULL THEN NoStore /\ Return(FALSE)
                     ELSE IF head = NULL THEN NoStore /\ Return(FALSE)
                     ELSE IF ~Usable(head) THEN Wild
                     ELSE Release(heap[head].value,
                                  /\ Goto("remove_head")
                                  /\ reg' = [reg EXCEPT !.new = head,
                                                        !.got = heap[heap[head].value]])

q_remove_head == /\ At("remove_head") /\ Rest /\ UNCHANGED reg
                 /\ Store(q, [heap[q] EXCEPT !.head = heap[reg.new].next])
                 /\ Goto(IF heap[reg.new].next = NULL THEN "remove_tail" ELSE "remove_ele")

q_remove_tail == /\ At("remove_tail") /\ Rest /\ UNCHANGED reg
                 /\ Store(q, [heap[q] EXCEPT !.tail = NULL]) /\ Goto("remove_ele")

(* Mutant: the string is freed again instead of the element.               *)
RemoveFreesTwice == /\ At("remove_ele") /\ Rest
                    /\ Release(heap[reg.new].value, Goto("remove_size") /\ UNCHANGED reg)

q_remove_ele == /\ At("remove_ele") /\ Rest
                /\ Release(reg.new, Goto("remove_size") /\ UNCHANGED reg)

q_remove_size == /\ At("remove_size") /\ Rest
                 /\ Store(q, [heap[q] EXCEPT !.size = @ - 1]) /\ Return(TRUE)

(* q_reverse: one element is turned round, at the end head and tail.       *)
q_reverse_wild == At("reverse") /\ Rest /\ reg.lp # NULL /\ ~Usable(reg.lp) /\ Wild

(* Mutant: prv is not advanced.                                            *)
ReverseForgetsPrv == /\ At("reverse") /\ Rest /\ reg.lp # NULL /\ Usable(reg.lp) /\ Goto("reverse")
                     /\ Store(reg.lp, [heap[reg.lp] EXCEPT !.next = reg.prv])
                     /\ reg' = [reg EXCEPT !.lp = heap[reg.lp].next]

q_reverse_ele == /\ At("reverse") /\ Rest /\ reg.lp # NULL /\ Usable(reg.lp) /\ Goto("reverse")
                 /\ Store(reg.lp, [heap[reg.lp] EXCEPT !.next = reg.prv])
                 /\ reg' = [reg EXCEPT !.prv = reg.lp, !.lp = heap[reg.lp].next]

q_reverse_tail == /\ At("reverse") /\ Rest /\ reg.lp = NULL /\ Goto("reverse_head")
                  /\ Store(q, [heap[q] EXCEPT !.tail = head]) /\ UNCHANGED reg

q_reverse_head == /\ At("reverse_head") /\ Rest
                  /\ Store(q, [heap[q] EXCEPT !.head = reg.prv]) /\ Return(TRUE)

q_size == /\ At("size") /\ Rest /\ NoStore /\ Goto("ret")
          /\ reg' = [reg EXCEPT !.cnt = IF q = NULL THEN 0 ELSE size]

QueueStep == \/ q_new \/ q_free_value \/ q_free_ele
             \/ q_insert_ele \/ q_insert_value \/ q_insert_undo \/ q_insert_copy
             \/ q_insert_head_tail \/ q_insert_head_head
             \/ q_insert_tail_link \/ q_insert_tail_tail \/ q_insert_size
             \/ q_remove_value \/ q_remove_head \/ q_remove_tail \/ q_remove_ele \/ q_remove_size
             \/ q_reverse_wild \/ q_reverse_ele \/ q_reverse_tail \/ q_reverse_head
             \/ q_size

QueuePC == {"new", "free_value", "free_ele", "insert", "insert_value", "insert_copy",
            "insert_undo", "ih_tail", "ih_head", "it_link", "it_tail", "insert_size",
            "remove", "remove_head", "remove_tail", "remove_ele", "remove_size",
            "reverse", "reverse_head", "size"}

(* The elements from p on in heap h, as the program finds them by following *)
(* next; a list that is cut off by memory that was freed ends there.       *)
IsEle(h, p) == p # NULL /\ h[p].kind = "ele"
Walk(h, p) ==
    LET at[n \in 0 .. NBlocks] ==
            IF n = 0 THEN p
            ELSE LET prev == at[n - 1] IN IF IsEle(h, prev) THEN h[prev].next ELSE NULL
    IN  [k \in {n \in 1 .. NBlocks : IsEle(h, at[n - 1])} |-> at[k - 1]]

ElementsFrom(p) == Walk(heap, p)
=============================================================================
